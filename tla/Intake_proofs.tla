----------------------------- MODULE Intake_proofs -----------------------------
(***************************************************************************)
(* The theorems about Intake: what submissions that overlap with each      *)
(* other, with the staff's work and with failures keep, for any people,    *)
(* requests, pool and limits; and about DripSchedule: what a plan of       *)
(* reminders keeps, for any time, zone and other mails.                    *)
(***************************************************************************)
EXTENDS Intake, FiniteSetTheorems, FunctionTheorems, SequenceTheorems, TLAPS

Submitting == {"rule", "signals", "begin", "insert", "commit"}

\* Rule n has let the request's form through.
LetThrough(r, n) == at[r] # "rule" \/ n < rule[r]

\* What a rule that let a form through still says of every file that was there
\* when the form came in.
RulesPassed(r) ==
  at[r] \in Submitting =>
    \A k \in DOMAIN file \ newer[r] : file[k].person = who[r] =>
      /\ LetThrough(r, 1) => file[k].state \in {"declined", "closed"}
      /\ LetThrough(r, 2) => file[k].state # "declined" \/ file[k].aged

FlagTells(r) ==
  at[r] \in {"begin", "insert", "commit"} =>
    \A k \in DOMAIN file \ newer[r] :
      Similar(who[r], file[k].person) >= 2 => flag[r]

StartsAtOne == \A r \in Request : at[r] = "idle" => rule[r] = 1

IInv == /\ TypeOK
        /\ StartsAtOne
        /\ \A r \in Request : RulesPassed(r) /\ FlagTells(r)
        /\ OneFileInFlight
        /\ DeclinedWaitsFromSubmission
        /\ LookalikesAreFlagged
        /\ OnlyFailedInsertsLeak

\* Past the check of the limit, and not yet counted by it.
Guessing == {r \in Request : at[r] \in {"find", "record"}}

LookupInv ==
  rows + Cardinality(Guessing) <= LOOKUP_ATTEMPT_LIMIT - 1 + Cardinality(Request)
-----------------------------------------------------------------------------
(* Counting requests *)

\* A request that joins a set or leaves it changes its size by one at most.
LEMMA Counting ==
  ASSUME NEW S \in SUBSET Request, NEW r \in Request
  PROVE  /\ Cardinality(S) \in Nat
         /\ Cardinality(S) <= Cardinality(Request)
         /\ Cardinality(Request) \in Nat
         /\ r \in S => Cardinality(S) # 0
         /\ r \notin S => Cardinality(S \cup {r}) = Cardinality(S) + 1
         /\ r \in S => Cardinality(S \ {r}) = Cardinality(S) - 1
<1>1. IsFiniteSet(S) /\ Cardinality(S) <= Cardinality(Request)
  BY RequestAssumption, FS_Subset
<1>2. Cardinality(S) \in Nat /\ Cardinality(Request) \in Nat
  BY <1>1, RequestAssumption, FS_CardinalityType
<1>3. r \in S => Cardinality(S) # 0  BY <1>1, FS_EmptySet
<1>4. r \notin S => Cardinality(S \cup {r}) = Cardinality(S) + 1
  BY <1>1, FS_AddElement
<1>5. r \in S => Cardinality(S \ {r}) = Cardinality(S) - 1
  BY <1>1, FS_RemoveElement
<1> QED  BY <1>1, <1>2, <1>3, <1>4, <1>5

-----------------------------------------------------------------------------
(* Steps that commit no file *)

\* The other requests stay where they are.
Alone(r) ==
  \A q \in Request \ {r} :
    /\ at'[q] = at[q] /\ who'[q] = who[q] /\ rule'[q] = rule[q]
    /\ flag'[q] = flag[q] /\ held'[q] = held[q] /\ newer'[q] = newer[q]

\* The requests' own variables, in a state in which the files are f.
RequestTyped(f) ==
  /\ at \in [Request -> Step] /\ who \in [Request -> Person]
  /\ rule \in [Request -> 1..3] /\ flag \in [Request -> BOOLEAN]
  /\ held \in [Request -> 0..Len(f)]
  /\ newer \in [Request -> SUBSET DOMAIN f]
  /\ \A r \in Request : (held[r] # 0) <=> (at[r] \in {"mail", "plan"})

LEMMA SomePerson == (CHOOSE p \in Person : TRUE) \in Person
BY PersonAssumption

LEMMA FilesCounted == TypeOK => Len(file) \in Nat /\ DOMAIN file = 1..Len(file)
BY LenProperties DEF TypeOK

LEMMA DoneTyped ==
  ASSUME TypeOK, NEW r \in Request, Done(r), file' = file
  PROVE  /\ RequestTyped(file)' /\ Alone(r)
         /\ at' = [at EXCEPT ![r] = "idle"] /\ rule'[r] = 1 /\ held'[r] = 0
  BY SomePerson, FilesCounted DEF TypeOK, Done, RequestTyped, Alone, Step

LEMMA GotoTyped ==
  ASSUME TypeOK, NEW r \in Request, NEW there \in Step, Goto(r, there),
         file' = file,
         (there \in {"mail", "plan"}) <=> (at[r] \in {"mail", "plan"})
  PROVE  /\ RequestTyped(file)' /\ Alone(r)
         /\ at' = [at EXCEPT ![r] = there]
         /\ UNCHANGED <<who, rule, flag, held, newer>>
  BY DEF TypeOK, Goto, RequestTyped, Alone

LEMMA OwnKeeps ==
  ASSUME IInv, NEW r \in Request, RequestTyped(file)', Alone(r), file' = file,
         rows' \in Nat, out' \in 0..PoolSize, failed' \in Nat,
         at'[r] = "idle" => rule'[r] = 1,
         RulesPassed(r)', FlagTells(r)', OnlyFailedInsertsLeak'
  PROVE  IInv'
<1> USE DEF IInv
<1>1. TypeOK'  BY DEF TypeOK, RequestTyped
<1>2. StartsAtOne'  BY DEF StartsAtOne, Alone
<1>3. ASSUME NEW q \in Request \ {r}  PROVE RulesPassed(q)' /\ FlagTells(q)'
  <2>1. /\ at'[q] = at[q] /\ who'[q] = who[q] /\ rule'[q] = rule[q]
        /\ flag'[q] = flag[q] /\ newer'[q] = newer[q]
    BY DEF Alone
  <2>2. RulesPassed(q) /\ FlagTells(q)  OBVIOUS
  <2>3. RulesPassed(q)'  BY <2>1, <2>2 DEF RulesPassed, LetThrough
  <2>4. FlagTells(q)'  BY <2>1, <2>2 DEF FlagTells
  <2> QED  BY <2>3, <2>4
<1>4. \A q \in Request : RulesPassed(q)' /\ FlagTells(q)'
  BY <1>3
<1>5. OneFileInFlight' /\ DeclinedWaitsFromSubmission' /\ LookalikesAreFlagged'
  BY DEF OneFileInFlight, DeclinedWaitsFromSubmission, LookalikesAreFlagged
<1> QED  BY <1>1, <1>2, <1>4, <1>5

\* A request outside of a transaction goes on outside, one inside stays inside.
LEMMA SameLeak ==
  ASSUME IInv, NEW r \in Request, NEW there \in Step,
         at' = [at EXCEPT ![r] = there],
         there \in {"insert", "commit"} <=> at[r] \in {"insert", "commit"},
         UNCHANGED <<out, failed>>
  PROVE  OnlyFailedInsertsLeak'
<1>1. InTransaction' = InTransaction
  BY DEF InTransaction, IInv, TypeOK
<1> QED  BY <1>1 DEF IInv, OnlyFailedInsertsLeak

\* A request that ends, or has nothing to do with a submission.
LEMMA AsideKeeps ==
  ASSUME IInv, NEW r \in Request, NEW there \in Step \ Submitting,
         RequestTyped(file)', Alone(r),
         at' = [at EXCEPT ![r] = there], there = "idle" => rule'[r] = 1,
         at[r] \notin {"insert", "commit"},
         rows' \in Nat, UNCHANGED <<file, out, failed>>
  PROVE  IInv'
<1>1. OnlyFailedInsertsLeak'  BY SameLeak DEF Submitting
<1>2. at'[r] = there  BY DEF IInv, TypeOK
<1>3. RulesPassed(r)' /\ FlagTells(r)'
  BY <1>2 DEF RulesPassed, FlagTells, Submitting
<1>4. out' \in 0..PoolSize /\ failed' \in Nat  BY DEF IInv, TypeOK
<1> QED  BY <1>1, <1>2, <1>3, <1>4, OwnKeeps

LEMMA EndKeeps ==
  ASSUME IInv, NEW r \in Request, Done(r), at[r] \notin {"insert", "commit"},
         rows' \in Nat, UNCHANGED <<file, out, failed>>
  PROVE  IInv'
BY DoneTyped, AsideKeeps DEF IInv, Step, Submitting

LEMMA AsideSteps ==
  ASSUME IInv, NEW r \in Request,
         \/ RecordBlockedAttempt(r) \/ AcquireTimesOut(r) \/ StartSequences(r)
         \/ SendConfirmation(r) \/ Track(r)
  PROVE  IInv'
<1>1. TypeOK /\ rows \in Nat  BY DEF IInv, TypeOK
<1>2. CASE RecordBlockedAttempt(r) \/ AcquireTimesOut(r) \/ StartSequences(r)
  BY <1>1, <1>2, EndKeeps
  DEF RecordBlockedAttempt, AcquireTimesOut, StartSequences
<1>3. CASE SendConfirmation(r)
  <2>1. /\ Goto(r, "plan") /\ at[r] = "mail"
        /\ UNCHANGED <<file, rows, out, failed>>
    BY <1>3 DEF SendConfirmation
  <2>2. "plan" \in Step \ Submitting  BY DEF Step, Submitting
  <2>3. RequestTyped(file)' /\ Alone(r) /\ at' = [at EXCEPT ![r] = "plan"]
    BY <1>1, <2>1, <2>2, GotoTyped
  <2> QED  BY <1>1, <2>1, <2>2, <2>3, AsideKeeps
<1>4. ASSUME NEW there \in {"limit", "find", "record"}, Goto(r, there),
             at[r] \in {"idle", "limit", "find"},
             UNCHANGED <<file, rows, out, failed>>
      PROVE  IInv'
  <2>1. there \in Step \ Submitting /\ there # "idle"
    BY DEF Step, Submitting
  <2>2. RequestTyped(file)' /\ Alone(r) /\ at' = [at EXCEPT ![r] = there]
    BY <1>1, <1>4, <2>1, GotoTyped
  <2> QED  BY <1>1, <1>4, <2>1, <2>2, AsideKeeps
<1>5. CASE Lookup(r)  BY <1>4, <1>5 DEF Lookup
<1>6. CASE EnforceRateLimit(r)
  BY <1>1, <1>4, <1>6, EndKeeps DEF EnforceRateLimit
<1>7. CASE FindByCredentials(r)
  BY <1>1, <1>4, <1>7, EndKeeps DEF FindByCredentials
<1>8. CASE RecordFailedLookup(r)
  BY <1>1, <1>8, EndKeeps DEF RecordFailedLookup
<1> QED  BY <1>2, <1>3, <1>5, <1>6, <1>7, <1>8 DEF Track

\* The rules and the signals read the files; nobody else's reading matters.
LEMMA ReadingSteps ==
  ASSUME IInv, NEW r \in Request,
         \/ Create(r) \/ AssertNotBlocked(r) \/ FindPossibleDuplicate(r)
         \/ CreateWithUniqueId(r)
  PROVE  IInv'
<1> USE DEF IInv
<1>1. UNCHANGED <<file, rows, out, failed>>
  BY DEF Create, AssertNotBlocked, FindPossibleDuplicate, CreateWithUniqueId
<1>2. rows' \in Nat /\ out' \in 0..PoolSize /\ failed' \in Nat
  BY <1>1 DEF TypeOK
<1>3. CASE Create(r)
  <2>1. /\ at[r] = "idle" /\ at' = [at EXCEPT ![r] = "rule"]
        /\ RequestTyped(file)' /\ Alone(r) /\ rule' = rule
    BY <1>1, <1>3 DEF Create, TypeOK, RequestTyped, Alone, Step
  <2>2. at'[r] = "rule" /\ rule'[r] = 1  BY <2>1 DEF TypeOK, StartsAtOne
  <2>3. RulesPassed(r)' /\ FlagTells(r)'
    BY <2>2 DEF RulesPassed, FlagTells, LetThrough
  <2>4. OnlyFailedInsertsLeak'  BY <1>1, <2>1, SameLeak DEF Step
  <2> QED  BY <1>1, <1>2, <2>1, <2>2, <2>3, <2>4, OwnKeeps
<1>4. CASE AssertNotBlocked(r)
  <2>1. CASE \E k \in DOMAIN file : file[k].person = who[r] /\ Blocks(file[k], rule[r])
    <3>1. Goto(r, "blocked") /\ at[r] = "rule"  BY <1>4, <2>1 DEF AssertNotBlocked
    <3>2. "blocked" \in Step \ Submitting  BY DEF Step, Submitting
    <3>3. RequestTyped(file)' /\ Alone(r) /\ at' = [at EXCEPT ![r] = "blocked"]
      BY <1>1, <3>1, <3>2, GotoTyped
    <3> QED  BY <1>1, <1>2, <3>1, <3>2, <3>3, AsideKeeps
  <2>2. CASE ~\E k \in DOMAIN file : file[k].person = who[r] /\ Blocks(file[k], rule[r])
    <3>1. /\ at[r] = "rule" /\ UNCHANGED <<who, newer, flag, held>>
          /\ \/ /\ rule[r] < 3 /\ at' = at
                /\ rule' = [rule EXCEPT ![r] = @ + 1]
             \/ /\ rule[r] = 3 /\ rule' = rule
                /\ at' = [at EXCEPT ![r] = "signals"]
      <4> DEFINE Blocked ==
            \E k \in DOMAIN file : file[k].person = who[r] /\ Blocks(file[k], rule[r])
      <4>1. /\ at[r] = "rule"
            /\ IF rule[r] < 3
               THEN /\ rule' = [rule EXCEPT ![r] = @ + 1]
                    /\ UNCHANGED <<at, who, flag, held, newer>>
               ELSE Goto(r, "signals")
        <5>1. /\ at[r] = "rule"
              /\ IF Blocked
                 THEN Goto(r, "blocked")
                 ELSE IF rule[r] < 3
                 THEN /\ rule' = [rule EXCEPT ![r] = @ + 1]
                      /\ UNCHANGED <<at, who, flag, held, newer>>
                 ELSE Goto(r, "signals")
          BY <1>4 DEF AssertNotBlocked
        <5>2. ~Blocked  BY <2>2
        <5> HIDE DEF Blocked
        <5> QED  BY <5>1, <5>2
      <4>2. rule[r] \in 1..3  BY DEF TypeOK
      <4> QED  BY <4>1, <4>2 DEF Goto
    <3>2. RequestTyped(file)' /\ Alone(r) /\ at'[r] \in {"rule", "signals"}
      <4>1. rule[r] \in 1..3 /\ rule[r] # 3 => rule[r] + 1 \in 1..3
        BY DEF TypeOK
      <4>2. rule' \in [Request -> 1..3] /\ rule' = [rule EXCEPT ![r] = rule'[r]]
        BY <3>1, <4>1 DEF TypeOK
      <4>3. at' \in [Request -> Step] /\ at' = [at EXCEPT ![r] = at'[r]]
            /\ at'[r] \in {"rule", "signals"}
        BY <3>1 DEF TypeOK, Step
      <4> QED  BY <1>1, <3>1, <4>2, <4>3 DEF TypeOK, RequestTyped, Alone
    <3>3. FlagTells(r)'  BY <3>2 DEF FlagTells
    <3>4. RulesPassed(r)'
      <4>1. rule[r] \in 1..3  BY DEF TypeOK
      <4>2. LetThrough(r, 1)' => rule[r] = 1 \/ LetThrough(r, 1)
        BY <3>1, <4>1 DEF LetThrough, TypeOK
      <4>3. LetThrough(r, 2)' => rule[r] = 2 \/ LetThrough(r, 2)
        BY <3>1, <4>1 DEF LetThrough, TypeOK
      <4>4. ASSUME NEW k \in DOMAIN file \ newer[r], file[k].person = who[r]
            PROVE  /\ rule[r] = 1 => file[k].state \in {"declined", "closed"}
                   /\ rule[r] = 2 => file[k].state # "declined" \/ file[k].aged
        <5>1. ~Blocks(file[k], rule[r])  BY <2>2, <4>4
        <5> QED  BY <5>1 DEF Blocks
      <4> QED
        BY <1>1, <3>1, <4>2, <4>3, <4>4 DEF RulesPassed, Submitting
    <3>5. OnlyFailedInsertsLeak'
      <4>1. at' = [at EXCEPT ![r] = at'[r]]  BY <3>1 DEF TypeOK
      <4> QED  BY <1>1, <3>1, <3>2, <4>1, SameLeak DEF Step
    <3> QED  BY <1>1, <1>2, <3>2, <3>3, <3>4, <3>5, OwnKeeps
  <2> QED  BY <2>1, <2>2
<1>5. CASE FindPossibleDuplicate(r)
  <2>1. /\ at[r] = "signals" /\ at' = [at EXCEPT ![r] = "begin"]
        /\ flag' = [flag EXCEPT ![r] =
              \E k \in DOMAIN file : Similar(who[r], file[k].person) >= 2]
        /\ UNCHANGED <<who, rule, held, newer>>
    BY <1>5 DEF FindPossibleDuplicate
  <2>2. /\ RequestTyped(file)' /\ Alone(r) /\ at'[r] = "begin"
        /\ flag'[r] = \E k \in DOMAIN file : Similar(who[r], file[k].person) >= 2
    BY <1>1, <2>1 DEF TypeOK, RequestTyped, Alone, Step
  <2>3. RulesPassed(r)'
    BY <1>1, <2>1, <2>2 DEF RulesPassed, LetThrough, Submitting
  <2>4. FlagTells(r)'  BY <1>1, <2>1, <2>2 DEF FlagTells
  <2>5. OnlyFailedInsertsLeak'  BY <1>1, <2>1, SameLeak DEF Step
  <2> QED  BY <1>1, <1>2, <2>2, <2>3, <2>4, <2>5, OwnKeeps
<1>6. CASE CreateWithUniqueId(r)
  <2>1. at[r] = "insert" /\ Goto(r, "commit")  BY <1>6 DEF CreateWithUniqueId
  <2>2. "commit" \in Step  BY DEF Step
  <2>3. /\ RequestTyped(file)' /\ Alone(r)
        /\ at' = [at EXCEPT ![r] = "commit"]
        /\ UNCHANGED <<who, rule, flag, held, newer>>
    BY <1>1, <2>1, <2>2, GotoTyped
  <2>4. at'[r] = "commit"  BY <2>3 DEF TypeOK
  <2>5. RulesPassed(r)'
    BY <1>1, <2>1, <2>3, <2>4 DEF RulesPassed, LetThrough, Submitting
  <2>6. FlagTells(r)'  BY <1>1, <2>1, <2>3, <2>4 DEF FlagTells
  <2>7. OnlyFailedInsertsLeak'  BY <1>1, <2>1, <2>2, <2>3, SameLeak
  <2> QED  BY <1>1, <1>2, <2>3, <2>4, <2>5, <2>6, <2>7, OwnKeeps
<1> QED  BY <1>3, <1>4, <1>5, <1>6

-----------------------------------------------------------------------------
(* The transaction *)

LEMMA PoolSteps ==
  ASSUME IInv, NEW r \in Request,
         BeginTransaction(r) \/ InsertFails(r) \/ CommitFails(r)
  PROVE  IInv'
<1> USE DEF IInv
<1>1. InTransaction \in SUBSET Request  BY DEF InTransaction
<1>2. /\ out = Cardinality(InTransaction) + failed
      /\ out \in 0..PoolSize /\ PoolSize \in Nat /\ failed \in Nat
      /\ rows \in Nat /\ Cardinality(InTransaction) \in Nat
  BY <1>1, Counting, PoolAssumption DEF OnlyFailedInsertsLeak, TypeOK
<1>3. CASE BeginTransaction(r)
  <2>1. /\ at[r] = "begin" /\ Goto(r, "insert") /\ out < PoolSize
        /\ out' = out + 1 /\ UNCHANGED <<file, rows, failed>>
    BY <1>3 DEF BeginTransaction, Connects
  <2>2. "insert" \in Step  BY DEF Step
  <2>3. /\ RequestTyped(file)' /\ Alone(r)
        /\ at' = [at EXCEPT ![r] = "insert"]
        /\ UNCHANGED <<who, rule, flag, held, newer>>
    BY <2>1, <2>2, GotoTyped
  <2>4. at'[r] = "insert"  BY <2>3 DEF TypeOK
  <2>5. RulesPassed(r)'
    BY <2>1, <2>3, <2>4 DEF RulesPassed, LetThrough, Submitting
  <2>6. FlagTells(r)'  BY <2>1, <2>3, <2>4 DEF FlagTells
  <2>7. OnlyFailedInsertsLeak'
    <3>1. InTransaction' = InTransaction \cup {r} /\ r \notin InTransaction
      BY <2>1, <2>3 DEF InTransaction, TypeOK
    <3>2. Cardinality(InTransaction') = Cardinality(InTransaction) + 1
      BY <1>1, <3>1, Counting
    <3> QED  BY <1>2, <2>1, <3>2 DEF OnlyFailedInsertsLeak
  <2>8. rows' \in Nat /\ out' \in 0..PoolSize /\ failed' \in Nat
    BY <1>2, <2>1
  <2> QED  BY <2>1, <2>3, <2>4, <2>5, <2>6, <2>7, <2>8, OwnKeeps
<1>4. ASSUME Done(r), at[r] \in {"insert", "commit"}, UNCHANGED <<file, rows>>,
             \/ out' = out /\ failed' = failed + 1
             \/ out' = out - 1 /\ failed' = failed
      PROVE  IInv'
  <2>1. /\ RequestTyped(file)' /\ Alone(r)
        /\ at' = [at EXCEPT ![r] = "idle"] /\ rule'[r] = 1
    BY <1>4, DoneTyped
  <2>2. at'[r] = "idle"  BY <2>1 DEF TypeOK
  <2>3. InTransaction' = InTransaction \ {r} /\ r \in InTransaction
    BY <1>4, <2>1 DEF InTransaction, TypeOK
  <2>4. /\ Cardinality(InTransaction') = Cardinality(InTransaction) - 1
        /\ Cardinality(InTransaction) # 0
    BY <1>1, <2>3, Counting
  <2>5. OnlyFailedInsertsLeak'  BY <1>2, <1>4, <2>4 DEF OnlyFailedInsertsLeak
  <2>6. rows' \in Nat /\ out' \in 0..PoolSize /\ failed' \in Nat
    BY <1>2, <1>4, <2>4
  <2>7. RulesPassed(r)' /\ FlagTells(r)'
    BY <2>2 DEF RulesPassed, FlagTells, Submitting
  <2> QED  BY <1>4, <2>1, <2>2, <2>5, <2>6, <2>7, OwnKeeps
<1>5. CASE InsertFails(r)  BY <1>4, <1>5 DEF InsertFails
<1>6. CASE CommitFails(r)  BY <1>4, <1>6 DEF CommitFails
<1> QED  BY <1>3, <1>5, <1>6

\* The other requests in flight may have missed the file committed last.
Missed(r, k) ==
  \A q \in Request \ {r} :
    newer'[q] = IF at[q] # "idle" THEN newer[q] \cup {k} ELSE newer[q]

\* What Commit and CommitAnswerLost have in common.
LEMMA CommitKeeps ==
  ASSUME IInv, NEW r \in Request, at[r] = "commit", Len(file) + 1 <= MaxFiles,
         file' = Append(file, NewFile(r)), out' = out - 1,
         Missed(r, Len(file) + 1), RequestTyped(file)',
         \A q \in Request \ {r} : /\ at'[q] = at[q] /\ who'[q] = who[q]
                                  /\ rule'[q] = rule[q] /\ flag'[q] = flag[q],
         at'[r] \in {"mail", "idle"}, at'[r] = "idle" => rule'[r] = 1,
         UNCHANGED <<rows, failed>>
  PROVE  IInv'
<1> USE DEF IInv
<1> DEFINE k == Len(file) + 1
<1>1. Len(file) \in Nat /\ DOMAIN file = 1..Len(file)  BY FilesCounted
<1>2. NewFile(r) \in File
  <2>1. newer[r] \subseteq 1..MaxFiles
    BY <1>1, BoundAssumption DEF TypeOK
  <2> QED  BY <2>1 DEF NewFile, File, TypeOK
<1>3. /\ file' \in Seq(File) /\ Len(file') = k
      /\ \A j \in DOMAIN file : file'[j] = file[j]
      /\ file'[k] = NewFile(r)
  BY <1>1, <1>2, AppendProperties DEF TypeOK
<1>4. DOMAIN file' = 1..k /\ k \notin DOMAIN file
      /\ DOMAIN file' = DOMAIN file \cup {k}
  BY <1>1, <1>3, LenProperties
<1>5. \A j \in DOMAIN file \ newer[r] :
        /\ file[j].person = who[r]
           => /\ file[j].state \in {"declined", "closed"}
              /\ file[j].state # "declined" \/ file[j].aged
        /\ Similar(who[r], file[j].person) >= 2 => flag[r]
  BY DEF RulesPassed, FlagTells, LetThrough, Submitting
<1>6. /\ file'[k].person = who[r] /\ file'[k].state = "open"
      /\ file'[k].flagged = flag[r] /\ file'[k].with = newer[r]
  BY <1>3 DEF NewFile
<1>7. ASSUME NEW i \in DOMAIN file', NEW j \in DOMAIN file', i < j
      PROVE  /\ i \in DOMAIN file
             /\ j \in DOMAIN file \/ j = k
  BY <1>1, <1>4, <1>7
<1>8. OneFileInFlight'
  BY <1>3, <1>5, <1>6, <1>7 DEF OneFileInFlight
<1>9. DeclinedWaitsFromSubmission'
  BY <1>3, <1>5, <1>6, <1>7 DEF DeclinedWaitsFromSubmission
<1>10. LookalikesAreFlagged'
  BY <1>3, <1>5, <1>6, <1>7 DEF LookalikesAreFlagged, Similar
<1> HIDE DEF k
<1>11. ASSUME NEW q \in Request  PROVE RulesPassed(q)' /\ FlagTells(q)'
  <2>1. CASE q = r
    BY <2>1 DEF RulesPassed, FlagTells, Submitting
  <2>2. CASE q # r
    <3>1. /\ at'[q] = at[q] /\ who'[q] = who[q] /\ rule'[q] = rule[q]
          /\ flag'[q] = flag[q]
          /\ at[q] # "idle" => newer'[q] = newer[q] \cup {k}
      BY <2>2 DEF Missed, k
    <3>2. at[q] # "idle" =>
            DOMAIN file' \ newer'[q] = DOMAIN file \ newer[q]
      BY <1>4, <3>1
    <3>3. RulesPassed(q)'
      BY <1>3, <3>1, <3>2 DEF RulesPassed, LetThrough, Submitting
    <3>4. FlagTells(q)'  BY <1>3, <3>1, <3>2 DEF FlagTells
    <3> QED  BY <3>3, <3>4
  <2> QED  BY <2>1, <2>2
<1>12. StartsAtOne'  BY DEF StartsAtOne
<1>13. OnlyFailedInsertsLeak' /\ out' \in 0..PoolSize
  <2>1. /\ InTransaction \in SUBSET Request
        /\ InTransaction' = InTransaction \ {r} /\ r \in InTransaction
    BY DEF InTransaction, TypeOK
  <2>2. /\ Cardinality(InTransaction') = Cardinality(InTransaction) - 1
        /\ Cardinality(InTransaction) \in Nat \ {0}
    BY <2>1, Counting
  <2>3. out \in 0..PoolSize /\ failed \in Nat  BY DEF TypeOK
  <2> QED  BY <2>2, <2>3, PoolAssumption DEF OnlyFailedInsertsLeak
<1>14. TypeOK'
  BY <1>3, <1>13 DEF TypeOK, RequestTyped, k
<1> QED  BY <1>8, <1>9, <1>10, <1>11, <1>12, <1>13, <1>14

LEMMA CommitSteps ==
  ASSUME IInv, NEW r \in Request, Commit(r) \/ CommitAnswerLost(r)
  PROVE  IInv'
<1> USE DEF IInv
<1> DEFINE k == Len(file) + 1
<1>1. Len(file) \in Nat /\ DOMAIN file = 1..Len(file)  BY FilesCounted
<1>2. /\ at[r] = "commit" /\ k <= MaxFiles
      /\ file' = Append(file, NewFile(r)) /\ out' = out - 1
      /\ UNCHANGED <<rows, failed>>
  BY DEF Commit, CommitAnswerLost, Committed
<1>3. Len(file') = k /\ DOMAIN file' = 1..k
  <2>1. newer[r] \subseteq 1..MaxFiles
    BY <1>1, BoundAssumption DEF TypeOK
  <2>2. NewFile(r) \in File  BY <2>1 DEF NewFile, File, TypeOK
  <2> QED  BY <1>2, <2>2, AppendProperties, LenProperties DEF TypeOK
<1>4. held[r] = 0  BY <1>2 DEF TypeOK
<1>5. /\ Missed(r, k) /\ RequestTyped(file)'
      /\ \A q \in Request \ {r} : /\ at'[q] = at[q] /\ who'[q] = who[q]
                                   /\ rule'[q] = rule[q] /\ flag'[q] = flag[q]
      /\ at'[r] \in {"mail", "idle"} /\ (at'[r] = "idle" => rule'[r] = 1)
  <2>1. 0..Len(file) \subseteq 0..k /\ 1..Len(file) \subseteq 1..k
        /\ k \in 1..k /\ k # 0
    BY <1>1
  <2> HIDE DEF k
  <2>2. CASE Commit(r)
    <3>1. /\ newer' = [q \in Request |-> IF q # r /\ at[q] # "idle"
                                       THEN newer[q] \cup {k} ELSE newer[q]]
          /\ held' = [held EXCEPT ![r] = k]
          /\ at' = [at EXCEPT ![r] = "mail"]
          /\ UNCHANGED <<who, rule, flag>>
      BY <2>2 DEF Commit, Committed, k
    <3>2. newer' \in [Request -> SUBSET (1..k)]
      BY <1>1, <2>1, <3>1 DEF TypeOK
    <3>3. held' \in [Request -> 0..k]  BY <2>1, <3>1 DEF TypeOK
    <3> QED
      BY <1>2, <1>3, <1>4, <2>1, <3>1, <3>2, <3>3
      DEF Missed, RequestTyped, TypeOK, Step
  <2>3. CASE CommitAnswerLost(r)
    <3>1. /\ newer' = [q \in Request |->
                         IF q = r THEN {}
                         ELSE IF at[q] # "idle" THEN newer[q] \cup {k}
                         ELSE newer[q]]
          /\ held' = held
          /\ at' = [at EXCEPT ![r] = "idle"]
          /\ who' = [who EXCEPT ![r] = CHOOSE p \in Person : TRUE]
          /\ rule' = [rule EXCEPT ![r] = 1] /\ flag' = [flag EXCEPT ![r] = FALSE]
      BY <2>3 DEF CommitAnswerLost, k
    <3>2. newer' \in [Request -> SUBSET (1..k)]
      BY <1>1, <2>1, <3>1 DEF TypeOK
    <3>3. held' \in [Request -> 0..k]  BY <2>1, <3>1 DEF TypeOK
    <3> QED
      BY <1>2, <1>3, <1>4, <3>1, <3>2, <3>3, SomePerson
      DEF Missed, RequestTyped, TypeOK, Step
  <2> QED  BY <2>2, <2>3
<1> QED  BY <1>2, <1>5, CommitKeeps

-----------------------------------------------------------------------------
(* Staff, time and faults *)

\* A file is only closed, and only grows older: what was checked of it stays.
LEMMA FileSteps ==
  ASSUME IInv, NEW k \in DOMAIN file, CloseFile(k) \/ NinetyDaysSinceSubmission(k)
  PROVE  IInv'
<1> USE DEF IInv
<1>1. UNCHANGED <<at, who, rule, flag, held, newer, rows, out, failed>>
  BY DEF CloseFile, NinetyDaysSinceSubmission, requestVars
<1>2. file[k] \in File /\ Len(file) \in Nat /\ DOMAIN file = 1..Len(file)
  BY FilesCounted, ElementOfSeq DEF TypeOK
<1>3. PICK f \in File :
        /\ file' = [file EXCEPT ![k] = f]
        /\ f.person = file[k].person /\ f.flagged = file[k].flagged
        /\ f.with = file[k].with
        /\ \/ /\ file[k].state = "open" /\ f.aged = file[k].aged
              /\ f.state \in {"funded", "declined", "closed"}
           \/ f.aged /\ f.state = file[k].state
  <2>1. CASE CloseFile(k)
    <3>1. PICK s \in {"funded", "declined", "closed"} :
            file' = [file EXCEPT ![k].state = s]
      BY <2>1 DEF CloseFile
    <3> DEFINE f == [file[k] EXCEPT !.state = s]
    <3>2. f \in File  BY <1>2 DEF File
    <3>3. /\ f.person = file[k].person /\ f.flagged = file[k].flagged
          /\ f.with = file[k].with /\ f.aged = file[k].aged /\ f.state = s
      BY <1>2 DEF File
    <3>4. file' = [file EXCEPT ![k] = f] /\ file[k].state = "open"
      BY <2>1, <3>1 DEF CloseFile
    <3> HIDE DEF f
    <3> QED  BY <3>1, <3>2, <3>3, <3>4
  <2>2. CASE NinetyDaysSinceSubmission(k)
    <3> DEFINE f == [file[k] EXCEPT !.aged = TRUE]
    <3>1. f \in File  BY <1>2 DEF File
    <3>2. /\ f.person = file[k].person /\ f.flagged = file[k].flagged
          /\ f.with = file[k].with /\ f.aged /\ f.state = file[k].state
      BY <1>2 DEF File
    <3>3. file' = [file EXCEPT ![k] = f]
      BY <2>2 DEF NinetyDaysSinceSubmission
    <3> HIDE DEF f
    <3> QED  BY <3>1, <3>2, <3>3
  <2> QED  BY <2>1, <2>2
<1>4. /\ file' \in Seq(File) /\ Len(file') = Len(file)
      /\ DOMAIN file' = DOMAIN file
      /\ \A j \in DOMAIN file : file'[j] = IF j = k THEN f ELSE file[j]
  BY <1>2, <1>3, ExceptSeq, LenProperties DEF TypeOK
<1>5. ASSUME NEW j \in DOMAIN file
      PROVE  /\ file'[j].person = file[j].person
             /\ file'[j].flagged = file[j].flagged
             /\ file'[j].with = file[j].with
             /\ file[j].aged => file'[j].aged
             /\ file[j].state # "open" => file'[j].state = file[j].state
             /\ file'[j].state = "open" => file[j].state = "open"
  BY <1>3, <1>4
<1>6. ASSUME NEW q \in Request  PROVE RulesPassed(q)' /\ FlagTells(q)'
  <2>1. RulesPassed(q)'
    <3> SUFFICES ASSUME at[q] \in Submitting, NEW j \in DOMAIN file \ newer[q],
                        file'[j].person = who[q]
        PROVE  /\ LetThrough(q, 1) => file'[j].state \in {"declined", "closed"}
               /\ LetThrough(q, 2) => file'[j].state # "declined" \/ file'[j].aged
      BY <1>1, <1>4 DEF RulesPassed, LetThrough
    <3>1. /\ LetThrough(q, 1) => file[j].state \in {"declined", "closed"}
          /\ LetThrough(q, 2) => file[j].state # "declined" \/ file[j].aged
      BY <1>5 DEF RulesPassed
    <3>2. rule[q] \in 1..3  BY DEF TypeOK
    <3>3. LetThrough(q, 2) => LetThrough(q, 1)  BY <3>2 DEF LetThrough
    <3> QED  BY <1>5, <3>1, <3>3
  <2>2. FlagTells(q)'  BY <1>1, <1>4, <1>5 DEF FlagTells
  <2> QED  BY <2>1, <2>2
<1>7. OneFileInFlight'  BY <1>4, <1>5 DEF OneFileInFlight
<1>8. DeclinedWaitsFromSubmission'
  BY <1>4, <1>5 DEF OneFileInFlight, DeclinedWaitsFromSubmission
<1>9. LookalikesAreFlagged'  BY <1>4, <1>5 DEF LookalikesAreFlagged
<1>10. StartsAtOne' /\ OnlyFailedInsertsLeak'
  BY <1>1 DEF StartsAtOne, OnlyFailedInsertsLeak, InTransaction
<1>11. TypeOK'  BY <1>1, <1>4 DEF TypeOK
<1> QED  BY <1>6, <1>7, <1>8, <1>9, <1>10, <1>11

LEMMA DeathKeeps ==
  ASSUME IInv, ProcessDies
  PROVE  IInv'
<1> USE DEF IInv
<1>1. TypeOK'  BY SomePerson, FilesCounted, PoolAssumption DEF ProcessDies, TypeOK, Step
<1>2. \A q \in Request : at'[q] = "idle" /\ rule'[q] = 1  BY DEF ProcessDies
<1>3. \A q \in Request : RulesPassed(q)' /\ FlagTells(q)'
  BY <1>2 DEF RulesPassed, FlagTells, Submitting
<1>4. OnlyFailedInsertsLeak'
  <2>1. InTransaction' = {}  BY <1>2 DEF InTransaction
  <2> QED  BY <2>1, FS_EmptySet DEF ProcessDies, OnlyFailedInsertsLeak
<1>5. OneFileInFlight' /\ DeclinedWaitsFromSubmission' /\ LookalikesAreFlagged'
  BY DEF ProcessDies, OneFileInFlight, DeclinedWaitsFromSubmission,
         LookalikesAreFlagged
<1> QED  BY <1>1, <1>2, <1>3, <1>4, <1>5 DEF StartsAtOne

LEMMA WindowKeeps ==
  ASSUME IInv, rows' \in Nat,
         UNCHANGED <<file, at, who, rule, flag, held, newer, out, failed>>
  PROVE  IInv'
<1> USE DEF IInv
<1>1. TypeOK'  BY DEF TypeOK
<1>2. \A q \in Request : RulesPassed(q)' /\ FlagTells(q)'
  BY DEF RulesPassed, FlagTells, LetThrough
<1>3. StartsAtOne' /\ OnlyFailedInsertsLeak'
  BY DEF StartsAtOne, OnlyFailedInsertsLeak, InTransaction
<1>4. OneFileInFlight' /\ DeclinedWaitsFromSubmission' /\ LookalikesAreFlagged'
  BY DEF OneFileInFlight, DeclinedWaitsFromSubmission, LookalikesAreFlagged
<1> QED  BY <1>1, <1>2, <1>3, <1>4

LEMMA IInvInit == Init => IInv
<1> SUFFICES ASSUME Init  PROVE IInv  OBVIOUS
<1>1. file \in Seq(File) /\ Len(file) = 0 /\ DOMAIN file = {}
  BY EmptySeq DEF Init
<1>2. TypeOK
  BY <1>1, SomePerson, BoundAssumption, PoolAssumption DEF Init, TypeOK, Step
<1>3. StartsAtOne /\ \A r \in Request : RulesPassed(r) /\ FlagTells(r)
  BY DEF Init, StartsAtOne, RulesPassed, FlagTells, Submitting
<1>4. OneFileInFlight /\ DeclinedWaitsFromSubmission /\ LookalikesAreFlagged
  BY <1>1 DEF OneFileInFlight, DeclinedWaitsFromSubmission, LookalikesAreFlagged
<1>5. OnlyFailedInsertsLeak
  <2>1. InTransaction = {}  BY DEF Init, InTransaction
  <2> QED  BY <2>1, FS_EmptySet DEF Init, OnlyFailedInsertsLeak
<1> QED  BY <1>2, <1>3, <1>4, <1>5 DEF IInv

LEMMA StepKeeps == IInv /\ [Next]_vars => IInv'
<1> SUFFICES ASSUME IInv, [Next]_vars  PROVE IInv'  OBVIOUS
<1>1. CASE UNCHANGED vars
  BY <1>1, WindowKeeps DEF vars, requestVars, IInv, TypeOK
<1>2. ASSUME NEW r \in Request, Submit(r)  PROVE IInv'
  BY <1>2, ReadingSteps, AsideSteps, PoolSteps, CommitSteps DEF Submit
<1>3. ASSUME NEW r \in Request, Track(r) \/ AcquireTimesOut(r) \/ StartSequences(r)
      PROVE  IInv'
  BY <1>3, AsideSteps
<1>4. CASE Elsewhere
  <2>1. CASE ProcessDies  BY <2>1, DeathKeeps
  <2>2. CASE LookupLeavesWindow
    BY <2>2, WindowKeeps DEF LookupLeavesWindow, requestVars, IInv, TypeOK
  <2>3. CASE \E k \in DOMAIN file : CloseFile(k) \/ NinetyDaysSinceSubmission(k)
    BY <2>3, FileSteps
  <2> QED  BY <1>4, <2>1, <2>2, <2>3 DEF Elsewhere
<1> QED  BY <1>1, <1>2, <1>3, <1>4 DEF Next

LEMMA Invariance == Spec => []IInv
BY IInvInit, StepKeeps, PTL DEF Spec

\* submitPublicApplication: however submissions overlap with each other and with
\* the staff's work, two files break a rule only if neither submission could see
\* the other.
THEOREM RulesHold == Spec => []IntakeRulesHold
<1>1. IInv => IntakeRulesHold  BY DEF IInv, IntakeRulesHold
<1> QED  BY <1>1, Invariance, PTL

\* persist: a connection leaves the pool for good only with an insert that fails.
THEOREM Leaks == Spec => []OnlyFailedInsertsLeak
<1>1. IInv => OnlyFailedInsertsLeak  BY DEF IInv
<1> QED  BY <1>1, Invariance, PTL

-----------------------------------------------------------------------------
(* The throttle of the status tracker *)

LEMMA LookupStep == LookupInv /\ TypeOK /\ [Next]_vars => LookupInv'
<1> SUFFICES ASSUME LookupInv, TypeOK, [Next]_vars  PROVE LookupInv'  OBVIOUS
<1>1. Guessing \in SUBSET Request /\ Guessing' \in SUBSET Request
  BY DEF Guessing
<1>2. /\ rows \in Nat /\ LOOKUP_ATTEMPT_LIMIT \in Nat \ {0}
      /\ at \in [Request -> Step]
  BY LimitAssumption DEF TypeOK
<1>3. ASSUME Guessing' \subseteq Guessing, rows' \in Nat, rows' <= rows
      PROVE  LookupInv'
  <2>1. /\ Cardinality(Guessing') <= Cardinality(Guessing)
        /\ Cardinality(Guessing) \in Nat /\ Cardinality(Guessing') \in Nat
        /\ Cardinality(Request) \in Nat
    BY <1>1, <1>3, RequestAssumption, FS_Subset, FS_CardinalityType
  <2> QED  BY <1>2, <1>3, <2>1 DEF LookupInv
<1>4. ASSUME NEW r \in Request, EnforceRateLimit(r), rows < LOOKUP_ATTEMPT_LIMIT
      PROVE  LookupInv'
  <2>1. rows' = rows  BY <1>4 DEF EnforceRateLimit
  <2>2. /\ Cardinality(Guessing') <= Cardinality(Request)
        /\ Cardinality(Guessing') \in Nat /\ Cardinality(Request) \in Nat
    BY <1>1, RequestAssumption, FS_Subset, FS_CardinalityType
  <2> QED  BY <1>2, <1>4, <2>1, <2>2 DEF LookupInv
<1>5. ASSUME NEW r \in Request, RecordFailedLookup(r)  PROVE LookupInv'
  <2>1. /\ at[r] = "record" /\ rows' \in {rows, rows + 1}
        /\ at' = [at EXCEPT ![r] = "idle"]
    BY <1>5 DEF RecordFailedLookup, Done
  <2>2. Guessing' = Guessing \ {r} /\ r \in Guessing
    BY <1>2, <2>1 DEF Guessing
  <2>3. /\ Cardinality(Guessing') = Cardinality(Guessing) - 1
        /\ Cardinality(Guessing) \in Nat \ {0} /\ Cardinality(Request) \in Nat
    BY <1>1, <2>2, Counting
  <2> QED  BY <1>2, <2>1, <2>3 DEF LookupInv
<1>6. ASSUME NEW r \in Request, EnforceRateLimit(r) \/ FindByCredentials(r),
             ~(EnforceRateLimit(r) /\ rows < LOOKUP_ATTEMPT_LIMIT)
      PROVE  LookupInv'
  <2>1. rows' = rows  BY <1>6 DEF EnforceRateLimit, FindByCredentials
  <2>2. Guessing' \subseteq Guessing
    <3>1. CASE EnforceRateLimit(r)
      BY <1>2, <1>6, <3>1 DEF EnforceRateLimit, Done, Guessing
    <3>2. CASE FindByCredentials(r)
      BY <1>2, <3>2 DEF FindByCredentials, Done, Goto, Guessing
    <3> QED  BY <1>6, <3>1, <3>2
  <2> QED  BY <1>2, <1>3, <2>1, <2>2
<1>7. ASSUME NEW r \in Request,
             \/ Submit(r) \/ Lookup(r) \/ AcquireTimesOut(r) \/ StartSequences(r)
      PROVE  LookupInv'
  <2>1. rows' = rows
    BY <1>7
    DEF Submit, Create, AssertNotBlocked, RecordBlockedAttempt,
        FindPossibleDuplicate, BeginTransaction, CreateWithUniqueId, InsertFails,
        Commit, CommitFails, CommitAnswerLost, SendConfirmation, Lookup,
        AcquireTimesOut, StartSequences
  <2>2. PICK there \in Step \ {"find", "record"} :
          at' = [at EXCEPT ![r] = there] \/ at' = at
    BY <1>7
    DEF Submit, Create, AssertNotBlocked, RecordBlockedAttempt,
        FindPossibleDuplicate, BeginTransaction, CreateWithUniqueId, InsertFails,
        Commit, CommitFails, CommitAnswerLost, SendConfirmation, Lookup,
        AcquireTimesOut, StartSequences, Done, Goto, Step
  <2>3. Guessing' \subseteq Guessing  BY <1>2, <2>2 DEF Guessing
  <2> QED  BY <1>2, <1>3, <2>1, <2>3
<1>8. CASE Elsewhere
  <2>1. rows' \in Nat /\ rows' <= rows
    BY <1>2, <1>8 DEF Elsewhere, ProcessDies, LookupLeavesWindow, CloseFile,
                      NinetyDaysSinceSubmission
  <2>2. Guessing' \subseteq Guessing
    BY <1>8 DEF Elsewhere, ProcessDies, LookupLeavesWindow, CloseFile,
                NinetyDaysSinceSubmission, requestVars, Guessing
  <2> QED  BY <1>3, <2>1, <2>2
<1>9. CASE UNCHANGED vars
  BY <1>2, <1>3, <1>9 DEF vars, requestVars, Guessing
<1> QED
  BY <1>4, <1>5, <1>6, <1>7, <1>8, <1>9 DEF Next, Track

\* enforceRateLimit: the lookups that fail from one address overshoot the limit by
\* no more than the requests that were counted at the same time.
THEOREM LookupsFew == Spec => []LookupsBounded
<1>1. Init => LookupInv
  <2> SUFFICES ASSUME Init  PROVE LookupInv  OBVIOUS
  <2>1. Guessing = {}  BY DEF Init, Guessing
  <2>2. Cardinality(Guessing) = 0 /\ Cardinality(Request) \in Nat
    BY <2>1, FS_EmptySet, RequestAssumption, FS_CardinalityType
  <2> QED  BY <2>2, LimitAssumption DEF Init, LookupInv
<1>2. LookupInv /\ TypeOK => LookupsBounded
  <2> SUFFICES ASSUME LookupInv, TypeOK  PROVE LookupsBounded  OBVIOUS
  <2>1. Guessing \in SUBSET Request  BY DEF Guessing
  <2>2. Cardinality(Guessing) \in Nat /\ Cardinality(Request) \in Nat
    BY <2>1, RequestAssumption, FS_Subset, FS_CardinalityType
  <2> QED  BY <2>2, LimitAssumption DEF LookupInv, LookupsBounded, TypeOK
<1>3. IInv => TypeOK  BY DEF IInv
<1> QED  BY <1>1, <1>2, <1>3, LookupStep, Invariance, PTL DEF Spec

-----------------------------------------------------------------------------
(* The rules for one reminder *)

Send == [sequence : {"call_in", "bank_verification"}, step : 1..6,
         final : BOOLEAN, at : Int]

LEMMA QuietHours ==
  ASSUME NEW t \in Int, NEW zone \in DOMAIN OFFSET
  PROVE  /\ applyQuietHours(t, zone) \in Int
         /\ t <= applyQuietHours(t, zone)
         /\ ~inQuietHours(applyQuietHours(t, zone), zone)
<1>1. OFFSET[zone] \in Int  BY DEF OFFSET, HOUR
<1> QED
  BY <1>1 DEF applyQuietHours, inQuietHours, LocalHour, Local, atLocalTime, Midnight,
         QUIET_HOURS_START, QUIET_HOURS_END, HOUR, DAY

\* No rule ever moves a reminder back.
LEMMA AdjustMoves ==
  ASSUME NEW send \in Send, NEW zone \in DOMAIN OFFSET, NEW transactional
  PROVE  LET adjusted == Adjust(send, zone, transactional)
         IN  /\ adjusted \in Send
             /\ send.at <= adjusted.at
             /\ adjusted.sequence = send.sequence /\ adjusted.step = send.step
             /\ adjusted.final = send.final
<1> DEFINE t == ShiftFinalOffSunday(send, zone)
           u == applyQuietHours(t, zone)
           v == IF conflictsWithTransactional(u, transactional)
                THEN u + TRANSACTIONAL_SHIFT ELSE u
<1>1. t \in Int /\ send.at <= t
  BY DEF ShiftFinalOffSunday, Send, DAY, HOUR
<1>2. u \in Int /\ t <= u
  <2> HIDE DEF t
  <2> QED  BY <1>1, QuietHours
<1>3. v \in Int /\ u <= v
  <2> HIDE DEF u
  <2> QED  BY <1>2 DEF TRANSACTIONAL_SHIFT, HOUR
<1>4. Adjust(send, zone, transactional) = [send EXCEPT !.at = v]  BY DEF Adjust
<1> HIDE DEF t, u, v
<1>5. send.at \in Int  BY DEF Send
<1> QED  BY <1>1, <1>2, <1>3, <1>4, <1>5 DEF Send

\* A reminder that the rules leave where it is keeps them all.
LEMMA RestIsKept ==
  ASSUME NEW send \in Send, NEW zone \in DOMAIN OFFSET, NEW transactional,
         Adjust(send, zone, transactional) = send
  PROVE  /\ ~inQuietHours(send.at, zone)
         /\ send.final => ~OnSunday(send.at, zone)
         /\ ~conflictsWithTransactional(send.at, transactional)
<1> DEFINE t == ShiftFinalOffSunday(send, zone)
           u == applyQuietHours(t, zone)
           v == IF conflictsWithTransactional(u, transactional)
                THEN u + TRANSACTIONAL_SHIFT ELSE u
<1>1. t \in Int /\ send.at \in Int /\ send.at <= t
  BY DEF ShiftFinalOffSunday, Send, DAY, HOUR
<1>2. u \in Int /\ t <= u /\ ~inQuietHours(u, zone)
  <2> HIDE DEF t
  <2> QED  BY <1>1, QuietHours
<1>3. v \in Int /\ u <= v /\ (v = u => ~conflictsWithTransactional(u, transactional))
  <2> HIDE DEF u
  <2> QED  BY <1>2 DEF TRANSACTIONAL_SHIFT, HOUR
<1>4. v = send.at
  <2>1. [send EXCEPT !.at = v] = send  BY DEF Adjust
  <2> HIDE DEF v
  <2> QED  BY <2>1 DEF Send
<1>5. t = send.at /\ u = send.at
  <2> HIDE DEF t, u, v
  <2> QED  BY <1>1, <1>2, <1>3, <1>4
<1>6. send.final => ~OnSunday(send.at, zone)
  BY <1>5, <1>1 DEF ShiftFinalOffSunday, DAY, HOUR
<1> HIDE DEF t, u, v
<1> QED  BY <1>2, <1>3, <1>4, <1>5, <1>6

-----------------------------------------------------------------------------
(* The rule between reminders *)

\* The equation of SpreadTimes, for the first n reminders.
SpreadsOut(time, sends, n) ==
  time = [k \in 1..n |-> IF k > 1 /\ sends[k].at - time[k - 1] < MIN_GAP
                         THEN time[k - 1] + MIN_GAP ELSE sends[k].at]

\* What one reminder more makes of a solution.
LEMMA SpreadExtends ==
  ASSUME NEW n \in Nat, NEW sends, \E time : SpreadsOut(time, sends, n)
  PROVE  \E time : SpreadsOut(time, sends, n + 1)
<1>1. PICK time : SpreadsOut(time, sends, n)  OBVIOUS
<1> DEFINE new == [k \in 1..(n + 1) |->
                     IF k \in 1..n THEN time[k]
                     ELSE IF k > 1 /\ sends[k].at - time[k - 1] < MIN_GAP
                     THEN time[k - 1] + MIN_GAP ELSE sends[k].at]
<1>2. ASSUME NEW k \in 1..(n + 1)
      PROVE  new[k] = IF k > 1 /\ sends[k].at - new[k - 1] < MIN_GAP
                      THEN new[k - 1] + MIN_GAP ELSE sends[k].at
  <2>1. k > 1 => k - 1 \in 1..n  BY <1>2
  <2>2. k > 1 => new[k - 1] = time[k - 1]  BY <2>1
  <2>3. CASE k \in 1..n
    <3>1. new[k] = time[k]  BY <2>3
    <3>2. time[k] = IF k > 1 /\ sends[k].at - time[k - 1] < MIN_GAP
                    THEN time[k - 1] + MIN_GAP ELSE sends[k].at
      BY <1>1, <2>3 DEF SpreadsOut
    <3> QED  BY <2>2, <3>1, <3>2
  <2>4. CASE k \notin 1..n
    <3>1. new[k] = IF k > 1 /\ sends[k].at - time[k - 1] < MIN_GAP
                   THEN time[k - 1] + MIN_GAP ELSE sends[k].at
      BY <2>4
    <3> QED  BY <2>2, <3>1
  <2> QED  BY <2>3, <2>4
<1>3. SpreadsOut(new, sends, n + 1)
  <2>1. new = [k \in 1..(n + 1) |-> new[k]]  OBVIOUS
  <2> HIDE DEF new
  <2> QED  BY <1>2, <2>1 DEF SpreadsOut
<1> QED  BY <1>3

\* A plan has the nine reminders of the grid.
LEMMA NineTimes ==
  ASSUME NEW sends  PROVE \E time : SpreadsOut(time, sends, 9)
<1>0. SpreadsOut([k \in 1..0 |-> 0], sends, 0)  BY DEF SpreadsOut
<1>1. \E time : SpreadsOut(time, sends, 1)  BY <1>0, SpreadExtends
<1>2. \E time : SpreadsOut(time, sends, 2)  BY <1>1, SpreadExtends
<1>3. \E time : SpreadsOut(time, sends, 3)  BY <1>2, SpreadExtends
<1>4. \E time : SpreadsOut(time, sends, 4)  BY <1>3, SpreadExtends
<1>5. \E time : SpreadsOut(time, sends, 5)  BY <1>4, SpreadExtends
<1>6. \E time : SpreadsOut(time, sends, 6)  BY <1>5, SpreadExtends
<1>7. \E time : SpreadsOut(time, sends, 7)  BY <1>6, SpreadExtends
<1>8. \E time : SpreadsOut(time, sends, 8)  BY <1>7, SpreadExtends
<1> QED  BY <1>8, SpreadExtends

LEMMA SpreadSpaces ==
  ASSUME NEW sends \in [1..9 -> Send]
  PROVE  /\ Spread(sends) \in [1..9 -> Send]
         /\ \A k \in 1..9 :
              /\ sends[k].at <= Spread(sends)[k].at
              /\ Spread(sends)[k].sequence = sends[k].sequence
              /\ Spread(sends)[k].step = sends[k].step
              /\ Spread(sends)[k].final = sends[k].final
         /\ \A k \in 2..9 :
              Spread(sends)[k].at - Spread(sends)[k - 1].at >= MIN_GAP
<1> DEFINE time == SpreadTimes(sends)
<1>1. SpreadsOut(time, sends, 9)
  <2>1. time = CHOOSE f : SpreadsOut(f, sends, 9)
    <3>1. DOMAIN sends = 1..9  OBVIOUS
    <3> QED  BY <3>1 DEF SpreadTimes, SpreadsOut
  <2> QED  BY <2>1, NineTimes
<1> HIDE DEF time
<1>2. \A k \in 1..9 : time[k] = IF k > 1 /\ sends[k].at - time[k - 1] < MIN_GAP
                                THEN time[k - 1] + MIN_GAP ELSE sends[k].at
  BY <1>1 DEF SpreadsOut
<1>3. /\ MIN_GAP \in Nat /\ \A k \in 1..9 : sends[k].at \in Int
  BY DEF MIN_GAP, HOUR, Send
<1>4. \A k \in 1..9 : time[k] \in Int
  <2>1. time[1] \in Int  BY <1>2, <1>3
  <2>2. ASSUME NEW k \in 2..9, time[k - 1] \in Int  PROVE time[k] \in Int
    BY <1>2, <1>3, <2>2
  <2> QED  BY <2>1, <2>2
<1>5. \A k \in 1..9 : sends[k].at <= time[k]
  BY <1>2, <1>3, <1>4
<1>6. \A k \in 2..9 : time[k] - time[k - 1] >= MIN_GAP
  BY <1>2, <1>3, <1>4
<1>7. Spread(sends) = [k \in 1..9 |-> [sends[k] EXCEPT !.at = time[k]]]
  BY DEF Spread, time
<1>8. ASSUME NEW k \in 1..9
      PROVE  /\ Spread(sends)[k] \in Send /\ Spread(sends)[k].at = time[k]
             /\ Spread(sends)[k].sequence = sends[k].sequence
             /\ Spread(sends)[k].step = sends[k].step
             /\ Spread(sends)[k].final = sends[k].final
  <2>1. Spread(sends)[k] = [sends[k] EXCEPT !.at = time[k]]  BY <1>7
  <2> QED  BY <2>1, <1>4 DEF Send
<1>9. Spread(sends) \in [1..9 -> Send]  BY <1>7, <1>8
<1> QED  BY <1>5, <1>6, <1>8, <1>9

-----------------------------------------------------------------------------
(* The stable sort *)

\* Ranks are different and follow the times.
LEMMA RanksOrder ==
  ASSUME NEW n \in Nat, NEW sends \in [1..n -> Send]
  PROVE  /\ \A i \in 1..n : Rank(sends, i) \in 1..n
         /\ \A i, j \in 1..n :
              \/ sends[i].at < sends[j].at
              \/ sends[i].at = sends[j].at /\ i < j
              => Rank(sends, i) < Rank(sends, j)
<1>0. \A i \in 1..n : sends[i].at \in Int  BY DEF Send
<1>1. ASSUME NEW i \in 1..n
      PROVE  /\ IsFiniteSet(NotAfter(sends, i))
             /\ Rank(sends, i) = Cardinality(NotAfter(sends, i))
             /\ i \in NotAfter(sends, i)
             /\ Rank(sends, i) \in 1..n
  <2>1. NotAfter(sends, i) \in SUBSET (1..n) /\ i \in NotAfter(sends, i)
    BY <1>0 DEF NotAfter
  <2>2. IsFiniteSet(1..n) /\ Cardinality(1..n) = n  BY FS_Interval
  <2>3. IsFiniteSet(NotAfter(sends, i)) /\ Cardinality(NotAfter(sends, i)) <= n
    BY <2>1, <2>2, FS_Subset
  <2>4. Cardinality(NotAfter(sends, i)) \in Nat \ {0}
    BY <2>1, <2>3, FS_CardinalityType, FS_EmptySet
  <2>5. Rank(sends, i) = Cardinality(NotAfter(sends, i))
    BY DEF Rank
  <2> QED  BY <2>1, <2>3, <2>4, <2>5
<1>2. ASSUME NEW i \in 1..n, NEW j \in 1..n,
             \/ sends[i].at < sends[j].at
             \/ sends[i].at = sends[j].at /\ i < j
      PROVE  Rank(sends, i) < Rank(sends, j)
  <2>1. /\ NotAfter(sends, i) \in SUBSET NotAfter(sends, j)
        /\ j \notin NotAfter(sends, i)
    <3>1. ASSUME NEW k \in NotAfter(sends, i)  PROVE k \in NotAfter(sends, j)
      <4>1. k \in DOMAIN sends /\ k \in 1..n  BY DEF NotAfter
      <4>2. sends[k].at \in Int /\ sends[i].at \in Int /\ sends[j].at \in Int
        BY <1>0, <4>1
      <4>3. \/ sends[k].at < sends[i].at
            \/ sends[k].at = sends[i].at /\ k <= i
        BY DEF NotAfter
      <4>4. \/ sends[k].at < sends[j].at
            \/ sends[k].at = sends[j].at /\ k <= j
        BY <1>2, <4>1, <4>2, <4>3
      <4> QED  BY <4>1, <4>4 DEF NotAfter
    <3>2. ASSUME j \in NotAfter(sends, i)  PROVE FALSE
      <4>1. \/ sends[j].at < sends[i].at
            \/ sends[j].at = sends[i].at /\ j <= i
        BY <3>2 DEF NotAfter
      <4> QED  BY <1>0, <1>2, <4>1
    <3> QED  BY <3>1, <3>2
  <2>2. /\ Cardinality(NotAfter(sends, i)) <= Cardinality(NotAfter(sends, j))
        /\ Cardinality(NotAfter(sends, i)) # Cardinality(NotAfter(sends, j))
    BY <1>1, <2>1, FS_Subset
  <2> QED  BY <1>1, <2>2
<1> QED  BY <1>1, <1>2

\* Sorting is a permutation that puts the times in order.
LEMMA SortedSorts ==
  ASSUME NEW n \in Nat, NEW sends \in [1..n -> Send]
  PROVE  \E p \in [1..n -> 1..n] :
           /\ \A i \in 1..n : \E k \in 1..n : p[k] = i
           /\ \A j, k \in 1..n : j < k =>
                /\ p[j] # p[k]
                /\ sends[p[j]].at <= sends[p[k]].at
           /\ Sorted(sends) = [k \in 1..n |-> sends[p[k]]]
<1> DEFINE rank == [i \in 1..n |-> Rank(sends, i)]
           p == [k \in 1..n |-> CHOOSE i \in 1..n : Rank(sends, i) = k]
<1>1. /\ \A i \in 1..n : Rank(sends, i) \in 1..n
      /\ \A i, j \in 1..n :
           \/ sends[i].at < sends[j].at
           \/ sends[i].at = sends[j].at /\ i < j
           => Rank(sends, i) < Rank(sends, j)
  BY RanksOrder
<1>2. \A i, j \in 1..n : Rank(sends, i) = Rank(sends, j) => i = j
  <2>1. \A i \in 1..n : sends[i].at \in Int  BY DEF Send
  <2> SUFFICES ASSUME NEW i \in 1..n, NEW j \in 1..n,
                      Rank(sends, i) = Rank(sends, j), i # j
      PROVE  FALSE
    OBVIOUS
  <2>2. \/ sends[i].at < sends[j].at \/ sends[j].at < sends[i].at
        \/ sends[i].at = sends[j].at /\ (i < j \/ j < i)
    BY <2>1
  <2>3. Rank(sends, i) < Rank(sends, j) \/ Rank(sends, j) < Rank(sends, i)
    BY <1>1, <2>2
  <2> QED  BY <1>1, <2>3
<1>3. rank \in Injection(1..n, 1..n)
  BY <1>1, <1>2 DEF Injection, IsInjective
<1>4. rank \in Surjection(1..n, 1..n)
  <2>1. IsFiniteSet(1..n)  BY FS_Interval
  <2> HIDE DEF rank
  <2> QED  BY <1>3, <2>1, FS_Injection
<1>5. \A k \in 1..n : \E i \in 1..n : Rank(sends, i) = k
  BY <1>4 DEF Surjection
<1>6. \A k \in 1..n : p[k] \in 1..n /\ Rank(sends, p[k]) = k
  BY <1>5
<1>7. p \in [1..n -> 1..n]  BY <1>6
<1>8. Sorted(sends) = [k \in 1..n |-> sends[p[k]]]
  <2>1. DOMAIN sends = 1..n  OBVIOUS
  <2> QED  BY <2>1 DEF Sorted
<1> HIDE DEF p
<1>9. \A i \in 1..n : p[Rank(sends, i)] = i
  BY <1>1, <1>2, <1>6
<1>10. ASSUME NEW j \in 1..n, NEW k \in 1..n, j < k
       PROVE  p[j] # p[k] /\ sends[p[j]].at <= sends[p[k]].at
  <2>1. p[j] # p[k]  BY <1>6, <1>10
  <2>2. ~(sends[p[k]].at < sends[p[j]].at)
    <3>1. Rank(sends, p[j]) = j /\ Rank(sends, p[k]) = k
          /\ p[j] \in 1..n /\ p[k] \in 1..n
      BY <1>6
    <3> DEFINE a == p[j]
               b == p[k]
    <3> HIDE DEF a, b
    <3>2. sends[b].at < sends[a].at => Rank(sends, b) < Rank(sends, a)
      BY <1>1, <3>1 DEF a, b
    <3> QED  BY <1>10, <3>1, <3>2 DEF a, b
  <2>3. sends[p[j]].at \in Int /\ sends[p[k]].at \in Int
    BY <1>7 DEF Send
  <2> QED  BY <2>1, <2>2, <2>3
<1> QED  BY <1>1, <1>7, <1>8, <1>9, <1>10

-----------------------------------------------------------------------------
(* The rounds *)

Plans == [1..9 -> Send]

\* The same reminder, no earlier than it was.
Moves(before, after) == /\ after.sequence = before.sequence
                        /\ after.step = before.step
                        /\ after.final = before.final
                        /\ before.at <= after.at

\* No reminder is lost, none is added, none is earlier than it was.
Follows(before, after) ==
  /\ \A j \in 1..9 : \E k \in 1..9 : Moves(before[j], after[k])
  /\ \A k \in 1..9 : \E j \in 1..9 : Moves(before[j], after[k])

Spaced(sends) == \A k \in 2..9 : sends[k].at - sends[k - 1].at >= MIN_GAP

LEMMA FollowsOn ==
  ASSUME NEW a \in Plans, NEW b \in Plans, NEW c \in Plans,
         Follows(a, b), Follows(b, c)
  PROVE  Follows(a, c)
<1>1. ASSUME NEW i \in 1..9, NEW j \in 1..9, NEW k \in 1..9,
             Moves(a[i], b[j]), Moves(b[j], c[k])
      PROVE  Moves(a[i], c[k])
  <2>1. a[i].at \in Int /\ b[j].at \in Int /\ c[k].at \in Int
    BY DEF Plans, Send
  <2> QED  BY <1>1, <2>1 DEF Moves
<1>2. ASSUME NEW i \in 1..9  PROVE \E k \in 1..9 : Moves(a[i], c[k])
  <2>1. PICK j \in 1..9 : Moves(a[i], b[j])  BY DEF Follows
  <2>2. PICK k \in 1..9 : Moves(b[j], c[k])  BY DEF Follows
  <2> QED  BY <1>1, <2>1, <2>2
<1>3. ASSUME NEW k \in 1..9  PROVE \E i \in 1..9 : Moves(a[i], c[k])
  <2>1. PICK j \in 1..9 : Moves(b[j], c[k])  BY DEF Follows
  <2>2. PICK i \in 1..9 : Moves(a[i], b[j])  BY DEF Follows
  <2> QED  BY <1>1, <2>1, <2>2
<1> QED  BY <1>2, <1>3 DEF Follows

LEMMA FollowsSorted ==
  ASSUME NEW a \in Plans  PROVE Sorted(a) \in Plans /\ Follows(a, Sorted(a))
<1>1. PICK p \in [1..9 -> 1..9] :
        /\ \A i \in 1..9 : \E k \in 1..9 : p[k] = i
        /\ Sorted(a) = [k \in 1..9 |-> a[p[k]]]
  <2>1. a \in [1..9 -> Send] /\ 9 \in Nat  BY DEF Plans
  <2> DEFINE n == 9
  <2>2. a \in [1..n -> Send] /\ n \in Nat  BY <2>1
  <2> HIDE DEF n
  <2>3. \E p \in [1..n -> 1..n] :
          /\ \A i \in 1..n : \E k \in 1..n : p[k] = i
          /\ \A j, k \in 1..n : j < k =>
               /\ p[j] # p[k]
               /\ a[p[j]].at <= a[p[k]].at
          /\ Sorted(a) = [k \in 1..n |-> a[p[k]]]
    BY <2>2, SortedSorts
  <2> QED  BY <2>3 DEF n
<1>2. Sorted(a) \in Plans  BY <1>1 DEF Plans
<1>3. \A i \in 1..9 : a[i].at \in Int  BY DEF Plans, Send
<1>4. \A i \in 1..9 : Moves(a[i], a[i])  BY <1>3 DEF Moves
<1> QED  BY <1>1, <1>2, <1>4 DEF Follows

\* A round loses nothing, moves nothing back and leaves the reminders spaced.
LEMMA RoundMoves ==
  ASSUME NEW a \in Plans, NEW zone \in DOMAIN OFFSET, NEW transactional
  PROVE  LET b == Round(a, zone, transactional)
         IN  b \in Plans /\ Follows(a, b) /\ Spaced(b)
<1> DEFINE adjusted == [k \in DOMAIN a |-> Adjust(a[k], zone, transactional)]
           sorted   == Sorted(adjusted)
           spread   == Spread(sorted)
<1>1. adjusted \in Plans /\ Follows(a, adjusted)
  <2>1. ASSUME NEW k \in 1..9
        PROVE  adjusted[k] \in Send /\ Moves(a[k], adjusted[k])
    <3>1. a[k] \in Send  BY DEF Plans
    <3>2. adjusted[k] = Adjust(a[k], zone, transactional)  BY DEF Plans
    <3> HIDE DEF adjusted
    <3> QED  BY <3>1, <3>2, AdjustMoves DEF Moves
  <2>2. adjusted \in [1..9 -> Send]
    <3>1. DOMAIN a = 1..9  BY DEF Plans
    <3>2. adjusted = [k \in 1..9 |-> adjusted[k]]  BY <3>1
    <3> HIDE DEF adjusted
    <3> QED  BY <2>1, <3>2
  <2> HIDE DEF adjusted
  <2> QED  BY <2>1, <2>2 DEF Plans, Follows
<1> HIDE DEF adjusted
<1>2. sorted \in Plans /\ Follows(adjusted, sorted)  BY <1>1, FollowsSorted
<1> HIDE DEF sorted
<1>3. spread \in Plans /\ Follows(sorted, spread) /\ Spaced(spread)
  BY <1>2, SpreadSpaces DEF Plans, Follows, Moves, Spaced
<1>4. spread = Round(a, zone, transactional)
  BY DEF Round, sorted, adjusted
<1> HIDE DEF spread
<1>5. Follows(a, sorted)  BY <1>1, <1>2, FollowsOn
<1>6. Follows(a, spread)  BY <1>2, <1>3, <1>5, FollowsOn
<1> QED  BY <1>3, <1>4, <1>6

\* The equation of Rounds, for the first n rounds.
GoesRound(after, ideal, zone, transactional, n) ==
  after = [m \in 0..n |-> IF m = 0 THEN ideal
                          ELSE Round(after[m - 1], zone, transactional)]

LEMMA RoundsExtend ==
  ASSUME NEW n \in Nat, NEW ideal, NEW zone, NEW transactional,
         \E after : GoesRound(after, ideal, zone, transactional, n)
  PROVE  \E after : GoesRound(after, ideal, zone, transactional, n + 1)
<1>1. PICK after : GoesRound(after, ideal, zone, transactional, n)  OBVIOUS
<1> DEFINE new == [m \in 0..(n + 1) |->
                     IF m \in 0..n THEN after[m]
                     ELSE Round(after[m - 1], zone, transactional)]
<1>2. ASSUME NEW m \in 0..(n + 1)
      PROVE  new[m] = IF m = 0 THEN ideal
                      ELSE Round(new[m - 1], zone, transactional)
  <2>1. m # 0 => m - 1 \in 0..n  BY <1>2
  <2>2. m # 0 => new[m - 1] = after[m - 1]  BY <2>1
  <2>3. CASE m \in 0..n
    <3>1. new[m] = after[m]  BY <2>3
    <3>2. after[m] = IF m = 0 THEN ideal
                     ELSE Round(after[m - 1], zone, transactional)
      BY <1>1, <2>3 DEF GoesRound
    <3> QED  BY <2>2, <3>1, <3>2
  <2>4. CASE m \notin 0..n
    <3>1. new[m] = Round(after[m - 1], zone, transactional) /\ m # 0
      BY <2>4
    <3> QED  BY <2>2, <3>1
  <2> QED  BY <2>3, <2>4
<1>3. GoesRound(new, ideal, zone, transactional, n + 1)
  <2>1. new = [m \in 0..(n + 1) |-> new[m]]  OBVIOUS
  <2> HIDE DEF new
  <2> QED  BY <1>2, <2>1 DEF GoesRound
<1> QED  BY <1>3

LEMMA EightRounds ==
  ASSUME NEW ideal, NEW zone, NEW transactional
  PROVE  GoesRound(Rounds(ideal, zone, transactional),
                   ideal, zone, transactional, MAX_ROUNDS)
<1> DEFINE Solved(n) == \E after : GoesRound(after, ideal, zone, transactional, n)
<1>1. Solved(0)
  <2>1. GoesRound([m \in 0..0 |-> ideal], ideal, zone, transactional, 0)
    BY DEF GoesRound
  <2> QED  BY <2>1
<1>2. ASSUME NEW n \in Nat, Solved(n)  PROVE Solved(n + 1)
  BY <1>2, RoundsExtend
<1> HIDE DEF Solved
<1>3. Solved(1) /\ Solved(2)  BY <1>1, <1>2
<1>4. Solved(3) /\ Solved(4)  BY <1>2, <1>3
<1>5. Solved(5) /\ Solved(6)  BY <1>2, <1>4
<1>6. Solved(7) /\ Solved(8)  BY <1>2, <1>5
<1>7. \E after : GoesRound(after, ideal, zone, transactional, 8)
  BY <1>6 DEF Solved
<1>8. Rounds(ideal, zone, transactional)
        = CHOOSE after : GoesRound(after, ideal, zone, transactional, 8)
  BY DEF Rounds, GoesRound, MAX_ROUNDS
<1> QED  BY <1>7, <1>8 DEF MAX_ROUNDS

LEMMA RoundsMove ==
  ASSUME NEW ideal \in Plans, NEW zone \in DOMAIN OFFSET, NEW transactional
  PROVE  LET last == Rounds(ideal, zone, transactional)[MAX_ROUNDS]
         IN  last \in Plans /\ Follows(ideal, last) /\ Spaced(last)
<1> DEFINE after == Rounds(ideal, zone, transactional)
           Good(m) == after[m] \in Plans /\ Follows(ideal, after[m])
<1>1. \A m \in 0..8 : after[m] = IF m = 0 THEN ideal
                                ELSE Round(after[m - 1], zone, transactional)
  BY EightRounds DEF GoesRound, MAX_ROUNDS
<1> HIDE DEF after
<1>2. Good(0)
  <2>1. \A k \in 1..9 : ideal[k].at \in Int  BY DEF Plans, Send
  <2>2. \A k \in 1..9 : Moves(ideal[k], ideal[k])  BY <2>1 DEF Moves
  <2> QED  BY <1>1, <2>2 DEF Follows
<1>3. ASSUME NEW m \in 1..8, Good(m - 1)  PROVE Good(m) /\ Spaced(after[m])
  <2>1. after[m] = Round(after[m - 1], zone, transactional)  BY <1>1
  <2>2. /\ after[m] \in Plans /\ Follows(after[m - 1], after[m])
        /\ Spaced(after[m])
    BY <1>3, <2>1, RoundMoves
  <2> QED  BY <1>3, <2>2, FollowsOn
<1> HIDE DEF Good
<1>4. Good(1) /\ Good(2)  BY <1>2, <1>3
<1>5. Good(3) /\ Good(4)  BY <1>3, <1>4
<1>6. Good(5) /\ Good(6)  BY <1>3, <1>5
<1>7. Good(7) /\ Good(8) /\ Spaced(after[8])  BY <1>3, <1>6
<1> QED  BY <1>7 DEF Good, after, MAX_ROUNDS

-----------------------------------------------------------------------------
(* Where the rounds come to rest *)

\* Every gap of a spaced plan, not only those between neighbours.
LEMMA SpacedApart ==
  ASSUME NEW a \in Plans, Spaced(a), NEW i \in 1..9, NEW j \in 1..9, i < j
  PROVE  a[j].at - a[i].at >= MIN_GAP
<1> DEFINE t == [k \in 1..9 |-> a[k].at]
           Apart(m) == \A k \in 1..m : k # m => t[m] - t[k] >= MIN_GAP
<1>1. /\ MIN_GAP \in Nat /\ \A k \in 1..9 : t[k] \in Int
      /\ \A k \in 2..9 : t[k] - t[k - 1] >= MIN_GAP
  BY DEF Plans, Send, Spaced, MIN_GAP, HOUR
<1> HIDE DEF t
<1>2. Apart(1)  OBVIOUS
<1>3. ASSUME NEW m \in 1..8, Apart(m)  PROVE Apart(m + 1)
  BY <1>1, <1>3
<1> HIDE DEF Apart
<1>4. Apart(2) /\ Apart(3)  BY <1>2, <1>3
<1>5. Apart(4) /\ Apart(5)  BY <1>3, <1>4
<1>6. Apart(6) /\ Apart(7)  BY <1>3, <1>5
<1>7. Apart(8) /\ Apart(9)  BY <1>3, <1>6
<1>8. Apart(j)  BY <1>2, <1>4, <1>5, <1>6, <1>7
<1>9. t[j] - t[i] >= MIN_GAP  BY <1>8 DEF Apart
<1>10. t[j] = a[j].at /\ t[i] = a[i].at  BY DEF t
<1> QED  BY <1>9, <1>10

\* What is spaced is sorted.
LEMMA SpacedIsSorted ==
  ASSUME NEW a \in Plans, Spaced(a)
  PROVE  Sorted(a) = a
<1>1. ASSUME NEW i \in 1..9, NEW j \in 1..9, i < j  PROVE a[i].at < a[j].at
  <2>1. a[i].at \in Int /\ a[j].at \in Int  BY DEF Plans, Send
  <2>2. a[j].at - a[i].at >= MIN_GAP  BY <1>1, SpacedApart
  <2> QED  BY <2>1, <2>2 DEF MIN_GAP, HOUR
<1>2. ASSUME NEW i \in 1..9  PROVE Rank(a, i) = i
  <2>1. \A j \in 1..9 : a[j].at \in Int  BY DEF Plans, Send
  <2>2. ASSUME NEW j \in 1..9
        PROVE  (a[j].at < a[i].at \/ (a[j].at = a[i].at /\ j <= i)) <=> j <= i
    BY <1>1, <2>1
  <2>3. DOMAIN a = 1..9  BY DEF Plans
  <2>4. NotAfter(a, i) = 1..i  BY <2>2, <2>3 DEF NotAfter
  <2>5. i \in Int /\ 1 \in Int /\ i >= 1  OBVIOUS
  <2>6. Cardinality(1..i) = IF 1 > i THEN 0 ELSE i - 1 + 1
    BY <2>5, FS_Interval
  <2> QED  BY <2>4, <2>5, <2>6 DEF Rank
<1>3. \A k \in 1..9 : (CHOOSE i \in 1..9 : Rank(a, i) = k) = k  BY <1>2
<1>4. DOMAIN a = 1..9 /\ a = [k \in 1..9 |-> a[k]]  BY DEF Plans
<1>5. Sorted(a) = [k \in 1..9 |-> a[CHOOSE i \in 1..9 : Rank(a, i) = k]]
  BY <1>4 DEF Sorted
<1> QED  BY <1>3, <1>4, <1>5

LEMMA SpacedIsSpread ==
  ASSUME NEW a \in Plans, Spaced(a)
  PROVE  Spread(a) = a
<1> DEFINE time == SpreadTimes(a)
<1>1. SpreadsOut(time, a, 9)
  <2>1. time = CHOOSE f : SpreadsOut(f, a, 9)
    <3>1. DOMAIN a = 1..9  BY DEF Plans
    <3> QED  BY <3>1 DEF SpreadTimes, SpreadsOut
  <2> QED  BY <2>1, NineTimes
<1> HIDE DEF time
<1>2. \A k \in 1..9 : time[k] = IF k > 1 /\ a[k].at - time[k - 1] < MIN_GAP
                                THEN time[k - 1] + MIN_GAP ELSE a[k].at
  BY <1>1 DEF SpreadsOut
<1>3. /\ \A k \in 1..9 : a[k].at \in Int /\ a[k] \in Send
      /\ MIN_GAP \in Nat
  BY DEF Plans, Send, MIN_GAP, HOUR
<1> DEFINE Same(k) == time[k] = a[k].at
<1>4. Same(1)  BY <1>2
<1>5. ASSUME NEW k \in 2..9, Same(k - 1)  PROVE Same(k)
  BY <1>2, <1>3, <1>5 DEF Spaced
<1> HIDE DEF Same
<1>6. Same(2) /\ Same(3)  BY <1>4, <1>5
<1>7. Same(4) /\ Same(5)  BY <1>5, <1>6
<1>8. Same(6) /\ Same(7)  BY <1>5, <1>7
<1>9. Same(8) /\ Same(9)  BY <1>5, <1>8
<1>10. \A k \in 1..9 : time[k] = a[k].at
  BY <1>4, <1>6, <1>7, <1>8, <1>9 DEF Same
<1>11. \A k \in 1..9 : [a[k] EXCEPT !.at = time[k]] = a[k]
  BY <1>3, <1>10 DEF Send
<1>12. DOMAIN a = 1..9 /\ a = [k \in 1..9 |-> a[k]]  BY DEF Plans
<1>13. Spread(a) = [k \in 1..9 |-> [a[k] EXCEPT !.at = time[k]]]
  BY <1>12 DEF Spread, time
<1> QED  BY <1>11, <1>12, <1>13

\* A reminder that keeps the rules is left where it is.
LEMMA KeptIsRest ==
  ASSUME NEW send \in Send, NEW zone \in DOMAIN OFFSET, NEW transactional,
         ~inQuietHours(send.at, zone),
         send.final => ~OnSunday(send.at, zone),
         ~conflictsWithTransactional(send.at, transactional)
  PROVE  Adjust(send, zone, transactional) = send
<1>1. ShiftFinalOffSunday(send, zone) = send.at  BY DEF ShiftFinalOffSunday
<1>2. applyQuietHours(send.at, zone) = send.at
  BY DEF applyQuietHours, inQuietHours
<1>3. Adjust(send, zone, transactional) = [send EXCEPT !.at = send.at]
  BY <1>1, <1>2 DEF Adjust
<1> QED  BY <1>3 DEF Send

\* An order of nine that puts nobody later than his place is the identity.
LEMMA InPlace ==
  ASSUME NEW p \in [1..9 -> 1..9],
         \A j, k \in 1..9 : j < k => p[j] # p[k],
         \A k \in 1..9 : p[k] <= k
  PROVE  \A k \in 1..9 : p[k] = k
<1> DEFINE Fixed(m) == \A k \in 1..m : p[k] = k
<1>1. Fixed(1)  OBVIOUS
<1>2. ASSUME NEW m \in 1..8, Fixed(m)  PROVE Fixed(m + 1)
  <2>1. p[m + 1] \in 1..(m + 1)  OBVIOUS
  <2>2. \A k \in 1..m : p[m + 1] # k
    <3>1. ASSUME NEW k \in 1..m  PROVE p[k] # p[m + 1]  OBVIOUS
    <3> QED  BY <1>2, <3>1
  <2>3. p[m + 1] = m + 1  BY <2>1, <2>2
  <2> QED  BY <1>2, <2>3
<1> HIDE DEF Fixed
<1>3. Fixed(2) /\ Fixed(3)  BY <1>1, <1>2
<1>4. Fixed(4) /\ Fixed(5)  BY <1>2, <1>3
<1>5. Fixed(6) /\ Fixed(7)  BY <1>2, <1>4
<1>6. Fixed(8) /\ Fixed(9)  BY <1>2, <1>5
<1> QED  BY <1>6 DEF Fixed

KeepsTheRules(sends, zone, transactional) ==
  /\ LeavesTheNightAlone(sends, zone)
  /\ FinalsOffSunday(sends, zone)
  /\ ClearOf(sends, transactional)
  /\ WellSpaced(sends)

LEMMA PlanLength ==
  ASSUME NEW a \in Plans
  PROVE  Len(a) = 9 /\ (WellSpaced(a) <=> Spaced(a))
<1>1. a \in Seq(Send)
  <2>1. 9 \in Nat /\ a \in [1..9 -> Send]  BY DEF Plans
  <2> QED  BY <2>1, SeqDef
<1>2. Len(a) = 9
  <2>1. Len(a) \in Nat /\ DOMAIN a = 1..Len(a)  BY <1>1, LenProperties
  <2>2. DOMAIN a = 1..9  BY DEF Plans
  <2> DEFINE n == Len(a)
  <2>3. n \in Nat /\ 1..n = 1..9  BY <2>1, <2>2
  <2> HIDE DEF n
  <2>4. 9 \in 1..n  BY <2>3
  <2>5. n \in 1..n  BY <2>3, <2>4
  <2>6. n \in 1..9  BY <2>3, <2>5
  <2>7. n = 9  BY <2>4, <2>6
  <2> QED  BY <2>7 DEF n
<1> QED  BY <1>2 DEF WellSpaced, Spaced

\* Once a plan keeps the rules no round changes it, and a plan that a round
\* leaves as it is keeps them all: the loop of buildDripSchedule may stop at the
\* first round without a change, and what it stops at is a plan that keeps the
\* rules, for any zone and any other mails.
THEOREM RestIsRules ==
  ASSUME NEW a \in Plans, NEW zone \in DOMAIN OFFSET, NEW transactional
  PROVE  Round(a, zone, transactional) = a
           <=> KeepsTheRules(a, zone, transactional)
<1> DEFINE adjusted == [k \in DOMAIN a |-> Adjust(a[k], zone, transactional)]
           sorted   == Sorted(adjusted)
<1>0. DOMAIN a = 1..9 /\ a = [k \in 1..9 |-> a[k]] /\ \A k \in 1..9 : a[k] \in Send
  BY DEF Plans
<1>1. \A k \in 1..9 : adjusted[k] = Adjust(a[k], zone, transactional)  BY <1>0
<1>2. adjusted = [k \in 1..9 |-> adjusted[k]]  BY <1>0
<1>3. Round(a, zone, transactional) = Spread(sorted)  BY DEF Round
<1> HIDE DEF adjusted
<1>4. ASSUME KeepsTheRules(a, zone, transactional)
      PROVE  Round(a, zone, transactional) = a
  <2>1. ASSUME NEW k \in 1..9  PROVE adjusted[k] = a[k]
    <3>1. /\ ~inQuietHours(a[k].at, zone)
          /\ a[k].final => ~OnSunday(a[k].at, zone)
          /\ ~conflictsWithTransactional(a[k].at, transactional)
      BY <1>0, <1>4
      DEF KeepsTheRules, LeavesTheNightAlone, FinalsOffSunday, ClearOf
    <3> QED  BY <1>0, <1>1, <3>1, KeptIsRest
  <2>2. adjusted = a  BY <1>0, <1>2, <2>1
  <2>3. Spaced(a)  BY <1>4, PlanLength DEF KeepsTheRules
  <2>4. sorted = a  BY <2>2, <2>3, SpacedIsSorted
  <2> QED  BY <1>3, <2>3, <2>4, SpacedIsSpread
<1>5. ASSUME Round(a, zone, transactional) = a
      PROVE  KeepsTheRules(a, zone, transactional)
  <2>1. Spaced(a)  BY <1>5, RoundMoves
  <2>2. ASSUME NEW k \in 1..9
        PROVE  /\ adjusted[k] \in Send /\ a[k].at <= adjusted[k].at
               /\ adjusted[k].at \in Int /\ a[k].at \in Int
    <3>1. adjusted[k] \in Send /\ a[k].at <= adjusted[k].at
      BY <1>0, <1>1, AdjustMoves
    <3> QED  BY <1>0, <3>1 DEF Send
  <2>3. adjusted \in [1..9 -> Send]  BY <1>2, <2>2
  <2>4. PICK p \in [1..9 -> 1..9] :
          /\ \A j, k \in 1..9 : j < k => p[j] # p[k]
          /\ sorted = [k \in 1..9 |-> adjusted[p[k]]]
    <3> DEFINE n == 9
    <3>1. adjusted \in [1..n -> Send] /\ n \in Nat  BY <2>3
    <3> HIDE DEF n
    <3>2. \E p \in [1..n -> 1..n] :
            /\ \A i \in 1..n : \E k \in 1..n : p[k] = i
            /\ \A j, k \in 1..n : j < k =>
                 /\ p[j] # p[k]
                 /\ adjusted[p[j]].at <= adjusted[p[k]].at
            /\ Sorted(adjusted) = [k \in 1..n |-> adjusted[p[k]]]
      BY <3>1, SortedSorts
    <3> QED  BY <3>2 DEF n
  <2> HIDE DEF sorted
  <2>5. ASSUME NEW k \in 1..9
        PROVE  adjusted[p[k]].at <= a[k].at /\ p[k] \in 1..9
    <3>1. sorted \in [1..9 -> Send]  BY <2>3, <2>4
    <3>2. sorted[k].at <= Spread(sorted)[k].at  BY <3>1, SpreadSpaces
    <3> QED  BY <1>3, <1>5, <2>4, <3>2
  <2>6. ASSUME NEW k \in 1..9  PROVE p[k] <= k
    <3>1. a[p[k]].at <= a[k].at
      <4>1. /\ a[p[k]].at <= adjusted[p[k]].at
            /\ a[p[k]].at \in Int /\ adjusted[p[k]].at \in Int /\ a[k].at \in Int
        BY <2>2, <2>5
      <4> QED  BY <2>5, <4>1
    <3>2. ASSUME k < p[k]  PROVE FALSE
      <4>1. a[p[k]].at - a[k].at >= MIN_GAP  BY <2>1, <2>5, <3>2, SpacedApart
      <4>2. a[p[k]].at \in Int /\ a[k].at \in Int  BY <2>2, <2>5
      <4> QED  BY <3>1, <4>1, <4>2 DEF MIN_GAP, HOUR
    <3> QED  BY <2>5, <3>2
  <2>7. \A k \in 1..9 : p[k] = k  BY <2>4, <2>6, InPlace
  <2>8. ASSUME NEW k \in 1..9  PROVE adjusted[k] = a[k]
    <3>1. adjusted[k].at <= a[k].at  BY <2>5, <2>7
    <3>2. adjusted[k].at = a[k].at  BY <2>2, <3>1
    <3>3. /\ adjusted[k].sequence = a[k].sequence
          /\ adjusted[k].step = a[k].step /\ adjusted[k].final = a[k].final
      BY <1>0, <1>1, AdjustMoves
    <3> QED  BY <1>0, <2>2, <3>2, <3>3 DEF Send
  <2>9. ASSUME NEW k \in 1..9
        PROVE  /\ ~inQuietHours(a[k].at, zone)
               /\ a[k].final => ~OnSunday(a[k].at, zone)
               /\ ~conflictsWithTransactional(a[k].at, transactional)
    <3>1. Adjust(a[k], zone, transactional) = a[k]  BY <1>1, <2>8
    <3> QED  BY <1>0, <3>1, RestIsKept
  <2>10. WellSpaced(a)  BY <2>1, PlanLength
  <2> QED  BY <1>0, <2>9, <2>10
      DEF KeepsTheRules, LeavesTheNightAlone, FinalsOffSunday, ClearOf
<1> QED  BY <1>4, <1>5

-----------------------------------------------------------------------------
(* The whole plan *)

LEMMA IdealIsPlan ==
  ASSUME NEW submitted \in Int, NEW zone \in DOMAIN OFFSET
  PROVE  Ideal(submitted, zone) \in Plans
<1>1. OFFSET[zone] \in Int  BY DEF OFFSET, HOUR
<1>2. /\ DOMAIN IDEAL_SLOTS = 1..9
      /\ \A k \in DOMAIN IDEAL_SLOTS : IDEAL_SLOTS[k] \in
           [sequence : {"call_in", "bank_verification"}, step : 1..6, day : Int,
            minute : Int, final : BOOLEAN]
  <2>1. DOMAIN IDEAL_SLOTS = 1..9  BY DEF IDEAL_SLOTS
  <2>2. \A k \in 1..9 : IDEAL_SLOTS[k] \in
           [sequence : {"call_in", "bank_verification"}, step : 1..6, day : Int,
            minute : Int, final : BOOLEAN]
    <3> DEFINE Slots == [sequence : {"call_in", "bank_verification"}, step : 1..6,
                         day : Int, minute : Int, final : BOOLEAN]
    <3>1. IDEAL_SLOTS[1] \in Slots /\ IDEAL_SLOTS[2] \in Slots
          /\ IDEAL_SLOTS[3] \in Slots
      BY DEF IDEAL_SLOTS, Slot, SPECIAL, HOUR
    <3>2. IDEAL_SLOTS[4] \in Slots /\ IDEAL_SLOTS[5] \in Slots
          /\ IDEAL_SLOTS[6] \in Slots
      BY DEF IDEAL_SLOTS, Slot, SPECIAL, HOUR
    <3>3. IDEAL_SLOTS[7] \in Slots /\ IDEAL_SLOTS[8] \in Slots
          /\ IDEAL_SLOTS[9] \in Slots
      BY DEF IDEAL_SLOTS, Slot, SPECIAL, HOUR
    <3> HIDE DEF Slots
    <3>4. \A k \in 1..9 : IDEAL_SLOTS[k] \in Slots  BY <3>1, <3>2, <3>3
    <3> QED  BY <3>4 DEF Slots
  <2> QED  BY <2>1, <2>2
<1>3. ASSUME NEW k \in 1..9
      PROVE  IdealTime(IDEAL_SLOTS[k], submitted, zone) \in Int
  <2> DEFINE slot == IDEAL_SLOTS[k]
  <2>1. slot.day \in Int /\ slot.minute \in Int  BY <1>2
  <2> HIDE DEF slot
  <2>2. IdealTime(slot, submitted, zone) \in Int
    BY <1>1, <2>1 DEF IdealTime, atLocalTime, Midnight, Local, DAY, HOUR,
                      LATE_SUBMISSION_DELAY
  <2> QED  BY <2>2 DEF slot
<1> QED  BY <1>2, <1>3 DEF Ideal, Plans, Send

\* A plan has the nine reminders of the grid, each once, none before its ideal
\* time, two hours apart at least: for every time a form is submitted, every
\* zone and every set of other mails, and whether the rules have come to rest
\* or the code has given up after eight rounds.
THEOREM PlansFollowTheGrid ==
  ASSUME NEW submitted \in Int, NEW zone \in DOMAIN OFFSET, NEW transactional
  PROVE  LET sends == buildDripSchedule(submitted, zone, transactional)
         IN  /\ sends \in Plans
             /\ Follows(Ideal(submitted, zone), sends)
             /\ WellSpaced(sends)
<1> DEFINE last == Rounds(Ideal(submitted, zone), zone, transactional)[MAX_ROUNDS]
<1>1. /\ last \in Plans /\ Follows(Ideal(submitted, zone), last) /\ Spaced(last)
  BY IdealIsPlan, RoundsMove
<1>2. Sorted(last) = last
  <2> HIDE DEF last
  <2> QED  BY <1>1, SpacedIsSorted
<1>3. buildDripSchedule(submitted, zone, transactional) = last
  BY <1>2 DEF buildDripSchedule
<1> HIDE DEF last
<1>4. WellSpaced(last)  BY <1>1, PlanLength
<1> QED  BY <1>1, <1>3, <1>4

-----------------------------------------------------------------------------
(* One reminder from round to round.  Times are minutes since the midnight   *)
(* of the day of the submission, where the borrower lives; that day is day c *)
(* of a week that starts on a Sunday; j and k are two other mails.           *)

Awake(x) ==
  IF x % DAY < QUIET_HOURS_END * HOUR
  THEN x - (x % DAY) + QUIET_HOURS_END * HOUR
  ELSE IF x % DAY >= QUIET_HOURS_START * HOUR
  THEN x - (x % DAY) + DAY + QUIET_HOURS_END * HOUR ELSE x

Near(x, j, k) == \/ j - 90 <= x /\ x <= j + 90
                 \/ k - 90 <= x /\ x <= k + 90

Pushed(x, j, k) == IF Near(Awake(x), j, k) THEN Awake(x) + 120 ELSE Awake(x)

Sunday(x, c) == (c + (x \div DAY)) % 7 = 0

PushedFinal(x, c, j, k) ==
  Pushed(IF Sunday(x, c) THEN x + DAY ELSE x, j, k)

\* Where the round leaves a reminder pushed to u, when x is the time of the one
\* before it.
Following(u, x) == IF u - x < 120 THEN x + 120 ELSE u

\* u is where x is pushed to, read off the time of day.  d is a midnight.
Lands(d, x, u, j, k) ==
  d - 960 <= x /\ x < d + 4140 =>
    \E y \in Int :
      /\ \/ d - 180 <= x /\ x < d + 480 /\ y = d + 480
         \/ d + 1260 <= x /\ x < d + 1920 /\ y = d + 1920
         \/ d + 2700 <= x /\ x < d + 3360 /\ y = d + 3360
         \/ x < d - 180 /\ y = x
         \/ d + 480 <= x /\ x < d + 1260 /\ y = x
         \/ d + 1920 <= x /\ x < d + 2700 /\ y = x
         \/ d + 3360 <= x /\ y = x
      /\ \/ Near(y, j, k) /\ u = y + 120
         \/ ~Near(y, j, k) /\ u = y

LEMMA AwakeGoesOn ==
  ASSUME NEW x \in Int
  PROVE  Awake(x) \in Int /\ x <= Awake(x)
BY DEF Awake, DAY, HOUR, QUIET_HOURS_END, QUIET_HOURS_START

LEMMA PushedGoesOn ==
  ASSUME NEW x \in Int, NEW j, NEW k
  PROVE  Pushed(x, j, k) \in Int /\ x <= Pushed(x, j, k)
<1>1. Awake(x) \in Int /\ x <= Awake(x)  BY AwakeGoesOn
<1> QED  BY <1>1 DEF Pushed

LEMMA LandsPushed ==
  ASSUME NEW d \in Int, d % 1440 = 0, NEW x \in Int, NEW j \in Int, NEW k \in Int
  PROVE  Lands(d, x, Pushed(x, j, k), j, k)
<1> SUFFICES ASSUME d - 960 <= x, x < d + 4140
    PROVE  Lands(d, x, Pushed(x, j, k), j, k)
  BY DEF Lands
<1> DEFINE n == IF x < d THEN -1 ELSE IF x < d + 1440 THEN 0
                ELSE IF x < d + 2880 THEN 1 ELSE 2
           h == x - d - n * 1440
           y == Awake(x)
<1>1. n \in -1..3 /\ h \in 0..1439 /\ x = d + n * 1440 + h  OBVIOUS
<1>2. x % 1440 = h
  <2> DEFINE q == d \div 1440
  <2>1. q \in Int /\ d = 1440 * q  OBVIOUS
  <2> HIDE DEF n, h, q
  <2>2. x = 1440 * (q + n) + h  BY <1>1, <2>1
  <2> QED  BY <1>1, <2>1, <2>2
<1>3. /\ y \in Int
      /\ \/ d - 180 <= x /\ x < d + 480 /\ y = d + 480
         \/ d + 1260 <= x /\ x < d + 1920 /\ y = d + 1920
         \/ d + 2700 <= x /\ x < d + 3360 /\ y = d + 3360
         \/ x < d - 180 /\ y = x
         \/ d + 480 <= x /\ x < d + 1260 /\ y = x
         \/ d + 1920 <= x /\ x < d + 2700 /\ y = x
         \/ d + 3360 <= x /\ y = x
  <2>1. y = IF h < 480 THEN x - h + 480
            ELSE IF h >= 1260 THEN x - h + 1920 ELSE x
    BY <1>2 DEF Awake, DAY, HOUR, QUIET_HOURS_END, QUIET_HOURS_START
  <2> HIDE DEF y
  <2> QED  BY <2>1
<1>4. Pushed(x, j, k) = IF Near(y, j, k) THEN y + 120 ELSE y  BY DEF Pushed
<1> HIDE DEF y, n, h
<1> QED  BY <1>3, <1>4 DEF Lands


\* u is where a last reminder is pushed to: d is the midnight of a day that is
\* no Sunday, s what SundayAfter says.
FinalLands(d, s, x, u, j, k) ==
  d <= x /\ x < d + 3600 =>
    \E y \in Int :
      /\ \/ x < d + 1440 /\ y = x
         \/ d + 1440 <= x /\ x < d + 2880 /\ y = x + s
         \/ d + 2880 <= x /\ y = x
         \/ d + 2880 <= x /\ s = 0 /\ y = x + 1440
      /\ Lands(d, y, u, j, k)

\* What a Sunday after day d adds.
SundayAfter(d, c) == IF Sunday(d + 1440, c) THEN 1440 ELSE 0

\* d is the midnight of such a day.
NoSunday(d, c) == d % 1440 = 0 /\ ~Sunday(d, c)

LEMMA FinalLandsPushed ==
  ASSUME NEW d \in Int, NEW c \in Int, NoSunday(d, c),
         NEW x \in Int, NEW j \in Int, NEW k \in Int
  PROVE  FinalLands(d, SundayAfter(d, c), x, PushedFinal(x, c, j, k), j, k)
<1> SUFFICES ASSUME d <= x, x < d + 3600
    PROVE  FinalLands(d, SundayAfter(d, c), x, PushedFinal(x, c, j, k), j, k)
  BY DEF FinalLands
<1> DEFINE s == SundayAfter(d, c)
           q == d \div 1440
           n == IF x < d + 1440 THEN 0 ELSE IF x < d + 2880 THEN 1 ELSE 2
           y == IF Sunday(x, c) THEN x + DAY ELSE x
<1>1. DAY = 1440  BY DEF DAY, HOUR
<1>2. q \in Int /\ d = 1440 * q  BY DEF NoSunday
<1>3. x \div 1440 = q + n /\ d \div 1440 = q /\ (d + 1440) \div 1440 = q + 1
  <2>1. n \in 0..2 /\ d + n * 1440 <= x /\ x < d + n * 1440 + 1440  OBVIOUS
  <2> HIDE DEF n, q
  <2>2. 1440 * (q + n) <= x /\ x < 1440 * (q + n) + 1440  BY <1>2, <2>1
  <2> QED  BY <1>2, <2>1, <2>2
<1>4. y \in Int /\ Lands(d, y, Pushed(y, j, k), j, k)
  <2>1. y \in Int  BY <1>1
  <2>2. d % 1440 = 0  BY DEF NoSunday
  <2> HIDE DEF y
  <2> QED  BY <2>1, <2>2, LandsPushed
<1>5. \/ x < d + 1440 /\ y = x
      \/ d + 1440 <= x /\ x < d + 2880 /\ y = x + s
      \/ d + 2880 <= x /\ y = x
      \/ d + 2880 <= x /\ s = 0 /\ y = x + 1440
  <2>1. (c + q) % 7 # 0  BY <1>1, <1>3 DEF NoSunday, Sunday
  <2>2. Sunday(d + 1440, c) <=> (c + q + 1) % 7 = 0  BY <1>1, <1>2, <1>3 DEF Sunday
  <2>3. Sunday(x, c) <=> (c + q + n) % 7 = 0  BY <1>1, <1>2, <1>3 DEF Sunday
  <2> HIDE DEF q
  <2>4. n = 2 => ~(Sunday(d + 1440, c) /\ Sunday(x, c))  BY <1>2, <2>2, <2>3
  <2>5. n = 0 => ~Sunday(x, c)  BY <1>2, <2>1, <2>3
  <2>6. n = 1 => (Sunday(x, c) <=> Sunday(d + 1440, c))  BY <1>2, <2>2, <2>3
  <2> QED  BY <1>1, <2>4, <2>5, <2>6 DEF SundayAfter
<1>6. PushedFinal(x, c, j, k) = Pushed(y, j, k)  BY DEF PushedFinal
<1> HIDE DEF y
<1>7. FinalLands(d, s, x, Pushed(y, j, k), j, k)  BY <1>4, <1>5 DEF FinalLands
<1> QED  BY <1>6, <1>7


-----------------------------------------------------------------------------
(* The reminders of one day, for seven rounds *)

Trails == [0..7 -> Int]

\* A reminder with none before it, and one that comes after another.
LedByNone(a, j, k) ==
  /\ a[1] = Pushed(a[0], j, k)
  /\ a[2] = Pushed(a[1], j, k)
  /\ a[3] = Pushed(a[2], j, k)
  /\ a[4] = Pushed(a[3], j, k)
  /\ a[5] = Pushed(a[4], j, k)
  /\ a[6] = Pushed(a[5], j, k)
  /\ a[7] = Pushed(a[6], j, k)

After(b, a, j, k) ==
  /\ b[1] = Following(Pushed(b[0], j, k), a[1])
  /\ b[2] = Following(Pushed(b[1], j, k), a[2])
  /\ b[3] = Following(Pushed(b[2], j, k), a[3])
  /\ b[4] = Following(Pushed(b[3], j, k), a[4])
  /\ b[5] = Following(Pushed(b[4], j, k), a[5])
  /\ b[6] = Following(Pushed(b[5], j, k), a[6])
  /\ b[7] = Following(Pushed(b[6], j, k), a[7])

AfterFinal(b, a, w, j, k) ==
  /\ b[1] = Following(PushedFinal(b[0], w, j, k), a[1])
  /\ b[2] = Following(PushedFinal(b[1], w, j, k), a[2])
  /\ b[3] = Following(PushedFinal(b[2], w, j, k), a[3])
  /\ b[4] = Following(PushedFinal(b[3], w, j, k), a[4])
  /\ b[5] = Following(PushedFinal(b[4], w, j, k), a[5])
  /\ b[6] = Following(PushedFinal(b[5], w, j, k), a[6])
  /\ b[7] = Following(PushedFinal(b[6], w, j, k), a[7])

\* The reminder before those of a day is the one that is due right after the
\* submission, or the last of the day before: that one keeps to its own day and
\* this morning, and in the morning it is at rest at eight or, with both mails
\* behind it, at ten; or the second mail is due this morning, and the first was
\* last evening.
Arrives(d, z, j, k) ==
  /\ z[5] = z[6] /\ z[6] = z[7]
  /\ z[0] <= z[1] /\ z[1] <= z[2] /\ z[2] <= z[3] /\ z[3] <= z[4] /\ z[4] <= z[5]
  /\ \/ z[7] <= d + 480
     \/ k <= d - 240 /\ z[7] <= d + 600
     \/ /\ j <= d - 270 /\ d + 390 <= k /\ k <= d + 570
        /\ z[2] <= d - 120 /\ z[3] <= d + 600 /\ z[4] = z[5] /\ z[7] <= d + 720
        /\ k < d + 510 => z[7] <= d + 600

Leads(d, z, j, k) == d - 360 <= z[0] /\ z[0] < d + 180 /\ LedByNone(z, j, k)

\* y is the later of where a reminder is pushed to and two hours after the one
\* before it.
Behind(u, x, y) == u <= y /\ x + 120 <= y /\ (y = u \/ y = x + 120)

LEMMA FollowingIsBehind ==
  \A x \in Int, u \in Int : Behind(u, x, Following(u, x))
BY DEF Following, Behind

\* The same for seven rounds.
LandSeven(d, x0, x1, x2, x3, x4, x5, x6,
          u0, u1, u2, u3, u4, u5, u6, j, k) ==
  /\ Lands(d, x0, u0, j, k)
  /\ Lands(d, x1, u1, j, k)
  /\ Lands(d, x2, u2, j, k)
  /\ Lands(d, x3, u3, j, k)
  /\ Lands(d, x4, u4, j, k)
  /\ Lands(d, x5, u5, j, k)
  /\ Lands(d, x6, u6, j, k)

FinalLandSeven(d, s, x0, x1, x2, x3, x4, x5, x6,
               u0, u1, u2, u3, u4, u5, u6, j, k) ==
  /\ FinalLands(d, s, x0, u0, j, k)
  /\ FinalLands(d, s, x1, u1, j, k)
  /\ FinalLands(d, s, x2, u2, j, k)
  /\ FinalLands(d, s, x3, u3, j, k)
  /\ FinalLands(d, s, x4, u4, j, k)
  /\ FinalLands(d, s, x5, u5, j, k)
  /\ FinalLands(d, s, x6, u6, j, k)

BehindSeven(u0, u1, u2, u3, u4, u5, u6,
            x1, x2, x3, x4, x5, x6, x7,
            y1, y2, y3, y4, y5, y6, y7) ==
  /\ Behind(u0, x1, y1)
  /\ Behind(u1, x2, y2)
  /\ Behind(u2, x3, y3)
  /\ Behind(u3, x4, y4)
  /\ Behind(u4, x5, y5)
  /\ Behind(u5, x6, y6)
  /\ Behind(u6, x7, y7)

\* None of a day's reminders is pushed past the next, and none is pushed any
\* more in the seventh round.
DaySettles(d, z, a, b, c, j, k) ==
  /\ \A r \in 1..7 : /\ z[r] <= Pushed(a[r - 1], j, k)
                     /\ Pushed(a[r - 1], j, k) <= Pushed(b[r - 1], j, k)
                     /\ Pushed(b[r - 1], j, k) <= Pushed(c[r - 1], j, k)
  /\ z[7] = z[6] /\ a[7] = a[6] /\ b[7] = b[6]
  /\ Arrives(d + 1440, c, j, k)

LastSettle(z, a, b, w, j, k) ==
  /\ \A r \in 1..7 :
       /\ z[r] <= PushedFinal(a[r - 1], w, j, k)
       /\ PushedFinal(a[r - 1], w, j, k) <= PushedFinal(b[r - 1], w, j, k)
  /\ a[7] = a[6] /\ b[7] = b[6]

\* A day with its three reminders, whatever comes before them.
LEMMA OneDay ==
  ASSUME NEW d \in Int, d % 1440 = 0, NEW j \in Int, NEW k \in Int, j <= k,
         NEW z \in Trails, NEW a \in Trails, NEW b \in Trails, NEW c \in Trails,
         Arrives(d, z, j, k) \/ Leads(d, z, j, k),
         a[0] = d + 600, b[0] = d + 870, c[0] = d + 1080,
         After(a, z, j, k), After(b, a, j, k), After(c, b, j, k)
  PROVE  DaySettles(d, z, a, b, c, j, k)
<1> DEFINE z0 == z[0]  z1 == z[1]  z2 == z[2]  z3 == z[3]
           z4 == z[4]  z5 == z[5]  z6 == z[6]  z7 == z[7]
           a0 == a[0]  a1 == a[1]  a2 == a[2]  a3 == a[3]
           a4 == a[4]  a5 == a[5]  a6 == a[6]  a7 == a[7]
           A0 == Pushed(a0, j, k)  A1 == Pushed(a1, j, k)
           A2 == Pushed(a2, j, k)  A3 == Pushed(a3, j, k)
           A4 == Pushed(a4, j, k)  A5 == Pushed(a5, j, k)
           A6 == Pushed(a6, j, k)
           b0 == b[0]  b1 == b[1]  b2 == b[2]  b3 == b[3]
           b4 == b[4]  b5 == b[5]  b6 == b[6]  b7 == b[7]
           B0 == Pushed(b0, j, k)  B1 == Pushed(b1, j, k)
           B2 == Pushed(b2, j, k)  B3 == Pushed(b3, j, k)
           B4 == Pushed(b4, j, k)  B5 == Pushed(b5, j, k)
           B6 == Pushed(b6, j, k)
           c0 == c[0]  c1 == c[1]  c2 == c[2]  c3 == c[3]
           c4 == c[4]  c5 == c[5]  c6 == c[6]  c7 == c[7]
           C0 == Pushed(c0, j, k)  C1 == Pushed(c1, j, k)
           C2 == Pushed(c2, j, k)  C3 == Pushed(c3, j, k)
           C4 == Pushed(c4, j, k)  C5 == Pushed(c5, j, k)
           C6 == Pushed(c6, j, k)
<1>1. /\ z0 \in Int /\ z1 \in Int /\ z2 \in Int /\ z3 \in Int /\ z4 \in Int
      /\ z5 \in Int /\ z6 \in Int /\ z7 \in Int /\ a0 \in Int /\ a1 \in Int
      /\ a2 \in Int /\ a3 \in Int /\ a4 \in Int /\ a5 \in Int /\ a6 \in Int
      /\ a7 \in Int /\ b0 \in Int /\ b1 \in Int /\ b2 \in Int /\ b3 \in Int
      /\ b4 \in Int /\ b5 \in Int /\ b6 \in Int /\ b7 \in Int /\ c0 \in Int
      /\ c1 \in Int /\ c2 \in Int /\ c3 \in Int /\ c4 \in Int /\ c5 \in Int
      /\ c6 \in Int /\ c7 \in Int
  BY DEF Trails
<1>2. /\ A0 \in Int /\ A1 \in Int /\ A2 \in Int /\ A3 \in Int /\ A4 \in Int
      /\ A5 \in Int /\ A6 \in Int /\ B0 \in Int /\ B1 \in Int /\ B2 \in Int
      /\ B3 \in Int /\ B4 \in Int /\ B5 \in Int /\ B6 \in Int /\ C0 \in Int
      /\ C1 \in Int /\ C2 \in Int /\ C3 \in Int /\ C4 \in Int /\ C5 \in Int
      /\ C6 \in Int
  <2>1. \A x \in Int : Pushed(x, j, k) \in Int  BY PushedGoesOn
  <2> QED  BY <1>1, <2>1
<1>3. /\ LandSeven(d, a0, a1, a2, a3, a4, a5, a6,
                   A0, A1, A2, A3, A4, A5, A6, j, k)
      /\ LandSeven(d, b0, b1, b2, b3, b4, b5, b6,
                   B0, B1, B2, B3, B4, B5, B6, j, k)
      /\ LandSeven(d, c0, c1, c2, c3, c4, c5, c6,
                   C0, C1, C2, C3, C4, C5, C6, j, k)
  <2>1. \A x \in Int : Lands(d, x, Pushed(x, j, k), j, k)  BY LandsPushed
  <2> QED  BY <1>1, <2>1 DEF LandSeven
<1>4. /\ BehindSeven(A0, A1, A2, A3, A4, A5, A6,
                     z1, z2, z3, z4, z5, z6, z7,
                     a1, a2, a3, a4, a5, a6, a7)
      /\ BehindSeven(B0, B1, B2, B3, B4, B5, B6,
                     a1, a2, a3, a4, a5, a6, a7,
                     b1, b2, b3, b4, b5, b6, b7)
      /\ BehindSeven(C0, C1, C2, C3, C4, C5, C6,
                     b1, b2, b3, b4, b5, b6, b7,
                     c1, c2, c3, c4, c5, c6, c7)
  BY <1>1, <1>2, FollowingIsBehind DEF BehindSeven, After
<1>5. \/ /\ z5 = z6 /\ z6 = z7
         /\ z0 <= z1 /\ z1 <= z2 /\ z2 <= z3 /\ z3 <= z4 /\ z4 <= z5
         /\ \/ z7 <= d + 480
            \/ k <= d - 240 /\ z7 <= d + 600
            \/ /\ j <= d - 270 /\ d + 390 <= k /\ k <= d + 570
               /\ z2 <= d - 120 /\ z3 <= d + 600 /\ z4 = z5 /\ z7 <= d + 720
               /\ k < d + 510 => z7 <= d + 600
      \/ /\ d - 360 <= z0 /\ z0 < d + 180
         /\ LandSeven(d, z0, z1, z2, z3, z4, z5, z6,
                      z1, z2, z3, z4, z5, z6, z7, j, k)
  <2>1. CASE Arrives(d, z, j, k)  BY <2>1 DEF Arrives
  <2>2. CASE Leads(d, z, j, k)
    <3>1. \A x \in Int : Lands(d, x, Pushed(x, j, k), j, k)  BY LandsPushed
    <3> QED  BY <1>1, <2>2, <3>1 DEF Leads, LedByNone, LandSeven
  <2> QED  BY <2>1, <2>2
<1>6. /\ a0 = d + 600 /\ b0 = d + 870 /\ c0 = d + 1080
  OBVIOUS
<1> HIDE DEF z0, z1, z2, z3, z4, z5, z6, z7, a0, a1, a2, a3, a4, a5, a6, a7,
            b0, b1, b2, b3, b4, b5, b6, b7, c0, c1, c2, c3, c4, c5, c6, c7,
            A0, A1, A2, A3, A4, A5, A6, B0, B1, B2, B3, B4, B5, B6, C0, C1,
            C2, C3, C4, C5, C6
<1>7. /\ z1 <= A0 /\ z2 <= A1 /\ z3 <= A2 /\ z4 <= A3 /\ z5 <= A4 /\ z6 <= A5
      /\ z7 <= A6
  BY <1>1, <1>2, <1>3, <1>4, <1>5, <1>6, SMTT(60)
  DEF LandSeven, Lands, BehindSeven, Behind, Near
<1>8. /\ A0 <= B0 /\ A1 <= B1 /\ A2 <= B2 /\ A3 <= B3 /\ A4 <= B4 /\ A5 <= B5
      /\ A6 <= B6
  BY <1>1, <1>2, <1>3, <1>4, <1>5, <1>6, SMTT(60)
  DEF LandSeven, Lands, BehindSeven, Behind, Near
<1>9. /\ B0 <= C0 /\ B1 <= C1 /\ B2 <= C2 /\ B3 <= C3 /\ B4 <= C4 /\ B5 <= C5
      /\ B6 <= C6
  BY <1>1, <1>2, <1>3, <1>4, <1>5, <1>6, SMTT(60)
  DEF LandSeven, Lands, BehindSeven, Behind, Near
<1>10. /\ z7 = z6 /\ a7 = a6 /\ b7 = b6 /\ c5 = c6 /\ c6 = c7 /\ c0 <= c1
       /\ c1 <= c2 /\ c2 <= c3 /\ c3 <= c4 /\ c4 <= c5
  BY <1>1, <1>2, <1>3, <1>4, <1>5, <1>6, SMTT(60)
  DEF LandSeven, Lands, BehindSeven, Behind, Near
<1>11. \/ c7 <= d + 1920
       \/ k <= d + 1200 /\ c7 <= d + 2040
       \/ /\ j <= d + 1170 /\ d + 1830 <= k /\ k <= d + 2010
          /\ c2 <= d + 1320 /\ c3 <= d + 2040 /\ c4 = c5 /\ c7 <= d + 2160
          /\ k < d + 1950 => c7 <= d + 2040
  BY <1>1, <1>2, <1>3, <1>4, <1>5, <1>6, SMTT(60)
  DEF LandSeven, Lands, BehindSeven, Behind, Near
<1>12. \A r \in 1..7 : z[r] <= Pushed(a[r - 1], j, k)
  BY <1>7 DEF z1, z2, z3, z4, z5, z6, z7, A0, A1, A2, A3, A4, A5, A6, a0, a1,
             a2, a3, a4, a5, a6
<1>13. \A r \in 1..7 : Pushed(a[r - 1], j, k) <= Pushed(b[r - 1], j, k)
  BY <1>8 DEF A0, A1, A2, A3, A4, A5, A6, a0, a1, a2, a3, a4, a5, a6, B0, B1,
             B2, B3, B4, B5, B6, b0, b1, b2, b3, b4, b5, b6
<1>14. \A r \in 1..7 : Pushed(b[r - 1], j, k) <= Pushed(c[r - 1], j, k)
  BY <1>9 DEF B0, B1, B2, B3, B4, B5, B6, b0, b1, b2, b3, b4, b5, b6, C0, C1,
             C2, C3, C4, C5, C6, c0, c1, c2, c3, c4, c5, c6
<1>15. Arrives(d + 1440, c, j, k)
  BY <1>1, <1>10, <1>11 DEF Arrives, c0, c1, c2, c3, c4, c5, c6, c7
<1> QED
  BY <1>10, <1>12, <1>13, <1>14, <1>15
  DEF DaySettles, z6, z7, a6, a7, b6, b7

\* The day of the last reminders, which is no Sunday.
LEMMA LastDay ==
  ASSUME NEW d \in Int, NEW j \in Int, NEW k \in Int, j <= k,
         NEW w \in Int, NoSunday(d, w),
         NEW z \in Trails, NEW a \in Trails, NEW b \in Trails,
         Arrives(d, z, j, k),
         a[0] = d + 600, b[0] = d + 870,
         AfterFinal(a, z, w, j, k), AfterFinal(b, a, w, j, k)
  PROVE  LastSettle(z, a, b, w, j, k)
<1> DEFINE z0 == z[0]  z1 == z[1]  z2 == z[2]  z3 == z[3]
           z4 == z[4]  z5 == z[5]  z6 == z[6]  z7 == z[7]
           a0 == a[0]  a1 == a[1]  a2 == a[2]  a3 == a[3]
           a4 == a[4]  a5 == a[5]  a6 == a[6]  a7 == a[7]
           A0 == PushedFinal(a0, w, j, k)  A1 == PushedFinal(a1, w, j, k)
           A2 == PushedFinal(a2, w, j, k)  A3 == PushedFinal(a3, w, j, k)
           A4 == PushedFinal(a4, w, j, k)  A5 == PushedFinal(a5, w, j, k)
           A6 == PushedFinal(a6, w, j, k)
           b0 == b[0]  b1 == b[1]  b2 == b[2]  b3 == b[3]
           b4 == b[4]  b5 == b[5]  b6 == b[6]  b7 == b[7]
           B0 == PushedFinal(b0, w, j, k)  B1 == PushedFinal(b1, w, j, k)
           B2 == PushedFinal(b2, w, j, k)  B3 == PushedFinal(b3, w, j, k)
           B4 == PushedFinal(b4, w, j, k)  B5 == PushedFinal(b5, w, j, k)
           B6 == PushedFinal(b6, w, j, k)
           s == SundayAfter(d, w)
<1>1. /\ z0 \in Int /\ z1 \in Int /\ z2 \in Int /\ z3 \in Int /\ z4 \in Int
      /\ z5 \in Int /\ z6 \in Int /\ z7 \in Int /\ a0 \in Int /\ a1 \in Int
      /\ a2 \in Int /\ a3 \in Int /\ a4 \in Int /\ a5 \in Int /\ a6 \in Int
      /\ a7 \in Int /\ b0 \in Int /\ b1 \in Int /\ b2 \in Int /\ b3 \in Int
      /\ b4 \in Int /\ b5 \in Int /\ b6 \in Int /\ b7 \in Int
      /\ s \in {0, 1440}
  BY DEF Trails, SundayAfter
<1>2. /\ A0 \in Int /\ A1 \in Int /\ A2 \in Int /\ A3 \in Int /\ A4 \in Int
      /\ A5 \in Int /\ A6 \in Int /\ B0 \in Int /\ B1 \in Int /\ B2 \in Int
      /\ B3 \in Int /\ B4 \in Int /\ B5 \in Int /\ B6 \in Int
  <2>1. \A x \in Int : PushedFinal(x, w, j, k) \in Int
    BY PushedGoesOn DEF PushedFinal, DAY, HOUR
  <2> QED  BY <1>1, <2>1
<1>3. /\ FinalLandSeven(d, s, a0, a1, a2, a3, a4, a5, a6,
                        A0, A1, A2, A3, A4, A5, A6, j, k)
      /\ FinalLandSeven(d, s, b0, b1, b2, b3, b4, b5, b6,
                        B0, B1, B2, B3, B4, B5, B6, j, k)
  <2>1. \A x \in Int : FinalLands(d, SundayAfter(d, w), x,
                                 PushedFinal(x, w, j, k), j, k)
    BY FinalLandsPushed
  <2> QED  BY <1>1, <2>1 DEF FinalLandSeven
<1>4. /\ BehindSeven(A0, A1, A2, A3, A4, A5, A6,
                     z1, z2, z3, z4, z5, z6, z7,
                     a1, a2, a3, a4, a5, a6, a7)
      /\ BehindSeven(B0, B1, B2, B3, B4, B5, B6,
                     a1, a2, a3, a4, a5, a6, a7,
                     b1, b2, b3, b4, b5, b6, b7)
  BY <1>1, <1>2, FollowingIsBehind DEF BehindSeven, AfterFinal
<1>5. /\ z5 = z6 /\ z6 = z7
      /\ z0 <= z1 /\ z1 <= z2 /\ z2 <= z3 /\ z3 <= z4 /\ z4 <= z5
      /\ \/ z7 <= d + 480
         \/ k <= d - 240 /\ z7 <= d + 600
         \/ /\ j <= d - 270 /\ d + 390 <= k /\ k <= d + 570
            /\ z2 <= d - 120 /\ z3 <= d + 600 /\ z4 = z5 /\ z7 <= d + 720
            /\ k < d + 510 => z7 <= d + 600
  BY DEF Arrives
<1>6. /\ a0 = d + 600 /\ b0 = d + 870
  OBVIOUS
<1> HIDE DEF z0, z1, z2, z3, z4, z5, z6, z7, a0, a1, a2, a3, a4, a5, a6, a7,
            b0, b1, b2, b3, b4, b5, b6, b7, A0, A1, A2, A3, A4, A5, A6, B0,
            B1, B2, B3, B4, B5, B6, s
<1>7. /\ z1 <= A0 /\ z2 <= A1 /\ z3 <= A2 /\ z4 <= A3 /\ z5 <= A4 /\ z6 <= A5
      /\ z7 <= A6
  BY <1>1, <1>2, <1>3, <1>4, <1>5, <1>6, SMTT(60)
  DEF FinalLandSeven, FinalLands, Lands, BehindSeven, Behind, Near
<1>8. /\ A0 <= B0 /\ A1 <= B1 /\ A2 <= B2 /\ A3 <= B3 /\ A4 <= B4 /\ A5 <= B5
      /\ A6 <= B6
  BY <1>1, <1>2, <1>3, <1>4, <1>5, <1>6, SMTT(60)
  DEF FinalLandSeven, FinalLands, Lands, BehindSeven, Behind, Near
<1>9. /\ a7 = a6 /\ b7 = b6
  BY <1>1, <1>2, <1>3, <1>4, <1>5, <1>6, SMTT(60)
  DEF FinalLandSeven, FinalLands, Lands, BehindSeven, Behind, Near
<1>10. \A r \in 1..7 : z[r] <= PushedFinal(a[r - 1], w, j, k)
  BY <1>7 DEF z1, z2, z3, z4, z5, z6, z7, A0, A1, A2, A3, A4, A5, A6, a0, a1,
             a2, a3, a4, a5, a6
<1>11. \A r \in 1..7 : PushedFinal(a[r - 1], w, j, k)
                          <= PushedFinal(b[r - 1], w, j, k)
  BY <1>8 DEF A0, A1, A2, A3, A4, A5, A6, a0, a1, a2, a3, a4, a5, a6, B0, B1,
             B2, B3, B4, B5, B6, b0, b1, b2, b3, b4, b5, b6
<1> QED  BY <1>9, <1>10, <1>11 DEF LastSettle, a6, a7, b6, b7


-----------------------------------------------------------------------------
(* The rules of the code, in these terms *)

\* m is the minute of the day of the submission; other mails come at j and k.
LEMMA OnTheClock ==
  ASSUME NEW submitted \in Int, NEW zone \in DOMAIN OFFSET
  PROVE  LET midnight == Midnight(submitted, zone)
         IN  /\ midnight \in Int
             /\ submitted - midnight \in 0..1439
             /\ Local(submitted, zone) % 1440 = submitted - midnight
             /\ Local(midnight, zone) % 1440 = 0
             /\ Local(midnight, zone) \div 1440 \in Int
             /\ Local(midnight, zone) = 1440 * (Local(midnight, zone) \div 1440)
<1>1. OFFSET[zone] \in Int  BY DEF OFFSET, HOUR
<1> QED  BY <1>1 DEF Midnight, Local, DAY, HOUR

\* The instant x minutes after M is day n of the week, minute h of the day.
LEMMA ReadsTheClock ==
  ASSUME NEW M \in Int, NEW zone \in DOMAIN OFFSET, NEW c \in Int,
         Local(M, zone) = 1440 * c, NEW x \in Int,
         NEW t \in Int, t = M + x
  PROVE  /\ Local(t, zone) % DAY = x % DAY
         /\ Local(t, zone) \div DAY = c + (x \div DAY)
<1>1. OFFSET[zone] \in Int  BY DEF OFFSET, HOUR
<1>2. Local(t, zone) = 1440 * c + x  BY <1>1 DEF Local
<1>3. DAY = 1440  BY DEF DAY, HOUR
<1> DEFINE q == x \div 1440
           h == x % 1440
<1>4. q \in Int /\ h \in 0..1439 /\ x = 1440 * q + h  OBVIOUS
<1>5. Local(t, zone) = 1440 * (c + q) + h /\ c + q \in Int
  <2> HIDE DEF q, h
  <2> QED  BY <1>2, <1>4
<1> HIDE DEF q, h
<1>6. /\ Local(t, zone) % 1440 = h
      /\ Local(t, zone) \div 1440 = c + q
  <2> DEFINE y == Local(t, zone)
             n == c + q
  <2>1. y = 1440 * n + h /\ y \in Int /\ n \in Int  BY <1>4, <1>5
  <2> HIDE DEF y, n
  <2>2. y % 1440 = h /\ y \div 1440 = n  BY <1>4, <2>1
  <2> QED  BY <2>2 DEF y, n
<1> QED  BY <1>3, <1>6 DEF q, h

LEMMA AwakeAt ==
  ASSUME NEW M \in Int, NEW zone \in DOMAIN OFFSET, NEW c \in Int,
         Local(M, zone) = 1440 * c, NEW x \in Int,
         NEW t \in Int, t = M + x
  PROVE  applyQuietHours(t, zone) = M + Awake(x)
<1> DEFINE h == x % DAY
<1>1. Local(t, zone) % DAY = h  BY ReadsTheClock
<1>2. h \in 0..1439  BY DEF DAY, HOUR
<1>3. /\ LocalHour(t, zone) = h \div 60
      /\ Midnight(t, zone) = t - h
  <2>1. HOUR = 60  BY DEF HOUR
  <2> HIDE DEF h
  <2> QED  BY <1>1, <2>1 DEF LocalHour, Midnight
<1>4. Awake(x) = IF h < 480 THEN x - h + 480
                 ELSE IF h >= 1260 THEN x - h + 1920 ELSE x
  BY <1>2 DEF Awake, DAY, HOUR, QUIET_HOURS_END, QUIET_HOURS_START
<1>5. applyQuietHours(t, zone)
        = IF h \div 60 < 8 THEN t - h + 480
          ELSE IF h \div 60 >= 21 THEN t - h + 1920 ELSE t
  BY <1>2, <1>3 DEF applyQuietHours, atLocalTime, DAY, HOUR, QUIET_HOURS_END,
                    QUIET_HOURS_START
<1> HIDE DEF h
<1> QED  BY <1>2, <1>4, <1>5

\* The confirmation and two other mails.
Mails(submitted, M, j, k) == {submitted, M + j, M + k}

PushesTo(send, zone, M, c, submitted, j, k, x) ==
  Adjust(send, zone, Mails(submitted, M, j, k)).at
    = M + (IF send.final THEN PushedFinal(x, c, j, k) ELSE Pushed(x, j, k))

\* Where the rules of the code push a reminder that is due two hours after the
\* submission or later.
LEMMA AdjustAt ==
  ASSUME NEW M \in Int, NEW zone \in DOMAIN OFFSET, NEW c \in Int,
         Local(M, zone) = 1440 * c,
         NEW submitted \in Int, NEW j \in Int, NEW k \in Int,
         NEW send \in Send, NEW x \in Int, send.at = M + x,
         send.at >= submitted + 120
  PROVE  PushesTo(send, zone, M, c, submitted, j, k, x)
<1> DEFINE y == IF send.final /\ Sunday(x, c) THEN x + DAY ELSE x
           a == Awake(y)
           mails == Mails(submitted, M, j, k)
<1>1. DAY = 1440  BY DEF DAY, HOUR
<1>2. y \in Int /\ x <= y  BY <1>1
<1>3. ShiftFinalOffSunday(send, zone) = M + y
  <2> DEFINE t == send.at
  <2>0. t = M + x /\ t \in Int  OBVIOUS
  <2> HIDE DEF t
  <2>1. OnSunday(t, zone) <=> Sunday(x, c)
    <3>1. Local(t, zone) \div DAY = c + (x \div DAY)  BY <2>0, ReadsTheClock
    <3> QED  BY <3>1 DEF OnSunday, Sunday
  <2> QED  BY <1>1, <2>0, <2>1 DEF ShiftFinalOffSunday, t
<1>4. (IF send.final THEN PushedFinal(x, c, j, k) ELSE Pushed(x, j, k))
        = Pushed(y, j, k)
  BY DEF PushedFinal
<1> HIDE DEF y
<1>5. applyQuietHours(M + y, zone) = M + a
  <2> DEFINE t == M + y
  <2>1. t \in Int /\ t = M + y  BY <1>2
  <2> HIDE DEF t
  <2>2. applyQuietHours(t, zone) = M + a  BY <1>2, <2>1, AwakeAt
  <2> QED  BY <2>2 DEF t
<1>6. a \in Int /\ y <= a  BY <1>2, AwakeGoesOn
<1>7. Pushed(y, j, k) = IF Near(a, j, k) THEN a + 120 ELSE a  BY DEF Pushed
<1> HIDE DEF a
<1>8. conflictsWithTransactional(M + a, mails) <=> Near(a, j, k)
  BY <1>2, <1>6 DEF conflictsWithTransactional, CONFLICT_WINDOW, Near, Mails
<1>9. Adjust(send, zone, mails).at
        = IF conflictsWithTransactional(M + a, mails)
          THEN M + a + TRANSACTIONAL_SHIFT ELSE M + a
  <2>1. Adjust(send, zone, mails)
          = [send EXCEPT !.at = IF conflictsWithTransactional(M + a, mails)
                                THEN M + a + TRANSACTIONAL_SHIFT ELSE M + a]
    BY <1>3, <1>5 DEF Adjust
  <2> QED  BY <2>1 DEF Send
<1> QED
  BY <1>4, <1>6, <1>7, <1>8, <1>9 DEF PushesTo, TRANSACTIONAL_SHIFT, HOUR


-----------------------------------------------------------------------------
(* All nine, for seven rounds *)

MinutesOfDay == 0..1439

\* In the order of their times: bank verification 1, call-in 1, bank
\* verification 2 and 3, call-in 2, bank verification 4 and 5, and the last two.
Due(m) == <<IF m >= 960 THEN m + 180 ELSE 1080,
            2040, 2310, 2520, 3480, 3750, 3960, 4920, 5190>>

Moved(i, x, w, j, k) ==
  IF i >= 8 THEN PushedFinal(x, w, j, k) ELSE Pushed(x, j, k)

\* Every one is pushed by its rules and keeps behind the one before it.
Timetable(x, m, w, j, k) ==
  /\ x \in [1..9 -> Trails]
  /\ \A i \in 1..9 : x[i][0] = Due(m)[i]
  /\ \A r \in 1..7 : x[1][r] = Moved(1, x[1][r - 1], w, j, k)
  /\ \A i \in 2..9 : \A r \in 1..7 :
       x[i][r] = Following(Moved(i, x[i][r - 1], w, j, k), x[i - 1][r])

LEMMA MovedGoesOn ==
  ASSUME NEW i \in 1..9, NEW x \in Int, NEW w, NEW j, NEW k
  PROVE  Moved(i, x, w, j, k) \in Int /\ x <= Moved(i, x, w, j, k)
<1> DEFINE y == IF Sunday(x, w) THEN x + DAY ELSE x
<1>1. y \in Int /\ x <= y  BY DEF DAY, HOUR
<1>2. PushedFinal(x, w, j, k) = Pushed(y, j, k)  BY DEF PushedFinal
<1> HIDE DEF y
<1>3. Pushed(y, j, k) \in Int /\ y <= Pushed(y, j, k)  BY <1>1, PushedGoesOn
<1>4. Pushed(x, j, k) \in Int /\ x <= Pushed(x, j, k)  BY PushedGoesOn
<1> QED  BY <1>1, <1>2, <1>3, <1>4 DEF Moved

\* a starts at t and goes on as f says.
Trail(a, t, f) == /\ a \in Trails /\ a[0] = t
                  /\ \A r \in 1..7 : a[r] = f[r][a[r - 1]]

Steps == [1..7 -> [Int -> Int]]

LEMMA TrailExists ==
  ASSUME NEW f \in Steps, NEW t \in Int  PROVE \E a : Trail(a, t, f)
<1>0. \A r \in 1..7 : \A y \in Int : f[r][y] \in Int  BY DEF Steps
<1>1. PICK a1 \in Int : a1 = f[1][t]   BY <1>0
<1>2. PICK a2 \in Int : a2 = f[2][a1]  BY <1>0
<1>3. PICK a3 \in Int : a3 = f[3][a2]  BY <1>0
<1>4. PICK a4 \in Int : a4 = f[4][a3]  BY <1>0
<1>5. PICK a5 \in Int : a5 = f[5][a4]  BY <1>0
<1>6. PICK a6 \in Int : a6 = f[6][a5]  BY <1>0
<1>7. PICK a7 \in Int : a7 = f[7][a6]  BY <1>0
<1> DEFINE a == [r \in 0..7 |->
                   IF r = 0 THEN t ELSE IF r = 1 THEN a1 ELSE IF r = 2 THEN a2
                   ELSE IF r = 3 THEN a3 ELSE IF r = 4 THEN a4
                   ELSE IF r = 5 THEN a5 ELSE IF r = 6 THEN a6 ELSE a7]
<1>8. a \in Trails  BY DEF Trails
<1>9. /\ a[0] = t /\ a[1] = a1 /\ a[2] = a2 /\ a[3] = a3
      /\ a[4] = a4 /\ a[5] = a5 /\ a[6] = a6 /\ a[7] = a7
  OBVIOUS
<1> HIDE DEF a
<1> DEFINE Goes(r) == a[r] = f[r][a[r - 1]]
<1>10. Goes(1) /\ Goes(2) /\ Goes(3) /\ Goes(4)  BY <1>1, <1>2, <1>3, <1>4, <1>9
<1>11. Goes(5) /\ Goes(6) /\ Goes(7)  BY <1>5, <1>6, <1>7, <1>9
<1> HIDE DEF Goes
<1>12. \A r \in 1..7 : Goes(r)  BY <1>10, <1>11
<1> QED  BY <1>8, <1>9, <1>12 DEF Trail, Goes

LEMMA TimetableExists ==
  ASSUME NEW m \in MinutesOfDay, NEW w, NEW j, NEW k
  PROVE  \E x : Timetable(x, m, w, j, k)
<1>1. \A i \in 1..9 : Due(m)[i] \in Int  BY DEF Due, MinutesOfDay
<1>2. \E a \in Trails : /\ a[0] = Due(m)[1]
                        /\ \A r \in 1..7 : a[r] = Moved(1, a[r - 1], w, j, k)
  <2> DEFINE f == [r \in 1..7 |-> [t \in Int |-> Moved(1, t, w, j, k)]]
             t0 == Due(m)[1]
  <2>1. f \in Steps  BY MovedGoesOn DEF Steps
  <2>2. \A r \in 1..7 : \A t \in Int : f[r][t] = Moved(1, t, w, j, k)  OBVIOUS
  <2>3. t0 \in Int  BY <1>1
  <2> HIDE DEF f, t0
  <2>4. PICK a : Trail(a, t0, f)  BY <2>1, <2>3, TrailExists
  <2>5. a \in Trails /\ \A r \in 1..7 : a[r - 1] \in Int
    BY <2>4 DEF Trail, Trails
  <2>6. \A r \in 1..7 : a[r] = Moved(1, a[r - 1], w, j, k)
    BY <2>2, <2>4, <2>5 DEF Trail
  <2> QED  BY <2>4, <2>5, <2>6 DEF Trail, t0
<1> DEFINE Comes(i, a, z) ==
      /\ a[0] = Due(m)[i]
      /\ \A r \in 1..7 : a[r] = Following(Moved(i, a[r - 1], w, j, k), z[r])
<1>3. ASSUME NEW i \in 2..9, NEW z \in Trails
      PROVE  \E a \in Trails : Comes(i, a, z)
  <2> DEFINE f == [r \in 1..7 |->
                     [t \in Int |-> Following(Moved(i, t, w, j, k), z[r])]]
             t0 == Due(m)[i]
  <2>1. f \in Steps
    <3>1. \A u \in Int, t \in Int : Following(u, t) \in Int  BY DEF Following
    <3>2. \A r \in 1..7 : z[r] \in Int  BY DEF Trails
    <3>3. \A t \in Int : Moved(i, t, w, j, k) \in Int  BY MovedGoesOn
    <3> QED  BY <3>1, <3>2, <3>3 DEF Steps
  <2>2. \A r \in 1..7 : \A t \in Int :
          f[r][t] = Following(Moved(i, t, w, j, k), z[r])
    OBVIOUS
  <2>3. t0 \in Int  BY <1>1
  <2> HIDE DEF f, t0
  <2>4. PICK a : Trail(a, t0, f)  BY <2>1, <2>3, TrailExists
  <2>5. a \in Trails /\ \A r \in 1..7 : a[r - 1] \in Int
    BY <2>4 DEF Trail, Trails
  <2>6. \A r \in 1..7 : a[r] = Following(Moved(i, a[r - 1], w, j, k), z[r])
    BY <2>2, <2>4, <2>5 DEF Trail
  <2> QED  BY <2>4, <2>5, <2>6 DEF Trail, t0
<1>4. PICK a1 \in Trails :
        /\ a1[0] = Due(m)[1]
        /\ \A r \in 1..7 : a1[r] = Moved(1, a1[r - 1], w, j, k)
  BY <1>2
<1> HIDE DEF Comes
<1>5. PICK a2 \in Trails : Comes(2, a2, a1)  BY <1>3
<1>6. PICK a3 \in Trails : Comes(3, a3, a2)  BY <1>3
<1>7. PICK a4 \in Trails : Comes(4, a4, a3)  BY <1>3
<1>8. PICK a5 \in Trails : Comes(5, a5, a4)  BY <1>3
<1>9. PICK a6 \in Trails : Comes(6, a6, a5)  BY <1>3
<1>10. PICK a7 \in Trails : Comes(7, a7, a6)  BY <1>3
<1>11. PICK a8 \in Trails : Comes(8, a8, a7)  BY <1>3
<1>12. PICK a9 \in Trails : Comes(9, a9, a8)  BY <1>3
<1> DEFINE x == <<a1, a2, a3, a4, a5, a6, a7, a8, a9>>
<1>13. /\ x \in [1..9 -> Trails]
       /\ x[1] = a1 /\ x[2] = a2 /\ x[3] = a3 /\ x[4] = a4 /\ x[5] = a5
       /\ x[6] = a6 /\ x[7] = a7 /\ x[8] = a8 /\ x[9] = a9
  OBVIOUS
<1> HIDE DEF x
<1>14. \A i \in 2..9 : Comes(i, x[i], x[i - 1])
  BY <1>5, <1>6, <1>7, <1>8, <1>9, <1>10, <1>11, <1>12, <1>13
<1>15. Timetable(x, m, w, j, k)
  <2>1. \A i \in 1..9 : x[i][0] = Due(m)[i]
    <3>1. \A i \in 2..9 : x[i][0] = Due(m)[i]  BY <1>14 DEF Comes
    <3>2. x[1][0] = Due(m)[1]  BY <1>4, <1>13
    <3> QED  BY <3>1, <3>2
  <2>2. \A r \in 1..7 : x[1][r] = Moved(1, x[1][r - 1], w, j, k)
    BY <1>4, <1>13
  <2>3. \A i \in 2..9 : \A r \in 1..7 :
          x[i][r] = Following(Moved(i, x[i][r - 1], w, j, k), x[i - 1][r])
    BY <1>14 DEF Comes
  <2> QED  BY <1>13, <2>1, <2>2, <2>3 DEF Timetable
<1> QED  BY <1>15


LEMMA AfterEachRound ==
  ASSUME NEW b, NEW a, NEW w, NEW j, NEW k
  PROVE  /\ (\A r \in 1..7 : b[r] = Pushed(b[r - 1], j, k)) => LedByNone(b, j, k)
         /\ (\A r \in 1..7 : b[r] = Following(Pushed(b[r - 1], j, k), a[r]))
              => After(b, a, j, k)
         /\ (\A r \in 1..7 : b[r] = Following(PushedFinal(b[r - 1], w, j, k), a[r]))
              => AfterFinal(b, a, w, j, k)
<1>1. ASSUME \A r \in 1..7 : b[r] = Pushed(b[r - 1], j, k)
      PROVE  LedByNone(b, j, k)
  BY <1>1 DEF LedByNone
<1>2. ASSUME \A r \in 1..7 : b[r] = Following(Pushed(b[r - 1], j, k), a[r])
      PROVE  After(b, a, j, k)
  BY <1>2 DEF After
<1>3. ASSUME \A r \in 1..7 : b[r] = Following(PushedFinal(b[r - 1], w, j, k), a[r])
      PROVE  AfterFinal(b, a, w, j, k)
  BY <1>3 DEF AfterFinal
<1> QED  BY <1>1, <1>2, <1>3

\* The last reminders when day 3 is a Sunday: one day later.
LEMMA LastDayOrSunday ==
  ASSUME NEW j \in Int, NEW k \in Int, j <= k, NEW w \in Int,
         NEW z \in Trails, NEW a \in Trails, NEW b \in Trails,
         Arrives(4320, z, j, k), a[0] = 4920, b[0] = 5190,
         AfterFinal(a, z, w, j, k), AfterFinal(b, a, w, j, k)
  PROVE  LastSettle(z, a, b, w, j, k)
<1>1. CASE ~Sunday(4320, w)
  <2>1. NoSunday(4320, w)  BY <1>1 DEF NoSunday
  <2> DEFINE d == 4320
  <2>2. /\ d \in Int /\ NoSunday(d, w) /\ Arrives(d, z, j, k)
        /\ a[0] = d + 600 /\ b[0] = d + 870
    BY <2>1
  <2> HIDE DEF d
  <2> QED  BY <2>2, LastDay
<1>2. CASE Sunday(4320, w)
  <2> DEFINE f == [a EXCEPT ![0] = 6360]
             g == [b EXCEPT ![0] = 6630]
             d == 5760
  <2>1. /\ Sunday(4920, w) /\ ~Sunday(6360, w) /\ Sunday(5190, w)
        /\ ~Sunday(6630, w) /\ NoSunday(5760, w)
    BY <1>2 DEF Sunday, NoSunday, DAY, HOUR
  <2>2. /\ PushedFinal(4920, w, j, k) = PushedFinal(6360, w, j, k)
        /\ PushedFinal(5190, w, j, k) = PushedFinal(6630, w, j, k)
    BY <2>1 DEF PushedFinal, DAY, HOUR
  <2>3. /\ f \in Trails /\ f[0] = 6360 /\ \A r \in 1..7 : f[r] = a[r]
        /\ g \in Trails /\ g[0] = 6630 /\ \A r \in 1..7 : g[r] = b[r]
    BY DEF Trails
  <2> HIDE DEF f, g
  <2>4. AfterFinal(f, z, w, j, k)  BY <2>2, <2>3 DEF AfterFinal
  <2>5. AfterFinal(g, f, w, j, k)  BY <2>2, <2>3 DEF AfterFinal
  <2>6. Arrives(5760, z, j, k)
    <3>1. \A r \in 0..7 : z[r] \in Int  BY DEF Trails
    <3> QED  BY <3>1 DEF Arrives
  <2>7. /\ d \in Int /\ NoSunday(d, w) /\ Arrives(d, z, j, k)
        /\ f[0] = d + 600 /\ g[0] = d + 870
    BY <2>1, <2>3, <2>6
  <2> HIDE DEF d
  <2>8. LastSettle(z, f, g, w, j, k)
    BY <2>3, <2>4, <2>5, <2>7, LastDay
  <2>9. ASSUME NEW r \in 1..7
        PROVE  /\ PushedFinal(f[r - 1], w, j, k) = PushedFinal(a[r - 1], w, j, k)
               /\ PushedFinal(g[r - 1], w, j, k) = PushedFinal(b[r - 1], w, j, k)
    <3>1. CASE r = 1  BY <2>2, <2>3, <3>1
    <3>2. CASE r # 1
      <4>1. r - 1 \in 1..7  BY <3>2
      <4> QED  BY <2>3, <4>1
    <3> QED  BY <3>1, <3>2
  <2> QED  BY <2>3, <2>8, <2>9 DEF LastSettle
<1> QED  BY <1>1, <1>2

InTimeOrder(x, w, j, k) ==
  /\ \A i \in 2..9 : \A r \in 1..7 :
       Moved(i - 1, x[i - 1][r - 1], w, j, k) <= Moved(i, x[i][r - 1], w, j, k)
  /\ \A i \in 1..9 : x[i][7] = x[i][6]

\* The rules never push a reminder past the one after it, and after six rounds
\* nothing is pushed any more.
LEMMA TimetableInOrder ==
  ASSUME NEW m \in MinutesOfDay, NEW w \in Int,
         NEW j \in Int, NEW k \in Int, j <= k,
         NEW x, Timetable(x, m, w, j, k)
  PROVE  InTimeOrder(x, w, j, k)
<1> DEFINE x1 == x[1]  x2 == x[2]  x3 == x[3]  x4 == x[4]  x5 == x[5]
           x6 == x[6]  x7 == x[7]  x8 == x[8]  x9 == x[9]
<1>1. /\ x1 \in Trails /\ x2 \in Trails /\ x3 \in Trails /\ x4 \in Trails
      /\ x5 \in Trails /\ x6 \in Trails /\ x7 \in Trails /\ x8 \in Trails
      /\ x9 \in Trails
  BY DEF Timetable
<1>2. /\ x1[0] = (IF m >= 960 THEN m + 180 ELSE 1080)
      /\ x2[0] = 2040 /\ x3[0] = 2310 /\ x4[0] = 2520
      /\ x5[0] = 3480 /\ x6[0] = 3750 /\ x7[0] = 3960
      /\ x8[0] = 4920 /\ x9[0] = 5190
  BY DEF Timetable, Due
<1>3. LedByNone(x1, j, k)
  <2>1. \A r \in 1..7 : x1[r] = Pushed(x1[r - 1], j, k)
    BY DEF Timetable, Moved
  <2> HIDE DEF x1
  <2> QED  BY <2>1, AfterEachRound
<1>4. ASSUME NEW i \in 2..9, NEW a, NEW b, a = x[i - 1], b = x[i]
      PROVE  /\ i < 8 => After(b, a, j, k)
             /\ i >= 8 => AfterFinal(b, a, w, j, k)
  <2>1. \A r \in 1..7 : b[r] = Following(Moved(i, b[r - 1], w, j, k), a[r])
    BY <1>4 DEF Timetable
  <2>2. ASSUME i < 8  PROVE After(b, a, j, k)
    <3>1. \A r \in 1..7 : b[r] = Following(Pushed(b[r - 1], j, k), a[r])
      BY <2>1, <2>2 DEF Moved
    <3> QED  BY <3>1, AfterEachRound
  <2>3. ASSUME i >= 8  PROVE AfterFinal(b, a, w, j, k)
    <3>1. \A r \in 1..7 : b[r] = Following(PushedFinal(b[r - 1], w, j, k), a[r])
      BY <2>1, <2>3 DEF Moved
    <3> QED  BY <3>1, AfterEachRound
  <2> QED  BY <2>2, <2>3
<1>5. /\ After(x2, x1, j, k) /\ After(x3, x2, j, k) /\ After(x4, x3, j, k)
      /\ After(x5, x4, j, k) /\ After(x6, x5, j, k) /\ After(x7, x6, j, k)
  BY <1>4
<1>6. AfterFinal(x8, x7, w, j, k) /\ AfterFinal(x9, x8, w, j, k)
  BY <1>4
<1> HIDE DEF x1, x2, x3, x4, x5, x6, x7, x8, x9
<1>7. DaySettles(1440, x1, x2, x3, x4, j, k) /\ Arrives(2880, x4, j, k)
  <2> DEFINE d == 1440
             e == d + 1440
  <2>1. d \in Int /\ d % 1440 = 0 /\ e = 2880  OBVIOUS
  <2>2. x2[0] = d + 600 /\ x3[0] = d + 870 /\ x4[0] = d + 1080  BY <1>2
  <2>3. Leads(d, x1, j, k)  BY <1>2, <1>3 DEF Leads, MinutesOfDay
  <2> HIDE DEF d
  <2>4. DaySettles(d, x1, x2, x3, x4, j, k)
    <3>1. /\ x1 \in Trails /\ x2 \in Trails /\ x3 \in Trails
          /\ x4 \in Trails
      BY <1>1
    <3>2. /\ After(x2, x1, j, k) /\ After(x3, x2, j, k)
          /\ After(x4, x3, j, k)
      BY <1>5
    <3> QED  BY <2>1, <2>2, <2>3, <3>1, <3>2, OneDay
  <2>5. Arrives(e, x4, j, k)  BY <2>4 DEF DaySettles
  <2> QED  BY <2>1, <2>4, <2>5 DEF d
<1>8. DaySettles(2880, x4, x5, x6, x7, j, k) /\ Arrives(4320, x7, j, k)
  <2> DEFINE d == 2880
             e == d + 1440
  <2>1. d \in Int /\ d % 1440 = 0 /\ e = 4320  OBVIOUS
  <2>2. x5[0] = d + 600 /\ x6[0] = d + 870 /\ x7[0] = d + 1080  BY <1>2
  <2>3. Arrives(d, x4, j, k)  BY <1>7
  <2> HIDE DEF d
  <2>4. DaySettles(d, x4, x5, x6, x7, j, k)
    <3>1. /\ x4 \in Trails /\ x5 \in Trails /\ x6 \in Trails
          /\ x7 \in Trails
      BY <1>1
    <3>2. /\ After(x5, x4, j, k) /\ After(x6, x5, j, k)
          /\ After(x7, x6, j, k)
      BY <1>5
    <3> QED  BY <2>1, <2>2, <2>3, <3>1, <3>2, OneDay
  <2>5. Arrives(e, x7, j, k)  BY <2>4 DEF DaySettles
  <2> QED  BY <2>1, <2>4, <2>5 DEF d
<1>9. LastSettle(x7, x8, x9, w, j, k) /\ x7[7] = x7[6]
  <2>1. x7[7] = x7[6]  BY <1>8 DEF Arrives
  <2>2. x7 \in Trails /\ x8 \in Trails /\ x9 \in Trails  BY <1>1
  <2>3. /\ Arrives(4320, x7, j, k) /\ x8[0] = 4920 /\ x9[0] = 5190
        /\ AfterFinal(x8, x7, w, j, k) /\ AfterFinal(x9, x8, w, j, k)
    BY <1>2, <1>6, <1>8
  <2>4. LastSettle(x7, x8, x9, w, j, k)  BY <2>2, <2>3, LastDayOrSunday
  <2> QED  BY <2>1, <2>4
<1>10. \A i \in 1..9 : x[i][7] = x[i][6]
  BY <1>7, <1>8, <1>9
  DEF DaySettles, LastSettle, x1, x2, x3, x4, x5, x6, x7, x8, x9
<1>11. ASSUME NEW r \in 1..7, NEW i \in {2, 5, 8}
       PROVE  Moved(i - 1, x[i - 1][r - 1], w, j, k) <= x[i - 1][r]
  <2> DEFINE z == x[i - 1]
             u == Moved(i - 1, z[r - 1], w, j, k)
  <2>1. z \in Trails /\ i - 1 \in 1..9  BY DEF Timetable
  <2>2. z[r - 1] \in Int /\ z[r] \in Int  BY <2>1 DEF Trails
  <2>3. \/ z[r] = u
        \/ /\ i - 2 \in 1..9
           /\ z[r] = Following(u, x[i - 2][r])
    <3>1. CASE i = 2  BY <3>1 DEF Timetable
    <3>2. CASE i # 2
      <4>1. i - 1 \in 2..9 /\ i - 2 \in 1..9 /\ (i - 1) - 1 = i - 2  BY <3>2
      <4>2. \A l \in 2..9 : x[l][r] = Following(Moved(l, x[l][r - 1], w, j, k), x[l - 1][r])
        BY DEF Timetable
      <4> QED  BY <4>1, <4>2
    <3> QED  BY <3>1, <3>2
  <2>4. i - 2 \in 1..9 => x[i - 2][r] \in Int  BY DEF Timetable, Trails
  <2>5. u \in Int
    <3> HIDE DEF z
    <3> QED  BY <2>1, <2>2, MovedGoesOn
  <2> HIDE DEF z, u
  <2>6. u <= z[r]  BY <2>2, <2>3, <2>4, <2>5 DEF Following
  <2> QED  BY <2>6 DEF z, u
<1>12. ASSUME NEW r \in 1..7, NEW i \in 2..9
       PROVE  Moved(i - 1, x[i - 1][r - 1], w, j, k)
                <= Moved(i, x[i][r - 1], w, j, k)
  <2>1. \A l \in 1..9 : x[l] \in Trails /\ x[l][r - 1] \in Int /\ x[l][r] \in Int
    BY DEF Timetable, Trails
  <2>2. \A l \in 1..9 : Moved(l, x[l][r - 1], w, j, k) \in Int
    BY <2>1, MovedGoesOn
  <2>3. ASSUME i \in {2, 5, 8}
        PROVE  x[i - 1][r] <= Moved(i, x[i][r - 1], w, j, k)
    <3>1. CASE i = 2  BY <1>7, <3>1 DEF DaySettles, Moved, x1, x2
    <3>2. CASE i = 5  BY <1>8, <3>2 DEF DaySettles, Moved, x4, x5
    <3>3. CASE i = 8  BY <1>9, <3>3 DEF LastSettle, Moved, x7, x8
    <3> QED  BY <2>3, <3>1, <3>2, <3>3
  <2>4. CASE i \in {2, 5, 8}
    <3> DEFINE u == Moved(i - 1, x[i - 1][r - 1], w, j, k)
               v == Moved(i, x[i][r - 1], w, j, k)
               y == x[i - 1][r]
    <3>1. u <= y  BY <1>11, <2>4
    <3>2. y <= v  BY <2>3, <2>4
    <3>3. u \in Int /\ v \in Int /\ y \in Int  BY <2>1, <2>2
    <3> HIDE DEF u, v, y
    <3>4. u <= v  BY <3>1, <3>2, <3>3
    <3> QED  BY <3>4 DEF u, v
  <2>5. CASE i = 3  BY <1>7, <2>5 DEF DaySettles, Moved, x2, x3
  <2>6. CASE i = 4  BY <1>7, <2>6 DEF DaySettles, Moved, x3, x4
  <2>7. CASE i = 6  BY <1>8, <2>7 DEF DaySettles, Moved, x5, x6
  <2>8. CASE i = 7  BY <1>8, <2>8 DEF DaySettles, Moved, x6, x7
  <2>9. CASE i = 9  BY <1>9, <2>9 DEF LastSettle, Moved, x8, x9
  <2> QED  BY <2>4, <2>5, <2>6, <2>7, <2>8, <2>9
<1> QED  BY <1>10, <1>12 DEF InTimeOrder


-----------------------------------------------------------------------------
(* The plan of the code keeps this timetable *)

LEMMA SpreadFollows ==
  ASSUME NEW sends \in Plans
  PROVE  /\ Spread(sends)[1].at = sends[1].at
         /\ \A i \in 2..9 : Spread(sends)[i].at
                              = Following(sends[i].at, Spread(sends)[i - 1].at)
<1> DEFINE time == SpreadTimes(sends)
<1>0. DOMAIN sends = 1..9 /\ \A i \in 1..9 : sends[i] \in Send  BY DEF Plans
<1>1. SpreadsOut(time, sends, 9)
  <2>1. time = CHOOSE f : SpreadsOut(f, sends, 9)
    BY <1>0 DEF SpreadTimes, SpreadsOut
  <2> QED  BY <2>1, NineTimes
<1>2. Spread(sends) = [i \in 1..9 |-> [sends[i] EXCEPT !.at = time[i]]]
  BY <1>0 DEF Spread
<1> HIDE DEF time
<1>3. \A i \in 1..9 : Spread(sends)[i].at = time[i]
  <2>1. ASSUME NEW i \in 1..9  PROVE Spread(sends)[i].at = time[i]
    <3>1. Spread(sends)[i] = [sends[i] EXCEPT !.at = time[i]]  BY <1>2
    <3> QED  BY <1>0, <3>1 DEF Send
  <2> QED  BY <2>1
<1>4. \A i \in 1..9 : time[i] = IF i > 1 /\ sends[i].at - time[i - 1] < 120
                                THEN time[i - 1] + 120 ELSE sends[i].at
  BY <1>1 DEF SpreadsOut, MIN_GAP, HOUR
<1>5. time[1] = sends[1].at  BY <1>4
<1>6. \A i \in 2..9 : time[i] = Following(sends[i].at, time[i - 1])
  BY <1>4 DEF Following
<1> QED  BY <1>3, <1>5, <1>6

\* An order of the times is the order of the sort, ties in the order they had.
Orders(p, a) ==
  \A l \in 2..9 : \/ a[p[l - 1]].at < a[p[l]].at
                  \/ a[p[l - 1]].at = a[p[l]].at /\ p[l - 1] < p[l]

LEMMA SortsInto ==
  ASSUME NEW a \in Plans, NEW p \in [1..9 -> 1..9], Orders(p, a)
  PROVE  Sorted(a) = [l \in 1..9 |-> a[p[l]]]
<1> DEFINE n == 9
           rank == [i \in 1..9 |-> Rank(a, i)]
<1>1. /\ \A i \in 1..9 : Rank(a, i) \in 1..9
      /\ \A i, j \in 1..9 :
           \/ a[i].at < a[j].at
           \/ a[i].at = a[j].at /\ i < j
           => Rank(a, i) < Rank(a, j)
  <2>1. n \in Nat /\ a \in [1..n -> Send]  BY DEF Plans
  <2> HIDE DEF n
  <2>2. /\ \A i \in 1..n : Rank(a, i) \in 1..n
        /\ \A i, j \in 1..n :
             \/ a[i].at < a[j].at
             \/ a[i].at = a[j].at /\ i < j
             => Rank(a, i) < Rank(a, j)
    BY <2>1, RanksOrder
  <2> QED  BY <2>2 DEF n
<1>2. ASSUME NEW i \in 1..9, NEW j \in 1..9, Rank(a, i) = Rank(a, j)
      PROVE  i = j
  <2>1. a[i].at \in Int /\ a[j].at \in Int  BY DEF Plans, Send
  <2> SUFFICES ASSUME i # j  PROVE FALSE  OBVIOUS
  <2>2. \/ a[i].at < a[j].at \/ a[j].at < a[i].at
        \/ a[i].at = a[j].at /\ (i < j \/ j < i)
    BY <2>1
  <2>3. Rank(a, i) < Rank(a, j) \/ Rank(a, j) < Rank(a, i)  BY <1>1, <2>2
  <2> QED  BY <1>1, <1>2, <2>3
<1>3. \A l \in 1..9 : rank[p[l]] \in 1..9  BY <1>1
<1>4. \A l \in 2..9 : rank[p[l - 1]] < rank[p[l]]
  <2>1. ASSUME NEW l \in 2..9  PROVE rank[p[l - 1]] < rank[p[l]]
    <3>1. p[l - 1] \in 1..9 /\ p[l] \in 1..9  OBVIOUS
    <3>2. \/ a[p[l - 1]].at < a[p[l]].at
          \/ a[p[l - 1]].at = a[p[l]].at /\ p[l - 1] < p[l]
      BY DEF Orders
    <3>3. Rank(a, p[l - 1]) < Rank(a, p[l])  BY <1>1, <3>1, <3>2
    <3> QED  BY <3>1, <3>3
  <2> QED  BY <2>1
<1>5. \A l \in 1..9 : rank[p[l]] = l
  <2> DEFINE q == [l \in 1..9 |-> rank[p[l]]]
  <2>1. \A l \in 1..9 : q[l] \in 1..9  BY <1>3
  <2>2. \A l \in 2..9 : q[l - 1] < q[l]  BY <1>4
  <2> HIDE DEF q, rank
  <2>3. /\ q[1] < q[2] /\ q[2] < q[3] /\ q[3] < q[4] /\ q[4] < q[5]
        /\ q[5] < q[6] /\ q[6] < q[7] /\ q[7] < q[8] /\ q[8] < q[9]
    BY <2>2
  <2>4. /\ q[1] = 1 /\ q[2] = 2 /\ q[3] = 3 /\ q[4] = 4 /\ q[5] = 5
        /\ q[6] = 6 /\ q[7] = 7 /\ q[8] = 8 /\ q[9] = 9
    BY <2>1, <2>3
  <2>5. \A l \in 1..9 : q[l] = l  BY <2>4
  <2> QED  BY <2>5 DEF q
<1>6. ASSUME NEW l \in 1..9
      PROVE  (CHOOSE i \in 1..9 : Rank(a, i) = l) = p[l]
  <2>1. p[l] \in 1..9 /\ Rank(a, p[l]) = l  BY <1>5
  <2>2. \A i \in 1..9 : Rank(a, i) = l => i = p[l]  BY <1>2, <2>1
  <2> QED  BY <2>1, <2>2
<1>7. Sorted(a) = [l \in 1..9 |-> a[CHOOSE i \in 1..9 : Rank(a, i) = l]]
  <2>1. DOMAIN a = 1..9  BY DEF Plans
  <2> QED  BY <2>1 DEF Sorted
<1> QED  BY <1>6, <1>7

SameReminder(a, b) == /\ b.sequence = a.sequence
                      /\ b.step = a.step
                      /\ b.final = a.final

\* The plan after round r is what the timetable x says, in the order o of the
\* grid's slots.
OnTime(sends, r, o, x, ideal, M, submitted) ==
  /\ sends \in Plans
  /\ \A i \in 1..9 : /\ sends[i].at = M + x[i][r]
                     /\ sends[i].at >= submitted + 120
                     /\ SameReminder(ideal[o[i]], sends[i])

\* What is sorted and stands where the rules have pushed it is spread as the
\* timetable says.
LEMMA SpreadsOnTime ==
  ASSUME NEW m, NEW w, NEW j, NEW k, NEW x, Timetable(x, m, w, j, k),
         NEW M \in Int, NEW r \in 1..7, NEW sorted \in Plans,
         \A i \in 1..9 : sorted[i].at = M + Moved(i, x[i][r - 1], w, j, k)
  PROVE  \A i \in 1..9 : Spread(sorted)[i].at = M + x[i][r]
<1> DEFINE u == [i \in 1..9 |-> Moved(i, x[i][r - 1], w, j, k)]
           y == [i \in 1..9 |-> x[i][r]]
           t == [i \in 1..9 |-> Spread(sorted)[i].at]
<1>1. \A i \in 1..9 : y[i] \in Int /\ x[i][r - 1] \in Int
  BY DEF Timetable, Trails
<1>2. \A i \in 1..9 : u[i] \in Int
  BY <1>1, MovedGoesOn
<1>3. y[1] = u[1] /\ \A i \in 2..9 : y[i] = Following(u[i], y[i - 1])
  BY DEF Timetable
<1>4. /\ t[1] = M + u[1]
      /\ \A i \in 2..9 : t[i] = Following(M + u[i], t[i - 1])
  BY SpreadFollows
<1>5. \A i \in 1..9 : t[i] = Spread(sorted)[i].at /\ y[i] = x[i][r]  OBVIOUS
<1> HIDE DEF u, y, t
<1> DEFINE Same(i) == t[i] = M + y[i]
<1>6. Same(1)  BY <1>3, <1>4
<1>7. ASSUME NEW i \in 2..9, Same(i - 1)  PROVE Same(i)
  <2>1. t[i] = Following(M + u[i], M + y[i - 1])  BY <1>4, <1>7
  <2>2. y[i] = Following(u[i], y[i - 1])  BY <1>3
  <2>3. u[i] \in Int /\ y[i - 1] \in Int  BY <1>1, <1>2
  <2> QED  BY <2>1, <2>2, <2>3 DEF Following
<1> HIDE DEF Same
<1>8. Same(2) /\ Same(3)  BY <1>6, <1>7
<1>9. Same(4) /\ Same(5)  BY <1>7, <1>8
<1>10. Same(6) /\ Same(7)  BY <1>7, <1>9
<1>11. Same(8) /\ Same(9)  BY <1>7, <1>10
<1>12. \A i \in 1..9 : t[i] = M + y[i]
  BY <1>6, <1>8, <1>9, <1>10, <1>11 DEF Same
<1> QED  BY <1>5, <1>12


\* The slots of the grid in the order of their times; the first two change
\* places when the rules push both to the same minute.
ByTime  == <<4, 1, 5, 6, 2, 7, 8, 3, 9>>
ByTime2 == <<1, 4, 5, 6, 2, 7, 8, 3, 9>>

\* M is the midnight before the submission, m minutes earlier; its day is day w.
Clock(submitted, zone, M, m, w) ==
  /\ M = Midnight(submitted, zone)
  /\ submitted = M + m
  /\ Local(M, zone) = 1440 * w
  /\ Local(submitted, zone) % 1440 = m

GridKept(submitted, zone, M, m) ==
  LET ideal == Ideal(submitted, zone)
  IN  \A i \in 1..9 : /\ ideal[ByTime[i]].at = M + Due(m)[i]
                      /\ ideal[ByTime[i]].final <=> i >= 8
                      /\ ideal[ByTime[i]].at >= submitted + 120

LEMMA GridOnTime ==
  ASSUME NEW submitted \in Int, NEW zone \in DOMAIN OFFSET,
         NEW M \in Int, NEW m \in MinutesOfDay, NEW w,
         Clock(submitted, zone, M, m, w)
  PROVE  GridKept(submitted, zone, M, m)
<1> DEFINE ideal == Ideal(submitted, zone)
<1>1. DOMAIN IDEAL_SLOTS = 1..9  BY DEF IDEAL_SLOTS
<1>2. \A l \in 1..9 : /\ ideal[l].at = IdealTime(IDEAL_SLOTS[l], submitted, zone)
                      /\ ideal[l].final = IDEAL_SLOTS[l].final
  BY <1>1 DEF Ideal
<1> HIDE DEF ideal
<1>3. atLocalTime(submitted, zone, 0, 1080) = M + 1080
  BY DEF atLocalTime, Clock, DAY, HOUR
<1>4. LocalHour(submitted, zone) >= 16 <=> m >= 960
  BY DEF LocalHour, Clock, DAY, HOUR, MinutesOfDay
<1> DEFINE SlotAt(l, day, minute, final) ==
             /\ IDEAL_SLOTS[l].day = day /\ IDEAL_SLOTS[l].minute = minute
             /\ IDEAL_SLOTS[l].final = final
<1>5. /\ SlotAt(1, 1, 600, FALSE) /\ SlotAt(2, 2, 600, FALSE)
      /\ SlotAt(3, 3, 600, TRUE) /\ SlotAt(5, 1, 870, FALSE)
      /\ SlotAt(6, 1, 1080, FALSE) /\ SlotAt(7, 2, 870, FALSE)
      /\ SlotAt(8, 2, 1080, FALSE) /\ SlotAt(9, 3, 870, TRUE)
  BY DEF IDEAL_SLOTS, Slot, HOUR
<1>6. ASSUME NEW l \in 1..9, IDEAL_SLOTS[l].minute # SPECIAL
      PROVE  ideal[l].at = M + IDEAL_SLOTS[l].day * 1440 + IDEAL_SLOTS[l].minute
  <2>1. IdealTime(IDEAL_SLOTS[l], submitted, zone)
          = atLocalTime(submitted, zone, IDEAL_SLOTS[l].day, IDEAL_SLOTS[l].minute)
    BY <1>6 DEF IdealTime
  <2> QED  BY <1>2, <2>1 DEF atLocalTime, Clock, DAY, HOUR
<1>7. /\ ideal[1].at = M + 2040 /\ ideal[2].at = M + 3480 /\ ideal[3].at = M + 4920
      /\ ideal[5].at = M + 2310 /\ ideal[6].at = M + 2520 /\ ideal[7].at = M + 3750
      /\ ideal[8].at = M + 3960 /\ ideal[9].at = M + 5190
      /\ ~ideal[1].final /\ ~ideal[2].final /\ ideal[3].final
      /\ ~ideal[5].final /\ ~ideal[6].final /\ ~ideal[7].final
      /\ ~ideal[8].final /\ ideal[9].final
  <2>1. \A l \in 1..9 : l # 4 => IDEAL_SLOTS[l].minute # SPECIAL
    BY <1>5 DEF SPECIAL
  <2>2. \A l \in 1..9 : l # 4 =>
          ideal[l].at = M + IDEAL_SLOTS[l].day * 1440 + IDEAL_SLOTS[l].minute
    BY <1>6, <2>1
  <2>3. /\ ideal[1].at = M + 2040 /\ ideal[2].at = M + 3480 /\ ideal[3].at = M + 4920
        /\ ideal[5].at = M + 2310
    BY <1>5, <2>2
  <2>4. /\ ideal[6].at = M + 2520 /\ ideal[7].at = M + 3750
        /\ ideal[8].at = M + 3960 /\ ideal[9].at = M + 5190
    BY <1>5, <2>2
  <2>5. /\ ~ideal[1].final /\ ~ideal[2].final /\ ideal[3].final
        /\ ~ideal[5].final /\ ~ideal[6].final /\ ~ideal[7].final
        /\ ~ideal[8].final /\ ideal[9].final
    BY <1>2, <1>5
  <2> QED  BY <2>3, <2>4, <2>5
<1>8. /\ ideal[4].at = M + (IF m >= 960 THEN m + 180 ELSE 1080)
      /\ ~ideal[4].final
  <2>1. IDEAL_SLOTS[4] = Slot("bank_verification", 1, 0, SPECIAL, FALSE)
    BY DEF IDEAL_SLOTS
  <2>2. IDEAL_SLOTS[4].minute = SPECIAL /\ IDEAL_SLOTS[4].final = FALSE
    BY <2>1 DEF Slot
  <2>3. IdealTime(IDEAL_SLOTS[4], submitted, zone)
          = IF m >= 960 THEN submitted + 180 ELSE M + 1080
    <3>1. /\ LATE_SUBMISSION_HOUR = 16 /\ LATE_SUBMISSION_DELAY = 180
          /\ 18 * HOUR = 1080
      BY DEF LATE_SUBMISSION_HOUR, LATE_SUBMISSION_DELAY, HOUR
    <3>2. IdealTime(IDEAL_SLOTS[4], submitted, zone)
            = IF LocalHour(submitted, zone) >= 16 THEN submitted + 180
              ELSE atLocalTime(submitted, zone, 0, 1080)
      BY <2>2, <3>1 DEF IdealTime
    <3> QED  BY <1>3, <1>4, <3>2
  <2>4. submitted = M + m /\ m \in Int  BY DEF Clock, MinutesOfDay
  <2> QED  BY <1>2, <2>2, <2>3, <2>4
<1>9. /\ ByTime[1] = 4 /\ ByTime[2] = 1 /\ ByTime[3] = 5 /\ ByTime[4] = 6
      /\ ByTime[5] = 2 /\ ByTime[6] = 7 /\ ByTime[7] = 8 /\ ByTime[8] = 3
      /\ ByTime[9] = 9
  BY DEF ByTime
<1>10. /\ Due(m)[1] = (IF m >= 960 THEN m + 180 ELSE 1080) /\ Due(m)[2] = 2040
       /\ Due(m)[3] = 2310 /\ Due(m)[4] = 2520 /\ Due(m)[5] = 3480
       /\ Due(m)[6] = 3750 /\ Due(m)[7] = 3960 /\ Due(m)[8] = 4920
       /\ Due(m)[9] = 5190
  BY DEF Due
<1> DEFINE Right(i) == /\ ideal[ByTime[i]].at = M + Due(m)[i]
                       /\ ideal[ByTime[i]].final <=> i >= 8
                       /\ Due(m)[i] >= m + 120 /\ Due(m)[i] \in Int
<1>11. Right(1) /\ Right(2) /\ Right(3)  BY <1>7, <1>8, <1>9, <1>10 DEF MinutesOfDay
<1>12. Right(4) /\ Right(5) /\ Right(6)  BY <1>7, <1>9, <1>10 DEF MinutesOfDay
<1>13. Right(7) /\ Right(8) /\ Right(9)  BY <1>7, <1>9, <1>10 DEF MinutesOfDay
<1> HIDE DEF Right
<1>14. \A i \in 1..9 : Right(i)  BY <1>11, <1>12, <1>13
<1>15. submitted = M + m /\ m \in Int  BY DEF Clock, MinutesOfDay
<1>16. \A i \in 1..9 : /\ ideal[ByTime[i]].at = M + Due(m)[i]
                       /\ ideal[ByTime[i]].final <=> i >= 8
                       /\ ideal[ByTime[i]].at >= submitted + 120
  BY <1>14, <1>15 DEF Right
<1> QED  BY <1>16 DEF GridKept, ideal

\* One reminder, if it is the i-th of the timetable.
LEMMA AdjustsOnTime ==
  ASSUME NEW submitted \in Int, NEW zone \in DOMAIN OFFSET,
         NEW M \in Int, NEW m, NEW w \in Int, Clock(submitted, zone, M, m, w),
         NEW j \in Int, NEW k \in Int, NEW i \in 1..9, NEW t \in Int,
         NEW send \in Send, send.at = M + t, send.at >= submitted + 120,
         send.final <=> i >= 8
  PROVE  LET adjusted == Adjust(send, zone, Mails(submitted, M, j, k))
         IN  /\ adjusted \in Send
             /\ adjusted.at = M + Moved(i, t, w, j, k)
             /\ adjusted.at >= submitted + 120
             /\ SameReminder(send, adjusted)
<1> DEFINE mails == Mails(submitted, M, j, k)
           adjusted == Adjust(send, zone, mails)
<1>1. /\ adjusted \in Send /\ send.at <= adjusted.at
      /\ SameReminder(send, adjusted)
  BY AdjustMoves DEF SameReminder
<1>2. Local(M, zone) = 1440 * w  BY DEF Clock
<1>3. adjusted.at = M + (IF send.final THEN PushedFinal(t, w, j, k)
                         ELSE Pushed(t, j, k))
  <2>1. PushesTo(send, zone, M, w, submitted, j, k, t)  BY <1>2, AdjustAt
  <2> QED  BY <2>1 DEF PushesTo
<1>4. adjusted.at = M + Moved(i, t, w, j, k)  BY <1>3 DEF Moved
<1>5. adjusted.at \in Int /\ send.at \in Int  BY <1>1 DEF Send
<1> HIDE DEF adjusted
<1>6. adjusted.at >= submitted + 120  BY <1>1, <1>5
<1> QED  BY <1>1, <1>4, <1>6 DEF adjusted

\* What is adjusted and sorted is spread: the end of a round.
LEMMA RoundEndsOnTime ==
  ASSUME NEW submitted \in Int, NEW m, NEW w, NEW j, NEW k, NEW x,
         Timetable(x, m, w, j, k), NEW ideal, NEW o, NEW M \in Int,
         NEW r \in 1..7, NEW sorted \in Plans,
         \A i \in 1..9 : /\ sorted[i].at = M + Moved(i, x[i][r - 1], w, j, k)
                         /\ sorted[i].at >= submitted + 120
                         /\ SameReminder(ideal[o[i]], sorted[i])
  PROVE  OnTime(Spread(sorted), r, o, x, ideal, M, submitted)
<1>1. \A i \in 1..9 : Spread(sorted)[i].at = M + x[i][r]  BY SpreadsOnTime
<1>2. /\ Spread(sorted) \in Plans
      /\ \A i \in 1..9 : /\ sorted[i].at <= Spread(sorted)[i].at
                         /\ SameReminder(sorted[i], Spread(sorted)[i])
  BY SpreadSpaces DEF Plans, SameReminder
<1>3. ASSUME NEW i \in 1..9
      PROVE  /\ Spread(sorted)[i].at >= submitted + 120
             /\ SameReminder(ideal[o[i]], Spread(sorted)[i])
  <2>1. sorted[i].at \in Int /\ Spread(sorted)[i].at \in Int
    BY <1>2 DEF Plans, Send
  <2>2. sorted[i].at <= Spread(sorted)[i].at  BY <1>2
  <2>3. sorted[i].at >= submitted + 120  OBVIOUS
  <2> QED  BY <1>2, <2>1, <2>2, <2>3 DEF SameReminder
<1> QED  BY <1>1, <1>2, <1>3 DEF OnTime


\* One round more.
LEMMA NextRoundOnTime ==
  ASSUME NEW submitted \in Int, NEW zone \in DOMAIN OFFSET,
         NEW M \in Int, NEW m \in MinutesOfDay, NEW w \in Int,
         Clock(submitted, zone, M, m, w),
         NEW j \in Int, NEW k \in Int, j <= k,
         NEW x, Timetable(x, m, w, j, k),
         NEW ideal \in Plans, NEW o \in [1..9 -> 1..9],
         \A i \in 1..9 : ideal[o[i]].final <=> i >= 8,
         NEW r \in 2..7, NEW sends,
         OnTime(sends, r - 1, o, x, ideal, M, submitted)
  PROVE  OnTime(Round(sends, zone, Mails(submitted, M, j, k)),
                r, o, x, ideal, M, submitted)
<1> DEFINE mails == Mails(submitted, M, j, k)
           a == [l \in DOMAIN sends |-> Adjust(sends[l], zone, mails)]
<1>0. DOMAIN sends = 1..9 /\ \A i \in 1..9 : sends[i] \in Send
  BY DEF OnTime, Plans
<1>1. ASSUME NEW i \in 1..9
      PROVE  /\ a[i] \in Send
             /\ a[i].at = M + Moved(i, x[i][r - 1], w, j, k)
             /\ a[i].at >= submitted + 120
             /\ SameReminder(ideal[o[i]], a[i])
  <2> DEFINE send == sends[i]
             t == x[i][r - 1]
  <2>1. /\ send \in Send /\ send.at = M + t /\ send.at >= submitted + 120
        /\ SameReminder(ideal[o[i]], send)
    BY <1>0 DEF OnTime
  <2>2. t \in Int  BY DEF Timetable, Trails
  <2>3. a[i] = Adjust(send, zone, mails)  BY <1>0
  <2> HIDE DEF send, t, a
  <2>4. send.final <=> i >= 8  BY <2>1 DEF SameReminder
  <2>5. LET adjusted == Adjust(send, zone, mails)
        IN  /\ adjusted \in Send
            /\ adjusted.at = M + Moved(i, t, w, j, k)
            /\ adjusted.at >= submitted + 120
            /\ SameReminder(send, adjusted)
    BY <2>1, <2>2, <2>4, AdjustsOnTime
  <2>6. /\ a[i] \in Send /\ a[i].at = M + Moved(i, t, w, j, k)
        /\ a[i].at >= submitted + 120 /\ SameReminder(send, a[i])
    BY <2>3, <2>5
  <2>7. SameReminder(ideal[o[i]], a[i])  BY <2>1, <2>6 DEF SameReminder
  <2> QED  BY <2>6, <2>7 DEF t
<1>2. a \in Plans  BY <1>0, <1>1 DEF Plans
<1>3. Round(sends, zone, mails) = Spread(Sorted(a))  BY DEF Round
<1> HIDE DEF a
<1>4. Sorted(a) = a
  <2> DEFINE p == [l \in 1..9 |-> l]
  <2>1. p \in [1..9 -> 1..9] /\ \A l \in 1..9 : p[l] = l  OBVIOUS
  <2>2. ASSUME NEW l \in 2..9
        PROVE  \/ a[p[l - 1]].at < a[p[l]].at
               \/ /\ a[p[l - 1]].at = a[p[l]].at
                  /\ p[l - 1] < p[l]
    <3> DEFINE u == Moved(l - 1, x[l - 1][r - 1], w, j, k)
               v == Moved(l, x[l][r - 1], w, j, k)
    <3>1. r \in 1..7 /\ l \in 1..9 /\ l - 1 \in 1..9  OBVIOUS
    <3>2. u <= v
      <4>1. InTimeOrder(x, w, j, k)  BY TimetableInOrder
      <4> QED  BY <3>1, <4>1 DEF InTimeOrder
    <3>3. p[l - 1] = l - 1 /\ p[l] = l  BY <2>1, <3>1
    <3>4. a[l - 1].at = M + u /\ a[l].at = M + v  BY <1>1, <3>1
    <3>5. u \in Int /\ v \in Int
      <4>1. x[l - 1][r - 1] \in Int /\ x[l][r - 1] \in Int
        BY <3>1 DEF Timetable, Trails
      <4> QED  BY <3>1, <4>1, MovedGoesOn
    <3> HIDE DEF u, v, p
    <3> QED  BY <3>2, <3>3, <3>4, <3>5
  <2> HIDE DEF p
  <2>3. Orders(p, a)  BY <2>2 DEF Orders
  <2>4. Sorted(a) = [l \in 1..9 |-> a[p[l]]]  BY <1>2, <2>1, <2>3, SortsInto
  <2>5. a = [l \in 1..9 |-> a[l]]  BY <1>2 DEF Plans
  <2> QED  BY <2>1, <2>4, <2>5
<1>5. OnTime(Spread(a), r, o, x, ideal, M, submitted)
  <2>1. r \in 1..7  OBVIOUS
  <2> QED  BY <1>1, <1>2, <2>1, RoundEndsOnTime
<1> QED  BY <1>3, <1>4, <1>5

\* The first round, which also puts the grid in the order of time.
FirstRoundKept(submitted, zone, M, j, k, x) ==
  LET ideal == Ideal(submitted, zone)
      mails == Mails(submitted, M, j, k)
  IN  \E o \in {ByTime, ByTime2} :
        /\ \A i \in 1..9 : ideal[o[i]].final <=> i >= 8
        /\ OnTime(Round(ideal, zone, mails), 1, o, x, ideal, M, submitted)

LEMMA FirstRoundOnTime ==
  ASSUME NEW submitted \in Int, NEW zone \in DOMAIN OFFSET,
         NEW M \in Int, NEW m \in MinutesOfDay, NEW w \in Int,
         Clock(submitted, zone, M, m, w),
         NEW j \in Int, NEW k \in Int, j <= k,
         NEW x, Timetable(x, m, w, j, k)
  PROVE  FirstRoundKept(submitted, zone, M, j, k, x)
<1> DEFINE ideal == Ideal(submitted, zone)
           mails == Mails(submitted, M, j, k)
           a == [l \in DOMAIN ideal |-> Adjust(ideal[l], zone, mails)]
           u == [i \in 1..9 |-> Moved(i, x[i][0], w, j, k)]
           q == ByTime
<1>1. ideal \in Plans  BY IdealIsPlan
<1>2. /\ ByTime \in [1..9 -> 1..9] /\ ByTime2 \in [1..9 -> 1..9]
      /\ \A l \in 1..9 : \E i \in 1..9 : ByTime[i] = l
  BY DEF ByTime, ByTime2
<1>3. \A i \in 1..9 : /\ ideal[q[i]].at = M + Due(m)[i]
                      /\ ideal[q[i]].final <=> i >= 8
                      /\ ideal[q[i]].at >= submitted + 120
  <2>1. GridKept(submitted, zone, M, m)  BY GridOnTime
  <2> QED  BY <2>1 DEF GridKept
<1>4. \A i \in 1..9 : x[i][0] = Due(m)[i] /\ x[i][0] \in Int
  BY DEF Timetable, Trails
<1>5. Round(ideal, zone, mails) = Spread(Sorted(a))  BY DEF Round
<1>6. DOMAIN ideal = 1..9 /\ \A l \in 1..9 : a[l] = Adjust(ideal[l], zone, mails)
  <2>1. DOMAIN ideal = 1..9  BY <1>1 DEF Plans
  <2> HIDE DEF ideal
  <2> QED  BY <2>1
<1>7. a = [l \in 1..9 |-> a[l]]
  <2> HIDE DEF ideal
  <2> QED  BY <1>6
<1>8. \A i \in 1..9 : u[i] = Moved(i, x[i][0], w, j, k) /\ u[i] \in Int
  BY <1>4, MovedGoesOn
<1> HIDE DEF ideal, a, q, u
<1>9. ASSUME NEW i \in 1..9
      PROVE  /\ a[q[i]] \in Send /\ a[q[i]].at = M + u[i]
             /\ a[q[i]].at >= submitted + 120
             /\ SameReminder(ideal[q[i]], a[q[i]])
  <2> DEFINE send == ideal[q[i]]
             t == x[i][0]
  <2>1. q[i] \in 1..9  BY <1>2 DEF q
  <2>2. /\ send \in Send /\ send.at = M + t /\ send.at >= submitted + 120
        /\ send.final <=> i >= 8
    BY <1>1, <1>3, <1>4, <2>1 DEF Plans
  <2>3. t \in Int  BY <1>4
  <2>4. a[q[i]] = Adjust(send, zone, mails)  BY <1>6, <2>1
  <2> HIDE DEF send, t
  <2>5. LET adjusted == Adjust(send, zone, mails)
        IN  /\ adjusted \in Send
            /\ adjusted.at = M + Moved(i, t, w, j, k)
            /\ adjusted.at >= submitted + 120
            /\ SameReminder(send, adjusted)
    BY <2>2, <2>3, AdjustsOnTime
  <2> QED  BY <1>8, <2>4, <2>5 DEF send, t
<1>10. a \in Plans
  <2>1. ASSUME NEW l \in 1..9  PROVE a[l] \in Send
    <3>1. PICK i \in 1..9 : q[i] = l  BY <1>2 DEF q
    <3> QED  BY <1>9, <3>1
  <2> QED  BY <1>7, <2>1 DEF Plans
<1>11. \A i \in 2..9 : u[i - 1] <= u[i]
  <2>1. ASSUME NEW i \in 2..9  PROVE u[i - 1] <= u[i]
    <3>1. 1 \in 1..7 /\ i - 1 \in 1..9 /\ i \in 1..9  OBVIOUS
    <3>2. InTimeOrder(x, w, j, k)  BY TimetableInOrder
    <3>3. Moved(i - 1, x[i - 1][1 - 1], w, j, k) <= Moved(i, x[i][1 - 1], w, j, k)
      BY <3>1, <3>2 DEF InTimeOrder
    <3> QED  BY <1>8, <3>1, <3>3
  <2> QED  BY <2>1
<1>12. u[4] < u[5] /\ u[7] < u[8]
  <2>1. /\ x[4][0] = 2520 /\ x[5][0] = 3480 /\ x[7][0] = 3960 /\ x[8][0] = 4920
    BY <1>4 DEF Due
  <2>2. u[4] <= 2640 /\ u[7] <= 4080
    <3>1. Awake(2520) = 2520 /\ Awake(3960) = 3960
      BY DEF Awake, DAY, HOUR, QUIET_HOURS_END, QUIET_HOURS_START
    <3>2. Pushed(2520, j, k) <= 2640 /\ Pushed(3960, j, k) <= 4080
      BY <3>1 DEF Pushed
    <3> QED  BY <1>8, <2>1, <3>2 DEF Moved
  <2>3. 3480 <= u[5] /\ 4920 <= u[8]
    BY <1>8, <2>1, MovedGoesOn
  <2> QED  BY <1>8, <2>2, <2>3
<1>13. ASSUME NEW o \in {ByTime, ByTime2},
              \A i \in 1..9 : /\ a[o[i]].at = M + u[i]
                              /\ a[o[i]].at >= submitted + 120
                              /\ SameReminder(ideal[o[i]], a[o[i]]),
              Orders(o, a)
       PROVE  OnTime(Round(ideal, zone, mails), 1, o, x, ideal, M, submitted)
  <2> DEFINE sorted == Sorted(a)
  <2>1. o \in [1..9 -> 1..9]  BY <1>2
  <2>2. sorted = [l \in 1..9 |-> a[o[l]]]  BY <1>10, <1>13, <2>1, SortsInto
  <2>3. sorted \in Plans  BY <1>10, <2>1, <2>2 DEF Plans
  <2>4. \A i \in 1..9 : sorted[i] = a[o[i]]  BY <2>2
  <2> HIDE DEF sorted
  <2>5. \A i \in 1..9 : /\ sorted[i].at = M + Moved(i, x[i][1 - 1], w, j, k)
                        /\ sorted[i].at >= submitted + 120
                        /\ SameReminder(ideal[o[i]], sorted[i])
    BY <1>8, <1>13, <2>4
  <2>6. 1 \in 1..7  OBVIOUS
  <2> DEFINE r == 1
  <2>7. /\ r \in 1..7
        /\ \A i \in 1..9 : /\ sorted[i].at = M + Moved(i, x[i][r - 1], w, j, k)
                           /\ sorted[i].at >= submitted + 120
                           /\ SameReminder(ideal[o[i]], sorted[i])
    BY <2>5, <2>6
  <2> HIDE DEF r
  <2>8. OnTime(Spread(sorted), r, o, x, ideal, M, submitted)
    BY <2>3, <2>7, RoundEndsOnTime
  <2> QED  BY <1>5, <2>8 DEF r, sorted
<1>14. /\ q[1] = 4 /\ q[2] = 1 /\ q[3] = 5 /\ q[4] = 6 /\ q[5] = 2 /\ q[6] = 7
       /\ q[7] = 8 /\ q[8] = 3 /\ q[9] = 9
  BY DEF q, ByTime
<1>15. CASE u[1] < u[2]
  <2>1. ASSUME NEW l \in 2..9
        PROVE  \/ a[q[l - 1]].at < a[q[l]].at
               \/ /\ a[q[l - 1]].at = a[q[l]].at
                  /\ q[l - 1] < q[l]
    <3>1. l - 1 \in 1..9 /\ l \in 1..9  OBVIOUS
    <3>2. a[q[l - 1]].at = M + u[l - 1] /\ a[q[l]].at = M + u[l]
      BY <1>9, <3>1
    <3>3. u[l - 1] < u[l] \/ u[l - 1] = u[l]  BY <1>8, <1>11, <3>1
    <3>4. u[l - 1] \in Int /\ u[l] \in Int  BY <1>8, <3>1
    <3>5. u[l - 1] < u[l] \/ q[l - 1] < q[l]
      <4>1. CASE l = 2  BY <1>15, <4>1
      <4>2. CASE l = 5  BY <1>12, <4>2
      <4>3. CASE l = 8  BY <1>12, <4>3
      <4>4. CASE l \in {3, 4, 6, 7, 9}  BY <1>14, <4>4
      <4> QED  BY <4>1, <4>2, <4>3, <4>4
    <3> QED  BY <3>2, <3>3, <3>4, <3>5
  <2>2. OnTime(Round(ideal, zone, mails), 1, q, x, ideal, M, submitted)
    <3>1. q \in {ByTime, ByTime2}  BY DEF q
    <3>2. Orders(q, a)  BY <2>1 DEF Orders
    <3> QED  BY <1>9, <1>13, <3>1, <3>2
  <2> QED  BY <1>3, <2>2 DEF FirstRoundKept, q, ideal
<1>16. CASE u[1] = u[2]
  <2> DEFINE o == ByTime2
  <2>1. /\ o[1] = 1 /\ o[2] = 4 /\ o[3] = 5 /\ o[4] = 6 /\ o[5] = 2 /\ o[6] = 7
        /\ o[7] = 8 /\ o[8] = 3 /\ o[9] = 9 /\ o \in {ByTime, ByTime2}
    BY DEF ByTime2
  <2> HIDE DEF o
  <2>2. /\ o[1] = q[2] /\ o[2] = q[1] /\ \A i \in 3..9 : o[i] = q[i]
    BY <1>14, <2>1
  <2>3. ASSUME NEW i \in 1..9
        PROVE  /\ a[o[i]].at = M + u[i]
               /\ a[o[i]].at >= submitted + 120
               /\ SameReminder(ideal[o[i]], a[o[i]])
               /\ ideal[o[i]].final <=> i >= 8
    <3>1. CASE i = 1  BY <1>3, <1>9, <1>16, <2>2, <3>1
    <3>2. CASE i = 2  BY <1>3, <1>9, <1>16, <2>2, <3>2
    <3>3. CASE i \in 3..9  BY <1>3, <1>9, <2>2, <3>3
    <3> QED  BY <3>1, <3>2, <3>3
  <2>4. ASSUME NEW l \in 2..9
        PROVE  \/ a[o[l - 1]].at < a[o[l]].at
               \/ /\ a[o[l - 1]].at = a[o[l]].at
                  /\ o[l - 1] < o[l]
    <3>1. l - 1 \in 1..9 /\ l \in 1..9  OBVIOUS
    <3>2. a[o[l - 1]].at = M + u[l - 1] /\ a[o[l]].at = M + u[l]
      BY <2>3, <3>1
    <3>3. u[l - 1] < u[l] \/ u[l - 1] = u[l]  BY <1>8, <1>11, <3>1
    <3>4. u[l - 1] \in Int /\ u[l] \in Int  BY <1>8, <3>1
    <3>5. u[l - 1] < u[l] \/ o[l - 1] < o[l]
      <4>1. CASE l = 5  BY <1>12, <4>1
      <4>2. CASE l = 8  BY <1>12, <4>2
      <4>3. CASE l \in {2, 3, 4, 6, 7, 9}  BY <2>1, <4>3
      <4> QED  BY <4>1, <4>2, <4>3
    <3> QED  BY <3>2, <3>3, <3>4, <3>5
  <2>5. OnTime(Round(ideal, zone, mails), 1, o, x, ideal, M, submitted)
    <3>1. Orders(o, a)  BY <2>4 DEF Orders
    <3> QED  BY <1>13, <2>1, <2>3, <3>1
  <2>6. \A i \in 1..9 : ideal[o[i]].final <=> i >= 8  BY <2>3
  <2> QED  BY <2>1, <2>5, <2>6 DEF FirstRoundKept, ideal
<1>17. u[1] < u[2] \/ u[1] = u[2]  BY <1>8, <1>11
<1> QED  BY <1>15, <1>16, <1>17


LEMMA StepsInOrder ==
  ASSUME NEW submitted, NEW zone, NEW o \in {ByTime, ByTime2}, NEW sends \in Plans,
         \A i \in 1..9 : SameReminder(Ideal(submitted, zone)[o[i]], sends[i])
  PROVE  InStepOrder(sends)
<1> DEFINE ideal == Ideal(submitted, zone)
           Reminder(i, sequence, step) ==
             sends[i].sequence = sequence /\ sends[i].step = step
           Slots(l, sequence, step) ==
             IDEAL_SLOTS[l].sequence = sequence /\ IDEAL_SLOTS[l].step = step
<1>1. /\ Slots(1, "call_in", 1) /\ Slots(2, "call_in", 2) /\ Slots(3, "call_in", 3)
      /\ Slots(4, "bank_verification", 1) /\ Slots(5, "bank_verification", 2)
      /\ Slots(6, "bank_verification", 3) /\ Slots(7, "bank_verification", 4)
      /\ Slots(8, "bank_verification", 5) /\ Slots(9, "bank_verification", 6)
  BY DEF IDEAL_SLOTS, Slot
<1>2. \A l \in 1..9 : /\ ideal[l].sequence = IDEAL_SLOTS[l].sequence
                      /\ ideal[l].step = IDEAL_SLOTS[l].step
  <2>1. DOMAIN IDEAL_SLOTS = 1..9  BY DEF IDEAL_SLOTS
  <2> QED  BY <2>1 DEF Ideal
<1>3. \A i \in 1..9 : /\ sends[i].sequence = ideal[o[i]].sequence
                      /\ sends[i].step = ideal[o[i]].step
  BY DEF SameReminder
<1> HIDE DEF ideal
<1>4. /\ \/ o[1] = 4 /\ o[2] = 1
         \/ o[1] = 1 /\ o[2] = 4
      /\ o[3] = 5 /\ o[4] = 6 /\ o[5] = 2 /\ o[6] = 7 /\ o[7] = 8 /\ o[8] = 3
      /\ o[9] = 9
  BY DEF ByTime, ByTime2
<1>5. \/ Reminder(1, "bank_verification", 1) /\ Reminder(2, "call_in", 1)
      \/ Reminder(1, "call_in", 1) /\ Reminder(2, "bank_verification", 1)
  BY <1>1, <1>2, <1>3, <1>4
<1>6. /\ Reminder(3, "bank_verification", 2) /\ Reminder(4, "bank_verification", 3)
      /\ Reminder(5, "call_in", 2) /\ Reminder(6, "bank_verification", 4)
  BY <1>1, <1>2, <1>3, <1>4
<1>7. /\ Reminder(7, "bank_verification", 5) /\ Reminder(8, "call_in", 3)
      /\ Reminder(9, "bank_verification", 6)
  BY <1>1, <1>2, <1>3, <1>4
<1>8. ASSUME NEW j \in 1..9, NEW k \in 1..9,
             sends[j].sequence = sends[k].sequence, sends[j].step < sends[k].step
      PROVE  j < k
  BY <1>5, <1>6, <1>7, <1>8
<1>9. DOMAIN sends = 1..9  BY DEF Plans
<1> QED  BY <1>8, <1>9 DEF InStepOrder

\* Two plans with the same reminders at the same times are one.
LEMMA SameTimesSamePlan ==
  ASSUME NEW a \in Plans, NEW b \in Plans,
         \A i \in 1..9 : SameReminder(a[i], b[i]) /\ a[i].at = b[i].at
  PROVE  a = b
<1>1. \A i \in 1..9 : a[i] \in Send /\ b[i] \in Send  BY DEF Plans
<1>2. \A i \in 1..9 : a[i] = b[i]  BY <1>1 DEF Send, SameReminder
<1>3. a = [i \in 1..9 |-> a[i]] /\ b = [i \in 1..9 |-> b[i]]  BY DEF Plans
<1> QED  BY <1>2, <1>3

Settled(submitted, zone, mails) ==
  LET sends == buildDripSchedule(submitted, zone, mails)
  IN  KeepsTheRules(sends, zone, mails) /\ InStepOrder(sends)

LEMMA SettlesInSixRounds ==
  ASSUME NEW submitted \in Int, NEW zone \in DOMAIN OFFSET,
         NEW M \in Int, NEW m \in MinutesOfDay, NEW w \in Int,
         Clock(submitted, zone, M, m, w),
         NEW j \in Int, NEW k \in Int, j <= k
  PROVE  Settled(submitted, zone, Mails(submitted, M, j, k))
<1> DEFINE mails == Mails(submitted, M, j, k)
           ideal == Ideal(submitted, zone)
           after == Rounds(ideal, zone, mails)
<1>1. PICK x : Timetable(x, m, w, j, k)  BY TimetableExists
<1>2. PICK o \in {ByTime, ByTime2} :
        /\ \A i \in 1..9 : ideal[o[i]].final <=> i >= 8
        /\ OnTime(Round(ideal, zone, mails), 1, o, x, ideal, M, submitted)
  <2>1. FirstRoundKept(submitted, zone, M, j, k, x)  BY <1>1, FirstRoundOnTime
  <2> QED  BY <2>1 DEF FirstRoundKept
<1>3. \A n \in 0..8 : after[n] = IF n = 0 THEN ideal
                                ELSE Round(after[n - 1], zone, mails)
  BY EightRounds DEF GoesRound, MAX_ROUNDS
<1>4. ideal \in Plans  BY IdealIsPlan
<1>5. o \in [1..9 -> 1..9]  BY DEF ByTime, ByTime2
<1> HIDE DEF after, ideal, mails
<1> DEFINE Good(n) == OnTime(after[n], n, o, x, ideal, M, submitted)
<1>6. Good(1)
  <2>1. after[0] = ideal  BY <1>3
  <2>2. after[1] = Round(ideal, zone, mails)  BY <1>3, <2>1
  <2> QED  BY <1>2, <2>2
<1>7. ASSUME NEW n \in 2..7, Good(n - 1)  PROVE Good(n)
  <2>1. after[n] = Round(after[n - 1], zone, mails)  BY <1>3
  <2> DEFINE sends == after[n - 1]
  <2>2. OnTime(sends, n - 1, o, x, ideal, M, submitted)  BY <1>7
  <2> HIDE DEF sends
  <2>3. OnTime(Round(sends, zone, mails), n, o, x, ideal, M, submitted)
    BY <1>1, <1>2, <1>4, <1>5, <2>2, NextRoundOnTime DEF mails
  <2> QED  BY <2>1, <2>3 DEF sends
<1> HIDE DEF Good
<1>8. Good(2) /\ Good(3)  BY <1>6, <1>7
<1>9. Good(4) /\ Good(5)  BY <1>7, <1>8
<1>10. Good(6) /\ Good(7)  BY <1>7, <1>9
<1>11. after[7] = after[6]
  <2> DEFINE a == after[6]
             b == after[7]
  <2>1. OnTime(a, 6, o, x, ideal, M, submitted)
        /\ OnTime(b, 7, o, x, ideal, M, submitted)
    BY <1>10 DEF Good
  <2>2. \A i \in 1..9 : x[i][7] = x[i][6]
    <3>1. InTimeOrder(x, w, j, k)  BY <1>1, TimetableInOrder
    <3> QED  BY <3>1 DEF InTimeOrder
  <2> HIDE DEF a, b
  <2>3. \A i \in 1..9 : SameReminder(a[i], b[i]) /\ a[i].at = b[i].at
    BY <2>1, <2>2 DEF OnTime, SameReminder
  <2>4. a = b  BY <2>1, <2>3, SameTimesSamePlan DEF OnTime
  <2> QED  BY <2>4 DEF a, b
<1> DEFINE last == after[6]
<1>12. Round(last, zone, mails) = last /\ after[8] = last
  <2>1. /\ after[7] = Round(after[6], zone, mails)
        /\ after[8] = Round(after[7], zone, mails)
    BY <1>3
  <2> QED  BY <1>11, <2>1
<1>13. /\ last \in Plans
       /\ \A i \in 1..9 : SameReminder(ideal[o[i]], last[i])
  BY <1>10 DEF Good, OnTime
<1>14. buildDripSchedule(submitted, zone, mails) = Sorted(after[8])
  BY DEF buildDripSchedule, after, ideal, MAX_ROUNDS
<1>15. after[8] = last  BY <1>12
<1> HIDE DEF last
<1>16. Sorted(last) = last
  <2>1. Spaced(last)  BY <1>12, <1>13, RoundMoves
  <2> QED  BY <1>13, <2>1, SpacedIsSorted
<1>17. KeepsTheRules(last, zone, mails)  BY <1>12, <1>13, RestIsRules
<1>18. InStepOrder(last)  BY <1>13, StepsInOrder DEF ideal
<1>19. buildDripSchedule(submitted, zone, mails) = last  BY <1>14, <1>15, <1>16
<1> QED  BY <1>17, <1>18, <1>19 DEF Settled, mails

\* buildDripSchedule: for every minute a form is submitted at, every zone and any
\* two mails besides the confirmation, the rules come to rest within the rounds
\* the code allows, six of eight, and the plan keeps them all: no reminder for
\* the night, no last one for a Sunday, none within ninety minutes of a mail,
\* none within two hours of another, each sequence in the order of its steps.
THEOREM TwoMailsSettle ==
  ASSUME NEW submitted \in Int, NEW zone \in DOMAIN OFFSET,
         NEW first \in Int, NEW second \in Int
  PROVE  LET mails == {submitted, first, second}
             sends == buildDripSchedule(submitted, zone, mails)
         IN  KeepsTheRules(sends, zone, mails) /\ InStepOrder(sends)
<1> DEFINE M == Midnight(submitted, zone)
           m == submitted - M
           w == Local(M, zone) \div 1440
           j == first - M
           k == second - M
<1>1. /\ M \in Int /\ m \in MinutesOfDay /\ w \in Int
      /\ Clock(submitted, zone, M, m, w)
  BY OnTheClock DEF Clock, MinutesOfDay
<1>2. /\ j \in Int /\ k \in Int /\ M + j = first /\ M + k = second  BY <1>1
<1> HIDE DEF M, m, w, j, k
<1>3. /\ Mails(submitted, M, j, k) = {submitted, first, second}
      /\ Mails(submitted, M, k, j) = {submitted, first, second}
  BY <1>2 DEF Mails
<1>4. CASE j <= k
  <2>1. Settled(submitted, zone, Mails(submitted, M, j, k))
    BY <1>1, <1>2, <1>4, SettlesInSixRounds
  <2> QED  BY <1>3, <2>1 DEF Settled
<1>5. CASE k <= j
  <2>1. Settled(submitted, zone, Mails(submitted, M, k, j))
    BY <1>1, <1>2, <1>5, SettlesInSixRounds
  <2> QED  BY <1>3, <2>1 DEF Settled
<1> QED  BY <1>2, <1>4, <1>5

-----------------------------------------------------------------------------
(* The zone of an address *)

\* Every address has a zone of the table.
LEMMA ZoneResolved ==
  ASSUME NEW state, NEW zip
  PROVE  resolveTimezone(state, zip) \in DOMAIN OFFSET
<1>1. ASSUME NEW zones \in SUBSET DOMAIN OFFSET, zones # {}
      PROVE  (CHOOSE z \in zones : TRUE) \in DOMAIN OFFSET
  <2>1. (CHOOSE z \in zones : TRUE) \in zones  BY <1>1
  <2> QED  BY <2>1
<1>2. /\ DOMAIN OFFSET = {"Eastern", "Central", "Mountain", "Pacific", "Alaska",
                          "Hawaii"}
      /\ DOMAIN STATE_TIMEZONES = DOMAIN OFFSET
      /\ DOMAIN ZIP_PREFIX_TIMEZONES \subseteq DOMAIN OFFSET
      /\ "Eastern" \in DOMAIN OFFSET /\ DEFAULT_TIMEZONE \in DOMAIN OFFSET
  BY DEF OFFSET, STATE_TIMEZONES, ZIP_PREFIX_TIMEZONES, DEFAULT_TIMEZONE
<1>3. ZoneOfState(state, zip) \in DOMAIN OFFSET
  <2> DEFINE zones == {z \in DOMAIN STATE_TIMEZONES : state \in STATE_TIMEZONES[z]}
  <2>1. zones \in SUBSET DOMAIN OFFSET  BY <1>2
  <2>2. ZoneOfState(state, zip)
          = IF zones = {} THEN DEFAULT_TIMEZONE ELSE CHOOSE z \in zones : TRUE
    BY DEF ZoneOfState
  <2> HIDE DEF zones
  <2> QED  BY <1>1, <1>2, <2>1, <2>2
<1>4. \A prefix : ZoneOfPrefix(prefix) \in SUBSET DOMAIN OFFSET
  BY <1>2 DEF ZoneOfPrefix
<1> DEFINE known == {n \in 3..5 : ZoneOfPrefix(Prefix(zip, n)) # {}}
           longest == CHOOSE n \in known : \A m \in known : m <= n
<1>5. known # {} => longest \in known
  <2>1. known \in SUBSET {3, 4, 5}  OBVIOUS
  <2> HIDE DEF known
  <2>2. known # {} => \E n \in known : \A m \in known : m <= n
    <3>1. \A m \in known : m \in 3..5  BY <2>1
    <3>2. ASSUME 5 \in known  PROVE \E n \in known : \A m \in known : m <= n
      BY <3>1, <3>2
    <3>3. ASSUME 5 \notin known, 4 \in known
          PROVE  \E n \in known : \A m \in known : m <= n
      <4>1. \A m \in known : m <= 4  BY <3>1, <3>3
      <4> QED  BY <3>3, <4>1
    <3>4. ASSUME 5 \notin known, 4 \notin known, known # {}
          PROVE  \E n \in known : \A m \in known : m <= n
      <4>1. \A m \in known : m = 3  BY <3>1, <3>4
      <4>2. 3 \in known  BY <3>4, <4>1
      <4> QED  BY <4>1, <4>2
    <3> QED  BY <3>2, <3>3, <3>4
  <2> QED  BY <2>2
<1>6. known # {} => ZoneOfPrefix(Prefix(zip, longest)) # {}
  <2>1. \A n \in known : ZoneOfPrefix(Prefix(zip, n)) # {}  OBVIOUS
  <2> HIDE DEF known, longest
  <2> QED  BY <1>5, <2>1
<1>7. resolveTimezone(state, zip)
        = IF known = {} THEN ZoneOfState(state, zip)
          ELSE CHOOSE z \in ZoneOfPrefix(Prefix(zip, longest)) : TRUE
  BY DEF resolveTimezone
<1> HIDE DEF known, longest
<1> QED  BY <1>1, <1>3, <1>4, <1>6, <1>7

-----------------------------------------------------------------------------
(* The reminders of a file *)

HomeZone(p) == resolveTimezone(Home[p].state, Home[p].zip)

\* What startSequences plans is the grid of the zone found for the borrower's
\* address, moved forward so far that it keeps every rule, and each sequence in
\* the order of its steps.
PlanOnGrid ==
  plan.sends # <<>> =>
    LET zone == HomeZone(plan.person)
    IN  /\ plan.person \in Person
        /\ Follows(Ideal(plan.submitted, zone), plan.sends)
        /\ KeepsTheRules(plan.sends, zone, {plan.submitted})
        /\ InStepOrder(plan.sends)

LEMMA StartPlans ==
  ASSUME TypeOK, NEW r \in Request, StartSequences(r)
  PROVE  /\ plan'.person = who[r] /\ plan'.sends # <<>>
         /\ PlanOnGrid'
<1>1. PICK submitted \in Instant :
        plan' = [person |-> who[r], submitted |-> submitted,
                 sends |-> Plan[who[r]][submitted]]
  BY DEF StartSequences
<1> DEFINE zone == HomeZone(who[r])
           sends == Plan[who[r]][submitted]
<1>2. who[r] \in Person /\ submitted \in Int  BY InstantAssumption DEF TypeOK
<1>3. zone \in DOMAIN OFFSET  BY ZoneResolved DEF HomeZone
<1>4. sends = buildDripSchedule(submitted, zone, {submitted})
  BY <1>2 DEF Plan, HomeZone
<1> HIDE DEF zone, sends
<1>5. sends \in Plans /\ Follows(Ideal(submitted, zone), sends)
  BY <1>2, <1>3, <1>4, PlansFollowTheGrid
<1>6. KeepsTheRules(sends, zone, {submitted}) /\ InStepOrder(sends)
  <2>1. Settled(submitted, zone, {submitted, submitted, submitted})
    BY <1>2, <1>3, TwoMailsSettle DEF Settled
  <2>2. {submitted, submitted, submitted} = {submitted}  OBVIOUS
  <2> QED  BY <1>4, <2>1, <2>2 DEF Settled
<1>7. sends # <<>>
  <2>1. DOMAIN sends = 1..9 /\ 1 \in DOMAIN sends  BY <1>5 DEF Plans
  <2>2. DOMAIN <<>> = {}  OBVIOUS
  <2> QED  BY <2>1, <2>2
<1>8. /\ plan'.person = who[r] /\ plan'.submitted = submitted
      /\ plan'.sends = sends /\ HomeZone(plan.person)' = zone
  BY <1>1 DEF zone, sends, HomeZone
<1> QED  BY <1>2, <1>5, <1>6, <1>7, <1>8 DEF PlanOnGrid

\* startSequences: the reminders planned for a file are those of the grid of the
\* borrower's address, none lost and none early; by the clock of that address
\* none is for the night and no last one for a Sunday; none is within ninety
\* minutes of the confirmation or two hours of another, and each sequence is in
\* the order of its steps.
THEOREM PlansOnGrid == Spec => []PlanOnGrid
<1>1. NoPlan.sends = <<>>  BY DEF NoPlan
<1>2. Init => PlanOnGrid  BY <1>1 DEF Init, PlanOnGrid
<1>3. PlanOnGrid /\ IInv /\ [Next]_vars => PlanOnGrid'
  <2> SUFFICES ASSUME PlanOnGrid, IInv, [Next]_vars  PROVE PlanOnGrid'
    OBVIOUS
  <2>1. CASE plan' = NoPlan  BY <1>1, <2>1 DEF PlanOnGrid
  <2>2. CASE \E r \in Request : StartSequences(r)
    BY <2>2, StartPlans DEF IInv
  <2>3. CASE UNCHANGED vars  BY <2>3 DEF vars, PlanOnGrid, HomeZone
  <2> QED  BY <2>1, <2>2, <2>3 DEF Next
<1> QED  BY <1>2, <1>3, Invariance, PTL DEF Spec

-----------------------------------------------------------------------------
(* The rules of a plan where the borrower really lives *)

LEMMA PlansSettle ==
  ASSUME NEW p \in Person, HomeZone(p) = Home[p].zone,
         NEW submitted \in Int, NEW first \in Int, NEW second \in Int
  PROVE  Settled(submitted, Home[p].zone, {submitted, first, second})
<1>1. Home[p].zone \in DOMAIN OFFSET  BY ZoneResolved DEF HomeZone
<1> QED  BY <1>1, TwoMailsSettle DEF Settled

LEMMA KnownSettle ==
  ASSUME \A p \in Person : HomeZone(p) = Home[p].zone
  PROVE  RulesSettle
<1>1. ASSUME NEW p \in Person, NEW submitted \in Anytime,
             NEW known \in Known(submitted)
      PROVE  Settled(submitted, Home[p].zone, known)
  <2>1. PICK a \in Later, b \in Later :
          known = {submitted, submitted + a, submitted + a + b}
    BY DEF Known
  <2>2. submitted \in Int /\ a \in Int /\ b \in Int  BY InstantAssumption
  <2> DEFINE first == submitted + a
             second == submitted + a + b
  <2>3. first \in Int /\ second \in Int  BY <2>2
  <2>4. known = {submitted, first, second}  BY <2>1
  <2> HIDE DEF first, second
  <2> QED  BY <2>2, <2>3, <2>4, PlansSettle
<1>2. ASSUME NEW p \in Person, NEW submitted \in Anytime,
             NEW known \in Known(submitted)
      PROVE  LET zone  == Home[p].zone
                 sends == buildDripSchedule(submitted, zone, known)
             IN  /\ WellSpaced(sends)
                 /\ LeavesTheNightAlone(sends, zone)
                 /\ FinalsOffSunday(sends, zone)
                 /\ ClearOf(sends, known)
                 /\ InStepOrder(sends)
  BY <1>1 DEF Settled, KeepsTheRules
<1> QED  BY <1>2 DEF RulesSettle

\* startSequences and buildDripSchedule: where the table finds the zone each
\* borrower really lives in, the plan of every file keeps all the rules on the
\* borrower's own clock, its steps in order, and so does the plan of every
\* submission with up to two more mails known ahead.
THEOREM SchedulesKept ==
  ASSUME \A p \in Person : HomeZone(p) = Home[p].zone
  PROVE  Spec => []SchedulesHold
<1>1. PlanOnGrid => PlanKeepsRules
  <2> SUFFICES ASSUME PlanOnGrid  PROVE PlanKeepsRules  OBVIOUS
  <2>1. CASE plan.sends = <<>>
    <3>1. DOMAIN plan.sends = {} /\ Len(plan.sends) = 0  BY <2>1
    <3> QED
      BY <3>1 DEF PlanKeepsRules, WellSpaced, LeavesTheNightAlone,
                  FinalsOffSunday, ClearOf, InStepOrder
  <2>2. CASE plan.sends # <<>>
    <3>1. HomeZone(plan.person) = Home[plan.person].zone  BY <2>2 DEF PlanOnGrid
    <3> QED  BY <2>2, <3>1 DEF PlanOnGrid, PlanKeepsRules, KeepsTheRules
  <2> QED  BY <2>1, <2>2
<1>2. RulesSettle  BY KnownSettle
<1>3. PlanOnGrid => SchedulesHold  BY <1>1, <1>2 DEF SchedulesHold
<1> QED  BY <1>3, PlansOnGrid, PTL

-----------------------------------------------------------------------------
(* Follow-ups *)

\* No step of a request but its last takes the file it holds from it.
LEMMA HeldStays ==
  ASSUME TypeOK, NEW r \in Request, Submit(r) \/ Track(r) \/ AcquireTimesOut(r),
         NEW q \in Request, held[q] # 0
  PROVE  held'[q] # 0
<1>1. at[q] \in {"mail", "plan"} /\ held \in [Request -> 0..Len(file)]
      /\ Len(file) \in Nat
  BY FilesCounted DEF TypeOK
<1>2. ASSUME Done(r), at[r] \notin {"mail", "plan"}  PROVE held'[q] # 0
  BY <1>1, <1>2 DEF Done
<1>3. ASSUME held' = held  PROVE held'[q] # 0
  BY <1>3
<1>4. ASSUME Committed(r)  PROVE held'[q] # 0
  BY <1>1, <1>4 DEF Committed
<1>5. CASE Submit(r)
  <2>1. CASE Create(r) \/ AssertNotBlocked(r) \/ FindPossibleDuplicate(r)
    BY <1>3, <2>1 DEF Create, AssertNotBlocked, FindPossibleDuplicate, Goto
  <2>2. CASE RecordBlockedAttempt(r) \/ InsertFails(r) \/ CommitFails(r)
    BY <1>2, <2>2 DEF RecordBlockedAttempt, InsertFails, CommitFails
  <2>3. CASE BeginTransaction(r) \/ CreateWithUniqueId(r) \/ SendConfirmation(r)
             \/ CommitAnswerLost(r)
    BY <1>3, <2>3 DEF BeginTransaction, CreateWithUniqueId, SendConfirmation,
                      CommitAnswerLost, Goto
  <2>4. CASE Commit(r)  BY <1>4, <2>4 DEF Commit
  <2> QED  BY <1>5, <2>1, <2>2, <2>3, <2>4 DEF Submit
<1>6. CASE Track(r)
  BY <1>2, <1>3, <1>6 DEF Track, Lookup, EnforceRateLimit, FindByCredentials,
                          RecordFailedLookup, Goto
<1>7. CASE AcquireTimesOut(r)  BY <1>2, <1>7 DEF AcquireTimesOut
<1> QED  BY <1>5, <1>6, <1>7

\* runPostCommitEffects: whoever has committed a file ends with its reminders
\* planned, whatever became of the confirmation, unless the process dies.
THEOREM FollowUps == Spec => FollowedUp
<1> DEFINE Follow == \A r \in Request : held[r] # 0 /\ held'[r] = 0
             => \/ plan'.person = who[r] /\ plan'.sends # <<>>
                \/ \A q \in Request : at'[q] = "idle"
<1>1. IInv /\ [Next]_vars => [Follow]_vars
  <2> SUFFICES ASSUME IInv, Next  PROVE Follow  OBVIOUS
  <2>1. TypeOK  BY DEF IInv
  <2>2. ASSUME NEW r \in Request, Submit(r) \/ Track(r) \/ AcquireTimesOut(r)
        PROVE  Follow
    BY <2>1, <2>2, HeldStays
  <2>3. CASE Elsewhere
    <3>1. CASE ProcessDies  BY <3>1 DEF ProcessDies
    <3>2. CASE ~ProcessDies
      BY <2>3, <3>2 DEF Elsewhere, LookupLeavesWindow, CloseFile,
                        NinetyDaysSinceSubmission, requestVars
    <3> QED  BY <3>1, <3>2
  <2>4. ASSUME NEW r \in Request, StartSequences(r)  PROVE Follow
    <3>1. plan'.person = who[r] /\ plan'.sends # <<>>
      BY <2>1, <2>4, StartPlans
    <3>2. \A q \in Request \ {r} : held'[q] = held[q]
      BY <2>1, <2>4 DEF StartSequences, Done, TypeOK
    <3> QED  BY <3>1, <3>2
  <2> QED  BY <2>2, <2>3, <2>4 DEF Next
<1>2. Spec => [][Follow]_vars  BY <1>1, Invariance, PTL DEF Spec
<1> QED  BY <1>2 DEF FollowedUp
=============================================================================
