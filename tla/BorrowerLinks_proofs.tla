------------------------- MODULE BorrowerLinks_proofs -------------------------
(***************************************************************************)
(* Proofs about BorrowerLinks for any number of links, issuers and         *)
(* visitors, every purpose, and with or without restarts.                  *)
(***************************************************************************)
EXTENDS BorrowerLinks, FiniteSetTheorems, TLAPS

\* Whoever works on a link has it marked consumed: this is what makes the
\* conditional UPDATE of consume a lock.
HeldConsumed == \A v \in Visitor : \A l \in Link : Holds(v, l) => l \in consumed

IInv == TypeOK /\ HeldConsumed /\ OneHolder

-----------------------------------------------------------------------------
(* Type correctness *)

LEMMA IssuerTyped ==
  ASSUME TypeOK, NEW i \in Issuer, Issuing(i)
  PROVE  TypeOK'
<1> USE DEF TypeOK
<1>1. CASE Start(i)
  BY <1>1 DEF Start, tokenVars, fileVars, visitorVars, mailVars
<1>2. CASE RevokeOutstanding(i)
  BY <1>2 DEF RevokeOutstanding, fileVars, visitorVars, mailVars
<1>3. CASE Create(i)
  <2>1. PICK l \in Link \ created :
          /\ created' = created \cup {l}
          /\ mine' = [mine EXCEPT ![i] = l]
          /\ newest' = l
    BY <1>3 DEF Create
  <2> QED  BY <1>3, <2>1, LinkAssumption DEF Create, fileVars, visitorVars
<1>4. CASE Deliver(i)
  <2>1. stage' \in Stage
    BY <1>4 DEF Deliver, SavedStages, Stage
  <2>2. attempts' \in Nat  BY <1>4 DEF Deliver
  <2>3. given' \subseteq created
    BY <1>4 DEF Deliver
  <2> QED
    BY <1>4, <2>1, <2>2, <2>3 DEF Deliver, Stage, tokenVars, visitorVars
<1>5. CASE IssuerDies(i)
  BY <1>5 DEF IssuerDies, Stage, tokenVars, fileVars, visitorVars, mailVars
<1> QED  BY <1>1, <1>2, <1>3, <1>4, <1>5 DEF Issuing

LEMMA VisitorTyped ==
  ASSUME TypeOK, NEW v \in Visitor, Redeeming(v)
  PROVE  TypeOK'
<1> USE LinkAssumption DEF TypeOK, VisitorStep, Goto, Leave
<1>1. CASE CreateLinkToken(v)
  BY <1>1 DEF CreateLinkToken, tokenVars, fileVars, issuerVars, mailVars
<1>2. CASE Exchange(v)
  BY <1>2 DEF Exchange, tokenVars, fileVars, issuerVars, mailVars
<1>3. CASE Consume(v)
  BY <1>3 DEF Consume, tokenVars, fileVars, issuerVars, mailVars
<1>4. CASE Claim(v)
  BY <1>4 DEF Claim, fileVars, issuerVars, mailVars
<1>5. CASE Load(v)
  BY <1>5 DEF Load, tokenVars, fileVars, issuerVars, mailVars
<1>6. CASE Increment(v)
  BY <1>6 DEF Increment, tokenVars, issuerVars, mailVars
<1>7. CASE Release(v)
  BY <1>7 DEF Release, fileVars, issuerVars, mailVars
<1>8. CASE Reread(v)
  BY <1>8 DEF Reread, tokenVars, fileVars, issuerVars, mailVars
<1>9. CASE Save(v)
  BY <1>9 DEF Save, Stage, tokenVars, issuerVars, mailVars
<1>10. CASE VisitorDies(v)
  BY <1>10 DEF VisitorDies, tokenVars, fileVars, issuerVars, mailVars
<1> QED
  BY <1>1, <1>2, <1>3, <1>4, <1>5, <1>6, <1>7, <1>8, <1>9, <1>10 DEF Redeeming

LEMMA TypeStep == TypeOK /\ [Next]_vars => TypeOK'
<1> SUFFICES ASSUME TypeOK, [Next]_vars PROVE TypeOK'  OBVIOUS
<1>1. CASE \E i \in Issuer : Issuing(i)  BY <1>1, IssuerTyped
<1>2. CASE \E v \in Visitor : Redeeming(v)  BY <1>2, VisitorTyped
<1>3. CASE \E l \in Link : ThirtyDaysPass(l)
  BY <1>3 DEF TypeOK, ThirtyDaysPass, fileVars, issuerVars, visitorVars, mailVars
<1>4. CASE FileMovesOn
  BY <1>4 DEF TypeOK, FileMovesOn, tokenVars, issuerVars, visitorVars, mailVars
<1>5. CASE UNCHANGED vars
  BY <1>5 DEF TypeOK, vars, tokenVars, fileVars, issuerVars, visitorVars, mailVars
<1> QED  BY <1>1, <1>2, <1>3, <1>4, <1>5 DEF Next

-----------------------------------------------------------------------------
(* Steps, by what they do to the holders and the token rows *)

\* Nobody takes, gives up or consumes a link.
Calm == UNCHANGED <<consumed, vpc, held>>

\* Visitor v, not holding a link, moves about without coming to hold one.
Wander(v) ==
  /\ consumed' = consumed
  /\ \A w \in Visitor \ {v} : vpc'[w] = vpc[w] /\ held'[w] = held[w]
  /\ \A l \in Link : ~Holds(v, l) /\ ~Holds(v, l)'

\* Visitor v claims the link it presents.
Take(v) ==
  /\ held[v] \in Link \ consumed
  /\ consumed' = consumed \cup {held[v]}
  /\ held' = held
  /\ vpc' = [vpc EXCEPT ![v] = "claimed"]

\* Visitor v goes on working with its link.
KeepIt(v) ==
  /\ held[v] \in Link /\ Holds(v, held[v]) /\ Holds(v, held[v])'
  /\ consumed' = consumed /\ held' = held
  /\ \A w \in Visitor \ {v} : vpc'[w] = vpc[w]

\* Visitor v gives its link up, handed back or spent.
GiveUp(v) ==
  /\ held[v] \in Link /\ Holds(v, held[v])
  /\ consumed' \in {consumed, consumed \ {held[v]}}
  /\ held' = [held EXCEPT ![v] = NoLink]
  /\ vpc' = [vpc EXCEPT ![v] = "idle"]

\* What each step does to the count of moves of the file.
LEMMA VisitorSteps ==
  ASSUME TypeOK, NEW v \in Visitor, Redeeming(v)
  PROVE  \/ Wander(v) /\ acts' = acts
         \/ Take(v) /\ acts' = acts
         \/ KeepIt(v) /\ acts' = acts
         \/ /\ GiveUp(v)
            /\ \/ acts' = acts
               \/ acts' = [acts EXCEPT ![held[v]] = @ + 1] /\ consumed' = consumed
<1> USE LinkAssumption DEF TypeOK, Goto, Leave, Holds
<1>1. CASE CreateLinkToken(v)
  BY <1>1 DEF CreateLinkToken, Wander, tokenVars
<1>2. CASE Exchange(v)
  BY <1>2 DEF Exchange, Wander, tokenVars
<1>3. CASE Consume(v)
  BY <1>3 DEF Consume, Wander, tokenVars
<1>4. CASE Claim(v)
  <2>1. held[v] \in Link  BY <1>4 DEF Claim
  <2> QED  BY <1>4, <2>1 DEF Claim, Wander, Take
<1>5. CASE Load(v)
  <2>1. held[v] \in Link  BY <1>5 DEF Load
  <2>2. UNCHANGED <<consumed, acts>>  BY <1>5 DEF Load, tokenVars
  <2> QED  BY <1>5, <2>1, <2>2 DEF Load, KeepIt, GiveUp
<1>6. CASE Increment(v)
  BY <1>6 DEF Increment, KeepIt, tokenVars
<1>7. CASE Release(v)
  BY <1>7 DEF Release, GiveUp
<1>8. CASE Reread(v)
  <2>1. held[v] \in Link  BY <1>8 DEF Reread
  <2>2. UNCHANGED <<consumed, acts>>  BY <1>8 DEF Reread, tokenVars
  <2> QED  BY <1>8, <2>1, <2>2 DEF Reread, KeepIt, GiveUp
<1>9. CASE Save(v)
  BY <1>9 DEF Save, GiveUp, tokenVars
<1>10. CASE VisitorDies(v)
  <2>1. UNCHANGED <<consumed, acts>>  BY <1>10 DEF VisitorDies, tokenVars
  <2>2. held[v] \in Link  BY <1>10 DEF VisitorDies
  <2>3. CASE Holds(v, held[v])  BY <1>10, <2>1, <2>2, <2>3 DEF VisitorDies, GiveUp
  <2>4. CASE ~Holds(v, held[v])  BY <1>10, <2>1, <2>2, <2>4 DEF VisitorDies, Wander
  <2> QED  BY <2>3, <2>4
<1> QED
  BY <1>1, <1>2, <1>3, <1>4, <1>5, <1>6, <1>7, <1>8, <1>9, <1>10 DEF Redeeming

LEMMA OtherSteps ==
  ASSUME [Next]_vars, ~\E v \in Visitor : Redeeming(v)
  PROVE  Calm /\ acts' = acts
<1>1. ASSUME NEW i \in Issuer, Issuing(i) PROVE Calm /\ acts' = acts
  BY <1>1 DEF Issuing, Start, RevokeOutstanding, Create, Deliver, IssuerDies,
              Calm, tokenVars, visitorVars
<1>2. ASSUME NEW l \in Link, ThirtyDaysPass(l) PROVE Calm /\ acts' = acts
  BY <1>2 DEF ThirtyDaysPass, Calm, visitorVars
<1>3. CASE FileMovesOn
  BY <1>3 DEF FileMovesOn, Calm, tokenVars, visitorVars
<1>4. CASE UNCHANGED vars
  BY <1>4 DEF vars, Calm, tokenVars, visitorVars
<1> QED  BY <1>1, <1>2, <1>3, <1>4 DEF Next

-----------------------------------------------------------------------------
(* The inductive invariant *)

LEMMA HoldersStep ==
  ASSUME IInv, [Next]_vars
  PROVE  HeldConsumed' /\ OneHolder'
<1> USE LinkAssumption DEF IInv
<1>1. CASE ~\E v \in Visitor : Redeeming(v)
  BY <1>1, OtherSteps DEF Calm, HeldConsumed, OneHolder, Holds
<1>2. ASSUME NEW v \in Visitor, Redeeming(v)
      PROVE  HeldConsumed' /\ OneHolder'
  <2>1. CASE Wander(v)
    BY <2>1 DEF Wander, HeldConsumed, OneHolder, Holds
  <2>2. CASE Take(v)
    <3>1. \A w \in Visitor, l \in Link :
            Holds(w, l)' <=> Holds(w, l) \/ (w = v /\ l = held[v])
      BY <2>2 DEF Take, Holds, TypeOK, HeldConsumed
    <3>2. \A w \in Visitor : ~Holds(w, held[v])
      BY <2>2 DEF Take, HeldConsumed
    <3> QED  BY <2>2, <3>1, <3>2 DEF Take, HeldConsumed, OneHolder
  <2>3. CASE KeepIt(v)
    <3>1. \A w \in Visitor, l \in Link : Holds(w, l)' <=> Holds(w, l)
      BY <2>3 DEF KeepIt, Holds
    <3> QED  BY <2>3, <3>1 DEF KeepIt, HeldConsumed, OneHolder
  <2>4. CASE GiveUp(v)
    <3>1. \A w \in Visitor, l \in Link :
            Holds(w, l)' <=> Holds(w, l) /\ w # v
      BY <2>4 DEF GiveUp, Holds, TypeOK
    <3>2. \A w \in Visitor : Holds(w, held[v]) => w = v
      BY <2>4 DEF GiveUp, OneHolder
    <3> QED  BY <2>4, <3>1, <3>2 DEF GiveUp, HeldConsumed, OneHolder
  <2> QED  BY <1>2, <2>1, <2>2, <2>3, <2>4, VisitorSteps
<1> QED  BY <1>1, <1>2

LEMMA InitHolds == Init => IInv
<1> SUFFICES ASSUME Init PROVE IInv  OBVIOUS
<1>1. TypeOK
  BY LinkAssumption DEF Init, TypeOK, Stage, VisitorStep
<1>2. HeldConsumed /\ OneHolder
  BY DEF Init, HeldConsumed, OneHolder, Holds
<1> QED  BY <1>1, <1>2 DEF IInv

LEMMA InvariantHolds == Spec => []IInv
<1>1. IInv /\ [Next]_vars => IInv'
  BY TypeStep, HoldersStep DEF IInv
<1> QED  BY <1>1, InitHolds, PTL DEF Spec

-----------------------------------------------------------------------------
(* The theorems *)

\* Every variable keeps its type; token rows are revoked, consumed and handed
\* back only once created.
THEOREM TypeCorrect == Spec => []TypeOK
<1>1. IInv => TypeOK  BY DEF IInv
<1> QED  BY <1>1, InvariantHolds, PTL

\* However many requests present one link, at most one is past the claim.
THEOREM AtMostOneHolder == Spec => []OneHolder
<1>1. IInv => OneHolder  BY DEF IInv
<1> QED  BY <1>1, InvariantHolds, PTL

\* The token rows implement one-time links: a link used to move the file, or
\* spent for nothing, never opens again.
THEOREM ImplementsOneTimeLink == Spec => LinksAreOneTime
<1> DEFINE State == [l \in Link |-> LinkState(l)]
<1>1. Init => OneTime!Init
  BY DEF Init, OneTime!Init, LinkState
<1>2. IInv /\ [Next]_vars => [OneTime!Next]_<<State, acts>>
  <2> SUFFICES ASSUME IInv, [Next]_vars
               PROVE  [OneTime!Next]_<<State, acts>>
    OBVIOUS
  <2> USE LinkAssumption DEF IInv
  <2>1. CASE ~\E v \in Visitor : Redeeming(v)
    <3>1. \A l \in Link : LinkState(l)' = LinkState(l)
      BY <2>1, OtherSteps DEF Calm, LinkState, Holds
    <3> QED  BY <2>1, <3>1, OtherSteps
  <2>2. ASSUME NEW v \in Visitor, Redeeming(v)
        PROVE  [OneTime!Next]_<<State, acts>>
    <3>1. CASE Wander(v) /\ acts' = acts
      <4>1. \A w \in Visitor, l \in Link : Holds(w, l)' <=> Holds(w, l)
        BY <3>1 DEF Wander, Holds
      <4>2. \A l \in Link : LinkState(l)' = LinkState(l)
        BY <3>1, <4>1 DEF Wander, LinkState
      <4> QED  BY <3>1, <4>2
    <3>2. CASE KeepIt(v) /\ acts' = acts
      <4>1. \A w \in Visitor, l \in Link : Holds(w, l)' <=> Holds(w, l)
        BY <3>2 DEF KeepIt, Holds
      <4>2. \A l \in Link : LinkState(l)' = LinkState(l)
        BY <3>2, <4>1 DEF KeepIt, LinkState
      <4> QED  BY <3>2, <4>2
    <3>3. CASE Take(v) /\ acts' = acts
      <4>0. PICK m \in Link : m = held[v]  BY <3>3 DEF Take
      <4>1. \A w \in Visitor, l \in Link :
              Holds(w, l)' <=> Holds(w, l) \/ (w = v /\ l = m)
        BY <3>3, <4>0 DEF Take, Holds, TypeOK, HeldConsumed
      <4>2. m \in Link /\ LinkState(m) = "unused" /\ LinkState(m)' = "open"
        BY <3>3, <4>0, <4>1 DEF Take, LinkState
      <4>3. \A l \in Link \ {m} : LinkState(l)' = LinkState(l)
        BY <3>3, <4>0, <4>1 DEF Take, LinkState
      <4>4. State' = [State EXCEPT ![m] = "open"]
        BY <4>2, <4>3, Zenon
      <4>5. OneTime!Open(m)
        BY <3>3, <4>0, <4>2, <4>4 DEF OneTime!Open
      <4> QED  BY <4>2, <4>5 DEF OneTime!Next
    <3>4. CASE /\ GiveUp(v)
               /\ \/ acts' = acts
                  \/ /\ acts' = [acts EXCEPT ![held[v]] = @ + 1]
                     /\ consumed' = consumed
      <4>0. PICK m \in Link : m = held[v]  BY <3>4 DEF GiveUp
      <4>1. \A w \in Visitor, l \in Link : Holds(w, l)' <=> Holds(w, l) /\ w # v
        BY <3>4, <4>0 DEF GiveUp, Holds, TypeOK
      <4>2. m \in consumed /\ m \in Link /\ Holds(v, m)
            /\ \A w \in Visitor : ~Holds(w, m)'
        BY <3>4, <4>0, <4>1 DEF GiveUp, OneHolder, HeldConsumed
      <4>3. LinkState(m) = "open"  BY <4>2 DEF LinkState
      <4>4. \A l \in Link \ {m} : ~Holds(v, l)
        BY <4>0 DEF Holds
      <4>5. \A l \in Link \ {m} : LinkState(l)' = LinkState(l)
        BY <3>4, <4>0, <4>1, <4>4 DEF GiveUp, LinkState
      <4>6. CASE consumed' = consumed
        <5>1. LinkState(m)' = "spent"  BY <4>2, <4>6 DEF LinkState
        <5>2. State' = [State EXCEPT ![m] = "spent"]
          BY <4>5, <5>1
        <5>3. OneTime!Spend(m)
          BY <3>4, <4>0, <4>2, <4>3, <5>2 DEF OneTime!Spend
        <5> QED  BY <4>2, <5>3 DEF OneTime!Next
      <4>7. CASE consumed' # consumed
        <5>1. consumed' = consumed \ {m} /\ acts' = acts
          BY <3>4, <4>0, <4>7 DEF GiveUp
        <5>2. LinkState(m)' = "unused"  BY <5>1 DEF LinkState
        <5>3. State' = [State EXCEPT ![m] = "unused"]
          BY <4>5, <5>2
        <5>4. OneTime!HandBack(m)
          BY <4>2, <4>3, <5>1, <5>3 DEF OneTime!HandBack
        <5> QED  BY <4>2, <5>4 DEF OneTime!Next
      <4> QED  BY <4>6, <4>7
    <3> QED  BY <2>2, <3>1, <3>2, <3>3, <3>4, VisitorSteps
  <2> QED  BY <2>1, <2>2
<1> QED
  BY <1>1, <1>2, InvariantHolds, PTL DEF Spec, LinksAreOneTime, OneTime!Spec

-----------------------------------------------------------------------------
(* The number of guesses *)

\* The links under which a wrong guess is still to be counted.
Missed == {l \in created : \E v \in Visitor : held[v] = l /\ vpc[v] = "missed"}

\* A guess was let through while the count stood below the limit, and each
\* link carries one guess at a time.
GuessInv ==
  /\ IsFiniteSet(created)
  /\ attempts + Cardinality(Missed) <= MaxAttempts - 1 + Cardinality(created)

\* What each step does to the count and to the guesses under way.
LEMMA GuessSteps ==
  ASSUME IInv, [Next]_vars
  PROVE  /\ created' = created \/ \E l \in Link : created' = created \cup {l}
         /\ \/ attempts' <= attempts /\ Missed' \subseteq Missed
            \/ attempts < MaxAttempts /\ attempts' = attempts /\ created' = created
            \/ /\ attempts' = attempts + 1
               /\ created' = created
               /\ \E l \in Missed : Missed' = Missed \ {l}
<1> USE AttemptsAssumption, LinkAssumption DEF IInv
<1>t. TypeOK'  BY TypeStep
<1>1. ASSUME NEW i \in Issuer, Issuing(i)
      PROVE  /\ created' = created \/ \E l \in Link : created' = created \cup {l}
             /\ attempts' <= attempts /\ Missed' \subseteq Missed
  <2>1. created' = created \/ \E l \in Link : created' = created \cup {l}
    BY <1>1 DEF Issuing, Start, RevokeOutstanding, Create, Deliver, IssuerDies,
                tokenVars
  <2>2. attempts' <= attempts
    BY <1>1 DEF Issuing, Start, RevokeOutstanding, Create, Deliver, IssuerDies,
                fileVars, TypeOK
  <2>3. UNCHANGED <<vpc, held>>
    BY <1>1 DEF Issuing, Start, RevokeOutstanding, Create, Deliver, IssuerDies,
                visitorVars
  <2>4. Missed' \subseteq Missed
    BY <2>3 DEF Missed, TypeOK
  <2> QED  BY <2>1, <2>2, <2>4
<1>2. ASSUME NEW v \in Visitor, Redeeming(v), ~Increment(v)
      PROVE  /\ created' = created
             /\ attempts' = attempts
             /\ attempts < MaxAttempts \/ Missed' \subseteq Missed
  <2>1. created' = created /\ attempts' = attempts
    BY <1>2 DEF Redeeming, CreateLinkToken, Exchange, Consume, Claim, Load,
                Release, Reread, Save, VisitorDies, tokenVars, fileVars
  <2>2. \A w \in Visitor \ {v} : vpc'[w] = vpc[w] /\ held'[w] = held[w]
    BY <1>2 DEF Redeeming, CreateLinkToken, Exchange, Consume, Claim, Load,
                Release, Reread, Save, VisitorDies, Goto, Leave, TypeOK
  <2>3. vpc'[v] = "missed" => attempts < MaxAttempts
    BY <1>2 DEF Redeeming, CreateLinkToken, Exchange, Consume, Claim, Load,
                Release, Reread, Save, VisitorDies, Goto, Leave, TypeOK
  <2> QED  BY <2>1, <2>2, <2>3 DEF Missed
<1>3. ASSUME NEW v \in Visitor, Increment(v)
      PROVE  /\ created' = created
             /\ attempts' = attempts + 1
             /\ \E l \in Missed : Missed' = Missed \ {l}
  <2>1. PICK l \in created : l = held[v]
    BY <1>3 DEF Increment, TypeOK
  <2>2. /\ created' = created /\ attempts' = attempts + 1 /\ held' = held
        /\ vpc[v] = "missed" /\ vpc' = [vpc EXCEPT ![v] = "hand_back"]
    BY <1>3 DEF Increment, Goto, tokenVars
  <2>3. l \in Missed  BY <2>1, <2>2 DEF Missed
  <2>4. \A w \in Visitor : held[w] = l /\ vpc[w] = "missed" => w = v
    BY <2>1, <2>2 DEF OneHolder, Holds, TypeOK
  <2>5. Missed' = Missed \ {l}
    BY <2>1, <2>2, <2>4 DEF Missed, TypeOK
  <2> QED  BY <2>2, <2>3, <2>5
<1>4. ASSUME \/ \E l \in Link : ThirtyDaysPass(l)
             \/ FileMovesOn
             \/ UNCHANGED vars
      PROVE  UNCHANGED <<created, attempts, vpc, held>>
  BY <1>4 DEF ThirtyDaysPass, FileMovesOn, vars, tokenVars, fileVars, visitorVars
<1>5. UNCHANGED <<created, attempts, vpc, held>> =>
        created' = created /\ attempts' <= attempts /\ Missed' \subseteq Missed
  BY DEF Missed, TypeOK
<1>6. ASSUME NEW v \in Visitor, Redeeming(v), ~Increment(v)
      PROVE  \/ attempts' <= attempts /\ Missed' \subseteq Missed
             \/ attempts < MaxAttempts /\ attempts' = attempts /\ created' = created
  BY <1>2, <1>6 DEF TypeOK
<1> QED  BY <1>1, <1>2, <1>3, <1>4, <1>5, <1>6 DEF Next

LEMMA GuessInvStep ==
  ASSUME IInv, GuessInv, [Next]_vars
  PROVE  GuessInv'
<1> USE AttemptsAssumption DEF IInv, GuessInv
<1>t. TypeOK /\ TypeOK'  BY TypeStep
<1>1. /\ IsFiniteSet(created')
      /\ Cardinality(created') >= Cardinality(created)
      /\ Cardinality(created) \in Nat /\ Cardinality(created') \in Nat
  <2>0. Cardinality(created) \in Nat  BY FS_CardinalityType
  <2>1. CASE created' = created
    BY <2>0, <2>1
  <2>2. CASE \E l \in Link : created' = created \cup {l}
    <3>1. PICK l \in Link : created' = created \cup {l}  BY <2>2
    <3>2. /\ IsFiniteSet(created')
          /\ Cardinality(created') = IF l \in created THEN Cardinality(created)
                                     ELSE Cardinality(created) + 1
      BY <3>1, FS_AddElement
    <3> QED  BY <2>0, <3>2
  <2> QED  BY <2>1, <2>2, GuessSteps
<1>2. /\ IsFiniteSet(Missed) /\ Cardinality(Missed) \in Nat
      /\ Cardinality(Missed) <= Cardinality(created)
  <2>1. Missed \subseteq created  BY DEF Missed
  <2> QED  BY <2>1, FS_Subset, FS_CardinalityType
<1>3. /\ IsFiniteSet(Missed') /\ Cardinality(Missed') \in Nat
      /\ Cardinality(Missed') <= Cardinality(created')
  <2>1. Missed' \subseteq created'  BY DEF Missed
  <2> QED  BY <1>1, <2>1, FS_Subset, FS_CardinalityType
<1>4. CASE attempts' <= attempts /\ Missed' \subseteq Missed
  <2>1. Cardinality(Missed') <= Cardinality(Missed)
    BY <1>2, <1>4, FS_Subset
  <2> QED  BY <1>t, <1>1, <1>2, <1>3, <1>4, <2>1 DEF TypeOK
<1>5. CASE attempts < MaxAttempts /\ attempts' = attempts /\ created' = created
  BY <1>t, <1>1, <1>3, <1>5 DEF TypeOK
<1>6. CASE /\ attempts' = attempts + 1
           /\ created' = created
           /\ \E l \in Missed : Missed' = Missed \ {l}
  <2>1. PICK l \in Missed : Missed' = Missed \ {l}  BY <1>6
  <2>2. Cardinality(Missed') = Cardinality(Missed) - 1
    BY <1>2, <2>1, FS_RemoveElement
  <2> QED  BY <1>t, <1>1, <1>2, <1>3, <1>6, <2>2 DEF TypeOK
<1> QED  BY <1>4, <1>5, <1>6, GuessSteps

\* Past the limit, every further guess needs a further link: the borrower who
\* holds one link never gets more than MaxAttempts guesses, however many
\* requests submit it at once.
THEOREM GuessesNeedLinks == Spec => []GuessesBounded
<1>1. Init => GuessInv
  <2> SUFFICES ASSUME Init PROVE GuessInv  OBVIOUS
  <2>1. created = {} /\ Missed = {} /\ attempts = 0  BY DEF Init, Missed
  <2> QED  BY <2>1, FS_EmptySet, AttemptsAssumption DEF GuessInv
<1>2. IInv /\ GuessInv /\ [Next]_vars => GuessInv'
  BY GuessInvStep
<1>3. IInv /\ GuessInv => GuessesBounded
  <2> SUFFICES ASSUME IInv, GuessInv PROVE GuessesBounded  OBVIOUS
  <2>1. IsFiniteSet(Missed) /\ Cardinality(Missed) \in Nat
        /\ Cardinality(created) \in Nat
    <3>1. Missed \subseteq created  BY DEF Missed
    <3> QED  BY <3>1, FS_Subset, FS_CardinalityType DEF GuessInv
  <2> QED
    BY <2>1, AttemptsAssumption DEF IInv, TypeOK, GuessInv, GuessesBounded
<1> QED  BY <1>1, <1>2, <1>3, InvariantHolds, PTL DEF Spec

-----------------------------------------------------------------------------
(* Superseded links *)

\* A lone issuer that has revoked leaves nothing open but what was handed back.
OpenInv == /\ SupersededUnlessReturned
           /\ \A i \in Issuer : ipc[i] = "create" => Live \subseteq returned

\* A step that creates no link opens none but by handing it back.
LEMMA OpensNone ==
  ASSUME OpenInv, Live' \subseteq Live \cup returned', returned \subseteq returned',
         newest' = newest,
         \A i \in Issuer : ipc'[i] = "create" => ipc[i] = "create" \/ Live' = {}
  PROVE  OpenInv'
  BY DEF OpenInv, SupersededUnlessReturned

LEMMA OpenStep ==
  ASSUME \A i, j \in Issuer : i = j, TypeOK, OpenInv, [Next]_vars
  PROVE  OpenInv'
<1>1. ASSUME NEW i \in Issuer, Issuing(i)  PROVE OpenInv'
  <2>1. CASE RevokeOutstanding(i)
    <3>1. /\ Live' = {} /\ returned' = returned /\ newest' = newest
      BY <2>1 DEF RevokeOutstanding, Live, mailVars
    <3> QED  BY <3>1, OpensNone
  <2>2. CASE Create(i)
    <3>1. PICK l \in Link : created' = created \cup {l} /\ newest' = l
      BY <2>2 DEF Create
    <3>2. /\ Live' \subseteq Live \cup {l} /\ returned' = returned
          /\ ipc'[i] = "deliver" /\ Live \subseteq returned
      BY <2>2, <3>1 DEF Create, Live, OpenInv, TypeOK
    <3> QED  BY <3>1, <3>2 DEF OpenInv, SupersededUnlessReturned
  <2>3. CASE Start(i) \/ Deliver(i) \/ IssuerDies(i)
    <3>1. /\ UNCHANGED <<tokenVars, returned, newest>>
          /\ \A j \in Issuer : ipc'[j] # "create"
      BY <2>3 DEF Start, Deliver, IssuerDies, mailVars, TypeOK
    <3> QED  BY <3>1, OpensNone DEF Live, tokenVars
  <2> QED  BY <1>1, <2>1, <2>2, <2>3 DEF Issuing
<1>2. ASSUME NEW v \in Visitor, Redeeming(v)  PROVE OpenInv'
  <2>1. CASE Release(v)
    <3>1. /\ UNCHANGED <<created, revoked, expired, newest, ipc>>
          /\ consumed' = consumed \ {held[v]}
          /\ returned' = returned \cup {held[v]}
      BY <2>1 DEF Release, issuerVars, mailVars
    <3>2. Live' \subseteq Live \cup returned'  BY <3>1 DEF Live
    <3> QED  BY <3>1, <3>2, OpensNone
  <2>2. CASE ~Release(v)
    <3>1. /\ UNCHANGED <<created, revoked, expired, returned, newest, ipc>>
          /\ consumed \subseteq consumed'
      BY <1>2, <2>2 DEF Redeeming, CreateLinkToken, Exchange, Consume, Claim,
         Load, Increment, Reread, Save, VisitorDies, tokenVars, issuerVars,
         mailVars
    <3>2. Live' \subseteq Live  BY <3>1 DEF Live
    <3> QED  BY <3>1, <3>2, OpensNone
  <2> QED  BY <2>1, <2>2
<1>3. ASSUME NEW l \in Link, ThirtyDaysPass(l)  PROVE OpenInv'
  <2>1. /\ UNCHANGED <<created, revoked, consumed, returned, newest, ipc>>
        /\ expired \subseteq expired'
    BY <1>3 DEF ThirtyDaysPass, issuerVars, mailVars
  <2>2. Live' \subseteq Live  BY <2>1 DEF Live
  <2> QED  BY <2>1, <2>2, OpensNone
<1>4. CASE FileMovesOn \/ UNCHANGED vars
  <2>1. UNCHANGED <<tokenVars, returned, newest, ipc>>
    BY <1>4 DEF FileMovesOn, vars, issuerVars, mailVars
  <2> QED  BY <2>1, OpensNone DEF Live, tokenVars
<1> QED  BY <1>1, <1>2, <1>3, <1>4 DEF Next

\* issue: while only one request issues links, the links that still open are the
\* newest one and such as were handed back.
THEOREM NewestOpens ==
  ASSUME \A i, j \in Issuer : i = j
  PROVE  Spec => []SupersededUnlessReturned
<1>1. Init => OpenInv
  BY DEF Init, OpenInv, SupersededUnlessReturned, Live
<1>2. TypeOK /\ OpenInv /\ [Next]_vars => OpenInv'  BY OpenStep
<1>3. OpenInv => SupersededUnlessReturned  BY DEF OpenInv
<1> QED  BY <1>1, <1>2, <1>3, TypeCorrect, PTL DEF Spec
=============================================================================
