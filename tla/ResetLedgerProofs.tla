-------------------------- MODULE ResetLedgerProofs --------------------------
(***************************************************************************)
(* The ledger of a Claude account, for any number of pollers, grants and   *)
(* fetches: nothing in it goes back, and it counts no use twice as long as *)
(* the provider answers in the order of the observation times.             *)
(***************************************************************************)
EXTENDS ResetLedger, TLAPS

\* TypeOK without the summary, which is a sum over the grants
Typed ==
  /\ clock \in Times
  /\ left \in [Grants -> 0..MaxLeft]
  /\ redeemed \in [Grants -> 0..MaxRedeemed]
  /\ phase \in [Pollers -> {"idle", "fetching", "inserting"}]
  /\ at \in [Pollers -> Times]
  /\ answer \in [Pollers -> Answers]
  /\ complete \in [Pollers -> BOOLEAN]
  /\ stateAt \in Times
  /\ credits \in [Grants -> [status : Statuses, left : 0..MaxLeft, at : Times]]
  /\ inferred \in [Grants -> Nat]
  /\ answered \in Times /\ crossed \in BOOLEAN

LEMMA NoAnswerTyped == NoAnswer \in Answers /\ DOMAIN NoAnswer = {}
<1>1. NoAnswer \in [{} -> 0..MaxLeft] /\ {} \in SUBSET Grants
  BY DEF NoAnswer
<1>2. QED
  BY <1>1 DEF Answers, NoAnswer

\* An answer has resets_left for some of the grants
LEMMA AnswerTyped ==
  ASSUME NEW x \in Answers
  PROVE  DOMAIN x \subseteq Grants /\ \A g \in DOMAIN x : x[g] \in 0..MaxLeft
BY DEF Answers

LEMMA AnsweredTyped ==
  ASSUME Typed, NEW G \in SUBSET Grants
  PROVE  [g \in G |-> left[g]] \in Answers
<1>1. [g \in G |-> left[g]] \in [G -> 0..MaxLeft]
  BY DEF Typed
<1>2. QED
  BY <1>1 DEF Answers

LEMMA CreditTyped ==
  ASSUME Typed, NEW p \in Pollers, NEW g \in Grants
  PROVE  /\ CreditAfter(p, g) \in [status : Statuses, left : 0..MaxLeft, at : Times]
         /\ CreditAfter(p, g).at \in {credits[g].at, at[p]}
<1>1. credits[g] \in [status : Statuses, left : 0..MaxLeft, at : Times] /\ at[p] \in Times
  BY DEF Typed
<1>2. ASSUME g \in DOMAIN answer[p]
      PROVE  answer[p][g] \in 0..MaxLeft /\ StatusIn(p, g) \in Statuses
  BY <1>2, AnswerTyped DEF Typed, StatusIn, Statuses
<1>3. CASE g \in DOMAIN answer[p] /\ TextLE(credits[g].at, at[p])
  BY <1>1, <1>2, <1>3 DEF CreditAfter
<1>4. CASE ~(g \in DOMAIN answer[p] /\ TextLE(credits[g].at, at[p]))
  BY <1>1, <1>4 DEF CreditAfter, Statuses
<1>5. QED
  BY <1>3, <1>4

LEMMA InferredTyped ==
  ASSUME Typed, NEW p \in Pollers, NEW g \in Grants
  PROVE  inferred[g] + (IF UseInferred(p, g) THEN credits[g].left - answer[p][g] ELSE 0) \in Nat
<1>1. credits[g].left \in 0..MaxLeft /\ inferred[g] \in Nat /\ MaxLeft \in Nat
  BY ResetLedgerAssumption DEF Typed
<1>2. CASE UseInferred(p, g)
  <2>1. answer[p][g] \in 0..MaxLeft /\ credits[g].left > answer[p][g]
    BY <1>2, AnswerTyped DEF UseInferred, Typed
  <2>2. QED
    BY <1>1, <1>2, <2>1
<1>3. QED
  BY <1>1, <1>2

-----------------------------------------------------------------------------
(***************************************************************************)
(* The order of observations.                                              *)
(***************************************************************************)
\* No credit is newer than the account's last observation, no snapshot newer than
\* the clock, and an answer that is not the whole list is empty
Ordered ==
  /\ \A g \in Grants : credits[g].at <= stateAt
  /\ \A p \in Pollers : at[p] <= clock
  /\ \A p \in Pollers : complete[p] \/ DOMAIN answer[p] = {}
  /\ stateAt <= clock

OrderInv == Typed /\ Ordered

LEMMA InsertTyped ==
  ASSUME OrderInv, NEW p \in Pollers, Insert(p)
  PROVE  OrderInv'
<1>1. CASE Superseded(p)
  BY <1>1, NoAnswerTyped DEF OrderInv, Typed, Ordered, Insert, ledger, answerVars
<1>2. CASE ~Superseded(p)
  <2>1. /\ phase' = [phase EXCEPT ![p] = "idle"]
        /\ answer' = [answer EXCEPT ![p] = NoAnswer]
        /\ complete' = [complete EXCEPT ![p] = FALSE]
        /\ stateAt' = at[p]
        /\ credits' = [g \in Grants |-> CreditAfter(p, g)]
        /\ inferred' = [g \in Grants |->
             inferred[g] + IF UseInferred(p, g) THEN credits[g].left - answer[p][g] ELSE 0]
        /\ UNCHANGED <<clock, at, answerVars, left, redeemed>>
    BY <1>2 DEF Insert
  <2>2. credits' \in [Grants -> [status : Statuses, left : 0..MaxLeft, at : Times]]
    BY <2>1, CreditTyped DEF OrderInv
  <2>3. inferred' \in [Grants -> Nat]
    BY <2>1, InferredTyped DEF OrderInv
  <2>4. Typed'
    BY <2>1, <2>2, <2>3, NoAnswerTyped DEF OrderInv, Typed, answerVars
  <2>5. at[p] >= stateAt /\ at[p] \in Times /\ stateAt \in Times /\ clock \in Times
    BY <1>2, ResetLedgerAssumption DEF Superseded, OrderInv, Typed, Times
  <2>6. \A g \in Grants : credits'[g].at <= stateAt'
    <3>1. ASSUME NEW g \in Grants PROVE credits'[g].at <= at[p]
      <4>1. credits'[g].at \in {credits[g].at, at[p]}
        BY <2>1, CreditTyped DEF OrderInv
      <4>2. credits[g].at <= stateAt /\ credits[g].at \in Times
        BY DEF OrderInv, Ordered, Typed
      <4>3. QED
        BY <2>5, <4>1, <4>2, ResetLedgerAssumption DEF Times
    <3>2. QED
      BY <2>1, <3>1
  <2>7. \A q \in Pollers : complete'[q] \/ DOMAIN answer'[q] = {}
    BY <2>1, NoAnswerTyped DEF OrderInv, Ordered, Typed
  <2>8. QED
    BY <2>1, <2>4, <2>5, <2>6, <2>7 DEF OrderInv, Ordered
<1>3. QED
  BY <1>1, <1>2

LEMMA OrderPreserved == OrderInv /\ [Next]_vars => OrderInv'
<1> SUFFICES ASSUME OrderInv, [Next]_vars PROVE OrderInv'
  OBVIOUS
<1> USE DEF OrderInv, Typed, Ordered, pollVars, answerVars, ledger
<1>0. MaxTime \in Nat /\ MaxLeft \in Nat /\ MaxRedeemed \in Nat
  BY ResetLedgerAssumption
<1>1. ASSUME NEW g \in Grants, Redeem(g) PROVE OrderInv'
  BY <1>0, <1>1 DEF Redeem
<1>2. ASSUME NEW g \in Grants, Replenish(g) PROVE OrderInv'
  BY <1>0, <1>2 DEF Replenish
<1>3. ASSUME NEW p \in Pollers, BeginFetch(p) PROVE OrderInv'
  BY <1>0, <1>3 DEF BeginFetch, Times
<1>4. ASSUME NEW p \in Pollers, Abandon(p) PROVE OrderInv'
  BY <1>4, NoAnswerTyped DEF Abandon
<1>5. ASSUME NEW p \in Pollers, NEW G \in SUBSET Grants, NEW whole \in BOOLEAN,
             Answered(p, G, whole), whole \/ G = {}
      PROVE  OrderInv'
  <2>1. answer' \in [Pollers -> Answers]
    BY <1>5, AnsweredTyped DEF Answered
  <2>2. \A q \in Pollers : complete'[q] \/ DOMAIN answer'[q] = {}
    BY <1>5 DEF Answered
  <2>3. answered' \in Times
    BY <1>5 DEF Answered
  <2>4. crossed' \in BOOLEAN
    BY <1>5, Zenon DEF Answered
  <2>5. UNCHANGED <<clock, at, left, redeemed, ledger>>
        /\ complete' \in [Pollers -> BOOLEAN]
        /\ phase' \in [Pollers -> {"idle", "fetching", "inserting"}]
    BY <1>5 DEF Answered
  <2>6. QED
    BY <2>1, <2>2, <2>3, <2>4, <2>5
<1>6. ASSUME NEW p \in Pollers, Insert(p) PROVE OrderInv'
  BY <1>6, InsertTyped
<1>7. CASE UNCHANGED vars
  BY <1>7 DEF vars
<1>8. QED
  BY <1>1, <1>2, <1>3, <1>4, <1>5, <1>6, <1>7 DEF Next

LEMMA OrderInit == Init => OrderInv
<1>1. MaxTime \in Nat /\ MaxLeft \in Nat /\ MaxRedeemed \in Nat
  BY ResetLedgerAssumption
<1> SUFFICES ASSUME Init PROVE OrderInv
  OBVIOUS
<1>2. Typed
  <2>1. answered \in Times /\ crossed \in BOOLEAN
    <3>1. answered = 0 /\ crossed = FALSE
      BY DEF Init
    <3>2. crossed \in BOOLEAN
      BY <3>1, Zenon
    <3>3. QED
      BY <1>1, <3>1, <3>2 DEF Times
  <2>2. complete \in [Pollers -> BOOLEAN]
    <3>1. complete = [p \in Pollers |-> FALSE]
      BY DEF Init
    <3>2. QED
      BY <3>1
  <2>3. QED
    BY <1>1, <2>1, <2>2, NoAnswerTyped DEF Init, Typed, Times, Statuses, NoCredit
<1>3. Ordered
  BY <1>1, NoAnswerTyped DEF Init, Ordered, NoCredit
<1>4. QED
  BY <1>2, <1>3 DEF OrderInv

THEOREM ObservationsOrdered == Spec => []OrderInv
BY OrderInit, OrderPreserved, PTL DEF Spec

\* No credit disappears, none goes back to an older observation, and nothing but a
\* whole list changes one, in whatever order two pollers insert (insertResets,
\* reconcileMissingCredits).
THEOREM CreditsSurviveHolds == Spec => CreditsSurvive
<1> DEFINE Survives(g) ==
      /\ credits[g].status # "none" => credits'[g].status # "none"
      /\ credits'[g].at >= credits[g].at
      /\ credits'[g] # credits[g] => \E p \in Pollers : complete[p] /\ at[p] = credits'[g].at
<1>1. ASSUME OrderInv, [Next]_vars, NEW g \in Grants
      PROVE  Survives(g)
  <2>1. CASE UNCHANGED credits
    <3>1. credits[g].at \in Nat
      BY ResetLedgerAssumption, <1>1 DEF OrderInv, Typed, Times
    <3>2. QED
      BY <2>1, <3>1
  <2>2. ASSUME NEW p \in Pollers, Insert(p), credits' # credits
        PROVE  Survives(g)
    <3>1. ~Superseded(p) /\ credits'[g] = CreditAfter(p, g)
      BY <2>2 DEF Insert, ledger
    <3>2. /\ credits[g].at \in Nat /\ at[p] \in Nat
          /\ credits[g].at <= stateAt /\ stateAt <= at[p] /\ stateAt \in Nat
          /\ credits[g] \in [status : Statuses, left : 0..MaxLeft, at : Times]
      BY <1>1, <3>1, ResetLedgerAssumption DEF OrderInv, Typed, Ordered, Times, Superseded
    <3>3. CASE g \in DOMAIN answer[p] /\ TextLE(credits[g].at, at[p])
      <4>1. complete[p]
        BY <1>1, <3>3 DEF OrderInv, Ordered
      <4>2. CreditAfter(p, g) =
              [status |-> StatusIn(p, g), left |-> answer[p][g], at |-> at[p]]
        BY <3>3 DEF CreditAfter
      <4>3. QED
        BY <3>1, <3>2, <4>1, <4>2 DEF StatusIn
    <3>4. CASE ~(g \in DOMAIN answer[p] /\ TextLE(credits[g].at, at[p])) /\ Missing(p, g)
      <4>1. CreditAfter(p, g) = [credits[g] EXCEPT !.status = "unavailable", !.at = at[p]]
        BY <3>4 DEF CreditAfter
      <4>2. complete[p]
        BY <3>4 DEF Missing
      <4>3. QED
        BY <3>1, <3>2, <4>1, <4>2
    <3>5. CASE ~(g \in DOMAIN answer[p] /\ TextLE(credits[g].at, at[p])) /\ ~Missing(p, g)
      <4>1. CreditAfter(p, g) = credits[g]
        BY <3>5 DEF CreditAfter
      <4>2. QED
        BY <3>1, <3>2, <4>1
    <3>6. QED
      BY <3>3, <3>4, <3>5
  <2>3. QED
    BY <1>1, <2>1, <2>2
       DEF Next, vars, ledger, pollVars, Redeem, Replenish, BeginFetch, Abandon, Answered
<1>2. ASSUME OrderInv, [Next]_vars
      PROVE  [\A g \in Grants : Survives(g)]_vars
  BY <1>1, <1>2
<1>3. QED
  BY <1>2, ObservationsOrdered, PTL DEF Spec, CreditsSurvive

-----------------------------------------------------------------------------
(***************************************************************************)
(* No use is counted twice.                                                *)
(***************************************************************************)
\* The strings of the database are in the order of the times
TextInOrder == \A s, t \in 1..MaxTime : s <= t => TextRank[s] <= TextRank[t]

Histories == [Grants -> [Times -> Nat]]

\* L and R are what each grant had left, and how many of it had been redeemed, when
\* the fetch of each time was answered.  A drop is a redemption, and so is covered
\* by R
Recorded(L, R) ==
  \A g \in Grants :
    /\ \A s, t \in 0..answered : s <= t => R[g][s] <= R[g][t]
                                         /\ L[g][s] + R[g][s] <= L[g][t] + R[g][t]
    /\ \A t \in 0..answered : R[g][t] <= redeemed[g]
                              /\ L[g][t] + R[g][t] <= left[g] + redeemed[g]

\* An answer is what the grant had left when it was given
AnswersRecorded(L, R) ==
  \A p \in Pollers :
    /\ phase[p] # "inserting" => DOMAIN answer[p] = {}
    /\ phase[p] = "inserting" => at[p] <= answered
    /\ \A g \in Grants : g \in DOMAIN answer[p] => answer[p][g] = L[g][at[p]]

\* The ledger knows what was left at its last observation of a grant, and has
\* counted no more uses than there had been by then
LedgerRecorded(L, R) ==
  /\ stateAt <= answered
  /\ \A g \in Grants :
       /\ inferred[g] <= R[g][credits[g].at]
       /\ credits[g].status \notin {"none", "unavailable"} =>
            credits[g].left = L[g][credits[g].at]

Backed(L, R) == Recorded(L, R) /\ AnswersRecorded(L, R) /\ LedgerRecorded(L, R)

\* The times of the invariant
LEMMA TimesTyped ==
  ASSUME OrderInv
  PROVE  /\ answered \in Nat /\ answered <= MaxTime /\ stateAt \in Nat
         /\ \A p \in Pollers : at[p] \in Times /\ at[p] \in Nat
         /\ \A g \in Grants : credits[g].at \in Times /\ credits[g].at \in 0..stateAt
<1>1. MaxTime \in Nat /\ answered \in Times /\ stateAt \in Times
  BY ResetLedgerAssumption DEF OrderInv, Typed
<1>2. ASSUME NEW p \in Pollers PROVE at[p] \in Times
  BY DEF OrderInv, Typed
<1>3. ASSUME NEW g \in Grants PROVE credits[g].at \in Times /\ credits[g].at <= stateAt
  BY DEF OrderInv, Typed, Ordered
<1>4. QED
  BY <1>1, <1>2, <1>3 DEF Times

\* The provider changes a grant, at any time
LEMMA GrantChanges ==
  ASSUME OrderInv, NEW L \in Histories, NEW R \in Histories, Backed(L, R),
         NEW g \in Grants, Redeem(g) \/ Replenish(g)
  PROVE  Backed(L, R)'
<1>1. UNCHANGED <<phase, at, answer, answered, ledger>>
  BY DEF Redeem, Replenish, pollVars, answerVars
<1>2. \A h \in Grants : /\ left[h] \in Nat /\ redeemed[h] \in Nat
                        /\ left'[h] \in Nat /\ redeemed'[h] \in Nat
                        /\ redeemed[h] <= redeemed'[h]
                        /\ left[h] + redeemed[h] <= left'[h] + redeemed'[h]
  <2>1. left \in [Grants -> 0..MaxLeft] /\ redeemed \in [Grants -> 0..MaxRedeemed]
        /\ MaxLeft \in Nat /\ MaxRedeemed \in Nat
    BY ResetLedgerAssumption DEF OrderInv, Typed
  <2>2. CASE Redeem(g)
    BY <2>1, <2>2 DEF Redeem
  <2>3. CASE Replenish(g)
    BY <2>1, <2>3 DEF Replenish
  <2>4. QED
    BY <2>2, <2>3
<1>3. Recorded(L, R)'
  <2>1. SUFFICES ASSUME NEW h \in Grants, NEW t \in 0..answered
                 PROVE  R[h][t] <= redeemed'[h] /\ L[h][t] + R[h][t] <= left'[h] + redeemed'[h]
    BY <1>1 DEF Backed, Recorded
  <2>2. R[h][t] \in Nat /\ L[h][t] \in Nat
    BY TimesTyped, ResetLedgerAssumption DEF Histories, Times
  <2>3. R[h][t] <= redeemed[h] /\ L[h][t] + R[h][t] <= left[h] + redeemed[h]
    BY DEF Backed, Recorded
  <2>4. QED
    BY <1>2, <2>2, <2>3
<1>4. AnswersRecorded(L, R)'
  BY <1>1 DEF Backed, AnswersRecorded
<1>5. LedgerRecorded(L, R)'
  BY <1>1 DEF Backed, LedgerRecorded, ledger
<1>6. QED
  BY <1>3, <1>4, <1>5 DEF Backed

LEMMA FetchBegins ==
  ASSUME OrderInv, NEW L \in Histories, NEW R \in Histories, Backed(L, R),
         NEW p \in Pollers, BeginFetch(p)
  PROVE  Backed(L, R)'
<1>1. /\ phase[p] = "idle" /\ at' = [at EXCEPT ![p] = clock + 1]
      /\ phase' = [phase EXCEPT ![p] = "fetching"]
      /\ UNCHANGED <<answer, answered, left, redeemed, ledger>>
  BY DEF BeginFetch, answerVars
<1>2. Recorded(L, R)' /\ LedgerRecorded(L, R)'
  BY <1>1 DEF Backed, Recorded, LedgerRecorded, ledger
<1>3. AnswersRecorded(L, R)'
  <2>1. SUFFICES ASSUME NEW q \in Pollers
        PROVE  /\ phase'[q] # "inserting" => DOMAIN answer[q] = {}
               /\ phase'[q] = "inserting" => at'[q] <= answered
               /\ \A g \in Grants : g \in DOMAIN answer[q] => answer[q][g] = L[g][at'[q]]
    BY <1>1 DEF AnswersRecorded
  <2>2. CASE q = p
    BY <1>1, <2>2 DEF Backed, AnswersRecorded, OrderInv, Typed
  <2>3. CASE q # p
    <3>1. phase'[q] = phase[q] /\ at'[q] = at[q]
      BY <1>1, <2>3 DEF OrderInv, Typed
    <3>2. QED
      BY <3>1 DEF Backed, AnswersRecorded
  <2>4. QED
    BY <2>2, <2>3
<1>4. QED
  BY <1>2, <1>3 DEF Backed

LEMMA FetchFails ==
  ASSUME OrderInv, NEW L \in Histories, NEW R \in Histories, Backed(L, R),
         NEW p \in Pollers, Abandon(p)
  PROVE  Backed(L, R)'
<1>1. UNCHANGED <<at, answered, left, redeemed, ledger>>
  BY DEF Abandon, answerVars
<1>2. Recorded(L, R)' /\ LedgerRecorded(L, R)'
  BY <1>1 DEF Backed, Recorded, LedgerRecorded, ledger
<1>3. AnswersRecorded(L, R)'
  BY <1>1, NoAnswerTyped DEF Abandon, Backed, AnswersRecorded, OrderInv, Typed
<1>4. QED
  BY <1>2, <1>3 DEF Backed

\* The histories are extended up to the time of a fetch when it is answered, unless
\* the answer crosses one to a later fetch
LEMMA FetchAnswered ==
  ASSUME OrderInv, NEW L \in Histories, NEW R \in Histories, Backed(L, R),
         NEW p \in Pollers, NEW G \in SUBSET Grants, NEW whole \in BOOLEAN,
         Answered(p, G, whole), ~crossed'
  PROVE  \E M, S \in Histories : Backed(M, S)'
<1>1. /\ phase' = [phase EXCEPT ![p] = "inserting"]
      /\ answer' = [answer EXCEPT ![p] = [g \in G |-> left[g]]]
      /\ answered' = at[p] /\ answered < at[p]
      /\ UNCHANGED <<clock, at, left, redeemed, ledger>>
  <2>1. ~(at[p] <= answered)
    BY Zenon DEF Answered
  <2>2. answered < at[p]
    BY <2>1, TimesTyped
  <2>3. QED
    BY <2>2 DEF Answered
<1>2. \A g \in Grants : left[g] \in Nat /\ redeemed[g] \in Nat
  BY ResetLedgerAssumption DEF OrderInv, Typed
<1>3. PICK M \in Histories, S \in Histories :
        /\ M = [g \in Grants |-> [t \in Times |-> IF t > answered THEN left[g] ELSE L[g][t]]]
        /\ S = [g \in Grants |-> [t \in Times |-> IF t > answered THEN redeemed[g] ELSE R[g][t]]]
  <2> DEFINE After(h, new) ==
        [g \in Grants |-> [t \in Times |-> IF t > answered THEN new[g] ELSE h[g][t]]]
  <2>1. After(L, left) \in Histories /\ After(R, redeemed) \in Histories
    BY <1>2 DEF Histories
  <2>2. QED
    BY <2>1
<1>4. answered \in Nat /\ answered' \in Nat /\ answered' <= MaxTime /\ MaxTime \in Nat
      /\ at[p] \in Times
  BY <1>1, TimesTyped, ResetLedgerAssumption DEF Times
<1>5. ASSUME NEW g \in Grants, NEW t \in 0..answered
      PROVE  M[g][t] = L[g][t] /\ S[g][t] = R[g][t]
  BY <1>1, <1>3, <1>4 DEF Times
<1>6. ASSUME NEW g \in Grants, NEW t \in 0..answered', t > answered
      PROVE  M[g][t] = left[g] /\ S[g][t] = redeemed[g]
  BY <1>3, <1>4, <1>6 DEF Times
<1>7. Recorded(M, S)'
  <2>1. SUFFICES ASSUME NEW g \in Grants
        PROVE  /\ \A s, t \in 0..answered' : s <= t => S[g][s] <= S[g][t]
                                           /\ M[g][s] + S[g][s] <= M[g][t] + S[g][t]
               /\ \A t \in 0..answered' : S[g][t] <= redeemed[g]
                                       /\ M[g][t] + S[g][t] <= left[g] + redeemed[g]
    BY <1>1 DEF Recorded
  <2>2. ASSUME NEW t \in 0..answered'
        PROVE  S[g][t] <= redeemed[g] /\ M[g][t] + S[g][t] <= left[g] + redeemed[g]
    <3>1. CASE t > answered
      BY <1>2, <1>6, <3>1
    <3>2. CASE ~(t > answered)
      <4>1. t \in 0..answered
        BY <1>4, <3>2
      <4>2. QED
        BY <1>5, <4>1 DEF Backed, Recorded
    <3>3. QED
      BY <3>1, <3>2
  <2>3. ASSUME NEW s \in 0..answered', NEW t \in 0..answered', s <= t
        PROVE  S[g][s] <= S[g][t] /\ M[g][s] + S[g][s] <= M[g][t] + S[g][t]
    <3>1. CASE t > answered
      BY <2>2, <1>6, <3>1
    <3>2. CASE ~(t > answered)
      <4>1. s \in 0..answered /\ t \in 0..answered
        BY <1>4, <2>3, <3>2
      <4>2. QED
        BY <1>5, <2>3, <4>1 DEF Backed, Recorded
    <3>3. QED
      BY <3>1, <3>2
  <2>4. QED
    BY <2>2, <2>3
<1>8. AnswersRecorded(M, S)'
  <2>1. SUFFICES ASSUME NEW q \in Pollers
        PROVE  /\ phase'[q] # "inserting" => DOMAIN answer'[q] = {}
               /\ phase'[q] = "inserting" => at[q] <= answered'
               /\ \A g \in Grants : g \in DOMAIN answer'[q] => answer'[q][g] = M[g][at[q]]
    BY <1>1 DEF AnswersRecorded
  <2>2. CASE q = p
    <3>1. phase'[p] = "inserting" /\ answer'[p] = [g \in G |-> left[g]]
      BY <1>1 DEF OrderInv, Typed
    <3>2. at[p] \in 0..answered' /\ at[p] > answered
      BY <1>1, <1>4
    <3>3. QED
      BY <1>1, <1>4, <1>6, <2>2, <3>1, <3>2
  <2>3. CASE q # p
    <3>1. answer'[q] = answer[q] /\ phase'[q] = phase[q]
      BY <1>1, <2>3 DEF OrderInv, Typed
    <3>2. CASE phase[q] = "inserting"
      <4>1. at[q] <= answered /\ at[q] \in 0..answered
        BY <3>2, TimesTyped DEF Backed, AnswersRecorded
      <4>2. at[q] <= answered'
        BY <1>1, <1>4, <4>1
      <4>3. QED
        BY <1>5, <3>1, <3>2, <4>1, <4>2 DEF Backed, AnswersRecorded
    <3>3. CASE phase[q] # "inserting"
      BY <3>1, <3>3 DEF Backed, AnswersRecorded
    <3>4. QED
      BY <3>2, <3>3
  <2>4. QED
    BY <2>2, <2>3
<1>9. LedgerRecorded(M, S)'
  <2>1. stateAt <= answered /\ stateAt \in Nat /\ stateAt <= answered'
    BY <1>1, <1>4, TimesTyped DEF Backed, LedgerRecorded
  <2>2. ASSUME NEW g \in Grants PROVE credits[g].at \in 0..answered
    BY <1>4, <2>1, TimesTyped
  <2>3. QED
    BY <1>1, <1>5, <2>1, <2>2 DEF Backed, LedgerRecorded, ledger
<1>10. Backed(M, S)'
  BY <1>7, <1>8, <1>9 DEF Backed
<1>11. QED
  BY <1>10

\* An insert counts a drop since the last observation, which redemptions cover
LEMMA InsertBacked ==
  ASSUME TextInOrder, OrderInv, NEW L \in Histories, NEW R \in Histories, Backed(L, R),
         NEW p \in Pollers, Insert(p)
  PROVE  Backed(L, R)'
<1>1. UNCHANGED <<clock, at, answered, left, redeemed>>
  BY DEF Insert, answerVars
<1>2. Recorded(L, R)'
  BY <1>1 DEF Backed, Recorded
<1>3. AnswersRecorded(L, R)'
  BY <1>1, NoAnswerTyped DEF Insert, Backed, AnswersRecorded, OrderInv, Typed
<1>4. LedgerRecorded(L, R)'
  <2>1. CASE Superseded(p)
    BY <1>1, <2>1 DEF Insert, Backed, LedgerRecorded, ledger
  <2>2. CASE ~Superseded(p)
    <3>0. /\ stateAt' = at[p] /\ answered' = answered /\ at[p] <= answered
      BY <1>1, <2>2 DEF Insert, Backed, AnswersRecorded
    <3> SUFFICES ASSUME NEW g \in Grants
                 PROVE  /\ inferred'[g] <= R[g][credits'[g].at]
                        /\ credits'[g].status \notin {"none", "unavailable"} =>
                             credits'[g].left = L[g][credits'[g].at]
      BY <1>1, <3>0, TimesTyped DEF LedgerRecorded
    <3> DEFINE c == credits[g]
               used == IF UseInferred(p, g) THEN c.left - answer[p][g] ELSE 0
    <3>1. credits'[g] = CreditAfter(p, g) /\ inferred'[g] = inferred[g] + used
      BY <2>2 DEF Insert
    <3>2. /\ answered \in Nat /\ at[p] \in 0..answered /\ c.at \in 0..answered
          /\ c.at <= at[p] /\ at[p] \in Times /\ c.at \in Times
      BY <2>2, <3>0, TimesTyped DEF Superseded
    <3>3. TextLE(c.at, at[p])
      BY <3>2, ResetLedgerAssumption DEF TextInOrder, TextLE, Times
    <3>4. /\ R[g][c.at] \in Nat /\ R[g][at[p]] \in Nat
          /\ L[g][c.at] \in Nat /\ L[g][at[p]] \in Nat
          /\ inferred[g] \in Nat
          /\ c \in [status : Statuses, left : 0..MaxLeft, at : Times]
      BY <3>2 DEF Histories, OrderInv, Typed
    <3>5. /\ R[g][c.at] <= R[g][at[p]]
          /\ L[g][c.at] + R[g][c.at] <= L[g][at[p]] + R[g][at[p]]
      BY <3>2 DEF Backed, Recorded
    <3>6. /\ inferred[g] <= R[g][c.at]
          /\ c.status \notin {"none", "unavailable"} => c.left = L[g][c.at]
      BY DEF Backed, LedgerRecorded
    <3> HIDE DEF c
    <3>7. CASE g \in DOMAIN answer[p]
      <4>1. credits'[g] = [status |-> StatusIn(p, g), left |-> answer[p][g], at |-> at[p]]
        BY <3>1, <3>3, <3>7 DEF CreditAfter, c
      <4>2. answer[p][g] = L[g][at[p]]
        BY <3>7 DEF Backed, AnswersRecorded
      <4>3. used = 0 \/ used = L[g][c.at] - L[g][at[p]]
        BY <3>6, <4>2 DEF UseInferred, c
      <4>4. inferred[g] + used <= R[g][at[p]]
        BY <3>4, <3>5, <3>6, <4>3
      <4>5. QED
        BY <3>1, <4>1, <4>2, <4>4
    <3>8. CASE g \notin DOMAIN answer[p]
      <4>1. used = 0 /\ inferred'[g] = inferred[g]
        BY <3>1, <3>4, <3>8 DEF UseInferred
      <4>2. CASE Missing(p, g)
        <5>1. credits'[g] = [c EXCEPT !.status = "unavailable", !.at = at[p]]
          BY <3>1, <3>8, <4>2 DEF CreditAfter, c
        <5>2. credits'[g].status = "unavailable" /\ credits'[g].at = at[p]
          BY <3>4, <5>1
        <5>3. QED
          BY <3>4, <3>5, <3>6, <4>1, <5>2
      <4>3. CASE ~Missing(p, g)
        <5>1. credits'[g] = c
          BY <3>1, <3>8, <4>3 DEF CreditAfter, c
        <5>2. QED
          BY <3>6, <4>1, <5>1
      <4>4. QED
        BY <4>2, <4>3
    <3>9. QED
      BY <3>7, <3>8
  <2>3. QED
    BY <2>1, <2>2
<1>5. QED
  BY <1>2, <1>3, <1>4 DEF Backed

\* There is a history of the grants that accounts for everything in the ledger
BackedInv == \E L, R \in Histories : Backed(L, R)

LedgerInv == crossed \/ BackedInv

LEMMA BackedPreserved ==
  ASSUME TextInOrder, OrderInv, LedgerInv, [Next]_vars
  PROVE  LedgerInv'
<1>1. crossed => crossed'
  BY DEF Next, vars, answerVars, Redeem, Replenish, BeginFetch, Abandon, Answered, Insert
<1> SUFFICES ASSUME ~crossed', ~crossed PROVE BackedInv'
  BY <1>1 DEF LedgerInv
<1> PICK L \in Histories, R \in Histories : Backed(L, R)
  BY DEF LedgerInv, BackedInv
<1>2. CASE Backed(L, R)'
  BY <1>2 DEF BackedInv
<1>3. ASSUME NEW g \in Grants, Redeem(g) \/ Replenish(g) PROVE BackedInv'
  BY <1>2, <1>3, GrantChanges
<1>4. ASSUME NEW p \in Pollers, BeginFetch(p) PROVE BackedInv'
  BY <1>2, <1>4, FetchBegins
<1>5. ASSUME NEW p \in Pollers, Abandon(p) PROVE BackedInv'
  BY <1>2, <1>5, FetchFails
<1>6. ASSUME NEW p \in Pollers, NEW G \in SUBSET Grants, NEW whole \in BOOLEAN,
             Answered(p, G, whole)
      PROVE  BackedInv'
  BY <1>6, FetchAnswered DEF BackedInv
<1>7. ASSUME NEW p \in Pollers, Insert(p) PROVE BackedInv'
  BY <1>2, <1>7, InsertBacked
<1>8. CASE UNCHANGED vars
  BY <1>2, <1>8 DEF vars, pollVars, answerVars, ledger, Backed, Recorded, AnswersRecorded,
     LedgerRecorded
<1>9. QED
  BY <1>3, <1>4, <1>5, <1>6, <1>7, <1>8 DEF Next

\* Unless an answer overtook the one to an earlier fetch, the ledger claims no more
\* uses of a grant than the user has made, however long any number of pollers wait
\* for their answers and in whatever order they insert them (insertResets).
THEOREM NoDuplicateUsesHolds ==
  ASSUME TextInOrder
  PROVE  Spec => []NoDuplicateUsesUnlessCrossed
<1>1. Init => BackedInv
  <2> SUFFICES ASSUME Init PROVE BackedInv
    OBVIOUS
  <2> DEFINE L == [g \in Grants |-> [t \in Times |-> MaxLeft]]
             R == [g \in Grants |-> [t \in Times |-> 0]]
  <2>1. L \in Histories /\ R \in Histories
    BY ResetLedgerAssumption DEF Histories
  <2>2. ASSUME NEW g \in Grants PROVE L[g][0] = MaxLeft /\ R[g][0] = 0
    BY ResetLedgerAssumption DEF Times
  <2> HIDE DEF L, R
  <2>3. 0..answered = {0} /\ answered = 0 /\ stateAt = 0 /\ MaxLeft \in Nat
    BY ResetLedgerAssumption DEF Init
  <2>4. Recorded(L, R)
    BY <2>2, <2>3 DEF Init, Recorded
  <2>5. AnswersRecorded(L, R)
    BY NoAnswerTyped DEF Init, AnswersRecorded
  <2>6. LedgerRecorded(L, R)
    BY <2>2, <2>3 DEF Init, LedgerRecorded, NoCredit
  <2>7. QED
    BY <2>1, <2>4, <2>5, <2>6 DEF BackedInv, Backed
<1>2. OrderInv /\ LedgerInv /\ [Next]_vars => LedgerInv'
  BY BackedPreserved
<1>3. ASSUME OrderInv, LedgerInv PROVE NoDuplicateUsesUnlessCrossed
  <2> SUFFICES ASSUME ~crossed, NEW g \in Grants PROVE inferred[g] <= redeemed[g]
    BY DEF NoDuplicateUsesUnlessCrossed, NoDuplicateUses
  <2> PICK L \in Histories, R \in Histories : Backed(L, R)
    BY <1>3 DEF LedgerInv, BackedInv
  <2>1. credits[g].at \in 0..answered /\ credits[g].at \in Times
    BY <1>3, TimesTyped DEF Backed, LedgerRecorded
  <2>2. inferred[g] <= R[g][credits[g].at] /\ R[g][credits[g].at] <= redeemed[g]
    BY <2>1 DEF Backed, Recorded, LedgerRecorded
  <2>3. inferred[g] \in Nat /\ R[g][credits[g].at] \in Nat /\ redeemed[g] \in Nat
    BY <1>3, <2>1, ResetLedgerAssumption DEF Histories, OrderInv, Typed
  <2>4. QED
    BY <2>2, <2>3
<1>4. QED
  BY <1>1, <1>2, <1>3, ObservationsOrdered, PTL DEF Spec, LedgerInv

-----------------------------------------------------------------------------
(***************************************************************************)
(* The summary.                                                            *)
(***************************************************************************)
\* The credits the summary counts, with what each has left
Available == [g \in {h \in Grants : credits[h].status = "available"} |-> credits[g].left]

\* The sum over no grant (SumFunction of the community modules)
LEMMA EmptySum == ASSUME NEW f, DOMAIN f = {} PROVE SumFunction(f) = 0
<1> DEFINE Body(i) == [s \in SUBSET {} |-> IF s = {} THEN 0
                         ELSE f[CHOOSE x \in s : TRUE] + i[s \ {CHOOSE x \in s : TRUE}]]
           iter == CHOOSE i : i = Body(i)
<1>1. SumFunction(f) = iter[{}]
  BY DEF SumFunction, SumFunctionOnSet, FoldFunctionOnSet, MapThenFoldSet
<1>2. \A i : Body(i) = [s \in {{}} |-> 0]
  OBVIOUS
<1>3. \E i : i = Body(i)
  BY <1>2
<1>4. iter = Body(iter)
  BY <1>3
<1>5. iter = [s \in {{}} |-> 0]
  BY <1>2, <1>4
<1>6. QED
  BY <1>1, <1>5

\* After a whole list is inserted the available credits are those it shows as
\* available (reconcileMissingCredits takes the others away)
LEMMA WholeListCounts ==
  ASSUME TextInOrder, OrderInv, NEW p \in Pollers, Insert(p), ~Superseded(p), complete[p]
  PROVE  Available' = [g \in {h \in DOMAIN answer[p] : StatusIn(p, h) = "available"}
                         |-> answer[p][g]]
<1>1. credits' = [g \in Grants |-> CreditAfter(p, g)]
  BY DEF Insert
<1>2. DOMAIN answer[p] \subseteq Grants
  BY AnswerTyped DEF OrderInv, Typed
<1>3. ASSUME NEW g \in Grants PROVE TextLE(credits[g].at, at[p])
  <2>1. /\ MaxTime \in Nat /\ credits[g].at \in 0..MaxTime /\ at[p] \in 0..MaxTime
        /\ stateAt \in 0..MaxTime /\ credits[g].at <= stateAt /\ ~(at[p] < stateAt)
    BY ResetLedgerAssumption DEF OrderInv, Typed, Ordered, Times, Superseded
  <2>2. credits[g].at = 0 \/ (credits[g].at \in 1..MaxTime /\ at[p] \in 1..MaxTime
                                 /\ credits[g].at <= at[p])
    BY <2>1
  <2>3. QED
    BY <2>2 DEF TextLE, TextInOrder
<1>4. ASSUME NEW g \in Grants
      PROVE  /\ credits'[g].status = "available" <=>
                  g \in DOMAIN answer[p] /\ StatusIn(p, g) = "available"
             /\ credits'[g].status = "available" => credits'[g].left = answer[p][g]
  <2>1. credits'[g] = CreditAfter(p, g)
    BY <1>1
  <2>2. CASE g \in DOMAIN answer[p]
    <3>1. credits'[g] = [status |-> StatusIn(p, g), left |-> answer[p][g], at |-> at[p]]
      BY <1>3, <2>1, <2>2 DEF CreditAfter
    <3>2. QED
      BY <2>2, <3>1
  <2>3. CASE g \notin DOMAIN answer[p] /\ Missing(p, g)
    <3>1. credits'[g] = [credits[g] EXCEPT !.status = "unavailable", !.at = at[p]]
      BY <2>1, <2>3 DEF CreditAfter
    <3>2. credits[g] \in [status : Statuses, left : 0..MaxLeft, at : Times]
      BY DEF OrderInv, Typed
    <3>3. credits'[g].status = "unavailable"
      BY <3>1, <3>2
    <3>4. QED
      BY <2>3, <3>3
  <2>4. CASE g \notin DOMAIN answer[p] /\ ~Missing(p, g)
    <3>1. credits'[g] = credits[g] /\ credits[g].status # "available"
      BY <1>3, <2>1, <2>4 DEF CreditAfter, Missing
    <3>2. QED
      BY <2>4, <3>1
  <2>5. QED
    BY <2>2, <2>3, <2>4
<1>5. {h \in Grants : credits'[h].status = "available"}
        = {h \in DOMAIN answer[p] : StatusIn(p, h) = "available"}
  BY <1>2, <1>4
<1>6. QED
  BY <1>2, <1>4, <1>5 DEF Available

\* An answer that is not the whole list changes neither the summary nor a credit
LEMMA PartialListKeeps ==
  ASSUME OrderInv, NEW p \in Pollers, Insert(p), ~complete[p]
  PROVE  UNCHANGED <<summary, credits>>
<1>1. DOMAIN answer[p] = {}
  BY DEF OrderInv, Ordered
<1>2. \A g \in Grants : CreditAfter(p, g) = credits[g]
  BY <1>1 DEF CreditAfter, Missing
<1>3. CASE Superseded(p)
  BY <1>3 DEF Insert, ledger
<1>4. CASE ~Superseded(p)
  <2>1. summary' = summary /\ credits' = [g \in Grants |-> credits[g]]
    BY <1>2, <1>4 DEF Insert
  <2>2. QED
    BY <2>1 DEF OrderInv, Typed
<1>5. QED
  BY <1>3, <1>4

\* The count shown to the user is the one of the credits on record, whatever
\* lists arrive, whole or not, in whatever order, for any number of pollers and
\* grants (insertResets, the two writes of one transaction)
THEOREM SummaryMatchesCreditsHolds ==
  ASSUME TextInOrder
  PROVE  Spec => []SummaryMatchesCredits
<1>1. SummaryMatchesCredits <=> summary = SumFunction(Available)
  BY DEF SummaryMatchesCredits, Available
<1>2. Init => SummaryMatchesCredits
  <2> SUFFICES ASSUME Init PROVE summary = SumFunction(Available)
    BY <1>1
  <2>1. DOMAIN Available = {}
    BY DEF Init, Available, NoCredit
  <2>2. QED
    BY <2>1, EmptySum DEF Init
<1>3. OrderInv /\ SummaryMatchesCredits /\ [Next]_vars => SummaryMatchesCredits'
  <2> SUFFICES ASSUME OrderInv, SummaryMatchesCredits, [Next]_vars
               PROVE  SummaryMatchesCredits'
    OBVIOUS
  <2>1. CASE UNCHANGED <<summary, credits>>
    BY <2>1 DEF SummaryMatchesCredits
  <2>2. ASSUME NEW p \in Pollers, Insert(p), complete[p], ~Superseded(p)
        PROVE  SummaryMatchesCredits'
    <3>1. summary' = AvailableCount(p)
      BY <2>2 DEF Insert
    <3>2. summary' = SumFunction(Available')
      BY <2>2, <3>1, WholeListCounts DEF AvailableCount
    <3>3. QED
      BY <3>2 DEF SummaryMatchesCredits, Available
  <2>3. ASSUME NEW p \in Pollers, Insert(p), ~complete[p] \/ Superseded(p)
        PROVE  UNCHANGED <<summary, credits>>
    BY <2>3, PartialListKeeps DEF Insert, ledger
  <2>4. QED
    BY <2>1, <2>2, <2>3
       DEF Next, vars, ledger, pollVars, Redeem, Replenish, BeginFetch, Abandon, Answered
<1>4. QED
  BY <1>2, <1>3, ObservationsOrdered, PTL DEF Spec
=============================================================================
