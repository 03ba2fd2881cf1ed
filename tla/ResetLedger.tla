---------------------------- MODULE ResetLedger ----------------------------
(***************************************************************************)
(* The reset ledger of one Claude account (internal/store/resets.go): the  *)
(* last observation of every reset grant and the uses inferred from drops  *)
(* of its resets_left.  The daemon and `token-burn once --store` poll the  *)
(* same account: each stamps its snapshot with the time its fetch began    *)
(* (claude.go), is answered later, and inserts later still.                *)
(***************************************************************************)
EXTENDS Naturals, Functions

CONSTANTS
  Pollers,     \* processes that poll the account
  Grants,      \* reset grants of the account
  ExpiresAt,   \* ends_at of each grant
  TextRank,    \* TextRank[t]: rank of formatTime(t) in the order of strings
  MaxTime,     \* most fetches, each begins at a time of its own
  MaxLeft,     \* most resets a grant has left
  MaxRedeemed  \* most resets redeemed

ASSUME ResetLedgerAssumption ==
  /\ MaxTime \in Nat /\ MaxLeft \in Nat /\ MaxRedeemed \in Nat
  /\ ExpiresAt \in [Grants -> Nat]
  /\ TextRank \in [1..MaxTime -> Nat]

VARIABLES
  clock,     \* time of the latest fetch
  left,      \* resets the provider has left, per grant
  redeemed,  \* history: resets redeemed, per grant
  phase,     \* what each poller does
  at,        \* Snapshot.ObservedAt of each poller
  answer,    \* the grants in the answer to each poller, with their resets_left
  complete,  \* CreditsComplete of that answer
  stateAt,   \* reset_state.observed_at, 0 without a row
  summary,   \* AvailableCount in reset_state.summary
  credits,   \* rows of reset_credits; with its first row a grant is "granted"
  inferred,  \* summed Count of the inferred "used" rows of reset_events
  answered,  \* history: latest ObservedAt whose fetch the provider has answered
  crossed    \* history: it answered a fetch after one with a later ObservedAt

answerVars == <<answered, crossed>>
pollVars == <<clock, phase, at, answer, complete>>
ledger == <<stateAt, summary, credits, inferred>>
vars == <<pollVars, answerVars, left, redeemed, ledger>>

Times == 0..MaxTime
Statuses == {"none", "available", "used", "expired", "unavailable"}
Answers == UNION {[G -> 0..MaxLeft] : G \in SUBSET Grants}
NoAnswer == [g \in {} |-> 0]
NoCredit == [status |-> "none", left |-> 0, at |-> 0]

TypeOK ==
  /\ clock \in Times
  /\ left \in [Grants -> 0..MaxLeft]
  /\ redeemed \in [Grants -> 0..MaxRedeemed]
  /\ phase \in [Pollers -> {"idle", "fetching", "inserting"}]
  /\ at \in [Pollers -> Times]
  /\ answer \in [Pollers -> Answers]
  /\ complete \in [Pollers -> BOOLEAN]
  /\ stateAt \in Times
  /\ summary \in Nat
  /\ credits \in [Grants -> [status : Statuses, left : 0..MaxLeft, at : Times]]
  /\ inferred \in [Grants -> Nat]
  /\ answered \in Times /\ crossed \in BOOLEAN

Init ==
  /\ clock = 0
  /\ left = [g \in Grants |-> MaxLeft] /\ redeemed = [g \in Grants |-> 0]
  /\ phase = [p \in Pollers |-> "idle"] /\ at = [p \in Pollers |-> 0]
  /\ answer = [p \in Pollers |-> NoAnswer]
  /\ complete = [p \in Pollers |-> FALSE]
  /\ stateAt = 0 /\ summary = 0
  /\ credits = [g \in Grants |-> NoCredit]
  /\ inferred = [g \in Grants |-> 0]
  /\ answered = 0 /\ crossed = FALSE

-----------------------------------------------------------------------------
(* The provider and the pollers: grants change at any time, also between the *)
(* start of a fetch and its answer.                                         *)

Redeem(g) ==
  /\ left[g] > 0 /\ redeemed[g] < MaxRedeemed
  /\ left' = [left EXCEPT ![g] = @ - 1]
  /\ redeemed' = [redeemed EXCEPT ![g] = @ + 1]
  /\ UNCHANGED <<pollVars, answerVars, ledger>>

\* resets_left may also rise
Replenish(g) ==
  /\ left[g] < MaxLeft
  /\ left' = [left EXCEPT ![g] = @ + 1]
  /\ UNCHANGED <<pollVars, answerVars, redeemed, ledger>>

BeginFetch(p) ==
  /\ phase[p] = "idle" /\ clock < MaxTime
  /\ clock' = clock + 1
  /\ at' = [at EXCEPT ![p] = clock + 1]
  /\ phase' = [phase EXCEPT ![p] = "fetching"]
  /\ UNCHANGED <<answer, complete, answerVars, left, redeemed, ledger>>

\* The provider answers with the grants as they are by now, which is not when the
\* snapshot is stamped.  mapResetProgram: the whole list, which may lack a grant, or
\* the empty answer for an ineligible surface
Answered(p, G, whole) ==
  /\ phase[p] = "fetching"
  /\ phase' = [phase EXCEPT ![p] = "inserting"]
  /\ answer' = [answer EXCEPT ![p] = [g \in G |-> left[g]]]
  /\ complete' = [complete EXCEPT ![p] = whole]
  /\ answered' = IF at[p] > answered THEN at[p] ELSE answered
  /\ crossed' = (crossed \/ at[p] <= answered)
  /\ UNCHANGED <<clock, at, left, redeemed, ledger>>

\* The fetch fails, the process dies or the transaction is rolled back
Abandon(p) ==
  /\ phase[p] # "idle"
  /\ phase' = [phase EXCEPT ![p] = "idle"]
  /\ answer' = [answer EXCEPT ![p] = NoAnswer]
  /\ complete' = [complete EXCEPT ![p] = FALSE]
  /\ UNCHANGED <<clock, at, answerVars, left, redeemed, ledger>>

-----------------------------------------------------------------------------
(* insertResets.                                                            *)

TextLE(s, t) == s = 0 \/ TextRank[s] <= TextRank[t]

\* Mutant of Superseded: an older snapshot is inserted as well
SupersededNever(p) == FALSE

\* The account has a newer observation: nothing is written
Superseded(p) == at[p] < stateAt

\* Mutant of UseInferred: any change is a use
UseInferredFromAnyChange(p, g) ==
  /\ g \in DOMAIN answer[p]
  /\ credits[g].status \notin {"none", "unavailable"}
  /\ at[p] > credits[g].at
  /\ credits[g].left # answer[p][g]

\* resets_left of a grant that was not away has dropped since an earlier observation
UseInferred(p, g) ==
  /\ g \in DOMAIN answer[p]
  /\ credits[g].status \notin {"none", "unavailable"}
  /\ at[p] > credits[g].at
  /\ credits[g].left > answer[p][g]

\* Status that mapResetProgram gives to a grant of p's answer
StatusIn(p, g) ==
  IF answer[p][g] = 0 THEN "used"
  ELSE IF ExpiresAt[g] <= at[p] THEN "expired" ELSE "available"

\* Mutant of Missing: the list is taken for complete although it is not
MissingEvenIfPartial(p, g) ==
  /\ g \notin DOMAIN answer[p]
  /\ credits[g].status = "available" /\ TextLE(credits[g].at, at[p])

\* reconcileMissingCredits: an available grant the whole list does not have
Missing(p, g) ==
  /\ complete[p] /\ g \notin DOMAIN answer[p]
  /\ credits[g].status = "available" /\ TextLE(credits[g].at, at[p])

\* Mutant of CreditAfter: ON CONFLICT DO NOTHING
CreditAfterIgnored(p, g) ==
  IF g \in DOMAIN answer[p] /\ credits[g].status = "none"
  THEN [status |-> StatusIn(p, g), left |-> answer[p][g], at |-> at[p]]
  ELSE IF Missing(p, g)
  THEN [credits[g] EXCEPT !.status = "unavailable", !.at = at[p]]
  ELSE credits[g]

\* The upsert of a credit compares the stored strings
CreditAfter(p, g) ==
  IF g \in DOMAIN answer[p] /\ TextLE(credits[g].at, at[p])
  THEN [status |-> StatusIn(p, g), left |-> answer[p][g], at |-> at[p]]
  ELSE IF Missing(p, g)
  THEN [credits[g] EXCEPT !.status = "unavailable", !.at = at[p]]
  ELSE credits[g]

AvailableCount(p) ==
  SumFunction([g \in {h \in DOMAIN answer[p] : StatusIn(p, h) = "available"} |-> answer[p][g]])

Insert(p) ==
  /\ phase[p] = "inserting"
  /\ phase' = [phase EXCEPT ![p] = "idle"]
  /\ answer' = [answer EXCEPT ![p] = NoAnswer]
  /\ complete' = [complete EXCEPT ![p] = FALSE]
  /\ IF Superseded(p)
     THEN UNCHANGED ledger
     ELSE /\ stateAt' = at[p]
          /\ summary' = IF complete[p] THEN AvailableCount(p) ELSE summary
          /\ credits' = [g \in Grants |-> CreditAfter(p, g)]
          /\ inferred' = [g \in Grants |->
               inferred[g] + IF UseInferred(p, g) THEN credits[g].left - answer[p][g] ELSE 0]
  /\ UNCHANGED <<clock, at, answerVars, left, redeemed>>

Next ==
  \/ \E g \in Grants : Redeem(g) \/ Replenish(g)
  \/ \E p \in Pollers :
       \/ BeginFetch(p) \/ Abandon(p) \/ Insert(p)
       \/ \E G \in SUBSET Grants : Answered(p, G, TRUE)
       \/ Answered(p, {}, FALSE)

Spec == Init /\ [][Next]_vars

-----------------------------------------------------------------------------
(* Properties.                                                              *)

\* "Repeated or older snapshots cannot infer duplicate Claude uses": the ledger
\* never counts more uses of a grant than there were.
NoDuplicateUses == \A g \in Grants : inferred[g] <= redeemed[g]

\* The ledger counts no use twice, however long the answers of two pollers take and
\* in whatever order the snapshots are inserted, unless the provider answered two
\* overlapping fetches in the order opposite to their observation times (ObservedAt
\* is the time before the request, so that insertResets then takes the older list
\* for the newer one).
NoDuplicateUsesUnlessCrossed == crossed \/ NoDuplicateUses

\* The count the TUI shows from reset_state is the one of the credit rows.
SummaryMatchesCredits ==
  summary =
    SumFunction([g \in {h \in Grants : credits[h].status = "available"} |-> credits[g].left])

\* A credit once seen stays in the history, an observation is never replaced by
\* an older one, and a partial answer leaves every known credit intact.
CreditsSurvive ==
  [][\A g \in Grants :
       /\ credits[g].status # "none" => credits'[g].status # "none"
       /\ credits'[g].at >= credits[g].at
       /\ credits'[g] # credits[g] => \E p \in Pollers : complete[p] /\ at[p] = credits'[g].at]_vars
=============================================================================
