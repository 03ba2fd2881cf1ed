------------------------------- MODULE Copilot -----------------------------
(***************************************************************************)
(* A poll of a GitHub Copilot account that is billed by AI credits         *)
(* (internal/provider/copilot).  The quota GitHub enforces and the credits *)
(* that were used come from two requests, and the share of the credits     *)
(* from an allowance that token-burn only estimates.                       *)
(***************************************************************************)
EXTENDS Integers

CONSTANTS
  Snapshots,    \* the names of GitHub's quota_snapshots
  Shares,       \* of a quota that may be used, in percent
  Allowances,   \* the estimates, by plan, of the credits per month; none is 0
  MaxCredits    \* most credits used in a month

VARIABLES
  backing,   \* the quota that AI credits are taken from
  cutOff,    \* the quotas of which GitHub lets the account use no more
  credits,   \* used this month
  poll,      \* the poll in progress, or the last one
  latest     \* the samples of the newest observation, by window

account == <<backing, cutOff, credits>>
vars == <<account, poll, latest>>

Unset == -1
Windows == Snapshots \cup {"ai_credits"}
PiLogins == {"ok", "missing", "enterprise", "locked"}

\* The answer to the quota request.  A snapshot that is not there is one without
\* numbers; limit_reached, which follows at 100 percent and which an overage sets too,
\* is left out
Users ==
  [used : [Snapshots -> Shares \cup {Unset}], blocked : {cutOff},
   flagged : {F \in SUBSET Snapshots : IF F = {} THEN backing = "premium_interactions"
                                                 ELSE backing \in F},
   allowance : Allowances \cup {0}, tokenBased : BOOLEAN]

NoUser ==
  [used |-> [n \in Snapshots |-> Unset], blocked |-> {}, flagged |-> {}, allowance |-> 0,
   tokenBased |-> FALSE]

NoPoll == [pc |-> "idle", user |-> NoUser, ghMalformed |-> FALSE, cutOff |-> {}, result |-> "none"]

Init ==
  /\ backing \in Snapshots
  /\ cutOff = {}
  /\ credits = 0
  /\ poll = NoPoll
  /\ latest = [w \in Windows |-> Unset]

-----------------------------------------------------------------------------
(***************************************************************************)
(* GitHub, and the user.  What a poll shows is compared with GitHub's      *)
(* decision only when that has been the same since the poll began.         *)
(***************************************************************************)
Spend ==
  /\ backing \notin cutOff
  /\ credits < MaxCredits
  /\ credits' = credits + 1
  /\ UNCHANGED <<backing, cutOff, poll, latest>>

\* By a budget, a changed plan, or the end of the real allowance
CutOff ==
  /\ \E n \in Snapshots \ cutOff : cutOff' = cutOff \cup {n}
  /\ UNCHANGED <<backing, credits, poll, latest>>

NewMonth ==
  /\ credits > 0 \/ cutOff # {}
  /\ cutOff' = {}
  /\ credits' = 0
  /\ poll' = [poll EXCEPT !.cutOff = {}]
  /\ UNCHANGED <<backing, latest>>

-----------------------------------------------------------------------------
(***************************************************************************)
(* The windows of a snapshot                                               *)
(***************************************************************************)
Clamp(v) == IF v < 0 THEN 0 ELSE IF v > 100 THEN 100 ELSE v

\* Quota that is gone is shown as used, whatever else GitHub reports of it
WindowFromQuota(user, n) ==
  IF n \in user.blocked THEN 100
  ELSE IF user.used[n] = Unset THEN Unset ELSE Clamp(user.used[n])

\* The quotas that one of which is taken for that of the credits: any that is flagged,
\* in the order of a Go map
TokenBillingQuotas(user) ==
  IF user.flagged = {} THEN {"premium_interactions"} ELSE user.flagged

\* The share of the credits is at least 100 once their quota is gone; a plan without an
\* allowance has none
AICreditWindow(user, quota, used) ==
  LET percent == (used * 100) \div user.allowance
  IN  IF user.allowance = 0 THEN Unset
      ELSE Clamp(IF quota \in user.blocked /\ percent < 100 THEN 100 ELSE percent)

\* Of two windows of one name and time the first is stored
SnapshotWindows(user, share) ==
  [w \in Windows |->
     IF w \in Snapshots /\ WindowFromQuota(user, w) # Unset THEN WindowFromQuota(user, w)
     ELSE IF w = "ai_credits" THEN share ELSE Unset]

\* Mutant of LatestSamples: the latest sample of each window
LatestOfEach(windows) ==
  [w \in Windows |-> IF windows[w] = Unset THEN latest[w] ELSE windows[w]]

\* Only samples of the newest time are shown; a snapshot without windows stores none
LatestSamples(windows) == IF \A w \in Windows : windows[w] = Unset THEN latest ELSE windows

-----------------------------------------------------------------------------
(***************************************************************************)
(* Fetch.  The logins of gh and Pi may change at any time.                 *)
(***************************************************************************)
Begin ==
  /\ poll.pc = "idle"
  /\ poll' = [NoPoll EXCEPT !.pc = "gh", !.cutOff = cutOff]
  /\ UNCHANGED <<account, latest>>

Fails(result) ==
  /\ poll' = [poll EXCEPT !.pc = "idle", !.result = result]
  /\ UNCHANGED latest

\* The snapshot is stored, with the share of the credits or without.  Of the answer only
\* the flags are remembered
Succeeds(user, share) ==
  /\ poll' = [poll EXCEPT !.pc = "idle", !.user = [NoUser EXCEPT !.flagged = user.flagged],
                         !.result = "ok"]
  /\ latest' = LatestSamples(SnapshotWindows(user, share))

HasUser(user) ==
  IF user.tokenBased THEN poll' = [poll EXCEPT !.pc = "billing", !.user = user] /\ UNCHANGED latest
                     ELSE Succeeds(user, Unset)

RunGH ==
  /\ poll.pc = "gh"
  /\ \E user \in Users : HasUser(user)
  /\ UNCHANGED account

\* The CLI is missing or logged out, or the request fails, or its output is
\* not a user
GHFails ==
  /\ poll.pc = "gh"
  /\ \E malformed \in BOOLEAN : poll' = [poll EXCEPT !.pc = "pi", !.ghMalformed = malformed]
  /\ UNCHANGED <<account, latest>>

CopilotPiError(login) ==
  CASE login = "missing"    -> "auth_missing"
    [] login = "enterprise" -> "unsupported_account_shape"
    [] login = "locked"     -> "transient_http_failure"

ReadPi ==
  /\ poll.pc = "pi"
  /\ \/ poll' = [poll EXCEPT !.pc = "http"] /\ UNCHANGED latest
     \/ \E login \in PiLogins \ {"ok"} :
          Fails(IF poll.ghMalformed THEN "invalid_response" ELSE CopilotPiError(login))
  /\ UNCHANGED account

GetUser ==
  /\ poll.pc = "http"
  /\ \/ \E user \in Users : HasUser(user)
     \/ \E result \in {"auth_expired", "auth_missing", "rate_limited",
                       "transient_http_failure", "invalid_response"} : Fails(result)
  /\ UNCHANGED account

GetBilling ==
  /\ poll.pc = "billing"
  /\ \E quota \in TokenBillingQuotas(poll.user) :
       Succeeds(poll.user, AICreditWindow(poll.user, quota, credits))
  /\ UNCHANGED account

\* The snapshot is stored all the same
BillingFails ==
  /\ poll.pc = "billing"
  /\ Succeeds(poll.user, Unset)
  /\ UNCHANGED account

Next ==
  \/ Spend
  \/ CutOff
  \/ NewMonth
  \/ Begin
  \/ RunGH
  \/ GHFails
  \/ ReadPi
  \/ GetUser
  \/ GetBilling
  \/ BillingFails

Spec == Init /\ [][Next]_vars

-----------------------------------------------------------------------------
(***************************************************************************)
(* Properties                                                              *)
(***************************************************************************)
\* "`has_quota: false` [...] is surfaced as a 100%-used [...] window rather than
\* dropped, and it caps the `ai_credits` window" (docs/PROVIDERS.md:441): after a poll
\* that ran while GitHub had cut off a quota, that quota is shown as used up, and so are
\* the credits that are taken from it, unless they are not shown at all: whatever GitHub
\* reports of the quota, whatever the estimate of the allowance says, whatever an
\* earlier poll has stored and whether or not the second request is answered
CutOffShowsNoCapacity ==
  poll.pc = "idle" /\ poll.result = "ok" =>
    /\ \A n \in poll.cutOff : latest[n] = 100
    /\ backing \in poll.cutOff /\ "ai_credits" \notin Snapshots =>
         latest["ai_credits"] \in {Unset, 100}

\* The same while GitHub flags no quota but the one the credits are taken from; of
\* several, tokenBillingQuota takes any, whether it is cut off or not
\* (copilot.go:380)
CutOffShowsNoCapacityUnlessAmbiguous ==
  poll.user.flagged \subseteq {backing} => CutOffShowsNoCapacity
=============================================================================
