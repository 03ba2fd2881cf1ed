---------------------------- MODULE Antigravity ----------------------------
(***************************************************************************)
(* A poll of an Antigravity account (internal/provider/antigravity).  The  *)
(* login belongs to Antigravity and `agy`, which keep it in several places *)
(* and refresh it on their own; token-burn tries what it finds in turn,    *)
(* and mints access tokens from the refresh token when it has to.  The     *)
(* refresh token does not rotate.  A step is one HTTP request, or one step *)
(* of another program.                                                     *)
(***************************************************************************)
EXTENDS Naturals, Sequences, Functions

CONSTANTS
  Lifetime,    \* of an access token
  Clients,     \* whether OAuth client credentials are configured: the cases
  MaxTokens,   \* most access tokens issued
  MaxLogins,   \* most logins
  Horizon      \* the last instant looked at

VARIABLES
  now,
  client,   \* OAuth client credentials are configured
  grant,    \* the refresh token Google accepts
  issued,   \* when each access token ends
  place,    \* the login in each place
  poll      \* the poll in progress

google == <<grant, issued>>
vars == <<now, client, google, place, poll>>

\* In the order in which a poll tries them
Places == <<"state_db", "cli", "keychain", "cache">>

NoLogin == [access |-> 0, refresh |-> 0, expiry |-> 0]
Login(a, r, e) == [access |-> a, refresh |-> r, expiry |-> e]

NoPoll ==
  [pc |-> "idle", read |-> [p \in Range(Places) |-> NoLogin], candidates |-> {},
   token |-> NoLogin, observed |-> 0, retried |-> FALSE, sawAuthExpired |-> FALSE,
   lastErr |-> "none", disturbed |-> FALSE, ticked |-> FALSE, result |-> "none"]

Init ==
  /\ now = 1
  /\ client \in Clients
  /\ grant = 0
  /\ issued = <<>>
  /\ place = [p \in Range(Places) |-> NoLogin]
  /\ poll = NoPoll

-----------------------------------------------------------------------------
(***************************************************************************)
(* Google, Antigravity and `agy`                                           *)
(***************************************************************************)
Accepted(access) == access \in DOMAIN issued /\ issued[access] > now

NewToken == Len(issued) + 1

\* The vendor's program has a new access token, and writes it where it keeps it
Writes(program, access, g) ==
  place' = CASE program = "ide" -> [place EXCEPT !["state_db"] = Login(access, g, now + Lifetime)]
             [] program = "agy" -> [place EXCEPT !["cli"] = Login(access, g, now + Lifetime),
                                                 !["keychain"] = Login(access, g, 0)]

VendorRefreshes(program) ==
  /\ grant > 0
  /\ Len(issued) < MaxTokens
  /\ issued' = Append(issued, now + Lifetime)
  /\ Writes(program, NewToken, grant)
  /\ UNCHANGED <<now, client, grant, poll>>

\* A new login ends the one before
VendorLogsIn(program) ==
  /\ grant < MaxLogins
  /\ Len(issued) < MaxTokens
  /\ grant' = grant + 1
  /\ issued' = Append([i \in DOMAIN issued |-> 0], now + Lifetime)
  /\ Writes(program, NewToken, grant + 1)
  /\ UNCHANGED <<now, client, poll>>

\* A poll is much shorter than the life of an access token
Tick ==
  /\ now < Horizon
  /\ poll.pc # "idle" => ~poll.ticked
  /\ now' = now + 1
  /\ poll' = IF poll.pc = "idle" THEN poll ELSE [poll EXCEPT !.ticked = TRUE]
  /\ UNCHANGED <<client, google, place>>

-----------------------------------------------------------------------------
(***************************************************************************)
(* Fetch                                                                   *)
(***************************************************************************)
\* dedupeTokens: two logins with the same access token are one, and so are
\* two without an access token and with the same refresh token
Key(l) == IF l.access # 0 THEN <<"access", l.access>> ELSE <<"refresh", l.refresh>>

\* Only the places of `agy` may hold a refresh token alone
Found(p) == place[p].access # 0 \/ (p \in {"cli", "keychain"} /\ place[p].refresh # 0)

\* What a poll reads, in its order and without what it has already
TokenCandidates ==
  { i \in 1..4 :
      /\ Found(Places[i])
      /\ \A j \in 1..(i-1) : Found(Places[j]) => Key(place[Places[j]]) # Key(place[Places[i]]) }

Idle(result) == [poll EXCEPT !.pc = "idle", !.result = result]

\* A place that exists and cannot be read ends the poll
Begin ==
  /\ poll.pc = "idle"
  /\ \/ poll' = [NoPoll EXCEPT !.pc = "token", !.observed = now,
                               !.read = place, !.candidates = TokenCandidates]
     \/ poll' = [NoPoll EXCEPT !.result = "unreadable", !.disturbed = TRUE]
  /\ UNCHANGED <<now, client, google, place>>

Expired(l) == l.expiry > 0 /\ l.expiry <= poll.observed

NextToken ==
  /\ poll.pc = "token"
  /\ \E i \in poll.candidates :
       LET l == poll.read[Places[i]]
       IN  /\ \A j \in poll.candidates : i <= j
           /\ poll' = [poll EXCEPT !.pc = IF Expired(l) THEN "refresh" ELSE "fetch",
                                   !.candidates = @ \ {i}, !.token = l, !.retried = FALSE]
  /\ UNCHANGED <<now, client, google, place>>

NoMoreTokens ==
  /\ poll.pc = "token"
  /\ poll.candidates = {}
  /\ poll' = Idle(IF poll.sawAuthExpired THEN "auth_expired"
                  ELSE IF poll.lastErr # "none" THEN poll.lastErr ELSE "auth_missing")
  /\ UNCHANGED <<now, client, google, place>>

\* callCloudCode: the answers of the two servers to a method; the second one
\* is asked only when the first fails for a reason of its own
Call(first, second) ==
  CASE first \in {"ok", "empty", "auth_expired", "rate_limited"} -> first
    [] first = "no_answer" -> "transient"
    [] OTHER -> IF second \in {"no_answer", "server_error"} THEN "transient" ELSE second

\* fetchSnapshot: loadCodeAssist names the project (or none: empty), whose
\* quotas retrieveUserQuotaSummary lists (or none); else fetchAvailableModels
SnapshotOutcome(info, summary, models) ==
  LET final == {"auth_expired", "rate_limited"}
  IN  IF info \in final THEN info
      ELSE IF info = "ok" /\ summary \in final \cup {"ok"} THEN summary
      ELSE IF models = "empty" THEN "ok" ELSE models

\* What a server may answer to an access token, and what else may happen
Answers(access, well) ==
  (IF Accepted(access) THEN {"ok", "empty"} ELSE {"auth_expired"})
    \cup (IF well THEN {} ELSE {"rate_limited", "server_error", "no_answer"})

Outcomes(access, well) ==
  LET calls == { Call(a, b) : a, b \in Answers(access, well) }
  IN  { SnapshotOutcome(i, s, m) : i, s, m \in calls }

FetchSnapshot ==
  /\ poll.pc = "fetch"
  /\ \E well \in BOOLEAN, outcome \in Outcomes(poll.token.access, TRUE)
                                       \cup Outcomes(poll.token.access, FALSE) :
       /\ outcome \in Outcomes(poll.token.access, well)
       /\ poll' =
            LET p == [poll EXCEPT !.disturbed = @ \/ ~well]
            IN  CASE outcome = "ok" ->
                       [p EXCEPT !.pc = "idle", !.result = "ok"]
                  [] outcome = "auth_expired" /\ ~poll.retried ->
                       [p EXCEPT !.pc = "refresh", !.retried = TRUE]
                  [] OTHER ->
                       [p EXCEPT !.pc = "token", !.lastErr = outcome]
  /\ UNCHANGED <<now, client, google, place>>

\* Mutant of RefreshFails: the first refusal ends the poll
RefreshFailsForGood(reason, disturbed) ==
  poll' = [poll EXCEPT !.pc = "token", !.candidates = {}, !.sawAuthExpired = TRUE,
                       !.disturbed = @ \/ disturbed]

\* A refresh that fails counts as an expired login, whatever the reason
RefreshFails(reason, disturbed) ==
  poll' = [poll EXCEPT !.pc = "token", !.sawAuthExpired = TRUE, !.lastErr = reason,
                       !.disturbed = @ \/ disturbed]

\* refreshToken, without anything to ask for, or with a refusal
RefreshRefused ==
  /\ poll.pc = "refresh"
  /\ ~client \/ poll.token.refresh # grant \/ grant = 0
  /\ RefreshFails("auth_expired", FALSE)
  /\ UNCHANGED <<now, client, google, place>>

RefreshLost ==
  /\ poll.pc = "refresh"
  /\ client
  /\ poll.token.refresh # 0
  /\ RefreshFails("transient", TRUE)
  /\ UNCHANGED <<now, client, google, place>>

\* The new access token goes to token-burn's own cache
RefreshSucceeds ==
  /\ poll.pc = "refresh"
  /\ client
  /\ poll.token.refresh = grant
  /\ grant > 0
  /\ Len(issued) < MaxTokens
  /\ issued' = Append(issued, now + Lifetime)
  /\ place' = [place EXCEPT !["cache"] = Login(NewToken, 0, poll.observed + Lifetime)]
  /\ poll' = [poll EXCEPT !.pc = "fetch",
                          !.token = Login(NewToken, @.refresh, poll.observed + Lifetime)]
  /\ UNCHANGED <<now, client, grant>>

Next ==
  \/ \E program \in {"ide", "agy"} : VendorRefreshes(program) \/ VendorLogsIn(program)
  \/ Tick
  \/ Begin
  \/ NextToken
  \/ NoMoreTokens
  \/ FetchSnapshot
  \/ RefreshRefused
  \/ RefreshLost
  \/ RefreshSucceeds

Spec == Init /\ [][Next]_vars

-----------------------------------------------------------------------------
(***************************************************************************)
(* Properties                                                              *)
(***************************************************************************)
\* A login that works: its access token is good and says so, or its refresh
\* token is good and can be used
Works(l) ==
  \/ Accepted(l.access) /\ ~Expired(l)
  \/ client /\ grant > 0 /\ l.refresh = grant

\* A poll that nothing has disturbed finds the login that works, in whatever
\* place it is, behind whatever logins that do not, and however the vendor's
\* programs rewrite them meanwhile: it does not report an expired or missing
\* login, and does not make the daemon run `agy models`, while one is there
WorkingLoginFound ==
  poll.pc = "idle" /\ poll.result \in {"auth_expired", "auth_missing", "transient"}
    /\ ~poll.disturbed
      => \A p \in Range(Places) : ~Works(poll.read[p])

=============================================================================
