----------------------------- MODULE PiRefresh -----------------------------
(***************************************************************************)
(* The login that token-burn shares with Pi (provider/codex/codex.go,      *)
(* internal/oauthrefresh, internal/piauth): a poll reads the credential    *)
(* from auth.json, refreshes it ahead of expiry or after a 401, and writes *)
(* the rotated one back under the lock of the file.  Pi refreshes the same *)
(* credential, the user logs in again, the server revokes the login.       *)
(*                                                                         *)
(* The lock is exclusive here: this is what AuthLock shows of it as long   *)
(* as no owner is suspended into staleness.  Tokens are generations: each  *)
(* exchange of the refresh token issues the next generation and ends the   *)
(* use of the refresh token before.                                        *)
(***************************************************************************)
EXTENDS Naturals

CONSTANTS
  Pollers,      \* processes that poll: the daemon, `token-burn once`
  NoPoller,     \* nobody: the value of a free lock
  Lifetime,     \* expires_in of an access token
  Skew,         \* piRefreshSkew, 5 minutes
  Cooldown,     \* DefaultFailureCooldown, 30 minutes
  Horizon,      \* bound of the clock
  MaxGen,       \* bound of the generations
  MaxFaults     \* bound of lost answers, failed writes and crashes

ASSUME PiRefreshAssumption ==
  /\ NoPoller \notin Pollers
  /\ Lifetime \in Nat \ {0}
  /\ Skew \in Nat
  /\ Cooldown \in Nat
  /\ Horizon \in Nat /\ MaxGen \in Nat /\ MaxFaults \in Nat

VARIABLES
  now,       \* the clock
  grant,     \* the server: latest generation, first one not revoked
  file,      \* the credential in auth.json
  lock,      \* the process that holds the lock of auth.json
  pc,        \* where each process is in Fetch, "idle" between polls
  start,     \* observedAt of the poll, the only clock it looks at
  cred,      \* the credential the poll works with
  rotated,   \* what the exchange returned, before it is written
  forced,    \* refresh after a 401, not ahead of expiry
  dead,      \* FailureCache: generations this provider value remembers
  outcome,   \* what Fetch returned
  stranded,  \* history: a rotation never reached auth.json
  broken,    \* history: the login was unusable at some time of the poll
  refused,   \* history: the last exchange of a process that was refused
  faults

pollVars == <<pc, start, cred, rotated, forced, dead, outcome>>
vars == <<now, grant, file, lock, pollVars, stranded, broken, refused, faults>>

Gens == 0..MaxGen
Times == 0..(Horizon + Lifetime)
Credentials == [gen : Gens, iat : Times, exp : Times]
Locked == {"exchange", "persist"}
Waiting == {"read", "modify"}
Requests == {"fetch", "refetch"}
PcValues == {"idle"} \cup Waiting \cup Locked \cup Requests
Outcomes == {"", "ok", "auth_expired", "transient"}

\* The zero value of a credential
Unset == [gen |-> 0, iat |-> 0, exp |-> 0]

TypeOK ==
  /\ \A p \in Pollers : pc[p] \in Locked <=> lock = p
  /\ now \in 0..Horizon
  /\ grant \in [gen : Gens, revoked : 0..(MaxGen + 1)]
  /\ file \in Credentials
  /\ lock \in Pollers \cup {NoPoller}
  /\ pc \in [Pollers -> PcValues]
  /\ start \in [Pollers -> 0..Horizon]
  /\ cred \in [Pollers -> Credentials]
  /\ rotated \in [Pollers -> Credentials]
  /\ forced \in [Pollers -> BOOLEAN]
  /\ dead \in [Pollers -> SUBSET Gens]
  /\ outcome \in [Pollers -> Outcomes]
  /\ stranded \in BOOLEAN
  /\ broken \in [Pollers -> BOOLEAN]
  /\ refused \in [Pollers -> SUBSET [gen : Gens, at : 0..Horizon]]
  /\ faults \in 0..MaxFaults

-----------------------------------------------------------------------------
(* Lifetimes.  iat is the claim of the token, exp the stored expiry.        *)

Expired(t, c) == c.exp <= t

\* Inside the skew, or past half of the lifetime
NeedsRefresh(t, c) ==
  \/ c.exp <= t + Skew
  \/ c.exp > c.iat /\ t >= c.iat + (c.exp - c.iat) \div 2

\* grant.revoked is the first generation that is not revoked
Accepts(c) == c.gen >= grant.revoked /\ now < c.iat + Lifetime
Exchanges(c) == c.gen = grant.gen /\ c.gen >= grant.revoked

\* No refresh can succeed until the user has logged in again
LoginBroken == stranded \/ grant.gen < grant.revoked

-----------------------------------------------------------------------------
Init ==
  /\ now = 0
  /\ grant = [gen |-> 0, revoked |-> 0]
  /\ file = [gen |-> 0, iat |-> 0, exp |-> Lifetime]
  /\ lock = NoPoller
  /\ pc = [p \in Pollers |-> "idle"]
  /\ start = [p \in Pollers |-> 0]
  /\ cred = [p \in Pollers |-> Unset]
  /\ rotated = [p \in Pollers |-> Unset]
  /\ forced = [p \in Pollers |-> FALSE]
  /\ dead = [p \in Pollers |-> {}]
  /\ outcome = [p \in Pollers |-> ""]
  /\ stranded = FALSE
  /\ broken = [p \in Pollers |-> FALSE]
  /\ refused = [p \in Pollers |-> {}]
  /\ faults = 0

Goto(p, place) == pc' = [pc EXCEPT ![p] = place]

Return(p, what) ==
  /\ Goto(p, "idle")
  /\ outcome' = [outcome EXCEPT ![p] = what]

Fault ==
  /\ faults < MaxFaults
  /\ faults' = faults + 1

\* providerFor makes a provider value for every poll, with an empty cache.
\* A tick is the shortest time between two polls of a process.
Begin(p) ==
  /\ pc[p] = "idle"
  /\ now > start[p]
  /\ Goto(p, "read")
  /\ start' = [start EXCEPT ![p] = now]
  /\ forced' = [forced EXCEPT ![p] = FALSE]
  /\ dead' = [dead EXCEPT ![p] = {}]
  /\ cred' = [cred EXCEPT ![p] = Unset]
  /\ rotated' = [rotated EXCEPT ![p] = Unset]
  /\ outcome' = [outcome EXCEPT ![p] = ""]
  /\ UNCHANGED <<now, grant, file, lock, stranded, refused, faults>>

ReadCredential(p) ==
  /\ pc[p] = "read"
  /\ lock = NoPoller
  /\ cred' = [cred EXCEPT ![p] = file]
  /\ Goto(p, IF NeedsRefresh(start[p], file) THEN "modify" ELSE "fetch")
  /\ UNCHANGED <<now, grant, file, lock, start, rotated, forced, dead, outcome,
                 stranded, refused, faults>>

\* Mutant of RefreshFails: a failed refresh is tried again in the same poll
RefreshRetried(p, why) ==
  /\ Goto(p, IF ~forced[p] /\ ~Expired(start[p], cred[p]) THEN "fetch" ELSE "modify")
  /\ UNCHANGED outcome

\* What a refresh that failed means for the poll: ahead of expiry the old
\* access token is still good
RefreshFails(p, why) ==
  IF ~forced[p] /\ ~Expired(start[p], cred[p])
  THEN /\ Goto(p, "fetch")
       /\ UNCHANGED outcome
  ELSE Return(p, why)

\* The lock is not free in time
LockUnavailable(p) ==
  /\ pc[p] \in Waiting
  /\ lock # NoPoller
  /\ IF pc[p] = "read" THEN Return(p, "transient") ELSE RefreshFails(p, "transient")
  /\ UNCHANGED <<now, grant, file, lock, start, cred, rotated, forced, dead,
                 stranded, refused, faults>>

AfterRefresh(p) == IF forced[p] THEN "refetch" ELSE "fetch"

\* Mutant of ModifyUses: the poll goes on with the credential it had
ModifyKeeps(p) ==
  /\ pc[p] = "modify"
  /\ lock = NoPoller
  /\ file.gen # cred[p].gen
  /\ Goto(p, AfterRefresh(p))
  /\ UNCHANGED <<now, grant, file, lock, start, cred, rotated, forced, dead,
                 outcome, stranded, refused, faults>>

\* Modify's callback, up to the request: the credential under the lock is used
\* as it is when another process has replaced the one this poll has read
ModifyUses(p) ==
  /\ pc[p] = "modify"
  /\ lock = NoPoller
  /\ \/ file.gen # cred[p].gen
     \/ file.gen \notin dead[p] /\ ~forced[p] /\ ~NeedsRefresh(start[p], file)
  /\ cred' = [cred EXCEPT ![p] = file]
  /\ Goto(p, AfterRefresh(p))
  /\ UNCHANGED <<now, grant, file, lock, start, rotated, forced, dead, outcome,
                 stranded, refused, faults>>

ModifyGivesUp(p) ==
  /\ pc[p] = "modify"
  /\ lock = NoPoller
  /\ file.gen = cred[p].gen
  /\ file.gen \in dead[p]
  /\ RefreshFails(p, "auth_expired")
  /\ UNCHANGED <<now, grant, file, lock, start, cred, rotated, forced, dead,
                 stranded, refused, faults>>

\* Mutant of ModifyRefreshes: it does not take the lock
ModifyRefreshesUnlocked(p) ==
  /\ pc[p] = "modify"
  /\ file.gen = cred[p].gen
  /\ file.gen \notin dead[p]
  /\ Goto(p, "exchange")
  /\ UNCHANGED <<now, grant, file, lock, start, cred, rotated, forced, dead,
                 outcome, stranded, refused, faults>>

ModifyRefreshes(p) ==
  /\ pc[p] = "modify"
  /\ lock = NoPoller
  /\ file.gen = cred[p].gen
  /\ file.gen \notin dead[p]
  /\ forced[p] \/ NeedsRefresh(start[p], file)
  /\ lock' = p
  /\ Goto(p, "exchange")
  /\ UNCHANGED <<now, grant, file, start, cred, rotated, forced, dead, outcome,
                 stranded, refused, faults>>

\* Mutant of Release: the lock is kept
ReleaseForgotten(p) == UNCHANGED lock

Release(p) == lock' = IF lock = p THEN NoPoller ELSE lock

\* The stored expiry counts from observedAt, the claim from now
Issued(p) ==
  [gen |-> grant.gen + 1, iat |-> now, exp |-> start[p] + Lifetime]

ExchangeSucceeds(p) ==
  /\ pc[p] = "exchange"
  /\ Exchanges(cred[p])
  /\ grant.gen < MaxGen
  /\ grant' = [grant EXCEPT !.gen = @ + 1]
  /\ rotated' = [rotated EXCEPT ![p] = Issued(p)]
  /\ dead' = [dead EXCEPT ![p] = @ \ {cred[p].gen}]
  /\ Goto(p, "persist")
  /\ UNCHANGED <<now, file, lock, start, cred, forced, outcome, stranded,
                 refused, faults>>

\* Mutant of ExchangeRefused: the failure is not remembered
ExchangeRefusedForgotten(p) ==
  /\ pc[p] = "exchange"
  /\ ~Exchanges(cred[p])
  /\ refused' = [refused EXCEPT ![p] = {[gen |-> cred[p].gen, at |-> start[p]]}]
  /\ Release(p)
  /\ RefreshFails(p, "auth_expired")
  /\ UNCHANGED <<now, grant, file, start, cred, rotated, forced, dead, stranded,
                 faults>>

\* invalid_grant, invalid_state, 401 or 403: the refresh token is dead
ExchangeRefused(p) ==
  /\ pc[p] = "exchange"
  /\ ~Exchanges(cred[p])
  /\ dead' = [dead EXCEPT ![p] = @ \cup {cred[p].gen}]
  /\ refused' = [refused EXCEPT ![p] = {[gen |-> cred[p].gen, at |-> start[p]]}]
  /\ Release(p)
  /\ RefreshFails(p, "auth_expired")
  /\ UNCHANGED <<now, grant, file, start, cred, rotated, forced, stranded,
                 faults>>

\* The request fails before the server acts on it: 429, 5xx, no connection
ExchangeFails(p) ==
  /\ pc[p] = "exchange"
  /\ Release(p)
  /\ RefreshFails(p, "transient")
  /\ UNCHANGED <<now, grant, file, start, cred, rotated, forced, dead, stranded,
                 refused, faults>>

\* The server has rotated the grant, and the answer is lost or unusable
AnswerLost(p) ==
  /\ pc[p] = "exchange"
  /\ Exchanges(cred[p])
  /\ grant.gen < MaxGen
  /\ Fault
  /\ grant' = [grant EXCEPT !.gen = @ + 1]
  /\ stranded' = TRUE
  /\ Release(p)
  /\ RefreshFails(p, "transient")
  /\ UNCHANGED <<now, file, start, cred, rotated, forced, dead, refused>>

\* Mutant of Persist: the file is written after the lock is given back
PersistNothing(p) ==
  /\ pc[p] = "persist"
  /\ Release(p)
  /\ cred' = [cred EXCEPT ![p] = rotated[p]]
  /\ Goto(p, AfterRefresh(p))
  /\ UNCHANGED <<now, grant, file, start, rotated, forced, dead, outcome,
                 stranded, refused, faults>>

Persist(p) ==
  /\ pc[p] = "persist"
  /\ file' = rotated[p]
  /\ cred' = [cred EXCEPT ![p] = rotated[p]]
  /\ Release(p)
  /\ Goto(p, AfterRefresh(p))
  /\ UNCHANGED <<now, grant, start, rotated, forced, dead, outcome, stranded,
                 refused, faults>>

\* A step of persistCredential fails, or the lock is found lost before the
\* rename: the rotated credential is thrown away
PersistFails(p) ==
  /\ pc[p] = "persist"
  /\ Fault
  /\ stranded' = TRUE
  /\ Release(p)
  /\ RefreshFails(p, "transient")
  /\ UNCHANGED <<now, grant, file, start, cred, rotated, forced, dead, refused>>

\* The file is replaced, but the chmod after the rename fails
ChmodFails(p) ==
  /\ pc[p] = "persist"
  /\ Fault
  /\ file' = rotated[p]
  /\ Release(p)
  /\ RefreshFails(p, "transient")
  /\ UNCHANGED <<now, grant, start, cred, rotated, forced, dead, stranded, refused>>

FetchSucceeds(p) ==
  /\ pc[p] \in Requests
  /\ Accepts(cred[p])
  /\ Return(p, "ok")
  /\ UNCHANGED <<now, grant, file, lock, start, cred, rotated, forced, dead,
                 stranded, refused, faults>>

\* The first 401 forces a refresh, the second one ends the poll
FetchUnauthorized(p) ==
  /\ pc[p] \in Requests
  /\ ~Accepts(cred[p])
  /\ IF pc[p] = "fetch"
     THEN /\ Goto(p, "modify")
          /\ forced' = [forced EXCEPT ![p] = TRUE]
          /\ UNCHANGED outcome
     ELSE /\ Return(p, "auth_expired")
          /\ UNCHANGED forced
  /\ UNCHANGED <<now, grant, file, lock, start, cred, rotated, dead, stranded,
                 refused, faults>>

FetchFails(p) ==
  /\ pc[p] \in Requests
  /\ Return(p, "transient")
  /\ UNCHANGED <<now, grant, file, lock, start, cred, rotated, forced, dead,
                 stranded, refused, faults>>

\* The process is killed; its lock is taken away once it is stale
Crash(p) ==
  /\ pc[p] # "idle"
  /\ Fault
  /\ stranded' = (stranded \/ pc[p] = "persist")
  /\ Release(p)
  /\ Return(p, "transient")
  /\ UNCHANGED <<now, grant, file, start, cred, rotated, forced, dead, refused>>

-----------------------------------------------------------------------------
(* Pi, the user and the server.                                             *)

\* Pi exchanges and writes under the same lock
PiRefreshes ==
  /\ lock = NoPoller
  /\ Exchanges(file)
  /\ grant.gen < MaxGen
  /\ grant' = [grant EXCEPT !.gen = @ + 1]
  /\ file' = [gen |-> grant.gen + 1, iat |-> now, exp |-> now + Lifetime]
  /\ UNCHANGED <<now, lock, pollVars, stranded, refused, faults>>

\* /login in Pi: a new grant
Login ==
  /\ lock = NoPoller
  /\ grant.gen < MaxGen
  /\ grant' = [grant EXCEPT !.gen = @ + 1]
  /\ file' = [gen |-> grant.gen + 1, iat |-> now, exp |-> now + Lifetime]
  /\ stranded' = FALSE
  /\ UNCHANGED <<now, lock, pollVars, refused, faults>>

Revoke ==
  /\ grant.gen >= grant.revoked
  /\ grant' = [grant EXCEPT !.revoked = grant.gen + 1]
  /\ UNCHANGED <<now, file, lock, pollVars, stranded, refused, faults>>

\* A poll takes a minute, a tick is longer
Tick ==
  /\ now < Horizon
  /\ \A p \in Pollers : pc[p] # "idle" => now = start[p]
  /\ now' = now + 1
  /\ UNCHANGED <<grant, file, lock, pollVars, stranded, refused, faults>>

-----------------------------------------------------------------------------
Refresh(p) ==
  \/ ModifyUses(p) \/ ModifyGivesUp(p) \/ ModifyRefreshes(p)
  \/ ExchangeSucceeds(p) \/ ExchangeRefused(p) \/ ExchangeFails(p)
  \/ AnswerLost(p) \/ Persist(p) \/ PersistFails(p) \/ ChmodFails(p)

Poll(p) ==
  \/ ReadCredential(p) \/ LockUnavailable(p) \/ Refresh(p)
  \/ FetchSucceeds(p) \/ FetchUnauthorized(p) \/ FetchFails(p)

Step ==
  \/ \E p \in Pollers : Begin(p) \/ Poll(p) \/ Crash(p)
  \/ PiRefreshes \/ Login \/ Revoke \/ Tick

\* A poll is marked as soon as the login is broken while it is under way
Observe ==
  broken' = [p \in Pollers |->
    pc'[p] # "idle" /\ (LoginBroken' \/ (pc[p] # "idle" /\ broken[p]))]

Next == Step /\ Observe

Spec == Init /\ [][Next]_vars

\* The process runs on; requests and the wait for the lock have timeouts
FairSpec == Spec /\ \A p \in Pollers : WF_vars(Poll(p) /\ Observe)

-----------------------------------------------------------------------------
(* Properties.                                                              *)

\* auth.json holds the refresh token the server accepts, or the process that
\* exchanged it is about to write the next one under the lock; otherwise a
\* rotation was lost by a crash, a lost answer or a failed write.  So neither
\* Pi nor token-burn presents a refresh token that another has used up
FileHoldsLatest ==
  stranded
  \/ file.gen = grant.gen
  \/ \E p \in Pollers : pc[p] = "persist" /\ rotated[p].gen = grant.gen

\* A credential is replaced only by a later one: no process writes back what
\* Pi, the user's login or the other process has replaced in the meantime
NeverGoesBack ==
  [][file' # file => file'.gen > file.gen]_vars

\* Fetch reports auth_expired, which tells the user to log in again, only if
\* the login was broken at some time of that poll: neither a race with the
\* other process or Pi nor a failed early refresh looks like a dead login
AuthExpiredIsTrue ==
  [][\A p \in Pollers :
       pc[p] # "idle" /\ pc'[p] = "idle" /\ outcome'[p] = "auth_expired"
         => broken[p]]_vars

\* A poll whose early refresh is refused does not post the same refresh token
\* again when its usage request then fails with a 401
RefusedOncePerPoll ==
  \A p \in Pollers : pc[p] = "exchange" =>
    \A r \in refused[p] : r.gen = cred[p].gen => r.at < start[p]

\* "The same dead refresh token is not POSTed again for 30 minutes"
\* (docs/PROVIDERS.md), here by the same process
RefusedOncePerCooldown ==
  \A p \in Pollers : pc[p] = "exchange" =>
    \A r \in refused[p] : r.gen = cred[p].gen => start[p] >= r.at + Cooldown

\* Between the exchange and the write the lock keeps the rotation from everybody
\* else, so that outside they seem to be one step
Shared == INSTANCE SharedLogin WITH
  issued <- IF \E p \in Pollers : pc[p] = "persist" THEN grant.gen - 1 ELSE grant.gen,
  held <- file.gen,
  lost <- stranded

\* However the processes, Pi and the user interleave, the file behaves as one that
\* only atomic rotations, losses and logins change: the lock, the second look at
\* the credential and the write before the release are enough for that
ImplementsSharedLogin == Shared!Spec

\* A poll returns, whatever happens to the lock, the login and the other process
PollEnds ==
  \A p \in Pollers : (pc[p] # "idle") ~> (pc[p] = "idle")
=============================================================================
