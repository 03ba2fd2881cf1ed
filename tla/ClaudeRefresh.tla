--------------------------- MODULE ClaudeRefresh ---------------------------
(***************************************************************************)
(* The login that token-burn shares with Claude Code                       *)
(* (provider/claude/claude.go, refresh.go, credentials.go).  A poll tries  *)
(* the logins of several sources, refreshes one that is about to expire or *)
(* was refused, and writes the rotation back to its source.  There is no   *)
(* lock: the source is read again before it is replaced.  Claude Code      *)
(* refreshes the login of one source, the user logs in again, the server   *)
(* revokes a login.                                                        *)
(*                                                                         *)
(* A credential is known by its login and its generation: every exchange   *)
(* of the refresh token issues the next generation and ends the one before.*)
(***************************************************************************)
EXTENDS Naturals

CONSTANTS
  Pollers,      \* processes that poll: the daemon, `token-burn once`
  Custom, Home, \* credentials_file of the account, ~/.claude/.credentials.json
  Keychain, Env,\* the macOS item, CLAUDE_CODE_OAUTH_TOKEN
  NoSource,     \* no source is being tried
  Setups,       \* contents of the sources at the start, and the logins that live
  Lifetime,     \* expires_in of an access token
  Skew,         \* refreshSkew, 5 minutes
  Horizon,      \* bound of the clock
  MaxLogin,     \* bound of the logins
  MaxGen,       \* bound of the generations
  MaxFaults     \* bound of lost answers, failed writes and crashes

Files == {Custom, Home}
Sources == {Custom, Home, Keychain, Env}
Logins == 0..MaxLogin
Gens == 0..MaxGen
Times == 0..(Horizon + Lifetime)

\* exp is the stored expiry, 0 when there is none; until is the server's
Credentials ==
  [present : BOOLEAN, refresh : BOOLEAN, login : Logins, gen : Gens,
   exp : Times, until : Times]

Absent ==
  [present |-> FALSE, refresh |-> FALSE, login |-> 0, gen |-> 0, exp |-> 0, until |-> 0]

\* Every setup holds logins of generation 0, and a refresh token only in a login; an environment token and a bare
\* keychain secret have no refresh token
ASSUME ClaudeAssumption ==
  /\ Lifetime \in Nat \ {0} /\ Skew \in Nat /\ Horizon \in Nat
  /\ MaxLogin \in Nat /\ MaxGen \in Nat /\ MaxFaults \in Nat
  /\ Custom # Home /\ Keychain \notin Files /\ Env \notin Files /\ Env # Keychain
  /\ NoSource \notin Sources
  /\ Setups \subseteq [holds : [Sources -> Credentials], live : SUBSET Logins]
  /\ \A f \in Setups :
       /\ \A s \in Sources : /\ f.holds[s].gen = 0 /\ f.holds[s].login # MaxLogin
                             /\ f.holds[s].refresh => f.holds[s].present
       /\ ~f.holds[Env].refresh /\ MaxLogin \notin f.live

VARIABLES
  now,       \* the clock
  grant,     \* the server: the generation of each login whose refresh token lives
  live,      \* the server: logins that are not revoked
  source,    \* the credential in each source
  claude,    \* what Claude Code has exchanged and not yet written
  pc,        \* where each poll is in Fetch, "idle" between polls
  start,     \* observedAt of the poll, the only clock it looks at
  seen,      \* the files as they were read when the poll began, and the keychain
             \* as it was read after all of them
  tried,     \* the sources this poll has given up
  cur, cred, \* the source being tried and its credential
  mode,      \* its refresh: none yet, ahead of expiry, or after a 401
  rotated,   \* what the exchange returned, before it is written
  outcome,   \* what Fetch returned
  gone,      \* history: logins whose latest token was lost by a fault or replaced by the user
  raced,     \* history: a login slipped in between the second read and the write
  steady,    \* history: sources that have been good and untouched during the poll
  excused,   \* history: sources given up for a 401 although they could be refreshed
  faults

locals == <<seen, tried, cur, cred, mode, rotated, outcome>>
pollVars == <<pc, start, locals>>
server == <<grant, live>>
vars == <<now, server, source, claude, pollVars, gone, raced, steady, excused, faults>>

Requests == {"fetch", "refetch"}
Writing == {"reread", "rename"}
PcValues == {"idle", "try", "exchange"} \cup Requests \cup Writing
Outcomes == {"", "ok", "auth_expired", "auth_missing", "other"}

TypeOK ==
  /\ now \in 0..Horizon
  /\ grant \in [Logins -> Gens]
  /\ live \in SUBSET Logins
  /\ source \in [Sources -> Credentials]
  /\ claude \in Credentials
  /\ pc \in [Pollers -> PcValues]
  /\ start \in [Pollers -> 0..Horizon]
  /\ seen \in [Pollers -> [Sources -> Credentials]]
  /\ tried \in [Pollers -> SUBSET Sources]
  /\ cur \in [Pollers -> Sources \cup {NoSource}]
  /\ cred \in [Pollers -> Credentials]
  /\ mode \in [Pollers -> {"none", "early", "forced"}]
  /\ rotated \in [Pollers -> Credentials]
  /\ outcome \in [Pollers -> Outcomes]
  /\ gone \in SUBSET Logins
  /\ raced \in BOOLEAN
  /\ steady \in [Pollers -> SUBSET Sources]
  /\ excused \in [Pollers -> SUBSET Sources]
  /\ faults \in 0..MaxFaults
  /\ \A p \in Pollers : pc[p] \in Requests \cup Writing \cup {"exchange"} =>
       /\ cur[p] \in Sources
       /\ pc[p] \in Writing \cup {"exchange"} => cur[p] # Env /\ cred[p].refresh

-----------------------------------------------------------------------------
(* Credentials.                                                             *)

Expired(t, c) == c.exp > 0 /\ c.exp <= t
NeedsRefresh(t, c) == c.exp > 0 /\ c.exp <= t + Skew

\* Mutant of CanRefresh: every login is taken for one of OAuth
CanRefreshAlways(s, c) == TRUE

CanRefresh(s, c) == c.refresh /\ s # Env

\* credential.Access is compared, which is new with every exchange
SameAccess(c, d) == c.present /\ c.login = d.login /\ c.gen = d.gen

Accepts(c) == c.login \in live /\ now < c.until
Exchanges(c) == c.refresh /\ c.login \in live /\ c.gen = grant[c.login]

\* On macOS Claude Code keeps its login in the keychain
ClaudeCode == IF source[Keychain].present THEN Keychain ELSE Home

\* A poll that tries it can be answered
Good(c) == c.present /\ IF c.refresh THEN Exchanges(c) ELSE Accepts(c)

\* collectCredentials: the environment shuts out every other source
Readable(f) == {s \in Files : f[s].present}
Listed(f) == IF f[Env].present THEN {Env} ELSE Readable(f)

\* freshest expiry first; the sort is stable and the custom file is read first
Freshest(f, rest) ==
  CHOOSE s \in rest : \A t \in rest \ {s} :
    f[s].exp > f[t].exp \/ (f[s].exp = f[t].exp /\ s = Custom)

-----------------------------------------------------------------------------
Init ==
  /\ now = 0
  /\ \E f \in Setups : source = f.holds /\ live = f.live
  /\ grant = [l \in Logins |-> 0]
  /\ claude = Absent
  /\ pc = [p \in Pollers |-> "idle"]
  /\ start = [p \in Pollers |-> 0]
  /\ seen = [p \in Pollers |-> [s \in Sources |-> Absent]]
  /\ tried = [p \in Pollers |-> {}]
  /\ cur = [p \in Pollers |-> NoSource]
  /\ cred = [p \in Pollers |-> Absent]
  /\ mode = [p \in Pollers |-> "none"]
  /\ rotated = [p \in Pollers |-> Absent]
  /\ outcome = [p \in Pollers |-> ""]
  /\ gone = {l \in Logins : \A s \in Sources : ~(source[s].refresh /\ source[s].login = l)}
  /\ raced = FALSE
  /\ steady = [p \in Pollers |-> {}]
  /\ excused = [p \in Pollers |-> {}]
  /\ faults = 0

Goto(p, place) == pc' = [pc EXCEPT ![p] = place]

\* The local variables of Fetch end with it
Return(p, what) ==
  /\ Goto(p, "idle")
  /\ outcome' = [outcome EXCEPT ![p] = what]
  /\ seen' = [seen EXCEPT ![p] = [s \in Sources |-> Absent]]
  /\ tried' = [tried EXCEPT ![p] = {}]
  /\ cur' = [cur EXCEPT ![p] = NoSource]
  /\ cred' = [cred EXCEPT ![p] = Absent]
  /\ mode' = [mode EXCEPT ![p] = "none"]
  /\ rotated' = [rotated EXCEPT ![p] = Absent]

Fault ==
  /\ faults < MaxFaults
  /\ faults' = faults + 1

Begin(p) ==
  /\ pc[p] = "idle"
  /\ outcome[p] = "" \/ now > start[p]
  /\ Goto(p, "try")
  /\ start' = [start EXCEPT ![p] = now]
  /\ seen' = [seen EXCEPT ![p] = [source EXCEPT ![Keychain] = Absent]]
  /\ outcome' = [outcome EXCEPT ![p] = ""]
  /\ UNCHANGED <<now, server, source, claude, tried, cur, cred, mode, rotated, gone,
                 raced, excused, faults>>

\* fetchWithCredential, up to the first request
Try(p, s, c) ==
  LET due == CanRefresh(s, c) /\ NeedsRefresh(start[p], c)
  IN /\ cur' = [cur EXCEPT ![p] = s]
     /\ cred' = [cred EXCEPT ![p] = c]
     /\ mode' = [mode EXCEPT ![p] = IF due THEN "early" ELSE "none"]
     /\ Goto(p, IF due THEN "exchange" ELSE "fetch")
     /\ UNCHANGED <<now, server, source, claude, start, tried, rotated, outcome,
                    gone, raced, excused, faults>>

TryNext(p) ==
  LET rest == Listed(seen[p]) \ tried[p]
  IN /\ pc[p] = "try"
     /\ rest # {}
     /\ LET s == Freshest(seen[p], rest) IN Try(p, s, seen[p][s])
     /\ UNCHANGED seen

\* Every file login is dead, or there is none
FilesExhausted(p) == pc[p] = "try" /\ Listed(seen[p]) \subseteq tried[p]

\* The keychain is read only now.  Without a file its login is the first of the
\* list, and it is read once more when that has been rejected
TryKeychain(p) ==
  /\ FilesExhausted(p)
  /\ ~seen[p][Env].present
  /\ ~seen[p][Keychain].present
  /\ source[Keychain].present
  /\ Try(p, Keychain, source[Keychain])
  /\ seen' = IF tried[p] = {} THEN seen
             ELSE [seen EXCEPT ![p][Keychain] = source[Keychain]]

GiveUp(p) ==
  /\ FilesExhausted(p)
  /\ seen[p][Env].present \/ seen[p][Keychain].present \/ ~source[Keychain].present
  /\ Return(p, IF tried[p] = {} THEN "auth_missing" ELSE "auth_expired")
  /\ excused' = [excused EXCEPT ![p] = {}]
  /\ UNCHANGED <<now, server, source, claude, start, gone, raced, faults>>

\* Mutant of Reject: the first dead login ends the poll
RejectEndsPoll(p) == Return(p, "auth_expired")

\* This login is dead: the next source is tried
Reject(p) ==
  /\ Goto(p, "try")
  /\ tried' = [tried EXCEPT ![p] = @ \cup {cur[p]}]
  /\ cur' = [cur EXCEPT ![p] = NoSource]
  /\ cred' = [cred EXCEPT ![p] = Absent]
  /\ mode' = [mode EXCEPT ![p] = "none"]
  /\ rotated' = [rotated EXCEPT ![p] = Absent]
  /\ UNCHANGED <<outcome, seen>>

\* What a failed refresh means: ahead of expiry the old token is still good, an
\* expired login is judged by the error of the refresh, after a 401 the 401 stands
RefreshFails(p, dead) ==
  /\ CASE mode[p] = "forced" -> Reject(p)
       [] mode[p] = "early" /\ ~Expired(start[p], cred[p]) ->
            Goto(p, "fetch") /\ UNCHANGED locals
       [] OTHER -> IF dead THEN Reject(p) ELSE Return(p, "other")
  /\ excused' = [excused EXCEPT ![p] =
       IF pc'[p] = "idle" THEN {}
       ELSE IF mode[p] = "forced" /\ ~dead THEN @ \cup {cur[p]} ELSE @]

\* The stored expiry counts from observedAt
Issued(p) ==
  [cred[p] EXCEPT !.gen = grant[cred[p].login] + 1, !.exp = start[p] + Lifetime,
                  !.until = now + Lifetime]

Rotate(l) ==
  /\ grant[l] < MaxGen
  /\ grant' = [grant EXCEPT ![l] = @ + 1]

ExchangeSucceeds(p) ==
  /\ pc[p] = "exchange"
  /\ Exchanges(cred[p])
  /\ Rotate(cred[p].login)
  /\ rotated' = [rotated EXCEPT ![p] = Issued(p)]
  /\ Goto(p, "reread")
  /\ UNCHANGED <<now, live, source, claude, start, seen, tried, cur, cred, mode,
                 outcome, gone, raced, excused, faults>>

\* 401, 403, or a 400 that names the refresh token
ExchangeRefused(p) ==
  /\ pc[p] = "exchange"
  /\ ~Exchanges(cred[p])
  /\ RefreshFails(p, TRUE)
  /\ UNCHANGED <<now, server, source, claude, start, gone, raced, faults>>

\* 429, 5xx, another 400, no connection: the server has not acted
ExchangeFails(p) ==
  /\ pc[p] = "exchange"
  /\ RefreshFails(p, FALSE)
  /\ UNCHANGED <<now, server, source, claude, start, gone, raced, faults>>

\* The server has rotated, and the answer is lost or unusable
AnswerLost(p) ==
  /\ pc[p] = "exchange"
  /\ Exchanges(cred[p])
  /\ Fault
  /\ Rotate(cred[p].login)
  /\ gone' = gone \cup {cred[p].login}
  /\ RefreshFails(p, FALSE)
  /\ UNCHANGED <<now, live, source, claude, start, raced>>

\* Mutant of Reread: the source is replaced without another look
RereadSkipped(p) ==
  /\ pc[p] = "reread"
  /\ Goto(p, "rename")
  /\ UNCHANGED <<now, server, source, claude, start, seen, tried, cur, cred, mode,
                 rotated, outcome, gone, raced, excused, faults>>

\* persistToFile and persistToKeychain, up to the write
Reread(p) ==
  /\ pc[p] = "reread"
  /\ IF SameAccess(source[cur[p]], cred[p])
     THEN Goto(p, "rename") /\ UNCHANGED <<locals, excused>>
     ELSE RefreshFails(p, FALSE)
  /\ UNCHANGED <<now, server, source, claude, start, gone, raced, faults>>

\* Mutant of Rename: the rotation is used in memory only
RenameForgotten(p) ==
  /\ pc[p] = "rename"
  /\ cred' = [cred EXCEPT ![p] = rotated[p]]
  /\ Goto(p, IF mode[p] = "forced" THEN "refetch" ELSE "fetch")
  /\ UNCHANGED <<now, server, source, claude, start, seen, tried, cur, mode, rotated,
                 outcome, gone, raced, excused, faults>>

Rename(p) ==
  /\ pc[p] = "rename"
  /\ source' = [source EXCEPT ![cur[p]] = rotated[p]]
  /\ cred' = [cred EXCEPT ![p] = rotated[p]]
  /\ rotated' = [rotated EXCEPT ![p] = Absent]
  /\ Goto(p, IF mode[p] = "forced" THEN "refetch" ELSE "fetch")
  /\ UNCHANGED <<now, server, claude, start, seen, tried, cur, mode, outcome, gone,
                 raced, excused, faults>>

\* The temporary file or the write fails; a keychain item is put back as it was read
WriteFails(p) ==
  /\ pc[p] \in Writing
  /\ Fault
  /\ source' = IF cur[p] = Keychain /\ pc[p] = "rename"
               THEN [source EXCEPT ![Keychain] = cred[p]] ELSE source
  /\ gone' = gone \cup {cred[p].login}
  /\ RefreshFails(p, FALSE)
  /\ UNCHANGED <<now, server, claude, start, raced>>

FetchSucceeds(p) ==
  /\ pc[p] \in Requests
  /\ Accepts(cred[p])
  /\ Return(p, "ok")
  /\ excused' = [excused EXCEPT ![p] = {}]
  /\ UNCHANGED <<now, server, source, claude, start, gone, raced, faults>>

\* A 401 forces a refresh unless one was attempted or none is possible.  The
\* server may refuse an access token whose login was refreshed elsewhere
FetchUnauthorized(p) ==
  /\ pc[p] \in Requests
  /\ ~Accepts(cred[p]) \/ cred[p].gen < grant[cred[p].login]
  /\ IF mode[p] = "none" /\ CanRefresh(cur[p], cred[p])
     THEN /\ Goto(p, "exchange")
          /\ mode' = [mode EXCEPT ![p] = "forced"]
          /\ UNCHANGED <<seen, tried, cur, cred, rotated, outcome, excused>>
     ELSE /\ Reject(p)
          /\ excused' = [excused EXCEPT ![p] =
               IF now >= cred[p].until THEN @ \cup {cur[p]} ELSE @]
  /\ UNCHANGED <<now, server, source, claude, start, gone, raced, faults>>

\* Rate limits, outages and malformed answers describe the endpoint
FetchFails(p) ==
  /\ pc[p] \in Requests
  /\ Return(p, "other")
  /\ excused' = [excused EXCEPT ![p] = {}]
  /\ UNCHANGED <<now, server, source, claude, start, gone, raced, faults>>

Crash(p) ==
  /\ pc[p] # "idle"
  /\ Fault
  /\ gone' = IF pc[p] \in Writing THEN gone \cup {cred[p].login} ELSE gone
  /\ Return(p, "other")
  /\ excused' = [excused EXCEPT ![p] = {}]
  /\ UNCHANGED <<now, server, source, claude, start, raced>>

-----------------------------------------------------------------------------
(* Claude Code, the user and the server.                                    *)

ClaudeExchanges ==
  /\ ~claude.present
  /\ source[ClaudeCode].present
  /\ Exchanges(source[ClaudeCode])
  /\ Rotate(source[ClaudeCode].login)
  /\ claude' = [source[ClaudeCode] EXCEPT !.gen = @ + 1, !.exp = now + Lifetime,
                                          !.until = now + Lifetime]
  /\ UNCHANGED <<now, live, source, pollVars, gone, raced, excused, faults>>

ClaudeWrites ==
  /\ claude.present
  /\ source' = [source EXCEPT ![ClaudeCode] = claude]
  /\ claude' = Absent
  /\ UNCHANGED <<now, server, pollVars, gone, raced, excused, faults>>

\* claude login: a new grant, written over the old one
Login ==
  /\ ~claude.present
  /\ MaxLogin \notin live
  /\ live' = live \cup {MaxLogin}
  /\ source' = [source EXCEPT ![ClaudeCode] =
       [present |-> TRUE, refresh |-> TRUE, login |-> MaxLogin, gen |-> 0,
        exp |-> now + Lifetime, until |-> now + Lifetime]]
  /\ gone' = (IF source[ClaudeCode].present
               THEN gone \cup {source[ClaudeCode].login} ELSE gone) \ {MaxLogin}
  /\ raced' = (raced \/ \E p \in Pollers : pc[p] = "rename" /\ cur[p] = ClaudeCode)
  /\ UNCHANGED <<now, grant, claude, pollVars, excused, faults>>

Revoke(l) ==
  /\ l \in live
  /\ l # MaxLogin
  /\ live' = live \ {l}
  /\ UNCHANGED <<now, grant, source, claude, pollVars, gone, raced, excused, faults>>

\* A poll takes a minute, a tick is longer
Tick ==
  /\ now < Horizon
  /\ \A p \in Pollers : pc[p] # "idle" => now = start[p]
  /\ now' = now + 1
  /\ UNCHANGED <<server, source, claude, pollVars, gone, raced, excused, faults>>

-----------------------------------------------------------------------------
Exchange(p) ==
  ExchangeSucceeds(p) \/ ExchangeRefused(p) \/ ExchangeFails(p) \/ AnswerLost(p)

Write(p) == Reread(p) \/ Rename(p) \/ WriteFails(p)

Poll(p) ==
  \/ TryNext(p) \/ TryKeychain(p) \/ GiveUp(p) \/ Exchange(p) \/ Write(p)
  \/ FetchSucceeds(p) \/ FetchUnauthorized(p) \/ FetchFails(p)

Step ==
  \/ \E p \in Pollers : Begin(p) \/ Poll(p) \/ Crash(p)
  \/ ClaudeExchanges \/ ClaudeWrites \/ Login \/ Tick
  \/ \E l \in Logins : Revoke(l)

\* A source stays steady for a poll while its login is good and nobody but the
\* poll itself replaces it
StaysSteady(p, s) ==
  IF pc[p] = "idle"
  THEN Good(source[s])' /\ (source[Env].present => s = Env)
  ELSE /\ s \in steady[p]
       /\ source'[s] = source[s] \/ pc'[p] # pc[p]
       /\ Good(source[s])' \/ (pc'[p] \in Writing /\ cur'[p] = s)

Observe ==
  steady' = [p \in Pollers |->
    IF pc'[p] = "idle" THEN {} ELSE {s \in Sources : StaysSteady(p, s)}]

Next == Step /\ Observe

Spec == Init /\ [][Next]_vars

-----------------------------------------------------------------------------
(* Properties.                                                              *)

\* The latest refresh token of every login the server still accepts is in some
\* source or about to be written to one: neither a race of two polls nor one
\* with Claude Code leaves everybody with a dead token.  Exempt are logins that
\* the user has replaced or a fault has cost, and a login that slips in between
\* the second read and the write
NewestTokenKept ==
  raced \/ \A l \in live \ gone :
    \/ \E s \in Sources :
         source[s].refresh /\ source[s].login = l /\ source[s].gen = grant[l]
    \/ \E p \in Pollers :
         pc[p] \in Writing /\ rotated[p].login = l /\ rotated[p].gen = grant[l]
    \/ claude.present /\ claude.login = l /\ claude.gen = grant[l]

\* What is in a source is replaced only by a later generation of its login or
\* by a later login: no poll undoes a refresh by Claude Code or another poll,
\* and none undoes a login it could have noticed
NeverGoesBack ==
  [][raced \/ \A s \in Sources :
       \/ source'[s] = source[s]
       \/ source'[s].login > source[s].login
       \/ source'[s].login = source[s].login /\ source'[s].gen > source[s].gen]_vars

\* Fetch says auth_expired, which sends the user to `claude login`, only if no
\* source has held a good login untouched all through the poll, apart from the
\* sources whose refresh failed for another reason and whose token ran out
AuthExpiredIsTrue ==
  [][\A p \in Pollers :
       pc[p] # "idle" /\ pc'[p] = "idle" /\ outcome'[p] = "auth_expired"
         => steady[p] \subseteq excused[p]]_vars

\* The refresh ahead of expiry keeps a poll from racing the boundary and
\* reporting a spurious auth failure (claude/refresh.go:18)
AuthExpiredIsNeverSpurious ==
  [][\A p \in Pollers :
       pc[p] # "idle" /\ pc'[p] = "idle" /\ outcome'[p] = "auth_expired"
         => steady[p] = {}]_vars
=============================================================================
