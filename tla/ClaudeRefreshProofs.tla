------------------------ MODULE ClaudeRefreshProofs ------------------------
(***************************************************************************)
(* Rotating logins without a lock: no poll undoes what Claude Code or      *)
(* another poll has written, and the newest token of a login is not lost   *)
(* in a race, for any number of pollers, logins, exchanges and faults.     *)
(***************************************************************************)
EXTENDS ClaudeRefresh, TLAPS

\* The places in which a login is being tried
Trying == Requests \cup Writing \cup {"exchange"}

CurTyped ==
  \A p \in Pollers : pc[p] \in Trying =>
    /\ cur[p] \in Sources
    /\ pc[p] \in Writing \cup {"exchange"} => cur[p] # Env /\ cred[p].refresh

\* What TypeOK says of the local variables of Fetch
LocalsTyped ==
  /\ pc \in [Pollers -> PcValues]
  /\ seen \in [Pollers -> [Sources -> Credentials]]
  /\ tried \in [Pollers -> SUBSET Sources]
  /\ cur \in [Pollers -> Sources \cup {NoSource}]
  /\ cred \in [Pollers -> Credentials]
  /\ mode \in [Pollers -> {"none", "early", "forced"}]
  /\ rotated \in [Pollers -> Credentials]
  /\ outcome \in [Pollers -> Outcomes]
  /\ CurTyped

\* And of the rest, without the history of single polls
RestTyped ==
  /\ now \in 0..Horizon
  /\ grant \in [Logins -> Gens]
  /\ live \in SUBSET Logins
  /\ source \in [Sources -> Credentials]
  /\ claude \in Credentials
  /\ start \in [Pollers -> 0..Horizon]
  /\ gone \in SUBSET Logins
  /\ raced \in BOOLEAN
  /\ faults \in 0..MaxFaults

ExcusedTyped == excused \in [Pollers -> SUBSET Sources]
SteadyTyped == steady \in [Pollers -> SUBSET Sources]

LEMMA TypeParts ==
  /\ TypeOK <=> RestTyped /\ LocalsTyped /\ ExcusedTyped /\ SteadyTyped
  /\ TypeOK' <=> RestTyped' /\ LocalsTyped' /\ ExcusedTyped' /\ SteadyTyped'
BY DEF TypeOK, RestTyped, LocalsTyped, ExcusedTyped, SteadyTyped, CurTyped, Trying

LEMMA Numbers ==
  /\ Lifetime \in Nat /\ Horizon \in Nat /\ MaxLogin \in Nat /\ MaxGen \in Nat
  /\ MaxFaults \in Nat /\ 0 \in Logins /\ 0 \in Gens /\ 0 \in Times /\ MaxLogin \in Logins
BY ClaudeAssumption DEF Logins, Gens, Times

LEMMA SourcesDiffer ==
  /\ Custom # Home /\ Keychain # Custom /\ Keychain # Home
  /\ Env # Custom /\ Env # Home /\ Env # Keychain
  /\ NoSource \notin Sources
BY ClaudeAssumption DEF Files

LEMMA AbsentTyped == Absent \in Credentials /\ ~Absent.present /\ Absent.login = 0 /\ Absent.gen = 0
BY Numbers DEF Absent, Credentials

\* The first of the list is one of the list (collectCredentials)
LEMMA FreshestListed ==
  ASSUME NEW f \in [Sources -> Credentials], NEW rest \in SUBSET Listed(f), rest # {}
  PROVE  Freshest(f, rest) \in rest
<1> DEFINE First(s) == \A t \in rest \ {s} :
                         f[s].exp > f[t].exp \/ (f[s].exp = f[t].exp /\ s = Custom)
<1>1. rest \subseteq {Env} \/ rest \subseteq {Custom, Home}
  BY DEF Listed, Readable, Files
<1>2. \E s \in rest : First(s)
  <2>1. CASE rest \subseteq {Env}
    BY <2>1
  <2>2. CASE rest = {Custom} \/ rest = {Home}
    BY <2>2
  <2>3. CASE rest = {Custom, Home}
    <3>1. f[Custom].exp \in Nat /\ f[Home].exp \in Nat
      BY Numbers DEF Sources, Credentials, Times
    <3>2. First(Custom) \/ First(Home)
      BY <2>3, <3>1, SourcesDiffer
    <3>3. QED
      BY <2>3, <3>2
  <2>4. QED
    BY <1>1, <2>1, <2>2, <2>3
<1>3. QED
  BY <1>2 DEF Freshest

-----------------------------------------------------------------------------
(***************************************************************************)
(* Types.                                                                  *)
(***************************************************************************)
LEMMA ReturnTyped ==
  ASSUME LocalsTyped, NEW p \in Pollers, NEW what \in Outcomes, Return(p, what)
  PROVE  LocalsTyped' /\ pc' = [pc EXCEPT ![p] = "idle"]
<1> USE AbsentTyped DEF LocalsTyped, Return, Goto, PcValues
<1>1. [s \in Sources |-> Absent] \in [Sources -> Credentials]
  OBVIOUS
<1>2. CurTyped'
  BY DEF CurTyped, Trying, Requests, Writing
<1>3. QED
  BY <1>1, <1>2

LEMMA RejectTyped ==
  ASSUME LocalsTyped, NEW p \in Pollers, pc[p] \in Trying, Reject(p)
  PROVE  LocalsTyped' /\ pc' = [pc EXCEPT ![p] = "try"]
<1> USE AbsentTyped DEF LocalsTyped, Reject, Goto, PcValues
<1>1. CurTyped'
  BY DEF CurTyped, Trying, Requests, Writing
<1>2. cur[p] \in Sources
  BY DEF CurTyped
<1>3. QED
  BY <1>1, <1>2

LEMMA RefreshFailsTyped ==
  ASSUME LocalsTyped, ExcusedTyped, NEW p \in Pollers, pc[p] \in Trying, NEW dead \in BOOLEAN,
         RefreshFails(p, dead)
  PROVE  LocalsTyped' /\ ExcusedTyped'
<1>1. cur[p] \in Sources
  BY DEF LocalsTyped, CurTyped
<1>2. ExcusedTyped'
  BY <1>1 DEF ExcusedTyped, RefreshFails
<1>3. CASE Reject(p)
  BY <1>2, <1>3, RejectTyped
<1>4. CASE Return(p, "other")
  BY <1>2, <1>4, ReturnTyped DEF Outcomes
<1>5. CASE Goto(p, "fetch") /\ UNCHANGED locals
  <2>1. CurTyped'
    BY <1>1, <1>5 DEF LocalsTyped, CurTyped, Goto, locals, Trying, Requests, Writing
  <2>2. QED
    BY <1>2, <1>5, <2>1 DEF LocalsTyped, Goto, locals, PcValues, Requests
<1>6. QED
  BY <1>3, <1>4, <1>5 DEF RefreshFails

LEMMA IssuedTyped ==
  ASSUME RestTyped, LocalsTyped, NEW p \in Pollers, grant[cred[p].login] < MaxGen
  PROVE  /\ Issued(p) \in Credentials
         /\ Issued(p).present = cred[p].present /\ Issued(p).refresh = cred[p].refresh
         /\ Issued(p).login = cred[p].login /\ Issued(p).gen = grant[cred[p].login] + 1
<1>1. cred[p] \in Credentials /\ start[p] \in 0..Horizon /\ now \in 0..Horizon
  BY DEF LocalsTyped, RestTyped
<1>2. cred[p].login \in Logins /\ grant[cred[p].login] \in Gens
  BY <1>1 DEF RestTyped, Credentials
<1>3. grant[cred[p].login] + 1 \in Gens /\ start[p] + Lifetime \in Times
      /\ now + Lifetime \in Times
  BY <1>1, <1>2, Numbers DEF Gens, Times
<1>4. QED
  BY <1>1, <1>3 DEF Issued, Credentials

LEMMA RotateTyped ==
  ASSUME RestTyped, NEW l \in Logins, Rotate(l)
  PROVE  grant' \in [Logins -> Gens]
BY Numbers DEF RestTyped, Rotate, Gens

LEMMA FaultTyped == ASSUME RestTyped, Fault PROVE faults' \in 0..MaxFaults
BY Numbers DEF RestTyped, Fault

\* One step of a poll keeps the types
LEMMA PollTyped ==
  ASSUME RestTyped, LocalsTyped, ExcusedTyped, NEW p \in Pollers,
         Begin(p) \/ Poll(p) \/ Crash(p)
  PROVE  RestTyped' /\ LocalsTyped' /\ ExcusedTyped'
<1> DEFINE Kept == RestTyped' /\ LocalsTyped' /\ ExcusedTyped'
<1> USE DEF server
<1>1. CASE Begin(p)
  <2>1. [source EXCEPT ![Keychain] = Absent] \in [Sources -> Credentials]
    BY AbsentTyped DEF RestTyped
  <2>2. CurTyped'
    BY <1>1 DEF Begin, Goto, LocalsTyped, CurTyped, Trying, Requests, Writing
  <2>3. QED
    BY <1>1, <2>1, <2>2
       DEF Begin, Goto, RestTyped, LocalsTyped, ExcusedTyped, PcValues, Outcomes
<1>2. ASSUME NEW s \in Sources, NEW c \in Credentials, Try(p, s, c),
             seen' \in [Pollers -> [Sources -> Credentials]]
      PROVE  Kept
  <2>1. CurTyped'
    BY <1>2 DEF Try, Goto, CanRefresh, LocalsTyped, CurTyped, Trying, Requests, Writing
  <2>2. QED
    BY <1>2, <2>1
       DEF Try, Goto, RestTyped, LocalsTyped, ExcusedTyped, PcValues, Requests
<1>3. CASE TryNext(p)
  <2> DEFINE rest == Listed(seen[p]) \ tried[p]
             s == Freshest(seen[p], rest)
  <2>1. seen[p] \in [Sources -> Credentials]
    BY DEF LocalsTyped
  <2>2. s \in rest /\ rest \subseteq Sources
    <3>1. rest # {} /\ rest \in SUBSET Listed(seen[p])
      BY <1>3 DEF TryNext
    <3>2. Listed(seen[p]) \subseteq Sources
      BY DEF Listed, Readable, Files, Sources
    <3> HIDE DEF rest
    <3>3. QED
      BY <2>1, <3>1, <3>2, FreshestListed
  <2>3. Try(p, s, seen[p][s]) /\ seen' = seen
    BY <1>3 DEF TryNext
  <2> HIDE DEF s, rest
  <2>4. QED
    BY <1>2, <2>1, <2>2, <2>3 DEF LocalsTyped
<1>4. CASE TryKeychain(p)
  <2>1. Keychain \in Sources /\ source[Keychain] \in Credentials
    BY DEF Sources, RestTyped
  <2>2. [seen[p] EXCEPT ![Keychain] = source[Keychain]] \in [Sources -> Credentials]
    BY <2>1 DEF LocalsTyped
  <2>3. seen' \in [Pollers -> [Sources -> Credentials]]
    BY <1>4, <2>2 DEF TryKeychain, LocalsTyped
  <2>4. QED
    BY <1>2, <1>4, <2>1, <2>3 DEF TryKeychain
<1>5. ASSUME NEW what \in Outcomes, Return(p, what),
             excused' = [excused EXCEPT ![p] = {}],
             UNCHANGED <<now, server, source, claude, start, raced>>,
             gone' \in SUBSET Logins, faults' \in 0..MaxFaults
      PROVE  Kept
  BY <1>5, ReturnTyped DEF RestTyped, ExcusedTyped
<1>6. CASE GiveUp(p) \/ FetchSucceeds(p) \/ FetchFails(p)
  <2>1. UNCHANGED <<gone, faults>>
    BY <1>6 DEF GiveUp, FetchSucceeds, FetchFails
  <2>2. gone' \in SUBSET Logins /\ faults' \in 0..MaxFaults
    BY <2>1 DEF RestTyped
  <2>3. \E what \in Outcomes : Return(p, what)
    BY <1>6 DEF GiveUp, FetchSucceeds, FetchFails, Outcomes
  <2>4. QED
    BY <1>5, <1>6, <2>2, <2>3 DEF GiveUp, FetchSucceeds, FetchFails
<1>7. CASE Crash(p)
  <2>1. gone' \in SUBSET Logins /\ faults' \in 0..MaxFaults
    BY <1>7, FaultTyped DEF Crash, RestTyped, LocalsTyped, Credentials
  <2>2. QED
    BY <1>5, <1>7, <2>1 DEF Crash, Outcomes
<1>8. CASE ExchangeSucceeds(p)
  <2>1. cred[p].login \in Logins /\ Rotate(cred[p].login)
    BY <1>8 DEF ExchangeSucceeds, LocalsTyped, Credentials
  <2>2. grant' \in [Logins -> Gens] /\ Issued(p) \in Credentials
    BY <2>1, RotateTyped, IssuedTyped DEF Rotate
  <2>3. CurTyped'
    BY <1>8 DEF ExchangeSucceeds, Goto, LocalsTyped, CurTyped, Trying, Requests, Writing
  <2>4. QED
    BY <1>8, <2>2, <2>3 DEF ExchangeSucceeds, Goto, RestTyped, LocalsTyped, ExcusedTyped,
                            PcValues, Writing
<1>9. ASSUME NEW dead \in BOOLEAN, RefreshFails(p, dead), pc[p] \in Trying,
             UNCHANGED <<now, live, claude, start, raced>>,
             grant' \in [Logins -> Gens], source' \in [Sources -> Credentials],
             gone' \in SUBSET Logins, faults' \in 0..MaxFaults
      PROVE  Kept
  <2>1. LocalsTyped' /\ ExcusedTyped'
    BY <1>9, RefreshFailsTyped
  <2>2. RestTyped'
    BY <1>9 DEF RestTyped
  <2>3. QED
    BY <2>1, <2>2
<1>10. CASE ExchangeRefused(p) \/ ExchangeFails(p)
  <2>1. pc[p] \in Trying /\ \E dead \in BOOLEAN : RefreshFails(p, dead)
    BY <1>10 DEF ExchangeRefused, ExchangeFails, Trying
  <2>2. UNCHANGED <<now, server, source, claude, start, gone, raced, faults>>
    BY <1>10 DEF ExchangeRefused, ExchangeFails
  <2>3. QED
    BY <1>9, <2>1, <2>2 DEF RestTyped
<1>11. CASE AnswerLost(p)
  <2>1. cred[p].login \in Logins
    BY DEF LocalsTyped, Credentials
  <2>2. grant' \in [Logins -> Gens]
    BY <1>11, <2>1, RotateTyped DEF AnswerLost
  <2>3. gone' \in SUBSET Logins /\ faults' \in 0..MaxFaults
    BY <1>11, <2>1, FaultTyped DEF AnswerLost, RestTyped
  <2>4. QED
    BY <1>9, <1>11, <2>2, <2>3 DEF AnswerLost, RestTyped, Trying
<1>12. CASE Reread(p)
  <2>1. CASE SameAccess(source[cur[p]], cred[p])
    <3>1. Goto(p, "rename") /\ UNCHANGED <<locals, excused>>
      BY <1>12, <2>1 DEF Reread
    <3>2. CurTyped'
      BY <1>12, <3>1 DEF Reread, Goto, locals, LocalsTyped, CurTyped, Trying, Requests, Writing
    <3>3. QED
      BY <1>12, <3>1, <3>2 DEF Reread, Goto, locals, RestTyped, LocalsTyped, ExcusedTyped,
                               PcValues, Writing
  <2>2. CASE ~SameAccess(source[cur[p]], cred[p])
    BY <1>9, <1>12, <2>2 DEF Reread, RestTyped, Trying, Writing
  <2>3. QED
    BY <2>1, <2>2
<1>13. CASE Rename(p)
  <2>1. CurTyped'
    BY <1>13, AbsentTyped
       DEF Rename, Goto, LocalsTyped, CurTyped, Trying, Requests, Writing
  <2>2. QED
    BY <1>13, <2>1, AbsentTyped
       DEF Rename, Goto, RestTyped, LocalsTyped, ExcusedTyped, PcValues, Requests
<1>14. CASE WriteFails(p)
  <2>1. cred[p] \in Credentials /\ cred[p].login \in Logins
    BY DEF LocalsTyped, Credentials
  <2>2. source' \in [Sources -> Credentials]
    BY <1>14, <2>1 DEF WriteFails, RestTyped
  <2>3. gone' \in SUBSET Logins /\ faults' \in 0..MaxFaults
    BY <1>14, <2>1, FaultTyped DEF WriteFails, RestTyped
  <2>4. QED
    BY <1>9, <1>14, <2>2, <2>3 DEF WriteFails, RestTyped, Trying
<1>15. CASE FetchUnauthorized(p)
  <2>1. pc[p] \in Trying /\ cur[p] \in Sources
    BY <1>15 DEF FetchUnauthorized, Trying, LocalsTyped, CurTyped
  <2>2. CASE mode[p] = "none" /\ CanRefresh(cur[p], cred[p])
    <3>1. CurTyped'
      BY <1>15, <2>2 DEF FetchUnauthorized, CanRefresh, Goto, LocalsTyped, CurTyped, Trying,
                         Requests, Writing
    <3>2. RestTyped' /\ ExcusedTyped'
      BY <1>15, <2>2 DEF FetchUnauthorized, RestTyped, ExcusedTyped
    <3>3. pc' \in [Pollers -> PcValues] /\ mode' \in [Pollers -> {"none", "early", "forced"}]
      BY <1>15, <2>2 DEF FetchUnauthorized, Goto, LocalsTyped, PcValues
    <3>4. QED
      BY <1>15, <2>2, <3>1, <3>2, <3>3 DEF FetchUnauthorized, LocalsTyped
  <2>3. CASE ~(mode[p] = "none" /\ CanRefresh(cur[p], cred[p]))
    BY <1>15, <2>1, <2>3, RejectTyped DEF FetchUnauthorized, RestTyped, ExcusedTyped
  <2>4. QED
    BY <2>2, <2>3
<1>16. QED
  BY <1>1, <1>3, <1>4, <1>6, <1>7, <1>8, <1>10, <1>11, <1>12, <1>13, <1>14, <1>15
     DEF Poll, Exchange, Write

LEMMA TypePreserved == TypeOK /\ [Next]_vars => TypeOK'
<1> SUFFICES ASSUME RestTyped, LocalsTyped, ExcusedTyped, SteadyTyped, [Next]_vars
             PROVE  RestTyped' /\ LocalsTyped' /\ ExcusedTyped' /\ SteadyTyped'
  BY TypeParts
<1>1. SteadyTyped'
  BY DEF SteadyTyped, Next, Observe, vars
<1>2. ASSUME UNCHANGED <<pc, start, seen, tried, cur, cred, mode, rotated, outcome, excused>>
      PROVE  LocalsTyped' /\ ExcusedTyped'
  BY <1>2 DEF LocalsTyped, ExcusedTyped, CurTyped
<1>3. ASSUME NEW p \in Pollers, Begin(p) \/ Poll(p) \/ Crash(p)
      PROVE  RestTyped' /\ LocalsTyped' /\ ExcusedTyped'
  BY <1>3, PollTyped
<1>4. ClaudeCode \in Sources /\ source[ClaudeCode] \in Credentials
  BY DEF ClaudeCode, Sources, RestTyped
<1>5. CASE ClaudeExchanges
  <2> DEFINE c == source[ClaudeCode]
  <2>1. c.login \in Logins /\ Rotate(c.login) /\ c.gen = grant[c.login]
    BY <1>4, <1>5 DEF ClaudeExchanges, Exchanges, Credentials
  <2>2. grant' \in [Logins -> Gens]
    BY <2>1, RotateTyped
  <2>3. c.gen + 1 \in Gens /\ now + Lifetime \in Times
    <3>1. grant[c.login] \in Gens /\ grant[c.login] < MaxGen /\ now \in 0..Horizon
      BY <2>1 DEF Rotate, RestTyped
    <3> HIDE DEF c
    <3>2. QED
      BY <2>1, <3>1, Numbers DEF Gens, Times
  <2>4. claude' \in Credentials
    BY <1>4, <1>5, <2>3 DEF ClaudeExchanges, Credentials
  <2>5. QED
    BY <1>1, <1>2, <1>5, <2>2, <2>4 DEF ClaudeExchanges, RestTyped, pollVars, locals
<1>6. CASE ClaudeWrites
  BY <1>1, <1>2, <1>6, AbsentTyped DEF ClaudeWrites, RestTyped, server, pollVars, locals
<1>7. CASE Login
  <2>1. now + Lifetime \in Times
    BY Numbers DEF RestTyped, Times
  <2>2. source' \in [Sources -> Credentials]
    BY <1>7, <2>1, Numbers DEF Login, RestTyped, Credentials
  <2>3. live' \in SUBSET Logins /\ gone' \in SUBSET Logins
    BY <1>4, <1>7, Numbers DEF Login, RestTyped, Credentials
  <2>4. raced' \in BOOLEAN
    BY <1>7 DEF Login
  <2>5. QED
    BY <1>1, <1>2, <1>7, <2>2, <2>3, <2>4 DEF Login, RestTyped, pollVars, locals
<1>8. CASE Tick
  BY <1>1, <1>2, <1>8, Numbers DEF Tick, RestTyped, server, pollVars, locals
<1>9. ASSUME NEW l \in Logins, Revoke(l)
      PROVE  RestTyped' /\ LocalsTyped' /\ ExcusedTyped'
  BY <1>2, <1>9 DEF Revoke, RestTyped, pollVars, locals
<1>10. CASE UNCHANGED vars
  BY <1>1, <1>2, <1>10 DEF vars, server, pollVars, locals, RestTyped
<1>11. QED
  BY <1>1, <1>3, <1>5, <1>6, <1>7, <1>8, <1>9, <1>10 DEF Next, Step

\* A poll that exchanges or writes has a login with a refresh token, and never the
\* one of the environment (fetchWithCredential, canRefresh)
THEOREM TypeCorrect == Spec => []TypeOK
<1>1. Init => TypeOK
  <2> SUFFICES ASSUME Init PROVE TypeOK
    OBVIOUS
  <2>1. source \in [Sources -> Credentials] /\ live \in SUBSET Logins
    BY ClaudeAssumption DEF Init
  <2>2. [s \in Sources |-> Absent] \in [Sources -> Credentials]
    BY AbsentTyped
  <2>3. LocalsTyped
    BY <2>2, AbsentTyped
       DEF Init, LocalsTyped, CurTyped, PcValues, Outcomes, Trying, Requests, Writing
  <2>4. RestTyped
    <3>1. 0 \in 0..Horizon /\ 0 \in 0..MaxFaults
      BY Numbers
    <3>2. gone \in SUBSET Logins
      BY DEF Init
    <3>3. now \in 0..Horizon /\ start \in [Pollers -> 0..Horizon] /\ faults \in 0..MaxFaults
      BY <3>1 DEF Init
    <3>4. grant \in [Logins -> Gens] /\ claude \in Credentials
      BY Numbers, AbsentTyped DEF Init
    <3>5. raced \in BOOLEAN
      BY DEF Init
    <3>6. QED
      BY <2>1, <3>2, <3>3, <3>4, <3>5 DEF RestTyped
  <2>5. QED
    BY <2>3, <2>4, TypeParts DEF Init, ExcusedTyped, SteadyTyped
<1>2. QED
  BY <1>1, TypePreserved, PTL DEF Spec

-----------------------------------------------------------------------------
(***************************************************************************)
(* The invariant.                                                          *)
(***************************************************************************)
\* No copy of the login is of the generation the server accepts
Outdated(l) ==
  /\ \A s \in Sources : source[s].login = l => source[s].gen < grant[l]
  /\ \A p \in Pollers, s \in Sources : seen[p][s].login = l => seen[p][s].gen < grant[l]
  /\ \A p \in Pollers : cred[p].login = l => cred[p].gen < grant[l]

Known(c) == c.gen <= grant[c.login]

\* The server has issued every generation there is a copy of
AllKnown ==
  /\ \A s \in Sources : Known(source[s])
  /\ \A p \in Pollers : Known(cred[p]) /\ \A s \in Sources : Known(seen[p][s])

\* A rotation that is not written yet is the only copy of its generation
OneOwner ==
  /\ \A p \in Pollers : pc[p] \in Writing =>
       /\ rotated[p].present = cred[p].present /\ rotated[p].refresh
       /\ rotated[p].login = cred[p].login
       /\ rotated[p].gen = cred[p].gen + 1
       /\ rotated[p].gen = grant[cred[p].login]
       /\ Outdated(cred[p].login)
       /\ \A q \in Pollers \ {p} : pc[q] \in Writing => cred[q].login # cred[p].login
       /\ claude.present => claude.login # cred[p].login
  /\ claude.present =>
       /\ claude.refresh /\ claude.gen >= 1 /\ claude.gen = grant[claude.login]
       /\ Outdated(claude.login)

\* Before the user logs in again, the new login is nowhere
NewLoginUnknown ==
  /\ MaxLogin # 0
  /\ MaxLogin \notin live =>
       /\ grant[MaxLogin] = 0
       /\ \A s \in Sources : source[s].login # MaxLogin
       /\ \A p \in Pollers : cred[p].login # MaxLogin /\ \A s \in Sources : seen[p][s].login # MaxLogin

\* Since c was read from s, it has been replaced by its successors or by a new login
Follows(s, c) ==
  /\ source[s].present
  /\ \/ source[s] = c
     \/ source[s].login = c.login /\ source[s].gen > c.gen
     \/ source[s].login = MaxLogin /\ c.login # MaxLogin /\ c.login \in gone

\* Unless a login slipped in, whoever writes to a source replaces the login it read
InStep ==
  raced \/
  /\ \A s \in Sources : source[s].refresh => source[s].present
  /\ \A p \in Pollers : pc[p] \in Trying => cred[p].present /\ Follows(cur[p], cred[p])
  /\ \A p \in Pollers, s \in Sources : seen[p][s].present => Follows(s, seen[p][s])
  /\ \A p \in Pollers : pc[p] = "rename" => source[cur[p]] = cred[p]
  /\ claude.present => source[ClaudeCode].present /\ source[ClaudeCode].login = claude.login

IInv == AllKnown /\ OneOwner /\ NewLoginUnknown /\ InStep /\ NewestTokenKept

\* The types that the proofs of the steps need
Shape ==
  /\ \A l \in Logins : grant[l] \in Nat
  /\ \A s \in Sources : source[s].login \in Logins /\ source[s].gen \in Nat
  /\ \A p \in Pollers : cred[p].login \in Logins /\ cred[p].gen \in Nat
  /\ \A p \in Pollers, s \in Sources : seen[p][s].login \in Logins /\ seen[p][s].gen \in Nat
  /\ \A p \in Pollers : rotated[p].login \in Logins /\ rotated[p].gen \in Nat
  /\ claude.login \in Logins /\ claude.gen \in Nat
  /\ \A p \in Pollers : pc[p] \in Trying => cur[p] \in Sources
  /\ raced \in BOOLEAN

LEMMA ShapeHolds == (TypeOK => Shape) /\ (TypeOK' => Shape')
<1> USE DEF TypeOK, Shape, Credentials, Gens, Trying
<1>1. TypeOK => Shape
  <2> SUFFICES ASSUME TypeOK PROVE Shape
    OBVIOUS
  <2>1. \A p \in Pollers : pc[p] \in Trying => cur[p] \in Sources
    OBVIOUS
  <2>2. QED
    BY <2>1
<1>2. TypeOK' => Shape'
  <2> SUFFICES ASSUME TypeOK' PROVE Shape'
    OBVIOUS
  <2>1. (\A p \in Pollers : pc[p] \in Trying => cur[p] \in Sources)'
    OBVIOUS
  <2>2. QED
    BY <2>1
<1>3. QED
  BY <1>1, <1>2

-----------------------------------------------------------------------------
(***************************************************************************)
(* Steps that write to no source.                                          *)
(***************************************************************************)
OthersStay(p) ==
  \A q \in Pollers \ {p} :
    /\ pc'[q] = pc[q] /\ seen'[q] = seen[q] /\ cred'[q] = cred[q]
    /\ cur'[q] = cur[q] /\ rotated'[q] = rotated[q]

\* Poll p goes on with the login it tries, or forgets what it has read
Drops(p) ==
  /\ OthersStay(p)
  /\ pc'[p] \notin Writing
  /\ \A s \in Sources : seen'[p][s] \in {seen[p][s], Absent}
  /\ cred'[p] \in {cred[p], Absent}
  /\ pc'[p] \in Trying => pc[p] \in Trying /\ cred'[p] = cred[p] /\ cur'[p] = cur[p]

LEMMA ReturnDrops ==
  ASSUME TypeOK, NEW p \in Pollers, NEW what, Return(p, what)
  PROVE  Drops(p)
BY DEF TypeOK, Return, Goto, Drops, OthersStay, Trying, Requests, Writing

LEMMA RejectDrops ==
  ASSUME TypeOK, NEW p \in Pollers, Reject(p)
  PROVE  Drops(p)
BY DEF TypeOK, Reject, Goto, Drops, OthersStay, Trying, Requests, Writing

LEMMA RefreshFailsDrops ==
  ASSUME TypeOK, NEW p \in Pollers, pc[p] \in Trying, NEW dead, RefreshFails(p, dead)
  PROVE  Drops(p)
<1>1. CASE Goto(p, "fetch") /\ UNCHANGED locals
  BY <1>1 DEF TypeOK, Goto, locals, Drops, OthersStay, Trying, Requests, Writing
<1>2. QED
  BY <1>1, ReturnDrops, RejectDrops DEF RefreshFails

\* Another generation may be issued and lost, of a login that nobody is rotating
MayLose ==
  /\ \A l \in Logins : grant[l] <= grant'[l]
  /\ \A l \in Logins \ gone' : grant'[l] = grant[l]
  /\ MaxLogin \notin live => grant'[MaxLogin] = grant[MaxLogin]
  /\ \A q \in Pollers : pc[q] \in Writing => grant'[cred[q].login] = grant[cred[q].login]
  /\ claude.present => grant'[claude.login] = grant[claude.login]

\* A poll that gives up costs a token only if it was about to write one
LEMMA DropKeeps ==
  ASSUME TypeOK, TypeOK', IInv, NEW p \in Pollers, Drops(p),
         UNCHANGED <<live, claude, raced>>,
         raced \/ source' = source, \A s \in Sources : source'[s] \in {source[s], cred[p]},
         gone \subseteq gone', MayLose,
         pc[p] \in Writing => raced \/ cred[p].login \in gone'
  PROVE  IInv'
<1>0. Shape /\ Shape' /\ MaxLogin \in Logins
  BY ShapeHolds, Numbers
<1>1. AllKnown'
  <2>1. ASSUME NEW c, Known(c) \/ c = Absent, c.login \in Logins, c.gen \in Nat
        PROVE  c.gen <= grant'[c.login]
    BY <1>0, <2>1, AbsentTyped DEF Known, MayLose, Shape
  <2>2. ASSUME NEW s \in Sources PROVE source'[s].gen <= grant'[source'[s].login]
    <3>1. source'[s] = source[s] \/ source'[s] = cred[p]
      OBVIOUS
    <3>2. QED
      BY <1>0, <2>1, <3>1 DEF IInv, AllKnown, Shape
  <2>3. ASSUME NEW q \in Pollers PROVE cred'[q].gen <= grant'[cred'[q].login]
    <3>1. cred'[q] = cred[q] \/ cred'[q] = Absent
      BY DEF Drops, OthersStay
    <3>2. QED
      BY <1>0, <2>1, <3>1 DEF IInv, AllKnown, Shape
  <2>4. ASSUME NEW q \in Pollers, NEW s \in Sources
        PROVE  seen'[q][s].gen <= grant'[seen'[q][s].login]
    <3>1. seen'[q][s] = seen[q][s] \/ seen'[q][s] = Absent
      BY DEF Drops, OthersStay
    <3>2. QED
      BY <1>0, <2>1, <3>1 DEF IInv, AllKnown, Shape
  <2>5. QED
    BY <2>2, <2>3, <2>4 DEF AllKnown, Known
<1>2. ASSUME NEW l \in Logins, Outdated(l), grant'[l] = grant[l], grant[l] >= 1
      PROVE  Outdated(l)'
  BY <1>0, <1>2, AbsentTyped DEF Outdated, Drops, OthersStay, Shape
<1>3. OneOwner'
  <2>1. ASSUME NEW q \in Pollers, pc'[q] \in Writing
        PROVE  /\ q # p /\ pc[q] \in Writing /\ cred'[q] = cred[q] /\ rotated'[q] = rotated[q]
               /\ grant'[cred[q].login] = grant[cred[q].login]
    BY <2>1 DEF Drops, OthersStay, MayLose
  <2>2. ASSUME NEW q \in Pollers, pc'[q] \in Writing
        PROVE  Outdated(cred[q].login)'
    <3>1. Outdated(cred[q].login) /\ grant[cred[q].login] >= 1
      BY <1>0, <2>1, <2>2 DEF IInv, OneOwner, Shape
    <3>2. QED
      BY <1>0, <1>2, <2>1, <2>2, <3>1 DEF Shape
  <2>3. ASSUME claude.present
        PROVE  /\ claude.refresh /\ claude.gen >= 1 /\ claude.gen = grant'[claude.login]
               /\ Outdated(claude.login)'
    <3>1. claude.refresh /\ claude.gen = grant[claude.login] /\ Outdated(claude.login)
          /\ grant'[claude.login] = grant[claude.login] /\ claude.gen >= 1
      BY <2>3 DEF IInv, OneOwner, MayLose
    <3>2. QED
      BY <1>0, <1>2, <3>1 DEF Shape
  <2>4. ASSUME NEW q \in Pollers, pc'[q] \in Writing
        PROVE  /\ rotated'[q].present = cred'[q].present /\ rotated'[q].refresh
               /\ rotated'[q].login = cred'[q].login
               /\ rotated'[q].gen = cred'[q].gen + 1
               /\ rotated'[q].gen = grant'[cred'[q].login]
               /\ \A r \in Pollers \ {q} : pc'[r] \in Writing => cred'[r].login # cred'[q].login
               /\ claude.present => claude.login # cred'[q].login
    BY <2>1, <2>4 DEF IInv, OneOwner
  <2>5. \A q \in Pollers : cred'[q].login = cred[q].login \/ pc'[q] \notin Writing
    BY <2>1
  <2>6. QED
    BY <2>1, <2>2, <2>3, <2>4 DEF OneOwner
<1>4. NewLoginUnknown'
  BY <1>0, AbsentTyped DEF IInv, NewLoginUnknown, Drops, OthersStay, MayLose
<1>5. InStep'
  <2>1. CASE raced
    BY <2>1 DEF InStep
  <2>2. CASE ~raced
    <3>1. ASSUME NEW q \in Pollers, pc'[q] \in Trying
          PROVE  /\ cred'[q] = cred[q] /\ cur'[q] = cur[q] /\ pc[q] \in Trying
                 /\ cur[q] \in Sources
      BY <1>0, <3>1 DEF Drops, OthersStay, Shape
    <3>2. ASSUME NEW q \in Pollers, pc'[q] \in Trying
          PROVE  (cred[q].present /\ Follows(cur[q], cred[q]))'
      <4>1. cred[q].present /\ Follows(cur[q], cred[q])
        BY <2>2, <3>1, <3>2 DEF IInv, InStep
      <4>2. QED
        BY <2>2, <3>1, <3>2, <4>1 DEF Follows
    <3>3. ASSUME NEW q \in Pollers, NEW s \in Sources, seen'[q][s].present
          PROVE  Follows(s, seen[q][s])'
      <4>1. seen'[q][s] = seen[q][s]
        BY <3>3, AbsentTyped DEF Drops, OthersStay
      <4>2. Follows(s, seen[q][s])
        BY <2>2, <3>3, <4>1 DEF IInv, InStep
      <4>3. QED
        BY <2>2, <4>1, <4>2 DEF Follows
    <3>4. ASSUME NEW q \in Pollers, pc'[q] = "rename" PROVE source'[cur'[q]] = cred'[q]
      <4>1. q # p
        BY <3>4 DEF Drops, Writing
      <4>2. QED
        BY <2>2, <3>4, <4>1 DEF IInv, InStep, Drops, OthersStay
    <3>5. (claude.present => source[ClaudeCode].present /\ source[ClaudeCode].login = claude.login)'
      BY <2>2 DEF IInv, InStep, ClaudeCode
    <3>6. \A s \in Sources : source'[s].refresh => source'[s].present
      BY <2>2 DEF IInv, InStep
    <3>7. QED
      BY <3>2, <3>3, <3>4, <3>5, <3>6 DEF InStep, Trying
  <2>3. QED
    BY <2>1, <2>2
<1>6. NewestTokenKept'
  <2>1. CASE raced
    BY <2>1 DEF NewestTokenKept
  <2>2. CASE ~raced
    <3> SUFFICES ASSUME NEW l \in live \ gone'
                 PROVE  \/ \E s \in Sources :
                             source[s].refresh /\ source[s].login = l /\ source[s].gen = grant'[l]
                        \/ \E q \in Pollers :
                             pc'[q] \in Writing /\ rotated'[q].login = l /\ rotated'[q].gen = grant'[l]
                        \/ claude.present /\ claude.login = l /\ claude.gen = grant'[l]
      BY DEF NewestTokenKept
    <3>1. l \in Logins /\ l \notin gone /\ grant'[l] = grant[l]
      BY DEF TypeOK, MayLose
    <3>2. ASSUME NEW q \in Pollers, pc[q] \in Writing, rotated[q].login = l
          PROVE  q # p /\ pc'[q] = pc[q] /\ rotated'[q] = rotated[q]
      <4>1. cred[q].login = l
        BY <3>2 DEF IInv, OneOwner
      <4>2. q # p
        BY <2>2, <3>2, <4>1
      <4>3. QED
        BY <4>2 DEF Drops, OthersStay
    <3>3. QED
      BY <2>2, <3>1, <3>2 DEF IInv, NewestTokenKept
  <2>3. QED
    BY <2>1, <2>2
<1>7. QED
  BY <1>1, <1>3, <1>4, <1>5, <1>6 DEF IInv

\* Poll p reads the sources, or turns to a login it has just read
Takes(p) ==
  /\ OthersStay(p)
  /\ pc[p] \notin Writing /\ pc'[p] \notin Writing
  /\ \A s \in Sources : seen'[p][s] \in {seen[p][s], source[s], Absent}
  /\ \/ cred'[p] = cred[p] /\ pc'[p] \notin Trying
     \/ /\ cur'[p] \in Sources /\ cred'[p].present
        /\ cred'[p] \in {source[cur'[p]], seen[p][cur'[p]]}

LEMMA TakeKeeps ==
  ASSUME TypeOK, TypeOK', IInv, NEW p \in Pollers, Takes(p),
         UNCHANGED <<server, source, claude, gone, raced>>
  PROVE  IInv'
<1> USE DEF server
<1>0. Shape /\ Shape' /\ MaxLogin \in Logins
  BY ShapeHolds, Numbers
<1>1. ASSUME NEW q \in Pollers
      PROVE  \/ cred'[q] = cred[q]
             \/ \E s \in Sources : cred'[q] = source[s]
             \/ \E s \in Sources : cred'[q] = seen[q][s]
  BY DEF Takes, OthersStay
<1>2. ASSUME NEW q \in Pollers, NEW s \in Sources
      PROVE  seen'[q][s] \in {seen[q][s], source[s], Absent}
  BY DEF Takes, OthersStay
<1>3. AllKnown'
  <2>1. ASSUME NEW q \in Pollers PROVE cred'[q].gen <= grant[cred'[q].login]
    BY <1>0, <1>1 DEF IInv, AllKnown, Known
  <2>2. ASSUME NEW q \in Pollers, NEW s \in Sources
        PROVE  seen'[q][s].gen <= grant[seen'[q][s].login]
    BY <1>0, <1>2, AbsentTyped, Numbers DEF IInv, AllKnown, Known, Shape
  <2>3. QED
    BY <2>1, <2>2 DEF IInv, AllKnown, Known
<1>4. ASSUME NEW l \in Logins, Outdated(l), grant[l] >= 1
      PROVE  Outdated(l)'
  <2>1. ASSUME NEW q \in Pollers, cred'[q].login = l PROVE cred'[q].gen < grant[l]
    BY <1>0, <1>1, <1>4, <2>1 DEF Outdated
  <2>2. ASSUME NEW q \in Pollers, NEW s \in Sources, seen'[q][s].login = l
        PROVE  seen'[q][s].gen < grant[l]
    BY <1>0, <1>2, <1>4, <2>2, AbsentTyped DEF Outdated, Shape
  <2>3. QED
    BY <1>4, <2>1, <2>2 DEF Outdated
<1>5. OneOwner'
  <2>1. ASSUME NEW q \in Pollers, pc'[q] \in Writing
        PROVE  pc[q] \in Writing /\ cred'[q] = cred[q] /\ rotated'[q] = rotated[q]
    BY <2>1 DEF Takes, OthersStay
  <2>2. ASSUME NEW q \in Pollers, pc'[q] \in Writing
        PROVE  Outdated(cred[q].login)'
    <3>1. Outdated(cred[q].login) /\ grant[cred[q].login] >= 1
      BY <1>0, <2>1, <2>2 DEF IInv, OneOwner, Shape
    <3>2. QED
      BY <1>0, <1>4, <2>1, <2>2, <3>1 DEF Shape, Outdated
  <2>3. ASSUME claude.present
        PROVE  /\ claude.refresh /\ claude.gen >= 1 /\ claude.gen = grant[claude.login]
               /\ Outdated(claude.login)'
    BY <1>0, <1>4, <2>3 DEF IInv, OneOwner, Shape
  <2>4. ASSUME NEW q \in Pollers, pc'[q] \in Writing
        PROVE  /\ rotated'[q].present = cred'[q].present /\ rotated'[q].refresh
               /\ rotated'[q].login = cred'[q].login
               /\ rotated'[q].gen = cred'[q].gen + 1
               /\ rotated'[q].gen = grant'[cred'[q].login]
               /\ \A r \in Pollers \ {q} : pc'[r] \in Writing => cred'[r].login # cred'[q].login
               /\ claude.present => claude.login # cred'[q].login
    BY <2>1, <2>4 DEF IInv, OneOwner
  <2>5. QED
    BY <2>2, <2>3, <2>4 DEF OneOwner
<1>6. NewLoginUnknown'
  <2>1. ASSUME NEW q \in Pollers, MaxLogin \notin live PROVE cred'[q].login # MaxLogin
    BY <1>1, <2>1 DEF IInv, NewLoginUnknown
  <2>2. ASSUME NEW q \in Pollers, NEW s \in Sources, MaxLogin \notin live
        PROVE  seen'[q][s].login # MaxLogin
    BY <1>2, <2>2, AbsentTyped DEF IInv, NewLoginUnknown
  <2>3. QED
    BY <2>1, <2>2 DEF IInv, NewLoginUnknown
<1>7. InStep'
  <2>1. CASE raced
    BY <2>1 DEF InStep
  <2>2. CASE ~raced
    <3>1. ASSUME NEW s \in Sources, source[s].present
          PROVE  Follows(s, source[s])
      BY <3>1 DEF Follows
    <3>2. ASSUME NEW q \in Pollers, NEW s \in Sources, seen[q][s].present
          PROVE  Follows(s, seen[q][s])
      BY <2>2, <3>2 DEF IInv, InStep
    <3>3. ASSUME NEW q \in Pollers, pc'[q] \in Trying
          PROVE  (cred[q].present /\ Follows(cur[q], cred[q]))'
      <4>1. CASE q = p
        BY <3>1, <3>2, <3>3, <4>1 DEF Takes, Follows
      <4>2. CASE q # p
        <5>1. cred[q].present /\ Follows(cur[q], cred[q])
              /\ cred'[q] = cred[q] /\ cur'[q] = cur[q]
          BY <2>2, <3>3, <4>2 DEF IInv, InStep, Takes, OthersStay
        <5>2. QED
          BY <5>1 DEF Follows
      <4>3. QED
        BY <4>1, <4>2
    <3>4. ASSUME NEW q \in Pollers, NEW s \in Sources, seen'[q][s].present
          PROVE  Follows(s, seen[q][s])'
      <4>1. seen'[q][s] \in {seen[q][s], source[s]}
        BY <1>2, <3>4, AbsentTyped
      <4>2. QED
        BY <3>1, <3>2, <3>4, <4>1 DEF Follows
    <3>5. ASSUME NEW q \in Pollers, pc'[q] = "rename" PROVE source'[cur'[q]] = cred'[q]
      <4>1. q # p
        BY <3>5 DEF Takes, Writing
      <4>2. QED
        BY <2>2, <3>5, <4>1 DEF IInv, InStep, Takes, OthersStay
    <3>6. (claude.present => source[ClaudeCode].present /\ source[ClaudeCode].login = claude.login)'
      BY <2>2 DEF IInv, InStep, ClaudeCode
    <3>7. \A s \in Sources : source'[s].refresh => source'[s].present
      BY <2>2 DEF IInv, InStep
    <3>8. QED
      BY <3>3, <3>4, <3>5, <3>6, <3>7 DEF InStep, Trying
  <2>3. QED
    BY <2>1, <2>2
<1>8. NewestTokenKept'
  <2>1. ASSUME NEW q \in Pollers, pc[q] \in Writing
        PROVE  pc'[q] = pc[q] /\ rotated'[q] = rotated[q]
    BY <2>1 DEF Takes, OthersStay
  <2>2. QED
    BY <2>1 DEF IInv, NewestTokenKept
<1>9. QED
  BY <1>3, <1>5, <1>6, <1>7, <1>8 DEF IInv

\* The second look of a poll has found the source as it was read
LEMMA RereadKeeps ==
  ASSUME TypeOK, TypeOK', IInv, NEW p \in Pollers, Reread(p)
  PROVE  IInv'
<1>0. Shape /\ pc[p] \in Trying /\ pc[p] \in Writing
      /\ UNCHANGED <<server, source, claude, gone, raced>>
  BY ShapeHolds DEF Reread, Trying, Writing
<1>1. CASE SameAccess(source[cur[p]], cred[p])
  <2>1. Goto(p, "rename") /\ UNCHANGED locals
    BY <1>1 DEF Reread
  <2>2. \A q \in Pollers : /\ pc'[q] \in Writing <=> pc[q] \in Writing
                           /\ pc'[q] \in Trying <=> pc[q] \in Trying
                           /\ pc'[q] = "rename" => q = p \/ pc[q] = "rename"
    BY <1>0, <2>1 DEF Goto, Trying, Writing, TypeOK
  <2>3. AllKnown' /\ OneOwner' /\ NewLoginUnknown' /\ NewestTokenKept'
    BY <1>0, <2>1, <2>2 DEF locals, server, IInv, AllKnown, Known, OneOwner, Outdated,
                            NewLoginUnknown, NewestTokenKept
  <2>4. raced \/ source[cur[p]] = cred[p]
    BY <1>0, <1>1 DEF IInv, InStep, Follows, SameAccess, Shape
  <2>5. InStep'
    BY <1>0, <2>1, <2>2, <2>4 DEF locals, server, IInv, InStep, Follows, ClaudeCode
  <2>6. QED
    BY <2>3, <2>5 DEF IInv
<1>2. CASE ~SameAccess(source[cur[p]], cred[p])
  <2>1. Drops(p)
    BY <1>0, <1>2, RefreshFailsDrops DEF Reread
  <2>2. raced \/ cred[p].login \in gone
    <3> SUFFICES ASSUME ~raced, cred[p].login \notin gone PROVE FALSE
      OBVIOUS
    <3>1. /\ cred[p].present /\ Follows(cur[p], cred[p]) /\ cur[p] \in Sources
          /\ Outdated(cred[p].login) /\ grant[cred[p].login] = cred[p].gen + 1
      BY <1>0 DEF IInv, InStep, OneOwner, Shape
    <3>2. source[cur[p]].login = cred[p].login => source[cur[p]].gen < cred[p].gen + 1
      BY <3>1 DEF Outdated
    <3>3. source[cur[p]].gen \in Nat /\ cred[p].gen \in Nat
      BY <1>0, <3>1 DEF Shape
    <3>4. QED
      BY <1>2, <3>1, <3>2, <3>3 DEF Follows, SameAccess
  <2>3. MayLose
    BY <1>0 DEF MayLose, Shape, server
  <2>4. QED
    BY <1>0, <2>1, <2>2, <2>3, DropKeeps DEF server
<1>3. QED
  BY <1>1, <1>2

LEMMA ReadingKeeps ==
  ASSUME TypeOK, TypeOK', IInv, NEW p \in Pollers, Begin(p) \/ TryNext(p) \/ TryKeychain(p)
  PROVE  IInv'
<1>1. ASSUME NEW s \in Sources, NEW c, c.present, Try(p, s, c), pc[p] = "try",
             c \in {source[s], seen[p][s]},
             \A q \in Pollers \ {p} : seen'[q] = seen[q],
             \A t \in Sources : seen'[p][t] \in {seen[p][t], source[t]}
      PROVE  IInv'
  <2>1. Takes(p)
    BY <1>1 DEF TypeOK, Try, Goto, Takes, OthersStay, Writing
  <2>2. QED
    BY <1>1, <2>1, TakeKeeps DEF Try
<1>2. CASE Begin(p)
  <2>1. \A s \in Sources : seen'[p][s] \in {source[s], Absent}
    BY <1>2 DEF Begin, TypeOK
  <2>2. Takes(p)
    BY <1>2, <2>1 DEF TypeOK, Begin, Goto, Takes, OthersStay, Trying, Requests, Writing
  <2>3. QED
    BY <1>2, <2>2, TakeKeeps DEF Begin
<1>3. CASE TryNext(p)
  <2> DEFINE rest == Listed(seen[p]) \ tried[p]
             s == Freshest(seen[p], rest)
  <2>1. s \in rest
    <3>1. rest # {} /\ rest \in SUBSET Listed(seen[p]) /\ seen[p] \in [Sources -> Credentials]
      BY <1>3 DEF TryNext, TypeOK
    <3> HIDE DEF rest
    <3>2. QED
      BY <3>1, FreshestListed
  <2>2. Try(p, s, seen[p][s]) /\ pc[p] = "try" /\ seen' = seen
    BY <1>3 DEF TryNext
  <2>3. s \in Sources /\ seen[p][s].present
    BY <2>1 DEF Listed, Readable, Files, Sources
  <2> HIDE DEF s
  <2>4. QED
    BY <1>1, <2>2, <2>3
<1>4. CASE TryKeychain(p)
  <2>1. /\ source[Keychain].present /\ Try(p, Keychain, source[Keychain])
        /\ pc[p] = "try" /\ Keychain \in Sources
    BY <1>4 DEF TryKeychain, FilesExhausted, Sources
  <2>2. /\ \A q \in Pollers \ {p} : seen'[q] = seen[q]
        /\ \A t \in Sources : seen'[p][t] \in {seen[p][t], source[t]}
    BY <1>4 DEF TryKeychain, TypeOK
  <2>3. QED
    BY <1>1, <2>1, <2>2
<1>5. QED
  BY <1>2, <1>3, <1>4

LEMMA GivingUpKeeps ==
  ASSUME TypeOK, TypeOK', IInv, NEW p \in Pollers,
         \/ GiveUp(p) \/ FetchSucceeds(p) \/ FetchUnauthorized(p) \/ FetchFails(p)
         \/ ExchangeRefused(p) \/ ExchangeFails(p) \/ AnswerLost(p) \/ Crash(p)
  PROVE  IInv'
<1>0. Shape /\ MaxLogin \in Logins
  BY ShapeHolds, Numbers
<1>1. ASSUME Drops(p), UNCHANGED <<server, source, claude, raced>>, gone \subseteq gone',
             pc[p] \in Writing => cred[p].login \in gone'
      PROVE  IInv'
  <2>1. MayLose
    BY <1>0, <1>1 DEF MayLose, Shape, server
  <2>2. QED
    BY <1>1, <2>1, DropKeeps DEF server
<1>2. CASE GiveUp(p) \/ FetchSucceeds(p) \/ FetchFails(p)
  <2>1. Drops(p)
    BY <1>2, ReturnDrops DEF GiveUp, FetchSucceeds, FetchFails
  <2>2. QED
    BY <1>1, <1>2, <2>1
       DEF GiveUp, FilesExhausted, FetchSucceeds, FetchFails, Requests, Writing
<1>3. CASE FetchUnauthorized(p)
  <2>1. pc[p] \in Trying /\ pc[p] \notin Writing
    BY <1>3 DEF FetchUnauthorized, Trying, Requests, Writing
  <2>2. CASE mode[p] = "none" /\ CanRefresh(cur[p], cred[p])
    <3>1. Drops(p)
      BY <1>3, <2>1, <2>2 DEF FetchUnauthorized, Goto, TypeOK, Drops, OthersStay, Writing
    <3>2. QED
      BY <1>1, <1>3, <2>1, <3>1 DEF FetchUnauthorized
  <2>3. CASE ~(mode[p] = "none" /\ CanRefresh(cur[p], cred[p]))
    <3>1. Drops(p)
      BY <1>3, <2>3, RejectDrops DEF FetchUnauthorized
    <3>2. QED
      BY <1>1, <1>3, <2>1, <3>1 DEF FetchUnauthorized
  <2>4. QED
    BY <2>2, <2>3
<1>4. CASE ExchangeRefused(p) \/ ExchangeFails(p)
  <2>1. Drops(p)
    BY <1>4, RefreshFailsDrops DEF ExchangeRefused, ExchangeFails, Trying
  <2>2. QED
    BY <1>1, <1>4, <2>1 DEF ExchangeRefused, ExchangeFails, Writing
<1>5. CASE Crash(p)
  <2>1. Drops(p)
    BY <1>5, ReturnDrops DEF Crash
  <2>2. QED
    BY <1>1, <1>5, <2>1 DEF Crash
<1>6. CASE AnswerLost(p)
  <2> DEFINE m == cred[p].login
  <2>1. /\ Exchanges(cred[p]) /\ grant' = [grant EXCEPT ![m] = @ + 1]
        /\ gone' = gone \cup {m} /\ UNCHANGED <<live, source, claude, raced>>
        /\ pc[p] = "exchange"
    BY <1>6 DEF AnswerLost, Rotate
  <2>2. Drops(p)
    BY <1>6, RefreshFailsDrops DEF AnswerLost, Trying
  <2>3. ~Outdated(m) /\ m \in live /\ m \in Logins
    BY <1>0, <2>1 DEF Exchanges, Outdated, Shape
  <2>4. \A l \in Logins : grant'[l] = IF l = m THEN grant[l] + 1 ELSE grant[l]
    BY <2>1 DEF TypeOK
  <2>5. \A q \in Pollers : pc[q] \in Writing => cred[q].login # m
    BY <2>3 DEF IInv, OneOwner
  <2>6. claude.present => claude.login # m
    BY <2>3 DEF IInv, OneOwner
  <2> HIDE DEF m
  <2>7. MayLose
    BY <1>0, <2>1, <2>3, <2>4, <2>5, <2>6 DEF MayLose, Shape
  <2>8. QED
    BY <2>1, <2>2, <2>7, DropKeeps DEF Writing
<1>7. QED
  BY <1>2, <1>3, <1>4, <1>5, <1>6

\* Nothing of the invariant changes when time passes or an old login is revoked
LEMMA ServerKeeps ==
  ASSUME IInv, UNCHANGED <<grant, source, claude, pollVars, gone, raced>>,
         live' \subseteq live, MaxLogin \in live => MaxLogin \in live'
  PROVE  IInv'
<1>1. AllKnown' /\ OneOwner' /\ NewLoginUnknown' /\ NewestTokenKept'
  BY DEF pollVars, locals, IInv, AllKnown, Known, OneOwner, Outdated, NewLoginUnknown,
         NewestTokenKept
<1>2. InStep'
  BY DEF pollVars, locals, IInv, InStep, Follows, ClaudeCode
<1>3. QED
  BY <1>1, <1>2 DEF IInv

-----------------------------------------------------------------------------
(***************************************************************************)
(* Steps that rotate or write.                                             *)
(***************************************************************************)
\* A new generation of m is issued, and nobody has had one to write
LEMMA RotateKeeps ==
  ASSUME TypeOK, IInv, NEW m \in Logins, m \in live, ~Outdated(m),
         grant' = [grant EXCEPT ![m] = @ + 1], UNCHANGED <<source, seen, cred, live>>
  PROVE  /\ AllKnown' /\ NewLoginUnknown'
         /\ \A p \in Pollers : pc[p] \in Writing => cred[p].login # m
         /\ claude.present => claude.login # m
         /\ Outdated(m)'
         /\ \A l \in Logins : Outdated(l) => Outdated(l)'
         /\ \A l \in Logins : grant'[l] = IF l = m THEN grant[l] + 1 ELSE grant[l]
<1>0. Shape
  BY ShapeHolds
<1>1. \A l \in Logins : grant'[l] = IF l = m THEN grant[l] + 1 ELSE grant[l]
  BY DEF TypeOK
<1>2. AllKnown'
  BY <1>0, <1>1 DEF IInv, AllKnown, Known, Shape
<1>3. NewLoginUnknown'
  BY <1>0, <1>1, Numbers DEF IInv, NewLoginUnknown
<1>4. Outdated(m)'
  BY <1>0, <1>1 DEF IInv, AllKnown, Known, Outdated, Shape
<1>5. ASSUME NEW l \in Logins, Outdated(l) PROVE Outdated(l)'
  BY <1>0, <1>1, <1>5 DEF Outdated, Shape
<1>6. QED
  BY <1>1, <1>2, <1>3, <1>4, <1>5 DEF IInv, OneOwner

LEMMA ExchangeKeeps ==
  ASSUME TypeOK, TypeOK', IInv, NEW p \in Pollers, ExchangeSucceeds(p)
  PROVE  IInv'
<1> DEFINE m == cred[p].login
<1>0. Shape /\ Shape'
  BY ShapeHolds
<1>1. /\ pc[p] = "exchange" /\ Exchanges(cred[p]) /\ grant[m] < MaxGen
      /\ grant' = [grant EXCEPT ![m] = @ + 1]
      /\ rotated' = [rotated EXCEPT ![p] = Issued(p)]
      /\ pc' = [pc EXCEPT ![p] = "reread"]
      /\ UNCHANGED <<live, source, claude, seen, cur, cred, gone, raced>>
  BY DEF ExchangeSucceeds, Rotate, Goto
<1>2. m \in live /\ m \in Logins /\ ~Outdated(m) /\ cred[p].gen = grant[m] /\ cred[p].refresh
  BY <1>0, <1>1 DEF Exchanges, Outdated, Shape
<1>3. /\ Issued(p).present = cred[p].present /\ Issued(p).refresh = cred[p].refresh
      /\ Issued(p).login = m /\ Issued(p).gen = grant[m] + 1
  BY <1>1, TypeParts, IssuedTyped
<1>4. /\ \A q \in Pollers : pc[q] \in Writing => cred[q].login # m
      /\ claude.present => claude.login # m
      /\ Outdated(m)'
      /\ \A l \in Logins : Outdated(l) => Outdated(l)'
      /\ \A l \in Logins : grant'[l] = IF l = m THEN grant[l] + 1 ELSE grant[l]
      /\ AllKnown' /\ NewLoginUnknown'
  BY <1>1, <1>2, RotateKeeps
<1> HIDE DEF m
<1>5. \A q \in Pollers : /\ pc'[q] = IF q = p THEN "reread" ELSE pc[q]
                         /\ rotated'[q] = IF q = p THEN Issued(p) ELSE rotated[q]
  BY <1>1 DEF TypeOK
<1>6. OneOwner'
  <2>1. ASSUME NEW q \in Pollers, pc'[q] \in Writing
        PROVE  /\ rotated'[q].present = cred[q].present /\ rotated'[q].refresh
               /\ rotated'[q].login = cred[q].login
               /\ rotated'[q].gen = cred[q].gen + 1
               /\ rotated'[q].gen = grant'[cred[q].login]
               /\ Outdated(cred[q].login)'
               /\ q = p \/ (pc[q] \in Writing /\ cred[q].login # m)
               /\ claude.present => claude.login # cred[q].login
    <3>1. CASE q = p
      BY <1>1, <1>2, <1>3, <1>4, <1>5, <3>1 DEF m
    <3>2. CASE q # p
      <4>1. pc[q] \in Writing /\ rotated'[q] = rotated[q] /\ cred[q].login \in Logins
        BY <1>0, <1>5, <2>1, <3>2 DEF Shape
      <4>2. cred[q].login # m /\ grant'[cred[q].login] = grant[cred[q].login]
        BY <1>4, <4>1
      <4>3. Outdated(cred[q].login)
        BY <4>1 DEF IInv, OneOwner
      <4>4. Outdated(cred[q].login)'
        BY <1>1, <1>4, <4>1, <4>3 DEF Outdated
      <4>5. QED
        BY <4>1, <4>2, <4>4 DEF IInv, OneOwner
    <3>3. QED
      BY <3>1, <3>2
  <2>2. ASSUME claude.present
        PROVE  /\ claude.refresh /\ claude.gen >= 1 /\ claude.gen = grant'[claude.login]
               /\ Outdated(claude.login)'
    <3>1. claude.login # m /\ claude.login \in Logins /\ Outdated(claude.login)
      BY <1>0, <1>4, <2>2 DEF IInv, OneOwner, Shape
    <3>2. QED
      BY <1>1, <1>4, <2>2, <3>1 DEF IInv, OneOwner, Outdated
  <2>3. ASSUME NEW q \in Pollers, NEW r \in Pollers \ {q}, pc'[q] \in Writing, pc'[r] \in Writing
        PROVE  cred[r].login # cred[q].login
    <3>1. CASE q = p \/ r = p
      BY <2>1, <2>3, <3>1 DEF m
    <3>2. CASE q # p /\ r # p
      BY <2>1, <2>3, <3>2 DEF IInv, OneOwner
    <3>3. QED
      BY <3>1, <3>2
  <2>4. QED
    BY <1>1, <2>1, <2>2, <2>3 DEF OneOwner
<1>7. InStep'
  <2>1. \A q \in Pollers : /\ pc'[q] \in Trying <=> pc[q] \in Trying
                           /\ pc'[q] = "rename" => pc[q] = "rename"
    BY <1>1, <1>5 DEF Trying, Writing, Requests
  <2>2. QED
    BY <1>1, <2>1 DEF IInv, InStep, Follows, ClaudeCode
<1>8. NewestTokenKept'
  <2>1. CASE raced
    BY <1>1, <2>1 DEF NewestTokenKept
  <2>2. CASE ~raced
    <3> SUFFICES ASSUME NEW l \in live \ gone
                 PROVE  \/ \E s \in Sources :
                             source[s].refresh /\ source[s].login = l /\ source[s].gen = grant'[l]
                        \/ \E q \in Pollers :
                             pc'[q] \in Writing /\ rotated'[q].login = l /\ rotated'[q].gen = grant'[l]
                        \/ claude.present /\ claude.login = l /\ claude.gen = grant'[l]
      BY <1>1 DEF NewestTokenKept
    <3>1. l \in Logins
      BY DEF TypeOK
    <3>2. CASE l = m
      BY <1>3, <1>4, <1>5, <3>1, <3>2 DEF Writing
    <3>3. CASE l # m
      <4>1. grant'[l] = grant[l]
        BY <1>4, <3>1, <3>3
      <4>2. \A q \in Pollers : pc[q] \in Writing => pc'[q] \in Writing /\ rotated'[q] = rotated[q]
        BY <1>1, <1>5 DEF Writing
      <4>3. QED
        BY <2>2, <4>1, <4>2 DEF IInv, NewestTokenKept
    <3>4. QED
      BY <3>2, <3>3
  <2>3. QED
    BY <2>1, <2>2
<1>9. QED
  BY <1>4, <1>6, <1>7, <1>8 DEF IInv

LEMMA ClaudeExchangeKeeps ==
  ASSUME TypeOK, TypeOK', IInv, ClaudeExchanges
  PROVE  IInv'
<1> DEFINE c == source[ClaudeCode]
<1>0. Shape /\ Shape' /\ ClaudeCode \in Sources /\ c \in Credentials
  BY ShapeHolds DEF ClaudeCode, Sources, TypeOK
<1> PICK m \in Logins : m = c.login
  BY <1>0 DEF Credentials
<1>1. /\ ~claude.present /\ c.present /\ Exchanges(c)
      /\ grant' = [grant EXCEPT ![m] = @ + 1]
      /\ UNCHANGED <<live, source, pollVars, gone, raced>>
  BY DEF ClaudeExchanges, Rotate
<1>2. m \in live /\ m \in Logins /\ ~Outdated(m) /\ c.gen = grant[m] /\ c.refresh
  BY <1>0, <1>1 DEF Exchanges, Outdated, Shape
<1>3. claude'.present /\ claude'.refresh /\ claude'.login = m /\ claude'.gen = grant[m] + 1
  BY <1>0, <1>1, <1>2 DEF ClaudeExchanges, Credentials
<1>4. /\ \A q \in Pollers : pc[q] \in Writing => cred[q].login # m
      /\ Outdated(m)'
      /\ \A l \in Logins : Outdated(l) => Outdated(l)'
      /\ \A l \in Logins : grant'[l] = IF l = m THEN grant[l] + 1 ELSE grant[l]
      /\ AllKnown' /\ NewLoginUnknown'
  BY <1>1, <1>2, RotateKeeps DEF pollVars, locals
<1>5. OneOwner'
  <2>1. /\ claude'.gen >= 1 /\ claude'.gen = grant'[claude'.login] /\ Outdated(claude.login)'
    BY <1>0, <1>2, <1>3, <1>4 DEF Shape, Outdated
  <2>2. ASSUME NEW q \in Pollers, pc[q] \in Writing
        PROVE  /\ grant'[cred[q].login] = grant[cred[q].login] /\ Outdated(cred[q].login)'
               /\ claude'.login # cred[q].login
    BY <1>0, <1>1, <1>3, <1>4, <2>2 DEF IInv, OneOwner, Shape, pollVars, locals, Outdated
  <2>3. QED
    BY <1>1, <1>3, <2>1, <2>2 DEF IInv, OneOwner, pollVars, locals
<1>6. InStep'
  BY <1>1, <1>3 DEF IInv, InStep, Follows, ClaudeCode, pollVars, locals
<1>7. NewestTokenKept'
  <2>1. ASSUME NEW l \in live \ gone, l # m PROVE grant'[l] = grant[l]
    BY <1>4, <2>1 DEF TypeOK
  <2>2. grant'[m] = grant[m] + 1
    BY <1>2, <1>4
  <2>3. QED
    BY <1>1, <1>3, <2>1, <2>2 DEF IInv, NewestTokenKept, pollVars, locals
<1>8. QED
  BY <1>4, <1>5, <1>6, <1>7 DEF IInv

\* A source is given the only copy of the latest generation of its own login
LEMMA WriteFollows ==
  ASSUME TypeOK, NEW t \in Sources, NEW new \in Credentials, new.present, new.login = source[t].login,
         new.gen > source[t].gen, source' = [source EXCEPT ![t] = new], UNCHANGED gone,
         NEW s \in Sources, NEW c, c.gen \in Nat, Follows(s, c)
  PROVE  Follows(s, c)'
<1>1. source[t].gen \in Nat /\ new.gen \in Nat
  BY ShapeHolds DEF Shape, Credentials, Gens
<1>2. source'[s] = IF s = t THEN new ELSE source[s]
  BY DEF TypeOK
<1>3. QED
  BY <1>1, <1>2 DEF Follows

LEMMA RenameKeeps ==
  ASSUME TypeOK, TypeOK', IInv, NEW p \in Pollers, Rename(p)
  PROVE  IInv'
<1> DEFINE t == cur[p]
           new == rotated[p]
           m == cred[p].login
<1>0. Shape /\ Shape' /\ t \in Sources /\ new \in Credentials /\ m \in Logins
      /\ pc[p] = "rename" /\ pc[p] \in Writing /\ pc[p] \in Trying
  BY ShapeHolds DEF Rename, Shape, TypeOK, Trying, Writing
<1>1. /\ new.present = cred[p].present /\ new.refresh /\ new.login = m
      /\ new.gen = cred[p].gen + 1 /\ new.gen = grant[m] /\ Outdated(m)
      /\ \A q \in Pollers \ {p} : pc[q] \in Writing => cred[q].login # m
      /\ claude.present => claude.login # m
  BY <1>0 DEF IInv, OneOwner
<1>2. /\ source' = [source EXCEPT ![t] = new] /\ cred' = [cred EXCEPT ![p] = new]
      /\ pc' = [pc EXCEPT ![p] = IF mode[p] = "forced" THEN "refetch" ELSE "fetch"]
      /\ rotated' = [rotated EXCEPT ![p] = Absent]
      /\ UNCHANGED <<grant, live, claude, seen, cur, gone, raced>>
  BY DEF Rename, Goto, server
<1>3. raced \/ (source[t] = cred[p] /\ cred[p].present)
  BY <1>0 DEF IInv, InStep
<1> HIDE DEF t, new, m
<1>4. \A s \in Sources : source'[s] = IF s = t THEN new ELSE source[s]
  BY <1>2 DEF TypeOK
<1>5. \A q \in Pollers : /\ cred'[q] = IF q = p THEN new ELSE cred[q]
                         /\ pc'[q] \in Writing <=> q # p /\ pc[q] \in Writing
                         /\ pc'[q] \in Trying <=> pc[q] \in Trying
                         /\ pc'[q] = "rename" => q # p /\ pc[q] = "rename"
                         /\ q # p => rotated'[q] = rotated[q]
  BY <1>0, <1>2 DEF TypeOK, Trying, Writing, Requests
<1>6. AllKnown'
  BY <1>0, <1>1, <1>2, <1>4, <1>5 DEF IInv, AllKnown, Known, Shape
<1>7. ASSUME NEW l \in Logins, l # m, Outdated(l) PROVE Outdated(l)'
  BY <1>1, <1>2, <1>4, <1>5, <1>7 DEF Outdated
<1>8. OneOwner'
  <2>1. ASSUME NEW q \in Pollers, pc'[q] \in Writing
        PROVE  Outdated(cred[q].login)'
    <3>1. q # p /\ pc[q] \in Writing /\ cred'[q] = cred[q] /\ cred[q].login \in Logins
      BY <1>0, <1>5, <2>1 DEF Shape
    <3>2. cred[q].login # m /\ Outdated(cred[q].login)
      BY <1>1, <3>1 DEF IInv, OneOwner
    <3>3. QED
      BY <1>7, <3>1, <3>2 DEF Outdated
  <2>2. ASSUME claude.present PROVE Outdated(claude.login)'
    <3>1. claude.login \in Logins /\ claude.login # m /\ Outdated(claude.login)
      BY <1>0, <1>1, <2>2 DEF IInv, OneOwner, Shape
    <3>2. QED
      BY <1>2, <1>7, <3>1 DEF Outdated
  <2>3. QED
    BY <1>2, <1>5, <2>1, <2>2 DEF IInv, OneOwner
<1>9. NewLoginUnknown'
  <2>1. MaxLogin \notin live => m # MaxLogin
    BY DEF IInv, NewLoginUnknown, m
  <2>2. QED
    BY <1>1, <1>2, <1>4, <1>5, <2>1 DEF IInv, NewLoginUnknown
<1>10. InStep'
  <2>1. CASE raced
    BY <1>2, <2>1 DEF InStep
  <2>2. CASE ~raced
    <3>1. /\ source[t] = cred[p] /\ new.present /\ new.login = source[t].login
          /\ new.gen > source[t].gen /\ source[t].present
      BY <1>0, <1>1, <1>3, <2>2 DEF Shape, m
    <3>2. ASSUME NEW s \in Sources, NEW c, c.gen \in Nat, Follows(s, c)
          PROVE  Follows(s, c)'
      BY <1>0, <1>2, <3>1, <3>2, WriteFollows
    <3>3. ASSUME NEW q \in Pollers, pc'[q] \in Trying
          PROVE  (cred[q].present /\ Follows(cur[q], cred[q]))'
      <4>1. CASE q = p
        BY <1>0, <1>2, <1>4, <1>5, <3>1, <4>1 DEF Follows, t
      <4>2. CASE q # p
        <5>1. /\ cred[q].present /\ Follows(cur[q], cred[q]) /\ cur[q] \in Sources
              /\ cred'[q] = cred[q] /\ cur'[q] = cur[q] /\ cred[q].gen \in Nat
          BY <1>0, <1>2, <1>5, <2>2, <3>3, <4>2 DEF IInv, InStep, Shape
        <5>2. PICK x : x = cred[q]
          OBVIOUS
        <5>3. PICK y : y = cur[q]
          OBVIOUS
        <5>4. Follows(y, x)'
          BY <3>2, <5>1, <5>2, <5>3
        <5>5. QED
          BY <5>1, <5>2, <5>3, <5>4 DEF Follows
      <4>3. QED
        BY <4>1, <4>2
    <3>4. ASSUME NEW q \in Pollers, NEW s \in Sources, seen'[q][s].present
          PROVE  Follows(s, seen[q][s])'
      <4>1. PICK x : x = seen[q][s]
        OBVIOUS
      <4>2. Follows(s, x) /\ x.gen \in Nat
        BY <1>0, <1>2, <2>2, <3>4, <4>1 DEF IInv, InStep, Shape
      <4>3. Follows(s, x)'
        BY <3>2, <4>2
      <4>4. QED
        BY <1>2, <4>1, <4>3 DEF Follows
    <3>5. ASSUME NEW q \in Pollers, pc'[q] = "rename" PROVE source'[cur'[q]] = cred'[q]
      <4>1. /\ q # p /\ pc[q] = "rename" /\ cred'[q] = cred[q] /\ cur'[q] = cur[q]
            /\ pc[q] \in Writing /\ pc[q] \in Trying
        BY <1>2, <1>5, <3>5 DEF Writing, Trying
      <4>2. source[cur[q]] = cred[q] /\ cred[q].login # m /\ cur[q] \in Sources
        BY <1>0, <1>1, <2>2, <4>1 DEF IInv, InStep, Shape
      <4>3. cur[q] # t
        BY <3>1, <4>2 DEF m
      <4>4. QED
        BY <1>4, <4>1, <4>2, <4>3
    <3>6. source'[Keychain].present <=> source[Keychain].present
      BY <1>4, <3>1 DEF Sources
    <3>7. (claude.present => source[ClaudeCode].present /\ source[ClaudeCode].login = claude.login)'
      <4>1. ClaudeCode' = ClaudeCode /\ ClaudeCode \in Sources
        BY <3>6 DEF ClaudeCode, Sources
      <4>2. QED
        BY <1>1, <1>2, <1>4, <2>2, <3>1, <4>1 DEF IInv, InStep
    <3>8. \A s \in Sources : source'[s].refresh => source'[s].present
      BY <1>4, <2>2, <3>1 DEF IInv, InStep
    <3>9. QED
      BY <3>3, <3>4, <3>5, <3>7, <3>8 DEF InStep
  <2>3. QED
    BY <2>1, <2>2
<1>11. NewestTokenKept'
  <2>1. CASE raced
    BY <1>2, <2>1 DEF NewestTokenKept
  <2>2. CASE ~raced
    <3> SUFFICES ASSUME NEW l \in live \ gone
                 PROVE  \/ \E s \in Sources :
                             source'[s].refresh /\ source'[s].login = l /\ source'[s].gen = grant[l]
                        \/ \E q \in Pollers :
                             pc'[q] \in Writing /\ rotated'[q].login = l /\ rotated'[q].gen = grant[l]
                        \/ claude.present /\ claude.login = l /\ claude.gen = grant[l]
      BY <1>2 DEF NewestTokenKept
    <3>1. CASE l = m
      BY <1>0, <1>1, <1>4, <3>1
    <3>2. CASE l # m
      <4>1. source[t].login # l /\ rotated[p].login # l
        BY <1>1, <1>3, <2>2, <3>2 DEF m, new
      <4>2. QED
        BY <1>4, <1>5, <2>2, <4>1 DEF IInv, NewestTokenKept
    <3>3. QED
      BY <3>1, <3>2
  <2>3. QED
    BY <2>1, <2>2
<1>12. QED
  BY <1>6, <1>8, <1>9, <1>10, <1>11 DEF IInv

LEMMA WriteFailsKeeps ==
  ASSUME TypeOK, TypeOK', IInv, NEW p \in Pollers, WriteFails(p)
  PROVE  IInv'
<1>0. Shape /\ pc[p] \in Trying
  BY ShapeHolds DEF WriteFails, Trying
<1>1. Drops(p)
  BY <1>0, RefreshFailsDrops DEF WriteFails
<1>2. \A s \in Sources : source'[s] \in {source[s], cred[p]}
  BY DEF WriteFails, TypeOK
<1>3. raced \/ source' = source
  <2>1. pc[p] = "rename" => raced \/ source[cur[p]] = cred[p]
    BY DEF IInv, InStep
  <2>2. QED
    BY <2>1 DEF WriteFails, TypeOK
<1>4. gone \subseteq gone' /\ cred[p].login \in gone' /\ UNCHANGED <<live, claude, raced, grant>>
  BY DEF WriteFails, server
<1>5. MayLose
  BY <1>0, <1>4 DEF MayLose, Shape
<1>6. QED
  BY <1>1, <1>2, <1>3, <1>4, <1>5, DropKeeps

\* Claude Code replaces only the login it has exchanged
LEMMA ClaudeWritesKeeps ==
  ASSUME TypeOK, TypeOK', IInv, ClaudeWrites
  PROVE  IInv'
<1> PICK t \in Sources : t = ClaudeCode
  BY DEF ClaudeCode, Sources
<1> PICK new \in Credentials : new = claude
  BY DEF TypeOK
<1> DEFINE m == new.login
<1>0. Shape /\ Shape' /\ m \in Logins
  BY ShapeHolds DEF Credentials
<1>1. /\ new.present /\ new.refresh /\ new.gen >= 1 /\ new.gen = grant[m] /\ Outdated(m)
      /\ \A q \in Pollers : pc[q] \in Writing => cred[q].login # m
  BY DEF ClaudeWrites, IInv, OneOwner
<1>2. /\ source' = [source EXCEPT ![t] = new] /\ claude' = Absent
      /\ UNCHANGED <<grant, live, pc, seen, cur, cred, rotated, gone, raced>>
  BY DEF ClaudeWrites, server, pollVars, locals
<1>3. raced \/ (source[t].present /\ source[t].login = m /\ source[t].gen < new.gen)
  BY <1>1 DEF IInv, InStep, Outdated
<1>4. \A s \in Sources : source'[s] = IF s = t THEN new ELSE source[s]
  BY <1>2 DEF TypeOK
<1>5. m # MaxLogin \/ MaxLogin \in live
  BY <1>1 DEF IInv, NewLoginUnknown
<1>6. claude = new
  OBVIOUS
<1> HIDE DEF m
<1>7. AllKnown'
  BY <1>0, <1>1, <1>2, <1>4 DEF IInv, AllKnown, Known, Shape, m
<1>8. OneOwner'
  <2>1. ASSUME NEW q \in Pollers, pc[q] \in Writing PROVE Outdated(cred[q].login)'
    BY <1>1, <1>2, <1>4, <2>1 DEF IInv, OneOwner, Outdated, m
  <2>2. QED
    BY <1>2, <2>1, AbsentTyped DEF IInv, OneOwner
<1>9. NewLoginUnknown'
  BY <1>2, <1>4, <1>5 DEF IInv, NewLoginUnknown, m
<1>10. InStep'
  <2>1. CASE raced
    BY <1>2, <2>1 DEF InStep
  <2>2. CASE ~raced
    <3>1. ASSUME NEW s \in Sources, NEW c, c.gen \in Nat, Follows(s, c)
          PROVE  Follows(s, c)'
      BY <1>1, <1>2, <1>3, <2>2, <3>1, WriteFollows DEF m
    <3>2. ASSUME NEW q \in Pollers, pc'[q] \in Trying
          PROVE  (cred[q].present /\ Follows(cur[q], cred[q]))'
      <4>1. cred[q].present /\ Follows(cur[q], cred[q]) /\ cur[q] \in Sources /\ cred[q].gen \in Nat
        BY <1>0, <1>2, <2>2, <3>2 DEF IInv, InStep, Shape
      <4>2. PICK x : x = cred[q]
        OBVIOUS
      <4>3. PICK y : y = cur[q]
        OBVIOUS
      <4>4. Follows(y, x)'
        BY <3>1, <4>1, <4>2, <4>3
      <4>5. QED
        BY <1>2, <4>1, <4>2, <4>3, <4>4 DEF Follows
    <3>3. ASSUME NEW q \in Pollers, NEW s \in Sources, seen'[q][s].present
          PROVE  Follows(s, seen[q][s])'
      <4>1. PICK x : x = seen[q][s]
        OBVIOUS
      <4>2. Follows(s, x) /\ x.gen \in Nat
        BY <1>0, <1>2, <2>2, <3>3, <4>1 DEF IInv, InStep, Shape
      <4>3. Follows(s, x)'
        BY <3>1, <4>2
      <4>4. QED
        BY <1>2, <4>1, <4>3 DEF Follows
    <3>4. ASSUME NEW q \in Pollers, pc'[q] = "rename" PROVE source'[cur'[q]] = cred'[q]
      <4>1. /\ source[cur[q]] = cred[q] /\ cred[q].login # m /\ cur[q] \in Sources
        BY <1>0, <1>1, <1>2, <2>2, <3>4 DEF IInv, InStep, Shape, Trying, Writing
      <4>2. cur[q] # t
        BY <1>3, <2>2, <4>1
      <4>3. QED
        BY <1>2, <1>4, <4>1, <4>2
    <3>5. \A s \in Sources : source'[s].refresh => source'[s].present
      BY <1>1, <1>4, <2>2 DEF IInv, InStep
    <3>6. QED
      BY <1>2, <3>2, <3>3, <3>4, <3>5, AbsentTyped DEF InStep
  <2>3. QED
    BY <2>1, <2>2
<1>11. NewestTokenKept'
  <2>1. CASE raced
    BY <1>2, <2>1 DEF NewestTokenKept
  <2>2. CASE ~raced
    <3> SUFFICES ASSUME NEW l \in live \ gone
                 PROVE  \/ \E s \in Sources :
                             source'[s].refresh /\ source'[s].login = l /\ source'[s].gen = grant[l]
                        \/ \E q \in Pollers :
                             pc[q] \in Writing /\ rotated[q].login = l /\ rotated[q].gen = grant[l]
      BY <1>2 DEF NewestTokenKept
    <3>1. CASE l = m
      BY <1>1, <1>4, <3>1 DEF m
    <3>2. CASE l # m
      <4>1. source[t].login # l /\ claude.login # l
        BY <1>3, <1>6, <2>2, <3>2 DEF m
      <4>2. QED
        BY <1>4, <2>2, <4>1 DEF IInv, NewestTokenKept
    <3>3. QED
      BY <3>1, <3>2
  <2>3. QED
    BY <2>1, <2>2
<1>12. QED
  BY <1>7, <1>8, <1>9, <1>10, <1>11 DEF IInv

\* A new login replaces what a poll has read, unless the poll is past its second look
LEMMA LoginKeeps ==
  ASSUME TypeOK, TypeOK', IInv, Login
  PROVE  IInv'
<1> PICK t \in Sources : t = ClaudeCode
  BY DEF ClaudeCode, Sources
<1> PICK new : new = [present |-> TRUE, refresh |-> TRUE, login |-> MaxLogin, gen |-> 0,
                      exp |-> now + Lifetime, until |-> now + Lifetime]
  OBVIOUS
<1>0. Shape /\ Shape' /\ MaxLogin \in Logins
  BY ShapeHolds, Numbers
<1>1. new.present /\ new.refresh /\ new.login = MaxLogin /\ new.gen = 0
  OBVIOUS
<1>2. /\ ~claude.present /\ MaxLogin \notin live /\ live' = live \cup {MaxLogin}
      /\ source' = [source EXCEPT ![t] = new]
      /\ gone' = (IF source[t].present THEN gone \cup {source[t].login} ELSE gone) \ {MaxLogin}
      /\ raced' = (raced \/ \E p \in Pollers : pc[p] = "rename" /\ cur[p] = t)
      /\ UNCHANGED <<grant, claude, pc, seen, cur, cred, rotated>>
  BY DEF Login, pollVars, locals
<1>3. /\ MaxLogin # 0 /\ grant[MaxLogin] = 0
      /\ \A s \in Sources : source[s].login # MaxLogin
      /\ \A p \in Pollers : cred[p].login # MaxLogin /\ \A s \in Sources : seen[p][s].login # MaxLogin
  BY <1>2 DEF IInv, NewLoginUnknown
<1>4. \A s \in Sources : source'[s] = IF s = t THEN new ELSE source[s]
  BY <1>2 DEF TypeOK
<1>5. AllKnown'
  BY <1>1, <1>2, <1>3, <1>4 DEF IInv, AllKnown, Known
<1>6. OneOwner'
  <2>1. ASSUME NEW q \in Pollers, pc[q] \in Writing PROVE Outdated(cred[q].login)'
    BY <1>1, <1>2, <1>3, <1>4, <2>1 DEF IInv, OneOwner, Outdated
  <2>2. QED
    BY <1>2, <2>1 DEF IInv, OneOwner
<1>7. NewLoginUnknown'
  BY <1>2, <1>3 DEF NewLoginUnknown
<1>8. InStep'
  <2>1. CASE raced'
    BY <2>1 DEF InStep
  <2>2. CASE ~raced'
    <3>0. ~raced /\ \A p \in Pollers : pc[p] = "rename" => cur[p] # t
      BY <1>2, <2>2 DEF TypeOK
    <3>1. ASSUME NEW s \in Sources, NEW c, c.login # MaxLogin, Follows(s, c)
          PROVE  Follows(s, c)'
      <4>1. source[s].present /\ (source[s] = c \/ (source[s].login = c.login /\ source[s].gen > c.gen))
        BY <1>3, <3>1 DEF Follows
      <4>2. CASE s = t
        <5>1. c.login \in gone' /\ source'[s] = new
          BY <1>2, <1>4, <3>1, <4>1, <4>2
        <5>2. QED
          BY <1>1, <3>1, <5>1 DEF Follows
      <4>3. CASE s # t
        BY <1>4, <4>1, <4>3 DEF Follows
      <4>4. QED
        BY <4>2, <4>3
    <3>2. ASSUME NEW q \in Pollers, pc'[q] \in Trying
          PROVE  (cred[q].present /\ Follows(cur[q], cred[q]))'
      <4>1. cred[q].present /\ Follows(cur[q], cred[q]) /\ cur[q] \in Sources
        BY <1>0, <1>2, <3>0, <3>2 DEF IInv, InStep, Shape
      <4>2. PICK x : x = cred[q]
        OBVIOUS
      <4>3. PICK y : y = cur[q]
        OBVIOUS
      <4>4. Follows(y, x)'
        BY <1>3, <3>1, <4>1, <4>2, <4>3
      <4>5. QED
        BY <1>2, <4>1, <4>2, <4>3, <4>4 DEF Follows
    <3>3. ASSUME NEW q \in Pollers, NEW s \in Sources, seen'[q][s].present
          PROVE  Follows(s, seen[q][s])'
      <4>1. PICK x : x = seen[q][s]
        OBVIOUS
      <4>2. Follows(s, x)
        BY <1>2, <3>0, <3>3, <4>1 DEF IInv, InStep
      <4>3. Follows(s, x)'
        BY <1>3, <3>1, <4>1, <4>2
      <4>4. QED
        BY <1>2, <4>1, <4>3 DEF Follows
    <3>4. ASSUME NEW q \in Pollers, pc'[q] = "rename" PROVE source'[cur'[q]] = cred'[q]
      <4>1. source[cur[q]] = cred[q] /\ cur[q] \in Sources /\ cur[q] # t
        BY <1>0, <1>2, <3>0, <3>4 DEF IInv, InStep, Shape, Trying, Writing
      <4>2. QED
        BY <1>2, <1>4, <4>1
    <3>5. \A s \in Sources : source'[s].refresh => source'[s].present
      BY <1>1, <1>4, <3>0 DEF IInv, InStep
    <3>6. QED
      BY <1>2, <3>2, <3>3, <3>4, <3>5 DEF InStep
  <2>3. QED
    BY <2>1, <2>2
<1>9. NewestTokenKept'
  <2>1. CASE raced'
    BY <2>1 DEF NewestTokenKept
  <2>2. CASE ~raced'
    <3>0. ~raced
      BY <1>2, <2>2 DEF TypeOK
    <3> SUFFICES ASSUME NEW l \in live' \ gone'
                 PROVE  \/ \E s \in Sources :
                             source'[s].refresh /\ source'[s].login = l /\ source'[s].gen = grant[l]
                        \/ \E q \in Pollers :
                             pc[q] \in Writing /\ rotated[q].login = l /\ rotated[q].gen = grant[l]
      BY <1>2 DEF NewestTokenKept
    <3>1. CASE l = MaxLogin
      BY <1>1, <1>3, <1>4, <3>1
    <3>2. CASE l # MaxLogin
      <4>1. l \in live \ gone
        BY <1>2, <3>2
      <4>2. ~(source[t].refresh /\ source[t].login = l)
        BY <1>2, <3>0, <3>2 DEF IInv, InStep
      <4>3. QED
        BY <1>2, <1>4, <3>0, <4>1, <4>2 DEF IInv, NewestTokenKept
    <3>3. QED
      BY <3>1, <3>2
  <2>3. QED
    BY <2>1, <2>2
<1>10. QED
  BY <1>5, <1>6, <1>7, <1>8, <1>9 DEF IInv

-----------------------------------------------------------------------------
(***************************************************************************)
(* The theorems.                                                           *)
(***************************************************************************)
LEMMA InvariantHolds ==
  /\ Init => IInv
  /\ TypeOK /\ TypeOK' /\ IInv /\ [Next]_vars => IInv'
<1>1. Init => IInv
  <2> SUFFICES ASSUME Init PROVE IInv
    OBVIOUS
  <2>1. PICK f \in Setups : source = f.holds /\ live = f.live
    BY DEF Init
  <2>2. /\ MaxLogin # 0 /\ MaxLogin \notin live
        /\ \A s \in Sources : /\ source[s] \in Credentials /\ source[s].gen = 0
                              /\ source[s].login # MaxLogin
                              /\ source[s].refresh => source[s].present
    <3>1. \A s \in Sources : /\ f.holds[s] \in Credentials /\ f.holds[s].gen = 0
                             /\ f.holds[s].login # MaxLogin
                             /\ f.holds[s].refresh => f.holds[s].present
      BY ClaudeAssumption
    <3>2. MaxLogin \notin f.live
      BY ClaudeAssumption
    <3>3. f.holds[Env].login \in 0..MaxLogin /\ f.holds[Env].login # MaxLogin
      BY <3>1 DEF Sources, Credentials, Logins
    <3>4. QED
      BY <2>1, <3>1, <3>2, <3>3
  <2>3. AllKnown
    <3>1. \A s \in Sources : source[s].login \in Logins
      BY <2>2 DEF Credentials
    <3>2. \A l \in Logins : grant[l] = 0
      BY DEF Init
    <3>3. \A s \in Sources : Known(source[s])
      BY <2>2, <3>1, <3>2 DEF Known
    <3>4. Known(Absent)
      BY <3>2, AbsentTyped, Numbers DEF Known
    <3>5. \A p \in Pollers : cred[p] = Absent /\ \A s \in Sources : seen[p][s] = Absent
      BY DEF Init
    <3>6. QED
      BY <3>3, <3>4, <3>5 DEF AllKnown
  <2>4. OneOwner
    BY AbsentTyped DEF Init, OneOwner, Writing
  <2>5. NewLoginUnknown
    BY <2>2, AbsentTyped, Numbers DEF Init, NewLoginUnknown
  <2>6. InStep
    BY <2>2, AbsentTyped DEF Init, InStep, Trying, Requests, Writing
  <2>7. NewestTokenKept
    <3> SUFFICES ASSUME NEW l \in live \ gone
                 PROVE  \E s \in Sources :
                          source[s].refresh /\ source[s].login = l /\ source[s].gen = grant[l]
      BY DEF NewestTokenKept
    <3>1. l \in Logins
      BY <2>1, ClaudeAssumption
    <3>2. QED
      BY <2>2, <3>1 DEF Init
  <2>8. QED
    BY <2>3, <2>4, <2>5, <2>6, <2>7 DEF IInv
<1>2. TypeOK /\ TypeOK' /\ IInv /\ [Next]_vars => IInv'
  <2> SUFFICES ASSUME TypeOK, TypeOK', IInv, [Next]_vars PROVE IInv'
    OBVIOUS
  <2>1. ASSUME NEW p \in Pollers, Exchange(p) PROVE IInv'
    BY <2>1, ExchangeKeeps, GivingUpKeeps DEF Exchange
  <2>2. ASSUME NEW p \in Pollers, Write(p) PROVE IInv'
    BY <2>2, RereadKeeps, RenameKeeps, WriteFailsKeeps DEF Write
  <2>3. ASSUME NEW p \in Pollers, Begin(p) \/ Poll(p) \/ Crash(p) PROVE IInv'
    BY <2>1, <2>2, <2>3, ReadingKeeps, GivingUpKeeps DEF Poll
  <2>4. CASE Tick
    BY <2>4, ServerKeeps DEF Tick, server
  <2>5. ASSUME NEW l \in Logins, Revoke(l) PROVE IInv'
    BY <2>5, ServerKeeps DEF Revoke
  <2>6. CASE UNCHANGED vars
    BY <2>6, ServerKeeps DEF vars, server
  <2>7. QED
    BY <2>3, <2>4, <2>5, <2>6, ClaudeExchangeKeeps, ClaudeWritesKeeps, LoginKeeps DEF Next, Step
<1>3. QED
  BY <1>1, <1>2

\* The latest refresh token of every login the server accepts is in a source or
\* about to be written to one, apart from what faults and the user cost
\* (claude/credentials.go, persistToFile)
THEOREM NewestTokenKeptHolds == Spec => []NewestTokenKept
<1>1. IInv => NewestTokenKept
  BY DEF IInv
<1>2. QED
  BY <1>1, InvariantHolds, TypeCorrect, PTL DEF Spec

\* A source only ever gets a later generation of its login or a later login
\* (claude/credentials.go, persistToFile and persistToKeychain)
THEOREM NeverGoesBackHolds == Spec => NeverGoesBack
<1> DEFINE Forward ==
      raced \/ \A s \in Sources :
        \/ source'[s] = source[s]
        \/ source'[s].login > source[s].login
        \/ source'[s].login = source[s].login /\ source'[s].gen > source[s].gen
<1>1. TypeOK /\ IInv /\ [Next]_vars => [Forward]_vars
  <2> SUFFICES ASSUME TypeOK, IInv, ~raced, Next
               PROVE  \A s \in Sources :
                        \/ source'[s] = source[s]
                        \/ source'[s].login > source[s].login
                        \/ source'[s].login = source[s].login /\ source'[s].gen > source[s].gen
    OBVIOUS
  <2>0. Shape /\ ClaudeCode \in Sources /\ MaxLogin \in Logins
    BY ShapeHolds, Numbers DEF ClaudeCode, Sources
  <2>1. ASSUME NEW p \in Pollers, Rename(p)
        PROVE  \A s \in Sources : \/ source'[s] = source[s]
                                  \/ /\ source'[s].login = source[s].login
                                     /\ source'[s].gen > source[s].gen
    <3>1. /\ pc[p] = "rename" /\ source[cur[p]] = cred[p] /\ cred[p].gen \in Nat
          /\ rotated[p].login = cred[p].login /\ rotated[p].gen = cred[p].gen + 1
      BY <2>0, <2>1 DEF Rename, IInv, InStep, OneOwner, Writing, Shape
    <3>2. \A s \in Sources : source'[s] = IF s = cur[p] THEN rotated[p] ELSE source[s]
      BY <2>1 DEF Rename, TypeOK
    <3>3. rotated[p].gen > cred[p].gen
      BY <3>1
    <3>4. QED
      BY <3>1, <3>2, <3>3
  <2>2. ASSUME NEW p \in Pollers, WriteFails(p) PROVE source' = source
    BY <2>2 DEF WriteFails, IInv, InStep, TypeOK
  <2>3. ASSUME NEW p \in Pollers, Poll(p), ~Rename(p), ~WriteFails(p) PROVE source' = source
    BY <2>3 DEF Poll, Exchange, Write, TryNext, TryKeychain, Try, GiveUp, FetchSucceeds,
                FetchUnauthorized, FetchFails, ExchangeSucceeds, ExchangeRefused,
                ExchangeFails, AnswerLost, Reread
  <2>4. CASE ClaudeWrites
    <3>1. /\ source[ClaudeCode].login = claude.login
          /\ source[ClaudeCode].gen < claude.gen
      BY <2>0, <2>4 DEF ClaudeWrites, IInv, InStep, OneOwner, Outdated
    <3>2. \A s \in Sources : source'[s] = IF s = ClaudeCode THEN claude ELSE source[s]
      BY <2>4 DEF ClaudeWrites, TypeOK
    <3>3. claude.gen > source[ClaudeCode].gen
      BY <2>0, <3>1 DEF Shape
    <3>4. QED
      BY <3>1, <3>2, <3>3
  <2>5. CASE Login
    <3>1. \A s \in Sources : \/ source'[s] = source[s]
                             \/ s = ClaudeCode /\ source'[s].login = MaxLogin
      BY <2>5 DEF Login, TypeOK
    <3>2. source[ClaudeCode].login \in 0..MaxLogin /\ source[ClaudeCode].login # MaxLogin
      BY <2>0, <2>5 DEF Login, IInv, NewLoginUnknown, Shape, Logins
    <3>3. MaxLogin > source[ClaudeCode].login
      BY <3>2, Numbers
    <3>4. QED
      BY <3>1, <3>3
  <2>6. ASSUME NEW p \in Pollers, Begin(p) \/ Crash(p) PROVE source' = source
    BY <2>6 DEF Begin, Crash
  <2>7. ASSUME ClaudeExchanges \/ Tick \/ \E l \in Logins : Revoke(l) PROVE source' = source
    BY <2>7 DEF ClaudeExchanges, Tick, Revoke
  <2>8. QED
    BY <2>1, <2>2, <2>3, <2>4, <2>5, <2>6, <2>7 DEF Next, Step
<1>2. QED
  BY <1>1, InvariantHolds, TypeCorrect, PTL DEF Spec, NeverGoesBack

-----------------------------------------------------------------------------
(***************************************************************************)
(* auth_expired is reported of dead logins only.                           *)
(***************************************************************************)
\* A copy of login l that can be exchanged
Refreshes(c, l) == c.refresh /\ c.login = l

\* A token without a refresh token is of a login of its own, such as the one
\* that `claude setup-token` makes for CLAUDE_CODE_OAUTH_TOKEN
OwnLogins ==
  \A f \in Setups : \A s, t \in Sources :
    f.holds[s].present /\ ~f.holds[s].refresh => ~Refreshes(f.holds[t], f.holds[s].login)

Rotating(l) ==
  \/ Refreshes(claude, l)
  \/ \E s \in Sources : Refreshes(source[s], l)
  \/ \E p \in Pollers : \/ Refreshes(cred[p], l)
                        \/ \E s \in Sources : Refreshes(seen[p][s], l)

\* Nobody exchanges a token that has no refresh token
BareApart ==
  \A s \in Sources : source[s].present /\ ~source[s].refresh =>
    LET l == source[s].login IN l # MaxLogin /\ grant[l] = 0 /\ ~Rotating(l)

\* What a poll does not hold while it tries no login
FreshPoll(p) ==
  /\ pc[p] \in {"idle", "try"} => cur[p] = NoSource
  /\ pc[p] = "idle" => tried[p] = {} /\ steady[p] = {}
  /\ seen[p][Keychain].present => Keychain \in tried[p] \cup {cur[p]}

\* A source that has been good and untouched since the poll began: the poll has
\* it on its list, has read what it holds, and gives it up only with an excuse
SteadySource(p, s) ==
  /\ source[s].present
  /\ Good(source[s]) \/ (pc[p] \in Writing /\ cur[p] = s)
  /\ s # Keychain => seen[p][s].present
  /\ s # Env => ~seen[p][Env].present
  /\ s \in tried[p] => s \in excused[p]
  /\ s # Keychain /\ s \notin tried[p] /\ s # cur[p] => seen[p][s] = source[s]
  /\ s = cur[p] => cred[p] = source[s]

SteadyPoll(p) ==
  FreshPoll(p) /\ (pc[p] # "idle" => \A s \in steady[p] : SteadySource(p, s))

\* What becomes of the steady sources of a poll
LEMMA StaysSteadyMeans ==
  ASSUME TypeOK', NEW p \in Pollers, Observe
  PROVE  /\ pc'[p] = "idle" => steady'[p] = {}
         /\ steady'[p] \subseteq Sources
         /\ \A s \in steady'[p] :
              /\ pc[p] # "idle" =>
                   /\ s \in steady[p]
                   /\ source'[s] = source[s] \/ pc'[p] # pc[p]
                   /\ Good(source[s])' \/ (pc'[p] \in Writing /\ cur'[p] = s)
              /\ pc[p] = "idle" => Good(source[s])' /\ (source[Env].present => s = Env)
BY DEF TypeOK, Observe, StaysSteady

\* The other actors leave a poll alone
LEMMA OthersSteady ==
  ASSUME TypeOK, TypeOK', NEW q \in Pollers, SteadyPoll(q), Observe,
         pc'[q] = pc[q], seen'[q] = seen[q], tried'[q] = tried[q], cur'[q] = cur[q],
         cred'[q] = cred[q], excused'[q] = excused[q]
  PROVE  SteadyPoll(q)'
<1>1. FreshPoll(q)'
  BY StaysSteadyMeans DEF SteadyPoll, FreshPoll
<1>2. ASSUME pc'[q] # "idle", NEW s \in steady'[q] PROVE SteadySource(q, s)'
  <2>1. s \in steady[q] /\ source'[s] = source[s]
        /\ (Good(source[s])' \/ (pc'[q] \in Writing /\ cur'[q] = s))
    BY <1>2, StaysSteadyMeans
  <2>2. SteadySource(q, s)
    BY <1>2, <2>1 DEF SteadyPoll
  <2>3. QED
    BY <2>1, <2>2 DEF SteadySource
<1>3. QED
  BY <1>1, <1>2 DEF SteadyPoll

-----------------------------------------------------------------------------
(* The steps of the poll itself.                                            *)

LEMMA ReturnSteady ==
  ASSUME TypeOK, TypeOK', NEW p \in Pollers, NEW what, Return(p, what), Observe
  PROVE  SteadyPoll(p)'
<1>1. /\ pc'[p] = "idle" /\ cur'[p] = NoSource /\ tried'[p] = {}
      /\ seen'[p] = [s \in Sources |-> Absent]
  BY DEF TypeOK, Return, Goto
<1>2. ~seen'[p][Keychain].present
  BY <1>1, AbsentTyped DEF Sources
<1>3. QED
  BY <1>1, <1>2, StaysSteadyMeans DEF SteadyPoll, FreshPoll

\* The login being tried is given up: not a steady one without an excuse
LEMMA RejectSteady ==
  ASSUME TypeOK, TypeOK', NEW p \in Pollers, SteadyPoll(p), pc[p] \in Trying,
         Reject(p), Observe, excused[p] \subseteq excused'[p],
         cur[p] \in steady'[p] => cur[p] \in excused'[p],
         \A s \in Sources \ {cur[p]} : source'[s] = source[s]
  PROVE  SteadyPoll(p)'
<1>1. /\ pc'[p] = "try" /\ cur'[p] = NoSource /\ tried'[p] = tried[p] \cup {cur[p]}
      /\ seen' = seen
  BY DEF TypeOK, Reject, Goto
<1>2. pc[p] # "idle"
  BY DEF Trying, Requests, Writing
<1>3. FreshPoll(p)'
  BY <1>1 DEF SteadyPoll, FreshPoll
<1>4. ASSUME NEW s \in steady'[p] PROVE SteadySource(p, s)'
  <2>1. s \in steady[p] /\ s \in Sources /\ Good(source[s])'
    BY <1>1, <1>2, StaysSteadyMeans DEF Writing
  <2>2. SteadySource(p, s)
    BY <1>2, <2>1 DEF SteadyPoll
  <2>3. s # NoSource
    BY <2>1, SourcesDiffer
  <2>4. (source[s].present)'
    BY <2>1 DEF Good
  <2>5. s \in tried'[p] => s \in excused'[p]
    BY <1>1, <2>2 DEF SteadySource
  <2>6. s # Keychain /\ s \notin tried'[p] => seen'[p][s] = source'[s]
    BY <1>1, <2>1, <2>2 DEF SteadySource
  <2>7. QED
    BY <1>1, <2>1, <2>2, <2>3, <2>4, <2>5, <2>6 DEF SteadySource
<1>5. QED
  BY <1>3, <1>4 DEF SteadyPoll

\* The poll goes on with the login it tries
LEMMA OnwardSteady ==
  ASSUME TypeOK, TypeOK', NEW p \in Pollers, SteadyPoll(p), pc[p] \in Trying,
         pc'[p] \in Trying, Observe, excused[p] \subseteq excused'[p],
         seen'[p] = seen[p], tried'[p] = tried[p], cur'[p] = cur[p],
         \/ source' = source /\ cred'[p] = cred[p]
         \/ /\ pc'[p] \notin Writing
            /\ source'[cur[p]] = cred'[p] \/ (source'[cur[p]] = source[cur[p]] /\ cred'[p] = cred[p])
            /\ \A s \in Sources \ {cur[p]} : source'[s] = source[s]
  PROVE  SteadyPoll(p)'
<1>1. pc[p] # "idle" /\ pc'[p] \notin {"idle", "try"}
  BY DEF Trying, Requests, Writing
<1>2. FreshPoll(p)'
  BY <1>1 DEF SteadyPoll, FreshPoll
<1>3. ASSUME NEW s \in steady'[p] PROVE SteadySource(p, s)'
  <2>1. s \in steady[p] /\ s \in Sources
        /\ (Good(source[s])' \/ (pc'[p] \in Writing /\ cur'[p] = s))
    BY <1>1, StaysSteadyMeans
  <2>2. SteadySource(p, s)
    BY <1>1, <2>1 DEF SteadyPoll
  <2>3. (source[s].present)'
    BY <2>1, <2>2 DEF SteadySource, Good
  <2>4. s = cur'[p] => cred'[p] = source'[s]
    BY <2>2 DEF SteadySource
  <2>5. s # Keychain /\ s \notin tried'[p] /\ s # cur'[p] => seen'[p][s] = source'[s]
    BY <2>1, <2>2 DEF SteadySource
  <2>6. s \in tried'[p] => s \in excused'[p]
    BY <2>2 DEF SteadySource
  <2>7. QED
    BY <2>1, <2>2, <2>3, <2>4, <2>5, <2>6 DEF SteadySource
<1>4. QED
  BY <1>2, <1>3 DEF SteadyPoll

LEMMA RefreshFailsSteady ==
  ASSUME TypeOK, TypeOK', NEW p \in Pollers, SteadyPoll(p), pc[p] \in Trying,
         NEW dead \in BOOLEAN, RefreshFails(p, dead), Observe,
         dead => cur[p] \notin steady'[p],
         source'[cur[p]] \in {source[cur[p]], cred[p]},
         \A s \in Sources \ {cur[p]} : source'[s] = source[s]
  PROVE  SteadyPoll(p)'
<1>1. ASSUME pc'[p] # "idle"
      PROVE  /\ excused[p] \subseteq excused'[p]
             /\ mode[p] = "forced" /\ dead = FALSE => cur[p] \in excused'[p]
  BY <1>1 DEF TypeOK, RefreshFails
<1>2. CASE mode[p] = "forced"
  <2>1. Reject(p) /\ pc'[p] # "idle"
    BY <1>2 DEF RefreshFails, Reject, Goto, TypeOK
  <2>2. QED
    BY <1>1, <1>2, <2>1, RejectSteady
<1>3. CASE mode[p] = "early" /\ ~Expired(start[p], cred[p])
  <2>1. Goto(p, "fetch") /\ UNCHANGED locals
    BY <1>3 DEF RefreshFails
  <2>2. pc'[p] = "fetch" /\ seen'[p] = seen[p] /\ tried'[p] = tried[p] /\ cur'[p] = cur[p]
        /\ cred'[p] = cred[p]
    BY <2>1 DEF TypeOK, Goto, locals
  <2>3. pc'[p] \in Trying /\ pc'[p] \notin Writing
    BY <2>2 DEF Trying, Requests, Writing
  <2>4. QED
    BY <1>1, <2>2, <2>3, OnwardSteady
<1>4. CASE mode[p] # "forced" /\ ~(mode[p] = "early" /\ ~Expired(start[p], cred[p]))
  <2>1. IF dead THEN Reject(p) ELSE Return(p, "other")
    BY <1>4 DEF RefreshFails
  <2>2. CASE dead = TRUE
    <3>1. Reject(p) /\ pc'[p] # "idle"
      BY <2>1, <2>2 DEF Reject, Goto, TypeOK
    <3>2. QED
      BY <1>1, <2>2, <3>1, RejectSteady
  <2>3. CASE dead = FALSE
    BY <2>1, <2>3, ReturnSteady
  <2>4. QED
    BY <2>2, <2>3
<1>5. QED
  BY <1>2, <1>3, <1>4

\* The poll turns to the login of source s
LEMMA TrySteady ==
  ASSUME TypeOK, TypeOK', NEW p \in Pollers, SteadyPoll(p), pc[p] = "try",
         NEW s \in Sources, NEW c, Try(p, s, c), Observe,
         s \in steady[p] => c = source[s],
         \A t \in Sources : seen'[p][t] = seen[p][t] \/ (t = Keychain /\ s = Keychain)
  PROVE  SteadyPoll(p)'
<1>1. /\ pc'[p] \in {"exchange", "fetch"} /\ cur'[p] = s /\ cred'[p] = c
      /\ source' = source /\ tried' = tried /\ excused' = excused
  BY DEF TypeOK, Try, Goto
<1>2. cur[p] = NoSource
  BY DEF SteadyPoll, FreshPoll
<1>3. FreshPoll(p)'
  BY <1>1, <1>2, SourcesDiffer DEF SteadyPoll, FreshPoll, Sources
<1>4. ASSUME NEW t \in steady'[p] PROVE SteadySource(p, t)'
  <2>1. t \in steady[p] /\ t \in Sources /\ Good(source[t])'
    BY <1>1, StaysSteadyMeans DEF Writing
  <2>2. SteadySource(p, t) /\ t # NoSource
    BY <2>1, SourcesDiffer DEF SteadyPoll
  <2>3. (source[t].present)'
    BY <2>1 DEF Good
  <2>4. Env \in Sources /\ Env # Keychain
    BY SourcesDiffer DEF Sources
  <2>5. t # Env => ~seen'[p][Env].present
    BY <2>2, <2>4 DEF SteadySource
  <2>6. t # Keychain => seen'[p][t] = seen[p][t]
    BY <2>1
  <2>7. t = cur'[p] => cred'[p] = source'[t]
    BY <1>1, <2>1
  <2>8. QED
    BY <1>1, <1>2, <2>1, <2>2, <2>3, <2>5, <2>6, <2>7 DEF SteadySource
<1>5. QED
  BY <1>3, <1>4 DEF SteadyPoll

LEMMA BeginSteady ==
  ASSUME TypeOK, TypeOK', NEW p \in Pollers, SteadyPoll(p), Begin(p), Observe
  PROVE  SteadyPoll(p)'
<1>1. /\ pc[p] = "idle" /\ pc'[p] = "try" /\ cur' = cur /\ tried' = tried /\ cred' = cred
      /\ source' = source /\ excused' = excused
      /\ seen'[p] = [source EXCEPT ![Keychain] = Absent]
  BY DEF TypeOK, Begin, Goto
<1>2. cur[p] = NoSource /\ tried[p] = {}
  BY <1>1 DEF SteadyPoll, FreshPoll
<1>3. \A s \in Sources : seen'[p][s] = IF s = Keychain THEN Absent ELSE source[s]
  BY <1>1 DEF TypeOK
<1>4. FreshPoll(p)'
  BY <1>1, <1>2, <1>3, AbsentTyped DEF FreshPoll, Sources
<1>5. ASSUME NEW s \in steady'[p] PROVE SteadySource(p, s)'
  <2>1. s \in Sources /\ Good(source[s])' /\ (source[Env].present => s = Env)
    BY <1>1, StaysSteadyMeans
  <2>2. source'[s].present /\ s # NoSource
    BY <2>1, SourcesDiffer DEF Good
  <2>3. s # Env => ~seen'[p][Env].present
    BY <1>3, <2>1, SourcesDiffer DEF Sources
  <2>4. s # Keychain => seen'[p][s] = source'[s]
    BY <1>1, <1>3, <2>1
  <2>5. QED
    BY <1>1, <1>2, <2>1, <2>2, <2>3, <2>4 DEF SteadySource
<1>6. QED
  BY <1>4, <1>5 DEF SteadyPoll

\* The server refuses no refresh token of a steady source
LEMMA RefusedUnsteady ==
  ASSUME TypeOK, TypeOK', NEW p \in Pollers, SteadyPoll(p), ExchangeRefused(p), Observe
  PROVE  cur[p] \notin steady'[p]
<1> SUFFICES ASSUME cur[p] \in steady'[p] PROVE FALSE
  OBVIOUS
<1>0. PICK s : s = cur[p]
  OBVIOUS
<1>1. /\ pc[p] = "exchange" /\ ~Exchanges(cred[p]) /\ cred[p].refresh
      /\ UNCHANGED <<now, grant, live, source>>
  BY DEF ExchangeRefused, server, TypeOK
<1>2. pc'[p] \notin Writing
  BY DEF ExchangeRefused, RefreshFails, Reject, Return, Goto, TypeOK, Writing
<1>3. s \in steady[p] /\ Good(source[s])'
  BY <1>0, <1>1, <1>2, StaysSteadyMeans
<1>4. cred[p] = source[s]
  BY <1>0, <1>1, <1>3 DEF SteadyPoll, SteadySource
<1>5. Good(cred[p])
  BY <1>1, <1>3, <1>4 DEF Good, Exchanges, Accepts
<1>6. QED
  BY <1>1, <1>5 DEF Good

\* The usage endpoint refuses the token of a steady source only when it has run out
LEMMA UnauthorizedUnsteady ==
  ASSUME TypeOK, TypeOK', BareApart, NEW p \in Pollers, SteadyPoll(p),
         FetchUnauthorized(p), Observe, pc'[p] = "try", cur[p] \in steady'[p]
  PROVE  now >= cred[p].until
<1>0. PICK s : s = cur[p]
  OBVIOUS
<1>1. /\ pc[p] \in Requests /\ UNCHANGED <<now, grant, live, source>>
      /\ ~Accepts(cred[p]) \/ cred[p].gen < grant[cred[p].login]
  BY DEF FetchUnauthorized, server
<1>2. s \in steady[p] /\ s \in Sources /\ Good(source[s])'
  <2>1. pc'[p] \notin Writing /\ pc[p] # "idle"
    BY <1>1 DEF Writing, Requests
  <2>2. QED
    BY <1>0, <2>1, StaysSteadyMeans
<1>3. cred[p] = source[s]
  BY <1>0, <1>1, <1>2 DEF SteadyPoll, SteadySource, Requests
<1>4. Good(cred[p]) /\ cred[p].present
  BY <1>1, <1>2, <1>3 DEF Good, Exchanges, Accepts
<1>5. cred[p].gen \in Nat /\ cred[p].until \in Nat /\ now \in Nat
      /\ grant[cred[p].login] \in Nat
  <2>1. cred[p] \in Credentials /\ now \in 0..Horizon /\ grant \in [Logins -> Gens]
    BY DEF TypeOK
  <2>2. cred[p].gen \in Gens /\ cred[p].until \in Times /\ cred[p].login \in Logins
    BY <2>1 DEF Credentials
  <2>3. grant[cred[p].login] \in Gens
    BY <2>1, <2>2
  <2>4. Gens \subseteq Nat /\ Times \subseteq Nat /\ 0..Horizon \subseteq Nat
    BY Numbers DEF Gens, Times
  <2>5. QED
    BY <2>1, <2>2, <2>3, <2>4
<1>6. ~(cred[p].gen < grant[cred[p].login])
  <2>1. CASE cred[p].refresh
    BY <1>4, <1>5, <2>1 DEF Good, Exchanges
  <2>2. CASE ~cred[p].refresh
    <3>1. grant[cred[p].login] = 0
      BY <1>2, <1>3, <1>4, <2>2 DEF BareApart
    <3>2. QED
      BY <1>5, <3>1
  <2>3. QED
    BY <2>1, <2>2
<1>7. ~Accepts(cred[p]) /\ cred[p].login \in live
  BY <1>1, <1>4, <1>6 DEF Good, Exchanges, Accepts
<1>8. QED
  BY <1>5, <1>7 DEF Accepts

\* A step of the poll keeps what is known of its steady sources
LEMMA PollSteady ==
  ASSUME TypeOK, TypeOK', BareApart, NEW p \in Pollers, SteadyPoll(p),
         Begin(p) \/ Poll(p) \/ Crash(p), Observe
  PROVE  SteadyPoll(p)'
<1>1. CASE Begin(p)
  BY <1>1, BeginSteady
<1>2. CASE TryNext(p)
  <2> DEFINE rest == Listed(seen[p]) \ tried[p]
             s == Freshest(seen[p], rest)
  <2>1. s \in rest /\ rest \subseteq {Custom, Home, Env}
    <3>1. rest # {} /\ rest \in SUBSET Listed(seen[p]) /\ seen[p] \in [Sources -> Credentials]
      BY <1>2 DEF TryNext, TypeOK
    <3>2. Listed(seen[p]) \subseteq {Custom, Home, Env}
      BY DEF Listed, Readable, Files
    <3> HIDE DEF rest
    <3>3. QED
      BY <3>1, <3>2, FreshestListed
  <2>2. Try(p, s, seen[p][s]) /\ seen' = seen /\ pc[p] = "try"
    BY <1>2 DEF TryNext
  <2>3. s \in Sources /\ s # Keychain /\ s \notin tried[p]
    BY <2>1, SourcesDiffer DEF Sources
  <2> HIDE DEF s, rest
  <2>4. s # cur[p]
    BY <2>2, <2>3, SourcesDiffer DEF SteadyPoll, FreshPoll
  <2>5. s \in steady[p] => seen[p][s] = source[s]
    BY <2>2, <2>3, <2>4 DEF SteadyPoll, SteadySource
  <2>6. QED
    BY <2>2, <2>3, <2>5, TrySteady
<1>3. CASE TryKeychain(p)
  <2>1. Try(p, Keychain, source[Keychain]) /\ pc[p] = "try" /\ Keychain \in Sources
    BY <1>3 DEF TryKeychain, FilesExhausted, Sources
  <2>2. \A t \in Sources : seen'[p][t] = seen[p][t] \/ t = Keychain
    BY <1>3 DEF TryKeychain, TypeOK
  <2>3. QED
    BY <2>1, <2>2, TrySteady
<1>4. CASE GiveUp(p) \/ FetchSucceeds(p) \/ FetchFails(p) \/ Crash(p)
  <2>1. PICK what : Return(p, what)
    BY <1>4 DEF GiveUp, FetchSucceeds, FetchFails, Crash
  <2>2. QED
    BY <2>1, ReturnSteady
<1>5. CASE ExchangeSucceeds(p)
  <2>1. /\ pc[p] = "exchange" /\ pc'[p] = "reread"
        /\ UNCHANGED <<source, seen, tried, cur, cred, excused>>
    BY <1>5 DEF ExchangeSucceeds, Goto, TypeOK
  <2>2. pc[p] \in Trying /\ pc'[p] \in Trying
    BY <2>1 DEF Trying, Writing
  <2>3. QED
    BY <2>1, <2>2, OnwardSteady
<1>6. CASE ExchangeRefused(p)
  <2>1. RefreshFails(p, TRUE) /\ source' = source /\ pc[p] \in Trying
    BY <1>6 DEF ExchangeRefused, Trying
  <2>2. QED
    BY <1>6, <2>1, RefusedUnsteady, RefreshFailsSteady
<1>7. CASE ExchangeFails(p) \/ AnswerLost(p)
  <2>1. RefreshFails(p, FALSE) /\ source' = source /\ pc[p] \in Trying
    BY <1>7 DEF ExchangeFails, AnswerLost, Trying
  <2>2. QED
    BY <2>1, RefreshFailsSteady
<1>8. CASE Reread(p)
  <2>1. pc[p] = "reread" /\ source' = source /\ pc[p] \in Trying
    BY <1>8 DEF Reread, Trying, Writing
  <2>2. CASE SameAccess(source[cur[p]], cred[p])
    <3>1. pc'[p] = "rename" /\ UNCHANGED <<seen, tried, cur, cred, excused>>
      BY <1>8, <2>2 DEF Reread, Goto, TypeOK, locals
    <3>2. pc'[p] \in Trying
      BY <3>1 DEF Trying, Writing
    <3>3. QED
      BY <2>1, <3>1, <3>2, OnwardSteady
  <2>3. CASE ~SameAccess(source[cur[p]], cred[p])
    BY <1>8, <2>1, <2>3, RefreshFailsSteady DEF Reread
  <2>4. QED
    BY <2>2, <2>3
<1>9. CASE Rename(p)
  <2>1. /\ pc[p] = "rename" /\ pc'[p] \in {"fetch", "refetch"}
        /\ UNCHANGED <<seen, tried, cur, excused>>
    BY <1>9 DEF Rename, Goto, TypeOK
  <2>2. /\ pc[p] \in Trying /\ pc'[p] \in Trying /\ pc'[p] \notin Writing
        /\ cur[p] \in Sources
    BY <2>1 DEF Trying, Writing, Requests, TypeOK
  <2>3. source'[cur[p]] = cred'[p] /\ \A s \in Sources \ {cur[p]} : source'[s] = source[s]
    BY <1>9, <2>2 DEF Rename, TypeOK
  <2>4. QED
    BY <2>1, <2>2, <2>3, OnwardSteady
<1>10. CASE WriteFails(p)
  <2>1. pc[p] \in Trying /\ RefreshFails(p, FALSE)
    BY <1>10 DEF WriteFails, Trying
  <2>2. /\ source'[cur[p]] \in {source[cur[p]], cred[p]}
        /\ \A s \in Sources \ {cur[p]} : source'[s] = source[s]
    BY <1>10 DEF WriteFails, TypeOK, Sources
  <2>3. QED
    BY <2>1, <2>2, RefreshFailsSteady
<1>11. CASE FetchUnauthorized(p)
  <2>1. pc[p] \in Requests /\ source' = source /\ pc[p] \in Trying
    BY <1>11 DEF FetchUnauthorized, Trying
  <2>2. CASE mode[p] = "none" /\ CanRefresh(cur[p], cred[p])
    <3>1. pc'[p] = "exchange" /\ UNCHANGED <<seen, tried, cur, cred, excused>>
      BY <1>11, <2>2 DEF FetchUnauthorized, Goto, TypeOK
    <3>2. pc'[p] \in Trying
      BY <3>1 DEF Trying
    <3>3. QED
      BY <2>1, <3>1, <3>2, OnwardSteady
  <2>3. CASE ~(mode[p] = "none" /\ CanRefresh(cur[p], cred[p]))
    <3>1. /\ Reject(p)
          /\ excused' = [excused EXCEPT ![p] =
               IF now >= cred[p].until THEN @ \cup {cur[p]} ELSE @]
      BY <1>11, <2>3 DEF FetchUnauthorized
    <3>2. pc'[p] = "try"
      BY <3>1 DEF Reject, Goto, TypeOK
    <3>3. cur[p] \in steady'[p] => now >= cred[p].until
      BY <1>11, <3>2, UnauthorizedUnsteady
    <3>4. excused[p] \subseteq excused'[p] /\ (cur[p] \in steady'[p] => cur[p] \in excused'[p])
      BY <3>1, <3>3 DEF TypeOK
    <3>5. QED
      BY <2>1, <3>1, <3>4, RejectSteady
  <2>4. QED
    BY <2>2, <2>3
<1>12. QED
  BY <1>1, <1>2, <1>3, <1>4, <1>5, <1>6, <1>7, <1>8, <1>9, <1>10, <1>11
     DEF Poll, Exchange, Write

-----------------------------------------------------------------------------
(* A token without a refresh token stays as it is.                          *)

\* Whatever a poll holds or writes is a copy of what it read, or a rotation
Copies ==
  /\ claude' = claude
  /\ \A q \in Pollers :
       \/ cred'[q] \in {cred[q], Absent}
       \/ \E s \in Sources : cred'[q] \in {source[s], seen[q][s]}
       \/ pc[q] \in Writing /\ cred'[q] = rotated[q]
  /\ \A q \in Pollers, s \in Sources : seen'[q][s] \in {seen[q][s], Absent, source[s]}
  /\ \A s \in Sources :
       \/ source'[s] = source[s]
       \/ \E q \in Pollers : pc[q] \in Writing /\ source'[s] \in {rotated[q], cred[q]}
  /\ \/ grant' = grant
     \/ \E q \in Pollers : pc[q] = "exchange" /\ Rotate(cred[q].login)

LEMMA EndCopies ==
  ASSUME TypeOK, NEW p \in Pollers,
         Reject(p) \/ (\E what : Return(p, what)) \/ UNCHANGED locals
  PROVE  /\ \A q \in Pollers : cred'[q] \in {cred[q], Absent}
         /\ \A q \in Pollers, s \in Sources : seen'[q][s] \in {seen[q][s], Absent}
<1>1. CASE Reject(p) \/ UNCHANGED locals
  <2>1. seen' = seen /\ \A q \in Pollers : cred'[q] \in {cred[q], Absent}
    BY <1>1 DEF TypeOK, Reject, locals
  <2>2. QED
    BY <2>1
<1>2. CASE \E what : Return(p, what)
  <2>1. /\ seen' = [seen EXCEPT ![p] = [s \in Sources |-> Absent]]
        /\ cred' = [cred EXCEPT ![p] = Absent]
    BY <1>2 DEF Return
  <2>2. QED
    BY <2>1 DEF TypeOK
<1>3. QED
  BY <1>1, <1>2

LEMMA FailCopies ==
  ASSUME TypeOK, NEW p \in Pollers, NEW dead, RefreshFails(p, dead)
  PROVE  /\ \A q \in Pollers : cred'[q] \in {cred[q], Absent}
         /\ \A q \in Pollers, s \in Sources : seen'[q][s] \in {seen[q][s], Absent}
BY EndCopies DEF RefreshFails

LEMMA PollCopies ==
  ASSUME TypeOK, NEW p \in Pollers, Begin(p) \/ Poll(p) \/ Crash(p)
  PROVE  Copies
<1> USE DEF server
<1>1. CASE Begin(p)
  BY <1>1 DEF Begin, Copies, TypeOK
<1>2. CASE TryNext(p)
  <2> DEFINE rest == Listed(seen[p]) \ tried[p]
             s == Freshest(seen[p], rest)
  <2>1. s \in Sources
    <3>1. rest # {} /\ rest \in SUBSET Listed(seen[p]) /\ seen[p] \in [Sources -> Credentials]
      BY <1>2 DEF TryNext, TypeOK
    <3>2. Listed(seen[p]) \subseteq Sources
      BY DEF Listed, Readable, Files, Sources
    <3> HIDE DEF rest
    <3>3. QED
      BY <3>1, <3>2, FreshestListed
  <2>2. Try(p, s, seen[p][s]) /\ seen' = seen
    BY <1>2 DEF TryNext
  <2> HIDE DEF s, rest
  <2>3. QED
    BY <2>1, <2>2 DEF Try, Copies, TypeOK
<1>3. CASE TryKeychain(p)
  <2>1. Try(p, Keychain, source[Keychain]) /\ Keychain \in Sources
    BY <1>3 DEF TryKeychain, Sources
  <2>2. \A q \in Pollers, s \in Sources : seen'[q][s] \in {seen[q][s], source[s]}
    BY <1>3 DEF TryKeychain, TypeOK
  <2>3. QED
    BY <2>1, <2>2 DEF Try, Copies, TypeOK
<1>4. CASE GiveUp(p) \/ FetchSucceeds(p) \/ FetchFails(p) \/ Crash(p)
  <2>1. UNCHANGED <<source, claude, grant>> /\ \E what : Return(p, what)
    BY <1>4 DEF GiveUp, FetchSucceeds, FetchFails, Crash
  <2>2. QED
    BY <2>1, EndCopies DEF Copies
<1>5. CASE ExchangeSucceeds(p)
  BY <1>5 DEF ExchangeSucceeds, Copies
<1>6. CASE ExchangeRefused(p) \/ ExchangeFails(p)
  <2>1. UNCHANGED <<source, claude, grant>> /\ \E dead : RefreshFails(p, dead)
    BY <1>6 DEF ExchangeRefused, ExchangeFails
  <2>2. QED
    BY <2>1, FailCopies DEF Copies
<1>7. CASE AnswerLost(p)
  <2>1. /\ UNCHANGED <<source, claude>> /\ RefreshFails(p, FALSE)
        /\ pc[p] = "exchange" /\ Rotate(cred[p].login)
    BY <1>7 DEF AnswerLost
  <2>2. QED
    BY <2>1, FailCopies DEF Copies
<1>8. CASE Reread(p)
  <2>1. UNCHANGED <<source, claude, grant>>
        /\ (RefreshFails(p, FALSE) \/ UNCHANGED locals)
    BY <1>8 DEF Reread
  <2>2. QED
    BY <2>1, FailCopies, EndCopies DEF Copies
<1>9. CASE Rename(p)
  BY <1>9 DEF Rename, Copies, TypeOK, Writing
<1>10. CASE WriteFails(p)
  <2>1. UNCHANGED <<claude, grant>> /\ RefreshFails(p, FALSE) /\ pc[p] \in Writing
    BY <1>10 DEF WriteFails
  <2>2. \A s \in Sources : source'[s] \in {source[s], cred[p]}
    BY <1>10 DEF WriteFails, TypeOK
  <2>3. QED
    BY <2>1, <2>2, FailCopies DEF Copies
<1>11. CASE FetchUnauthorized(p)
  <2>1. UNCHANGED <<source, claude, grant>> /\ (Reject(p) \/ UNCHANGED <<seen, cred>>)
    BY <1>11 DEF FetchUnauthorized
  <2>2. QED
    BY <2>1, EndCopies DEF Copies
<1>12. QED
  BY <1>1, <1>2, <1>3, <1>4, <1>5, <1>6, <1>7, <1>8, <1>9, <1>10, <1>11
     DEF Poll, Exchange, Write

\* A source that changes gets a refresh token, a login that rotates had one, and a
\* copy with a refresh token is of a login that had one
RefreshSpreads ==
  /\ \A s \in Sources : source'[s] = source[s] \/ source'[s].refresh
  /\ \A l \in Logins : Rotating(l)' => Rotating(l) \/ l = MaxLogin
  /\ \A l \in Logins : grant'[l] = grant[l] \/ Rotating(l)

LEMMA CopiesSpread ==
  ASSUME TypeOK, TypeOK', IInv, Copies
  PROVE  RefreshSpreads
<1>1. ASSUME NEW q \in Pollers, pc[q] \in Writing \cup {"exchange"}
      PROVE  Refreshes(cred[q], cred[q].login)
  BY <1>1 DEF TypeOK, Refreshes
<1>2. ASSUME NEW q \in Pollers, pc[q] \in Writing
      PROVE  rotated[q].refresh /\ rotated[q].login = cred[q].login
  BY <1>2 DEF IInv, OneOwner
<1>3. \A s \in Sources : source'[s] = source[s] \/ source'[s].refresh
  BY <1>1, <1>2 DEF Copies, Refreshes
<1>4. ASSUME NEW l \in Logins, Rotating(l)' PROVE Rotating(l)
  <2>1. \A m : ~Refreshes(Absent, m)
    BY DEF Refreshes, Absent
  <2>2. ASSUME NEW s \in Sources, Refreshes(source'[s], l) PROVE Rotating(l)
    BY <1>1, <1>2, <2>2 DEF Copies, Refreshes, Rotating
  <2>3. ASSUME NEW q \in Pollers, Refreshes(cred'[q], l) PROVE Rotating(l)
    BY <1>1, <1>2, <2>1, <2>3 DEF Copies, Refreshes, Rotating
  <2>4. ASSUME NEW q \in Pollers, NEW s \in Sources, Refreshes(seen'[q][s], l)
        PROVE  Rotating(l)
    BY <2>1, <2>4 DEF Copies, Rotating
  <2>5. QED
    BY <1>4, <2>2, <2>3, <2>4 DEF Rotating, Copies, Refreshes
<1>5. ASSUME NEW l \in Logins, grant'[l] # grant[l] PROVE Rotating(l)
  <2>1. PICK q \in Pollers : pc[q] = "exchange" /\ Rotate(cred[q].login)
    BY <1>5 DEF Copies
  <2>2. l = cred[q].login
    BY <1>5, <2>1 DEF Rotate, TypeOK
  <2>3. QED
    BY <1>1, <2>1, <2>2 DEF Rotating
<1>6. QED
  BY <1>3, <1>4, <1>5 DEF RefreshSpreads

LEMMA BareStays ==
  ASSUME TypeOK, BareApart, RefreshSpreads
  PROVE  BareApart'
<1> SUFFICES ASSUME NEW s \in Sources, source'[s].present, ~source'[s].refresh
             PROVE  /\ source'[s].login # MaxLogin /\ grant'[source'[s].login] = 0
                    /\ ~Rotating(source[s].login)'
  BY DEF BareApart
<1>1. source'[s] = source[s]
  BY DEF RefreshSpreads
<1>2. PICK l \in Logins : l = source[s].login
  BY DEF TypeOK, Credentials
<1>3. l # MaxLogin /\ grant[l] = 0 /\ ~Rotating(l)
  BY <1>1, <1>2 DEF BareApart
<1>4. ~Rotating(l)' /\ grant'[l] = 0
  BY <1>3 DEF RefreshSpreads
<1>5. QED
  BY <1>1, <1>2, <1>3, <1>4 DEF Rotating

LEMMA BareKept ==
  TypeOK /\ TypeOK' /\ IInv /\ BareApart /\ [Next]_vars => BareApart'
<1> SUFFICES ASSUME TypeOK, TypeOK', IInv, BareApart, [Next]_vars PROVE RefreshSpreads
  BY BareStays
<1>1. ASSUME NEW p \in Pollers, Begin(p) \/ Poll(p) \/ Crash(p) PROVE RefreshSpreads
  BY <1>1, PollCopies, CopiesSpread
<1>2. ASSUME UNCHANGED <<grant, source, claude, seen, cred>> PROVE RefreshSpreads
  BY <1>2 DEF RefreshSpreads, Rotating
<1>3. CASE Tick \/ (\E l \in Logins : Revoke(l)) \/ UNCHANGED vars
  BY <1>2, <1>3 DEF Tick, Revoke, vars, server, pollVars, locals
<1>4. ClaudeCode \in Sources
  BY DEF ClaudeCode, Sources
<1>5. CASE ClaudeExchanges
  <2>1. /\ UNCHANGED <<source, seen, cred>> /\ source[ClaudeCode].refresh
        /\ claude'.login = source[ClaudeCode].login
        /\ Rotate(source[ClaudeCode].login)
    BY <1>5 DEF ClaudeExchanges, Exchanges, pollVars, locals
  <2>2. Rotating(source[ClaudeCode].login)
    BY <1>4, <2>1 DEF Rotating, Refreshes
  <2>3. \A l \in Logins : grant'[l] = grant[l] \/ l = source[ClaudeCode].login
    BY <2>1 DEF Rotate, TypeOK
  <2>4. QED
    BY <2>1, <2>2, <2>3 DEF RefreshSpreads, Rotating, Refreshes
<1>6. CASE ClaudeWrites
  <2>1. /\ UNCHANGED <<grant, seen, cred>> /\ claude.refresh /\ claude' = Absent
        /\ \A s \in Sources : source'[s] = IF s = ClaudeCode THEN claude ELSE source[s]
    BY <1>6 DEF ClaudeWrites, server, pollVars, locals, IInv, OneOwner, TypeOK
  <2>2. ~Absent.refresh
    BY DEF Absent
  <2>3. QED
    BY <2>1, <2>2 DEF RefreshSpreads, Rotating, Refreshes
<1>7. CASE Login
  <2>1. /\ UNCHANGED <<grant, seen, cred, claude>>
        /\ \A s \in Sources : \/ source'[s] = source[s]
                              \/ source'[s].refresh /\ source'[s].login = MaxLogin
    BY <1>7 DEF Login, pollVars, locals, TypeOK
  <2>2. QED
    BY <2>1 DEF RefreshSpreads, Rotating, Refreshes
<1>8. QED
  BY <1>1, <1>3, <1>5, <1>6, <1>7 DEF Next, Step

\* A step of one poll leaves the locals of the others alone
LEMMA OthersUntouched ==
  ASSUME TypeOK, NEW p \in Pollers, NEW q \in Pollers, p # q,
         Begin(p) \/ Poll(p) \/ Crash(p)
  PROVE  /\ pc'[q] = pc[q] /\ seen'[q] = seen[q] /\ tried'[q] = tried[q]
         /\ cur'[q] = cur[q] /\ cred'[q] = cred[q] /\ excused'[q] = excused[q]
<1> DEFINE Untouched ==
      /\ pc'[q] = pc[q] /\ seen'[q] = seen[q] /\ tried'[q] = tried[q]
      /\ cur'[q] = cur[q] /\ cred'[q] = cred[q]
<1>1. ASSUME NEW what, Return(p, what) PROVE Untouched
  BY <1>1 DEF Return, Goto, TypeOK
<1>2. ASSUME Reject(p) PROVE Untouched
  BY <1>2 DEF Reject, Goto, TypeOK
<1>3. ASSUME NEW place, Goto(p, place), UNCHANGED locals PROVE Untouched
  BY <1>3 DEF Goto, locals, TypeOK
<1>4. ASSUME NEW dead, RefreshFails(p, dead) PROVE Untouched /\ excused'[q] = excused[q]
  <2>1. excused'[q] = excused[q]
    BY <1>4 DEF RefreshFails, TypeOK
  <2> HIDE DEF Untouched
  <2>2. QED
    BY <1>1, <1>2, <1>3, <1>4, <2>1 DEF RefreshFails
<1>5. CASE Begin(p)
  BY <1>5 DEF Begin, Goto, TypeOK
<1>6. CASE TryNext(p) \/ TryKeychain(p)
  BY <1>6 DEF TryNext, TryKeychain, Try, Goto, TypeOK
<1>7. CASE GiveUp(p) \/ FetchSucceeds(p) \/ FetchFails(p) \/ Crash(p)
  <2>1. excused' = [excused EXCEPT ![p] = {}] /\ \E what : Return(p, what)
    BY <1>7 DEF GiveUp, FetchSucceeds, FetchFails, Crash
  <2>2. excused'[q] = excused[q]
    BY <2>1 DEF TypeOK
  <2>3. QED
    BY <1>1, <2>1, <2>2
<1>8. CASE ExchangeSucceeds(p) \/ Rename(p)
  BY <1>8 DEF ExchangeSucceeds, Rename, Goto, TypeOK
<1>9. CASE ExchangeRefused(p) \/ ExchangeFails(p) \/ AnswerLost(p) \/ WriteFails(p)
  <2>1. \E dead : RefreshFails(p, dead)
    BY <1>9 DEF ExchangeRefused, ExchangeFails, AnswerLost, WriteFails
  <2>2. QED
    BY <1>4, <2>1
<1>10. CASE Reread(p)
  <2>1. \/ RefreshFails(p, FALSE)
        \/ Goto(p, "rename") /\ UNCHANGED locals /\ excused' = excused
    BY <1>10 DEF Reread
  <2>2. QED
    BY <1>3, <1>4, <2>1
<1>11. CASE FetchUnauthorized(p)
  <2>1. /\ excused'[q] = excused[q]
        /\ \/ Reject(p)
           \/ Goto(p, "exchange") /\ UNCHANGED <<seen, tried, cur, cred>>
    BY <1>11 DEF FetchUnauthorized, TypeOK
  <2>2. QED
    BY <1>2, <2>1 DEF Goto, TypeOK
<1>12. QED
  BY <1>5, <1>6, <1>7, <1>8, <1>9, <1>10, <1>11 DEF Poll, Exchange, Write

LEMMA SteadyInit ==
  ASSUME Init, OwnLogins
  PROVE  BareApart /\ \A p \in Pollers : SteadyPoll(p)
<1>1. ASSUME NEW p \in Pollers PROVE SteadyPoll(p)
  <2>1. /\ pc[p] = "idle" /\ cur[p] = NoSource /\ tried[p] = {} /\ steady[p] = {}
        /\ \A s \in Sources : seen[p][s] = Absent
    BY DEF Init
  <2>2. QED
    BY <2>1, AbsentTyped DEF SteadyPoll, FreshPoll, Sources
<1>2. BareApart
  <2>1. PICK f \in Setups : source = f.holds
    BY DEF Init
  <2>2. ASSUME NEW s \in Sources, source[s].present, ~source[s].refresh
        PROVE  source[s].login \in Logins \ {MaxLogin} /\ ~Rotating(source[s].login)
    <3>1. source[s] \in Credentials /\ source[s].login # MaxLogin
      BY <2>1, ClaudeAssumption
    <3>2. \A t \in Sources : ~Refreshes(source[t], source[s].login)
      BY <2>1, <2>2 DEF OwnLogins
    <3>3. ~Absent.refresh
      BY DEF Absent
    <3>4. claude = Absent /\ \A p \in Pollers :
            cred[p] = Absent /\ \A t \in Sources : seen[p][t] = Absent
      BY DEF Init
    <3>5. QED
      BY <3>1, <3>2, <3>3, <3>4 DEF Rotating, Refreshes, Credentials
  <2>3. QED
    BY <2>2 DEF BareApart, Init
<1>3. QED
  BY <1>1, <1>2

LEMMA SteadyKept ==
  /\ TypeOK /\ TypeOK' /\ BareApart /\ [Next]_vars
  /\ \A p \in Pollers : SteadyPoll(p)
  => (\A p \in Pollers : SteadyPoll(p))'
<1> SUFFICES ASSUME TypeOK, TypeOK', BareApart, [Next]_vars, NEW q \in Pollers, SteadyPoll(q)
             PROVE  SteadyPoll(q)'
  OBVIOUS
<1>1. CASE UNCHANGED vars
  BY <1>1 DEF vars, server, pollVars, locals, SteadyPoll, FreshPoll, SteadySource, Good,
     Exchanges, Accepts
<1>2. ASSUME Next, UNCHANGED <<pollVars, excused>> PROVE SteadyPoll(q)'
  BY <1>2, OthersSteady DEF Next, pollVars, locals
<1>3. ASSUME Next, NEW p \in Pollers, p # q, Begin(p) \/ Poll(p) \/ Crash(p)
      PROVE  SteadyPoll(q)'
  BY <1>3, OthersUntouched, OthersSteady DEF Next
<1>4. CASE Next /\ (Begin(q) \/ Poll(q) \/ Crash(q))
  BY <1>4, PollSteady DEF Next
<1>5. CASE Next /\ ~\E p \in Pollers : Begin(p) \/ Poll(p) \/ Crash(p)
  <2>1. UNCHANGED <<pollVars, excused>>
    BY <1>5 DEF Next, Step, ClaudeExchanges, ClaudeWrites, Login, Tick, Revoke
  <2>2. QED
    BY <1>2, <1>5, <2>1
<1>6. QED
  BY <1>1, <1>3, <1>4, <1>5 DEF Next

\* When a poll ends with auth_expired it has tried every steady source
LEMMA OnlyExcusedExpire ==
  ASSUME TypeOK, NEW p \in Pollers, SteadyPoll(p), Next,
         pc[p] # "idle", pc'[p] = "idle", outcome'[p] = "auth_expired"
  PROVE  steady[p] \subseteq excused[p]
<1>1. PICK q \in Pollers : Begin(q) \/ Poll(q) \/ Crash(q)
  BY DEF Next, Step, ClaudeExchanges, ClaudeWrites, Login, Tick, Revoke, pollVars
<1>2. q = p
  BY <1>1, OthersUntouched
<1>3. GiveUp(p)
  <2>1. ASSUME Return(p, "ok") \/ Return(p, "other") PROVE FALSE
    BY <2>1 DEF Return, TypeOK
  <2>2. ~Begin(p) /\ ~TryNext(p) /\ ~TryKeychain(p) /\ ~ExchangeSucceeds(p) /\ ~Rename(p)
    BY DEF Begin, TryNext, TryKeychain, Try, ExchangeSucceeds, Rename, Goto, TypeOK
  <2>3. ~Reject(p)
    BY DEF Reject, Goto, TypeOK
  <2>4. \A dead : ~RefreshFails(p, dead)
    BY <2>1, <2>3 DEF RefreshFails, Goto, TypeOK
  <2>5. ~ExchangeRefused(p) /\ ~ExchangeFails(p) /\ ~AnswerLost(p) /\ ~WriteFails(p)
    BY <2>4 DEF ExchangeRefused, ExchangeFails, AnswerLost, WriteFails
  <2>6. ~Reread(p)
    BY <2>4 DEF Reread, Goto, TypeOK
  <2>7. ~FetchSucceeds(p) /\ ~FetchFails(p) /\ ~Crash(p)
    BY <2>1 DEF FetchSucceeds, FetchFails, Crash
  <2>8. ~FetchUnauthorized(p)
    BY <2>3 DEF FetchUnauthorized, Goto, TypeOK
  <2>9. QED
    BY <1>1, <1>2, <2>2, <2>5, <2>6, <2>7, <2>8 DEF Poll, Exchange, Write
<1>4. /\ pc[p] = "try" /\ Listed(seen[p]) \subseteq tried[p]
      /\ seen[p][Env].present \/ seen[p][Keychain].present \/ ~source[Keychain].present
  BY <1>3 DEF GiveUp, FilesExhausted
<1>5. ASSUME NEW s \in steady[p] PROVE s \in tried[p]
  <2>1. SteadySource(p, s) /\ s \in Sources /\ cur[p] = NoSource
    BY <1>4 DEF SteadyPoll, FreshPoll, TypeOK
  <2>2. CASE s = Env
    BY <1>4, <2>1, <2>2, SourcesDiffer DEF SteadySource, Listed
  <2>3. CASE s \in Files
    BY <1>4, <2>1, <2>3, SourcesDiffer DEF SteadySource, Listed, Readable, Files
  <2>4. CASE s = Keychain
    <3>1. seen[p][Keychain].present
      BY <1>4, <2>1, <2>4, SourcesDiffer DEF SteadySource
    <3>2. QED
      BY <2>1, <2>4, <3>1, SourcesDiffer DEF SteadyPoll, FreshPoll
  <2>5. QED
    BY <2>1, <2>2, <2>3, <2>4 DEF Sources, Files
<1>6. QED
  BY <1>4, <1>5 DEF SteadyPoll, SteadySource

\* However polls, Claude Code, logins, revocations and faults interleave, Fetch
\* says auth_expired only when every source that has held a good login untouched
\* all through the poll was refused a refresh for another reason and ran out
\* (Fetch and fetchWithCredential in claude/claude.go)
THEOREM AuthExpiredIsTrueHolds ==
  ASSUME OwnLogins
  PROVE  Spec => AuthExpiredIsTrue
<1> DEFINE AllSteady == \A p \in Pollers : SteadyPoll(p)
<1>1. Init => BareApart /\ AllSteady
  BY SteadyInit
<1>2. TypeOK /\ TypeOK' /\ BareApart /\ AllSteady /\ [Next]_vars => AllSteady'
  BY SteadyKept
<1>3. TypeOK /\ AllSteady /\ [Next]_vars
        => [\A p \in Pollers :
              pc[p] # "idle" /\ pc'[p] = "idle" /\ outcome'[p] = "auth_expired"
                => steady[p] \subseteq excused[p]]_vars
  BY OnlyExcusedExpire
<1> HIDE DEF AllSteady
<1>4. QED
  BY <1>1, <1>2, <1>3, InvariantHolds, TypeCorrect, BareKept, PTL DEF Spec, AuthExpiredIsTrue
=============================================================================
