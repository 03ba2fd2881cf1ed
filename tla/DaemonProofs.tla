---------------------------- MODULE DaemonProofs ----------------------------
(***************************************************************************)
(* Theorems about Daemon for every number of accounts and every timing     *)
(* constant, without the bounds of the model-checked instances.            *)
(***************************************************************************)
EXTENDS Daemon, FiniteSetTheorems, TLAPS

-----------------------------------------------------------------------------
(* The helpers.                                                             *)

LEMMA MinOfType == ASSUME NEW a \in Int, NEW b \in Int
                   PROVE  /\ MinOf(a, b) \in {a, b}
                          /\ MinOf(a, b) <= a /\ MinOf(a, b) <= b
BY DEF MinOf

LEMMA MaxOfType == ASSUME NEW a \in Int, NEW b \in Int
                   PROVE  /\ MaxOf(a, b) \in {a, b}
                          /\ MaxOf(a, b) >= a /\ MaxOf(a, b) >= b
BY DEF MaxOf

LEMMA BaseCooldownType == BaseCooldown \in Nat \ {0} /\ MinGap \in Nat \ {0}
BY DaemonAssumption, MinOfType, MaxOfType DEF BaseCooldown, MinGap, MinOf, MaxOf

\* No number of consecutive rate limits makes the cooldown shorter than MinGap.
LEMMA CooldownAtLeastMinGap ==
  ASSUME NEW n \in 1..(Horizon+1)
  PROVE  Cooldown(n) \in Nat /\ Cooldown(n) >= MinGap
<1> DEFINE p == PowerOfTwo[n-1]
<1>1. n-1 \in 0..Horizon /\ p \in Nat /\ p >= 1
  BY DaemonAssumption
<1>2. BaseCooldown \in Nat /\ MaxRateLimitCooldown \in Nat
  BY BaseCooldownType, DaemonAssumption
<1>3. BaseCooldown * p \in Nat /\ BaseCooldown * p >= BaseCooldown
  BY <1>1, <1>2
<1>4. QED BY <1>2, <1>3 DEF Cooldown, MinGap, MinOf

\* The number of visible runs is a valid argument of Cooldown.
LEMMA VisibleRunsCount ==
  ASSUME TypeOK, NEW k \in Keys, VisibleRuns(k) # {}
  PROVE  Cardinality(VisibleRuns(k)) \in 1..(Horizon+1)
<1>1. VisibleRuns(k) \in SUBSET (0..Horizon)
  BY DEF VisibleRuns, TypeOK
<1>2. IsFiniteSet(0..Horizon) /\ Cardinality(0..Horizon) = Horizon + 1
  BY FS_Interval, DaemonAssumption
<1>3. /\ IsFiniteSet(VisibleRuns(k))
      /\ Cardinality(VisibleRuns(k)) <= Horizon + 1
  BY <1>1, <1>2, FS_Subset
<1>4. Cardinality(VisibleRuns(k)) \in Nat /\ Cardinality(VisibleRuns(k)) # 0
  BY <1>3, FS_CardinalityType, FS_EmptySet
<1>5. QED BY <1>3, <1>4, DaemonAssumption

\* An account that may be polled has no rate limit younger than MinGap.
LEMMA EligibleMeansGap ==
  ASSUME TypeOK, NEW k \in Keys, ~CoolingDown(k), NEW x \in limited[k]
  PROVE  x >= MinGap
<1>1. x \in Nat
  BY DEF TypeOK
<1>2. CASE x <= MaxRateLimitCooldown
  <2>1. x \in VisibleRuns(k)
    BY <1>2 DEF VisibleRuns
  <2>2. Cooldown(Cardinality(VisibleRuns(k))) >= MinGap
        /\ Cooldown(Cardinality(VisibleRuns(k))) \in Nat
    BY <2>1, VisibleRunsCount, CooldownAtLeastMinGap
  <2>3. ~(x < Cooldown(Cardinality(VisibleRuns(k))))
    BY <2>1 DEF CoolingDown
  <2>4. QED BY <1>1, <2>2, <2>3, BaseCooldownType
<1>3. CASE x > MaxRateLimitCooldown
  BY <1>1, <1>3, DaemonAssumption, BaseCooldownType DEF MinGap, MinOf
<1>4. QED BY <1>1, <1>2, <1>3, DaemonAssumption

-----------------------------------------------------------------------------
(* Type correctness.                                                        *)

LEMMA NextAccountType ==
  ASSUME TypeOK, NextAccount
  PROVE  acct' \in Accounts /\ elapsed' \in 0..MaxFetch /\ pc' \in {"account", "end"}
BY DaemonAssumption DEF TypeOK, NextAccount, Accounts

LEMMA RecordRunType ==
  ASSUME TypeOK, NEW k \in Keys, NEW code, RecordRun(k, code)
  PROVE  limited' \in [Keys -> SUBSET (0..Horizon)]
<1>1. elapsed \in 0..Horizon
  BY DaemonAssumption DEF TypeOK
<1>2. QED BY <1>1 DEF TypeOK, RecordRun

LEMMA AnswerType ==
  ASSUME TypeOK, NEW code, Answer(code)
  PROVE  refused' \in [Keys -> SUBSET (0..Horizon)] /\ lost' \subseteq Keys
<1>1. elapsed \in 0..Horizon
  BY DaemonAssumption DEF TypeOK
<1>2. QED BY <1>1 DEF TypeOK, Answer

LEMMA NextDelayType ==
  ASSUME TypeOK, NEW failed \in BOOLEAN
  PROVE  NextCurrent(failed) \in Nat /\ NextDelay(failed) \in Nat
<1>1. 2 * current \in Nat /\ current \div 2 \in Nat
  BY DEF TypeOK
<1>2. QED BY <1>1, DaemonAssumption DEF NextCurrent, NextDelay, MinOf

LEMMA BeginCycleType ==
  ASSUME BeginCycle
  PROVE  /\ pc' \in PcValues /\ acct' \in Accounts /\ elapsed' \in 0..MaxFetch
         /\ pollErrors' \in BOOLEAN /\ pollSnapshots' \in BOOLEAN
         /\ unserved' \in BOOLEAN
<1>1. acct' \in Accounts /\ elapsed' \in 0..MaxFetch /\ pc' \in PcValues
  BY DaemonAssumption DEF BeginCycle, Accounts, PcValues
<1>2. pollErrors' \in BOOLEAN /\ pollSnapshots' \in BOOLEAN /\ unserved' \in BOOLEAN
  BY Zenon DEF BeginCycle
<1>3. QED BY <1>1, <1>2

\* Freshly started, CredentialRefreshState has no attempt on record
LEMMA NeverRefreshedType ==
  [a \in Accounts |-> RefreshAgeCap] \in [Accounts -> 0..RefreshAgeCap]
BY DaemonAssumption DEF RefreshAgeCap

LEMMA TypeInductive == TypeOK /\ [Next]_vars => TypeOK'
<1> SUFFICES ASSUME TypeOK, [Next]_vars PROVE TypeOK'
  OBVIOUS
<1> USE DEF PcValues, InFlight, ErrorCodes, cycleVars, backoffVars, answers
<1>0. 1 \in Accounts /\ 0 \in 0..MaxFetch /\ RefreshAgeCap \in Nat
      /\ acct \in Accounts /\ RecordKey[acct] \in Keys /\ SuccessKey[acct] \in Keys
  BY DaemonAssumption DEF Accounts, RefreshAgeCap, TypeOK
<1>1. CASE Start
  <2>1. worked' \in BOOLEAN
    BY <1>1, Zenon DEF Start
  <2>2. current' \in Nat /\ delay' \in Nat /\ timer' \in Nat
    BY <1>1, DaemonAssumption DEF Start
  <2>3. QED BY <1>1, <2>1, <2>2, BeginCycleType, NeverRefreshedType DEF Start, TypeOK
<1>2. CASE SkipRateLimited
  BY <1>2, NextAccountType DEF SkipRateLimited, TypeOK
<1>3. CASE RecordUnsupported
  BY <1>0, <1>3, NextAccountType, RecordRunType, AnswerType DEF RecordUnsupported, TypeOK
<1>4. CASE BeginFetch
  BY <1>0, <1>4 DEF BeginFetch, TypeOK
<1>5. CASE FetchSucceeds
  <2>1. refused' \in [Keys -> SUBSET (0..Horizon)] /\ lost' \subseteq Keys
    BY <1>5 DEF FetchSucceeds, TypeOK
  <2>2. QED BY <1>5, <2>1 DEF FetchSucceeds, TypeOK
<1>6. CASE RecordSuccess
  BY <1>0, <1>6, NextAccountType, RecordRunType DEF RecordSuccess, TypeOK
<1>7. ASSUME NEW code \in ErrorCodes, FetchFails(code) PROVE TypeOK'
  <2>1. elapsed \in 0..RefreshAgeCap
    BY DaemonAssumption DEF TypeOK, RefreshAgeCap
  <2>2. QED BY <1>7, <2>1, AnswerType DEF FetchFails, TypeOK
<1>8. ASSUME NEW code \in ErrorCodes, RefetchFails(code) PROVE TypeOK'
  BY <1>8, AnswerType DEF RefetchFails, TypeOK
<1>9. ASSUME NEW ok \in BOOLEAN, RefreshReturns(ok) PROVE TypeOK'
  BY <1>9 DEF RefreshReturns, TypeOK
<1>10. CASE RecordError
  BY <1>0, <1>10, NextAccountType, RecordRunType DEF RecordError, TypeOK
<1>11. CASE EndCycle
  <2>1. CycleFailed \in BOOLEAN
    BY DEF CycleFailed, TypeOK
  <2>2. worked' \in BOOLEAN
    BY <1>11, Zenon DEF EndCycle
  <2>3. delay' \in Nat /\ timer' \in Nat /\ current' \in Nat
    BY <1>11, <2>1, NextDelayType DEF EndCycle
  <2>4. QED BY <1>11, <2>2, <2>3 DEF EndCycle, TypeOK
<1>12. CASE TimerFires
  BY <1>12, BeginCycleType DEF TimerFires, TypeOK
<1>13. CASE TakeRequest
  BY <1>13, BeginCycleType DEF TakeRequest, TypeOK
<1>14. CASE Exit
  <2>1. unserved' \in BOOLEAN
    BY <1>14, Zenon DEF Exit
  <2>2. exits' \in 0..MaxExits /\ pollRequests' \in 0..1 /\ pc' \in PcValues
    BY <1>14, DaemonAssumption DEF Exit, TypeOK
  <2>3. UNCHANGED <<acct, elapsed, failure, pollErrors, pollSnapshots, current,
                    delay, worked, timer, limited, refused, refreshAge>>
    BY <1>14 DEF Exit
  <2>4. lost' \subseteq Keys
    BY <1>0, <1>14 DEF Exit, TypeOK
  <2>5. QED BY <2>1, <2>2, <2>3, <2>4 DEF TypeOK
<1>15. CASE RequestPoll
  BY <1>15 DEF RequestPoll, TypeOK
<1>16. CASE Tick
  <2>1. elapsed' \in 0..MaxFetch /\ timer' \in Nat
    BY <1>16, DaemonAssumption DEF Tick, TypeOK
  <2>2. /\ limited' \in [Keys -> SUBSET (0..Horizon)]
        /\ refused' \in [Keys -> SUBSET (0..Horizon)]
    BY <1>16, DaemonAssumption DEF Tick, TypeOK
  <2>3. refreshAge' \in [Accounts -> 0..RefreshAgeCap]
    BY <1>0, <1>16 DEF Tick, TypeOK, MinOf
  <2>4. QED BY <1>16, <2>1, <2>2, <2>3 DEF Tick, TypeOK
<1>17. CASE UNCHANGED vars
  BY <1>17 DEF vars, TypeOK
<1>18. QED
  BY <1>1, <1>2, <1>3, <1>4, <1>5, <1>6, <1>7, <1>8, <1>9, <1>10, <1>11,
     <1>12, <1>13, <1>14, <1>15, <1>16, <1>17 DEF Next, Loop

\* Every variable keeps its type, in particular acct stays within the
\* configured accounts and the ages within the horizon.
THEOREM TypeCorrect == Spec => []TypeOK
<1>1. Init => TypeOK
  <2> SUFFICES ASSUME Init PROVE TypeOK
    OBVIOUS
  <2>1. pollErrors \in BOOLEAN /\ pollSnapshots \in BOOLEAN /\ unserved \in BOOLEAN
        /\ worked \in BOOLEAN
    BY Zenon DEF Init
  <2>2. /\ limited \in [Keys -> SUBSET (0..Horizon)]
        /\ refused \in [Keys -> SUBSET (0..Horizon)] /\ lost \subseteq Keys
    BY DEF Init
  <2>3. refreshAge \in [Accounts -> 0..RefreshAgeCap]
    BY NeverRefreshedType DEF Init
  <2>4. /\ pc \in PcValues /\ acct \in Accounts /\ elapsed \in 0..MaxFetch
        /\ failure \in ErrorCodes /\ current \in Nat /\ timer \in Nat /\ delay \in Nat
        /\ pollRequests \in 0..1 /\ exits \in 0..MaxExits
    BY DaemonAssumption DEF Init, PcValues, ErrorCodes, Accounts
  <2>5. QED BY <2>1, <2>2, <2>3, <2>4 DEF TypeOK
<1>2. QED BY <1>1, TypeInductive, PTL DEF Spec

-----------------------------------------------------------------------------
(* The backoff.                                                             *)

\* BackoffRecovers speaks of the waits only.  What is behind them: the wait is
\* the active backoff or the interval, and a backoff that survived a cycle that
\* worked is longer than the interval.
BackoffInv ==
  /\ current = 0 \/ (PollInterval <= current /\ current <= MaxBackoff)
  /\ delay = IF current = 0 THEN PollInterval ELSE current
  /\ worked => current = 0 \/ current > PollInterval

LEMMA EndCycleRecovers ==
  ASSUME TypeOK, BackoffInv, EndCycle, PollInterval <= MaxBackoff
  PROVE  /\ BackoffInv'
         /\ pollSnapshots \/ ~pollErrors => delay' = PollInterval \/ 2 * delay' <= delay
         /\ worked /\ delay = PollInterval => delay' = PollInterval
         /\ PollInterval <= delay' /\ delay' <= MaxOf(PollInterval, MaxBackoff)
<1>0. /\ MaxOf(PollInterval, MaxBackoff) = MaxBackoff
      /\ PollInterval \in Nat \ {0} /\ MaxBackoff \in Nat /\ current \in Nat
  BY DaemonAssumption DEF MaxOf, TypeOK
<1>1. /\ current' = NextCurrent(CycleFailed) /\ delay' = NextDelay(CycleFailed)
      /\ worked' = ~CycleFailed
  BY DEF EndCycle
<1>2. CASE CycleFailed
  <2>1. pollErrors /\ ~pollSnapshots /\ ~worked'
    BY <1>1, <1>2 DEF CycleFailed
  <2>2. current' = MinOf(MaxBackoff, IF current = 0 THEN PollInterval ELSE 2 * current)
    BY <1>1, <1>2 DEF NextCurrent
  <2>3. PollInterval <= current' /\ current' <= MaxBackoff /\ current' \in Nat
    BY <1>0, <2>2 DEF MinOf, BackoffInv
  <2>4. delay' = current'
    BY <1>0, <1>1, <2>3 DEF NextDelay
  <2>5. worked /\ delay = PollInterval => current' = PollInterval
    BY <1>0, <2>2 DEF MinOf, BackoffInv
  <2>6. BackoffInv'
    BY <1>0, <2>1, <2>3, <2>4 DEF BackoffInv
  <2>7. QED BY <1>0, <2>1, <2>3, <2>4, <2>5, <2>6
<1>3. CASE ~CycleFailed
  <2>1. PICK h \in Nat : h = current \div 2 /\ 2 * h <= current
    BY <1>0
  <2>2. current' = IF h <= PollInterval THEN 0 ELSE h
    BY <1>1, <1>3, <2>1 DEF NextCurrent
  <2>3. delay' = IF current' = 0 THEN PollInterval ELSE current'
    BY <1>1 DEF NextDelay
  <2>4. worked /\ delay = PollInterval => current = 0
    BY <1>0 DEF BackoffInv
  <2>5. QED BY <1>0, <2>1, <2>2, <2>3, <2>4 DEF BackoffInv
<1>4. QED BY <1>2, <1>3

\* Whatever the poll interval, as long as it does not exceed the maximum
\* backoff, every cycle that did not fail brings the daemon halfway back to its
\* interval, and a recovery that ends on the interval is complete.  (With a
\* longer interval the cap cuts the first failure's delay below the interval.)
THEOREM BackoffRecoversHolds ==
  ASSUME PollInterval <= MaxBackoff
  PROVE  Spec => BackoffRecovers
<1>1. Init => BackoffInv
  BY DaemonAssumption DEF Init, BackoffInv
<1>2. TypeOK /\ BackoffInv /\ [Next]_vars => BackoffInv'
  <2> SUFFICES ASSUME TypeOK, BackoffInv, [Next]_vars PROVE BackoffInv'
    OBVIOUS
  <2>1. CASE EndCycle
    BY <2>1, EndCycleRecovers
  <2>2. CASE Start
    BY <2>2, DaemonAssumption DEF Start, BackoffInv
  <2>3. CASE UNCHANGED <<current, delay, worked>>
    BY <2>3 DEF BackoffInv
  <2>4. QED
    BY <2>1, <2>2, <2>3 DEF Next, Loop, vars, cycleVars, backoffVars,
       SkipRateLimited, RecordUnsupported, BeginFetch, FetchSucceeds,
       RecordSuccess, FetchFails, RefetchFails, RefreshReturns, RecordError,
       TimerFires, TakeRequest, Exit, RequestPoll, Tick
<1>3. TypeOK /\ BackoffInv /\ [Next]_vars =>
        [pc = "end" /\ pc' = "wait" =>
           /\ pollSnapshots \/ ~pollErrors => delay' = PollInterval \/ 2 * delay' <= delay
           /\ worked /\ delay = PollInterval => delay' = PollInterval
           /\ PollInterval <= delay' /\ delay' <= MaxOf(PollInterval, MaxBackoff)]_vars
  <2> SUFFICES ASSUME TypeOK, BackoffInv, Next, pc = "end", pc' = "wait"
               PROVE  /\ pollSnapshots \/ ~pollErrors =>
                           delay' = PollInterval \/ 2 * delay' <= delay
                      /\ worked /\ delay = PollInterval => delay' = PollInterval
                      /\ PollInterval <= delay'
                      /\ delay' <= MaxOf(PollInterval, MaxBackoff)
    BY DEF vars
  <2>1. EndCycle
    BY DEF Next, Loop, Start, SkipRateLimited, RecordUnsupported, BeginFetch,
       FetchSucceeds, RecordSuccess, FetchFails, RefetchFails, RefreshReturns,
       RecordError, TimerFires, TakeRequest, Exit, RequestPoll, Tick
  <2>2. QED BY <2>1, EndCycleRecovers
<1>4. QED BY <1>1, <1>2, <1>3, TypeCorrect, PTL DEF Spec, BackoffRecovers

-----------------------------------------------------------------------------
(* The rate-limit cooldown.                                                 *)

\* RateLimitGap speaks of the answers, the daemon of the rows it wrote.  What
\* connects them: unless its last 429 got no row, every 429 of an account is at
\* least as old as one whose row is in poll_runs or about to be written.
Pending(k) ==
  IF pc = "record" /\ failure = "rate_limited" /\ RecordKey[acct] = k
  THEN {elapsed} ELSE {}

Covered ==
  \A k \in Keys \ lost : \A x \in refused[k] :
    \E y \in limited[k] \cup Pending(k) : y <= x

\* The requests in flight started after every 429 of their account
StartedLater ==
  pc \in InFlight => \A x \in refused[RecordKey[acct]] : x >= elapsed

\* Where a row of another kind is about to be written, no 429 is left to cover
Settled ==
  /\ pc = "insert" => refused[SuccessKey[acct]] = {}
  /\ pc \in {"refresh", "record"} /\ failure # "rate_limited" =>
       refused[RecordKey[acct]] = {}

GapInv == Covered /\ StartedLater /\ Settled

LEMMA GapInductive == TypeOK /\ GapInv /\ [Next]_vars => GapInv'
<1> SUFFICES ASSUME TypeOK, GapInv, [Next]_vars PROVE GapInv'
  OBVIOUS
<1> USE DEF InFlight, cycleVars, backoffVars, answers
<1>0. /\ acct \in Accounts /\ RecordKey[acct] \in Keys /\ SuccessKey[acct] \in Keys
      /\ elapsed \in 0..MaxFetch /\ MaxFetch \in Nat /\ Horizon \in Nat
      /\ MaxFetch <= Horizon
      /\ limited \in [Keys -> SUBSET (0..Horizon)]
      /\ refused \in [Keys -> SUBSET (0..Horizon)] /\ lost \subseteq Keys
      /\ Covered /\ StartedLater /\ Settled
  BY DaemonAssumption DEF TypeOK, GapInv
<1>1. ASSUME UNCHANGED <<limited, refused, lost>>,
             pc # "record" \/ UNCHANGED <<pc, failure, acct, elapsed>>
      PROVE  Covered'
  <2>1. \A k \in Keys : Pending(k) \subseteq Pending(k)'
    BY <1>1 DEF Pending
  <2>2. QED BY <1>0, <1>1, <2>1 DEF Covered
<1>2. CASE Start \/ SkipRateLimited \/ EndCycle \/ TimerFires \/ TakeRequest
  <2>1. Covered'
    BY <1>1, <1>2 DEF Start, BeginCycle, SkipRateLimited, EndCycle, TimerFires,
       TakeRequest
  <2>2. pc' \in {"account", "end", "wait"}
    BY <1>2 DEF Start, BeginCycle, SkipRateLimited, NextAccount, EndCycle,
       TimerFires, TakeRequest
  <2>3. QED BY <2>1, <2>2 DEF GapInv, StartedLater, Settled
<1>3. CASE RequestPoll \/ UNCHANGED vars
  <2>1. UNCHANGED <<pc, failure, acct, elapsed, limited, refused, lost>>
    BY <1>3 DEF RequestPoll, vars
  <2>2. QED BY <1>0, <1>1, <2>1 DEF GapInv, StartedLater, Settled
<1>4. CASE BeginFetch
  <2>1. /\ pc' = "fetch" /\ elapsed' = 0 /\ pc = "account"
        /\ UNCHANGED <<acct, limited, refused, lost>>
    BY <1>4 DEF BeginFetch
  <2>2. \A x \in refused[RecordKey[acct]] : x >= 0
    BY <1>0
  <2>3. QED BY <1>0, <1>1, <2>1, <2>2 DEF GapInv, StartedLater, Settled
<1>5. ASSUME NEW ok \in BOOLEAN, RefreshReturns(ok) PROVE GapInv'
  <2>1. /\ pc = "refresh" /\ pc' \in {"refetch", "record"}
        /\ UNCHANGED <<failure, acct, elapsed, limited, refused, lost>>
    BY <1>5 DEF RefreshReturns
  <2>2. QED BY <1>0, <1>1, <2>1 DEF GapInv, StartedLater, Settled
<1>6. CASE Exit
  <2>1. /\ pc' = "down" /\ UNCHANGED <<failure, acct, elapsed, limited, refused>>
        /\ lost \subseteq lost'
        /\ \A k \in Keys \ lost' : Pending(k) = {}
    BY <1>6 DEF Exit, Pending
  <2>2. Covered'
    BY <1>0, <2>1 DEF Covered
  <2>3. QED BY <2>1, <2>2 DEF GapInv, StartedLater, Settled
<1>7. CASE FetchSucceeds
  <2>1. /\ pc \in {"fetch", "refetch"} /\ pc' = "insert"
        /\ UNCHANGED <<failure, acct, elapsed, limited>>
        /\ lost' = lost \ {RecordKey[acct], SuccessKey[acct]}
        /\ \A k \in Keys : refused'[k] =
             IF k \in {RecordKey[acct], SuccessKey[acct]} THEN {} ELSE refused[k]
    BY <1>7 DEF FetchSucceeds
  <2>2. \A k \in Keys : Pending(k) = {}
    BY <2>1 DEF Pending
  <2>3. Covered'
    BY <1>0, <2>1, <2>2 DEF Covered
  <2>4. QED BY <1>0, <2>1, <2>3 DEF GapInv, StartedLater, Settled
<1>8. ASSUME NEW code \in ErrorCodes, FetchFails(code) \/ RefetchFails(code)
      PROVE  GapInv'
  <2>1. /\ pc \in {"fetch", "refetch"} /\ pc' \in {"refresh", "record"}
        /\ failure' = code /\ UNCHANGED <<acct, elapsed, limited>>
        /\ code = "rate_limited" => pc' = "record"
        /\ Answer(code)
    BY <1>8 DEF FetchFails, RefetchFails, MayRefresh
  <2>2. /\ lost' = lost \ {RecordKey[acct]}
        /\ \A k \in Keys \ {RecordKey[acct]} : refused'[k] = refused[k]
        /\ refused'[RecordKey[acct]] =
             IF code = "rate_limited" THEN refused[RecordKey[acct]] \cup {elapsed} ELSE {}
    BY <1>0, <2>1 DEF Answer
  <2>3. \A k \in Keys : Pending(k) = {}
    BY <2>1 DEF Pending
  <2>4. \A x \in refused'[RecordKey[acct]] : x >= elapsed
    BY <1>0, <2>1, <2>2 DEF StartedLater
  <2>5. \A k \in Keys : code = "rate_limited" /\ k = RecordKey[acct] =>
                         Pending(k)' = {elapsed}
    BY <2>1 DEF Pending
  <2>6. Covered'
    <3> SUFFICES ASSUME NEW k \in Keys \ lost', NEW x \in refused'[k]
                 PROVE  \E y \in limited'[k] \cup Pending(k)' : y <= x
      BY DEF Covered
    <3>1. CASE k = RecordKey[acct]
      BY <2>2, <2>4, <2>5, <3>1
    <3>2. CASE k # RecordKey[acct]
      BY <1>0, <2>1, <2>2, <2>3, <3>2 DEF Covered
    <3>3. QED BY <3>1, <3>2
  <2>7. QED BY <2>1, <2>2, <2>4, <2>6 DEF GapInv, StartedLater, Settled
<1>9. ASSUME NEW a \in Keys, pc # "record" \/ a = RecordKey[acct],
             \A k \in Keys \ {a} : limited'[k] = limited[k] /\ refused'[k] = refused[k],
             lost \subseteq lost' \cup {a}, pc' \notin InFlight,
             \/ refused'[a] = {}
             \/ /\ lost' = lost /\ refused'[a] = refused[a]
                /\ limited[a] \cup Pending(a) \subseteq limited'[a]
      PROVE  GapInv'
  <2>1. \A k \in Keys \ {a} : Pending(k) = {}
    BY <1>9 DEF Pending
  <2>2. Covered'
    <3> SUFFICES ASSUME NEW k \in Keys \ lost', NEW x \in refused'[k]
                 PROVE  \E y \in limited'[k] : y <= x
      BY DEF Covered
    <3>1. CASE k = a
      BY <1>0, <1>9, <3>1 DEF Covered
    <3>2. CASE k # a
      BY <1>0, <1>9, <2>1, <3>2 DEF Covered
    <3>3. QED BY <3>1, <3>2
  <2>3. QED BY <1>9, <2>2 DEF GapInv, StartedLater, Settled
<1>10. CASE RecordUnsupported
  <2>1. /\ pc = "account" /\ pc' \in {"account", "end"}
        /\ RecordRun(RecordKey[acct], "other") /\ Answer("other")
    BY <1>10 DEF RecordUnsupported, NextAccount
  <2>2. /\ lost' = lost \ {RecordKey[acct]} /\ refused'[RecordKey[acct]] = {}
        /\ \A k \in Keys \ {RecordKey[acct]} :
             limited'[k] = limited[k] /\ refused'[k] = refused[k]
    BY <1>0, <2>1 DEF RecordRun, Answer
  <2>3. QED BY <1>0, <1>9, <2>1, <2>2
<1>11. CASE RecordSuccess
  <2>1. /\ pc = "insert" /\ pc' \in {"account", "end"}
        /\ RecordRun(SuccessKey[acct], "success") /\ UNCHANGED <<refused, lost>>
    BY <1>11 DEF RecordSuccess, NextAccount
  <2>2. refused[SuccessKey[acct]] = {}
    BY <1>0, <2>1 DEF Settled
  <2>3. \A k \in Keys \ {SuccessKey[acct]} : limited'[k] = limited[k]
    BY <1>0, <2>1 DEF RecordRun
  <2>4. QED BY <1>0, <1>9, <2>1, <2>2, <2>3
<1>12. CASE RecordError
  <2>1. /\ pc = "record" /\ pc' \in {"account", "end"}
        /\ RecordRun(RecordKey[acct], failure) /\ UNCHANGED <<refused, lost>>
    BY <1>12 DEF RecordError, NextAccount
  <2>2. \A k \in Keys \ {RecordKey[acct]} : limited'[k] = limited[k]
    BY <1>0, <2>1 DEF RecordRun
  <2>3. CASE failure = "rate_limited"
    <3>1. limited'[RecordKey[acct]] = limited[RecordKey[acct]] \cup Pending(RecordKey[acct])
      BY <1>0, <2>1, <2>3 DEF RecordRun, Pending
    <3>2. QED BY <1>0, <1>9, <2>1, <2>2, <3>1
  <2>4. CASE failure # "rate_limited"
    <3>1. refused[RecordKey[acct]] = {}
      BY <1>0, <2>1, <2>4 DEF Settled
    <3>2. QED BY <1>0, <1>9, <2>1, <2>2, <3>1
  <2>5. QED BY <2>3, <2>4
<1>13. CASE Tick
  <2>1. /\ UNCHANGED <<pc, failure, acct, lost>>
        /\ elapsed' = IF pc \in InFlight THEN elapsed + 1 ELSE elapsed
        /\ pc \in InFlight => elapsed < MaxFetch
        /\ \A k \in Keys : limited'[k] = {x \in 1..Horizon : x - 1 \in limited[k]}
        /\ \A k \in Keys : refused'[k] = {x \in 1..Horizon : x - 1 \in refused[k]}
    BY <1>13 DEF Tick
  <2>2. ASSUME NEW k \in Keys, NEW x \in refused'[k]
        PROVE  x \in 1..Horizon /\ x - 1 \in refused[k]
    BY <2>1, <2>2
  <2>3. Covered'
    <3> SUFFICES ASSUME NEW k \in Keys \ lost, NEW x \in refused'[k]
                 PROVE  \E y \in limited'[k] \cup Pending(k)' : y <= x
      BY <2>1 DEF Covered
    <3>1. x \in 1..Horizon /\ x - 1 \in refused[k]
      BY <2>2
    <3>2. PICK y \in limited[k] \cup Pending(k) : y <= x - 1
      BY <1>0, <3>1 DEF Covered
    <3>3. CASE y \in limited[k]
      <4>1. y \in 0..Horizon
        BY <1>0, <3>3
      <4>2. y + 1 \in 1..Horizon /\ (y + 1) - 1 = y /\ y + 1 <= x
        BY <1>0, <3>1, <3>2, <4>1
      <4>3. y + 1 \in limited'[k]
        BY <2>1, <3>3, <4>2
      <4>4. QED BY <4>2, <4>3
    <3>4. CASE y \in Pending(k)
      <4>1. pc = "record" /\ y = elapsed /\ Pending(k)' = {elapsed'}
        BY <2>1, <3>4 DEF Pending
      <4>2. elapsed' = elapsed + 1
        BY <2>1, <4>1
      <4>3. QED BY <1>0, <3>1, <3>2, <4>1, <4>2
    <3>5. QED BY <3>2, <3>3, <3>4
  <2>4. StartedLater'
    <3> SUFFICES ASSUME pc \in InFlight, NEW x \in refused'[RecordKey[acct]]
                 PROVE  x >= elapsed + 1
      BY <2>1 DEF StartedLater
    <3>1. x \in 1..Horizon /\ x - 1 \in refused[RecordKey[acct]]
      BY <1>0, <2>2
    <3>2. x - 1 >= elapsed
      BY <1>0, <3>1 DEF StartedLater
    <3>3. QED BY <1>0, <3>1, <3>2
  <2>5. \A k \in Keys : refused[k] = {} => refused'[k] = {}
    BY <2>1
  <2>6. Settled'
    BY <1>0, <2>1, <2>5 DEF Settled
  <2>7. QED BY <2>3, <2>4, <2>6 DEF GapInv
<1>14. QED
  BY <1>2, <1>3, <1>4, <1>5, <1>6, <1>7, <1>8, <1>10, <1>11, <1>12, <1>13
     DEF Next, Loop

\* Through restarts, manual polls, slow requests and duplicate or aliased
\* accounts, an account whose last 429 got its row is not asked again within one
\* base cooldown of any request that was answered 429, written down or not.
THEOREM RateLimitGapHolds == Spec => RateLimitGap
<1>1. Init => GapInv
  BY DEF Init, GapInv, Covered, StartedLater, Settled, InFlight
<1> DEFINE Spaced == pc = "account" /\ pc' = "fetch" /\ RecordKey[acct] \notin lost =>
                       \A x \in refused[RecordKey[acct]] : x >= MinGap
<1>2. TypeOK /\ GapInv /\ [Next]_vars => [Spaced]_vars
  <2> SUFFICES ASSUME TypeOK, GapInv, Next, pc = "account", pc' = "fetch",
                      RecordKey[acct] \notin lost, NEW x \in refused[RecordKey[acct]]
               PROVE  x >= MinGap
    BY DEF vars
  <2>1. BeginFetch
    BY DEF Next, Loop, Start, BeginCycle, SkipRateLimited, NextAccount,
       RecordUnsupported, BeginFetch, FetchSucceeds, RecordSuccess, FetchFails,
       RefetchFails, RefreshReturns, RecordError, EndCycle, TimerFires,
       TakeRequest, Exit, RequestPoll, Tick
  <2>2. /\ RecordKey[acct] \in Keys /\ x \in Nat /\ MinGap \in Nat
        /\ limited[RecordKey[acct]] \subseteq Nat
    BY DaemonAssumption, BaseCooldownType DEF TypeOK
  <2>3. PICK y \in limited[RecordKey[acct]] : y <= x
    BY <2>2 DEF GapInv, Covered, Pending
  <2>4. y >= MinGap
    BY <2>1, <2>2, EligibleMeansGap DEF BeginFetch
  <2>5. QED BY <2>2, <2>3, <2>4
<1>3. QED BY <1>1, <1>2, GapInductive, TypeCorrect, PTL DEF Spec, RateLimitGap

-----------------------------------------------------------------------------
(* Poll requests.                                                           *)

\* A request that no cycle has served yet has its token in the channel, wherever
\* the loop is: a cycle that starts serves it, and nothing else takes the token
TokenKept == unserved => pollRequests = 1

\* The loop never sleeps on a poll request, whether it came before, during or
\* after a cycle, and however many were dropped because one was queued.
THEOREM RequestWakesLoopHolds == Spec => []RequestWakesLoop
<1>1. Init => TokenKept
  BY DEF Init, TokenKept
<1>2. TokenKept /\ [Next]_vars => TokenKept'
  <2> SUFFICES ASSUME TokenKept, [Next]_vars PROVE TokenKept'
    OBVIOUS
  <2> USE DEF TokenKept
  <2>1. CASE Start \/ TimerFires \/ TakeRequest \/ Exit \/ RequestPoll
    BY <2>1 DEF Start, TimerFires, TakeRequest, Exit, RequestPoll, BeginCycle
  <2>2. CASE UNCHANGED <<pollRequests, unserved>>
    BY <2>2
  <2>3. ASSUME NEW code, FetchFails(code) \/ RefetchFails(code) PROVE TokenKept'
    BY <2>2, <2>3 DEF FetchFails, RefetchFails
  <2>4. ASSUME NEW ok, RefreshReturns(ok) PROVE TokenKept'
    BY <2>2, <2>4 DEF RefreshReturns
  <2>5. CASE SkipRateLimited \/ RecordUnsupported \/ BeginFetch \/ FetchSucceeds
             \/ RecordSuccess \/ RecordError \/ EndCycle \/ Tick \/ UNCHANGED vars
    BY <2>2, <2>5 DEF SkipRateLimited, RecordUnsupported, BeginFetch, FetchSucceeds,
       RecordSuccess, RecordError, EndCycle, Tick, vars
  <2>6. QED BY <2>1, <2>3, <2>4, <2>5 DEF Next, Loop
<1>3. TokenKept => RequestWakesLoop
  BY DEF TokenKept, RequestWakesLoop
<1>4. QED BY <1>1, <1>2, <1>3, PTL DEF Spec

-----------------------------------------------------------------------------
(* A cooldown that is over stays over.                                      *)

\* One rate limit less never makes the cooldown longer
LEMMA CooldownGrows ==
  ASSUME NEW n \in 1..Horizon
  PROVE  Cooldown(n) \in Nat /\ Cooldown(n + 1) \in Nat /\ Cooldown(n) <= Cooldown(n + 1)
<1>1. /\ n - 1 \in 0..Horizon /\ n \in 0..Horizon /\ n + 1 \in 1..(Horizon + 1)
      /\ (n + 1) - 1 = n /\ n \in 1..(Horizon + 1)
  BY DaemonAssumption
<1>2. PowerOfTwo[n-1] \in Nat /\ PowerOfTwo[n] = 2 * PowerOfTwo[n-1]
  BY <1>1, DaemonAssumption
<1>3. BaseCooldown \in Nat /\ MaxRateLimitCooldown \in Nat
  BY BaseCooldownType, DaemonAssumption
<1>4. BaseCooldown * PowerOfTwo[n] = 2 * (BaseCooldown * PowerOfTwo[n-1])
      /\ BaseCooldown * PowerOfTwo[n-1] \in Nat
  BY <1>2, <1>3
<1>5. MinOf(MaxRateLimitCooldown, BaseCooldown * PowerOfTwo[n-1])
        <= MinOf(MaxRateLimitCooldown, BaseCooldown * PowerOfTwo[n])
  BY <1>3, <1>4 DEF MinOf
<1>6. Cooldown(n) \in Nat /\ Cooldown(n + 1) \in Nat
  BY <1>1, CooldownAtLeastMinGap
<1>7. QED BY <1>1, <1>5, <1>6 DEF Cooldown

\* As time passes, at most one run leaves the lookback: the ages are different
LEMMA OneRunLeaves ==
  ASSUME TypeOK, Tick, NEW k \in Keys
  PROVE  LET n == Cardinality(VisibleRuns(k))
             m == Cardinality(VisibleRuns(k)')
         IN  /\ n \in Nat /\ m \in Nat /\ (m = n \/ m = n - 1)
             /\ \A x \in VisibleRuns(k)' : x - 1 \in VisibleRuns(k)
<1> DEFINE Old == VisibleRuns(k)
           New == VisibleRuns(k)'
           Kept == Old \ {MaxRateLimitCooldown}
           Older == [x \in Kept |-> x + 1]
<1>0. Horizon \in Nat /\ MaxRateLimitCooldown \in Nat /\ MaxRateLimitCooldown <= Horizon
  BY DaemonAssumption
<1>1. limited'[k] = {x \in 1..Horizon : x - 1 \in limited[k]}
  BY DEF Tick
<1>2. Old \in SUBSET (0..Horizon) /\ limited[k] \in SUBSET (0..Horizon)
  BY DEF VisibleRuns, TypeOK
<1>3. IsFiniteSet(Old)
  <2>1. IsFiniteSet(0..Horizon)
    BY <1>0, FS_Interval
  <2> HIDE DEF Old
  <2>2. QED BY <1>2, <2>1, FS_Subset
<1>4. New = {x \in 1..Horizon : x - 1 \in limited[k] /\ x <= MaxRateLimitCooldown}
  BY <1>1 DEF VisibleRuns
<1>4a. Old = {x \in limited[k] : x <= MaxRateLimitCooldown}
  BY DEF VisibleRuns
<1>5. \A x \in New : x - 1 \in Kept
  <2> HIDE DEF New, Old
  <2>1. QED BY <1>0, <1>4, <1>4a
<1>6. \A x \in Kept : x + 1 \in New
  <2>1. SUFFICES ASSUME NEW x \in Kept PROVE x + 1 \in New
    OBVIOUS
  <2> HIDE DEF New, Old
  <2>2. x \in limited[k] /\ x \in 0..Horizon /\ x < MaxRateLimitCooldown
    BY <1>0, <1>2, <1>4a, <2>1
  <2>3. x + 1 \in 1..Horizon /\ (x + 1) - 1 = x /\ x + 1 <= MaxRateLimitCooldown
    BY <1>0, <2>2
  <2>4. QED BY <1>4, <2>2, <2>3
<1>7. Older \in Bijection(Kept, New)
  <2>1. Older \in [Kept -> New]
    BY <1>6
  <2>2. \A x, y \in Kept : Older[x] = Older[y] => x = y
    BY <1>2
  <2>3. \A y \in New : \E x \in Kept : Older[x] = y
    <3>1. \A y \in New : y - 1 \in Kept /\ (y - 1) + 1 = y
      BY <1>4, <1>5
    <3>2. QED BY <3>1
  <2>4. QED BY <2>1, <2>2, <2>3 DEF Bijection, Injection, Surjection, IsInjective
<1>8. IsFiniteSet(Kept) /\ (\/ Cardinality(Kept) = Cardinality(Old)
                            \/ Cardinality(Kept) = Cardinality(Old) - 1)
  BY <1>3, FS_RemoveElement
<1>9. Cardinality(New) = Cardinality(Kept)
  <2>1. ExistsBijection(Kept, New)
    BY <1>7 DEF ExistsBijection
  <2> HIDE DEF New, Kept
  <2>2. QED BY <2>1, <1>8, FS_Bijection
<1>10. Cardinality(Old) \in Nat /\ Cardinality(Kept) \in Nat
  BY <1>3, <1>8, FS_CardinalityType
<1>11. QED BY <1>5, <1>8, <1>9, <1>10

LEMMA EligibleAsTimePasses ==
  ASSUME TypeOK, Tick, NEW k \in Keys, ~CoolingDown(k)
  PROVE  ~CoolingDown(k)'
<1> DEFINE n == Cardinality(VisibleRuns(k))
           m == Cardinality(VisibleRuns(k)')
<1> SUFFICES ASSUME NEW x \in VisibleRuns(k)', x < Cooldown(m)
             PROVE  FALSE
  BY DEF CoolingDown
<1>1. /\ n \in Nat /\ m \in Nat /\ (m = n \/ m = n - 1)
      /\ x - 1 \in VisibleRuns(k)
  BY OneRunLeaves
<1>2. x - 1 \in Nat /\ x \in Nat
  <2>1. x - 1 \in Nat
    BY <1>1 DEF VisibleRuns, TypeOK
  <2>2. limited'[k] \subseteq 1..Horizon
    BY DEF Tick
  <2>3. QED BY <2>1, <2>2 DEF VisibleRuns
<1>3. n \in 1..(Horizon + 1)
  BY <1>1, VisibleRunsCount
<1>4. m \in 1..(Horizon + 1)
  <2>1. VisibleRuns(k)' \in SUBSET (0..Horizon) /\ VisibleRuns(k)' # {}
    BY DEF VisibleRuns, Tick
  <2>2. IsFiniteSet(0..Horizon)
    BY FS_Interval, DaemonAssumption
  <2>3. m # 0
    BY <2>1, <2>2, FS_Subset, FS_EmptySet
  <2>4. QED BY <1>1, <1>3, <2>3, DaemonAssumption
<1>5. Cooldown(m) <= Cooldown(n) /\ Cooldown(m) \in Nat /\ Cooldown(n) \in Nat
  <2>1. CASE m = n
    BY <2>1, <1>3, CooldownAtLeastMinGap
  <2>2. CASE m = n - 1
    <3> HIDE DEF m, n
    <3>1. m \in 1..Horizon /\ n = m + 1
      <4>1. Horizon \in Nat
        BY DaemonAssumption
      <4>2. QED BY <2>2, <1>3, <1>4, <4>1
    <3>2. QED BY <3>1, CooldownGrows
  <2>3. QED BY <1>1, <2>1, <2>2
<1>6. ~(x - 1 < Cooldown(n))
  BY <1>1 DEF CoolingDown
<1>7. QED BY <1>2, <1>5, <1>6

\* No run that leaves the lookback of one hour, no restart, no success and no run
\* of another account brings a cooldown back: only one more rate limit does.
THEOREM EligibleStaysEligibleHolds == Spec => EligibleStaysEligible
<1> DEFINE Stays(k) == ~CoolingDown(k) /\ CoolingDown(k)' =>
                         pc = "record" /\ failure = "rate_limited" /\ k = RecordKey[acct]
<1>1. ASSUME TypeOK, [Next]_vars, NEW k \in Keys
      PROVE  Stays(k)
  <2>1. CASE limited'[k] = limited[k]
    BY <2>1 DEF CoolingDown, VisibleRuns
  <2>2. CASE limited'[k] = {}
    BY <2>2 DEF CoolingDown, VisibleRuns
  <2>3. CASE Tick
    BY <1>1, <2>3, EligibleAsTimePasses
  <2>4. CASE RecordUnsupported \/ RecordSuccess
    BY <1>1, <2>1, <2>2, <2>4 DEF RecordUnsupported, RecordSuccess, RecordRun, TypeOK
  <2>5. CASE RecordError
    <3>1. CASE k = RecordKey[acct] /\ failure = "rate_limited"
      BY <3>1, <2>5 DEF RecordError
    <3>2. CASE ~(k = RecordKey[acct] /\ failure = "rate_limited")
      BY <1>1, <2>1, <2>2, <2>5, <3>2 DEF RecordError, RecordRun, TypeOK
    <3>3. QED BY <3>1, <3>2
  <2>6. CASE UNCHANGED limited
    BY <2>1, <2>6
  <2>7. ASSUME NEW code, FetchFails(code) \/ RefetchFails(code) PROVE Stays(k)
    BY <2>6, <2>7 DEF FetchFails, RefetchFails
  <2>8. ASSUME NEW ok, RefreshReturns(ok) PROVE Stays(k)
    BY <2>6, <2>8 DEF RefreshReturns
  <2>9. CASE Start \/ SkipRateLimited \/ BeginFetch \/ FetchSucceeds \/ EndCycle
             \/ TimerFires \/ TakeRequest \/ Exit \/ RequestPoll \/ UNCHANGED vars
    BY <2>6, <2>9 DEF Start, SkipRateLimited, BeginFetch, FetchSucceeds, EndCycle,
       TimerFires, TakeRequest, Exit, RequestPoll, vars
  <2>10. QED BY <1>1, <2>3, <2>4, <2>5, <2>7, <2>8, <2>9 DEF Next, Loop
<1>2. ASSUME TypeOK, [Next]_vars
      PROVE  [\A k \in Keys : Stays(k)]_vars
  BY <1>1, <1>2
<1>3. QED BY <1>2, TypeCorrect, PTL DEF Spec, EligibleStaysEligible

-----------------------------------------------------------------------------
(* How often an account is rate limited in an hour.                         *)

\* n rate limits are enough for a cooldown of the whole lookback
Enough(n) == BaseCooldown * PowerOfTwo[n-1] >= MaxRateLimitCooldown

\* StreakFitsLookback is not inductive: the requests in flight may be the next to
\* be rate limited, so there must be one run less while they are
FlightBudget ==
  pc \in InFlight =>
    \A n \in 2..Horizon : Enough(n) => Cardinality(VisibleRuns(RecordKey[acct])) < n

BudgetInv == FlightBudget /\ StreakFitsLookback

LEMMA VisibleRunsFinite ==
  ASSUME TypeOK, NEW k \in Keys
  PROVE  /\ IsFiniteSet(VisibleRuns(k)) /\ Cardinality(VisibleRuns(k)) \in Nat
         /\ VisibleRuns(k) \subseteq Nat
<1>1. VisibleRuns(k) \in SUBSET (0..Horizon)
  BY DEF VisibleRuns, TypeOK
<1>2. IsFiniteSet(0..Horizon) /\ 0..Horizon \subseteq Nat
  BY FS_Interval, DaemonAssumption
<1>3. QED BY <1>1, <1>2, FS_Subset, FS_CardinalityType

\* Of two runs of the last hour the later one is younger than that hour
LEMMA EnoughMeansCoolingDown ==
  ASSUME TypeOK, NEW k \in Keys, NEW n \in 2..Horizon, Enough(n),
         Cardinality(VisibleRuns(k)) = n
  PROVE  CoolingDown(k)
<1>1. IsFiniteSet(VisibleRuns(k)) /\ VisibleRuns(k) \subseteq Nat /\ n \in Nat /\ n >= 2
  BY VisibleRunsFinite, DaemonAssumption
<1>2. PICK x \in VisibleRuns(k) : TRUE
  BY <1>1, FS_EmptySet
<1>3. PICK y \in VisibleRuns(k) : y # x
  <2>1. Cardinality({x}) = 1
    BY FS_Singleton
  <2>2. VisibleRuns(k) # {x}
    BY <1>1, <2>1
  <2>3. QED BY <1>2, <2>2
<1>4. /\ x \in Nat /\ y \in Nat
      /\ x <= MaxRateLimitCooldown /\ y <= MaxRateLimitCooldown
  BY <1>1, <1>2, <1>3 DEF VisibleRuns
<1>5. Cooldown(n) = MaxRateLimitCooldown
  <2>1. n - 1 \in 0..Horizon
    BY DaemonAssumption
  <2>2. PICK p \in Nat : p = PowerOfTwo[n-1]
    BY <2>1, DaemonAssumption
  <2>3. PICK c \in Nat : c = BaseCooldown * p
    BY BaseCooldownType
  <2>4. c >= MaxRateLimitCooldown /\ MaxRateLimitCooldown \in Nat
    BY <2>2, <2>3, DaemonAssumption DEF Enough
  <2>5. MinOf(MaxRateLimitCooldown, c) = MaxRateLimitCooldown
    BY <2>4 DEF MinOf
  <2>6. QED BY <2>2, <2>3, <2>5 DEF Cooldown
<1>6. x < MaxRateLimitCooldown \/ y < MaxRateLimitCooldown
  BY <1>3, <1>4, DaemonAssumption
<1>7. QED BY <1>2, <1>3, <1>5, <1>6 DEF CoolingDown

LEMMA BudgetInductive == TypeOK /\ BudgetInv /\ [Next]_vars => BudgetInv'
<1> SUFFICES ASSUME TypeOK, BudgetInv, [Next]_vars PROVE BudgetInv'
  OBVIOUS
<1> USE DEF InFlight, cycleVars, backoffVars, answers
<1>0. /\ acct \in Accounts /\ RecordKey[acct] \in Keys /\ SuccessKey[acct] \in Keys
      /\ limited \in [Keys -> SUBSET (0..Horizon)]
      /\ 2..Horizon \subseteq Nat /\ FlightBudget /\ StreakFitsLookback
  <2>1. acct \in Accounts /\ limited \in [Keys -> SUBSET (0..Horizon)]
    BY DEF TypeOK
  <2>2. RecordKey[acct] \in Keys /\ SuccessKey[acct] \in Keys
    BY <2>1, DaemonAssumption
  <2>3. 2..Horizon \subseteq Nat
    BY DaemonAssumption
  <2>4. QED BY <2>1, <2>2, <2>3 DEF BudgetInv
<1>1. CASE BeginFetch
  <2>1. ASSUME NEW n \in 2..Horizon, Enough(n)
        PROVE  Cardinality(VisibleRuns(RecordKey[acct])) < n
    <3>1. Cardinality(VisibleRuns(RecordKey[acct])) <= n
      BY <1>0, <2>1 DEF StreakFitsLookback, Enough
    <3>2. Cardinality(VisibleRuns(RecordKey[acct])) # n
      BY <1>0, <1>1, <2>1, EnoughMeansCoolingDown DEF BeginFetch
    <3>3. Cardinality(VisibleRuns(RecordKey[acct])) \in Nat /\ n \in Nat
      BY <1>0, VisibleRunsFinite
    <3>4. QED BY <3>1, <3>2, <3>3
  <2>2. \A k \in Keys : VisibleRuns(k)' = VisibleRuns(k)
    BY <1>1 DEF BeginFetch, VisibleRuns
  <2>3. acct' = acct
    BY <1>1 DEF BeginFetch
  <2>4. QED BY <1>0, <2>1, <2>2, <2>3 DEF BudgetInv, FlightBudget, StreakFitsLookback, Enough
<1>2. ASSUME NEW a \in {RecordKey[acct], SuccessKey[acct]}, NEW code,
             RecordRun(a, code), pc' \notin InFlight,
             code = "rate_limited" => pc = "record" /\ a = RecordKey[acct]
      PROVE  BudgetInv'
  <2>1. FlightBudget'
    BY <1>2 DEF FlightBudget
  <2>2. ASSUME NEW k \in Keys, NEW n \in 2..Horizon, Enough(n)
        PROVE  Cardinality(VisibleRuns(k)') <= n
    <3>1. Cardinality(VisibleRuns(k)) \in Nat /\ IsFiniteSet(VisibleRuns(k)) /\ n \in Nat
      BY <1>0, VisibleRunsFinite
    <3>2. Cardinality(VisibleRuns(k)) <= n
      BY <1>0, <2>2 DEF StreakFitsLookback, Enough
    <3>3. CASE VisibleRuns(k)' \subseteq VisibleRuns(k)
      BY <3>1, <3>2, <3>3, FS_Subset, FS_CardinalityType
    <3>4. CASE /\ VisibleRuns(k)' \subseteq VisibleRuns(k) \cup {elapsed}
               /\ code = "rate_limited" /\ k = RecordKey[acct]
      <4>1. Cardinality(VisibleRuns(k)) < n
        BY <1>0, <1>2, <2>2, <3>4 DEF FlightBudget
      <4>2. /\ IsFiniteSet(VisibleRuns(k) \cup {elapsed})
            /\ \/ Cardinality(VisibleRuns(k) \cup {elapsed}) = Cardinality(VisibleRuns(k))
               \/ Cardinality(VisibleRuns(k) \cup {elapsed}) = Cardinality(VisibleRuns(k)) + 1
        BY <3>1, FS_AddElement
      <4>3. /\ Cardinality(VisibleRuns(k)') <= Cardinality(VisibleRuns(k) \cup {elapsed})
            /\ IsFiniteSet(VisibleRuns(k)')
        BY <3>4, <4>2, FS_Subset
      <4>4. Cardinality(VisibleRuns(k)') \in Nat
        BY <4>3, FS_CardinalityType
      <4>5. QED BY <3>1, <4>1, <4>2, <4>3, <4>4
    <3>5. CASE k # a
      BY <1>0, <1>2, <3>3, <3>5 DEF RecordRun, VisibleRuns
    <3>6. CASE k = a /\ code # "rate_limited"
      BY <1>0, <1>2, <3>3, <3>6 DEF RecordRun, VisibleRuns
    <3>7. CASE k = a /\ code = "rate_limited"
      BY <1>0, <1>2, <3>4, <3>7 DEF RecordRun, VisibleRuns
    <3>8. QED BY <3>5, <3>6, <3>7
  <2>3. QED BY <2>1, <2>2 DEF BudgetInv, StreakFitsLookback, Enough
<1>3. CASE RecordUnsupported
  BY <1>2, <1>3 DEF RecordUnsupported, NextAccount
<1>4. CASE RecordSuccess
  BY <1>2, <1>4 DEF RecordSuccess, NextAccount
<1>5. CASE RecordError
  BY <1>2, <1>5 DEF RecordError, NextAccount
<1>6. CASE Tick
  <2>1. ASSUME NEW k \in Keys
        PROVE  /\ Cardinality(VisibleRuns(k)') <= Cardinality(VisibleRuns(k))
               /\ Cardinality(VisibleRuns(k)') \in Nat /\ Cardinality(VisibleRuns(k)) \in Nat
    BY <1>6, OneRunLeaves
  <2>2. pc' = pc /\ acct' = acct
    BY <1>6 DEF Tick
  <2>3. StreakFitsLookback'
    <3>1. ASSUME NEW k \in Keys, NEW n \in 2..Horizon, Enough(n)
          PROVE  Cardinality(VisibleRuns(k)') <= n
      <4>1. Cardinality(VisibleRuns(k)) <= n /\ n \in Nat
        BY <1>0, <3>1 DEF StreakFitsLookback, Enough
      <4>2. QED BY <2>1, <4>1
    <3>2. QED BY <3>1 DEF StreakFitsLookback, Enough
  <2>4. FlightBudget'
    <3>1. ASSUME pc \in InFlight, NEW n \in 2..Horizon, Enough(n)
          PROVE  Cardinality(VisibleRuns(RecordKey[acct])') < n
      <4>1. Cardinality(VisibleRuns(RecordKey[acct])) < n /\ n \in Nat
        BY <1>0, <3>1 DEF FlightBudget
      <4>2. QED BY <1>0, <2>1, <2>2, <4>1
    <3>2. QED BY <2>2, <3>1 DEF FlightBudget, Enough
  <2>5. QED BY <2>3, <2>4 DEF BudgetInv
<1>7. ASSUME UNCHANGED limited,
             pc' \in InFlight => pc \in InFlight /\ UNCHANGED acct
      PROVE  BudgetInv'
  <2>1. \A k \in Keys : VisibleRuns(k)' = VisibleRuns(k)
    BY <1>7 DEF VisibleRuns
  <2>2. QED BY <1>0, <1>7, <2>1 DEF BudgetInv, FlightBudget, StreakFitsLookback, Enough
<1>8. ASSUME NEW code \in ErrorCodes, FetchFails(code) \/ RefetchFails(code)
      PROVE  BudgetInv'
  BY <1>7, <1>8 DEF FetchFails, RefetchFails
<1>9. ASSUME NEW ok \in BOOLEAN, RefreshReturns(ok) PROVE BudgetInv'
  BY <1>7, <1>9 DEF RefreshReturns
<1>10. CASE Start \/ SkipRateLimited \/ FetchSucceeds \/ EndCycle \/ TimerFires
            \/ TakeRequest \/ Exit \/ RequestPoll \/ UNCHANGED vars
  BY <1>7, <1>10 DEF Start, BeginCycle, SkipRateLimited, NextAccount,
     FetchSucceeds, EndCycle, TimerFires, TakeRequest, Exit, RequestPoll, vars
<1>11. QED
  BY <1>1, <1>3, <1>4, <1>5, <1>6, <1>8, <1>9, <1>10 DEF Next, Loop

\* However the loop is woken or restarted, the rate-limited rows at the end of
\* an account's last hour are never more than the doubling allows.
THEOREM StreakFitsLookbackHolds == Spec => []StreakFitsLookback
<1>1. Init => BudgetInv
  <2> SUFFICES ASSUME Init PROVE BudgetInv
    OBVIOUS
  <2>1. \A k \in Keys : VisibleRuns(k) = {}
    BY DEF Init, VisibleRuns
  <2>2. 2..Horizon \subseteq Nat /\ Cardinality({}) = 0 /\ pc \notin InFlight
    BY FS_EmptySet, DaemonAssumption DEF Init, InFlight
  <2>3. \A n \in 2..Horizon : 0 <= n
    BY DaemonAssumption
  <2>4. FlightBudget
    BY <2>2 DEF FlightBudget
  <2>5. StreakFitsLookback
    BY <2>1, <2>2, <2>3 DEF StreakFitsLookback
  <2>6. QED BY <2>4, <2>5 DEF BudgetInv
<1>2. BudgetInv => StreakFitsLookback
  BY DEF BudgetInv
<1>3. QED BY <1>1, <1>2, BudgetInductive, TypeCorrect, PTL DEF Spec
=============================================================================
