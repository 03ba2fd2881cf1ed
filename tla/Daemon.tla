------------------------------- MODULE Daemon -------------------------------
(***************************************************************************)
(* The poll loop of the token-burn daemon (internal/daemon/daemon.go): Run *)
(* polls every configured account in order, sleeps for a delay that backs  *)
(* off when a whole cycle failed, and can be woken by a poll request from  *)
(* the control socket.  An account that was rate limited is left alone     *)
(* until its cooldown is over; the cooldown is recomputed at every cycle   *)
(* from the poll_runs table, so it survives restarts.                      *)
(*                                                                         *)
(* Time is relative: a past event is its age, the timer is the time left,  *)
(* both in ticks of the model's time unit.                                 *)
(***************************************************************************)
EXTENDS Integers, FiniteSets

CONSTANTS
  NumAccounts,            \* accounts in config order: 1..NumAccounts
  Keys,                   \* (provider, account_id) pairs of poll_runs
  RecordKey,              \* key of an account as configured: errors, lookups
  SuccessKey,             \* key of the snapshot the provider returns
  Supported,              \* accounts whose provider name providerFor knows
  Refreshable,            \* antigravity accounts: `agy models` may refresh
  PollInterval,           \* Config.PollInterval, the base of the backoff
  MaxBackoff,             \* Backoff.Max, 15 minutes
  MinRateLimitCooldown,   \* 5 minutes
  MaxRateLimitCooldown,   \* 1 hour
  AuthRefreshCooldown,    \* 30 minutes
  MaxFetch,               \* most ticks one account's requests may take
  Horizon,                \* ages above this one are forgotten
  MaxExits,               \* most times the process ends
  PowerOfTwo              \* PowerOfTwo[n] = 2^n, as far as it is needed

Accounts == 1..NumAccounts

MinOf(a, b) == IF a <= b THEN a ELSE b
MaxOf(a, b) == IF a >= b THEN a ELSE b

ASSUME DaemonAssumption ==
  /\ NumAccounts \in Nat \ {0}
  /\ RecordKey \in [Accounts -> Keys]
  /\ SuccessKey \in [Accounts -> Keys]
  /\ Supported \subseteq Accounts
  /\ Refreshable \subseteq Supported
  /\ PollInterval \in Nat \ {0}
  /\ MaxBackoff \in Nat \ {0}
  /\ MinRateLimitCooldown \in Nat \ {0}
  /\ MaxRateLimitCooldown \in Nat \ {0}
  /\ AuthRefreshCooldown \in Nat
  /\ MaxFetch \in Nat
  /\ Horizon \in Nat /\ Horizon >= MaxRateLimitCooldown /\ Horizon >= MaxFetch
  /\ MaxExits \in Nat
  /\ PowerOfTwo \in [0..Horizon -> Nat \ {0}]
  /\ PowerOfTwo[0] = 1
  /\ \A n \in 1..Horizon : PowerOfTwo[n] = 2 * PowerOfTwo[n-1]

VARIABLES
  pc,            \* where Run and PollOnce are, "down" without a process
  acct,          \* the account PollOnce is at
  elapsed,       \* time since startedAt of that account
  failure,       \* the error code to be recorded for it
  pollErrors,    \* result.Errors is not empty
  pollSnapshots, \* result.Snapshots is not empty
  current,       \* Backoff.current
  delay,         \* DaemonState.PollInterval, what the last cycle decided on
  worked,        \* history: the last cycle of this process did not fail
  timer,         \* what is left of time.NewTimer(delay)
  pollRequests,  \* tokens in the control channel, capacity 1
  limited,       \* limited[k]: ages of the trailing rate-limited poll runs of k
  refreshAge,    \* age of CredentialRefreshState.lastRun, the cap when unset
  refused,       \* history: ages of the requests for k answered 429, by their
                 \* start, since the last answer of another kind
  lost,          \* history: the keys whose last answer, a 429, got no row
  exits,         \* how often the process ended
  unserved       \* history: a poll request no poll cycle has started after

cycleVars == <<acct, elapsed, failure, pollErrors, pollSnapshots>>
backoffVars == <<current, delay, worked, timer>>
answers == <<refused, lost>>
vars == <<pc, cycleVars, backoffVars, pollRequests, limited, refreshAge,
          answers, exits, unserved>>

InFlight == {"fetch", "refresh", "refetch", "insert", "record"}
PcValues == InFlight \cup {"down", "account", "end", "wait"}
ErrorCodes == {"rate_limited", "auth_expired", "other"}
RefreshAgeCap == AuthRefreshCooldown + MaxFetch

TypeOK ==
  /\ pc \in PcValues
  /\ acct \in Accounts
  /\ elapsed \in 0..MaxFetch
  /\ failure \in ErrorCodes
  /\ pollErrors \in BOOLEAN
  /\ pollSnapshots \in BOOLEAN
  /\ current \in Nat
  /\ delay \in Nat
  /\ worked \in BOOLEAN
  /\ timer \in Nat
  /\ pollRequests \in 0..1
  /\ limited \in [Keys -> SUBSET (0..Horizon)]
  /\ refused \in [Keys -> SUBSET (0..Horizon)]
  /\ lost \subseteq Keys
  /\ refreshAge \in [Accounts -> 0..RefreshAgeCap]
  /\ exits \in 0..MaxExits
  /\ unserved \in BOOLEAN

-----------------------------------------------------------------------------
(* The cooldown of a rate-limited account.                                  *)

BaseCooldown == MaxOf(3 * PollInterval, MinRateLimitCooldown)

\* PollRuns(since = now - 1h), cut down to the trailing rate-limited runs
VisibleRuns(k) == {x \in limited[k] : x <= MaxRateLimitCooldown}

\* Mutants of Cooldown: the tripling is forgotten; it does not escalate
CooldownOfInterval(n) == MinOf(MaxRateLimitCooldown, PollInterval * PowerOfTwo[n-1])
CooldownConstant(n) == MinOf(MaxRateLimitCooldown, BaseCooldown)

\* The cooldown after n > 0 consecutive rate limits
Cooldown(n) == MinOf(MaxRateLimitCooldown, BaseCooldown * PowerOfTwo[n-1])

\* Mutant of CoolingDown: measured from the first run of the streak, runs[0]
CoolingDownSinceFirst(k) ==
  /\ VisibleRuns(k) # {}
  /\ \A x \in VisibleRuns(k) : x < Cooldown(Cardinality(VisibleRuns(k)))

\* The latest visible run (the smallest age) is younger than the cooldown
CoolingDown(k) ==
  \E x \in VisibleRuns(k) : x < Cooldown(Cardinality(VisibleRuns(k)))

-----------------------------------------------------------------------------
(* The delay between poll cycles.                                           *)

\* Mutant of NextCurrent: a recovery that lands exactly on Base is not one
NextCurrentStuckAtBase(failed) ==
  IF failed
  THEN MinOf(MaxBackoff, IF current = 0 THEN PollInterval ELSE 2 * current)
  ELSE IF current \div 2 < PollInterval THEN 0 ELSE current \div 2

NextCurrent(failed) ==
  IF failed
  THEN MinOf(MaxBackoff, IF current = 0 THEN PollInterval ELSE 2 * current)
  ELSE IF current \div 2 <= PollInterval THEN 0 ELSE current \div 2

NextDelay(failed) ==
  IF NextCurrent(failed) = 0 THEN PollInterval ELSE NextCurrent(failed)

\* shouldBackoff: nothing but errors; a cycle that skipped everything is fine
CycleFailed == pollErrors /\ ~pollSnapshots

-----------------------------------------------------------------------------
Init ==
  /\ pc = "down"
  /\ acct = 1 /\ elapsed = 0 /\ failure = "other"
  /\ pollErrors = FALSE /\ pollSnapshots = FALSE
  /\ current = 0 /\ delay = PollInterval /\ worked = TRUE
  /\ timer = 0 /\ pollRequests = 0
  /\ limited = [k \in Keys |-> {}]
  /\ refused = [k \in Keys |-> {}] /\ lost = {}
  /\ refreshAge = [a \in Accounts |-> RefreshAgeCap]
  /\ exits = 0 /\ unserved = FALSE

\* PollOnce is called: a fresh result, the first account
BeginCycle ==
  /\ pc' = "account" /\ acct' = 1 /\ elapsed' = 0
  /\ pollErrors' = FALSE /\ pollSnapshots' = FALSE
  /\ unserved' = FALSE

\* Run up to its first PollOnce: a new backoff, an empty control channel
Start ==
  /\ pc = "down"
  /\ BeginCycle
  /\ current' = 0 /\ delay' = PollInterval /\ worked' = TRUE
  /\ timer' = 0 /\ pollRequests' = 0
  /\ refreshAge' = [a \in Accounts |-> RefreshAgeCap]
  /\ UNCHANGED <<failure, limited, answers, exits>>

\* A database error, a cancelled context or a crash ends the process.  What is
\* only in memory is gone, poll_runs stays.  Before recordPollError has written
\* its row, that includes the answer just received.
Exit ==
  /\ pc # "down" /\ exits < MaxExits
  /\ pc' = "down" /\ exits' = exits + 1
  /\ pollRequests' = 0 /\ unserved' = FALSE
  /\ lost' = IF pc = "record" /\ failure = "rate_limited"
             THEN lost \cup {RecordKey[acct]} ELSE lost
  /\ UNCHANGED <<cycleVars, backoffVars, limited, refreshAge, refused>>

\* Mutant of NextAccount: the index runs past the last account
NextAccountPastTheEnd ==
  /\ elapsed' = 0 /\ acct' = acct + 1
  /\ pc' = IF acct < NumAccounts THEN "account" ELSE "end"

NextAccount ==
  /\ elapsed' = 0
  /\ IF acct < NumAccounts
     THEN acct' = acct + 1 /\ pc' = "account"
     ELSE acct' = acct /\ pc' = "end"

\* A poll_runs row of key k that is not rate limited ends its streak
RecordRun(k, code) ==
  limited' = [limited EXCEPT ![k] =
                IF code = "rate_limited" THEN @ \cup {elapsed} ELSE {}]

\* What the requests for the account were answered
Answer(code) ==
  /\ refused' = [refused EXCEPT ![RecordKey[acct]] =
                   IF code = "rate_limited" THEN @ \cup {elapsed} ELSE {}]
  /\ lost' = lost \ {RecordKey[acct]}

SkipRateLimited ==
  /\ pc = "account" /\ CoolingDown(RecordKey[acct])
  /\ NextAccount
  /\ UNCHANGED <<failure, pollErrors, pollSnapshots, backoffVars,
                 pollRequests, limited, refreshAge, answers, exits, unserved>>

RecordUnsupported ==
  /\ pc = "account" /\ ~CoolingDown(RecordKey[acct]) /\ acct \notin Supported
  /\ pollErrors' = TRUE
  /\ RecordRun(RecordKey[acct], "other")
  /\ Answer("other")
  /\ NextAccount
  /\ UNCHANGED <<failure, pollSnapshots, backoffVars, pollRequests,
                 refreshAge, exits, unserved>>

BeginFetch ==
  /\ pc = "account" /\ ~CoolingDown(RecordKey[acct]) /\ acct \in Supported
  /\ pc' = "fetch" /\ elapsed' = 0
  /\ UNCHANGED <<acct, failure, pollErrors, pollSnapshots, backoffVars,
                 pollRequests, limited, refreshAge, answers, exits, unserved>>

\* fetchAccount returns a snapshot and InsertSnapshot commits it
FetchSucceeds ==
  /\ pc \in {"fetch", "refetch"}
  /\ pc' = "insert"
  /\ refused' = [k \in Keys |->
                   IF k \in {RecordKey[acct], SuccessKey[acct]} THEN {} ELSE refused[k]]
  /\ lost' = lost \ {RecordKey[acct], SuccessKey[acct]}
  /\ UNCHANGED <<cycleVars, backoffVars, pollRequests, limited, refreshAge,
                 exits, unserved>>

RecordSuccess ==
  /\ pc = "insert"
  /\ RecordRun(SuccessKey[acct], "success")
  /\ pollSnapshots' = TRUE
  /\ NextAccount
  /\ UNCHANGED <<failure, pollErrors, backoffVars, pollRequests, refreshAge,
                 answers, exits, unserved>>

\* shouldAttemptCredentialRefresh: ages are taken at startedAt
MayRefresh(code) ==
  /\ acct \in Refreshable /\ code = "auth_expired"
  /\ refreshAge[acct] - elapsed >= AuthRefreshCooldown

FetchFails(code) ==
  /\ pc = "fetch"
  /\ failure' = code
  /\ Answer(code)
  /\ IF MayRefresh(code)
     THEN /\ pc' = "refresh"
          /\ refreshAge' = [refreshAge EXCEPT ![acct] = elapsed]
     ELSE /\ pc' = "record"
          /\ UNCHANGED refreshAge
  /\ UNCHANGED <<acct, elapsed, pollErrors, pollSnapshots, backoffVars,
                 pollRequests, limited, exits, unserved>>

\* `agy models` returns; only when it worked is the account fetched again
RefreshReturns(ok) ==
  /\ pc = "refresh"
  /\ pc' = IF ok THEN "refetch" ELSE "record"
  /\ UNCHANGED <<cycleVars, backoffVars, pollRequests, limited, refreshAge,
                 answers, exits, unserved>>

RefetchFails(code) ==
  /\ pc = "refetch"
  /\ failure' = code /\ pc' = "record"
  /\ Answer(code)
  /\ UNCHANGED <<acct, elapsed, pollErrors, pollSnapshots, backoffVars,
                 pollRequests, limited, refreshAge, exits, unserved>>

\* Mutant of RecordError: an error ends the cycle instead of the account
RecordErrorAndReturn ==
  /\ pc = "record"
  /\ pollErrors' = TRUE
  /\ RecordRun(RecordKey[acct], failure)
  /\ elapsed' = 0 /\ pc' = "end"
  /\ UNCHANGED <<acct, failure, pollSnapshots, backoffVars, pollRequests,
                 refreshAge, answers, exits, unserved>>

RecordError ==
  /\ pc = "record"
  /\ pollErrors' = TRUE
  /\ RecordRun(RecordKey[acct], failure)
  /\ NextAccount
  /\ UNCHANGED <<failure, pollSnapshots, backoffVars, pollRequests,
                 refreshAge, answers, exits, unserved>>

\* The delay is computed and published, the timer is started
EndCycle ==
  /\ pc = "end"
  /\ current' = NextCurrent(CycleFailed)
  /\ delay' = NextDelay(CycleFailed) /\ timer' = delay'
  /\ worked' = ~CycleFailed
  /\ pc' = "wait"
  /\ UNCHANGED <<cycleVars, pollRequests, limited, refreshAge, answers, exits, unserved>>

TimerFires ==
  /\ pc = "wait" /\ timer = 0
  /\ BeginCycle
  /\ UNCHANGED <<failure, backoffVars, pollRequests, limited, refreshAge,
                 answers, exits>>

TakeRequest ==
  /\ pc = "wait" /\ pollRequests = 1
  /\ BeginCycle
  /\ pollRequests' = 0
  /\ UNCHANGED <<failure, backoffVars, limited, refreshAge, answers, exits>>

\* Mutant of RequestPoll: an unbuffered channel, nobody receives during a cycle
RequestPollUnbuffered ==
  /\ pc # "down"
  /\ pollRequests' = (IF pc = "wait" THEN 1 ELSE pollRequests)
  /\ unserved' = TRUE
  /\ UNCHANGED <<pc, cycleVars, backoffVars, limited, refreshAge, answers, exits>>

\* The control socket accepts a request: a full channel drops the new token
RequestPoll ==
  /\ pc # "down"
  /\ pollRequests' = 1 /\ unserved' = TRUE
  /\ UNCHANGED <<pc, cycleVars, backoffVars, limited, refreshAge, answers, exits>>

\* Time passes while the process is down, while it sleeps (the timer may be late,
\* the host may be suspended) and while the requests of an account are under
\* way; these have deadlines (HTTPTimeout, authRefreshTimeout), hence MaxFetch.
Tick ==
  /\ pc \notin {"account", "end"}
  /\ pc \in InFlight => elapsed < MaxFetch
  /\ elapsed' = IF pc \in InFlight THEN elapsed + 1 ELSE elapsed
  /\ timer' = IF pc = "wait" /\ timer > 0 THEN timer - 1 ELSE timer
  /\ refused' = [k \in Keys |-> {x \in 1..Horizon : x - 1 \in refused[k]}]
  /\ limited' = [k \in Keys |-> {x \in 1..Horizon : x - 1 \in limited[k]}]
  /\ refreshAge' = [a \in Accounts |-> MinOf(refreshAge[a] + 1, RefreshAgeCap)]
  /\ UNCHANGED <<pc, acct, failure, pollErrors, pollSnapshots, current, delay,
                 worked, pollRequests, lost, exits, unserved>>

Loop ==
  \/ Start \/ SkipRateLimited \/ RecordUnsupported \/ BeginFetch
  \/ FetchSucceeds \/ RecordSuccess
  \/ \E code \in ErrorCodes : FetchFails(code) \/ RefetchFails(code)
  \/ \E ok \in BOOLEAN : RefreshReturns(ok)
  \/ RecordError \/ EndCycle \/ TimerFires \/ TakeRequest

Next == Loop \/ Exit \/ RequestPoll \/ Tick

Spec == Init /\ [][Next]_vars

\* The process runs whenever it can (its service manager restarts it), every
\* request returns, and time passes: a tick may be disabled for the while of a
\* request, so that infinitely many cycles within one tick are excluded by
\* strong fairness.  Nobody has to ask for a poll or to crash.
Fairness == WF_vars(Loop) /\ SF_vars(Tick)

FairSpec == Spec /\ Fairness

-----------------------------------------------------------------------------
(* Properties.                                                              *)

\* The backoff dies down: a cycle that delivered a snapshot, or had no error
\* because it skipped everything, at least halves the wait or ends the backoff,
\* and never stretches it; and where such a cycle has brought the wait back to
\* the poll interval, the next failure starts over at the interval instead of
\* doubling it (Backoff.NextDelay: "so a recovery that lands exactly on Base
\* resets fully instead of doubling on the next failure").  All the while the
\* wait stays between the interval and the maximum.
BackoffRecovers ==
  [][pc = "end" /\ pc' = "wait" =>
       /\ pollSnapshots \/ ~pollErrors => delay' = PollInterval \/ 2 * delay' <= delay
       /\ worked /\ delay = PollInterval => delay' = PollInterval
       /\ PollInterval <= delay' /\ delay' <= MaxOf(PollInterval, MaxBackoff)]_vars

MinGap == MinOf(BaseCooldown, MaxRateLimitCooldown)

\* An account is never asked again within one base cooldown of a request that
\* was answered 429, whatever manual polls, restarts, slow requests, credential
\* recoveries and duplicate or aliased accounts happen in between
\* (shouldSkipRateLimitedAccount).  One request is exempt: the first one after a
\* process that ended before recordPollError had written the row of the answer
\* (daemon.go:337), of which nothing is left.
RateLimitGap ==
  [][pc = "account" /\ pc' = "fetch" /\ RecordKey[acct] \notin lost =>
       \A x \in refused[RecordKey[acct]] : x >= MinGap]_vars

\* Of the rows of one account in the last hour, the rate-limited ones that no
\* other row follows are never more than it takes to double the cooldown up to
\* that hour: with the default interval of five minutes three, after cooldowns
\* of 15 and 30 minutes.  A row of another kind starts the count anew; how
\* close rate limits may follow each other then is RateLimitGap's matter.
StreakFitsLookback ==
  \A k \in Keys, n \in 2..Horizon :
    BaseCooldown * PowerOfTwo[n-1] >= MaxRateLimitCooldown =>
      Cardinality(VisibleRuns(k)) <= n

\* An account that may be polled stays so until it is rate limited once more:
\* runs leaving the one-hour lookback never bring a cooldown back.
EligibleStaysEligible ==
  [][\A k \in Keys :
       ~CoolingDown(k) /\ CoolingDown(k)' =>
         pc = "record" /\ failure = "rate_limited" /\ k = RecordKey[acct]]_vars

\* A sleeping loop never sleeps on a request it has not served: whenever the
\* request came, also during a cycle or when its token was dropped because one
\* was queued, a token is left to wake the loop (the buffered control channel).
RequestWakesLoop == pc = "wait" /\ unserved => pollRequests = 1

\* However often it was rate limited, every account with a supported provider
\* is fetched again and again: neither its own cooldown nor the errors and
\* cooldowns of the others starve it.
EveryAccountPolled ==
  \A a \in Supported : []<>(pc = "fetch" /\ acct = a)

\* A failed cycle is never followed by a shorter wait than a successful one
\* ("first failure holds at Base, then doubles").
FailureHoldsAtBase == [][pc = "end" /\ CycleFailed => timer' >= PollInterval]_vars

\* A recorded success ends the account's run of consecutive rate limits
\* ("cooldown after success = %s, want 0").
SuccessResetsStreak ==
  [][RecordSuccess => limited'[RecordKey[acct]] = {}]_vars
=============================================================================
