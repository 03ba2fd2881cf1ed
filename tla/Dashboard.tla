----------------------------- MODULE Dashboard -----------------------------
(***************************************************************************)
(* The terminal UI beside a daemon that may stop and a `token-burn once    *)
(* --store` (tui/model.go, store/store.go, daemon/daemon.go, otelread).    *)
(* A refresh runs in the background: it reads the database account by      *)
(* account in several queries, may go on to OpenObserve, and its result    *)
(* replaces everything that is shown.  Refreshes overlap and end in any    *)
(* order; results carry no number.                                         *)
(*                                                                         *)
(* A sample is known by the time it was observed; 0 is "no time".          *)
(***************************************************************************)
EXTENDS Integers, FiniteSetsExt

CONSTANTS
  NumAccounts,     \* configured accounts, polled in this order
  Jobs,            \* bound of the refreshes in flight
  Scenarios,       \* otel.read.mode; how often the user acts, how much may fail
  Timeout,         \* http_timeout
  Refreshable,     \* the Antigravity accounts, whose login `agy models` may renew
  RefreshTimeout,  \* authRefreshTimeout: how long that may take
  RefreshCooldown, \* authRefreshCooldown
  RefreshInterval, \* refreshInterval of the TUI
  Delays,          \* what Backoff.NextDelay returns
  StaleAfter,      \* staleSampleThreshold
  Horizon          \* bound of the clock

ASSUME DashboardAssumption ==
  /\ NumAccounts \in Nat \ {0}
  /\ Scenarios \subseteq
       [mode : {"sqlite", "auto", "openobserve"}, keys : Nat, faults : Nat]
  /\ Timeout \in Nat \ {0} /\ RefreshInterval \in Nat \ {0} /\ StaleAfter \in Nat
  /\ Refreshable \subseteq 1..NumAccounts
  /\ RefreshTimeout \in Nat \ {0} /\ RefreshCooldown \in Nat
  /\ Delays \subseteq Nat \ {0}
  /\ Horizon \in Nat

Accounts == 1..NumAccounts
Later(t, u) == IF t > u THEN t ELSE u

VARIABLES
  now,
  mode,
  run,       \* poll_runs: the latest run of each account, how it ended and when it began
  success,   \* poll_runs: when the latest success of each account began
  sample,    \* live_usage_samples: the latest observed_at of each account
  state,     \* daemon_state: updated_at, the interval, next_poll_at
  gauge,     \* accounts whose gauges the daemon's exporter holds
  remote,    \* OpenObserve: the latest timestamp of each account
  daemon,    \* where Run is; see Down
  tried,     \* CredentialRefreshState: when `agy models` was last tried, 0 if never
  request,   \* a poll request waits for the daemon
  once,      \* `once --store`: the account it has fetched and when
  jobs,      \* the refreshes in flight
  shown,     \* the model of the TUI that View renders
  nextTick,  \* when the next tickMsg comes
  keys,      \* keys that may still be pressed, and `once` that may still be run
  faults,    \* bound of the queries that fail, logins that expire, daemons that stop
  real, late, overran \* history: see Observe

samples == <<run, success, sample>>
daemonVars == <<state, gauge, daemon, tried, request>>
history == <<real, late, overran>>
tui == <<jobs, shown, nextTick, keys>>
vars == <<now, mode, samples, daemonVars, remote, once, tui, faults, history>>

NoRun == [status |-> "", at |-> 0]
NoState == [updated |-> 0, interval |-> 0, next |-> 0]
NeverTried == [a \in Accounts |-> 0]
NoJob ==
  [pc |-> "idle", begun |-> 0, acct |-> 1, run |-> [a \in Accounts |-> NoRun],
   success |-> [a \in Accounts |-> 0], sample |-> [a \in Accounts |-> 0], errors |-> FALSE]

\* No daemon.  One that runs since born polls since cycle, the account acct since
\* since, and waits for an answer or for `agy models` since asked
Down == [pc |-> "down", acct |-> 1, since |-> 0, asked |-> 0, cycle |-> 0, born |-> 0]

-----------------------------------------------------------------------------
(* What the database says of an account and of the daemon.                  *)

\* currentPollFailure
Failing(r, ok, seen) == r.status = "error" /\ r.at > Later(ok, seen)

\* renderAccountHealth, without its wording
Health(r, ok, seen) ==
  IF Failing(r, ok, seen) THEN "failing"
  ELSE IF Later(ok, seen) > 0 THEN "ok" ELSE "no poll yet"

HealthNow(a) == Health(run[a], success[a], sample[a])

\* Mutant of LeaseEnd: no time for the result to become visible
LeaseEndAtTimeout(s) == Min({s.updated + s.interval + Timeout, s.next + Timeout})

\* daemonStateIsLive: the end of the lease that a daemon_state gives
LeaseEnd(s) ==
  LET grace == Timeout + RefreshInterval
  IN Min({s.updated + s.interval + grace, s.next + grace})

LooksLive(s) == s.updated > 0 /\ now < LeaseEnd(s)

-----------------------------------------------------------------------------
\* The refresh that starts now, with its own clock
NewJob ==
  [NoJob EXCEPT !.pc = IF mode = "openobserve" THEN "remote" ELSE "status", !.begun = now]

Init ==
  /\ now = 1
  /\ \E s \in Scenarios : mode = s.mode /\ keys = s.keys /\ faults = s.faults
  /\ run = [a \in Accounts |-> NoRun]
  /\ success = [a \in Accounts |-> 0]
  /\ sample = [a \in Accounts |-> 0]
  /\ state = NoState
  /\ gauge = {}
  /\ remote = [a \in Accounts |-> 0]
  /\ daemon = Down
  /\ tried = NeverTried
  /\ request = FALSE
  /\ once = [acct |-> 0, observed |-> 0]
  /\ \E j \in Jobs : jobs = [k \in Jobs |-> IF k = j THEN NewJob ELSE NoJob]
  /\ shown = [begun |-> 0, source |-> "", health |-> [a \in Accounts |-> ""],
              errors |-> FALSE, state |-> NoState]
  /\ nextTick = 1 + RefreshInterval
  /\ real = [j \in Jobs |-> [a \in Accounts |-> {}]]
  /\ late = [j \in Jobs |-> FALSE]
  /\ overran = {}

-----------------------------------------------------------------------------
(* A refresh.                                                               *)

Reading(j) == jobs[j].pc # "idle"
Put(j, job) == jobs' = [jobs EXCEPT ![j] = job]

\* After the samples of an account come those of the next, then the daemon's state
NextRead(job) ==
  IF job.acct < NumAccounts THEN [job EXCEPT !.pc = "status", !.acct = @ + 1]
                            ELSE [job EXCEPT !.pc = "state"]

Fault ==
  /\ faults > 0
  /\ faults' = faults - 1

\* Mutant of Read: the error of a query is dropped
ReadSwallows(j, answered, failed) ==
  /\ \/ Put(j, answered) /\ UNCHANGED faults
     \/ Put(j, failed) /\ Fault
  /\ UNCHANGED <<shown, nextTick, keys>>

\* A query or its failure, which costs its answer only
Read(j, answered, failed) ==
  /\ \/ Put(j, answered) /\ UNCHANGED faults
     \/ Put(j, [failed EXCEPT !.errors = TRUE]) /\ Fault
  /\ UNCHANGED <<shown, nextTick, keys>>

\* latestPollStatus
ReadStatus(j) ==
  LET job == jobs[j]
      a == job.acct
      next == [job EXCEPT !.pc = "samples"]
  IN /\ job.pc = "status"
     /\ Read(j, [next EXCEPT !.run[a] = run[a], !.success[a] = success[a]], next)

\* LatestSamples
ReadSamples(j) ==
  LET job == jobs[j]
      a == job.acct
  IN /\ job.pc = "samples"
     /\ Read(j, NextRead([job EXCEPT !.sample[a] = sample[a]]), NextRead(job))

\* lastGood is recent: the local result is good enough for "auto"
LocalFresh(job) ==
  LET good == Max({Later(job.success[a], job.sample[a]) : a \in Accounts})
  IN good > 0 /\ job.begun - good <= StaleAfter

\* Update on a refreshMsg: the result replaces all of the one before
Show(j, source, health, errors, lease) ==
  /\ shown' = [begun |-> jobs[j].begun, source |-> source, health |-> health,
               errors |-> errors, state |-> lease]
  /\ Put(j, NoJob)
  /\ UNCHANGED <<nextTick, keys>>

\* The last query is that of the daemon's state, which the TUI keeps until the next
\* result and tests against its own clock; without an answer it has none
ShowLocal(j) ==
  LET job == jobs[j]
      health == [a \in Accounts |-> Health(job.run[a], job.success[a], job.sample[a])]
  IN /\ job.pc = "state"
     /\ mode # "auto" \/ LocalFresh(job)
     /\ \/ Show(j, "sqlite", health, job.errors, state) /\ UNCHANGED faults
        \/ Show(j, "sqlite", health, TRUE, NoState) /\ Fault

FallBack(j) ==
  /\ jobs[j].pc = "state"
  /\ mode = "auto" /\ ~LocalFresh(jobs[j])
  /\ Put(j, [jobs[j] EXCEPT !.pc = "remote"])
  /\ UNCHANGED <<shown, nextTick, keys, faults>>

NoneKnown == [a \in Accounts |-> Health(NoRun, 0, 0)]

\* The database cannot be opened: nothing is read
OpenFails(j) ==
  /\ jobs[j].pc = "status" /\ jobs[j].acct = 1
  /\ Fault
  /\ IF mode = "auto"
     THEN Put(j, [jobs[j] EXCEPT !.pc = "remote"]) /\ UNCHANGED <<shown, nextTick, keys>>
     ELSE Show(j, "", NoneKnown, TRUE, NoState)

\* remoteRefresh, which knows nothing of the daemon; a failed one shows no samples at
\* all, local ones included
ShowRemote(j) ==
  /\ jobs[j].pc = "remote"
  /\ \/ /\ Show(j, "openobserve", [a \in Accounts |-> Health(NoRun, 0, remote[a])],
                FALSE, NoState)
        /\ UNCHANGED faults
     \/ Show(j, "", NoneKnown, TRUE, NoState) /\ Fault

Refresh(j) ==
  /\ \/ OpenFails(j) \/ ReadStatus(j) \/ ReadSamples(j) \/ ShowLocal(j)
     \/ FallBack(j) \/ ShowRemote(j)
  /\ UNCHANGED <<now, mode, samples, daemonVars, remote, once>>

\* Mutant of Due: the refresh has no deadline
NeverDue(j) == FALSE

\* The context of a refresh ends with http_timeout: what is left fails at once
Due(j) == Reading(j) /\ now >= jobs[j].begun + Timeout

StartRefresh ==
  \E j \in Jobs : ~Reading(j) /\ Put(j, NewJob)

TickMsg ==
  /\ now = nextTick
  /\ StartRefresh
  /\ nextTick' = now + RefreshInterval
  /\ UNCHANGED <<now, mode, samples, daemonVars, remote, once, shown, keys, faults>>

KeyReload ==
  /\ keys > 0
  /\ StartRefresh
  /\ keys' = keys - 1
  /\ UNCHANGED <<now, mode, samples, daemonVars, remote, once, shown, nextTick, faults>>

\* requestPoll beside a refresh; without a daemon the error joins what is shown
KeyPoll ==
  /\ keys > 0
  /\ StartRefresh
  /\ keys' = keys - 1
  /\ IF daemon.pc = "down"
     THEN shown' = [shown EXCEPT !.errors = TRUE] /\ UNCHANGED request
     ELSE request' = TRUE /\ UNCHANGED shown
  /\ UNCHANGED <<now, mode, samples, state, gauge, daemon, tried, remote, once, faults,
                 nextTick>>

-----------------------------------------------------------------------------
(* The daemon.                                                              *)

At(place) == daemon' = [daemon EXCEPT !.pc = place]
Wait(place) == daemon' = [daemon EXCEPT !.pc = place, !.asked = now]
FetchOf(a) == [daemon EXCEPT !.pc = "fetch", !.acct = a, !.since = now, !.asked = now]
FirstFetch == [FetchOf(1) EXCEPT !.cycle = now]

NextAccount ==
  IF daemon.acct < NumAccounts THEN daemon' = FetchOf(daemon.acct + 1) ELSE At("publish")

StartDaemon ==
  /\ daemon.pc = "down"
  /\ daemon' = [FirstFetch EXCEPT !.born = now]
  /\ UNCHANGED <<now, mode, samples, state, gauge, tried, request, remote, once, tui, faults>>

StopDaemon ==
  /\ daemon.pc # "down"
  /\ Fault
  /\ daemon' = Down
  /\ gauge' = {} /\ tried' = NeverTried /\ request' = FALSE
  /\ UNCHANGED <<now, mode, samples, state, remote, once, tui>>

\* The account is passed over: rate-limited a while ago
SkipAccount ==
  /\ daemon.pc = "fetch" /\ now = daemon.since
  /\ NextAccount
  /\ UNCHANGED <<now, mode, samples, state, gauge, tried, request, remote, once, tui, faults>>

\* The login has expired and `agy models` has not been tried for a while: it may
\* take its time, and so may the second fetch if it succeeds
RefreshCredentials ==
  LET last == tried[daemon.acct]
  IN /\ daemon.pc = "fetch" /\ daemon.acct \in Refreshable
     /\ last = 0 \/ daemon.since - last >= RefreshCooldown
     /\ tried' = [tried EXCEPT ![daemon.acct] = daemon.since]
     /\ Wait("refresh")
     /\ Fault
     /\ UNCHANGED <<now, mode, samples, state, gauge, request, remote, once, tui>>

FetchAgain ==
  /\ daemon.pc = "refresh"
  /\ Wait("refetch")
  /\ UNCHANGED <<now, mode, samples, state, gauge, tried, request, remote, once, tui, faults>>

\* The provider answers; the sample was observed when the fetch began
InsertSnapshot ==
  /\ daemon.pc \in {"fetch", "refetch"}
  /\ sample' = [sample EXCEPT ![daemon.acct] = Later(@, daemon.asked)]
  /\ At("record")
  /\ UNCHANGED <<now, mode, run, success, state, gauge, tried, request, remote, once, tui,
                 faults>>

\* recordPollSuccess and EmitSnapshot
RecordSuccess ==
  LET a == daemon.acct
  IN /\ daemon.pc = "record"
     /\ run' = [run EXCEPT ![a] = [status |-> "success", at |-> daemon.since]]
     /\ success' = [success EXCEPT ![a] = daemon.since]
     /\ gauge' = gauge \cup {a}
     /\ NextAccount
     /\ UNCHANGED <<now, mode, sample, state, tried, request, remote, once, tui, faults>>

\* A fetch fails, for good or as long as its login is not renewed; so may the renewal
\* and the second fetch
RecordError ==
  /\ daemon.pc \in {"fetch", "refresh", "refetch"}
  /\ run' = [run EXCEPT ![daemon.acct] = [status |-> "error", at |-> daemon.since]]
  /\ NextAccount
  /\ UNCHANGED <<now, mode, success, sample, state, gauge, tried, request, remote, once, tui,
                 faults>>

\* UpsertDaemonState, once all accounts are through
Publish ==
  /\ daemon.pc = "publish"
  /\ \E d \in Delays : state' = [updated |-> now, interval |-> d, next |-> now + d]
  /\ daemon' = [Down EXCEPT !.pc = "sleep", !.born = daemon.born]
  /\ UNCHANGED <<now, mode, samples, gauge, tried, request, remote, once, tui, faults>>

Awake == request \/ now >= state.next

Wake ==
  /\ daemon.pc = "sleep"
  /\ Awake
  /\ daemon' = FirstFetch
  /\ request' = FALSE
  /\ UNCHANGED <<now, mode, samples, state, gauge, tried, remote, once, tui, faults>>

\* The periodic reader exports the last value of every gauge, stamped with the
\* time of the export; in "sqlite" mode nobody looks
ExportGauges ==
  /\ daemon.pc # "down"
  /\ mode # "sqlite"
  /\ remote' = [a \in Accounts |-> IF a \in gauge THEN now ELSE remote[a]]
  /\ UNCHANGED <<now, mode, samples, daemonVars, once, tui, faults>>

\* runOnce stores its snapshots after the last fetch, within one timeout for all of
\* them, and records no run.  In "openobserve" mode it would store what it reads
\* there, in a database at which that mode does not look
OnceFetches ==
  /\ mode # "openobserve"
  /\ once.acct = 0
  /\ keys > 0
  /\ keys' = keys - 1
  /\ \E a \in Accounts : once' = [acct |-> a, observed |-> now]
  /\ UNCHANGED <<now, mode, samples, daemonVars, remote, jobs, shown, nextTick, faults>>

OnceStores ==
  /\ once.acct # 0
  /\ sample' = [sample EXCEPT ![once.acct] = Later(@, once.observed)]
  /\ once' = [acct |-> 0, observed |-> 0]
  /\ UNCHANGED <<now, mode, run, success, daemonVars, remote, tui, faults>>

\* Timers and deadlines come in time, everything but a request takes no time
Tick ==
  /\ now < Horizon
  /\ now < nextTick
  /\ \A j \in Jobs : ~Due(j)
  /\ daemon.pc \notin {"record", "publish"}
  /\ daemon.pc \in {"fetch", "refetch"} => now < daemon.asked + Timeout
  /\ daemon.pc = "refresh" => now < daemon.asked + RefreshTimeout
  /\ daemon.pc = "sleep" => ~Awake
  /\ once.acct # 0 => now < once.observed + Timeout
  /\ now' = now + 1
  /\ UNCHANGED <<mode, samples, daemonVars, remote, once, tui, faults>>

-----------------------------------------------------------------------------
Daemon ==
  \/ StartDaemon \/ StopDaemon \/ SkipAccount \/ RefreshCredentials \/ FetchAgain
  \/ InsertSnapshot \/ RecordSuccess \/ RecordError \/ Publish \/ Wake \/ ExportGauges

Step ==
  \/ \E j \in Jobs : Refresh(j)
  \/ TickMsg \/ KeyReload \/ KeyPoll \/ Daemon \/ OnceFetches \/ OnceStores \/ Tick

Polling == daemon.pc \notin {"down", "sleep"}

\* For each refresh and each account: what the health of the account has been in
\* the database since its runs were read, and whether a sample older than the
\* latest run was stored meanwhile.  Which of the published state and the one that the
\* TUI holds, by their times, was followed by a poll longer than one timeout
Observe ==
  /\ real' = [j \in Jobs |-> [a \in Accounts |->
       IF jobs'[j].pc = "idle" \/ jobs'[j].acct < a
          \/ (jobs'[j].pc = "status" /\ jobs'[j].acct = a)
       THEN {} ELSE real[j][a] \cup {HealthNow(a)'}]]
  /\ late' = [j \in Jobs |-> Reading(j) /\ Reading(j)' /\
       (late[j] \/ \E a \in Accounts : sample'[a] # sample[a] /\ sample'[a] <= run[a].at)]
  /\ overran' = {u \in {state.updated', shown.state.updated'} :
       \/ u \in overran
       \/ u = state.updated' /\ Polling' /\ now' > daemon.cycle' + Timeout}

Next == Step /\ Observe

Spec == Init /\ [][Next]_vars

-----------------------------------------------------------------------------
(* Properties.                                                              *)

\* However refreshes overlap and overtake one another, what is shown began to be
\* read at most one refresh interval and two timeouts ago: an old result may
\* replace a newer one, but not for longer
DisplayFresh ==
  now <= IF shown.begun = 0 THEN 1 + Timeout
                            ELSE shown.begun + RefreshInterval + 2 * Timeout

\* An account that is shown as failing, as ok or as never polled was so in the
\* database at some time while the refresh read it, although its runs and its
\* samples are read in different transactions; exempt are refreshes with an error
\* panel and those beside which `once` stored a sample older than the last run
HealthIsReal ==
  [][\A j \in Jobs :
       jobs[j].pc = "state" /\ jobs'[j].pc = "idle" /\ ~shown'.errors /\ ~late[j]
         => \A a \in Accounts : shown'.health[a] \in real[j][a]]_vars

\* What the TUI holds of the daemon's state may be replaced at any time
RefreshUnderWay == now = nextTick \/ \E j \in Jobs : Reading(j)

\* The state that the TUI holds was published by the daemon that runs
OfRunningDaemon == daemon.pc # "down" /\ shown.state.updated > 0
                     /\ shown.state.updated >= daemon.born

\* "Once the timer fires, allow one provider timeout for the next poll to finish and
\* one TUI refresh interval for the result to become visible" (tui/model.go:625): a
\* running daemon looks alive, by the copy of its state that the last refresh left,
\* whenever the TUI is not about to replace it
LiveDaemonLooksLive ==
  OfRunningDaemon /\ ~RefreshUnderWay => LooksLive(shown.state)

\* The same where the next poll does finish within one timeout: not where several
\* accounts, or `agy models` and a second fetch, make it longer
LiveDaemonLooksLiveUnlessOverran ==
  OfRunningDaemon /\ ~RefreshUnderWay /\ shown.state.updated \notin overran
    => LooksLive(shown.state)
=============================================================================
