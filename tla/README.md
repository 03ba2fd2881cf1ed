# Verification of token-burn

token-burn watches the quota of AI subscriptions: a daemon polls the providers
and stores what they answer, a terminal UI and a command line show it, and the
logins it needs are shared with other programs that rotate them. This directory
holds TLA+ models of the parts of it in which order, concurrency, failure and
restarts decide whether it works, the TLC runs that check them on small
instances, and TLAPS proofs for instances of any size.

Line numbers below and in `PROJECT.json` are those of the repository's sources
under `src/`. `PROJECT.json` maps every definition to the lines it translates.

    tlc -config MCDaemon_default.cfg MCDaemon     # a run
    tlapm AuthLockProofs.tla                      # the proofs of a module

## 1. The system

### Parts, their state and their operations

| Part | Source | State | Operations |
|---|---|---|---|
| Poll loop | `internal/daemon/daemon.go` | backoff, timer, control channel, last credential refresh per account | `Run`, `PollOnce`, `Backoff.NextDelay`, rate-limit cooldown, `agy models` recovery |
| Control socket | `internal/daemon/daemon.go:152-231` | the socket file, the listener | stat, dial, remove, listen, chmod, close, remove again |
| Pi auth store | `internal/piauth` | lock directory, heartbeat, `auth.json` | `Read`, `Modify`, take-over of stale locks |
| OAuth refresh | `internal/oauthrefresh`, `internal/provider/codex` | credential in `auth.json`, the cache of dead refresh tokens | early refresh, forced refresh after a 401, write-back |
| Claude login | `internal/provider/claude` | credential files, keychain | candidates in order, refresh without a lock, compare before write |
| Other providers | `internal/provider/{copilot,zai,xai,antigravity}` | none, or a login as above | one or a few requests per poll |
| Reset ledger | `internal/store/resets.go` | `reset_state`, `reset_credits`, `reset_events` | merge of an observation, inferred uses, reconciliation |
| Sample store | `internal/store/store.go` | samples, `poll_runs`, `daemon_state` | insert, latest samples, history pages |
| Terminal UI | `internal/tui/model.go` | the newest result, selection, liveness of the daemon | messages of commands in flight |
| Forecast | `internal/forecast` | none | burn rate, capacity, expiry of credits |
| OTel | `internal/otel`, `internal/otelread` | none | export, backfill, reading back |
| Upgrade | `internal/upgrade` | the installed binary | download, verify, replace, roll back |
| Command line, configuration, service files | `internal/cli`, `internal/config`, `internal/service` | files | load, print, install |

### How they interact

The poll loop calls a provider per account, one after the other; the provider
reads and perhaps refreshes a login, and the answer goes into the sample store
and the reset ledger in one transaction. `token-burn once --store` fetches the
same accounts in a process of its own and stores their snapshots, so two pollers
meet at the store, at the login files and at the providers. The TUI reads the store and wakes the daemon
through the control socket. Pi and Claude Code refresh the same logins as
token-burn: with Pi there is a lock (a directory with a heartbeat, compatible
with the `proper-lockfile` package that Pi uses), with Claude Code there is none.
Antigravity's and GitHub's logins are only read. `upgrade` replaces the program
that the service manager runs; `otel-backfill` reads the store while the daemon
writes it.

### What is hard, and what makes each part correct

- *Poll loop.* Requests to poll, restarts and slow requests retry what was rate
  limited; the cooldown is recomputed from rows of the last hour. Correct: rate
  limits are respected across all of this, the backoff dies down again, no
  request to poll is slept over, no account starves.
- *Control socket.* Daemons are killed and leave the socket behind. Correct: one
  daemon polls, it is the one that can be reached, and there is one.
- *Pi auth store.* Owners die or are suspended; identity and age are compared
  before a path is used. Correct: an update is never based on an overwritten
  version, a dead owner's lock goes away, callers return.
- *OAuth refresh.* The refresh token rotates with every use. Correct: the file
  keeps the live one, nobody writes an older one back, a healthy login is not
  reported as expired, a dead one is not posted over and over.
- *Reset ledger.* Observations arrive out of order and grants vanish from the
  list. Correct: one use is counted once, the summary agrees with the rows, a
  partial answer deletes nothing.
- *Claude login.* The same rotation without a lock, in up to four sources. Correct:
  no race leaves everybody with a dead token, no refresh undoes another, and the
  user is sent to `claude login` only when no source holds a good login.
- *Terminal UI.* Refreshes overlap and end in any order, each reads several
  transactions. Correct: what is shown is recent, was true of the database, and
  a running daemon is not called dead.
- *Upgrade.* Killed or failing anywhere between two renames. Correct: there is
  always a whole binary to go back to, a failure restores the old one, a success
  reaches the running service.
- *Backfill.* Fails in the middle and is resumed while rows are added. Correct:
  nothing is left out, nothing repeated without a failure.
- *Forecast.* Windows reset and samples jump inside the history. Correct: only the
  current window counts, and the numbers shown agree with each other.
- *Antigravity, Copilot.* Several logins or requests with failures of their own.
  Correct: a login that works is found behind those that do not; capacity that
  GitHub has cut off is not shown as spare.

`PROJECT.json` lists the single hazards under "hazards", each at its line, with
the properties that look at it or the reason why none does yet.

## 2. Modules

| Module | Models | EXTENDS / INSTANCE |
|---|---|---|
| `Daemon`, `MCDaemon` | the poll loop of one process and its restarts | |
| `DaemonProofs` | theorems about it | `Daemon` |
| `AuthLock`, `MCAuthLock` | the lock directory and the transaction on `auth.json` | instance of `CredentialFile` |
| `CredentialFile` | the abstract specification of `Modify` | |
| `AuthLockProofs` | theorems about it, the refinement among them | `AuthLock` |
| `PiRefresh`, `MCPiRefresh` | polls, Pi, user and server around one rotating login | |
| `PiRefreshProofs` | theorems about it | `PiRefresh` |
| `SharedLogin` | the abstract specification of the login that `PiRefresh` refreshes | instantiated by `PiRefresh` |
| `ClaudeRefresh`, `MCClaudeRefresh` | polls, Claude Code, user and server around logins without a lock | |
| `ClaudeRefreshProofs` | theorems about it | `ClaudeRefresh` |
| `Dashboard`, `MCDashboard` | the terminal UI beside a daemon and a `once --store` | |
| `DashboardProofs` | theorems about it | `Dashboard` |
| `Upgrade` | `upgrade`, and the service it restarts | |
| `Backfill` | `otel-backfill` and its resumption | |
| `Forecast` | the forecast of a quota window | |
| `Antigravity` | a poll of Antigravity and the programs that own its login | |
| `Copilot`, `MCCopilot` | a poll of a Copilot account billed by AI credits | |
| `CommandLine`, `MCCommandLine` | the commands that share no state, side by side | extends `Upgrade`, instances of the four above |
| `CommandLineProofs` | theorems about it, `Upgrade` and the four | `CommandLine` |
| `ResetLedger`, `MCResetLedger` | two pollers and the ledger of a Claude account | |
| `ResetLedgerProofs` | theorems about it | `ResetLedger` |
| `ControlSocket`, `MCControlSocket` | daemons that start, stop and die around one socket | |
| `ControlSocketProofs` | theorems about it | `ControlSocket` |

Definitions whose comment says *Mutant* are the bugs the runs must notice; no
specification uses them.

### Daemon

`pc` is the place in `Run`/`PollOnce`, `acct` the account of the loop. Every
early exit of the code is an action: `SkipRateLimited`, `RecordUnsupported`,
`FetchFails`, `RefreshReturns`, `RefetchFails`, `RecordError`. `limited[k]` is
what matters of `poll_runs`: the ages of the trailing rate-limited rows of key
`k`, which is what `rateLimitCooldownForRuns` counts; any other row ends the
streak. `RecordKey` and `SuccessKey` are two functions because the code records
failures under the configured provider name and successes under the snapshot's.
Times are ages, so the state space is finite without a bound on the clock. A
fetch may take up to `MaxFetch` ticks, the sleep may be late, and `Exit` stands
for database errors, signals and crashes. `RequestPoll` puts a token into the
channel of capacity one. History variables: `refused[k]` are the ages of the
requests for `k` that were answered 429, written down or not; `lost` are the keys
whose 429 went unrecorded because the process ended before `recordPollError`
(`daemon.go:337`); `worked` says that the last cycle did not fail; `unserved` is a
request to poll that no cycle has begun after.

`RateLimitGap` measures from the answers and not from the rows, and exempts one
request: the first one after a 429 whose row was lost. `StreakFitsLookback` is
about the rows: how many rate-limited ones without another in between fit into
the lookback. It is no budget of 429s per hour: a success in between starts the
count anew, and then only the gap is left.

Left out: what is stored, telemetry, the `daemon_state` row.

### AuthLock and CredentialFile

A step is one system call on the path, since other processes (Pi among them)
can act between any two of them: `mkdir`, `open` and `stat` of the directory
just made, the first heartbeat, the comparison of identity and age in
`removeStaleLock`, the removal, the read of `auth.json`, `verifyOwned`, the
rename, and `release`. `Dirs` are inodes, `lockDir` the one at the path, `fd[p]`
the one that `p` has open, `stale` says that it has had no heartbeat for 30
seconds. `raced` is a history variable: a directory was removed while its owner
was between a check and the call that relies on it (`Window`). `Crash` also
stands for system calls that fail.

`CredentialFile` says what `Modify` promises: a version of the file is replaced
only by one derived from it. `AuthLock` refines it under the mapping of `file`
and `view` to themselves, as long as no lock gets stale (proved), and in every
step before a race (checked and proved, `SerializedUnlessRaced`).

### PiRefresh

`Fetch` of the Codex provider with a login from Pi: read under the lock;
refresh ahead of expiry or go to the usage endpoint; after a 401 force a refresh
and ask once more. `Modify` is the critical section from `ModifyRefreshes` to
`Persist`, with its callback's early returns as `ModifyUses` and
`ModifyGivesUp`. `RefreshFails` is the code's judgement over a failed refresh:
early refreshes are forgiven while the old token lives. A token is its
generation; the server accepts the latest refresh token of a login that is not
revoked. The poll sees one clock reading, `start`, the server sees `now`.
`dead` is the `FailureCache` of the provider value, which `providerFor` makes
anew for every poll. `AnswerLost`, `PersistFails`, `ChmodFails` and `Crash` are
the failures between rotation and write-back.

The lock is exclusive here, which is what `AuthLock` establishes while no owner
is suspended for 30 seconds; a lock that is lost all the same shows as
`PersistFails`. `SharedLogin` is what all of it amounts to: a token is exchanged
and its successor stored in one step (`Rotate`), or lost (`Lose`), and only a new
login brings a lost one back. `PiRefresh` maps `held` to the generation in the
file, `lost` to `stranded` (a rotation reached nobody), and `issued` to the
server's generation, less one while a rotation waits to be written: exchange and
write, which are two steps here, are one at the write. Pi is assumed to exchange and write under the lock. The native
Codex login, which is only read, is not modelled.

### ResetLedger

Pollers stamp a snapshot (`ObservedAt`) before they fetch (`claude.go:47`), are
answered later (`Answered`, with the grants as they are by then) and insert later
still, in any order. `Insert` is the whole of `insertResets`: the comparison with
the stored observation, the rows of each credit, the inferred uses,
`reconcileMissingCredits` and the summary. Times are compared as the code does, as
strings; `TextRank` is the order of the strings. Redemptions and other fetches may
fall between a stamp and its answer. The history variable `crossed` says that the
provider answered a fetch after one that is stamped later; from then on a list
that the ledger takes for the newer one may be the older one, and
`NoDuplicateUsesUnlessCrossed` says nothing. Codex events and plan-limit periods
are not in this model.

### ControlSocket

Each daemon goes through `stat`, `dial`, `remove`, `listen`, `chmod`, polls, and
on the way out closes the listener (which unlinks the path) and removes the path
once more, as `closeControl` does. `path` is what is at the socket path: nothing,
a daemon's socket or a dead one's. Any daemon may start, stop or be killed while
others do. Nothing in the code makes check and removal one step, so the model
records where that matters: `late[d]` are the daemons that have bound the path
since `d` last checked it or gave up its own socket, and `raced` says that a
daemon has removed the socket of a late one, between its dial and its
`os.Remove` or between the two removals of `closeControl`. The safety properties
hold until then, and after it they do not (`MCControlSocket_together.cfg`).

### ClaudeRefresh

The sources are two files, the macOS keychain and the environment; `Setups` are
what they hold at first. `Begin` reads the files (`collectCredentials`),
`TryNext` takes the freshest one that is left, `TryKeychain` reads the keychain
when the files are exhausted, as `Fetch` does, also a second time when there was
no file. `Try` to `FetchFails` are `fetchWithCredential`: refresh when it is due,
request, after a 401 one forced refresh. `RefreshFails` judges a failed refresh
as the code does: forgiven while the token lives, the reason of the poll when it
has expired, no reason at all after a 401. `Reread` and `Rename` are the second
look and the replacement in `persistToFile` and `persistToKeychain`; between
them anything may happen. Claude Code exchanges and writes in two steps, without
a second look. History variables: `gone` are logins lost to a fault or replaced
by the user, `raced` says that a login was overwritten between the second look
and the write, `steady[p]` are the sources that were good and untouched during
the poll of `p`, `excused[p]` those it gave up although a refresh could have saved
them.

### Dashboard

Times are absolute, because results are compared by the time at which they began
to be read. A job is a refresh in flight: a query for the runs and one for the
samples of each account (`ReadStatus`, `ReadSamples`), one for the daemon's state
(`ShowLocal`), perhaps OpenObserve (`FallBack`, `ShowRemote`), each of which may
fail; `Due` is its context. `Show` replaces the whole model, as `Update` does, the
copy of the daemon's state included (`shown.state`, `m.daemonState` at
`model.go:167`), which `LooksLive` tests against the TUI's clock. The
daemon polls the accounts in order, each within `Timeout`; an account in
`Refreshable` whose login has expired may take `RefreshTimeout` more for `agy
models` and another `Timeout` for the second fetch (`RefreshCredentials`,
`FetchAgain`). It publishes its state at the end of the cycle; it may stop anywhere
and start again. `shown`, `run`, `success`, `sample` keep times instead of
contents. `real[j][a]` collects what has been true of account `a` while job `j`
read it; `overran` are the published states, by their times, that were followed by
a poll longer than one timeout.

`LiveDaemonLooksLive` is what the comment at `model.go:625` promises of that copy,
while no refresh is about to replace it. It fails as soon as a poll takes longer
than one timeout, by several accounts (`dashboard_slow`) or by `agy models` and one
account; `LiveDaemonLooksLiveUnlessOverran` is the rest.

### Upgrade

A step is one system call on the shared paths: `Stat`, removal of the old backup,
the two renames of `replaceBinary`, staging file, copy and rename of
`installBinary` across file systems, roll-back, clean-up. A binary is the version
it was built from; `Junk` is a damaged download or half a copy. `Prepare` is the
private part: download, checksum, extraction. `Crash` leaves the paths as they
are. The service is started, stopped and restarted by the user, by its manager
(launchd or systemd, which answer differently) and by the upgrade. `raced` is set
when two upgrades are between `Stat` and clean-up together.

### CommandLine and its parts

`Backfill`: `rows` are the ids of the store, which the daemon appends to; `Query`
and `Export` are the loop of the command, `ExportFails` stands for a lost request,
a lost answer, a partial success and a kill; `printed` is the id that the next
command is given as `--after-id`.

`Forecast`: the state is the history of a window, in the order `History` returns
it; all the rest is the function `Calculate`, with exact fractions instead of
floating point. What the code filters step by step is a set of indices of the
history: `OfLatestWindow`, then from the last of the `Restarts` on. Every history
up to `MaxSamples` is reached.

`Antigravity`: four places of the login in the order of `tokenCandidates`, with
the duplicates removed; the vendor's programs write two of them at any time.
`Call` and `SnapshotOutcome` are the decision tables of `callCloudCode` (two
servers) and `fetchSnapshot` (three methods). `disturbed` marks polls that met a
fault of network or file system.

`Copilot`: the quota and the billing request, each from `gh` or with Pi's login.
The answer to the first has any number of snapshots, each with its own share used,
whether GitHub has cut it off (`has_quota: false`) and whether it is flagged as the
one that tokens are billed to. `TokenBillingQuotas` are those that
`tokenBillingQuota` may return: any flagged one, because it ranges over a Go map.
`latest` are the samples that `LatestSamples` returns, those of the newest
observation only. `backing` is the quota that GitHub really takes the credits from.
`CutOffShowsNoCapacityUnlessAmbiguous` exempts answers in which another quota is
flagged as well, since the credits may then be capped by the wrong one
(`MCCopilot_flags.cfg`).

`CommandLine` puts them beside `Upgrade`. A process runs one command, and these
share no state, so `CommandNext` is a sum: the command named by `running` moves,
the others stay. This says nothing about combinations, because there are none;
the commands that do meet have modules of their own.

## 3. Runs

| Run | Question | Result |
|---|---|---|
| `daemon_default` | default timing (tick = 2.5 min), one antigravity account, poll requests at any time, two exits: recovery of the backoff, distance of requests from a 429, length of a streak, no missed wake-up, no cooldown that comes back | holds |
| `daemon_accounts` | three accounts, one unsupported: is each supported one polled forever? | holds |
| `daemon_alias` | does a success end the streak of an account configured by an alias? | violated |
| `lock_shared` | two processes, one death, one suspension: exclusion, serialized updates, who removes the directory, orphans, termination | holds |
| `lock_takeover` | does one dead owner endanger `Modify`? | violated |
| `pi_shared` | daemon, `token-burn once`, Pi, user and server with one fault: live token, no regression, honest `auth_expired`, one refusal per poll, termination, refinement of `SharedLogin` | holds |
| `ledger_overlap` | two pollers, late answers and inserts in any order: duplicate uses, summary, disappearing rows | holds |
| `socket_starters` | three daemons that start and stop at any time, three kills: until one removes a socket bound after its check, one polls, is reachable, exists | holds |
| `claude_shared` | daemon, `token-burn once`, Claude Code, user and server around files, keychain and environment, with one fault: live token, no regression, honest `auth_expired` | holds |
| `dashboard_overlap` | two overlapping refreshes, a daemon that stops, starts and renews a login, a key or failures, for each source of samples: recent, real, and the daemon alive by the copy the TUI holds | holds |
| `dashboard_slow` | does a daemon with three slow accounts look alive? | violated |
| `commands` | the commands that share no state: two upgrades with kills, a resumed backfill, every short history, a poll of Antigravity, polls of a Copilot account with two quotas | holds |

### What the violated runs show

- `daemon_alias`: the streak is looked up under `acct.Provider` and ended under
  `snap.Provider`; for an account configured as `zhipuai` a success leaves the
  cooldown in place (`daemon.go:283` against `daemon_test.go:475`).
- `lock_takeover`: after the comparison of `removeStaleLock` the path is removed,
  whatever is there by then; the new lock of another process can go, and two
  processes update `auth.json` from one version (`lock.go:153` against
  `store.go:88`).
- `dashboard_slow`: the lease in the `daemon_state` that the TUI holds leaves a due poll one
  `http_timeout` and one refresh interval, but `PollOnce` gives every account a
  timeout of its own, one after the other. With the default of 15 seconds and an
  interval of 60, six accounts that time out are enough to show a running daemon
  as stopped (`tui/model.go:629` against the comment at `:625`); a slow
  `agy models` (two minutes) is enough by itself.

### Further configurations

These are kept beside the runs and are started the same way. Each ends in a
violation, and shows where the code does not do what a comment or a document
says, or where a property needs one of its conditions.

| Command | Property | What it shows |
|---|---|---|
| `tlc -config MCDaemon_longinterval.cfg MCDaemon` | `FailureHoldsAtBase` | `NextDelay` caps the first backoff at 15 minutes even if `poll_interval` is longer, so a failed cycle is followed by a *shorter* wait (`daemon.go:262` against the comment at `:256`) |
| `tlc -config MCPiRefresh_redial.cfg MCPiRefresh` | `RefusedOncePerCooldown` | `daemon.go:575` makes a provider, and with it an empty `FailureCache`, for every poll; a dead token is posted at each of them (against `docs/PROVIDERS.md:60`) |
| `tlc -config MCResetLedger_slow.cfg MCResetLedger` | `NoDuplicateUses` | the stamp is taken before the request is sent, so the later stamped of two overlapping polls may carry older data, and one use is counted twice (`claude.go:47` against `docs/DATA_MODEL.md:149`) |
| `tlc -config MCControlSocket_together.cfg MCControlSocket` | `OneDaemonPolls` | two daemons that start together both find the left-over socket dead, and the second removes the first one's new socket (`daemon.go:184` against `:182`) |
| `tlc -config MCClaudeRefresh_boundary.cfg MCClaudeRefresh` | `AuthExpiredIsNeverSpurious` | a refresh that fails ahead of expiry counts as the attempt of the poll; when the token then ends before the request, the 401 is final and a login that could be refreshed is reported as expired (`claude.go:141` against the comment at `refresh.go:18`) |
| `tlc -config MCCopilot_flags.cfg MCCopilot` | `CutOffShowsNoCapacity` | when GitHub flags two quotas and has cut off the one that the credits are taken from, the order of a Go map decides which of them caps `ai_credits` (`copilot.go:380` against `docs/PROVIDERS.md:441`) |

### Bounds, and why they are enough

- *Daemon*: one tick is 2.5 minutes, so that the backoff of 7.5 minutes, between
  the interval of 5 and the maximum of 15, is a whole number of them: interval 2,
  maximum 6, base cooldown 6, cap and lookback 24, refresh cooldown 12. Shorter
  times are rounded up to a tick: the smallest cooldown (5 minutes) is 2, a
  request may take one. `Horizon` is one beyond the lookback: an older age decides
  nothing. Two exits give a restart before and after a rate limit.
  `daemon_accounts` shrinks the times (cap 4) to afford three accounts: one
  before, one behind, and one never fetched.
- *AuthLock*: two processes are an owner and a rival; a third inode is the lock of
  a process that has been removed and made again. One death and one suspension
  are each enough for a take-over, and the run has both. Two writes: the first
  is lost, the second is the one that overwrites it.
- *PiRefresh*: lifetime 2 with a clock up to 2 has a poll before half of the
  lifetime, at it and at expiry; three generations are the original, a rotation
  and a login or second rotation in reaction to it; one fault breaks the
  rotation. Clock and generations are bounded, so the system stops at the end
  of the horizon: `CHECK_DEADLOCK FALSE`.
- *ResetLedger*: a duplicate needs two observations that straddle a use and a third
  in between; four fetches of two pollers leave one to cross with another. Two
  grants let one vanish or expire while the other stays; two resets per grant make
  a drop by one differ from a drop to zero. One use per grant is enough to be
  counted twice. The number of fetches is bounded, hence `CHECK_DEADLOCK FALSE`. The
  pollers are interchangeable: symmetry is used (there are no liveness
  properties in this run).
- *ControlSocket*: three daemons are one that leaves, one that takes over and one
  that meets both; three kills let each of them leave a socket behind.
- *ClaudeRefresh*: lifetime 2, skew 1 and a clock up to 1 have a poll before the
  refresh is due, one in which it is due and the token lives, and one after its
  end; a login from the start, a later one by the user, and three generations
  are a race of three refreshes; one fault breaks a rotation. The six setups
  are every order in which sources can shadow each other. The pollers are
  interchangeable: symmetry (no liveness in this run). The clock is bounded:
  `CHECK_DEADLOCK FALSE`.
- *Dashboard*: two refreshes overlap and overtake each other; one account is
  enough for the order of its queries, and `dashboard_slow` has three for the
  order of polls. The horizon of 6 has three refresh intervals and two cycles of
  the daemon, and room for `agy models` (two ticks, four between two tries). In a
  behaviour one key is pressed, or at most two queries fail, logins expire or
  daemons stop, never both: more of either multiplies interleavings without new
  ones in kind.
- *CommandLine*: two upgrades and two releases with any number of kills; four rows
  against batches of two and limits of 0, 1 and 3, so that a limit ends inside a
  batch, at its end or not at all, with two failures; three samples with
  percentages and resets on both sides of each tolerance; two logins and four
  access tokens for four places; two Copilot quotas, each at 0 or beyond 100 percent,
  and up to two credits against an allowance of none or one. Which quota the credits
  come from is chosen at the start when `copilot` runs and is fixed otherwise.
  A history and an export end: `CHECK_DEADLOCK FALSE`.

### Fairness

No liveness is claimed of `ClaudeRefresh`, `Dashboard` and `CommandLine`: a poll,
a refresh and a command end with their contexts, of which the model has the
deadline as a guard of `Tick`.

- *Daemon*: weak fairness of `Loop` is the Go scheduler, the request deadlines and
  the service manager's restart; strong fairness of `Tick` says that time goes
  on, since a tick can be disabled again and again by short cycles. Failing,
  exiting and requesting are never forced.
- *AuthLock*: a process inside a call is scheduled, and a daemon calls again (weak).
  Strong fairness of `MkdirSucceeds` and `AcquireTimeout`: both are only enabled
  between two attempts, and the deadline of 15 seconds does pass. `GoStale` is
  weakly fair: 30 seconds pass too. Nobody has to die or to refresh.
- *PiRefresh*: a poll goes on (weak fairness of `Poll(p)`): requests have a timeout
  of 15 seconds and the lock has its own. Pi, the user and the server owe
  nothing.
- *ControlSocket*: a daemon that is off is started, and its start and its shutdown
  go on; being stopped or killed is never forced.

## 4. Theorems

All constants are arbitrary values under the named assumptions of the modules
(`DaemonAssumption`, `AuthLockAssumption`, `PiRefreshAssumption`,
`ClaudeAssumption`, `DashboardAssumption`, `CommandLineAssumption` and so on), which every run evaluates for its instance.

*DaemonProofs.* `TypeCorrect`; `BackoffRecoversHolds`, assuming
`PollInterval <= MaxBackoff` (without it the statement is false:
`MCDaemon_longinterval.cfg`), from `BackoffInv`: an active backoff lies between the
interval and the maximum, and one that a recovery has left behind lies above the
interval. `RateLimitGapHolds`: what was answered 429 and what was written down
differ while a request is under way and after a row was lost, so `GapInv` relates
the two: every refused request has a row at least as young or is about to get one,
unless its key is in `lost`; the request under way began after all of them; and where
a row of another kind is about to be written there is none left to cover.
`RequestWakesLoopHolds` is inductive as `TokenKept`: a request that no cycle has
served has its token in the channel, wherever the loop is.
`EligibleStaysEligibleHolds`: the ages of the runs differ, so at most one run
leaves the lookback per tick; one run less never makes the cooldown longer, and
every age that is left has grown.
`StreakFitsLookbackHolds`: where n doublings make the cooldown as long as the
lookback, a streak has at most n rows in it. Two of them in the lookback differ in
age, so the younger one is younger than the lookback and the account cools down;
the strengthening, `FlightBudget`, has one row less while a request is in flight.

*AuthLockProofs.* The central invariant is `OwnerInv`: at most one process holds
the directory at the path, a process in a `Window` holds it, and its descriptor
is current. It is inductive except for a removal inside a window, which is
exactly what `raced` records; so `raced \/ OwnerInv` is invariant, and from it
`SerializedUnlessRacedHolds` and `RemovedByOwnerOrAsStaleHolds` follow step by
step. While no lock is stale nobody removes another's directory
(`NeverLostWhileFresh`), which gives `MutualExclusionHolds` and, assuming
`MaxStale = 0`, the refinement `SerializedUpdatesHold`.

*PiRefreshProofs.* `TypeCorrect` includes that the lock is held exactly by the
process in the critical section. `GrantInv` strengthens `FileHoldsLatest`: the
process about to exchange holds the generation that is in the file, and one
about to write holds the server's latest. `FileHoldsLatestHolds` and
`NeverGoesBackHolds` follow. `RefusedInv` (every refusal of the poll under way is
in its cache, and what is about to be posted is not) gives
`RefusedOncePerPollHolds`. `SharedLoginImplemented` is the refinement: with
`GrantInv`, every step of a poll, of Pi, the user or the server is a `Rotate`, a
`Lose`, a `Login` or a stutter of `SharedLogin`.

`AuthExpiredIsTrueHolds` (a poll that reports `auth_expired` had a login that was
broken at some time during the poll) rests on three more: `ShortPoll`, `ReplacedSince`
(what has replaced the credential of a poll was issued during that poll) and
`WholeWhileUnbroken` (while the login is whole, no exchange of the poll is refused
and what its forced refresh has brought is accepted). It assumes `Lifetime > 1`: an
access token outlives a poll. With a lifetime of one tick a token could end while
the poll that has just fetched it asks again; the real ones live for hours and a
poll for seconds.

*ClaudeRefreshProofs.* Nobody has a lock here, so the invariant says why none is
needed. `OneOwner`: a rotation that is not written yet, by a poll or by Claude
Code, is the only copy of its generation, and nobody else has one of that login
under way, since the server takes each refresh token once. `InStep`: unless a
login slipped in between the second look and the write (`raced`), each source
holds what was read from it, a successor of that, or a new login that replaced
it; a poll about to rename finds exactly what it read. With `AllKnown` (no copy is
ahead of the server) and `NewLoginUnknown` this is inductive together with
`NewestTokenKept`, and gives `NewestTokenKeptHolds` and `NeverGoesBackHolds` for any
number of pollers, logins, exchanges, crashes and lost answers.

`AuthExpiredIsTrueHolds` says the same of Claude: nobody is sent to `claude login`
while a source is good that no one has touched. `SteadySource` follows such a source
through the poll: it stays on the list with what was read from it, and is given up
only with an excuse. It assumes `OwnLogins`: a token without a refresh token is of a
login that no other source can refresh, as the tokens of `claude setup-token` are,
which `CLAUDE_CODE_OAUTH_TOKEN` holds; from it follows that no exchange ever ends such a token
(`BareApart`). All setups of the run satisfy it.

*ResetLedgerProofs.* `ObservationsOrdered` relates the times of what is in flight
and in the ledger to the clock; `CreditsSurviveHolds` follows for any order of the
stored times. `NoDuplicateUsesHolds` assumes only that the strings compare as the
times do (`TextInOrder`); how long an answer takes, what is redeemed meanwhile and
which other fetches run beside it is free. The argument is a history: some
functions `L` and `R` give what each grant had left, and how much of it had been
redeemed, when the provider answered the fetch that is stamped with each time; a
drop in `L` is covered by a rise in `R`, and the ledger has counted no more than
`R` at its last observation. `BackedInv` says that such a pair exists, which is so
until two answers cross.
`SummaryMatchesCreditsHolds` assumes that the strings of times are in the order of
the times (`TextInOrder`). With `WholeSecondFirst` it is false: a later whole list does
not replace the rows of an earlier one. A whole list leaves no available credit but
those it shows, and a partial list never turns a summary from right to wrong; the two
sums are over equal functions, and the empty one is 0.

*DashboardProofs.* `DisplayFreshHolds` (what is shown began to be read at most one
interval and two timeouts ago) is inductive with `InTime` (refreshes end within their
timeout, the next one is due within an interval) and `FreshInv` (a refresh that began
soon enough is in flight, or the next one will replace what is shown in time).
`CycleInvariant` says that the poll begins when the published state announces it or
sooner, and that a state followed by a poll longer than one timeout is noted in
`overran`. `LiveDaemonLooksLiveHolds` follows with `LeaseInv`, which relates the
copy the TUI holds to its refreshes: the next one comes before the lease of the copy
has run out, or one is in flight and will replace the copy.
There is no assumption on the number of accounts or on the time `agy models` takes.
`HealthIsRealHolds` rests on `ReadInv`: between
the two transactions of a refresh only a newer sample can appear, and such a sample
turns the health that the older runs give into what it was or what it is.

*CommandLineProofs.* `CommandsAsSpecified`: a behaviour of the command line is one of
each command's own specification, so that an invariant of a module is one of
the program. The rest is by command.

- *Upgrade.* The invariant `IInv` has four parts besides the types: `Whole`
  (the binaries at the installed path and in the backup, and what upgrades have
  staged, are never damaged), `Alone` (unless `raced`, at most one upgrade is
  between `Stat` and clean-up), `Intact` (what that upgrade has done so far can be
  undone from the backup) and `ServiceKnown` (a service that is not installed runs
  nothing). `UpgradeRecoverable`, `UpgradeUndone` and
  `UpgradeRestarts` follow for any number of upgrades, releases, kills and daemon
  deaths.
- *Backfill.* `ExportInv` ties the cursor to what was exported: `CursorInv` and
  `BatchInv` say which ids the cursor and the batch stand for, `StoredInv` that every
  copy beyond the first has a failure to its account, `CompleteInv` that no id up to
  the printed one is missing. `ResumedExportExact` follows for any number of rows,
  limits, failures and rows added meanwhile.
- *Forecast.* The one fact about the history that is needed is that it is a sequence of
  samples (`ForecastInv`); the rest is about the functions. `ForecastOfWindow`: the
  last of the restarts, if there is one, is where the stable samples begin.
  `ForecastNumbers`: the numbers agree because the burn rate is a fraction with a
  positive denominator. That denominator is n times the sum of the squares less the
  square of the sum, and `SpreadNotNegative` shows that it is never negative.
- *Antigravity.* `PollInv`: each login the poll has read and that works is waiting among
  the candidates, itself or one with the same access token, or it is in the poll's
  hands (`NotForgotten`), and tokens made during the poll outlive it (`PollTimes`, and
  `Lifetime` of at least two ticks in `CommandLineAssumption`). `LoginFound` follows.
- *Copilot.* `SeenInv`: a quota that was cut off when the poll began, and still is, is
  cut off in the answer the poll holds. With it and `BillingTyped` the property itself
  is inductive, and `CutOffShown` follows for any snapshots, shares and allowances.

Sums and extrema are over finite sets. The library's induction theorems take an
operator as a parameter, which no installed prover can instantiate, but its
well-foundedness theorems do not: a set of numbers has a least element (`Least`), a set
of subsets of a finite set a smallest one (`SmallestSubset`), and a claim about all of
them is proved by looking at the first one that fails (`SubsetInduction`). So
`SumStep` shows that the recursion of `SumFunctionOnSet` has exactly one solution,
and everything about sums follows from it.

The arms of every `CASE` have disjoint guards (in `Backfill!Query`,
`Antigravity!SnapshotOutcome` and others): the value of one whose arms overlap is not
determined, and nothing can be proved about it.

*ControlSocketProofs.* Unless `raced`, a daemon that listens has the path (`HasPath`),
and a socket that a daemon about to remove one would hit was bound after it had
looked (`CameLater`), so that removing it is what sets `raced`. The two are inductive
together (`Invariant`) and give `OnlyOne` and `Reachable` for any number of daemons
that start, stop and are killed at any time.

## 5. Only model-checked

Liveness (`EveryAccountPolled`, `OrphanRemoved`, `AttemptEnds`, `PollEnds`,
`SomeDaemonPolls`) stays with TLC: the prover does not do liveness under fairness.
Every invariant and every action property that a passing run checks is proved as
well, under the assumptions named above. The runs with a violation, and the further
configurations, are statements about one instance by their nature.

## 6. Not modelled, and why

- *xAI provider.* It refreshes through the same `Modify` as Codex, only after
  expiry or a 401 and without a failure cache: its transaction is that of
  `AuthLock`, and what it loses to a lost answer is what `PiRefresh` loses.
- *Z.AI provider.* One request with a key from a file; nothing is kept.
- *Response mapping*, redaction, rendering, layout: data transformations without
  state that no property here tells apart, apart from the windows of Copilot,
  the health of accounts and the forecast, which are modelled.
- *Codex reset details.* The history pages are bounded by 100 and by the cursors
  seen within one request; the events merge by their ids.
- *Reset capacity, expiry of credits, confidence.* Sums and labels over one list.
- *Configuration, plist and unit texts, the queries to OpenObserve*: I/O and text.
- *Schema migrations.* They run in one transaction of SQLite.
- Preservation of unknown JSON fields and file modes in the credential files is
  data that no property tells apart.

Simplifications inside the models that are worth knowing:

- `Upgrade`: the rename back in `Restore` is taken to succeed; the code ignores its
  error (`upgrade.go:279`), and the old binary would then stay beside the empty path,
  as it does after a crash there.
- `PiRefresh`: credentials in `auth.json` are complete OAuth ones; the check for another
  type or a missing token (`codex.go:221`) is left out.
- `Antigravity`: `Begin` reads the four places of the login in one step.
- `ControlSocket`: a path that is not a socket and a failing `MkdirAll`, which both end
  the start, are left out.

Known behaviours that are in the models and outside the properties:

- A 429 whose row is lost, because the process ends before `recordPollError`, leaves no
  cooldown: the next start asks again at once (`lost` in `Daemon`).
- Success and 429 in turn are never stopped by more than the base cooldown.
- Overlapping polls of a Claude account whose answers cross count a use twice
  (`crossed` in `ResetLedger`).
- Two daemons that start at one left-over socket, or one that starts while another
  stops, can remove each other's sockets (`raced` in `ControlSocket`); after that two may poll, and
  starters that never stop competing can go on removing each other's sockets.
- A poll prolonged by several slow accounts or by `agy models` makes a running daemon
  look stopped (`overran` in `Dashboard`).
- Of several Copilot quotas flagged for token billing any may cap the AI credits.
  When the billing request fails, the newest observation has no `ai_credits` sample,
  and none is shown.
- Observation times are compared as RFC3339Nano strings, in which `...:00Z` sorts
  after `...:00.5Z` (`WholeSecondFirst` in `MCResetLedger` has this order). With
  it `NoDuplicateUsesUnlessCrossed` and `SummaryMatchesCredits` fail within one second of two polls.
- Two upgrades at the same time remove each other's backups (`raced`).
- When the service cannot be asked after an upgrade, because the download has used
  up the two minutes of the command, the daemon keeps the old binary (`unseen`).
- In Antigravity any failed refresh counts as an expired login, and a busy state
  database ends the poll (`unreadable`).
- The OTel exporter repeats the last value of a gauge with a new timestamp, so that
  in OpenObserve an account that fails looks freshly polled (`ExportGauges`).

## 7. Plan

Done, in this order: `Daemon`, `AuthLock`/`CredentialFile`, `ResetLedger`,
`ControlSocket`, `PiRefresh`, with the first proofs; then `SharedLogin` with the
refinement, `ClaudeRefresh`, `Dashboard`, `Upgrade`, `Backfill`, `Forecast`,
`Antigravity`, `Copilot`, `CommandLine`, and the proofs of all of them. What would come next:

1. Codex events and plan-limit periods in `ResetLedger`.
2. A refinement of `ClaudeRefresh`, which has no lock, to a weaker `SharedLogin` in
   which a refresh may be redundant.
