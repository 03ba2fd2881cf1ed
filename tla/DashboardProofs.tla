-------------------------- MODULE DashboardProofs --------------------------
(***************************************************************************)
(* What the terminal UI shows: recent although refreshes overtake one      *)
(* another, true although a refresh reads several transactions, and a      *)
(* running daemon alive, for any number of accounts and refreshes, any     *)
(* timing and any history of keys, failures and daemons.                   *)
(***************************************************************************)
EXTENDS Dashboard, TLAPS

Runs == [status : {"", "success", "error"}, at : Nat]

JobType ==
  [pc : {"idle", "status", "samples", "state", "remote"}, begun : Nat, acct : Accounts,
   run : [Accounts -> Runs], success : [Accounts -> Nat], sample : [Accounts -> Nat],
   errors : BOOLEAN]

DaemonType ==
  [pc : {"down", "fetch", "refresh", "refetch", "record", "publish", "sleep"},
   acct : Accounts, since : Nat, asked : Nat, cycle : Nat, born : Nat]

StateType == [updated : Nat, interval : Nat, next : Nat]

Healths == {"failing", "ok", "no poll yet"}

ShownType ==
  [begun : Nat, source : {"", "sqlite", "openobserve"}, health : [Accounts -> Healths \cup {""}],
   errors : BOOLEAN, state : StateType]

\* What is read
StoreTyped ==
  /\ now \in Nat
  /\ run \in [Accounts -> Runs]
  /\ success \in [Accounts -> Nat]
  /\ sample \in [Accounts -> Nat]
  /\ once \in [acct : {0} \cup Accounts, observed : Nat]

DaemonTyped ==
  /\ state \in StateType
  /\ daemon \in DaemonType
  /\ tried \in [Accounts -> Nat]

\* What is shown
TuiTyped ==
  /\ jobs \in [Jobs -> JobType]
  /\ shown \in ShownType
  /\ nextTick \in Nat

HistoryTyped ==
  /\ real \in [Jobs -> [Accounts -> SUBSET Healths]]
  /\ late \in [Jobs -> BOOLEAN]
  /\ overran \in SUBSET Nat

TypeOK == StoreTyped /\ DaemonTyped /\ TuiTyped /\ HistoryTyped

LEMMA Numbers ==
  /\ NumAccounts \in Nat /\ NumAccounts >= 1 /\ 1 \in Accounts /\ Accounts \subseteq Nat
  /\ Timeout \in Nat /\ Timeout >= 1 /\ RefreshInterval \in Nat /\ RefreshInterval >= 1
  /\ \A d \in Delays : d \in Nat /\ d >= 1
BY DashboardAssumption DEF Accounts

LEMMA LaterTyped == \A t, u \in Nat : Later(t, u) \in Nat /\ Later(t, u) >= t /\ Later(t, u) >= u
BY DEF Later

LEMMA HealthTyped == \A r, ok, s : Health(r, ok, s) \in Healths
BY DEF Health, Healths

LEMMA NoJobTyped ==
  /\ NoJob \in JobType /\ NoJob.pc = "idle"
  /\ now \in Nat => /\ NewJob \in JobType /\ NewJob.begun = now /\ NewJob.pc # "idle"
                    /\ NewJob.acct = 1 /\ NewJob.pc \in {"status", "remote"}
<1>1. NoRun \in Runs
  BY DEF NoRun, Runs
<1>2. [a \in Accounts |-> NoRun] \in [Accounts -> Runs] /\ [a \in Accounts |-> 0] \in [Accounts -> Nat]
  BY <1>1
<1>3. NoJob \in JobType /\ NoJob.pc = "idle"
  BY <1>2, Numbers DEF NoJob, JobType
<1>4. ASSUME now \in Nat
      PROVE  /\ NewJob \in JobType /\ NewJob.begun = now /\ NewJob.pc # "idle"
             /\ NewJob.acct = 1 /\ NewJob.pc \in {"status", "remote"}
  BY <1>2, <1>4, Numbers DEF NoJob, NewJob, JobType
<1>5. QED
  BY <1>3, <1>4

-----------------------------------------------------------------------------
(***************************************************************************)
(* The steps of a refresh.                                                 *)
(***************************************************************************)
\* After a query of its own account, a refresh goes on
GoesOn(old, new) ==
  /\ new \in JobType
  /\ new.begun = old.begun
  /\ old.errors => new.errors

ReadsStatus(j, old, new) ==
  /\ old.pc = "status" /\ new.pc = "samples" /\ new.acct = old.acct
  /\ new.sample = old.sample
  /\ new.errors \/ /\ new.run = [old.run EXCEPT ![old.acct] = run[old.acct]]
                   /\ new.success = [old.success EXCEPT ![old.acct] = success[old.acct]]

ReadsSamples(j, old, new) ==
  /\ old.pc = "samples"
  /\ \/ old.acct < NumAccounts /\ new.pc = "status" /\ new.acct = old.acct + 1
     \/ old.acct = NumAccounts /\ new.pc = "state" /\ new.acct = old.acct
  /\ new.run = old.run /\ new.success = old.success
  /\ new.errors \/ new.sample = [old.sample EXCEPT ![old.acct] = sample[old.acct]]

\* A query answers, or costs its answer and is noted; or the refresh turns to
\* OpenObserve; or its result is shown
LEMMA RefreshSteps ==
  ASSUME TuiTyped, StoreTyped, DaemonTyped, NEW j \in Jobs, Refresh(j)
  PROVE  /\ UNCHANGED <<now, samples, daemonVars, once, nextTick>>
         /\ Reading(j)
         /\ \/ \E new : /\ jobs' = [jobs EXCEPT ![j] = new]
                        /\ shown' = shown
                        /\ GoesOn(jobs[j], new)
                        /\ \/ ReadsStatus(j, jobs[j], new)
                           \/ ReadsSamples(j, jobs[j], new)
                           \/ new.pc = "remote"
            \/ /\ jobs' = [jobs EXCEPT ![j] = NoJob]
               /\ shown' \in ShownType
               /\ shown'.begun = jobs[j].begun
               /\ shown'.state \in {state, NoState}
               /\ jobs[j].pc = "state" /\ ~shown'.errors =>
                    /\ ~jobs[j].errors
                    /\ shown'.health = [a \in Accounts |->
                         Health(jobs[j].run[a], jobs[j].success[a], jobs[j].sample[a])]
<1> DEFINE job == jobs[j]
           a == job.acct
           next == [job EXCEPT !.pc = "samples"]
           read == [next EXCEPT !.run[a] = run[a], !.success[a] = success[a]]
           full == [job EXCEPT !.sample[a] = sample[a]]
           Shown == /\ jobs' = [jobs EXCEPT ![j] = NoJob]
                    /\ shown' \in ShownType
                    /\ shown'.begun = jobs[j].begun
                    /\ shown'.state \in {state, NoState}
                    /\ jobs[j].pc = "state" /\ ~shown'.errors =>
                         /\ ~jobs[j].errors
                         /\ shown'.health = [b \in Accounts |->
                              Health(jobs[j].run[b], jobs[j].success[b], jobs[j].sample[b])]
           Goes(new) == /\ jobs' = [jobs EXCEPT ![j] = new]
                        /\ shown' = shown
                        /\ GoesOn(jobs[j], new)
                        /\ \/ ReadsStatus(j, jobs[j], new)
                           \/ ReadsSamples(j, jobs[j], new)
                           \/ new.pc = "remote"
<1>1. job \in JobType /\ a \in Accounts /\ run[a] \in Runs /\ success[a] \in Nat /\ sample[a] \in Nat
  BY DEF TuiTyped, StoreTyped, JobType
<1>2. UNCHANGED <<now, samples, daemonVars, once>>
  BY DEF Refresh
<1>3. CASE ReadStatus(j)
  <2>1. next \in JobType /\ read \in JobType
    BY <1>1 DEF JobType
  <2>2. /\ next.pc = "samples" /\ next.acct = a /\ next.sample = job.sample
        /\ next.begun = job.begun /\ next.errors = job.errors
        /\ read.pc = "samples" /\ read.acct = a /\ read.sample = job.sample
        /\ read.begun = job.begun /\ read.errors = job.errors
        /\ read.run = [job.run EXCEPT ![a] = run[a]]
        /\ read.success = [job.success EXCEPT ![a] = success[a]]
    BY <1>1 DEF JobType
  <2>3. [next EXCEPT !.errors = TRUE] \in JobType
    BY <2>1 DEF JobType
  <2>4. /\ job.pc = "status" /\ nextTick' = nextTick /\ shown' = shown
        /\ \/ jobs' = [jobs EXCEPT ![j] = read]
           \/ jobs' = [jobs EXCEPT ![j] = [next EXCEPT !.errors = TRUE]]
    BY <1>3 DEF ReadStatus, Read, Put
  <2> HIDE DEF job, a, next, read
  <2>5. CASE jobs' = [jobs EXCEPT ![j] = read]
    <3>1. Goes(read)
      BY <2>1, <2>2, <2>4, <2>5 DEF GoesOn, ReadsStatus, job, a
    <3>2. QED
      BY <1>2, <2>4, <3>1 DEF Reading, job
  <2>6. CASE jobs' = [jobs EXCEPT ![j] = [next EXCEPT !.errors = TRUE]]
    <3>1. PICK new : new = [next EXCEPT !.errors = TRUE]
      OBVIOUS
    <3>2. /\ new \in JobType /\ new.errors /\ new.pc = "samples" /\ new.acct = a
          /\ new.sample = job.sample /\ new.begun = job.begun
      BY <2>1, <2>2, <2>3, <3>1 DEF JobType
    <3>3. Goes(new)
      BY <2>4, <2>6, <3>1, <3>2 DEF GoesOn, ReadsStatus, job, a
    <3>4. QED
      BY <1>2, <2>4, <3>3 DEF Reading, job
  <2>7. QED
    BY <2>4, <2>5, <2>6
<1>4. CASE ReadSamples(j)
  <2>1. full \in JobType /\ full.run = job.run /\ full.success = job.success /\ full.acct = a
        /\ full.begun = job.begun /\ full.errors = job.errors
        /\ full.sample = [job.sample EXCEPT ![a] = sample[a]]
    BY <1>1 DEF JobType
  <2>2. ASSUME NEW x \in JobType
        PROVE  LET n == NextRead(x)
               IN  /\ n \in JobType /\ n.run = x.run /\ n.success = x.success
                   /\ n.begun = x.begun /\ n.errors = x.errors /\ n.sample = x.sample
                   /\ \/ x.acct < NumAccounts /\ n.pc = "status" /\ n.acct = x.acct + 1
                      \/ x.acct = NumAccounts /\ n.pc = "state" /\ n.acct = x.acct
    <3>1. x.acct \in 1..NumAccounts
      BY DEF JobType, Accounts
    <3>2. CASE x.acct < NumAccounts
      <4>1. x.acct + 1 \in Accounts
        BY <3>1, <3>2, Numbers DEF Accounts
      <4>2. QED
        BY <3>2, <4>1 DEF NextRead, JobType
    <3>3. CASE x.acct = NumAccounts
      BY <3>3, Numbers DEF NextRead, JobType
    <3>4. QED
      BY <3>1, <3>2, <3>3, Numbers
  <2>3. PICK good, bad : /\ good = NextRead(full)
                         /\ bad = NextRead(job)
    OBVIOUS
  <2>4. /\ job.pc = "samples" /\ nextTick' = nextTick /\ shown' = shown
        /\ \/ jobs' = [jobs EXCEPT ![j] = good]
           \/ jobs' = [jobs EXCEPT ![j] = [bad EXCEPT !.errors = TRUE]]
    BY <1>4, <2>3 DEF ReadSamples, Read, Put
  <2>5. CASE jobs' = [jobs EXCEPT ![j] = good]
    <3>1. Goes(good)
      <4>1. /\ good \in JobType /\ good.run = full.run /\ good.success = full.success
            /\ good.begun = full.begun /\ good.errors = full.errors /\ good.sample = full.sample
            /\ \/ full.acct < NumAccounts /\ good.pc = "status" /\ good.acct = full.acct + 1
               \/ full.acct = NumAccounts /\ good.pc = "state" /\ good.acct = full.acct
        BY <2>1, <2>2, <2>3
      <4> HIDE DEF full
      <4>2. QED
        BY <2>1, <2>4, <2>5, <4>1 DEF GoesOn, ReadsSamples
    <3>2. QED
      BY <1>2, <2>4, <3>1 DEF Reading
  <2>6. CASE jobs' = [jobs EXCEPT ![j] = [bad EXCEPT !.errors = TRUE]]
    <3>1. PICK new : new = [bad EXCEPT !.errors = TRUE]
      OBVIOUS
    <3>2. /\ bad \in JobType /\ bad.run = job.run /\ bad.success = job.success
          /\ bad.begun = job.begun
          /\ \/ job.acct < NumAccounts /\ bad.pc = "status" /\ bad.acct = job.acct + 1
             \/ job.acct = NumAccounts /\ bad.pc = "state" /\ bad.acct = job.acct
      BY <1>1, <2>2, <2>3
    <3> HIDE DEF job, a
    <3>3. /\ new \in JobType /\ new.errors /\ new.run = bad.run /\ new.success = bad.success
          /\ new.begun = bad.begun /\ new.pc = bad.pc /\ new.acct = bad.acct
      BY <3>1, <3>2 DEF JobType
    <3>4. Goes(new)
      BY <2>4, <2>6, <3>1, <3>2, <3>3 DEF GoesOn, ReadsSamples, job
    <3>5. QED
      BY <1>2, <2>4, <3>4 DEF Reading, job
  <2>7. QED
    BY <2>4, <2>5, <2>6
<1>5. ASSUME jobs' = [jobs EXCEPT ![j] = [job EXCEPT !.pc = "remote"]], shown' = shown
      PROVE  \E new : Goes(new)
  <2>1. PICK new : new = [job EXCEPT !.pc = "remote"]
    OBVIOUS
  <2>2. new \in JobType /\ new.begun = job.begun /\ new.errors = job.errors /\ new.pc = "remote"
    BY <1>1, <2>1 DEF JobType
  <2>3. Goes(new)
    BY <1>5, <2>1, <2>2 DEF GoesOn
  <2>4. QED
    BY <2>3
<1>6. CASE FallBack(j)
  BY <1>2, <1>5, <1>6 DEF FallBack, Put, Reading
<1>7. ASSUME NEW source \in {"", "sqlite", "openobserve"}, NEW health \in [Accounts -> Healths],
             NEW errors \in BOOLEAN, NEW lease \in {state, NoState},
             Show(j, source, health, errors, lease),
             job.pc = "state" /\ ~errors =>
               /\ ~job.errors
               /\ health = [b \in Accounts |-> Health(job.run[b], job.success[b], job.sample[b])]
      PROVE  Shown /\ nextTick' = nextTick
  <2>0. lease \in StateType
    <3>1. state \in StateType
      BY DEF TypeOK, DaemonTyped
    <3>2. NoState \in StateType
      BY DEF NoState, StateType
    <3>3. QED
      BY <1>7, <3>1, <3>2
  <2>1. shown' \in ShownType
    BY <1>1, <1>7, <2>0 DEF Show, ShownType, JobType
  <2>2. QED
    BY <1>7, <2>1 DEF Show, Put
<1>8. CASE ShowLocal(j)
  <2>1. Shown /\ nextTick' = nextTick
    <3>1. [b \in Accounts |-> Health(job.run[b], job.success[b], job.sample[b])]
            \in [Accounts -> Healths] /\ job.errors \in BOOLEAN
      BY <1>1, HealthTyped DEF JobType
    <3>2. QED
      BY <1>7, <1>8, <3>1 DEF ShowLocal
  <2>2. QED
    BY <1>2, <1>8, <2>1 DEF Reading, ShowLocal
<1>9. CASE ShowRemote(j)
  <2>1. Shown /\ nextTick' = nextTick
    <3>1. /\ [b \in Accounts |-> Health(NoRun, 0, remote[b])] \in [Accounts -> Healths]
          /\ NoneKnown \in [Accounts -> Healths]
      BY HealthTyped DEF NoneKnown
    <3>2. QED
      BY <1>7, <1>9, <3>1 DEF ShowRemote
  <2>2. QED
    BY <1>2, <1>9, <2>1 DEF Reading, ShowRemote
<1>10. CASE OpenFails(j)
  <2>1. CASE mode = "auto"
    BY <1>2, <1>5, <1>10, <2>1 DEF OpenFails, Put, Reading
  <2>2. CASE mode # "auto"
    <3>1. Shown /\ nextTick' = nextTick
      BY <1>7, <1>10, <2>2, HealthTyped DEF OpenFails, NoneKnown
    <3>2. QED
      BY <1>2, <1>10, <3>1 DEF Reading, OpenFails
  <2>3. QED
    BY <2>1, <2>2
<1>11. QED
  BY <1>3, <1>4, <1>6, <1>8, <1>9, <1>10 DEF Refresh

\* A refresh starts in an idle job
Starts(j) ==
  /\ ~Reading(j)
  /\ jobs' = [jobs EXCEPT ![j] = NewJob]
  /\ shown' \in ShownType /\ shown'.begun = shown.begun
  /\ nextTick' = nextTick \/ (now = nextTick /\ nextTick' = now + RefreshInterval)
  /\ shown'.state = shown.state
  /\ UNCHANGED <<now, samples, once, state, daemon, tried>>

LEMMA TuiSteps ==
  ASSUME TuiTyped, Step
  PROVE  \/ \E j \in Jobs : Refresh(j)
         \/ \E j \in Jobs : Starts(j)
         \/ UNCHANGED <<jobs, shown, nextTick>>
<1>1. CASE TickMsg
  <2>1. PICK j \in Jobs : ~Reading(j) /\ Put(j, NewJob)
    BY <1>1 DEF TickMsg, StartRefresh
  <2>2. QED
    BY <1>1, <2>1 DEF TickMsg, Starts, Put, TuiTyped, daemonVars
<1>2. CASE KeyReload
  <2>1. PICK j \in Jobs : ~Reading(j) /\ Put(j, NewJob)
    BY <1>2 DEF KeyReload, StartRefresh
  <2>2. QED
    BY <1>2, <2>1 DEF KeyReload, Starts, Put, TuiTyped, daemonVars
<1>3. CASE KeyPoll
  <2>1. PICK j \in Jobs : ~Reading(j) /\ Put(j, NewJob)
    BY <1>3 DEF KeyPoll, StartRefresh
  <2>2. shown' \in ShownType /\ shown'.begun = shown.begun /\ shown'.state = shown.state
    BY <1>3 DEF KeyPoll, TuiTyped, ShownType
  <2>3. QED
    BY <1>3, <2>1, <2>2 DEF KeyPoll, Starts, Put
<1>4. CASE Daemon \/ OnceFetches \/ OnceStores \/ Tick
  BY <1>4 DEF Daemon, StartDaemon, StopDaemon, SkipAccount, RefreshCredentials, FetchAgain, InsertSnapshot, RecordSuccess,
              RecordError, Publish, Wake, ExportGauges, OnceFetches, OnceStores, Tick, tui
<1>5. QED
  BY <1>1, <1>2, <1>3, <1>4 DEF Step

\* The steps that change the clock, the database or the daemon
LEMMA StoreSteps ==
  ASSUME Step, UNCHANGED <<jobs, shown, nextTick>>
  PROVE  \/ Daemon \/ OnceFetches \/ OnceStores \/ Tick
         \/ UNCHANGED <<now, samples, once, state, daemon, tried>>
<1>1. ASSUME NEW j \in Jobs, Refresh(j) PROVE UNCHANGED <<now, samples, once, state, daemon, tried>>
  BY <1>1 DEF Refresh, daemonVars
<1>2. ASSUME TickMsg \/ KeyReload \/ KeyPoll PROVE UNCHANGED <<now, samples, once, state, daemon, tried>>
  BY <1>2 DEF TickMsg, KeyReload, KeyPoll, daemonVars
<1>3. QED
  BY <1>1, <1>2 DEF Step

-----------------------------------------------------------------------------
(***************************************************************************)
(* Types.                                                                  *)
(***************************************************************************)
Places == {"fetch", "refresh", "refetch", "record", "publish", "sleep"}

LEMMA FetchTyped ==
  ASSUME DaemonTyped, StoreTyped
  PROVE  /\ \A a \in Accounts : FetchOf(a) \in DaemonType
         /\ FirstFetch \in DaemonType
         /\ NextAccount => daemon' \in DaemonType
         /\ \A pc \in Places : At(pc) \/ Wait(pc) => daemon' \in DaemonType
         /\ Down \in DaemonType /\ NeverTried \in [Accounts -> Nat]
<1>1. \A a \in Accounts : FetchOf(a) \in DaemonType
  BY DEF DaemonTyped, StoreTyped, DaemonType, FetchOf
<1>2. \A pc \in Places : At(pc) \/ Wait(pc) => daemon' \in DaemonType
  BY DEF DaemonTyped, StoreTyped, DaemonType, At, Wait, Places
<1>3. ASSUME NextAccount PROVE daemon' \in DaemonType
  <2>1. CASE daemon.acct < NumAccounts
    <3>1. daemon.acct + 1 \in Accounts
      BY <2>1, Numbers DEF Accounts, DaemonTyped, DaemonType
    <3>2. QED
      BY <1>1, <1>3, <2>1, <3>1 DEF NextAccount
  <2>2. CASE ~(daemon.acct < NumAccounts)
    BY <1>2, <1>3, <2>2 DEF NextAccount, Places
  <2>3. QED
    BY <2>1, <2>2
<1>4. FirstFetch \in DaemonType
  <2>1. FetchOf(1) \in DaemonType /\ now \in Nat
    BY <1>1, Numbers DEF StoreTyped
  <2>2. QED
    BY <2>1 DEF FirstFetch, DaemonType
<1>5. Down \in DaemonType /\ NeverTried \in [Accounts -> Nat]
  BY Numbers DEF Down, DaemonType, NeverTried
<1>6. QED
  BY <1>1, <1>2, <1>3, <1>4, <1>5

LEMMA StoreStepTyped ==
  ASSUME StoreTyped, DaemonTyped, Daemon \/ OnceFetches \/ OnceStores \/ Tick
  PROVE  StoreTyped' /\ DaemonTyped'
<1>1. daemon.acct \in Accounts /\ daemon.since \in Nat /\ daemon.asked \in Nat
  BY DEF DaemonTyped, DaemonType
<1>2. [status |-> "success", at |-> daemon.since] \in Runs
      /\ [status |-> "error", at |-> daemon.since] \in Runs
  BY <1>1 DEF Runs
<1>3. CASE StartDaemon
  <2>1. daemon' \in DaemonType
    <3>1. FirstFetch \in DaemonType /\ now \in Nat
      BY FetchTyped DEF StoreTyped
    <3>2. [FirstFetch EXCEPT !.born = now] \in DaemonType
      BY <3>1 DEF DaemonType
    <3>3. QED
      BY <1>3, <3>2 DEF StartDaemon
  <2>2. QED
    BY <1>3, <2>1 DEF StartDaemon, StoreTyped, DaemonTyped, samples
<1>4. CASE StopDaemon
  BY <1>4, FetchTyped DEF StopDaemon, StoreTyped, DaemonTyped, samples
<1>5. CASE SkipAccount
  BY <1>5, FetchTyped DEF SkipAccount, StoreTyped, DaemonTyped, samples
<1>51. CASE RefreshCredentials
  <2>1. tried' \in [Accounts -> Nat] /\ daemon' \in DaemonType
    BY <1>1, <1>51, FetchTyped DEF RefreshCredentials, DaemonTyped, Places
  <2>2. QED
    BY <1>51, <2>1 DEF RefreshCredentials, StoreTyped, DaemonTyped, samples
<1>52. CASE FetchAgain
  BY <1>52, FetchTyped DEF FetchAgain, StoreTyped, DaemonTyped, samples, Places
<1>6. CASE InsertSnapshot
  <2>1. sample' \in [Accounts -> Nat]
    BY <1>1, <1>6, LaterTyped DEF InsertSnapshot, StoreTyped
  <2>2. QED
    BY <1>6, <2>1, FetchTyped DEF InsertSnapshot, StoreTyped, DaemonTyped, Places
<1>7. CASE RecordSuccess
  BY <1>1, <1>2, <1>7, FetchTyped DEF RecordSuccess, StoreTyped, DaemonTyped
<1>8. CASE RecordError
  BY <1>1, <1>2, <1>8, FetchTyped DEF RecordError, StoreTyped, DaemonTyped
<1>9. CASE Publish
  <2>1. PICK d \in Delays : state' = [updated |-> now, interval |-> d, next |-> now + d]
    BY <1>9 DEF Publish
  <2>2. state' \in StateType
    BY <2>1, Numbers DEF StoreTyped, StateType
  <2>3. daemon' \in DaemonType
    <3>1. daemon' = [Down EXCEPT !.pc = "sleep", !.born = daemon.born] /\ daemon.born \in Nat
      BY <1>9 DEF Publish, DaemonTyped, DaemonType
    <3>2. QED
      BY <3>1, FetchTyped DEF DaemonType
  <2>4. QED
    BY <1>9, <2>2, <2>3 DEF Publish, StoreTyped, DaemonTyped, samples
<1>10. CASE Wake
  BY <1>10, FetchTyped, Numbers DEF Wake, StoreTyped, DaemonTyped, samples
<1>11. CASE ExportGauges
  BY <1>11 DEF ExportGauges, StoreTyped, DaemonTyped, samples, daemonVars
<1>12. CASE OnceFetches
  BY <1>12 DEF OnceFetches, StoreTyped, DaemonTyped, samples, daemonVars
<1>13. CASE OnceStores
  <2>1. once.acct \in Accounts /\ once.observed \in Nat
    BY <1>13 DEF OnceStores, StoreTyped
  <2>2. sample' \in [Accounts -> Nat] /\ once' \in [acct : {0} \cup Accounts, observed : Nat]
    BY <1>13, <2>1, LaterTyped DEF OnceStores, StoreTyped
  <2>3. QED
    BY <1>13, <2>2 DEF OnceStores, StoreTyped, DaemonTyped, daemonVars
<1>14. CASE Tick
  BY <1>14 DEF Tick, StoreTyped, DaemonTyped, samples, daemonVars
<1>15. QED
  BY <1>3, <1>4, <1>5, <1>51, <1>52, <1>6, <1>7, <1>8, <1>9, <1>10, <1>11, <1>12, <1>13, <1>14
     DEF Daemon

LEMMA TuiStepTyped ==
  ASSUME TuiTyped, StoreTyped, DaemonTyped, NEW j \in Jobs, Refresh(j) \/ Starts(j)
  PROVE  TuiTyped'
<1>1. CASE Refresh(j)
  <2>1. jobs[j] \in JobType /\ nextTick' = nextTick
    BY <1>1, RefreshSteps DEF TuiTyped
  <2>2. ASSUME NEW new, jobs' = [jobs EXCEPT ![j] = new], shown' = shown, GoesOn(jobs[j], new)
        PROVE  TuiTyped'
    BY <2>1, <2>2 DEF TuiTyped, GoesOn
  <2>3. ASSUME jobs' = [jobs EXCEPT ![j] = NoJob], shown' \in ShownType
        PROVE  TuiTyped'
    BY <2>1, <2>3, NoJobTyped DEF TuiTyped
  <2>4. QED
    BY <1>1, <2>2, <2>3, RefreshSteps
<1>2. CASE Starts(j)
  <2>1. NewJob \in JobType
    BY NoJobTyped DEF StoreTyped
  <2>2. nextTick' \in Nat
    BY <1>2, Numbers DEF Starts, TuiTyped, StoreTyped
  <2>3. QED
    BY <1>2, <2>1, <2>2 DEF Starts, TuiTyped
<1>3. QED
  BY <1>1, <1>2

LEMMA ObserveTyped ==
  ASSUME HistoryTyped, Observe, DaemonTyped', TuiTyped'
  PROVE  HistoryTyped'
<1>1. \A a \in Accounts : HealthNow(a)' \in Healths
  BY HealthTyped DEF HealthNow
<1>2. real' \in [Jobs -> [Accounts -> SUBSET Healths]]
  BY <1>1 DEF Observe, HistoryTyped
<1>3. late' \in [Jobs -> BOOLEAN]
  BY DEF Observe
<1>4. overran' \in SUBSET Nat
  <2>1. state'.updated \in Nat /\ shown'.state.updated \in Nat
    BY DEF DaemonTyped, TuiTyped, ShownType, StateType
  <2>2. overran' \subseteq {state.updated', shown.state.updated'}
    BY DEF Observe
  <2>3. QED
    BY <2>1, <2>2
<1>5. QED
  BY <1>2, <1>3, <1>4 DEF HistoryTyped

LEMMA TypePreserved == TypeOK /\ [Next]_vars => TypeOK'
<1> SUFFICES ASSUME TypeOK, [Next]_vars PROVE TypeOK'
  OBVIOUS
<1>1. CASE UNCHANGED vars
  BY <1>1 DEF vars, samples, daemonVars, tui, history, TypeOK, StoreTyped, DaemonTyped,
              TuiTyped, HistoryTyped
<1>2. CASE Step /\ Observe
  <2>1. ASSUME UNCHANGED <<now, samples, once, state, daemon, tried>>
        PROVE  StoreTyped' /\ DaemonTyped'
    BY <2>1 DEF TypeOK, StoreTyped, DaemonTyped, samples
  <2>2. ASSUME NEW j \in Jobs, Refresh(j) \/ Starts(j)
        PROVE  StoreTyped' /\ DaemonTyped' /\ TuiTyped'
    <3>1. UNCHANGED <<now, samples, once, state, daemon, tried>>
      BY <2>2, RefreshSteps DEF Starts, TypeOK, daemonVars
    <3>2. QED
      BY <2>1, <2>2, <3>1, TuiStepTyped DEF TypeOK
  <2>3. CASE UNCHANGED <<jobs, shown, nextTick>>
    <3>1. TuiTyped'
      BY <2>3 DEF TypeOK, TuiTyped
    <3>2. StoreTyped' /\ DaemonTyped'
      BY <1>2, <2>1, <2>3, StoreSteps, StoreStepTyped DEF TypeOK
    <3>3. HistoryTyped'
      BY <1>2, <3>1, <3>2, ObserveTyped DEF TypeOK
    <3>4. QED
      BY <3>1, <3>2, <3>3 DEF TypeOK
  <2>4. ASSUME NEW j \in Jobs, Refresh(j) \/ Starts(j) PROVE TypeOK'
    BY <1>2, <2>2, <2>4, ObserveTyped DEF TypeOK
  <2>5. QED
    BY <1>2, <2>3, <2>4, TuiSteps DEF TypeOK
<1>3. QED
  BY <1>1, <1>2 DEF Next

\* The database, the daemon and what the TUI reads and shows of them are well formed
THEOREM TypeCorrect == Spec => []TypeOK
<1>1. Init => TypeOK
  <2> SUFFICES ASSUME Init PROVE TypeOK
    OBVIOUS
  <2>1. now = 1 /\ now \in Nat /\ NoRun \in Runs
    BY DEF Init, NoRun, Runs
  <2>2. StoreTyped
    BY <2>1 DEF Init, StoreTyped
  <2>3. DaemonTyped
    <3>1. Down \in DaemonType /\ NeverTried \in [Accounts -> Nat]
      BY Numbers DEF Down, DaemonType, NeverTried
    <3>2. QED
      BY <3>1 DEF Init, DaemonTyped, NoState, StateType
  <2>4. jobs \in [Jobs -> JobType]
    <3>1. PICK j \in Jobs : jobs = [k \in Jobs |-> IF k = j THEN NewJob ELSE NoJob]
      BY DEF Init
    <3>2. QED
      BY <2>1, <3>1, NoJobTyped
  <2>5. shown \in ShownType
    BY DEF Init, ShownType, NoState, StateType
  <2>6. nextTick \in Nat
    <3>1. nextTick = 1 + RefreshInterval
      BY DEF Init
    <3>2. QED
      BY <3>1, Numbers
  <2>7. HistoryTyped
    BY DEF Init, HistoryTyped
  <2>8. QED
    BY <2>2, <2>3, <2>4, <2>5, <2>6, <2>7 DEF TypeOK, TuiTyped
<1>2. QED
  BY <1>1, TypePreserved, PTL DEF Spec

-----------------------------------------------------------------------------
(***************************************************************************)
(* Refreshes that overtake one another.                                    *)
(***************************************************************************)
\* A refresh ends within a timeout of its beginning, and the next one begins at most
\* an interval from now
InTime ==
  /\ now >= 1 /\ now <= nextTick /\ nextTick <= now + RefreshInterval
  /\ \A j \in Jobs : Reading(j) =>
       1 <= jobs[j].begun /\ jobs[j].begun <= now /\ now <= jobs[j].begun + Timeout

\* What is shown will be replaced in time: by a refresh in flight that began soon
\* enough, or by the next one
FreshInv ==
  IF shown.begun = 0
  THEN \E j \in Jobs : Reading(j) /\ jobs[j].begun = 1
  ELSE \/ nextTick <= shown.begun + RefreshInterval + Timeout
       \/ \E j \in Jobs : Reading(j) /\ jobs[j].begun <= shown.begun + RefreshInterval + Timeout

LEMMA OtherStepsTime ==
  ASSUME TypeOK, InTime, Step, UNCHANGED <<jobs, shown, nextTick>>
  PROVE  InTime'
<1>1. \A j \in Jobs : /\ Reading(j)' <=> Reading(j)
                      /\ jobs'[j].begun = jobs[j].begun /\ jobs[j].begun \in Nat
  BY DEF Reading, TypeOK, TuiTyped, JobType
<1>2. ASSUME now' = now PROVE InTime'
  BY <1>1, <1>2 DEF InTime
<1>3. CASE Tick
  <2>1. now \in Nat /\ now < nextTick /\ now' = now + 1 /\ nextTick \in Nat
    BY <1>3 DEF Tick, TypeOK, StoreTyped, TuiTyped
  <2>2. \A j \in Jobs : Reading(j) => now < jobs[j].begun + Timeout
    <3>1. \A j \in Jobs : Reading(j) => ~(now >= jobs[j].begun + Timeout)
      BY <1>3 DEF Tick, Due
    <3>2. QED
      BY <1>1, <2>1, <3>1, Numbers
  <2>3. QED
    BY <1>1, <2>1, <2>2, Numbers DEF InTime
<1>4. CASE Daemon \/ OnceFetches \/ OnceStores
  <2>1. now' = now
    BY <1>4 DEF Daemon, StartDaemon, StopDaemon, SkipAccount, RefreshCredentials, FetchAgain, InsertSnapshot, RecordSuccess,
                RecordError, Publish, Wake, ExportGauges, OnceFetches, OnceStores
  <2>2. QED
    BY <1>2, <2>1
<1>5. QED
  BY <1>2, <1>3, <1>4, StoreSteps

LEMMA RefreshTime ==
  ASSUME TypeOK, InTime, FreshInv, NEW j \in Jobs, Refresh(j)
  PROVE  InTime' /\ FreshInv'
<1>1. /\ now' = now /\ nextTick' = nextTick /\ Reading(j) /\ shown \in ShownType
      /\ jobs \in [Jobs -> JobType] /\ now \in Nat /\ nextTick \in Nat
      /\ \A k \in Jobs : jobs[k].begun \in Nat
  BY RefreshSteps DEF TypeOK, StoreTyped, TuiTyped, JobType
<1>2. ASSUME NEW new, jobs' = [jobs EXCEPT ![j] = new], shown' = shown, GoesOn(jobs[j], new),
             new.pc # "idle"
      PROVE  InTime' /\ FreshInv'
  <2>1. \A k \in Jobs : jobs'[k].begun = jobs[k].begun /\ (Reading(k)' <=> Reading(k))
    BY <1>1, <1>2 DEF Reading, GoesOn
  <2>2. QED
    BY <1>1, <1>2, <2>1 DEF InTime, FreshInv
<1>3. ASSUME jobs' = [jobs EXCEPT ![j] = NoJob], shown'.begun = jobs[j].begun
      PROVE  InTime' /\ FreshInv'
  <2>1. \A k \in Jobs : Reading(k)' => Reading(k) /\ jobs'[k].begun = jobs[k].begun
    BY <1>1, <1>3, NoJobTyped DEF Reading
  <2>2. InTime'
    BY <1>1, <2>1 DEF InTime
  <2>3. FreshInv'
    <3>1. /\ 1 <= jobs[j].begun /\ now <= jobs[j].begun + Timeout
          /\ nextTick <= now + RefreshInterval
      BY <1>1 DEF InTime
    <3>2. shown'.begun # 0 /\ nextTick' <= shown'.begun + RefreshInterval + Timeout
      BY <1>1, <1>3, <3>1, Numbers
    <3>3. QED
      BY <3>2 DEF FreshInv
  <2>4. QED
    BY <2>2, <2>3
<1>4. \A new : ReadsStatus(j, jobs[j], new) \/ ReadsSamples(j, jobs[j], new) \/ new.pc = "remote"
               => new.pc # "idle"
  BY DEF ReadsStatus, ReadsSamples
<1>5. QED
  BY <1>2, <1>3, <1>4, RefreshSteps DEF TypeOK

LEMMA StartTime ==
  ASSUME TypeOK, InTime, FreshInv, NEW j \in Jobs, Starts(j)
  PROVE  InTime' /\ FreshInv'
<1>1. /\ now' = now /\ ~Reading(j) /\ jobs' = [jobs EXCEPT ![j] = NewJob]
      /\ shown'.begun = shown.begun /\ shown.begun \in Nat
      /\ nextTick' = nextTick \/ (now = nextTick /\ nextTick' = now + RefreshInterval)
      /\ now \in Nat /\ nextTick \in Nat /\ jobs \in [Jobs -> JobType]
      /\ \A k \in Jobs : jobs[k].begun \in Nat
  BY DEF Starts, TypeOK, StoreTyped, TuiTyped, JobType, ShownType
<1>2. /\ Reading(j)' /\ jobs'[j].begun = now
      /\ \A k \in Jobs \ {j} : jobs'[k].begun = jobs[k].begun /\ (Reading(k)' <=> Reading(k))
  BY <1>1, NoJobTyped DEF Reading
<1>3. InTime'
  <2>1. \A k \in Jobs : Reading(k)' =>
          1 <= jobs'[k].begun /\ jobs'[k].begun <= now /\ now <= jobs'[k].begun + Timeout
    BY <1>1, <1>2, Numbers DEF InTime
  <2>2. QED
    BY <1>1, <2>1, Numbers DEF InTime
<1>4. \A k \in Jobs : Reading(k) => Reading(k)' /\ jobs'[k].begun = jobs[k].begun
  BY <1>1, <1>2
<1>5. CASE shown.begun = 0
  BY <1>1, <1>3, <1>4, <1>5 DEF FreshInv
<1>6. CASE shown.begun # 0 /\ nextTick <= shown.begun + RefreshInterval + Timeout
  <2>1. nextTick' = nextTick \/ jobs'[j].begun <= shown.begun + RefreshInterval + Timeout
    BY <1>1, <1>2, <1>6
  <2>2. QED
    BY <1>1, <1>2, <1>3, <1>6, <2>1 DEF FreshInv
<1>7. CASE /\ shown.begun # 0
           /\ \E k \in Jobs : /\ Reading(k)
                              /\ jobs[k].begun <= shown.begun + RefreshInterval + Timeout
  BY <1>1, <1>3, <1>4, <1>7 DEF FreshInv
<1>8. QED
  BY <1>5, <1>6, <1>7 DEF FreshInv

\* Refreshes begin and end in time
THEOREM RefreshesInTime == Spec => [](InTime /\ FreshInv)
<1>1. Init => InTime /\ FreshInv
  <2> SUFFICES ASSUME Init PROVE InTime /\ FreshInv
    OBVIOUS
  <2>1. now = 1 /\ nextTick = 1 + RefreshInterval /\ shown.begun = 0
    BY DEF Init
  <2>2. PICK j \in Jobs : jobs = [k \in Jobs |-> IF k = j THEN NewJob ELSE NoJob]
    BY DEF Init
  <2>3. /\ Reading(j) /\ jobs[j].begun = 1
        /\ \A k \in Jobs : Reading(k) => k = j
    BY <2>1, <2>2, NoJobTyped DEF Reading
  <2>4. QED
    BY <2>1, <2>3, Numbers DEF InTime, FreshInv
<1>2. TypeOK /\ InTime /\ FreshInv /\ [Next]_vars => InTime' /\ FreshInv'
  <2> SUFFICES ASSUME TypeOK, InTime, FreshInv, [Next]_vars PROVE InTime' /\ FreshInv'
    OBVIOUS
  <2>1. ASSUME UNCHANGED <<jobs, shown, nextTick>> PROVE FreshInv'
    BY <2>1 DEF FreshInv, Reading
  <2>2. CASE UNCHANGED vars
    BY <2>1, <2>2 DEF vars, tui, InTime, Reading
  <2>3. CASE Step
    BY <2>1, <2>3, TuiSteps, OtherStepsTime, RefreshTime, StartTime DEF TypeOK
  <2>4. QED
    BY <2>2, <2>3 DEF Next
<1>3. QED
  BY <1>1, <1>2, TypeCorrect, PTL DEF Spec

\* However refreshes overlap and overtake one another, what is shown began to be read
\* at most one refresh interval and two timeouts ago (tui/model.go)
THEOREM DisplayFreshHolds == Spec => []DisplayFresh
<1>1. TypeOK /\ InTime /\ FreshInv => DisplayFresh
  <2> SUFFICES ASSUME TypeOK, InTime, FreshInv PROVE DisplayFresh
    OBVIOUS
  <2>1. now \in Nat /\ nextTick \in Nat /\ shown.begun \in Nat
        /\ \A j \in Jobs : jobs[j].begun \in Nat
    BY DEF TypeOK, StoreTyped, TuiTyped, JobType, ShownType
  <2>2. QED
    BY <2>1, Numbers DEF InTime, FreshInv, DisplayFresh
<1>2. QED
  BY <1>1, TypeCorrect, RefreshesInTime, PTL

-----------------------------------------------------------------------------
(***************************************************************************)
(* The lease of a running daemon.                                          *)
(***************************************************************************)
\* The state was published by the daemon that runs
Current(s) == daemon.pc # "down" /\ s.updated > 0 /\ s.updated >= daemon.born

Announced(s) == s.next = s.updated + s.interval /\ s.updated <= now

\* A poll begins when the published state announces it or earlier, and ends within a
\* timeout or is noted in the history
CycleInv ==
  /\ Announced(state) /\ Announced(shown.state)
  /\ Current(state) /\ daemon.pc = "sleep" => now <= state.next
  /\ Current(state) /\ Polling => daemon.cycle <= state.next
  /\ Polling => now <= daemon.cycle + Timeout \/ state.updated \in overran

\* A step of a poll that goes on
PollGoesOn ==
  /\ UNCHANGED <<now, state>>
  /\ Polling /\ Polling' /\ daemon'.cycle = daemon.cycle /\ daemon'.born = daemon.born

LEMMA PollSteps ==
  ASSUME DaemonTyped,
         SkipAccount \/ RefreshCredentials \/ FetchAgain \/ InsertSnapshot \/ RecordSuccess
           \/ RecordError
  PROVE  PollGoesOn
<1>1. daemon \in DaemonType
  BY DEF DaemonTyped
<1>2. ASSUME NextAccount
      PROVE  daemon'.cycle = daemon.cycle /\ daemon'.born = daemon.born /\ Polling'
  BY <1>1, <1>2 DEF NextAccount, FetchOf, At, DaemonType, Polling
<1>3. ASSUME NEW pc \in {"refresh", "refetch", "record"}, At(pc) \/ Wait(pc)
      PROVE  daemon'.cycle = daemon.cycle /\ daemon'.born = daemon.born /\ Polling'
  BY <1>1, <1>3 DEF At, Wait, DaemonType, Polling
<1>4. CASE SkipAccount \/ RecordSuccess \/ RecordError
  BY <1>2, <1>4 DEF SkipAccount, RecordSuccess, RecordError, PollGoesOn, Polling
<1>5. CASE RefreshCredentials \/ FetchAgain \/ InsertSnapshot
  <2>1. Polling /\ UNCHANGED <<now, state>>
    BY <1>5 DEF RefreshCredentials, FetchAgain, InsertSnapshot, Polling
  <2>2. At("record") \/ Wait("refresh") \/ Wait("refetch")
    BY <1>5 DEF RefreshCredentials, FetchAgain, InsertSnapshot
  <2>3. QED
    BY <1>3, <2>1, <2>2 DEF PollGoesOn
<1>6. QED
  BY <1>4, <1>5

\* What the history notes of the published state and of the one on the screen
LEMMA Noted ==
  ASSUME TypeOK', Observe
  PROVE  /\ Polling' => now' <= daemon'.cycle + Timeout \/ state'.updated \in overran'
         /\ \A u \in overran : u \in {state'.updated, shown'.state.updated} => u \in overran'
<1>1. now' \in Nat /\ daemon'.cycle \in Nat /\ Timeout \in Nat
  BY Numbers DEF TypeOK, StoreTyped, DaemonTyped, DaemonType
<1>2. overran' = {u \in {state'.updated, shown'.state.updated} :
                    \/ u \in overran
                    \/ u = state'.updated /\ Polling' /\ now' > daemon'.cycle + Timeout}
  BY DEF Observe
<1>3. ASSUME Polling', ~(now' <= daemon'.cycle + Timeout) PROVE state'.updated \in overran'
  BY <1>1, <1>2, <1>3
<1>4. QED
  BY <1>2, <1>3

\* The published state and the beginning of the poll
PublishedInv ==
  /\ Announced(state)
  /\ Current(state) /\ daemon.pc = "sleep" => now <= state.next
  /\ Current(state) /\ Polling => daemon.cycle <= state.next

LEMMA DaemonCycle ==
  ASSUME TypeOK, CycleInv, Daemon \/ Tick
  PROVE  PublishedInv'
<1>1. /\ now \in Nat /\ daemon \in DaemonType /\ daemon.born \in Nat /\ daemon.cycle \in Nat
      /\ state \in StateType /\ state.updated \in Nat /\ state.interval \in Nat /\ state.next \in Nat
  BY DEF TypeOK, StoreTyped, DaemonTyped, DaemonType, StateType
<1>2. /\ Announced(state)
      /\ Current(state) /\ daemon.pc = "sleep" => now <= state.next
      /\ Current(state) /\ Polling => daemon.cycle <= state.next
  BY DEF CycleInv
<1>3. CASE StartDaemon
  <2>1. UNCHANGED <<now, state>> /\ daemon'.pc = "fetch" /\ daemon'.born = now /\ daemon'.cycle = now
    BY <1>1, <1>3 DEF StartDaemon, FirstFetch, FetchOf, DaemonType
  <2>2. Current(state)' => now <= state.next
    BY <1>1, <1>2, <2>1 DEF Current, Announced
  <2>3. QED
    BY <1>2, <2>1, <2>2 DEF PublishedInv, Announced
<1>4. CASE StopDaemon
  <2>1. UNCHANGED <<now, state>> /\ daemon'.pc = "down"
    BY <1>4 DEF StopDaemon, Down
  <2>2. QED
    BY <1>2, <2>1 DEF PublishedInv, Announced, Current
<1>5. CASE SkipAccount \/ RefreshCredentials \/ FetchAgain \/ InsertSnapshot \/ RecordSuccess
             \/ RecordError
  <2>1. PollGoesOn
    BY <1>5, PollSteps DEF TypeOK
  <2>2. QED
    BY <1>2, <2>1 DEF PollGoesOn, PublishedInv, Announced, Current, Polling
<1>6. CASE Publish
  <2>1. PICK d \in Delays : state' = [updated |-> now, interval |-> d, next |-> now + d]
    BY <1>6 DEF Publish
  <2>2. now' = now /\ daemon'.pc = "sleep"
    BY <1>6 DEF Publish, Down
  <2>3. d \in Nat /\ d >= 1
    BY Numbers
  <2>4. QED
    BY <1>1, <2>1, <2>2, <2>3 DEF PublishedInv, Announced, Polling
<1>7. CASE Wake
  <2>1. UNCHANGED <<now, state>> /\ daemon.pc = "sleep" /\ daemon' = FirstFetch
    BY <1>7 DEF Wake
  <2>2. daemon'.pc = "fetch" /\ daemon'.cycle = now /\ daemon'.born = daemon.born
    BY <1>1, <2>1 DEF FirstFetch, FetchOf, DaemonType
  <2>3. QED
    BY <1>2, <2>1, <2>2 DEF PublishedInv, Announced, Current
<1>8. CASE ExportGauges
  BY <1>2, <1>8 DEF ExportGauges, daemonVars, PublishedInv, Announced, Current, Polling
<1>9. CASE Tick
  <2>1. /\ now' = now + 1 /\ UNCHANGED <<state, daemon>>
        /\ daemon.pc = "sleep" => ~(now >= state.next)
    BY <1>9 DEF Tick, daemonVars, Awake
  <2>2. Announced(state)'
    BY <1>1, <1>2, <2>1 DEF Announced
  <2>3. daemon.pc = "sleep" => now' <= state.next
    BY <1>1, <2>1
  <2>4. QED
    BY <1>2, <2>1, <2>2, <2>3 DEF PublishedInv, Current, Polling
<1>10. QED
  BY <1>3, <1>4, <1>5, <1>6, <1>7, <1>8, <1>9 DEF Daemon

\* What is shown of the daemon stays, or is what the database says or nothing
LEMMA ShownSteps ==
  ASSUME TypeOK, Step
  PROVE  /\ shown'.state \in {shown.state, state, NoState}
         /\ shown'.state # shown.state => UNCHANGED <<now, state, daemon>>
<1>1. ASSUME NEW j \in Jobs, Refresh(j)
      PROVE  shown'.state \in {shown.state, state, NoState} /\ UNCHANGED <<now, state, daemon>>
  BY <1>1, RefreshSteps DEF TypeOK, daemonVars
<1>2. ASSUME NEW j \in Jobs, Starts(j) PROVE shown'.state = shown.state
  BY <1>2 DEF Starts
<1>3. QED
  BY <1>1, <1>2, TuiSteps DEF TypeOK

\* A poll begins when the published state announces it or earlier, and takes no longer
\* than a timeout unless the history notes it (daemon/daemon.go)
THEOREM CycleInvariant == Spec => []CycleInv
<1>1. Init => CycleInv
  <2> SUFFICES ASSUME Init PROVE CycleInv
    OBVIOUS
  <2>1. now = 1 /\ daemon.pc = "down" /\ state = NoState /\ shown.state = NoState
    BY DEF Init, Down
  <2>2. QED
    BY <2>1 DEF CycleInv, Announced, Polling, Current, NoState
<1>2. TypeOK /\ TypeOK' /\ CycleInv /\ [Next]_vars => CycleInv'
  <2> SUFFICES ASSUME TypeOK, TypeOK', CycleInv, [Next]_vars PROVE CycleInv'
    OBVIOUS
  <2>1. CASE UNCHANGED vars
    BY <2>1 DEF vars, daemonVars, tui, history, CycleInv, Announced, Polling, Current
  <2>2. CASE Next
    <3>1. Step /\ Observe
      BY <2>2 DEF Next
    <3>2. PublishedInv'
      <4>1. ASSUME UNCHANGED <<now, state, daemon>> PROVE PublishedInv'
        BY <4>1 DEF CycleInv, PublishedInv, Announced, Polling, Current
      <4>2. ASSUME NEW j \in Jobs, Refresh(j) PROVE UNCHANGED <<now, state, daemon>>
        BY <4>2 DEF Refresh, daemonVars
      <4>3. ASSUME TickMsg \/ KeyReload \/ KeyPoll \/ OnceFetches \/ OnceStores
            PROVE UNCHANGED <<now, state, daemon>>
        BY <4>3 DEF TickMsg, KeyReload, KeyPoll, OnceFetches, OnceStores, daemonVars
      <4>4. QED
        BY <3>1, <4>1, <4>2, <4>3, DaemonCycle DEF Step
    <3>3. Announced(shown.state)'
      <4>1. now <= now' /\ now \in Nat /\ now' \in Nat
        <5>1. now' = now \/ now' = now + 1
          BY <3>1 DEF Step, Daemon, Refresh, TickMsg, KeyReload, KeyPoll, StartDaemon,
             StopDaemon, SkipAccount, RefreshCredentials, FetchAgain, InsertSnapshot,
             RecordSuccess, RecordError, Publish, Wake, ExportGauges, OnceFetches, OnceStores,
             Tick
        <5>2. QED
          BY <5>1 DEF TypeOK, StoreTyped
      <4>2. /\ state.updated \in Nat /\ shown.state.updated \in Nat
            /\ Announced(state) /\ Announced(shown.state)
        BY DEF CycleInv, TypeOK, DaemonTyped, TuiTyped, ShownType, StateType
      <4>3. CASE shown'.state = NoState
        BY <4>1, <4>3 DEF Announced, NoState
      <4>4. CASE shown'.state \in {shown.state, state}
        BY <4>1, <4>2, <4>4 DEF Announced
      <4>5. QED
        BY <3>1, <4>3, <4>4, ShownSteps
    <3>4. QED
      BY <3>1, <3>2, <3>3, Noted DEF PublishedInv, CycleInv
  <2>3. QED
    BY <2>1, <2>2
<1>3. QED
  BY <1>1, <1>2, TypeCorrect, PTL DEF Spec

\* The TUI looks at the clock before the lease of the state that it holds ends, or a
\* refresh will replace this state
LeaseInv ==
  OfRunningDaemon /\ shown.state.updated \notin overran =>
    \/ nextTick <= shown.state.next + Timeout + RefreshInterval
    \/ \E j \in Jobs : Reading(j) /\ nextTick <= jobs[j].begun + RefreshInterval

LEMMA LeasePreserved ==
  ASSUME TypeOK, TypeOK', InTime, CycleInv, LeaseInv, Step, Observe
  PROVE  LeaseInv'
<1>1. /\ now \in Nat /\ nextTick \in Nat /\ \A j \in Jobs : jobs[j].begun \in Nat
      /\ jobs \in [Jobs -> JobType] /\ daemon.cycle \in Nat
      /\ state.next \in Nat /\ state.updated \in Nat /\ state.interval \in Nat
      /\ shown.state.next \in Nat /\ shown.state.updated \in Nat /\ shown.state.interval \in Nat
  BY DEF TypeOK, StoreTyped, DaemonTyped, DaemonType, TuiTyped, JobType, ShownType, StateType
<1>2. SUFFICES ASSUME OfRunningDaemon', shown'.state.updated \notin overran'
               PROVE  \/ nextTick' <= shown'.state.next + Timeout + RefreshInterval
                      \/ \E j \in Jobs : Reading(j)' /\ nextTick' <= jobs'[j].begun + RefreshInterval
  BY DEF LeaseInv
<1>3. ASSUME shown'.state = shown.state, OfRunningDaemon
      PROVE  \/ nextTick <= shown.state.next + Timeout + RefreshInterval
             \/ \E j \in Jobs : Reading(j) /\ nextTick <= jobs[j].begun + RefreshInterval
  BY <1>2, <1>3, Noted DEF LeaseInv
<1>4. ASSUME NEW j \in Jobs, Refresh(j)
      PROVE  \/ nextTick' <= shown'.state.next + Timeout + RefreshInterval
             \/ \E k \in Jobs : Reading(k)' /\ nextTick' <= jobs'[k].begun + RefreshInterval
  <2>1. UNCHANGED <<now, state, daemon, nextTick>>
    BY <1>4, RefreshSteps DEF TypeOK, daemonVars
  <2>2. ASSUME NEW new, jobs' = [jobs EXCEPT ![j] = new], shown' = shown, GoesOn(jobs[j], new),
               new.pc # "idle"
        PROVE  \/ nextTick' <= shown'.state.next + Timeout + RefreshInterval
               \/ \E k \in Jobs : Reading(k)' /\ nextTick' <= jobs'[k].begun + RefreshInterval
    <3>1. OfRunningDaemon
      BY <1>2, <2>1, <2>2 DEF OfRunningDaemon
    <3>2. \A k \in Jobs : jobs'[k].begun = jobs[k].begun /\ (Reading(k) => Reading(k)')
      BY <1>1, <2>2 DEF Reading, GoesOn
    <3>3. QED
      BY <1>3, <2>1, <2>2, <3>1, <3>2
  <2>3. ASSUME shown'.state \in {state, NoState}
        PROVE  nextTick' <= shown'.state.next + Timeout + RefreshInterval
    <3>1. shown'.state = state
      BY <1>2, <2>3 DEF OfRunningDaemon, NoState
    <3>2. Current(state)
      BY <1>2, <2>1, <3>1 DEF OfRunningDaemon, Current
    <3>3. state.updated \notin overran
      BY <1>2, <3>1, Noted
    <3>4. now <= state.next + Timeout
      BY <1>1, <3>2, <3>3, Numbers DEF CycleInv, Current, Polling
    <3>5. QED
      BY <1>1, <2>1, <3>1, <3>4, Numbers DEF InTime
  <2>4. \A new : ReadsStatus(j, jobs[j], new) \/ ReadsSamples(j, jobs[j], new) \/ new.pc = "remote"
               => new.pc # "idle"
    BY DEF ReadsStatus, ReadsSamples
  <2>5. QED
    BY <1>4, <2>2, <2>3, <2>4, RefreshSteps DEF TypeOK
<1>5. ASSUME NEW j \in Jobs, Starts(j)
      PROVE  \/ nextTick' <= shown'.state.next + Timeout + RefreshInterval
             \/ \E k \in Jobs : Reading(k)' /\ nextTick' <= jobs'[k].begun + RefreshInterval
  <2>1. /\ shown'.state = shown.state /\ UNCHANGED <<now, daemon>> /\ ~Reading(j)
        /\ nextTick' = nextTick \/ nextTick' = now + RefreshInterval
        /\ jobs' = [jobs EXCEPT ![j] = NewJob]
    BY <1>5 DEF Starts
  <2>2. /\ Reading(j)' /\ jobs'[j].begun = now
        /\ \A k \in Jobs : Reading(k) => Reading(k)' /\ jobs'[k].begun = jobs[k].begun
    BY <1>1, <2>1, NoJobTyped DEF Reading
  <2>3. CASE nextTick' = now + RefreshInterval
    BY <1>1, <2>2, <2>3, Numbers
  <2>4. CASE nextTick' = nextTick
    <3>1. OfRunningDaemon
      BY <1>2, <2>1 DEF OfRunningDaemon
    <3>2. QED
      BY <1>3, <2>1, <2>2, <2>4, <3>1
  <2>5. QED
    BY <2>1, <2>3, <2>4
<1>6. ASSUME UNCHANGED <<jobs, shown, nextTick>>
      PROVE  \/ nextTick' <= shown'.state.next + Timeout + RefreshInterval
             \/ \E k \in Jobs : Reading(k)' /\ nextTick' <= jobs'[k].begun + RefreshInterval
  <2>1. CASE OfRunningDaemon
    BY <1>3, <1>6, <2>1 DEF Reading
  <2>2. CASE StartDaemon
    <3>1. daemon'.born = now
      BY <2>2 DEF StartDaemon, FirstFetch, FetchOf, TypeOK, DaemonTyped, DaemonType
    <3>2. shown.state.updated >= now /\ shown.state.next = shown.state.updated + shown.state.interval
      BY <1>2, <1>6, <3>1 DEF OfRunningDaemon, CycleInv, Announced
    <3>3. nextTick <= now + RefreshInterval
      BY DEF InTime
    <3>4. QED
      BY <1>1, <1>6, <3>2, <3>3, Numbers
  <2>3. CASE ~OfRunningDaemon /\ ~StartDaemon
    <3>1. daemon'.pc # "down" => daemon.pc # "down" /\ daemon'.born = daemon.born
      <4>1. CASE SkipAccount \/ RefreshCredentials \/ FetchAgain \/ InsertSnapshot
                   \/ RecordSuccess \/ RecordError
        BY <4>1, PollSteps DEF PollGoesOn, Polling, TypeOK
      <4>2. CASE Publish
        BY <4>2 DEF Publish, Down
      <4>3. CASE Wake
        BY <4>3 DEF Wake, FirstFetch, FetchOf, TypeOK, DaemonTyped, DaemonType
      <4>4. CASE StopDaemon
        BY <4>4 DEF StopDaemon, Down
      <4>5. CASE ExportGauges \/ OnceFetches \/ OnceStores \/ Tick
        BY <4>5 DEF ExportGauges, OnceFetches, OnceStores, Tick, daemonVars
      <4>6. QED
        BY <1>6, <2>3, <4>1, <4>2, <4>3, <4>4, <4>5, StoreSteps DEF Daemon
    <3>2. QED
      BY <1>2, <1>6, <2>3, <3>1 DEF OfRunningDaemon
  <2>4. QED
    BY <2>1, <2>2, <2>3
<1>7. QED
  BY <1>4, <1>5, <1>6, TuiSteps DEF TypeOK

\* A running daemon looks alive by the copy of its state that the TUI holds, for any
\* number of accounts and whatever refreshes overtake one another, unless the poll that
\* follows has taken longer than one timeout (tui/model.go:625)
THEOREM LiveDaemonLooksLiveHolds == Spec => []LiveDaemonLooksLiveUnlessOverran
<1>1. Init => LeaseInv
  <2>1. Down.pc = "down"
    BY DEF Down
  <2>2. Init => daemon = Down
    BY DEF Init
  <2>3. QED
    BY <2>1, <2>2 DEF LeaseInv, OfRunningDaemon
<1>2. TypeOK /\ TypeOK' /\ InTime /\ CycleInv /\ LeaseInv /\ [Next]_vars => LeaseInv'
  <2> SUFFICES ASSUME TypeOK, TypeOK', InTime, CycleInv, LeaseInv, [Next]_vars PROVE LeaseInv'
    OBVIOUS
  <2>1. CASE UNCHANGED vars
    BY <2>1 DEF vars, daemonVars, tui, history, LeaseInv, OfRunningDaemon, Reading
  <2>2. QED
    BY <2>1, LeasePreserved DEF Next
<1>3. TypeOK /\ InTime /\ CycleInv /\ LeaseInv => LiveDaemonLooksLiveUnlessOverran
  <2> SUFFICES ASSUME TypeOK, InTime, CycleInv, LeaseInv,
                      OfRunningDaemon, ~RefreshUnderWay, shown.state.updated \notin overran
               PROVE  LooksLive(shown.state)
    BY DEF LiveDaemonLooksLiveUnlessOverran
  <2>1. /\ now \in Nat /\ nextTick \in Nat
        /\ shown.state.updated \in Nat /\ shown.state.interval \in Nat
    BY DEF TypeOK, StoreTyped, TuiTyped, ShownType, StateType
  <2>2. now < nextTick
    BY <2>1 DEF InTime, RefreshUnderWay
  <2>3. nextTick <= shown.state.next + Timeout + RefreshInterval
    BY DEF LeaseInv, RefreshUnderWay
  <2>4. shown.state.next = shown.state.updated + shown.state.interval
    BY DEF CycleInv, Announced
  <2>5. PICK e \in Nat : e = shown.state.updated + shown.state.interval + (Timeout + RefreshInterval)
    BY <2>1, Numbers
  <2>6. LeaseEnd(shown.state) = Min({e, e})
    BY <2>4, <2>5 DEF LeaseEnd
  <2>7. Min({e, e}) = e
    BY DEF Min
  <2>8. now < e
    BY <2>1, <2>2, <2>3, <2>4, <2>5, Numbers
  <2>9. QED
    BY <2>6, <2>7, <2>8 DEF LooksLive, OfRunningDaemon
<1>4. QED
  BY <1>1, <1>2, <1>3, TypeCorrect, RefreshesInTime, CycleInvariant, PTL DEF Spec

-----------------------------------------------------------------------------
(***************************************************************************)
(* A health that is shown was one in the database.                         *)
(***************************************************************************)
\* A refresh to which the property applies: all that it has read so far was answered
Sound(j) == Reading(j) /\ jobs[j].pc # "remote" /\ ~late[j] /\ ~jobs[j].errors

\* It has read the runs of the account and its samples too, or not yet
ReadBoth(j, a) == jobs[j].acct > a \/ jobs[j].pc = "state"
ReadRuns(j, a) == jobs[j].acct = a /\ jobs[j].pc = "samples"

\* What the refresh makes of an account with the samples it has read, or will read
\* if they stay as they are, was true since it read the runs
ReadInv ==
  \A j \in Jobs :
    /\ jobs[j].pc = "state" => jobs[j].acct = NumAccounts
    /\ Sound(j) => \A a \in Accounts :
         /\ ReadBoth(j, a) =>
              Health(jobs[j].run[a], jobs[j].success[a], jobs[j].sample[a]) \in real[j][a]
         /\ ReadRuns(j, a) =>
              Health(jobs[j].run[a], jobs[j].success[a], sample[a]) \in real[j][a]

\* A newer sample than the runs in the database makes the health that an older answer
\* gives either what it was before or what it is now
LEMMA HealthKept ==
  ASSUME NEW r \in Runs, NEW ok \in Nat, NEW r2 \in Runs, NEW ok2 \in Nat,
         NEW s \in Nat, NEW t \in Nat, s <= t, t = s \/ t > r2.at
  PROVE  Health(r, ok, t) \in {Health(r, ok, s), Health(r2, ok2, t)}
<1>1. r.at \in Nat /\ r2.at \in Nat
  BY DEF Runs
<1>2. CASE t = s
  BY <1>2
<1>3. CASE t > r2.at
  <2>1. Health(r2, ok2, t) = "ok"
    BY <1>1, <1>3 DEF Health, Failing, Later
  <2>2. CASE Failing(r, ok, t)
    <3>1. Failing(r, ok, s)
      BY <1>1, <2>2 DEF Failing, Later
    <3>2. QED
      BY <2>2, <3>1 DEF Health
  <2>3. CASE ~Failing(r, ok, t)
    <3>1. Later(ok, t) > 0
      BY <1>1, <1>3 DEF Later
    <3>2. QED
      BY <2>1, <2>3, <3>1 DEF Health
  <2>4. QED
    BY <2>2, <2>3
<1>4. QED
  BY <1>2, <1>3

\* How a step changes the samples while a refresh reads, and the answers of the runs
LEMMA SampleSteps ==
  ASSUME TypeOK, Step
  PROVE  /\ sample' = sample \/ (UNCHANGED <<jobs, run, success>>)
         /\ \A a \in Accounts : sample'[a] \in Nat /\ sample[a] <= sample'[a]
<1>1. sample \in [Accounts -> Nat]
  BY DEF TypeOK, StoreTyped
<1>2. ASSUME sample' = sample PROVE \A a \in Accounts : sample'[a] \in Nat /\ sample[a] <= sample'[a]
  BY <1>1, <1>2
<1>3. ASSUME NEW b, NEW t \in Nat, sample' = [sample EXCEPT ![b] = Later(@, t)]
      PROVE  \A a \in Accounts : sample'[a] \in Nat /\ sample[a] <= sample'[a]
  <2> SUFFICES ASSUME NEW a \in Accounts PROVE sample'[a] \in Nat /\ sample[a] <= sample'[a]
    OBVIOUS
  <2>1. sample[a] \in Nat /\ Later(sample[a], t) \in Nat /\ Later(sample[a], t) >= sample[a]
    BY <1>1, LaterTyped
  <2>2. sample'[a] = sample[a] \/ sample'[a] = Later(sample[a], t)
    BY <1>1, <1>3
  <2>3. QED
    BY <2>1, <2>2
<1>4. CASE InsertSnapshot
  <2>1. PICK b, t : sample' = [sample EXCEPT ![b] = Later(@, t)] /\ t \in Nat
    BY <1>4 DEF InsertSnapshot, TypeOK, DaemonTyped, DaemonType
  <2>2. UNCHANGED <<jobs, run, success>>
    BY <1>4 DEF InsertSnapshot, tui
  <2>3. QED
    BY <1>3, <2>1, <2>2
<1>5. CASE OnceStores
  <2>1. PICK b, t : sample' = [sample EXCEPT ![b] = Later(@, t)] /\ t \in Nat
    BY <1>5 DEF OnceStores, TypeOK, StoreTyped
  <2>2. UNCHANGED <<jobs, run, success>>
    BY <1>5 DEF OnceStores, tui
  <2>3. QED
    BY <1>3, <2>1, <2>2
<1>6. CASE \E j \in Jobs : Refresh(j)
  BY <1>2, <1>6 DEF Refresh, samples
<1>7. CASE TickMsg \/ KeyReload \/ KeyPoll \/ OnceFetches \/ Tick
  BY <1>2, <1>7 DEF TickMsg, KeyReload, KeyPoll, OnceFetches, Tick, samples
<1>8. CASE StartDaemon \/ StopDaemon \/ SkipAccount \/ RefreshCredentials \/ FetchAgain \/ RecordSuccess \/ RecordError
             \/ Publish \/ Wake \/ ExportGauges
  BY <1>2, <1>8 DEF StartDaemon, StopDaemon, SkipAccount, RefreshCredentials, FetchAgain, RecordSuccess, RecordError,
                    Publish, Wake, ExportGauges, samples
<1>9. QED
  BY <1>4, <1>5, <1>6, <1>7, <1>8 DEF Step, Daemon

\* The history keeps what an account that is read has been, and adds what it is
LEMMA RealGrows ==
  ASSUME Observe, NEW j \in Jobs, NEW a \in Accounts, ReadBoth(j, a)' \/ ReadRuns(j, a)',
         Reading(j)', jobs' \in [Jobs -> JobType], jobs'[j].pc = "state" => jobs'[j].acct = NumAccounts
  PROVE  real'[j][a] = real[j][a] \cup {Health(run'[a], success'[a], sample'[a])}
<1>1. jobs'[j].acct \in Nat /\ a \in Nat /\ a <= NumAccounts
  BY Numbers DEF JobType, Accounts
<1>2. ~(jobs'[j].pc = "idle" \/ jobs'[j].acct < a
          \/ (jobs'[j].pc = "status" /\ jobs'[j].acct = a))
  BY <1>1, Numbers DEF ReadBoth, ReadRuns, Reading
<1>3. HealthNow(a)' = Health(run'[a], success'[a], sample'[a])
  BY DEF HealthNow
<1>4. QED
  BY <1>2, <1>3 DEF Observe

\* A refresh that does nothing in the step
LEMMA OtherJob ==
  ASSUME TypeOK, TypeOK', ReadInv, Step, Observe, NEW j \in Jobs, jobs'[j] = jobs[j]
  PROVE  /\ jobs'[j].pc = "state" => jobs'[j].acct = NumAccounts
         /\ Sound(j)' => \A a \in Accounts :
              /\ ReadBoth(j, a)' =>
                   Health(jobs'[j].run[a], jobs'[j].success[a], jobs'[j].sample[a]) \in real'[j][a]
              /\ ReadRuns(j, a)' =>
                   Health(jobs'[j].run[a], jobs'[j].success[a], sample'[a]) \in real'[j][a]
<1>1. jobs'[j].pc = "state" => jobs'[j].acct = NumAccounts
  BY DEF ReadInv
<1>2. SUFFICES ASSUME Sound(j)', NEW a \in Accounts, ReadBoth(j, a)' \/ ReadRuns(j, a)'
               PROVE  /\ ReadBoth(j, a)' =>
                           Health(jobs'[j].run[a], jobs'[j].success[a], jobs'[j].sample[a]) \in real'[j][a]
                      /\ ReadRuns(j, a)' =>
                           Health(jobs'[j].run[a], jobs'[j].success[a], sample'[a]) \in real'[j][a]
  BY <1>1
<1>3. /\ ReadBoth(j, a)' <=> ReadBoth(j, a)
      /\ ReadRuns(j, a)' <=> ReadRuns(j, a)
  BY DEF ReadBoth, ReadRuns
<1>4. /\ Sound(j)
      /\ sample'[a] = sample[a] \/ sample'[a] > run[a].at
  <2>1. Reading(j) /\ Reading(j)' /\ jobs[j].pc # "remote" /\ ~jobs[j].errors
    BY <1>2 DEF Sound, Reading
  <2>2. ~late[j] /\ ~(sample'[a] # sample[a] /\ sample'[a] <= run[a].at)
    BY <1>2, <2>1 DEF Observe, Sound
  <2>3. sample'[a] \in Nat /\ run[a].at \in Nat
    BY DEF TypeOK, StoreTyped, Runs
  <2>4. QED
    BY <2>1, <2>2, <2>3 DEF Sound
<1>5. real'[j][a] = real[j][a] \cup {Health(run'[a], success'[a], sample'[a])}
  BY <1>1, <1>2, RealGrows DEF Sound, TypeOK, TuiTyped
<1>6. ReadBoth(j, a) => Health(jobs[j].run[a], jobs[j].success[a], jobs[j].sample[a]) \in real'[j][a]
  BY <1>4, <1>5 DEF ReadInv
<1>7. ReadRuns(j, a) => Health(jobs[j].run[a], jobs[j].success[a], sample'[a]) \in real'[j][a]
  <2> SUFFICES ASSUME ReadRuns(j, a)
               PROVE  Health(jobs[j].run[a], jobs[j].success[a], sample'[a]) \in real'[j][a]
    OBVIOUS
  <2>1. Health(jobs[j].run[a], jobs[j].success[a], sample[a]) \in real[j][a]
    BY <1>4 DEF ReadInv
  <2>2. CASE sample' = sample
    BY <1>5, <2>1, <2>2
  <2>3. CASE UNCHANGED <<jobs, run, success>>
    <3>1. /\ jobs[j].run[a] \in Runs /\ jobs[j].success[a] \in Nat
          /\ run[a] \in Runs /\ success[a] \in Nat /\ sample[a] \in Nat
      BY DEF TypeOK, StoreTyped, TuiTyped, JobType
    <3>2. Health(jobs[j].run[a], jobs[j].success[a], sample'[a])
            \in {Health(jobs[j].run[a], jobs[j].success[a], sample[a]),
                 Health(run[a], success[a], sample'[a])}
      BY <1>4, <3>1, HealthKept, SampleSteps
    <3>3. QED
      BY <1>5, <2>1, <2>3, <3>2
  <2>4. QED
    BY <2>2, <2>3, SampleSteps
<1>8. QED
  BY <1>3, <1>6, <1>7

\* The refresh that reads in the step
LEMMA ReadingJob ==
  ASSUME TypeOK, TypeOK', ReadInv, Step, Observe, NEW j \in Jobs, NEW new,
         jobs'[j] = new, GoesOn(jobs[j], new), UNCHANGED samples, Reading(j),
         ReadsStatus(j, jobs[j], new) \/ ReadsSamples(j, jobs[j], new) \/ new.pc = "remote"
  PROVE  /\ jobs'[j].pc = "state" => jobs'[j].acct = NumAccounts
         /\ Sound(j)' => \A a \in Accounts :
              /\ ReadBoth(j, a)' =>
                   Health(jobs'[j].run[a], jobs'[j].success[a], jobs'[j].sample[a]) \in real'[j][a]
              /\ ReadRuns(j, a)' =>
                   Health(jobs'[j].run[a], jobs'[j].success[a], sample'[a]) \in real'[j][a]
<1>1. new.pc = "state" => new.acct = NumAccounts
  BY DEF ReadsStatus, ReadsSamples
<1>2. SUFFICES ASSUME Sound(j)', NEW a \in Accounts, ReadBoth(j, a)' \/ ReadRuns(j, a)'
               PROVE  /\ ReadBoth(j, a)' =>
                           Health(new.run[a], new.success[a], new.sample[a]) \in real'[j][a]
                      /\ ReadRuns(j, a)' =>
                           Health(new.run[a], new.success[a], sample'[a]) \in real'[j][a]
  BY <1>1
<1>3. real'[j][a] = real[j][a] \cup {Health(run[a], success[a], sample[a])}
  <2>1. real'[j][a] = real[j][a] \cup {Health(run'[a], success'[a], sample'[a])}
    BY <1>1, <1>2, RealGrows DEF Sound, TypeOK, TuiTyped
  <2>2. QED
    BY <2>1 DEF samples
<1>4. /\ jobs[j] \in JobType /\ jobs[j].acct \in Accounts /\ a \in Nat /\ jobs[j].acct \in Nat
      /\ jobs[j].run \in [Accounts -> Runs] /\ jobs[j].success \in [Accounts -> Nat]
      /\ jobs[j].sample \in [Accounts -> Nat]
  BY Numbers DEF TypeOK, TuiTyped, JobType
<1>5. ~new.errors /\ ~late[j] /\ ~jobs[j].errors /\ new.pc # "remote"
  BY <1>2 DEF Sound, Observe, GoesOn
<1>6. CASE ReadsStatus(j, jobs[j], new)
  <2>1. Sound(j)
    BY <1>5, <1>6 DEF Sound, Reading, ReadsStatus
  <2>2. CASE jobs[j].acct = a
    <3>1. new.run[a] = run[a] /\ new.success[a] = success[a]
      BY <1>4, <1>5, <1>6, <2>2 DEF ReadsStatus
    <3>2. ~ReadBoth(j, a)'
      BY <1>4, <1>6, <2>2 DEF ReadsStatus, ReadBoth
    <3>3. QED
      BY <1>3, <3>1, <3>2 DEF samples
  <2>3. CASE jobs[j].acct # a
    <3>1. new.run[a] = jobs[j].run[a] /\ new.success[a] = jobs[j].success[a] /\ new.sample = jobs[j].sample
      BY <1>4, <1>5, <1>6, <2>3 DEF ReadsStatus
    <3>2. ~ReadRuns(j, a)' /\ ReadBoth(j, a)
      BY <1>2, <1>4, <1>6, <2>3 DEF ReadsStatus, ReadBoth, ReadRuns
    <3>3. QED
      BY <1>3, <2>1, <3>1, <3>2 DEF ReadInv
  <2>4. QED
    BY <2>2, <2>3
<1>7. CASE ReadsSamples(j, jobs[j], new)
  <2>1. Sound(j)
    BY <1>5, <1>7 DEF Sound, Reading, ReadsSamples
  <2>2. ~ReadRuns(j, a)' /\ ReadBoth(j, a)'
    BY <1>2, <1>7 DEF ReadsSamples, ReadRuns
  <2>3. new.run = jobs[j].run /\ new.success = jobs[j].success
        /\ new.sample = [jobs[j].sample EXCEPT ![jobs[j].acct] = sample[jobs[j].acct]]
    BY <1>5, <1>7 DEF ReadsSamples
  <2>4. CASE jobs[j].acct = a
    <3>1. ReadRuns(j, a) /\ new.sample[a] = sample[a]
      BY <1>4, <1>7, <2>3, <2>4 DEF ReadsSamples, ReadRuns
    <3>2. QED
      BY <1>3, <2>1, <2>2, <2>3, <3>1 DEF ReadInv
  <2>5. CASE jobs[j].acct # a
    <3>1. ReadBoth(j, a)
      <4>1. a <= NumAccounts /\ NumAccounts \in Nat
        BY Numbers DEF Accounts
      <4>2. QED
        BY <1>4, <1>7, <2>2, <2>5, <4>1 DEF ReadsSamples, ReadBoth
    <3>2. new.sample[a] = jobs[j].sample[a]
      BY <1>4, <2>3, <2>5
    <3>3. QED
      BY <1>3, <2>1, <2>2, <2>3, <3>1, <3>2 DEF ReadInv
  <2>6. QED
    BY <2>4, <2>5
<1>8. QED
  BY <1>5, <1>6, <1>7

\* A refresh that ends or begins has read nothing
LEMMA NothingRead ==
  ASSUME NEW j \in Jobs, jobs'[j] = NoJob \/ jobs'[j] = NewJob, now \in Nat
  PROVE  /\ jobs'[j].pc # "state"
         /\ Sound(j)' => \A a \in Accounts : ~ReadBoth(j, a)' /\ ~ReadRuns(j, a)'
<1>1. CASE jobs'[j] = NoJob
  BY <1>1, NoJobTyped DEF Sound, Reading
<1>2. CASE jobs'[j] = NewJob
  <2>1. jobs'[j].pc \in {"status", "remote"} /\ jobs'[j].acct = 1
    BY <1>2, NoJobTyped
  <2>2. QED
    BY <2>1, Numbers DEF ReadBoth, ReadRuns, Accounts
<1>3. QED
  BY <1>1, <1>2

LEMMA ReadPreserved == TypeOK /\ TypeOK' /\ ReadInv /\ [Next]_vars => ReadInv'
<1> SUFFICES ASSUME TypeOK, TypeOK', ReadInv, [Next]_vars PROVE ReadInv'
  OBVIOUS
<1>1. CASE UNCHANGED vars
  BY <1>1 DEF vars, history, samples, tui, ReadInv, Sound, Reading, ReadBoth, ReadRuns
<1>2. CASE Next
  <2> DEFINE Kept(j) ==
               /\ jobs'[j].pc = "state" => jobs'[j].acct = NumAccounts
               /\ Sound(j)' => \A a \in Accounts :
                    /\ ReadBoth(j, a)' =>
                         Health(jobs'[j].run[a], jobs'[j].success[a], jobs'[j].sample[a]) \in real'[j][a]
                    /\ ReadRuns(j, a)' =>
                         Health(jobs'[j].run[a], jobs'[j].success[a], sample'[a]) \in real'[j][a]
  <2>1. Step /\ Observe
    BY <1>2 DEF Next
  <2>2. now \in Nat /\ jobs \in [Jobs -> JobType]
    BY DEF TypeOK, StoreTyped, TuiTyped
  <2>3. ASSUME NEW j \in Jobs, jobs'[j] = jobs[j] PROVE Kept(j)
    BY <2>1, <2>3, OtherJob
  <2>4. ASSUME NEW j \in Jobs, jobs'[j] = NoJob \/ jobs'[j] = NewJob PROVE Kept(j)
    BY <2>2, <2>4, NothingRead
  <2>5. ASSUME NEW k \in Jobs, Refresh(k), NEW j \in Jobs PROVE Kept(j)
    <3>1. CASE j # k
      <4>1. jobs'[j] = jobs[j]
        BY <2>2, <2>5, <3>1, RefreshSteps DEF TypeOK
      <4>2. QED
        BY <2>3, <4>1
    <3>2. CASE j = k /\ jobs' = [jobs EXCEPT ![j] = NoJob]
      BY <2>2, <2>4, <3>2
    <3>3. CASE j = k /\ \E new : /\ jobs' = [jobs EXCEPT ![j] = new]
                                 /\ GoesOn(jobs[j], new)
                                 /\ \/ ReadsStatus(j, jobs[j], new)
                                    \/ ReadsSamples(j, jobs[j], new)
                                    \/ new.pc = "remote"
      <4>1. PICK new : /\ jobs' = [jobs EXCEPT ![j] = new]
                       /\ GoesOn(jobs[j], new)
                       /\ \/ ReadsStatus(j, jobs[j], new)
                          \/ ReadsSamples(j, jobs[j], new)
                          \/ new.pc = "remote"
        BY <3>3
      <4>2. jobs'[j] = new /\ UNCHANGED samples /\ Reading(j)
        BY <2>2, <2>5, <3>3, <4>1, RefreshSteps DEF TypeOK
      <4>3. QED
        BY <2>1, <4>1, <4>2, ReadingJob
    <3>4. QED
      BY <2>5, <3>1, <3>2, <3>3, RefreshSteps DEF TypeOK
  <2>6. ASSUME NEW k \in Jobs, Starts(k), NEW j \in Jobs PROVE Kept(j)
    <3>1. jobs'[j] = jobs[j] \/ jobs'[j] = NewJob
      BY <2>2, <2>6 DEF Starts
    <3>2. QED
      BY <2>3, <2>4, <3>1
  <2>7. \A j \in Jobs : Kept(j)
    <3>1. CASE UNCHANGED <<jobs, shown, nextTick>>
      BY <2>3, <3>1
    <3>2. QED
      BY <2>1, <2>5, <2>6, <3>1, TuiSteps DEF TypeOK
  <2> HIDE DEF Kept
  <2>8. QED
    BY <2>7 DEF ReadInv, Kept
<1>3. QED
  BY <1>1, <1>2

\* An account that is shown as failing, as ok or as never polled was so in the
\* database at some time while the refresh read it, although its runs and its samples
\* are read in different transactions (store/store.go, tui/model.go)
THEOREM HealthIsRealHolds == Spec => HealthIsReal
<1> DEFINE Ends(j) == jobs[j].pc = "state" /\ jobs'[j].pc = "idle" /\ ~shown'.errors /\ ~late[j]
           Real == \A j \in Jobs : Ends(j) => \A a \in Accounts : shown'.health[a] \in real[j][a]
<1>1. Init => ReadInv
  <2> SUFFICES ASSUME Init PROVE ReadInv
    OBVIOUS
  <2>1. now \in Nat
    BY DEF Init
  <2>2. \A j \in Jobs : jobs[j] = NoJob \/ jobs[j] = NewJob
    BY DEF Init
  <2>3. \A j \in Jobs : \/ jobs[j].pc = "idle"
                        \/ jobs[j].pc \in {"status", "remote"} /\ jobs[j].acct = 1
    BY <2>1, <2>2, NoJobTyped
  <2>4. QED
    BY <2>3, Numbers DEF ReadInv, Sound, Reading, ReadBoth, ReadRuns, Accounts
<1>2. TypeOK /\ ReadInv /\ Next => Real
  <2> SUFFICES ASSUME TypeOK, ReadInv, Next, NEW j \in Jobs, Ends(j), NEW a \in Accounts
               PROVE  shown'.health[a] \in real[j][a]
    OBVIOUS
  <2>1. jobs \in [Jobs -> JobType] /\ Reading(j) /\ ~Reading(j)'
    BY DEF TypeOK, TuiTyped, Reading
  <2>2. Refresh(j)
    <3>1. ASSUME NEW k \in Jobs, Refresh(k), k # j PROVE jobs'[j] = jobs[j]
      BY <2>1, <3>1, RefreshSteps DEF TypeOK
    <3>2. ASSUME NEW k \in Jobs, Starts(k) PROVE jobs'[j] = jobs[j]
      BY <2>1, <3>2 DEF Starts
    <3>3. QED
      BY <2>1, <3>1, <3>2, TuiSteps DEF Next, TypeOK, Reading
  <2>3. /\ ~jobs[j].errors
        /\ shown'.health = [b \in Accounts |->
             Health(jobs[j].run[b], jobs[j].success[b], jobs[j].sample[b])]
    <3>1. ASSUME NEW new, jobs' = [jobs EXCEPT ![j] = new],
                 ReadsStatus(j, jobs[j], new) \/ ReadsSamples(j, jobs[j], new) \/ new.pc = "remote"
          PROVE  FALSE
      BY <2>1, <3>1 DEF ReadsStatus, ReadsSamples
    <3>2. QED
      BY <2>2, <3>1, RefreshSteps DEF TypeOK
  <2>4. Sound(j) /\ ReadBoth(j, a)
    BY <2>1, <2>3 DEF Sound, ReadBoth
  <2>5. Health(jobs[j].run[a], jobs[j].success[a], jobs[j].sample[a]) \in real[j][a]
    BY <2>4 DEF ReadInv
  <2>6. QED
    BY <2>3, <2>5
<1>3. TypeOK /\ ReadInv /\ [Next]_vars => [Real]_vars
  BY <1>2
<1>4. QED
  BY <1>1, <1>3, TypeCorrect, ReadPreserved, PTL DEF Spec, HealthIsReal
=============================================================================
