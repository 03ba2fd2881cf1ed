-------------------------- MODULE PiRefreshProofs --------------------------
(***************************************************************************)
(* What holds of the shared login for any number of processes, any         *)
(* lifetimes, and any number of faults.                                    *)
(***************************************************************************)
EXTENDS PiRefresh, TLAPS

\* The generation after the current one, and credentials of it, are in range
LEMMA NextGeneration ==
  ASSUME TypeOK, grant.gen < MaxGen
  PROVE  /\ [grant EXCEPT !.gen = @ + 1] \in [gen : Gens, revoked : 0..(MaxGen + 1)]
         /\ \A t \in 0..Horizon :
              [gen |-> grant.gen + 1, iat |-> now, exp |-> t + Lifetime] \in Credentials
<1>1. grant.gen + 1 \in Gens
  BY PiRefreshAssumption DEF TypeOK, Gens
<1>2. \A t \in 0..Horizon : now \in Times /\ t + Lifetime \in Times
  BY PiRefreshAssumption DEF TypeOK, Times
<1>3. QED
  BY <1>1, <1>2 DEF TypeOK, Credentials

\* The zero value and the first credential are in range
LEMMA FirstCredentials ==
  /\ 0 \in Gens /\ 0 \in 0..Horizon /\ 0 \in 0..(MaxGen + 1) /\ 0 \in 0..MaxFaults
  /\ Unset \in Credentials
  /\ [gen |-> 0, iat |-> 0, exp |-> Lifetime] \in Credentials
<1>1. 0 \in Gens /\ 0 \in Times /\ Lifetime \in Times
  BY PiRefreshAssumption DEF Gens, Times
<1>2. QED
  BY <1>1, PiRefreshAssumption DEF Credentials, Unset

\* The count of faults stays within its bound
LEMMA FaultCounted == ASSUME faults \in 0..MaxFaults, Fault PROVE faults' \in 0..MaxFaults
  BY PiRefreshAssumption DEF Fault

\* The clock stays within its bound
LEMMA ClockBounded == ASSUME now \in 0..Horizon, Tick PROVE now' \in 0..Horizon
  BY PiRefreshAssumption DEF Tick

\* A revocation names an existing generation
LEMMA RevocationTyped ==
  ASSUME grant \in [gen : Gens, revoked : 0..(MaxGen + 1)], Revoke
  PROVE  grant' \in [gen : Gens, revoked : 0..(MaxGen + 1)]
<1>1. grant.gen \in 0..MaxGen
  BY DEF Gens
<1>2. grant.gen + 1 \in 0..(MaxGen + 1)
  BY <1>1, PiRefreshAssumption
<1>3. QED
  BY <1>2 DEF Revoke

\* A refused exchange leaves well-formed memories of it
LEMMA RefusalTyped ==
  ASSUME NEW p \in Pollers, ExchangeRefused(p), TypeOK
  PROVE  /\ dead' \in [Pollers -> SUBSET Gens]
         /\ refused' \in [Pollers -> SUBSET [gen : Gens, at : 0..Horizon]]
<1>1. cred[p].gen \in Gens /\ start[p] \in 0..Horizon
  BY DEF TypeOK, Credentials
<1>2. dead \in [Pollers -> SUBSET Gens]
  BY DEF TypeOK
<1>3. refused \in [Pollers -> SUBSET [gen : Gens, at : 0..Horizon]]
  BY DEF TypeOK
<1>4. {[gen |-> cred[p].gen, at |-> start[p]]} \in SUBSET [gen : Gens, at : 0..Horizon]
  BY <1>1
<1>5. QED
  BY <1>1, <1>2, <1>3, <1>4 DEF ExchangeRefused

\* The state is well formed, and the lock is held by the process that is in
\* the critical section of Modify and by no other.
THEOREM TypeCorrect == Spec => []TypeOK
<1> USE DEF PcValues, Outcomes, Waiting, Locked, Requests
<1>1. Init => TypeOK
  <2> SUFFICES ASSUME Init PROVE TypeOK
    OBVIOUS
  <2>1. /\ now \in 0..Horizon /\ faults \in 0..MaxFaults
        /\ start \in [Pollers -> 0..Horizon]
        /\ file \in Credentials
        /\ cred \in [Pollers -> Credentials] /\ rotated \in [Pollers -> Credentials]
        /\ grant \in [gen : Gens, revoked : 0..(MaxGen + 1)]
    BY FirstCredentials DEF Init
  <2>2. /\ forced \in [Pollers -> BOOLEAN] /\ broken \in [Pollers -> BOOLEAN]
        /\ stranded \in BOOLEAN
    BY Zenon DEF Init
  <2>3. /\ pc \in [Pollers -> PcValues] /\ outcome \in [Pollers -> Outcomes]
        /\ dead \in [Pollers -> SUBSET Gens]
        /\ refused \in [Pollers -> SUBSET [gen : Gens, at : 0..Horizon]]
        /\ lock \in Pollers \cup {NoPoller}
        /\ \A p \in Pollers : pc[p] \in Locked <=> lock = p
    BY PiRefreshAssumption DEF Init
  <2>4. QED
    BY <2>1, <2>2, <2>3 DEF TypeOK
<1>2. TypeOK /\ [Next]_vars => TypeOK'
  <2> SUFFICES ASSUME TypeOK, Next PROVE TypeOK'
    BY DEF TypeOK, vars, pollVars
  <2>0. broken' \in [Pollers -> BOOLEAN]
    BY DEF Next, Observe
  <2> USE PiRefreshAssumption DEF TypeOK
  <2>1. ASSUME NEW p \in Pollers, Begin(p) \/ Poll(p) \/ Crash(p) PROVE TypeOK'
    <3>1. CASE Begin(p)
      BY <2>0, FirstCredentials, <3>1 DEF Begin, Goto
    <3>2. CASE ReadCredential(p)
      BY <2>0, <3>2 DEF ReadCredential, Goto
    <3>3. CASE LockUnavailable(p)
      BY <2>0, <3>3 DEF LockUnavailable, Goto, RefreshFails, Return, Waiting
    <3>4. CASE ModifyUses(p)
      BY <2>0, <3>4 DEF ModifyUses, Goto, AfterRefresh
    <3>5. CASE ModifyGivesUp(p)
      BY <2>0, <3>5 DEF ModifyGivesUp, Goto, RefreshFails, Return
    <3>6. CASE ModifyRefreshes(p)
      BY <2>0, <3>6 DEF ModifyRefreshes, Goto
    <3>7. CASE ExchangeSucceeds(p)
      <4>1. rotated' \in [Pollers -> Credentials]
        BY NextGeneration, <3>7 DEF ExchangeSucceeds, Issued
      <4>2. grant' \in [gen : Gens, revoked : 0..(MaxGen + 1)]
        BY NextGeneration, <3>7 DEF ExchangeSucceeds
      <4>3. QED
        BY <2>0, <3>7, <4>1, <4>2 DEF ExchangeSucceeds, Goto
    <3>8. CASE ExchangeRefused(p)
      <4>1. /\ dead' \in [Pollers -> SUBSET Gens]
            /\ refused' \in [Pollers -> SUBSET [gen : Gens, at : 0..Horizon]]
        BY RefusalTyped, <3>8
      <4>2. /\ lock' \in Pollers \cup {NoPoller}
            /\ pc' \in [Pollers -> PcValues]
            /\ outcome' \in [Pollers -> Outcomes]
            /\ \A q \in Pollers : pc'[q] \in Locked <=> lock' = q
        BY <3>8 DEF ExchangeRefused, Goto, Release, RefreshFails, Return
      <4>3. QED
        BY <2>0, <3>8, <4>1, <4>2 DEF ExchangeRefused
    <3>9. CASE ExchangeFails(p)
      BY <2>0, <3>9 DEF ExchangeFails, Goto, Release, RefreshFails, Return
    <3>10. CASE AnswerLost(p)
      <4>1. faults' \in 0..MaxFaults
        BY FaultCounted, <3>10 DEF AnswerLost
      <4>2. grant' \in [gen : Gens, revoked : 0..(MaxGen + 1)]
        BY NextGeneration, <3>10 DEF AnswerLost
      <4>3. stranded' \in BOOLEAN
        BY <3>10 DEF AnswerLost
      <4>4. QED
        BY <2>0, <3>10, <4>1, <4>2, <4>3
        DEF AnswerLost, Goto, Release, RefreshFails, Return
    <3>11. CASE Persist(p)
      BY <2>0, <3>11 DEF Persist, Goto, Release, AfterRefresh
    <3>12. CASE PersistFails(p)
      <4>1. faults' \in 0..MaxFaults
        BY FaultCounted, <3>12 DEF PersistFails
      <4>2. QED
        BY <2>0, <3>12, <4>1 DEF PersistFails, Goto, Release, RefreshFails,
           Return
    <3>13. CASE FetchSucceeds(p)
      BY <2>0, <3>13 DEF FetchSucceeds, Goto, Return, Requests
    <3>14. CASE FetchUnauthorized(p)
      BY <2>0, <3>14 DEF FetchUnauthorized, Goto, Return, Requests
    <3>15. CASE FetchFails(p)
      BY <2>0, <3>15 DEF FetchFails, Goto, Return, Requests
    <3>16. CASE Crash(p)
      <4>1. faults' \in 0..MaxFaults
        BY FaultCounted, <3>16 DEF Crash
      <4>2. stranded' \in BOOLEAN
        BY Zenon, <3>16 DEF Crash
      <4>3. QED
        BY <2>0, <3>16, <4>1, <4>2 DEF Crash, Goto, Release, Return
    <3>17. CASE ChmodFails(p)
      <4>1. faults' \in 0..MaxFaults
        BY FaultCounted, <3>17 DEF ChmodFails
      <4>2. QED
        BY <2>0, <3>17, <4>1 DEF ChmodFails, Goto, Release, RefreshFails, Return
    <3>18. QED
      BY <2>1, <3>17, <3>1, <3>2, <3>3, <3>4, <3>5, <3>6, <3>7, <3>8, <3>9,
         <3>10, <3>11, <3>12, <3>13, <3>14, <3>15, <3>16 DEF Poll, Refresh
  <2>2. CASE PiRefreshes
    <3>1. /\ grant' \in [gen : Gens, revoked : 0..(MaxGen + 1)]
          /\ file' \in Credentials
      BY NextGeneration, <2>2 DEF PiRefreshes
    <3>2. QED
      BY <2>0, <2>2, <3>1 DEF PiRefreshes, pollVars
  <2>3. CASE Login
    <3>1. /\ grant' \in [gen : Gens, revoked : 0..(MaxGen + 1)]
          /\ file' \in Credentials
      BY NextGeneration, <2>3 DEF Login
    <3>2. QED
      BY <2>0, <2>3, <3>1 DEF Login, pollVars
  <2>4. CASE Revoke
    <3>1. grant' \in [gen : Gens, revoked : 0..(MaxGen + 1)]
      BY RevocationTyped, <2>4
    <3>2. QED
      BY <2>0, <2>4, <3>1 DEF Revoke, pollVars
  <2>5. CASE Tick
    <3>1. now' \in 0..Horizon
      BY ClockBounded, <2>5
    <3>2. QED
      BY <2>0, <2>5, <3>1 DEF Tick, pollVars
  <2>6. QED
    BY <2>1, <2>2, <2>3, <2>4, <2>5 DEF Next, Step
<1>3. QED
  BY <1>1, <1>2, PTL DEF Spec

\* What makes FileHoldsLatest inductive: the process in the critical section
\* exchanges the refresh token that is in the file, and until it has written
\* the next one the server issues no other.
GrantInv ==
  /\ file.gen <= grant.gen
  /\ \A p \in Pollers : pc[p] = "exchange" => cred[p].gen = file.gen
  /\ \A p \in Pollers : pc[p] = "persist" =>
       rotated[p].gen = grant.gen /\ file.gen < grant.gen
  /\ FileHoldsLatest

\* The parts of the type invariant the next proofs rest on
LEMMA TypeParts ==
  ASSUME TypeOK
  PROVE  /\ \A p \in Pollers : pc[p] \in {"exchange", "persist"} <=> lock = p
         /\ pc \in [Pollers -> PcValues]
         /\ now \in Nat /\ grant.gen \in Nat /\ file.gen \in Nat
         /\ grant = [gen |-> grant.gen, revoked |-> grant.revoked]
         /\ cred \in [Pollers -> Credentials] /\ rotated \in [Pollers -> Credentials]
         /\ \A p \in Pollers : start[p] \in 0..Horizon /\ cred[p].gen \in Gens
         /\ start \in [Pollers -> 0..Horizon]
         /\ dead \in [Pollers -> SUBSET Gens]
         /\ refused \in [Pollers -> SUBSET [gen : Gens, at : 0..Horizon]]
  BY PiRefreshAssumption DEF TypeOK, Locked, Gens, Credentials

LEMMA GrantInvInitially == Init => GrantInv
<1> SUFFICES ASSUME Init PROVE GrantInv
  OBVIOUS
<1>1. file.gen = 0 /\ grant.gen = 0 /\ \A p \in Pollers : pc[p] = "idle"
  BY DEF Init
<1>2. QED
  BY <1>1 DEF GrantInv, FileHoldsLatest

LEMMA GrantInvKept == TypeOK /\ GrantInv /\ [Next]_vars => GrantInv'
<1> SUFFICES ASSUME TypeOK, GrantInv, [Next]_vars PROVE GrantInv'
  OBVIOUS
<1> USE PiRefreshAssumption DEF GrantInv, FileHoldsLatest
<1>0. CASE UNCHANGED vars
  BY <1>0 DEF vars, pollVars
<1>1. ASSUME NEW p \in Pollers, Begin(p) \/ Poll(p) \/ Crash(p) PROVE GrantInv'
  <2>1. CASE Begin(p)
    BY TypeParts, <2>1 DEF Begin, Goto
  <2>2. CASE ReadCredential(p)
    BY TypeParts, <2>2 DEF ReadCredential, Goto
  <2>3. CASE LockUnavailable(p)
    BY TypeParts, <2>3 DEF LockUnavailable, Goto, RefreshFails, Return, Waiting
  <2>4. CASE ModifyUses(p)
    BY TypeParts, <2>4 DEF ModifyUses, Goto, AfterRefresh
  <2>5. CASE ModifyGivesUp(p)
    BY TypeParts, <2>5 DEF ModifyGivesUp, Goto, RefreshFails, Return
  <2>6. CASE ModifyRefreshes(p)
    BY TypeParts, <2>6 DEF ModifyRefreshes, Goto
  <2>7. CASE ExchangeSucceeds(p)
    BY TypeParts, <2>7 DEF ExchangeSucceeds, Goto, Issued, Exchanges
  <2>8. CASE ExchangeRefused(p)
    BY TypeParts, <2>8 DEF ExchangeRefused, Goto, Release, RefreshFails, Return
  <2>9. CASE ExchangeFails(p)
    BY TypeParts, <2>9 DEF ExchangeFails, Goto, Release, RefreshFails, Return
  <2>10. CASE AnswerLost(p)
    BY TypeParts, <2>10 DEF AnswerLost, Goto, Fault, Release, RefreshFails,
       Return, Exchanges
  <2>11. CASE Persist(p)
    BY TypeParts, <2>11 DEF Persist, Goto, Release, AfterRefresh
  <2>12. CASE PersistFails(p)
    BY TypeParts, <2>12 DEF PersistFails, Goto, Fault, Release, RefreshFails,
       Return
  <2>13. CASE FetchSucceeds(p)
    BY TypeParts, <2>13 DEF FetchSucceeds, Goto, Return, Requests
  <2>14. CASE FetchUnauthorized(p)
    BY TypeParts, <2>14 DEF FetchUnauthorized, Goto, Return, Requests
  <2>15. CASE FetchFails(p)
    BY TypeParts, <2>15 DEF FetchFails, Goto, Return, Requests
  <2>16. CASE Crash(p)
    BY TypeParts, <2>16 DEF Crash, Goto, Fault, Release, Return
  <2>17. CASE ChmodFails(p)
    BY TypeParts, <2>17 DEF ChmodFails, Goto, Fault, Release, RefreshFails,
       Return
  <2>18. QED
    BY <1>1, <2>17, <2>1, <2>2, <2>3, <2>4, <2>5, <2>6, <2>7, <2>8, <2>9,
       <2>10, <2>11, <2>12, <2>13, <2>14, <2>15, <2>16 DEF Poll, Refresh
<1>2. CASE PiRefreshes
  BY TypeParts, <1>2 DEF PiRefreshes, Exchanges, pollVars
<1>3. CASE Login
  BY TypeParts, <1>3 DEF Login, pollVars
<1>4. CASE Revoke
  BY TypeParts, <1>4 DEF Revoke, pollVars
<1>5. CASE Tick
  BY TypeParts, <1>5 DEF Tick, pollVars
<1>6. QED
  BY <1>0, <1>1, <1>2, <1>3, <1>4, <1>5 DEF Next, Step

\* auth.json holds the refresh token the server accepts, or the next one is
\* about to be written under the lock, unless a rotation was lost: readers of
\* the file never work with a token that somebody else has used up.
THEOREM FileHoldsLatestHolds == Spec => []FileHoldsLatest
<1>1. GrantInv => FileHoldsLatest
  BY DEF GrantInv
<1>2. QED
  BY TypeCorrect, GrantInvInitially, GrantInvKept, <1>1, PTL DEF Spec

\* No process writes back a credential that has been replaced meanwhile.
THEOREM NeverGoesBackHolds == Spec => NeverGoesBack
<1>1. TypeOK /\ GrantInv /\ [Next]_vars => [file' # file => file'.gen > file.gen]_vars
  <2> SUFFICES ASSUME TypeOK, GrantInv, [Next]_vars, file' # file
               PROVE  file'.gen > file.gen
    OBVIOUS
  <2> USE TypeParts DEF GrantInv
  <2>1. ASSUME NEW p \in Pollers, Persist(p) \/ ChmodFails(p) PROVE file'.gen > file.gen
    BY <2>1 DEF Persist, ChmodFails
  <2>2. CASE PiRefreshes
    BY <2>2 DEF PiRefreshes, Exchanges
  <2>3. CASE Login
    BY <2>3 DEF Login
  <2>4. (\E p \in Pollers : Persist(p) \/ ChmodFails(p)) \/ PiRefreshes \/ Login
    BY DEF Next, Step, vars, Begin, Poll, Refresh, Crash, ReadCredential,
       LockUnavailable, ModifyUses, ModifyGivesUp, ModifyRefreshes,
       ExchangeSucceeds, ExchangeRefused, ExchangeFails, AnswerLost,
       PersistFails, FetchSucceeds, FetchUnauthorized, FetchFails, Revoke, Tick
  <2>5. QED
    BY <2>1, <2>2, <2>3, <2>4
<1>2. QED
  BY TypeCorrect, GrantInvInitially, GrantInvKept, <1>1, PTL DEF Spec,
     NeverGoesBack

\* Every refusal of the poll under way is remembered, and a process about to
\* post a refresh token does not remember it.
RefusedInv ==
  \A p \in Pollers :
    /\ \A r \in refused[p] :
         r.at <= start[p] /\ (r.at = start[p] => r.gen \in dead[p])
    /\ pc[p] = "exchange" => cred[p].gen \notin dead[p]

LEMMA RefusedInvKept == TypeOK /\ RefusedInv /\ [Next]_vars => RefusedInv'
<1> SUFFICES ASSUME TypeOK, RefusedInv, [Next]_vars PROVE RefusedInv'
  OBVIOUS
<1> USE PiRefreshAssumption DEF RefusedInv
<1>0. CASE UNCHANGED vars
  BY <1>0 DEF vars, pollVars
<1>1. ASSUME NEW p \in Pollers, Begin(p) \/ Poll(p) \/ Crash(p) PROVE RefusedInv'
  <2>1. CASE Begin(p)
    <3>1. \A q \in Pollers : \A r \in refused[q] : r.at \in Nat /\ start[q] \in Nat
      BY TypeParts
    <3>2. \A r \in refused[p] : r.at < start'[p]
      <4> SUFFICES ASSUME NEW r \in refused[p] PROVE r.at < start'[p]
        OBVIOUS
      <4>1. start'[p] = now /\ now > start[p] /\ now \in Nat
        BY <2>1, TypeParts DEF Begin
      <4>2. r.at <= start[p] /\ r.at \in Nat /\ start[p] \in Nat
        BY <3>1
      <4>3. QED
        BY <4>1, <4>2
    <3>3. /\ refused' = refused /\ pc'[p] # "exchange"
          /\ \A q \in Pollers \ {p} : /\ start'[q] = start[q] /\ dead'[q] = dead[q]
                                     /\ pc'[q] = pc[q] /\ cred'[q] = cred[q]
      BY <2>1, TypeParts DEF Begin, Goto
    <3>4. start'[p] \in Nat
      BY <2>1, TypeParts DEF Begin
    <3>5. QED
      BY <3>1, <3>2, <3>3, <3>4
  <2>2. CASE ReadCredential(p)
    BY TypeParts, <2>2 DEF ReadCredential, Goto
  <2>3. CASE LockUnavailable(p)
    BY TypeParts, <2>3 DEF LockUnavailable, Goto, RefreshFails, Return, Waiting
  <2>4. CASE ModifyUses(p)
    BY TypeParts, <2>4 DEF ModifyUses, Goto, AfterRefresh
  <2>5. CASE ModifyGivesUp(p)
    BY TypeParts, <2>5 DEF ModifyGivesUp, Goto, RefreshFails, Return
  <2>6. CASE ModifyRefreshes(p)
    BY TypeParts, <2>6 DEF ModifyRefreshes, Goto
  <2>7. CASE ExchangeSucceeds(p)
    BY TypeParts, <2>7 DEF ExchangeSucceeds, Goto, Issued, Exchanges
  <2>8. CASE ExchangeRefused(p)
    BY TypeParts, <2>8 DEF ExchangeRefused, Goto, Release, RefreshFails, Return
  <2>9. CASE ExchangeFails(p)
    BY TypeParts, <2>9 DEF ExchangeFails, Goto, Release, RefreshFails, Return
  <2>10. CASE AnswerLost(p)
    BY TypeParts, <2>10 DEF AnswerLost, Goto, Fault, Release, RefreshFails,
       Return, Exchanges
  <2>11. CASE Persist(p)
    BY TypeParts, <2>11 DEF Persist, Goto, Release, AfterRefresh
  <2>12. CASE PersistFails(p)
    BY TypeParts, <2>12 DEF PersistFails, Goto, Fault, Release, RefreshFails,
       Return
  <2>13. CASE FetchSucceeds(p)
    BY TypeParts, <2>13 DEF FetchSucceeds, Goto, Return, Requests
  <2>14. CASE FetchUnauthorized(p)
    BY TypeParts, <2>14 DEF FetchUnauthorized, Goto, Return, Requests
  <2>15. CASE FetchFails(p)
    BY TypeParts, <2>15 DEF FetchFails, Goto, Return, Requests
  <2>16. CASE Crash(p)
    BY TypeParts, <2>16 DEF Crash, Goto, Fault, Release, Return
  <2>17. CASE ChmodFails(p)
    BY TypeParts, <2>17 DEF ChmodFails, Goto, Fault, Release, RefreshFails,
       Return
  <2>18. QED
    BY <1>1, <2>17, <2>1, <2>2, <2>3, <2>4, <2>5, <2>6, <2>7, <2>8, <2>9,
       <2>10, <2>11, <2>12, <2>13, <2>14, <2>15, <2>16 DEF Poll, Refresh
<1>2. CASE PiRefreshes
  BY TypeParts, <1>2 DEF PiRefreshes, Exchanges, pollVars
<1>3. CASE Login
  BY TypeParts, <1>3 DEF Login, pollVars
<1>4. CASE Revoke
  BY TypeParts, <1>4 DEF Revoke, pollVars
<1>5. CASE Tick
  BY TypeParts, <1>5 DEF Tick, pollVars
<1>6. QED
  BY <1>0, <1>1, <1>2, <1>3, <1>4, <1>5 DEF Next, Step

\* After a refused early refresh the same poll does not post the refresh token
\* again, however often its access token is rejected.
THEOREM RefusedOncePerPollHolds == Spec => []RefusedOncePerPoll
<1>1. Init => RefusedInv
  BY DEF Init, RefusedInv
<1>2. TypeOK /\ RefusedInv => RefusedOncePerPoll
  <2> SUFFICES ASSUME TypeOK, RefusedInv, NEW p \in Pollers, pc[p] = "exchange",
                      NEW r \in refused[p], r.gen = cred[p].gen
               PROVE  r.at < start[p]
    BY DEF RefusedOncePerPoll
  <2>1. r.at <= start[p] /\ r.at # start[p]
    BY DEF RefusedInv
  <2>2. r.at \in 0..Horizon /\ start[p] \in 0..Horizon
    BY TypeParts
  <2>3. QED
    BY <2>1, <2>2
<1>3. QED
  BY TypeCorrect, RefusedInvKept, <1>1, <1>2, PTL DEF Spec
-----------------------------------------------------------------------------
(* The file behaves as one that only atomic rotations, losses and logins    *)
(* change.                                                                  *)

\* The generation that the outside takes for the current one
Outside == IF \E p \in Pollers : pc[p] = "persist" THEN grant.gen - 1 ELSE grant.gen

\* While the file and the server agree the login is not lost, and the process
\* between exchange and write is one generation ahead
HandoverInv ==
  /\ \A p \in Pollers : pc[p] = "persist" => grant.gen = file.gen + 1 /\ ~stranded
  /\ stranded => file.gen < grant.gen

LEMMA HandoverInvKept ==
  TypeOK /\ GrantInv /\ HandoverInv /\ [Next]_vars => HandoverInv'
<1> SUFFICES ASSUME TypeOK, GrantInv, HandoverInv, [Next]_vars PROVE HandoverInv'
  OBVIOUS
<1> USE PiRefreshAssumption DEF GrantInv, FileHoldsLatest, HandoverInv
<1>0. CASE UNCHANGED vars
  BY <1>0 DEF vars, pollVars
<1>1. ASSUME NEW p \in Pollers, Begin(p) \/ Poll(p) \/ Crash(p) PROVE HandoverInv'
  <2>1. CASE Begin(p)
    BY TypeParts, <2>1 DEF Begin, Goto
  <2>2. CASE ReadCredential(p)
    BY TypeParts, <2>2 DEF ReadCredential, Goto
  <2>3. CASE LockUnavailable(p)
    BY TypeParts, <2>3 DEF LockUnavailable, Goto, RefreshFails, Return, Waiting
  <2>4. CASE ModifyUses(p)
    BY TypeParts, <2>4 DEF ModifyUses, Goto, AfterRefresh
  <2>5. CASE ModifyGivesUp(p)
    BY TypeParts, <2>5 DEF ModifyGivesUp, Goto, RefreshFails, Return
  <2>6. CASE ModifyRefreshes(p)
    BY TypeParts, <2>6 DEF ModifyRefreshes, Goto
  <2>7. CASE ExchangeSucceeds(p)
    BY TypeParts, <2>7 DEF ExchangeSucceeds, Goto, Issued, Exchanges
  <2>8. CASE ExchangeRefused(p)
    BY TypeParts, <2>8 DEF ExchangeRefused, Goto, Release, RefreshFails, Return
  <2>9. CASE ExchangeFails(p)
    BY TypeParts, <2>9 DEF ExchangeFails, Goto, Release, RefreshFails, Return
  <2>10. CASE AnswerLost(p)
    BY TypeParts, <2>10 DEF AnswerLost, Goto, Fault, Release, RefreshFails,
       Return, Exchanges
  <2>11. CASE Persist(p)
    BY TypeParts, <2>11 DEF Persist, Goto, Release, AfterRefresh
  <2>12. CASE PersistFails(p)
    BY TypeParts, <2>12 DEF PersistFails, Goto, Fault, Release, RefreshFails,
       Return
  <2>13. CASE FetchSucceeds(p)
    BY TypeParts, <2>13 DEF FetchSucceeds, Goto, Return, Requests
  <2>14. CASE FetchUnauthorized(p)
    BY TypeParts, <2>14 DEF FetchUnauthorized, Goto, Return, Requests
  <2>15. CASE FetchFails(p)
    BY TypeParts, <2>15 DEF FetchFails, Goto, Return, Requests
  <2>16. CASE Crash(p)
    BY TypeParts, <2>16 DEF Crash, Goto, Fault, Release, Return
  <2>17. CASE ChmodFails(p)
    BY TypeParts, <2>17 DEF ChmodFails, Goto, Fault, Release, RefreshFails,
       Return
  <2>18. QED
    BY <1>1, <2>17, <2>1, <2>2, <2>3, <2>4, <2>5, <2>6, <2>7, <2>8, <2>9,
       <2>10, <2>11, <2>12, <2>13, <2>14, <2>15, <2>16 DEF Poll, Refresh
<1>2. CASE PiRefreshes
  BY TypeParts, <1>2 DEF PiRefreshes, Exchanges, pollVars
<1>3. CASE Login
  BY TypeParts, <1>3 DEF Login, pollVars
<1>4. CASE Revoke
  BY TypeParts, <1>4 DEF Revoke, pollVars
<1>5. CASE Tick
  BY TypeParts, <1>5 DEF Tick, pollVars
<1>6. QED
  BY <1>0, <1>1, <1>2, <1>3, <1>4, <1>5 DEF Next, Step

LEMMA HandoverInvInitially == Init => HandoverInv
  BY DEF Init, HandoverInv

\* At most one process is between exchange and write: the one that holds the lock
LEMMA OutsideIs ==
  ASSUME TypeOK
  PROVE  /\ \A p \in Pollers : pc[p] = "persist" => Outside = grant.gen - 1
         /\ \A p \in Pollers : lock = p /\ pc[p] # "persist" => Outside = grant.gen
         /\ lock = NoPoller => Outside = grant.gen
  BY TypeParts, PiRefreshAssumption DEF Outside

\* A step that leaves the server, the file and the critical section alone is not
\* seen outside
LEMMA NotSeenOutside ==
  ASSUME UNCHANGED <<grant, file, stranded>>,
         \A q \in Pollers : pc'[q] = "persist" <=> pc[q] = "persist"
  PROVE  UNCHANGED <<Outside, file.gen, stranded>>
  BY DEF Outside

\* A step of a poll is a rotation, a loss or none of the outside's business
LEMMA PollStepRefines ==
  ASSUME TypeOK, GrantInv, HandoverInv, NEW p \in Pollers,
         Begin(p) \/ Poll(p) \/ Crash(p)
  PROVE  [Shared!Next]_<<Outside, file.gen, stranded>>
<1> DEFINE Seen == [Shared!Next]_<<Outside, file.gen, stranded>>
<1> USE TypeParts, PiRefreshAssumption
<1>1. CASE Begin(p)
  BY NotSeenOutside, <1>1 DEF Begin, Goto
<1>2. CASE ReadCredential(p)
  BY NotSeenOutside, <1>2 DEF ReadCredential, Goto
<1>3. CASE LockUnavailable(p)
  BY NotSeenOutside, <1>3 DEF LockUnavailable, Goto, RefreshFails, Return, Waiting
<1>4. CASE ModifyUses(p)
  BY NotSeenOutside, <1>4 DEF ModifyUses, Goto, AfterRefresh
<1>5. CASE ModifyGivesUp(p)
  BY NotSeenOutside, <1>5 DEF ModifyGivesUp, Goto, RefreshFails, Return
<1>6. CASE ModifyRefreshes(p)
  BY NotSeenOutside, <1>6 DEF ModifyRefreshes, Goto
<1>7. CASE ExchangeSucceeds(p)
  <2>1. Outside = grant.gen
    BY OutsideIs, <1>7 DEF ExchangeSucceeds
  <2>2. pc'[p] = "persist" /\ grant'.gen = grant.gen + 1
    BY <1>7 DEF ExchangeSucceeds, Goto
  <2>3. Outside' = grant'.gen - 1
    BY <2>2 DEF Outside
  <2>4. QED
    BY <2>1, <2>2, <2>3, <1>7 DEF ExchangeSucceeds
<1>8. CASE ExchangeRefused(p)
  BY NotSeenOutside, <1>8 DEF ExchangeRefused, Goto, RefreshFails, Return
<1>9. CASE ExchangeFails(p)
  BY NotSeenOutside, <1>9 DEF ExchangeFails, Goto, RefreshFails, Return
<1>10. CASE AnswerLost(p)
  <2>1. Outside = grant.gen /\ cred[p].gen = file.gen /\ file.gen = grant.gen
    BY OutsideIs, <1>10 DEF AnswerLost, Exchanges, GrantInv
  <2>2. ~stranded
    BY <2>1 DEF HandoverInv
  <2>3. \A q \in Pollers : pc'[q] # "persist"
    BY <1>10 DEF AnswerLost, Goto, RefreshFails, Return
  <2>4. Outside' = grant.gen + 1
    BY <2>3, <1>10 DEF Outside, AnswerLost
  <2>5. Shared!Lose
    BY <2>1, <2>2, <2>4, <1>10 DEF AnswerLost, Shared!Lose, Outside
  <2>6. QED
    BY <2>5 DEF Shared!Next
<1>11. ASSUME pc[p] = "persist"
       PROVE  Outside = file.gen /\ ~stranded /\ rotated[p].gen = file.gen + 1
  BY OutsideIs, <1>11 DEF GrantInv, HandoverInv
<1>12. ASSUME pc[p] = "persist", pc'[p] # "persist", grant' = grant,
              \A q \in Pollers \ {p} : pc'[q] = pc[q]
       PROVE  Outside' = file.gen + 1
  BY <1>12 DEF Outside, HandoverInv
<1>13. CASE Persist(p) \/ ChmodFails(p)
  <2>1. pc[p] = "persist" /\ file' = rotated[p] /\ UNCHANGED <<grant, stranded>>
    BY <1>13 DEF Persist, ChmodFails
  <2>2. pc'[p] # "persist" /\ \A q \in Pollers \ {p} : pc'[q] = pc[q]
    BY <1>13 DEF Persist, ChmodFails, Goto, AfterRefresh, RefreshFails, Return
  <2>3. Shared!Rotate
    BY <1>11, <1>12, <2>1, <2>2 DEF Shared!Rotate, Outside
  <2>4. QED
    BY <2>3 DEF Shared!Next
<1>14. ASSUME pc[p] = "persist", PersistFails(p) \/ Crash(p) PROVE Seen
  <2>1. stranded' = TRUE /\ UNCHANGED <<grant, file>>
    BY <1>14 DEF PersistFails, Crash
  <2>2. pc'[p] # "persist" /\ \A q \in Pollers \ {p} : pc'[q] = pc[q]
    BY <1>14 DEF PersistFails, Crash, Goto, RefreshFails, Return
  <2>3. Shared!Lose
    BY <1>11, <1>12, <1>14, <2>1, <2>2 DEF Shared!Lose, Outside
  <2>4. QED
    BY <2>3 DEF Shared!Next
<1>15. CASE Crash(p) /\ pc[p] # "persist"
  BY NotSeenOutside, <1>15 DEF Crash, Goto, Return, TypeOK
<1>16. CASE FetchSucceeds(p)
  BY NotSeenOutside, <1>16 DEF FetchSucceeds, Goto, Return, Requests
<1>17. CASE FetchUnauthorized(p)
  BY NotSeenOutside, <1>17 DEF FetchUnauthorized, Goto, Return, Requests
<1>18. CASE FetchFails(p)
  BY NotSeenOutside, <1>18 DEF FetchFails, Goto, Return, Requests
<1>19. CASE PersistFails(p)
  BY <1>14, <1>19 DEF PersistFails
<1>20. QED
  BY <1>1, <1>2, <1>3, <1>4, <1>5, <1>6, <1>7, <1>8, <1>9, <1>10, <1>13, <1>14,
     <1>15, <1>16, <1>17, <1>18, <1>19 DEF Poll, Refresh

\* The processes, Pi, the user and the server together behave as a login that is
\* rotated, lost and renewed in single steps.
THEOREM SharedLoginImplemented == Spec => ImplementsSharedLogin
<1>1. Init => Shared!Init
  <2> SUFFICES ASSUME Init PROVE Shared!Init
    OBVIOUS
  <2>1. \A p \in Pollers : pc[p] # "persist"
    BY DEF Init
  <2>2. QED
    BY <2>1 DEF Init, Shared!Init
<1>2. TypeOK /\ GrantInv /\ HandoverInv /\ [Next]_vars => [Shared!Next]_(Shared!vars)
  <2> SUFFICES ASSUME TypeOK, GrantInv, HandoverInv, [Next]_vars
               PROVE  [Shared!Next]_<<Outside, file.gen, stranded>>
    BY DEF Shared!vars, Outside
  <2> USE TypeParts, PiRefreshAssumption
  <2>1. ASSUME NEW p \in Pollers, Begin(p) \/ Poll(p) \/ Crash(p)
        PROVE  [Shared!Next]_<<Outside, file.gen, stranded>>
    BY PollStepRefines, <2>1
  <2>2. CASE PiRefreshes
    <3>1. \A p \in Pollers : pc[p] # "persist" /\ pc'[p] # "persist"
      BY <2>2 DEF PiRefreshes, pollVars
    <3>2. Outside = grant.gen /\ Outside' = grant.gen + 1 /\ file.gen = grant.gen
      BY <2>2, <3>1 DEF Outside, PiRefreshes, Exchanges
    <3>3. Shared!Rotate
      BY <2>2, <3>2 DEF PiRefreshes, Shared!Rotate, Outside, HandoverInv
    <3>4. QED
      BY <3>3 DEF Shared!Next
  <2>3. CASE Login
    <3>1. \A p \in Pollers : pc[p] # "persist" /\ pc'[p] # "persist"
      BY <2>3 DEF Login, pollVars
    <3>2. Outside = grant.gen /\ Outside' = grant.gen + 1
      BY <2>3, <3>1 DEF Outside, Login
    <3>3. Shared!Login
      BY <2>3, <3>2 DEF Login, Shared!Login, Outside
    <3>4. QED
      BY <3>3 DEF Shared!Next
  <2>4. CASE Revoke \/ Tick
    BY <2>4 DEF Revoke, Tick, pollVars, Outside
  <2>5. CASE UNCHANGED vars
    BY <2>5, NotSeenOutside DEF vars, pollVars
  <2>6. QED
    BY <2>1, <2>2, <2>3, <2>4, <2>5 DEF Next, Step
<1>3. QED
  BY TypeCorrect, GrantInvInitially, GrantInvKept, HandoverInvInitially,
     HandoverInvKept, <1>1, <1>2, PTL DEF Spec, ImplementsSharedLogin, Shared!Spec

-----------------------------------------------------------------------------
(***************************************************************************)
(* auth_expired is reported of a broken login only.                        *)
(***************************************************************************)
\* A poll is shorter than two ticks
ShortPoll ==
  \A p \in Pollers : start[p] <= now /\ (pc[p] # "idle" => now <= start[p] + 1)

\* What has replaced the credential of a poll was issued during that poll
ReplacedSince ==
  \A p \in Pollers : pc[p] \notin {"idle", "read"} =>
    /\ file.gen = cred[p].gen \/ start[p] <= file.iat
    /\ \A q \in Pollers : pc[q] = "persist" => start[p] <= rotated[q].iat

\* While the login is whole no exchange of the poll is refused, and what a forced
\* refresh has brought is accepted
WholeWhileUnbroken ==
  \A p \in Pollers : pc[p] # "idle" /\ ~broken[p] =>
    /\ ~LoginBroken
    /\ dead[p] = {}
    /\ pc[p] = "refetch" => grant.revoked <= cred[p].gen /\ start[p] <= cred[p].iat

LEMMA ShortPollKept == TypeOK /\ ShortPoll /\ [Next]_vars => ShortPoll'
<1> SUFFICES ASSUME TypeOK, ShortPoll, [Next]_vars PROVE ShortPoll'
  OBVIOUS
<1>1. /\ now \in Nat /\ \A p \in Pollers : start[p] \in Nat
      /\ pc \in [Pollers -> PcValues] /\ start \in [Pollers -> 0..Horizon]
  BY PiRefreshAssumption, TypeParts
<1>2. CASE Tick
  <2>1. now' = now + 1 /\ \A p \in Pollers : pc[p] # "idle" => now = start[p]
    BY <1>2 DEF Tick
  <2>2. pc' = pc /\ start' = start
    BY <1>2 DEF Tick, pollVars
  <2>3. QED
    BY <1>1, <2>1, <2>2 DEF ShortPoll
<1>3. ASSUME NEW p \in Pollers, Begin(p) PROVE ShortPoll'
  <2>1. /\ now' = now
        /\ pc' = [pc EXCEPT ![p] = "read"] /\ start' = [start EXCEPT ![p] = now]
    BY <1>3 DEF Begin, Goto
  <2>2. start'[p] = now /\ \A q \in Pollers : q # p => start'[q] = start[q] /\ pc'[q] = pc[q]
    BY <1>1, <2>1
  <2>3. QED
    BY <1>1, <2>1, <2>2 DEF ShortPoll
<1>4. ASSUME NEW p \in Pollers, Poll(p) \/ Crash(p)
      PROVE  /\ now' = now /\ start' = start
             /\ pc' \in [Pollers -> PcValues] /\ pc[p] # "idle"
             /\ \A q \in Pollers : q # p => pc'[q] = pc[q]
  <2>1. /\ now' = now /\ start' = start /\ pc[p] # "idle"
        /\ \E place \in PcValues : pc' = [pc EXCEPT ![p] = place]
    BY <1>4 DEF Poll, Crash, Refresh, ReadCredential, LockUnavailable, ModifyUses,
       ModifyGivesUp, ModifyRefreshes, ExchangeSucceeds, ExchangeRefused, ExchangeFails,
       AnswerLost, Persist, PersistFails, ChmodFails, FetchSucceeds, FetchUnauthorized,
       FetchFails, Goto, Return, RefreshFails, AfterRefresh, PcValues, Waiting, Requests, Locked
  <2>2. QED
    BY <1>1, <2>1
<1>5. ASSUME NEW p \in Pollers, Poll(p) \/ Crash(p) PROVE ShortPoll'
  BY <1>1, <1>4, <1>5 DEF ShortPoll
<1>6. CASE PiRefreshes \/ Login \/ Revoke \/ UNCHANGED vars
  BY <1>6 DEF PiRefreshes, Login, Revoke, vars, pollVars, ShortPoll
<1>7. QED
  BY <1>2, <1>3, <1>5, <1>6 DEF Next, Step

LEMMA ReplacedSinceKept ==
  TypeOK /\ GrantInv /\ ShortPoll /\ ReplacedSince /\ [Next]_vars => ReplacedSince'
<1> SUFFICES ASSUME TypeOK, GrantInv, ShortPoll, ReplacedSince, [Next]_vars
             PROVE  ReplacedSince'
  OBVIOUS
<1>0. /\ \A p \in Pollers : pc[p] \in {"exchange", "persist"} <=> lock = p
      /\ pc \in [Pollers -> PcValues] /\ now \in Nat
      /\ file \in Credentials
      /\ cred \in [Pollers -> Credentials] /\ rotated \in [Pollers -> Credentials]
      /\ start \in [Pollers -> 0..Horizon] /\ NoPoller \notin Pollers
      /\ \A p \in Pollers : start[p] \in Nat /\ start[p] <= now
  BY TypeParts, PiRefreshAssumption DEF TypeOK, ShortPoll
<1> USE <1>0 DEF ReplacedSince
<1>1. ASSUME NEW p \in Pollers, Begin(p) \/ Poll(p) \/ Crash(p) PROVE ReplacedSince'
  <2>1. CASE Begin(p)
    BY <2>1 DEF Begin, Goto
  <2>2. CASE ReadCredential(p)
    <3>1. \A q \in Pollers : pc[q] # "persist" /\ pc'[q] # "persist"
      BY <2>2 DEF ReadCredential, Goto
    <3>2. QED
      BY <2>2, <3>1 DEF ReadCredential, Goto
  <2>3. CASE LockUnavailable(p)
    BY <2>3 DEF LockUnavailable, Goto, RefreshFails, Return, Waiting
  <2>4. CASE ModifyUses(p)
    BY <2>4 DEF ModifyUses, Goto, AfterRefresh
  <2>5. CASE ModifyGivesUp(p)
    BY <2>5 DEF ModifyGivesUp, Goto, RefreshFails, Return
  <2>6. CASE ModifyRefreshes(p)
    BY <2>6 DEF ModifyRefreshes, Goto
  <2>7. CASE ExchangeSucceeds(p)
    <3>1. rotated' = [rotated EXCEPT ![p] = Issued(p)] /\ Issued(p).iat = now
      BY <2>7 DEF ExchangeSucceeds, Issued
    <3>2. pc' = [pc EXCEPT ![p] = "persist"] /\ pc[p] = "exchange"
      BY <2>7 DEF ExchangeSucceeds, Goto
    <3>3. UNCHANGED <<now, file, start, cred>>
      BY <2>7 DEF ExchangeSucceeds
    <3> HIDE DEF Issued
    <3>4. QED
      BY <3>1, <3>2, <3>3
  <2>8. CASE ExchangeRefused(p)
    BY <2>8 DEF ExchangeRefused, Goto, Release, RefreshFails, Return
  <2>9. CASE ExchangeFails(p)
    BY <2>9 DEF ExchangeFails, Goto, Release, RefreshFails, Return
  <2>10. CASE AnswerLost(p)
    BY <2>10 DEF AnswerLost, Goto, Fault, Release, RefreshFails, Return
  <2>11. CASE Persist(p)
    BY <2>11 DEF Persist, Goto, Release, AfterRefresh
  <2>12. CASE PersistFails(p)
    BY <2>12 DEF PersistFails, Goto, Fault, Release, RefreshFails, Return
  <2>13. CASE FetchSucceeds(p)
    BY <2>13 DEF FetchSucceeds, Goto, Return, Requests
  <2>14. CASE FetchUnauthorized(p)
    BY <2>14 DEF FetchUnauthorized, Goto, Return, Requests
  <2>15. CASE FetchFails(p)
    BY <2>15 DEF FetchFails, Goto, Return, Requests
  <2>16. CASE Crash(p)
    BY <2>16 DEF Crash, Goto, Fault, Release, Return
  <2>17. CASE ChmodFails(p)
    BY <2>17 DEF ChmodFails, Goto, Fault, Release, RefreshFails, Return
  <2>18. QED
    BY <1>1, <2>17, <2>1, <2>2, <2>3, <2>4, <2>5, <2>6, <2>7, <2>8, <2>9,
       <2>10, <2>11, <2>12, <2>13, <2>14, <2>15, <2>16 DEF Poll, Refresh
<1>2. CASE PiRefreshes
  BY <1>2 DEF PiRefreshes, pollVars
<1>3. CASE Login
  BY <1>3 DEF Login, pollVars
<1>4. CASE Revoke \/ Tick
  BY <1>4 DEF Revoke, Tick, pollVars
<1>5. CASE UNCHANGED vars
  BY <1>5 DEF vars, pollVars
<1>6. QED
  BY <1>1, <1>2, <1>3, <1>4, <1>5 DEF Next, Step

\* While the login is whole, the refresh token of an exchange is the one that the
\* server accepts: the lock has kept it so since the second look
LEMMA NotRefused ==
  ASSUME TypeOK, GrantInv, NEW p \in Pollers, pc[p] = "exchange", ~LoginBroken
  PROVE  Exchanges(cred[p])
<1>1. lock = p /\ \A q \in Pollers : pc[q] = "persist" => lock = q
  BY TypeParts
<1>2. ~ \E q \in Pollers : pc[q] = "persist"
  BY <1>1
<1>3. file.gen = grant.gen
  BY <1>2 DEF GrantInv, FileHoldsLatest, LoginBroken
<1>4. grant.gen \in Nat /\ grant.revoked \in Nat
  BY PiRefreshAssumption DEF TypeOK, Gens
<1>5. QED
  BY <1>3, <1>4 DEF GrantInv, Exchanges, LoginBroken

\* A poll of one process leaves what the others have read to them
LEMMA OthersUntouched ==
  ASSUME TypeOK, NEW p \in Pollers, Begin(p) \/ Poll(p) \/ Crash(p),
         NEW q \in Pollers, q # p
  PROVE  /\ pc'[q] = pc[q] /\ dead'[q] = dead[q] /\ cred'[q] = cred[q]
         /\ start'[q] = start[q]
         /\ grant'.revoked = grant.revoked
<1>0. /\ pc \in [Pollers -> PcValues] /\ dead \in [Pollers -> SUBSET Gens]
      /\ cred \in [Pollers -> Credentials] /\ start \in [Pollers -> 0..Horizon]
      /\ grant = [gen |-> grant.gen, revoked |-> grant.revoked]
  BY TypeParts
<1>1. grant'.revoked = grant.revoked
  BY <1>0 DEF Begin, Crash, Poll, Refresh, ReadCredential, LockUnavailable, ModifyUses,
     ModifyGivesUp, ModifyRefreshes, ExchangeSucceeds, ExchangeRefused, ExchangeFails,
     AnswerLost, Persist, PersistFails, ChmodFails, FetchSucceeds, FetchUnauthorized,
     FetchFails
<1>2. pc'[q] = pc[q]
  BY <1>0 DEF Begin, Crash, Poll, Refresh, ReadCredential, LockUnavailable, ModifyUses,
     ModifyGivesUp, ModifyRefreshes, ExchangeSucceeds, ExchangeRefused, ExchangeFails,
     AnswerLost, Persist, PersistFails, ChmodFails, FetchSucceeds, FetchUnauthorized,
     FetchFails, Goto, Return, RefreshFails
<1>3. dead'[q] = dead[q] /\ cred'[q] = cred[q] /\ start'[q] = start[q]
  BY <1>0 DEF Begin, Crash, Poll, Refresh, ReadCredential, LockUnavailable, ModifyUses,
     ModifyGivesUp, ModifyRefreshes, ExchangeSucceeds, ExchangeRefused, ExchangeFails,
     AnswerLost, Persist, PersistFails, ChmodFails, FetchSucceeds, FetchUnauthorized,
     FetchFails
<1>4. QED
  BY <1>1, <1>2, <1>3

LEMMA WholeWhileUnbrokenKept ==
  TypeOK /\ GrantInv /\ ShortPoll /\ ReplacedSince /\ WholeWhileUnbroken /\ [Next]_vars
    => WholeWhileUnbroken'
<1> SUFFICES ASSUME TypeOK, GrantInv, ShortPoll, ReplacedSince, WholeWhileUnbroken,
                    [Next]_vars,
                    NEW r \in Pollers, pc'[r] # "idle", ~broken'[r]
             PROVE  /\ ~LoginBroken'
                    /\ dead'[r] = {}
                    /\ pc'[r] = "refetch" =>
                         grant'.revoked <= cred'[r].gen /\ start'[r] <= cred'[r].iat
  BY DEF WholeWhileUnbroken
<1>0. CASE UNCHANGED vars
  BY <1>0 DEF vars, pollVars, WholeWhileUnbroken, LoginBroken
<1>1. CASE Next
  <2>1. ~LoginBroken' /\ (pc[r] # "idle" => ~broken[r])
    BY <1>1 DEF Next, Observe
  <2>2. pc[r] # "idle" =>
          /\ ~LoginBroken
          /\ dead[r] = {}
          /\ pc[r] = "refetch" => grant.revoked <= cred[r].gen /\ start[r] <= cred[r].iat
    BY <2>1 DEF WholeWhileUnbroken
  <2>3. /\ \A p \in Pollers : pc[p] \in {"exchange", "persist"} <=> lock = p
        /\ pc \in [Pollers -> PcValues] /\ dead \in [Pollers -> SUBSET Gens]
        /\ file \in Credentials
        /\ cred \in [Pollers -> Credentials] /\ start \in [Pollers -> 0..Horizon]
        /\ rotated \in [Pollers -> Credentials] /\ NoPoller \notin Pollers
        /\ grant = [gen |-> grant.gen, revoked |-> grant.revoked]
        /\ grant.gen \in Nat /\ grant.revoked \in Nat
    BY TypeParts, PiRefreshAssumption DEF TypeOK, Gens
  <2> DEFINE Whole ==
        /\ dead'[r] = {}
        /\ pc'[r] = "refetch" =>
             grant'.revoked <= cred'[r].gen /\ start'[r] <= cred'[r].iat
  <2> SUFFICES Whole
    BY <2>1
  <2>4. ASSUME NEW p \in Pollers, p # r, Begin(p) \/ Poll(p) \/ Crash(p)
        PROVE  Whole
    <3>1. /\ pc'[r] = pc[r] /\ dead'[r] = dead[r] /\ cred'[r] = cred[r]
          /\ start'[r] = start[r] /\ grant'.revoked = grant.revoked
      BY <2>4, OthersUntouched
    <3>2. QED
      BY <2>2, <3>1
  <2>5. CASE Begin(r)
    BY <2>3, <2>5 DEF Begin, Goto
  <2>6. CASE ReadCredential(r)
    BY <2>2, <2>3, <2>6 DEF ReadCredential, Goto
  <2>7. CASE LockUnavailable(r)
    BY <2>2, <2>3, <2>7 DEF LockUnavailable, Goto, RefreshFails, Return, Waiting
  <2>8. CASE ModifyUses(r)
    <3>1. /\ pc[r] = "modify" /\ lock = NoPoller /\ cred' = [cred EXCEPT ![r] = file]
          /\ pc' = [pc EXCEPT ![r] = IF forced[r] THEN "refetch" ELSE "fetch"]
          /\ file.gen # cred[r].gen \/ ~forced[r]
          /\ UNCHANGED <<grant, start, dead>>
      BY <2>8 DEF ModifyUses, Goto, AfterRefresh
    <3>2. \A q \in Pollers : pc[q] # "persist"
      BY <2>3, <3>1
    <3>3. file.gen = grant.gen
      BY <2>2, <3>1, <3>2 DEF GrantInv, FileHoldsLatest, LoginBroken
    <3>4. grant.revoked <= file.gen
      BY <2>2, <2>3, <3>1, <3>3 DEF LoginBroken
    <3>5. CASE forced[r]
      <4>1. start[r] <= file.iat
        BY <3>1, <3>5 DEF ReplacedSince
      <4>2. QED
        BY <2>2, <2>3, <3>1, <3>4, <4>1
    <3>6. CASE ~forced[r]
      BY <2>2, <2>3, <3>1, <3>6
    <3>7. QED
      BY <3>5, <3>6
  <2>9. CASE ModifyGivesUp(r)
    BY <2>2, <2>9 DEF ModifyGivesUp
  <2>10. CASE ModifyRefreshes(r)
    BY <2>2, <2>3, <2>10 DEF ModifyRefreshes, Goto
  <2>11. CASE ExchangeSucceeds(r)
    BY <2>2, <2>3, <2>11 DEF ExchangeSucceeds, Goto
  <2>12. CASE ExchangeRefused(r)
    BY <2>2, <2>12, NotRefused DEF ExchangeRefused
  <2>13. CASE ExchangeFails(r)
    BY <2>2, <2>3, <2>13 DEF ExchangeFails, Goto, Release, RefreshFails, Return
  <2>14. CASE AnswerLost(r)
    BY <2>1, <2>14 DEF AnswerLost, LoginBroken
  <2>15. CASE Persist(r)
    <3>1. /\ pc[r] = "persist" /\ cred' = [cred EXCEPT ![r] = rotated[r]]
          /\ UNCHANGED <<grant, start, dead>>
      BY <2>15 DEF Persist
    <3>2. rotated[r].gen = grant.gen /\ start[r] <= rotated[r].iat
      BY <3>1 DEF GrantInv, ReplacedSince
    <3>3. grant.revoked <= grant.gen
      BY <2>2, <2>3, <3>1 DEF LoginBroken
    <3>4. QED
      BY <2>2, <2>3, <3>1, <3>2, <3>3
  <2>16. CASE PersistFails(r)
    BY <2>1, <2>16 DEF PersistFails, LoginBroken
  <2>17. CASE ChmodFails(r)
    BY <2>2, <2>3, <2>17 DEF ChmodFails, Goto, Release, RefreshFails, Return
  <2>18. CASE FetchSucceeds(r) \/ FetchFails(r) \/ Crash(r)
    BY <2>3, <2>18 DEF FetchSucceeds, FetchFails, Crash, Goto, Return
  <2>19. CASE FetchUnauthorized(r)
    BY <2>2, <2>3, <2>19 DEF FetchUnauthorized, Goto, Return, Requests
  <2>20. CASE PiRefreshes \/ Login \/ Tick
    BY <2>2, <2>3, <2>20 DEF PiRefreshes, Login, Tick, pollVars
  <2>21. CASE Revoke
    <3>1. grant'.gen < grant'.revoked
      BY <2>3, <2>21 DEF Revoke
    <3>2. QED
      BY <2>1, <3>1 DEF LoginBroken
  <2>22. QED
    BY <1>1, <2>4, <2>5, <2>6, <2>7, <2>8, <2>9, <2>10, <2>11, <2>12, <2>13, <2>14, <2>15,
       <2>16, <2>17, <2>18, <2>19, <2>20, <2>21 DEF Next, Step, Poll, Refresh
<1>2. QED
  BY <1>0, <1>1

\* A poll that ends with auth_expired has met a broken login
LEMMA OnlyBrokenExpires ==
  ASSUME Lifetime > 1, TypeOK, GrantInv, ShortPoll, WholeWhileUnbroken, [Next]_vars,
         NEW r \in Pollers, pc[r] # "idle", pc'[r] = "idle", outcome'[r] = "auth_expired"
  PROVE  broken[r]
<1> SUFFICES ASSUME ~broken[r] PROVE FALSE
  OBVIOUS
<1>1. /\ ~LoginBroken
      /\ dead[r] = {}
      /\ pc[r] = "refetch" => grant.revoked <= cred[r].gen /\ start[r] <= cred[r].iat
  BY DEF WholeWhileUnbroken
<1>2. /\ pc \in [Pollers -> PcValues] /\ outcome \in [Pollers -> Outcomes]
      /\ now \in Nat /\ cred[r] \in Credentials /\ start[r] \in Nat
      /\ cred[r].iat \in Nat
  BY PiRefreshAssumption DEF TypeOK, Credentials, Times
<1>3. PICK p \in Pollers : Begin(p) \/ Poll(p) \/ Crash(p)
  BY <1>2 DEF Next, Step, PiRefreshes, Login, Revoke, Tick, vars, pollVars
<1>4. p = r
  BY <1>3, OthersUntouched
<1>5. ~Begin(r)
  BY DEF Begin
<1>6. pc[r] = "modify" => ~ModifyGivesUp(r)
  BY <1>1 DEF ModifyGivesUp
<1>7. ~ExchangeRefused(r)
  BY <1>1, NotRefused DEF ExchangeRefused
<1>8. CASE FetchUnauthorized(r)
  <2>1. pc[r] = "refetch" /\ ~Accepts(cred[r])
    BY <1>2, <1>8 DEF FetchUnauthorized, Goto, Requests
  <2>2. now < cred[r].iat + Lifetime
    BY <1>1, <1>2, <2>1, PiRefreshAssumption DEF ShortPoll
  <2>3. grant.revoked <= cred[r].gen
    BY <1>1, <2>1
  <2>4. QED
    BY <2>1, <2>2, <2>3 DEF Accepts
<1>9. CASE FetchSucceeds(r) \/ FetchFails(r) \/ Crash(r)
  BY <1>2, <1>9 DEF FetchSucceeds, FetchFails, Crash, Return
<1>10. CASE LockUnavailable(r) \/ ExchangeFails(r) \/ AnswerLost(r) \/ PersistFails(r)
             \/ ChmodFails(r)
  BY <1>2, <1>10 DEF LockUnavailable, ExchangeFails, AnswerLost, PersistFails, ChmodFails,
     RefreshFails, Goto, Return
<1>11. CASE ReadCredential(r) \/ ModifyUses(r) \/ ModifyRefreshes(r) \/ ExchangeSucceeds(r)
             \/ Persist(r)
  BY <1>2, <1>11 DEF ReadCredential, ModifyUses, ModifyRefreshes, ExchangeSucceeds, Persist,
     Goto, AfterRefresh
<1>12. ~ModifyGivesUp(r)
  BY <1>6 DEF ModifyGivesUp
<1>13. QED
  BY <1>3, <1>4, <1>5, <1>7, <1>8, <1>9, <1>10, <1>11, <1>12 DEF Poll, Refresh

\* Neither a race with the other process or Pi nor a failed early refresh looks
\* like a dead login, for any number of processes, generations and faults: Fetch
\* reports auth_expired only if the login was broken during the poll.  Access
\* tokens have to live longer than a tick, which is longer than a poll
THEOREM AuthExpiredIsTrueHolds ==
  ASSUME Lifetime > 1
  PROVE  Spec => AuthExpiredIsTrue
<1>1. Init => ShortPoll /\ ReplacedSince /\ WholeWhileUnbroken
  <2> SUFFICES ASSUME Init PROVE ShortPoll /\ ReplacedSince /\ WholeWhileUnbroken
    OBVIOUS
  <2>1. now = 0 /\ \A p \in Pollers : pc[p] = "idle" /\ start[p] = 0
    BY DEF Init
  <2>2. QED
    BY <2>1 DEF ShortPoll, ReplacedSince, WholeWhileUnbroken
<1>2. TypeOK /\ GrantInv /\ ShortPoll /\ WholeWhileUnbroken /\ [Next]_vars
        => [\A p \in Pollers :
              pc[p] # "idle" /\ pc'[p] = "idle" /\ outcome'[p] = "auth_expired"
                => broken[p]]_vars
  BY OnlyBrokenExpires
<1>3. QED
  BY <1>1, <1>2, GrantInvInitially, GrantInvKept, TypeCorrect, ShortPollKept,
     ReplacedSinceKept, WholeWhileUnbrokenKept, PTL DEF Spec, AuthExpiredIsTrue
=============================================================================
