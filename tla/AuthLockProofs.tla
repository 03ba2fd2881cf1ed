--------------------------- MODULE AuthLockProofs ---------------------------
(***************************************************************************)
(* What holds of the auth-file lock for any number of processes, stalls    *)
(* and crashes, and what holds as long as no lock gets stale.              *)
(***************************************************************************)
EXTENDS AuthLock, TLAPS

USE DEF Goto, Return, Owned, fileVars, bounds, Holding, Critical, Seeking

\* The state is always well formed, and a process has a directory open
\* exactly while it holds, is taking or is judging a lock: none leaks.
THEOREM TypeCorrect == Spec => []TypeOK
<1>1. Init => TypeOK
  <2> SUFFICES ASSUME Init PROVE TypeOK
    OBVIOUS
  <2>1. stale \in BOOLEAN /\ raced \in BOOLEAN
    BY Zenon DEF Init
  <2>2. /\ file \in 0..MaxWrites /\ crashes \in 0..MaxCrashes /\ staleCount \in 0..MaxStale
        /\ view \in [Procs -> (0..MaxWrites) \cup {NoView}]
    BY AuthLockAssumption DEF Init
  <2>3. /\ pc \in [Procs -> Holding \cup Seeking \cup {"idle"}]
        /\ fd \in [Procs -> Dirs \cup {NoDir}] /\ lockDir \in Dirs \cup {NoDir}
        /\ \A p \in Procs : fd[p] # NoDir <=> pc[p] \in Holding \cup {"check", "remove"}
    BY DEF Init
  <2>4. QED
    BY <2>1, <2>2, <2>3 DEF TypeOK
<1>2. TypeOK /\ [Next]_vars => TypeOK'
  <2> SUFFICES ASSUME TypeOK, [Next]_vars PROVE TypeOK'
    OBVIOUS
  <2> USE AuthLockAssumption DEF TypeOK
  <2>1. ASSUME NEW p \in Procs, Step(p) PROVE TypeOK'
    <3>1. CASE MkdirSucceeds(p)
      BY <3>1 DEF MkdirSucceeds
    <3>2. CASE MkdirExists(p)
      BY <3>2 DEF MkdirExists
    <3>3. CASE OpenMade(p)
      BY <3>3 DEF OpenMade
    <3>4. CASE FirstHeartbeat(p)
      BY <3>4 DEF FirstHeartbeat
    <3>5. CASE Inspect(p)
      BY <3>5 DEF Inspect
    <3>6. CASE CheckStale(p)
      BY <3>6 DEF CheckStale
    <3>7. CASE RemoveStale(p)
      BY <3>7 DEF RemoveStale, RemovePath
    <3>8. CASE Retry(p)
      BY <3>8 DEF Retry
    <3>9. CASE AcquireTimeout(p)
      BY <3>9 DEF AcquireTimeout
    <3>10. CASE ReadFile(p)
      BY <3>10 DEF ReadFile
    <3>11. CASE WorkDone(p)
      BY <3>11 DEF WorkDone
    <3>12. CASE NothingToWrite(p)
      BY <3>12 DEF NothingToWrite
    <3>13. CASE VerifyBeforeRename(p)
      BY <3>13 DEF VerifyBeforeRename
    <3>14. CASE Rename(p)
      BY <3>14 DEF Rename
    <3>15. CASE Leave(p)
      BY <3>15 DEF Leave
    <3>16. CASE Release(p)
      BY <3>16 DEF Release, RemovePath
    <3>17. QED
      BY <2>1, <3>1, <3>2, <3>3, <3>4, <3>5, <3>6, <3>7, <3>8, <3>9, <3>10, <3>11,
         <3>12, <3>13, <3>14, <3>15, <3>16 DEF Step
  <2>2. ASSUME NEW p \in Procs, Begin(p) \/ Heartbeat(p) \/ Crash(p) PROVE TypeOK'
    <3>1. CASE Begin(p)
      BY <3>1 DEF Begin
    <3>2. CASE Crash(p)
      BY <3>2 DEF Crash
    <3>3. CASE Heartbeat(p)
      <4>1. stale' \in BOOLEAN
        BY <3>3, Zenon DEF Heartbeat
      <4>2. QED
        BY <3>3, <4>1 DEF Heartbeat
    <3>4. QED
      BY <2>2, <3>1, <3>2, <3>3
  <2>3. CASE GoStale
    <3>1. stale' \in BOOLEAN
      BY <2>3, Zenon DEF GoStale
    <3>2. QED
      BY <2>3, <3>1 DEF GoStale
  <2>4. CASE UNCHANGED vars
    BY <2>4 DEF vars
  <2>5. QED
    BY <2>1, <2>2, <2>3, <2>4 DEF Next
<1>3. QED
  BY <1>1, <1>2, PTL DEF Spec

-----------------------------------------------------------------------------
(* The owner of the lock, as long as no directory was removed in a Window.  *)

OneOwner ==
  \A p, q \in Procs : pc[p] \in Holding /\ Owned(p) /\ pc[q] \in Holding /\ Owned(q) => p = q

WindowOwned == \A p \in Procs : pc[p] \in Window => Owned(p)

OwnerIsCurrent ==
  \A p \in Procs : pc[p] \in {"work", "verify", "rename"} /\ Owned(p) => view[p] = file

OwnerInv == OneOwner /\ WindowOwned /\ OwnerIsCurrent

LEMMA OwnerInvStep == TypeOK /\ (raced \/ OwnerInv) /\ [Next]_vars => (raced \/ OwnerInv)'
<1> SUFFICES ASSUME TypeOK, OwnerInv, ~raced, ~raced', [Next]_vars PROVE OwnerInv'
  <2>1. ASSUME raced, [Next]_vars PROVE raced'
    BY <2>1, Zenon DEF Next, Step, vars, Begin, MkdirSucceeds, MkdirExists, OpenMade, FirstHeartbeat,
       Inspect, CheckStale, RemovePath, RemoveStale, Retry, AcquireTimeout, ReadFile, WorkDone,
       NothingToWrite, VerifyBeforeRename, Rename, Heartbeat, Leave, Release, Crash, GoStale
  <2>2. QED
    BY <2>1
<1> USE DEF TypeOK, OwnerInv, OneOwner, WindowOwned, OwnerIsCurrent, Window
<1>1. ASSUME NEW p \in Procs, RemovePath(p), pc'[p] \notin Window,
             \A q \in Procs \ {p} : pc'[q] = pc[q] /\ fd'[q] = fd[q]
      PROVE  OwnerInv'
  <2>1. lockDir' = NoDir
    BY <1>1 DEF RemovePath
  <2>2. \A q \in Procs \ {p} : pc[q] \in Window => ~Owned(q)
    BY <1>1 DEF RemovePath
  <2>3. \A q \in Procs : ~Owned(q)'
    BY <2>1
  <2>4. \A q \in Procs \ {p} : pc[q] \notin Window
    BY <2>2
  <2>5. \A q \in Procs : pc'[q] \notin Window
    BY <1>1, <2>4
  <2>6. QED
    BY <2>3, <2>5
<1>2. ASSUME NEW p \in Procs, MkdirSucceeds(p) PROVE OwnerInv'
  <2>1. \A q \in Procs \ {p} : ~Owned(q)' /\ pc'[q] = pc[q] /\ pc[q] \notin Window
    BY <1>2 DEF MkdirSucceeds
  <2>2. pc'[p] = "open" /\ Owned(p)'
    BY <1>2 DEF MkdirSucceeds
  <2>3. QED
    BY <2>1, <2>2
<1>3. ASSUME NEW p \in Procs, MkdirExists(p) PROVE OwnerInv'
  BY <1>3 DEF MkdirExists
<1>4. ASSUME NEW p \in Procs, OpenMade(p) PROVE OwnerInv'
  BY <1>4 DEF OpenMade
<1>5. ASSUME NEW p \in Procs, FirstHeartbeat(p) PROVE OwnerInv'
  BY <1>5 DEF FirstHeartbeat
<1>6. ASSUME NEW p \in Procs, Inspect(p) PROVE OwnerInv'
  BY <1>6 DEF Inspect
<1>7. ASSUME NEW p \in Procs, CheckStale(p) PROVE OwnerInv'
  BY <1>7 DEF CheckStale
<1>8. ASSUME NEW p \in Procs, RemoveStale(p) PROVE OwnerInv'
  BY <1>1, <1>8 DEF RemoveStale
<1>9. ASSUME NEW p \in Procs, Retry(p) \/ AcquireTimeout(p) \/ Begin(p) PROVE OwnerInv'
  BY <1>9 DEF Retry, AcquireTimeout, Begin
<1>10. ASSUME NEW p \in Procs, ReadFile(p) PROVE OwnerInv'
  BY <1>10 DEF ReadFile
<1>11. ASSUME NEW p \in Procs, WorkDone(p) \/ NothingToWrite(p) PROVE OwnerInv'
  BY <1>11 DEF WorkDone, NothingToWrite
<1>12. ASSUME NEW p \in Procs, VerifyBeforeRename(p) PROVE OwnerInv'
  BY <1>12 DEF VerifyBeforeRename
<1>13. ASSUME NEW p \in Procs, Rename(p) PROVE OwnerInv'
  <2>1. Owned(p) /\ pc[p] \in Holding
    BY <1>13 DEF Rename
  <2>2. \A q \in Procs \ {p} : ~(pc[q] \in Holding /\ Owned(q)) /\ pc'[q] = pc[q]
    BY <1>13, <2>1 DEF Rename
  <2>3. pc'[p] = "leave" /\ UNCHANGED <<lockDir, fd>>
    BY <1>13 DEF Rename
  <2>4. QED
    BY <2>1, <2>2, <2>3
<1>14. ASSUME NEW p \in Procs, Leave(p) PROVE OwnerInv'
  BY <1>14 DEF Leave
<1>15. ASSUME NEW p \in Procs, Release(p) PROVE OwnerInv'
  BY <1>1, <1>15 DEF Release
<1>16. ASSUME NEW p \in Procs, Heartbeat(p) \/ Crash(p) PROVE OwnerInv'
  BY <1>16 DEF Heartbeat, Crash
<1>17. CASE GoStale \/ UNCHANGED vars
  BY <1>17 DEF GoStale, vars
<1>18. QED
  BY <1>2, <1>3, <1>4, <1>5, <1>6, <1>7, <1>8, <1>9, <1>10, <1>11, <1>12, <1>13, <1>14,
     <1>15, <1>16, <1>17 DEF Next, Step

LEMMA OwnerInvHolds == Spec => [](raced \/ OwnerInv)
<1>1. Init => OwnerInv
  BY DEF Init, OwnerInv, OneOwner, WindowOwned, OwnerIsCurrent, Window
<1>2. Init => raced \/ OwnerInv
  BY <1>1
<1>3. QED
  BY <1>2, TypeCorrect, OwnerInvStep, PTL DEF Spec

\* Nobody replaces the file but the owner of the lock, who has read the version
\* he replaces: a step of the lock is a step of CredentialFile.
LEMMA StepIsSerialized ==
  TypeOK /\ OwnerInv /\ [Next]_vars => [File!Next]_<<file, view>>
<1> SUFFICES ASSUME TypeOK, OwnerInv, [Next]_vars
             PROVE  File!Next \/ UNCHANGED <<file, view>>
  OBVIOUS
<1> USE DEF File!Next, File!Look, File!Replace, File!Drop
<1>1. ASSUME NEW p \in Procs, Rename(p) PROVE File!Next
  <2>1. pc[p] = "rename" /\ Owned(p)
    BY <1>1 DEF Rename, OwnerInv, WindowOwned, Window
  <2>2. view[p] = file
    BY <2>1 DEF OwnerInv, OwnerIsCurrent
  <2>3. QED
    BY <1>1, <2>2 DEF Rename
<1>2. ASSUME NEW p \in Procs, ReadFile(p) PROVE File!Next
  BY <1>2 DEF ReadFile
<1>3. ASSUME NEW p \in Procs, AcquireTimeout(p) \/ Release(p) \/ Crash(p) PROVE File!Next
  BY <1>3 DEF AcquireTimeout, Release, Crash
<1>4. ASSUME NEW p \in Procs, FirstHeartbeat(p) \/ Leave(p)
      PROVE  File!Next \/ UNCHANGED <<file, view>>
  BY <1>4 DEF FirstHeartbeat, Leave
<1>5. ASSUME NEW p \in Procs,
             \/ MkdirSucceeds(p) \/ MkdirExists(p) \/ OpenMade(p) \/ Inspect(p) \/ CheckStale(p)
             \/ RemoveStale(p) \/ Retry(p) \/ WorkDone(p) \/ NothingToWrite(p)
             \/ VerifyBeforeRename(p) \/ Begin(p) \/ Heartbeat(p)
      PROVE  UNCHANGED <<file, view>>
  BY <1>5 DEF MkdirSucceeds, MkdirExists, OpenMade, Inspect, CheckStale, RemoveStale, Retry,
     WorkDone, NothingToWrite, VerifyBeforeRename, Begin, Heartbeat
<1>6. CASE GoStale \/ UNCHANGED vars
  BY <1>6 DEF GoStale, vars
<1>7. QED
  BY <1>1, <1>2, <1>3, <1>4, <1>5, <1>6 DEF Next, Step

\* However many owners die or are suspended: no update is lost unless a
\* directory has been removed between a check of it and the call it was for.
THEOREM SerializedUnlessRacedHolds == Spec => SerializedUnlessRaced
<1>1. TypeOK /\ (raced \/ OwnerInv) /\ [Next]_vars => [raced \/ File!Next]_<<file, view>>
  BY StepIsSerialized
<1>2. QED
  BY <1>1, TypeCorrect, OwnerInvHolds, PTL DEF Spec, SerializedUnlessRaced

\* The lock directory is removed by its owner or as a stale one, with the same
\* exception.
THEOREM RemovedByOwnerOrAsStaleHolds == Spec => RemovedByOwnerOrAsStale
<1> DEFINE Allowed == raced \/ \E p \in Procs :
             pc'[p] # pc[p] /\ pc[p] \in {"unlink", "remove"} /\ Owned(p)
<1>1. ASSUME TypeOK, OwnerInv, [Next]_vars, lockDir # NoDir, lockDir' = NoDir
      PROVE  Allowed
  <2>1. PICK p \in Procs : RemoveStale(p) \/ Release(p)
    BY <1>1, AuthLockAssumption DEF Next, Step, vars, Begin, MkdirSucceeds, MkdirExists, OpenMade,
       FirstHeartbeat, Inspect, CheckStale, Retry, AcquireTimeout, ReadFile, WorkDone,
       NothingToWrite, VerifyBeforeRename, Rename, Heartbeat, Leave, Crash, GoStale
  <2>2. pc[p] \in {"unlink", "remove"} /\ pc'[p] # pc[p]
    BY <1>1, <2>1 DEF RemoveStale, Release, TypeOK
  <2>3. Owned(p)
    BY <1>1, <2>2 DEF OwnerInv, WindowOwned, Window
  <2>4. QED
    BY <2>2, <2>3
<1>2. TypeOK /\ (raced \/ OwnerInv) /\ [Next]_vars
        => [lockDir # NoDir /\ lockDir' = NoDir => Allowed]_vars
  BY <1>1
<1>3. QED
  BY <1>2, TypeCorrect, OwnerInvHolds, PTL DEF Spec, RemovedByOwnerOrAsStale

-----------------------------------------------------------------------------
(* As long as no lock gets stale, the lock is a mutual exclusion lock.      *)

\* Then nobody removes a directory but its owner, and the owner stays one
NeverLost ==
  /\ ~raced /\ ~stale
  /\ \A p \in Procs : pc[p] \notin {"check", "remove"}
  /\ \A p \in Procs : pc[p] \in Holding => Owned(p)

NeverLostWhileFresh == staleCount = 0 => NeverLost

LEMMA NeverLostStep ==
  TypeOK /\ NeverLostWhileFresh /\ (raced \/ OwnerInv) /\ [Next]_vars => NeverLostWhileFresh'
<1> SUFFICES ASSUME TypeOK, NeverLostWhileFresh, raced \/ OwnerInv, [Next]_vars, staleCount' = 0
             PROVE  NeverLost'
  BY DEF NeverLostWhileFresh
<1>1. staleCount = 0 /\ ~GoStale
  <2>1. ~GoStale
    BY DEF GoStale, TypeOK
  <2>2. staleCount' = staleCount
    BY <2>1, Zenon DEF Next, Step, vars, Begin, MkdirSucceeds, MkdirExists, OpenMade,
       FirstHeartbeat, Inspect, CheckStale, RemoveStale, Retry, AcquireTimeout, ReadFile,
       WorkDone, NothingToWrite, VerifyBeforeRename, Rename, Heartbeat, Leave, Release, Crash
  <2>3. QED
    BY <2>1, <2>2
<1>2. NeverLost /\ OwnerInv
  BY <1>1 DEF NeverLostWhileFresh, NeverLost
<1> USE <1>2 DEF TypeOK, NeverLost
<1>3. ASSUME NEW p \in Procs, Release(p) PROVE NeverLost'
  <2>1. Owned(p) /\ pc[p] \in Holding
    BY <1>3 DEF Release
  <2>2. \A q \in Procs \ {p} : pc[q] \notin Holding
    BY <2>1 DEF OwnerInv, OneOwner
  <2>3. ~raced'
    BY <1>3, <2>2 DEF Release, RemovePath, Window
  <2>4. ~stale' /\ pc' = [pc EXCEPT ![p] = "idle"]
    BY <1>3 DEF Release, RemovePath
  <2>5. QED
    BY <2>2, <2>3, <2>4
<1>4. ASSUME NEW p \in Procs, MkdirSucceeds(p) PROVE NeverLost'
  BY <1>4 DEF MkdirSucceeds
<1>5. ASSUME NEW p \in Procs, MkdirExists(p) \/ OpenMade(p) \/ Inspect(p) PROVE NeverLost'
  BY <1>5 DEF MkdirExists, OpenMade, Inspect
<1>6. ASSUME NEW p \in Procs, FirstHeartbeat(p) \/ Leave(p) \/ Heartbeat(p) PROVE NeverLost'
  BY <1>6 DEF FirstHeartbeat, Leave, Heartbeat
<1>7. ASSUME NEW p \in Procs,
             \/ Retry(p) \/ AcquireTimeout(p) \/ Begin(p) \/ Crash(p) \/ ReadFile(p) \/ WorkDone(p)
             \/ NothingToWrite(p) \/ VerifyBeforeRename(p) \/ Rename(p)
      PROVE  NeverLost'
  BY <1>7 DEF Retry, AcquireTimeout, Begin, Crash, ReadFile, WorkDone, NothingToWrite,
     VerifyBeforeRename, Rename
<1>8. ASSUME NEW p \in Procs PROVE ~CheckStale(p) /\ ~RemoveStale(p)
  BY DEF CheckStale, RemoveStale
<1>9. CASE UNCHANGED vars
  BY <1>9 DEF vars
<1>10. QED
  BY <1>1, <1>3, <1>4, <1>5, <1>6, <1>7, <1>8, <1>9 DEF Next, Step

LEMMA NeverLostHolds == Spec => []NeverLostWhileFresh
<1>1. Init => NeverLostWhileFresh
  BY DEF Init, NeverLostWhileFresh, NeverLost
<1>2. QED
  BY <1>1, NeverLostStep, TypeCorrect, OwnerInvHolds, PTL DEF Spec

\* While no lock gets 30 seconds old, one process at a time is in the callback.
THEOREM MutualExclusionHolds == Spec => []MutualExclusionWhileFresh
<1>1. NeverLostWhileFresh /\ (raced \/ OwnerInv) => MutualExclusionWhileFresh
  BY DEF NeverLostWhileFresh, NeverLost, OwnerInv, OneOwner, MutualExclusionWhileFresh
<1>2. QED
  BY <1>1, NeverLostHolds, OwnerInvHolds, PTL

\* Where no lock gets stale at all, the store implements CredentialFile.
THEOREM SerializedUpdatesHold ==
  ASSUME MaxStale = 0
  PROVE  Spec => SerializedUpdates
<1>1. Init => File!Init
  BY DEF Init, File!Init
<1>2. TypeOK /\ NeverLostWhileFresh => ~raced
  BY DEF TypeOK, NeverLostWhileFresh, NeverLost
<1>3. TypeOK /\ OwnerInv /\ [Next]_vars => [File!Next]_<<file, view>>
  BY StepIsSerialized
<1>4. QED
  BY <1>1, <1>2, <1>3, TypeCorrect, OwnerInvHolds, NeverLostHolds, PTL
     DEF Spec, SerializedUpdates, File!Spec
=============================================================================
