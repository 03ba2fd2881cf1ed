------------------------------ MODULE AuthLock ------------------------------
(***************************************************************************)
(* internal/piauth: processes that read and update Pi's auth.json under    *)
(* the lock directory auth.json.lock (withAuthLock, Store.Modify).  The    *)
(* lock is held by creating the directory; its owner refreshes the mtime   *)
(* every two seconds, and a directory whose mtime is older than 30 seconds *)
(* is removed by whoever wants the lock.  A directory is known by its      *)
(* inode; an open descriptor keeps the inode from being used again.        *)
(*                                                                         *)
(* A step is one system call on the path (mkdir, open, stat, rmdir,        *)
(* rename) with the calls on descriptors that follow it.  Four of those    *)
(* calls act on what an earlier call has established; history variable     *)
(* raced says that a directory was removed between the two.                *)
(***************************************************************************)
EXTENDS Naturals

CONSTANTS
  Procs,       \* processes that use the auth file
  Dirs,        \* directory inodes
  NoDir,       \* no directory
  NoView,      \* nothing read yet
  MaxWrites,   \* most versions of the auth file
  MaxCrashes,  \* most processes that die
  MaxStale,    \* most times a lock gets older than lockStaleAfter
  MaxStalls    \* how many of them with a live owner, on a suspended host

ASSUME AuthLockAssumption ==
  /\ NoDir \notin Dirs
  /\ NoView \notin Nat
  /\ MaxWrites \in Nat /\ MaxCrashes \in Nat /\ MaxStale \in Nat /\ MaxStalls \in Nat

VARIABLES
  pc,         \* where each process is in withAuthLock and Modify
  lockDir,    \* the directory at auth.json.lock, or NoDir
  stale,      \* its mtime is older than lockStaleAfter
  fd,         \* fd[p]: the directory p has open or has just made
  file,       \* version of auth.json
  view,       \* view[p]: the version p's transaction is based on
  raced,      \* history: a directory was removed inside somebody's Window
  crashes, staleCount

vars == <<pc, lockDir, stale, fd, file, view, raced, crashes, staleCount>>

Critical == {"read", "work", "verify", "rename", "leave"}
Holding == Critical \cup {"open", "acquired", "unlink"}
Seeking == {"inspect", "check", "remove", "retry", "mkdir"}

\* The next call trusts what the last one has shown: the directory just made,
\* found stale or found to be one's own is still the one at the path
Window == {"open", "remove", "rename", "unlink"}

TypeOK ==
  /\ pc \in [Procs -> Holding \cup Seeking \cup {"idle"}]
  /\ lockDir \in Dirs \cup {NoDir}
  /\ stale \in BOOLEAN
  /\ fd \in [Procs -> Dirs \cup {NoDir}]
  /\ file \in 0..MaxWrites
  /\ view \in [Procs -> (0..MaxWrites) \cup {NoView}]
  /\ raced \in BOOLEAN
  /\ \A p \in Procs : fd[p] # NoDir <=> pc[p] \in Holding \cup {"check", "remove"}
  /\ crashes \in 0..MaxCrashes
  /\ staleCount \in 0..MaxStale

Init ==
  /\ pc = [p \in Procs |-> "idle"]
  /\ lockDir = NoDir /\ stale = FALSE
  /\ fd = [p \in Procs |-> NoDir]
  /\ file = 0
  /\ view = [p \in Procs |-> NoView]
  /\ raced = FALSE /\ crashes = 0 /\ staleCount = 0

Goto(p, from, to) == pc[p] = from /\ pc' = [pc EXCEPT ![p] = to]

\* withAuthLock returns: its descriptors are closed
Return(p) ==
  /\ pc' = [pc EXCEPT ![p] = "idle"]
  /\ fd' = [fd EXCEPT ![p] = NoDir]
  /\ view' = [view EXCEPT ![p] = NoView]

\* identityFromPath(lock.path) is the identity of the directory p has open
Owned(p) == lockDir # NoDir /\ lockDir = fd[p]

fileVars == <<file, view>>
bounds == <<crashes, staleCount>>

-----------------------------------------------------------------------------
(* acquireAuthLock and removeStaleLock.                                     *)

Begin(p) ==
  /\ Goto(p, "idle", "mkdir")
  /\ UNCHANGED <<lockDir, stale, fd, fileVars, raced, bounds>>

\* Mutant of MkdirSucceeds: os.MkdirAll, to which an existing directory is no error
MkdirAllSucceeds(p) ==
  /\ Goto(p, "mkdir", "open")
  /\ IF lockDir = NoDir
     THEN \E d \in Dirs \ {fd[q] : q \in Procs} :
            lockDir' = d /\ fd' = [fd EXCEPT ![p] = d]
     ELSE fd' = [fd EXCEPT ![p] = lockDir] /\ UNCHANGED lockDir
  /\ stale' = FALSE
  /\ UNCHANGED <<fileVars, raced, bounds>>

MkdirSucceeds(p) ==
  /\ lockDir = NoDir
  /\ Goto(p, "mkdir", "open")
  /\ \E d \in Dirs \ {fd[q] : q \in Procs} :
       lockDir' = d /\ fd' = [fd EXCEPT ![p] = d]
  /\ stale' = FALSE
  /\ UNCHANGED <<fileVars, raced, bounds>>

MkdirExists(p) ==
  /\ lockDir # NoDir
  /\ Goto(p, "mkdir", "inspect")
  /\ UNCHANGED <<lockDir, stale, fd, fileVars, raced, bounds>>

\* The directory just made is opened by its path, whatever is there by now;
\* when that fails the path is removed
OpenMade(p) ==
  /\ Goto(p, "open", IF lockDir = NoDir THEN "unlink" ELSE "acquired")
  /\ fd' = [fd EXCEPT ![p] = IF lockDir = NoDir THEN @ ELSE lockDir]
  /\ UNCHANGED <<lockDir, stale, fileVars, raced, bounds>>

\* The first heartbeat decides whether the lock is held
FirstHeartbeat(p) ==
  /\ pc[p] = "acquired"
  /\ IF Owned(p)
     THEN /\ pc' = [pc EXCEPT ![p] = "read"]
          /\ stale' = FALSE
          /\ UNCHANGED <<fd, view>>
     ELSE Return(p) /\ UNCHANGED stale
  /\ UNCHANGED <<lockDir, file, raced, bounds>>

\* Mutant of Inspect: the age of the directory is not looked at
InspectNeverStale(p) ==
  /\ pc[p] = "inspect"
  /\ pc' = [pc EXCEPT ![p] = IF lockDir = NoDir THEN "mkdir" ELSE "retry"]
  /\ UNCHANGED <<lockDir, stale, fd, fileVars, raced, bounds>>

\* removeStaleLock opens the directory and looks at its age
Inspect(p) ==
  /\ pc[p] = "inspect"
  /\ pc' = [pc EXCEPT ![p] = IF lockDir = NoDir THEN "mkdir"
                             ELSE IF stale THEN "check" ELSE "retry"]
  /\ fd' = [fd EXCEPT ![p] = IF stale THEN lockDir ELSE NoDir]
  /\ UNCHANGED <<lockDir, stale, fileVars, raced, bounds>>

\* Mutant of CheckStale: the descriptor is left open
CheckStaleLeaking(p) ==
  /\ pc[p] = "check"
  /\ pc' = [pc EXCEPT ![p] = IF lockDir = NoDir THEN "mkdir"
                             ELSE IF Owned(p) /\ stale THEN "remove" ELSE "retry"]
  /\ UNCHANGED <<lockDir, stale, fd, fileVars, raced, bounds>>

\* The path still is the directory opened and its mtime has not moved
CheckStale(p) ==
  /\ pc[p] = "check"
  /\ pc' = [pc EXCEPT ![p] = IF lockDir = NoDir THEN "mkdir"
                             ELSE IF Owned(p) /\ stale THEN "remove" ELSE "retry"]
  /\ fd' = [fd EXCEPT ![p] = IF Owned(p) /\ stale THEN @ ELSE NoDir]
  /\ UNCHANGED <<lockDir, stale, fileVars, raced, bounds>>

\* os.Remove(path): whatever directory the path names by now
RemovePath(p) ==
  /\ lockDir' = NoDir /\ stale' = FALSE
  /\ raced' = (raced \/ \E q \in Procs \ {p} : pc[q] \in Window /\ Owned(q))

RemoveStale(p) ==
  /\ Goto(p, "remove", "mkdir")
  /\ RemovePath(p)
  /\ fd' = [fd EXCEPT ![p] = NoDir]
  /\ UNCHANGED <<fileVars, bounds>>

Retry(p) ==
  /\ Goto(p, "retry", "mkdir")
  /\ UNCHANGED <<lockDir, stale, fd, fileVars, raced, bounds>>

\* Mutant of AcquireTimeout: a deferred release also when the lock was not acquired
AcquireTimeoutRemoves(p) ==
  /\ pc[p] = "retry"
  /\ RemovePath(p)
  /\ Return(p)
  /\ UNCHANGED <<file, bounds>>

\* Mutant of AcquireTimeout: no timeout of its own, and the context never ends
AcquireTimeoutNever(p) ==
  /\ pc[p] = "retry" /\ crashes > MaxCrashes
  /\ Return(p)
  /\ UNCHANGED <<lockDir, stale, file, raced, bounds>>

\* lockAcquireTimeout or the caller's context is over: ErrLockUnavailable
AcquireTimeout(p) ==
  /\ pc[p] = "retry"
  /\ Return(p)
  /\ UNCHANGED <<lockDir, stale, file, raced, bounds>>

-----------------------------------------------------------------------------
(* Store.Modify under the lock; Store.Read is the case that writes nothing. *)

ReadFile(p) ==
  /\ Goto(p, "read", "work")
  /\ view' = [view EXCEPT ![p] = file]
  /\ UNCHANGED <<lockDir, stale, fd, file, raced, bounds>>

\* fn returned a new credential; the temp file is written and synced
WorkDone(p) ==
  /\ Goto(p, "work", "verify")
  /\ UNCHANGED <<lockDir, stale, fd, fileVars, raced, bounds>>

\* fn has nothing to write, or a call of Modify before the rename fails; fn
\* fails when its context is cancelled
NothingToWrite(p) ==
  /\ pc[p] \in {"read", "work", "verify", "rename"}
  /\ pc' = [pc EXCEPT ![p] = "leave"]
  /\ UNCHANGED <<lockDir, stale, fd, fileVars, raced, bounds>>

\* Mutant of VerifyBeforeRename: no second look at the lock
RenameUnverified(p) ==
  /\ Goto(p, "verify", "rename")
  /\ UNCHANGED <<lockDir, stale, fd, fileVars, raced, bounds>>

VerifyBeforeRename(p) ==
  /\ pc[p] = "verify"
  /\ pc' = [pc EXCEPT ![p] = IF Owned(p) THEN "rename" ELSE "leave"]
  /\ UNCHANGED <<lockDir, stale, fd, fileVars, raced, bounds>>

Rename(p) ==
  /\ Goto(p, "rename", "leave")
  /\ file < MaxWrites
  /\ file' = file + 1
  /\ view' = [view EXCEPT ![p] = NoView]
  /\ UNCHANGED <<lockDir, stale, fd, raced, bounds>>

\* The heartbeat goroutine; when the lock is no longer p's it cancels the
\* context of fn instead, which then ends in NothingToWrite
Heartbeat(p) ==
  /\ pc[p] \in Critical /\ Owned(p)
  /\ stale' = FALSE
  /\ UNCHANGED <<pc, lockDir, fd, fileVars, raced, bounds>>

\* Mutant of Leave: release removes the path without verifyOwned
LeaveUnverified(p) ==
  /\ Goto(p, "leave", "unlink")
  /\ UNCHANGED <<lockDir, stale, fd, fileVars, raced, bounds>>

\* The heartbeat is stopped, verifyOwned decides over the result and, called
\* again by release, over the removal of the directory
Leave(p) ==
  /\ pc[p] = "leave"
  /\ IF Owned(p)
     THEN /\ pc' = [pc EXCEPT ![p] = "unlink"]
          /\ UNCHANGED <<fd, view>>
     ELSE Return(p)
  /\ UNCHANGED <<lockDir, stale, file, raced, bounds>>

Release(p) ==
  /\ pc[p] = "unlink"
  /\ RemovePath(p)
  /\ Return(p)
  /\ UNCHANGED <<file, bounds>>

-----------------------------------------------------------------------------
(* The environment.                                                         *)

\* The process dies, or a call of acquireAuthLock fails for another reason
Crash(p) ==
  /\ pc[p] # "idle" /\ crashes < MaxCrashes
  /\ crashes' = crashes + 1
  /\ Return(p)
  /\ UNCHANGED <<lockDir, stale, file, raced, staleCount>>

\* The process that made the directory at the path, or holds it, is alive
Attended == \E p \in Procs : Owned(p) /\ pc[p] \in Holding

\* Thirty seconds without a heartbeat.  Not in the middle of removeStaleLock's
\* comparison, which would see that the mtime has moved in between
GoStale ==
  /\ lockDir # NoDir /\ ~stale /\ staleCount < MaxStale
  /\ Attended => staleCount < MaxStalls
  /\ ~\E p \in Procs : pc[p] = "check" /\ Owned(p)
  /\ stale' = TRUE /\ staleCount' = staleCount + 1
  /\ UNCHANGED <<pc, lockDir, fd, fileVars, raced, crashes>>

\* A process in withAuthLock goes on
Step(p) ==
  \/ MkdirSucceeds(p) \/ MkdirExists(p) \/ OpenMade(p) \/ FirstHeartbeat(p)
  \/ Inspect(p) \/ CheckStale(p) \/ RemoveStale(p) \/ Retry(p) \/ AcquireTimeout(p)
  \/ ReadFile(p) \/ WorkDone(p) \/ NothingToWrite(p) \/ VerifyBeforeRename(p)
  \/ Rename(p) \/ Leave(p) \/ Release(p)

Next ==
  \/ \E p \in Procs : Step(p) \/ Begin(p) \/ Heartbeat(p) \/ Crash(p)
  \/ GoStale

Spec == Init /\ [][Next]_vars

\* A process in a call is scheduled, its deadline passes and the system call
\* that would create the directory is not forever overtaken; a daemon polls
\* again and again; time passes.  Nobody has to die, refresh or write.
FairSpec ==
  /\ Spec
  /\ \A p \in Procs :
       /\ WF_vars(Step(p)) /\ WF_vars(Begin(p))
       /\ SF_vars(MkdirSucceeds(p)) /\ SF_vars(AcquireTimeout(p))
  /\ WF_vars(GoStale)

-----------------------------------------------------------------------------
(* Properties.                                                              *)

\* withAuthLock runs its callback in one process at a time as long as no lock
\* has ever been 30 seconds old, whoever dies.
MutualExclusionWhileFresh ==
  staleCount = 0 =>
    \A p, q \in Procs : pc[p] \in Critical /\ pc[q] \in Critical => p = q

\* What Modify promises: every version of auth.json is derived from the one
\* it replaces, so no rotated token is overwritten with an older one.
File == INSTANCE CredentialFile
SerializedUpdates == File!Spec

\* Even among suspended owners and dead ones: an update is lost only if a
\* directory was removed inside a Window, between the check and the call
\* that trusts it.
SerializedUnlessRaced == [][raced \/ File!Next]_<<file, view>>

\* The lock directory is removed only by its owner or by a process that has
\* found this very directory stale, again except after such a removal.
RemovedByOwnerOrAsStale ==
  [][lockDir # NoDir /\ lockDir' = NoDir =>
       raced \/ \E p \in Procs : pc'[p] # pc[p] /\ pc[p] \in {"unlink", "remove"} /\ Owned(p)]_vars

\* A lock whose owner died is removed; it does not lock the file out forever.
OrphanRemoved == lockDir # NoDir /\ ~Attended ~> lockDir = NoDir \/ Attended

\* Every Read and every Modify returns.
AttemptEnds == \A p \in Procs : pc[p] = "mkdir" ~> pc[p] = "idle"

=============================================================================
