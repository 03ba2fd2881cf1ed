------------------------------ MODULE Upgrade ------------------------------
(***************************************************************************)
(* `token-burn upgrade` (internal/upgrade, newUpgradeCommand in            *)
(* internal/cli/root.go) and the service it restarts (internal/service).   *)
(* A step is one system call on the shared paths, or one call of another   *)
(* program; downloading, verifying and extracting touch only a private     *)
(* directory and are one step.  A binary is the version it was built from. *)
(***************************************************************************)
EXTENDS Naturals

CONSTANTS
  Upgraders,    \* processes that run `token-burn upgrade`
  MaxVersion,   \* the last release
  Launchd       \* whether the service manager is launchd, not systemd: the cases

ASSUME UpgradeAssumption ==
  /\ MaxVersion \in Nat \ {0}
  /\ Launchd \subseteq BOOLEAN

VARIABLES
  latest,    \* the latest release
  dest,      \* the binary at the installed path
  backup,    \* the one at the same path with ".old"
  upgrade,   \* what each upgrade is doing
  raced,     \* two upgrades have replaced the binary at the same time
  launchd,   \* the service manager is launchd
  installed, \* the unit or plist exists
  daemon     \* the version the service runs, or None

files == <<dest, backup>>
service == <<launchd, installed, daemon>>
vars == <<latest, files, upgrade, raced, service>>

None == 0
Versions == 1..MaxVersion
Junk == MaxVersion + 1    \* a damaged download, or half a copy
Contents == Versions \cup {None, Junk}

\* From the first look at the installed path to the last change of it
Replacing == {"remove", "backup", "install", "copy", "publish", "restore", "cleanup"}

Outcomes == {"none", "failed", "current", "upgraded", "restarted", "unseen", "unrestarted"}

NoUpgrade ==
  [pc |-> "idle", to |-> None, new |-> None, staged |-> None,
   haveBackup |-> FALSE, restart |-> FALSE, before |-> None, outcome |-> "none"]

UpgradeStates ==
  [pc : {"idle", "prepare", "stat", "status", "kick"} \cup Replacing,
   to : Versions \cup {None}, new : Contents, staged : Contents,
   haveBackup : BOOLEAN, restart : BOOLEAN, before : Contents,
   outcome : Outcomes]

TypeOK ==
  /\ latest \in Versions
  /\ dest \in Contents
  /\ backup \in Contents
  /\ upgrade \in [Upgraders -> UpgradeStates]
  /\ raced \in BOOLEAN
  /\ launchd \in Launchd
  /\ installed \in BOOLEAN
  /\ daemon \in Contents

Init ==
  /\ latest = 1
  /\ dest = 1
  /\ backup = None
  /\ upgrade = [u \in Upgraders |-> NoUpgrade]
  /\ raced = FALSE
  /\ launchd \in Launchd
  /\ installed = FALSE
  /\ daemon = None

At(u, p) == upgrade[u].pc = p

Goto(u, p) == upgrade' = [upgrade EXCEPT ![u].pc = p]

\* The command ends; its temporary directory and its staging file go
End(u, o) ==
  upgrade' = [upgrade EXCEPT ![u] = [NoUpgrade EXCEPT !.outcome = o]]

-----------------------------------------------------------------------------
(***************************************************************************)
(* Run                                                                     *)
(***************************************************************************)
\* The version of the program that runs: the installed one, or the copy an
\* interrupted upgrade has left
Current == IF dest = None THEN backup ELSE dest

Begin(u, force, restart) ==
  /\ At(u, "idle")
  /\ Current # None
  /\ upgrade' = [upgrade EXCEPT ![u] =
       IF ~force /\ Current = latest
       THEN [NoUpgrade EXCEPT !.outcome = "current"]
       ELSE [NoUpgrade EXCEPT !.pc = "prepare", !.to = latest, !.restart = restart]]
  /\ UNCHANGED <<latest, files, raced, service>>

\* verifyChecksum: the digest of the archive is the one checksums.txt lists
Verified(archive, version) == archive = version

\* The archive is downloaded, verified and extracted; any of it may fail
Prepare(u) ==
  /\ At(u, "prepare")
  /\ \/ \E archive \in {upgrade[u].to, Junk} :
          IF Verified(archive, upgrade[u].to)
          THEN upgrade' = [upgrade EXCEPT ![u].pc = "stat", ![u].new = archive]
          ELSE End(u, "failed")
     \/ End(u, "failed")
  /\ UNCHANGED <<latest, files, raced, service>>

-----------------------------------------------------------------------------
(***************************************************************************)
(* replaceBinary                                                           *)
(***************************************************************************)
Stat(u) ==
  /\ At(u, "stat")
  /\ upgrade' = [upgrade EXCEPT ![u].pc = IF dest = None THEN "install" ELSE "remove",
                                ![u].before = dest]
  /\ raced' = (raced \/ \E v \in Upgraders \ {u} : upgrade[v].pc \in Replacing)
  /\ UNCHANGED <<latest, files, service>>

RemoveOldBackup(u) ==
  /\ At(u, "remove")
  /\ backup' = None
  /\ Goto(u, "backup")
  /\ UNCHANGED <<latest, dest, raced, service>>

\* The rename fails when somebody else has moved the binary since Stat
BackUp(u) ==
  /\ At(u, "backup")
  /\ IF dest # None
     THEN /\ backup' = dest
          /\ dest' = None
          /\ upgrade' = [upgrade EXCEPT ![u].pc = "install", ![u].haveBackup = TRUE]
     ELSE End(u, "failed") /\ UNCHANGED files
  /\ UNCHANGED <<latest, raced, service>>

\* installBinary, with both directories on one file system
InstallByRename(u) ==
  /\ At(u, "install")
  /\ dest' = upgrade[u].new
  /\ Goto(u, "cleanup")
  /\ UNCHANGED <<latest, backup, raced, service>>

\* The rename crosses file systems: a staging file next to the binary
Stage(u) ==
  /\ At(u, "install")
  /\ upgrade' = [upgrade EXCEPT ![u].pc = "copy", ![u].staged = Junk]
  /\ UNCHANGED <<latest, files, raced, service>>

\* Mutant of Copy: the copy is moved into place as soon as it is opened
CopyUnfinished(u) ==
  /\ At(u, "copy")
  /\ upgrade' = [upgrade EXCEPT ![u].pc = "publish"]
  /\ UNCHANGED <<latest, files, raced, service>>

Copy(u) ==
  /\ At(u, "copy")
  /\ upgrade' = [upgrade EXCEPT ![u].pc = "publish", ![u].staged = upgrade[u].new]
  /\ UNCHANGED <<latest, files, raced, service>>

PublishStaged(u) ==
  /\ At(u, "publish")
  /\ dest' = upgrade[u].staged
  /\ upgrade' = [upgrade EXCEPT ![u].pc = "cleanup", ![u].staged = None]
  /\ UNCHANGED <<latest, backup, raced, service>>

InstallFails(u) ==
  /\ upgrade[u].pc \in {"install", "copy", "publish"}
  /\ upgrade' = [upgrade EXCEPT ![u].pc = "restore", ![u].staged = None]
  /\ UNCHANGED <<latest, files, raced, service>>

\* Mutant of Restore: a failed installation is not undone
RestoreForgotten(u) ==
  /\ At(u, "restore")
  /\ End(u, "failed")
  /\ UNCHANGED <<latest, files, raced, service>>

\* The error of the rename back is ignored
Restore(u) ==
  /\ At(u, "restore")
  /\ IF upgrade[u].haveBackup /\ backup # None
     THEN dest' = backup /\ backup' = None
     ELSE UNCHANGED files
  /\ End(u, "failed")
  /\ UNCHANGED <<latest, raced, service>>

CleanUp(u) ==
  /\ At(u, "cleanup")
  /\ backup' = IF upgrade[u].haveBackup THEN None ELSE backup
  /\ IF upgrade[u].restart THEN Goto(u, "status") ELSE End(u, "upgraded")
  /\ UNCHANGED <<latest, dest, raced, service>>

-----------------------------------------------------------------------------
(***************************************************************************)
(* The service.  launchctl knows a job that is not running; systemctl      *)
(* calls a unit active only while it runs.                                 *)
(***************************************************************************)
Loaded == IF launchd THEN installed ELSE daemon # None

\* A query that fails, for whatever reason, counts as a service not loaded
ServiceStatus(u) ==
  /\ At(u, "status")
  /\ \/ IF Loaded THEN Goto(u, "kick") ELSE End(u, "upgraded")
     \/ End(u, "unseen")
  /\ UNCHANGED <<latest, files, raced, service>>

\* Mutant of Restart: the service is started, not restarted
RestartIfDown(u) ==
  /\ At(u, "kick")
  /\ daemon' = IF daemon = None THEN dest ELSE daemon
  /\ End(u, "restarted")
  /\ UNCHANGED <<latest, files, raced, launchd, installed>>

\* kickstart -k, or systemctl restart
Restart(u) ==
  /\ At(u, "kick")
  /\ \/ /\ installed
        /\ daemon' = dest
        /\ End(u, IF dest = None THEN "unrestarted" ELSE "restarted")
     \/ /\ End(u, "unrestarted")
        /\ UNCHANGED daemon
  /\ UNCHANGED <<latest, files, raced, launchd, installed>>

\* `token-burn install`: launchd gets the job anew, systemd starts a unit
\* that is not active
Install ==
  /\ dest # None
  /\ installed' = TRUE
  /\ daemon' = IF launchd \/ daemon = None THEN dest ELSE daemon
  /\ UNCHANGED <<latest, files, upgrade, raced, launchd>>

\* `token-burn uninstall`
Uninstall ==
  /\ installed
  /\ installed' = FALSE
  /\ daemon' = None
  /\ UNCHANGED <<latest, files, upgrade, raced, launchd>>

\* The service manager starts the daemon again (KeepAlive, Restart=on-failure)
ManagerStarts ==
  /\ installed
  /\ daemon = None
  /\ dest # None
  /\ daemon' = dest
  /\ UNCHANGED <<latest, files, upgrade, raced, launchd, installed>>

DaemonDies ==
  /\ daemon # None
  /\ daemon' = None
  /\ UNCHANGED <<latest, files, upgrade, raced, launchd, installed>>

-----------------------------------------------------------------------------
Release ==
  /\ latest < MaxVersion
  /\ latest' = latest + 1
  /\ UNCHANGED <<files, upgrade, raced, service>>

\* The upgrade is killed; what it has done to the paths stays
Crash(u) ==
  /\ ~At(u, "idle")
  /\ End(u, "none")
  /\ UNCHANGED <<latest, files, raced, service>>

Step(u) ==
  \/ \E force, restart \in BOOLEAN : Begin(u, force, restart)
  \/ Prepare(u)
  \/ Stat(u)
  \/ RemoveOldBackup(u)
  \/ BackUp(u)
  \/ InstallByRename(u)
  \/ Stage(u)
  \/ Copy(u)
  \/ PublishStaged(u)
  \/ InstallFails(u)
  \/ Restore(u)
  \/ CleanUp(u)
  \/ ServiceStatus(u)
  \/ Restart(u)
  \/ Crash(u)

Next ==
  \/ \E u \in Upgraders : Step(u)
  \/ Install
  \/ Uninstall
  \/ ManagerStarts
  \/ DaemonDies
  \/ Release

Spec == Init /\ [][Next]_vars

-----------------------------------------------------------------------------
(***************************************************************************)
(* Properties                                                              *)
(***************************************************************************)
\* What is at the installed path is a whole, verified release, and while
\* nothing is there the previous one is next to it: an upgrade can be killed
\* anywhere, or fail, and be run again.  Two upgrades at the same time remove
\* each other's copies (replaceBinary takes no lock).
BinaryRecoverable ==
  /\ dest # Junk
  /\ ~raced /\ dest = None => backup \in Versions

\* An upgrade that reports an error leaves the binary it found
\* (replaceBinary moves it back)
FailedUpgradeKeepsBinary ==
  [][\A u \in Upgraders :
       upgrade'[u].outcome = "failed" /\ upgrade[u].pc \in Replacing /\ ~raced'
         => dest' = upgrade[u].before]_vars

\* When an upgrade reports success, the service does not run the binary that
\* was replaced, unless --no-restart was given, or the restart failed and the
\* command says so, or the service manager could not be asked
UpgradedServiceRunsNew ==
  [][\A u \in Upgraders :
       (/\ upgrade'[u].outcome \in {"upgraded", "restarted"}
        /\ upgrade[u].pc \in {"status", "kick"}
        /\ ~raced') => daemon' \in {None, dest'}]_vars

=============================================================================
