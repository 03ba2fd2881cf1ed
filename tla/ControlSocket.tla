--------------------------- MODULE ControlSocket ---------------------------
(***************************************************************************)
(* The control socket of the daemon (listenForPollRequests in              *)
(* internal/daemon/daemon.go).  It takes poll requests, and it is the only *)
(* thing that keeps a second daemon from polling the same accounts into    *)
(* the same database.  A step is one system call on the socket's path.     *)
(***************************************************************************)
EXTENDS Naturals

CONSTANTS
  Daemons,     \* processes that run or start `token-burn daemon`
  MaxCrashes   \* most daemons killed

ASSUME ControlSocketAssumption ==
  /\ {"none", "dead"} \cap Daemons = {}
  /\ MaxCrashes \in Nat

VARIABLES
  pc,      \* where each daemon is in Run
  path,    \* whose socket is at the path; "dead" has no listener any more
  crashes,
  late,    \* history: the daemons that bound the path since each one checked it
  raced    \* history: such a late socket has been removed

history == <<late, raced>>
vars == <<pc, path, crashes, history>>

PcValues == {"off", "dial", "remove", "listen", "chmod", "polling", "close", "unlink"}

TypeOK ==
  /\ pc \in [Daemons -> PcValues]
  /\ path \in Daemons \cup {"none", "dead"}
  /\ crashes \in 0..MaxCrashes
  \* only a daemon with an open listener can be dialled
  /\ path \in Daemons => pc[path] \in {"chmod", "polling", "close"}
  /\ late \in [Daemons -> SUBSET Daemons]
  /\ raced \in BOOLEAN

Init ==
  /\ pc = [d \in Daemons |-> "off"]
  /\ path = "none"
  /\ crashes = 0
  /\ late = [d \in Daemons |-> {}]
  /\ raced = FALSE

Goto(d, from, to) == pc[d] = from /\ pc' = [pc EXCEPT ![d] = to]

\* d has just seen that nobody else has the path, or given up its own socket.
\* What it removes later is meant to be what it has seen.
Checked(d) ==
  /\ late' = [late EXCEPT ![d] = {}]
  /\ UNCHANGED raced

\* d removes whatever is at the path
RemovePath(d) ==
  /\ path' = "none"
  /\ raced' = (raced \/ path \in late[d])
  /\ UNCHANGED <<crashes, late>>

\* os.Stat
Stat(d) ==
  /\ Goto(d, "off", IF path = "none" THEN "listen" ELSE "dial")
  /\ UNCHANGED <<path, crashes, history>>

\* Mutants of Dial: nobody is asked; a left-over socket counts as a daemon; a
\* refused daemon cleans up as if it had listened
DialIgnored(d) ==
  /\ Goto(d, "dial", "remove")
  /\ Checked(d)
  /\ UNCHANGED <<path, crashes>>

DialRefuses(d) ==
  /\ Goto(d, "dial", "off")
  /\ Checked(d)
  /\ UNCHANGED <<path, crashes>>

DialThenCloseControl(d) ==
  /\ Goto(d, "dial", IF path \in Daemons THEN "unlink" ELSE "remove")
  /\ Checked(d)
  /\ UNCHANGED <<path, crashes>>

\* net.DialTimeout: somebody answers, or the socket is taken for a left-over
Dial(d) ==
  /\ Goto(d, "dial", IF path \in Daemons THEN "off" ELSE "remove")
  /\ Checked(d)
  /\ UNCHANGED <<path, crashes>>

\* os.Remove(path), whatever socket is there by now
Remove(d) ==
  /\ Goto(d, "remove", "listen")
  /\ RemovePath(d)

\* net.Listen: the address must not exist
Listen(d) ==
  /\ IF path = "none"
     THEN /\ Goto(d, "listen", "chmod")
          /\ path' = d
          /\ late' = [e \in Daemons |-> late[e] \cup {d}]
     ELSE /\ Goto(d, "listen", "off")
          /\ UNCHANGED <<path, late>>
  /\ UNCHANGED <<crashes, raced>>

\* os.Chmod fails when the socket has been removed; else Run begins to poll
Chmod(d) ==
  /\ Goto(d, "chmod", IF path = "none" THEN "close" ELSE "polling")
  /\ UNCHANGED <<path, crashes, history>>

\* Run returns, its context is cancelled or the database failed
Stop(d) ==
  /\ Goto(d, "polling", "close")
  /\ UNCHANGED <<path, crashes, history>>

\* listener.Close unlinks the path before it closes the listener, whoever's
\* socket is there
Close(d) ==
  /\ Goto(d, "close", "unlink")
  /\ path' = "none"
  /\ Checked(d)
  /\ UNCHANGED crashes

\* os.Remove(path) of closeControl, once more
Unlink(d) ==
  /\ Goto(d, "unlink", "off")
  /\ RemovePath(d)

\* The process is killed; its socket stays at the path
Crash(d) ==
  /\ pc[d] # "off" /\ crashes < MaxCrashes
  /\ pc' = [pc EXCEPT ![d] = "off"]
  /\ path' = (IF path = d THEN "dead" ELSE path)
  /\ crashes' = crashes + 1
  /\ UNCHANGED history

Next ==
  \E d \in Daemons :
    \/ Stat(d) \/ Dial(d) \/ Remove(d) \/ Listen(d) \/ Chmod(d)
    \/ Stop(d) \/ Close(d) \/ Unlink(d) \/ Crash(d)

Spec == Init /\ [][Next]_vars

\* A daemon is started once it is off and gets on with starting
FairSpec ==
  Spec /\ \A d \in Daemons :
            WF_vars(Stat(d) \/ Dial(d) \/ Remove(d) \/ Listen(d) \/ Chmod(d) \/ Close(d) \/ Unlink(d))

-----------------------------------------------------------------------------
(* Properties.                                                              *)

\* A second daemon is refused ("another token-burn daemon is already listening").
OneDaemonPolls ==
  \A d, e \in Daemons : pc[d] = "polling" /\ pc[e] = "polling" => d = e

\* However daemons start, stop and are killed beside each other, no two of them
\* poll, unless one removed a socket that another had bound after the first one's
\* check: between its dial and its os.Remove, or between the two removals of
\* closeControl.  Looking before removing is all that keeps the second one out.
OneDaemonPollsUnlessRaced == raced \/ OneDaemonPolls

\* With the same exception the poll requests of the TUI reach the daemon that
\* polls: nothing else takes the socket of a running daemon from the path.
PollingIsReachableUnlessRaced ==
  raced \/ \A d \in Daemons : pc[d] = "polling" => path = d

\* A socket left behind by a killed daemon is no obstacle, and neither are other
\* starters that lose: again and again there is a daemon that polls.  (Once a live
\* socket was removed, starters that never stop competing can remove each
\* other's sockets for ever.)
SomeDaemonPolls == [](~raced) => []<>(\E d \in Daemons : pc[d] = "polling")
=============================================================================
