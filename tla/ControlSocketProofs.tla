------------------------ MODULE ControlSocketProofs ------------------------
(***************************************************************************)
(* The control socket admits one daemon, for any number of daemons that    *)
(* start, stop and are killed beside each other, as long as none removes a *)
(* socket that was bound after it had looked.                              *)
(***************************************************************************)
EXTENDS ControlSocket, TLAPS

\* What TypeOK says survives every system call
LEMMA TypePreserved == TypeOK /\ [Next]_vars => TypeOK'
<1> SUFFICES ASSUME TypeOK, [Next]_vars PROVE TypeOK'
  OBVIOUS
<1> USE ControlSocketAssumption DEF TypeOK, PcValues, Goto, history, Checked
<1>1. ASSUME NEW d \in Daemons, Stat(d) PROVE TypeOK'
  BY <1>1 DEF Stat
<1>2. ASSUME NEW d \in Daemons, Dial(d) PROVE TypeOK'
  BY <1>2 DEF Dial
<1>3. ASSUME NEW d \in Daemons, RemovePath(d), Goto(d, "remove", "listen") \/ Goto(d, "unlink", "off")
      PROVE  TypeOK'
  <2>1. raced' \in BOOLEAN
    BY <1>3, Zenon DEF RemovePath
  <2>2. pc' \in [Daemons -> PcValues] /\ path' = "none" /\ crashes' = crashes /\ late' = late
    BY <1>3 DEF RemovePath
  <2>3. QED BY <2>1, <2>2
<1>4. ASSUME NEW d \in Daemons, Listen(d) PROVE TypeOK'
  BY <1>4 DEF Listen
<1>5. ASSUME NEW d \in Daemons, Chmod(d) PROVE TypeOK'
  BY <1>5 DEF Chmod
<1>6. ASSUME NEW d \in Daemons, Stop(d) PROVE TypeOK'
  BY <1>6 DEF Stop
<1>7. ASSUME NEW d \in Daemons, Close(d) PROVE TypeOK'
  BY <1>7 DEF Close
<1>8. ASSUME NEW d \in Daemons, Crash(d) PROVE TypeOK'
  BY <1>8 DEF Crash
<1>9. CASE UNCHANGED vars
  BY <1>9 DEF vars
<1>10. QED
  BY <1>1, <1>2, <1>3, <1>4, <1>5, <1>6, <1>7, <1>8, <1>9 DEF Next, Remove, Unlink

\* The socket at the path is of a daemon that listens, or of a dead one
\* (listenForPollRequests)
THEOREM TypeCorrect == Spec => []TypeOK
<1>1. Init => TypeOK
  <2> SUFFICES ASSUME Init PROVE TypeOK
    OBVIOUS
  <2>1. raced \in BOOLEAN
    BY Zenon DEF Init
  <2>2. QED BY <2>1, ControlSocketAssumption DEF Init, TypeOK, PcValues
<1>2. QED
  BY <1>1, TypePreserved, PTL DEF Spec

-----------------------------------------------------------------------------
\* A daemon that listens has the path
HasPath == \A d \in Daemons : pc[d] \in {"chmod", "polling", "close"} => path = d

\* A daemon about to remove a socket looked when no listener had the path: one
\* that is there now came later
CameLater ==
  \A d \in Daemons : pc[d] \in {"remove", "unlink"} /\ path \in Daemons => path \in late[d]

\* The two hold together: the removal of a socket that came later is a race, and
\* without one nobody but its owner takes a socket from the path
IInv == raced \/ (HasPath /\ CameLater)

LEMMA InvariantPreserved == TypeOK /\ IInv /\ [Next]_vars => IInv'
<1> SUFFICES ASSUME TypeOK, IInv, [Next]_vars, ~raced' PROVE (HasPath /\ CameLater)'
  BY DEF IInv
<1> USE ControlSocketAssumption DEF Goto, history, Checked
<1>0. /\ ~raced => HasPath /\ CameLater
      /\ pc \in [Daemons -> PcValues] /\ late \in [Daemons -> SUBSET Daemons]
      /\ path \in Daemons \cup {"none", "dead"}
      /\ {"none", "dead"} \cap Daemons = {}
  BY DEF IInv, TypeOK
<1>1. ASSUME NEW d \in Daemons, Stat(d) PROVE (HasPath /\ CameLater)'
  BY <1>0, <1>1 DEF Stat, HasPath, CameLater
<1>2. ASSUME NEW d \in Daemons, Dial(d) PROVE (HasPath /\ CameLater)'
  BY <1>0, <1>2 DEF Dial, HasPath, CameLater
<1>3. ASSUME NEW d \in Daemons, RemovePath(d), Goto(d, "remove", "listen") \/ Goto(d, "unlink", "off")
      PROVE  (HasPath /\ CameLater)'
  <2>1. ~raced /\ path \notin late[d] /\ path' = "none"
    BY <1>3 DEF RemovePath
  <2>2. path \notin Daemons
    BY <1>0, <1>3, <2>1 DEF CameLater
  <2>3. \A e \in Daemons : pc[e] \notin {"chmod", "polling", "close"}
    BY <1>0, <2>1, <2>2 DEF HasPath
  <2>4. \A e \in Daemons : pc'[e] \notin {"chmod", "polling", "close"}
    BY <1>0, <1>3, <2>3
  <2>5. QED BY <1>0, <2>1, <2>4 DEF HasPath, CameLater
<1>4. ASSUME NEW d \in Daemons, Listen(d) PROVE (HasPath /\ CameLater)'
  <2>1. CASE path = "none"
    <3>1. /\ path' = d /\ ~raced
          /\ pc' = [pc EXCEPT ![d] = "chmod"]
          /\ \A e \in Daemons : d \in late'[e]
      BY <1>4, <2>1 DEF Listen
    <3>2. \A e \in Daemons : pc[e] \notin {"chmod", "polling", "close"}
      BY <1>0, <2>1, <3>1 DEF HasPath
    <3>3. QED BY <1>0, <3>1, <3>2 DEF HasPath, CameLater
  <2>2. CASE path # "none"
    BY <1>0, <1>4, <2>2 DEF Listen, HasPath, CameLater
  <2>3. QED BY <2>1, <2>2
<1>5. ASSUME NEW d \in Daemons, Chmod(d) PROVE (HasPath /\ CameLater)'
  BY <1>0, <1>5 DEF Chmod, HasPath, CameLater
<1>6. ASSUME NEW d \in Daemons, Stop(d) PROVE (HasPath /\ CameLater)'
  BY <1>0, <1>6 DEF Stop, HasPath, CameLater
<1>7. ASSUME NEW d \in Daemons, Close(d) PROVE (HasPath /\ CameLater)'
  <2>1. /\ pc[d] = "close" /\ pc' = [pc EXCEPT ![d] = "unlink"] /\ path' = "none" /\ ~raced
    BY <1>7 DEF Close
  <2>2. path = d
    BY <1>0, <2>1 DEF HasPath
  <2>3. \A e \in Daemons \ {d} : pc[e] \notin {"chmod", "polling", "close"}
    BY <1>0, <2>1, <2>2 DEF HasPath
  <2>4. QED BY <1>0, <2>1, <2>3 DEF HasPath, CameLater
<1>8. ASSUME NEW d \in Daemons, Crash(d) PROVE (HasPath /\ CameLater)'
  BY <1>0, <1>8 DEF Crash, HasPath, CameLater
<1>9. CASE UNCHANGED vars
  BY <1>0, <1>9 DEF vars, HasPath, CameLater
<1>10. QED
  BY <1>1, <1>2, <1>3, <1>4, <1>5, <1>6, <1>7, <1>8, <1>9 DEF Next, Remove, Unlink

THEOREM Invariant == Spec => []IInv
<1>1. Init => IInv
  BY ControlSocketAssumption DEF Init, IInv, HasPath, CameLater
<1>2. QED
  BY <1>1, InvariantPreserved, TypeCorrect, PTL DEF Spec

\* A poll request reaches the daemon that polls, whatever starts, stops and is
\* killed beside it (listenForPollRequests), until a socket bound after its
\* remover had looked is removed
THEOREM Reachable == Spec => []PollingIsReachableUnlessRaced
<1>1. IInv => PollingIsReachableUnlessRaced
  BY DEF IInv, HasPath, PollingIsReachableUnlessRaced
<1>2. QED
  BY <1>1, Invariant, PTL

\* A second daemon does not get to poll ("another token-burn daemon is
\* already listening"), with the same exception
THEOREM OnlyOne == Spec => []OneDaemonPollsUnlessRaced
<1>1. IInv => OneDaemonPollsUnlessRaced
  BY DEF IInv, HasPath, OneDaemonPolls, OneDaemonPollsUnlessRaced
<1>2. QED
  BY <1>1, Invariant, PTL
=============================================================================
