--------------------------- MODULE CredentialFile ---------------------------
(***************************************************************************)
(* What piauth.Store promises of the shared auth.json: a process replaces  *)
(* the file only by a version it derived from the one it replaces, so that *)
(* no update, in particular no rotated refresh token, is lost.             *)
(***************************************************************************)
EXTENDS Naturals

CONSTANTS Procs, NoView

VARIABLES
  file,   \* version of auth.json, one more for every replacement
  view    \* view[p]: the version p has read in its transaction, or NoView

Init ==
  /\ file = 0
  /\ view = [p \in Procs |-> NoView]

Look(p) ==
  /\ view' = [view EXCEPT ![p] = file]
  /\ UNCHANGED file

Replace(p) ==
  /\ view[p] = file
  /\ file' = file + 1
  /\ view' = [view EXCEPT ![p] = NoView]

Drop(p) ==
  /\ view' = [view EXCEPT ![p] = NoView]
  /\ UNCHANGED file

Next == \E p \in Procs : Look(p) \/ Replace(p) \/ Drop(p)

Spec == Init /\ [][Next]_<<file, view>>
=============================================================================
