---------------------------- MODULE SharedLogin ----------------------------
(***************************************************************************)
(* What a login kept in one file promises the programs that share it: the  *)
(* refresh token the server accepts next is the one in the file.  A token  *)
(* is exchanged and its successor stored in one step, however many         *)
(* programs do so; a rotation whose answer never reaches the file loses    *)
(* the login, and only a new login brings it back.                         *)
(***************************************************************************)
EXTENDS Naturals

VARIABLES
  issued, \* the generation of the refresh token the server accepts
  held,   \* the generation of the one in the file
  lost    \* no refresh can succeed any more

vars == <<issued, held, lost>>

Init ==
  /\ issued = 0
  /\ held = 0
  /\ lost = FALSE

\* One of the programs refreshes the login
Rotate ==
  /\ ~lost
  /\ held = issued
  /\ issued' = issued + 1
  /\ held' = issued + 1
  /\ UNCHANGED lost

\* The server has rotated, and nobody keeps the answer
Lose ==
  /\ ~lost
  /\ held = issued
  /\ issued' = issued + 1
  /\ lost' = TRUE
  /\ UNCHANGED held

\* The user logs in again
Login ==
  /\ issued' = issued + 1
  /\ held' = issued + 1
  /\ lost' = FALSE

Next == Rotate \/ Lose \/ Login

Spec == Init /\ [][Next]_vars
=============================================================================
