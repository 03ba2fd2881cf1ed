--------------------------- MODULE MCResetLedger ---------------------------
(***************************************************************************)
(* Instances of ResetLedger for TLC.                                       *)
(***************************************************************************)
EXTENDS ResetLedger, TLC

Symmetry == Permutations(Pollers)

\* One of the grants expires at time 2, others later than the last fetch
Expiry == LET g == CHOOSE g \in Grants : TRUE
          IN  [h \in Grants |-> IF h = g THEN 2 ELSE MaxTime + 1]
NoExpiry == [g \in Grants |-> MaxTime + 1]

\* Strings in the order of the times they stand for
InOrder == [t \in 1..MaxTime |-> t]

\* Time 1 is a whole second, "...:00Z", time 2 "...:00.5Z": '.' sorts before 'Z'
WholeSecondFirst == [t \in 1..MaxTime |-> CASE t = 1 -> 2 [] t = 2 -> 1 [] OTHER -> t]
=============================================================================
