----------------------------- MODULE MCDashboard ----------------------------
(***************************************************************************)
(* Instances of Dashboard for TLC.                                         *)
(***************************************************************************)
EXTENDS Dashboard, TLC

JobSymmetry == Permutations(Jobs)
Scenario(mo, k, f) == [mode |-> mo, keys |-> k, faults |-> f]

\* The user at the keyboard or a failure, for every source of the samples
MCScenarios ==
  { Scenario("sqlite", 1, 0), Scenario("sqlite", 0, 2),
    Scenario("auto", 0, 1), Scenario("openobserve", 1, 0) }

\* Nobody at the keyboard and no failure
Undisturbed == { Scenario("sqlite", 0, 0) }
=============================================================================
