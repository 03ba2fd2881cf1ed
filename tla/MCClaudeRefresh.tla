--------------------------- MODULE MCClaudeRefresh --------------------------
(***************************************************************************)
(* Instances of ClaudeRefresh for TLC: what the sources hold at first.     *)
(***************************************************************************)
EXTENDS ClaudeRefresh, TLC

PollerSymmetry == Permutations(Pollers)

\* A login whose access token ends at time e; a bare token has no refresh token
OAuth(l, e) ==
  [present |-> TRUE, refresh |-> TRUE, login |-> l, gen |-> 0, exp |-> e, until |-> e]
Bare(l, e) ==
  [present |-> TRUE, refresh |-> FALSE, login |-> l, gen |-> 0, exp |-> 0, until |-> e]

Setup(custom, home, keychain, env, alive) ==
  [holds |-> [s \in Sources |-> CASE s = Custom -> custom [] s = Home -> home
                                  [] s = Keychain -> keychain [] s = Env -> env],
   live |-> alive]

\* The file of Claude Code: alone, beside a copy of it and without an expiry; the
\* keychain behind a dead file and as a bare secret; the environment token that
\* hides a file
MCSetups ==
  { Setup(Absent, OAuth(0, 1), Absent, Absent, {0}),
    Setup(OAuth(0, 1), OAuth(0, 1), Absent, Absent, {0}),
    Setup(Absent, [OAuth(0, 1) EXCEPT !.exp = 0], Absent, Absent, {0}),
    Setup(Absent, OAuth(1, 1), OAuth(0, 1), Absent, {0}),
    Setup(Absent, Absent, Bare(0, 1), Absent, {0}),
    Setup(Absent, OAuth(0, 1), Absent, Bare(1, 1), {0, 1}) }

\* The file of Claude Code and nothing else
FileOnly == { Setup(Absent, OAuth(0, 1), Absent, Absent, {0}) }
=============================================================================
