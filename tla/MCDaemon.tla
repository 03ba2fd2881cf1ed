------------------------------ MODULE MCDaemon ------------------------------
(***************************************************************************)
(* Instances of Daemon for TLC.                                            *)
(***************************************************************************)
EXTENDS Daemon

MCPowerOfTwo == [n \in 0..Horizon |-> 2^n]

\* Two accounts with the canonical provider name, the second one antigravity
CanonicalKey == [a \in Accounts |-> a]

\* Account 1 is configured under an alias ("zhipuai"): its errors are recorded
\* under key 1, its successes under the provider's own name, key 2
AliasSuccessKey == [a \in Accounts |-> a + 1]
=============================================================================
