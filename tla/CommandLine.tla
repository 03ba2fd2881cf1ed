---------------------------- MODULE CommandLine ----------------------------
(***************************************************************************)
(* One process of token-burn runs one command (NewRootCommand in           *)
(* internal/cli/root.go): it upgrades the installation, exports stored     *)
(* samples, forecasts from them, or polls an account of the provider that  *)
(* providerFor names.  The commands below share no state, so that what one *)
(* of them does is the same whatever the others do, and the states of the  *)
(* program are the sum of theirs, not the product.  The commands that do   *)
(* share state have specifications of their own: Daemon and Dashboard (the *)
(* sample store), AuthLock and PiRefresh (Pi's credential file),           *)
(* ClaudeRefresh, ResetLedger and ControlSocket.  Upgrade is extended, and  *)
(* the others are instances of their own; all of them start together.      *)
(***************************************************************************)
EXTENDS Upgrade

CONSTANTS
  MaxRows, BatchSize, Limits, MaxFailures,                  \* of Backfill
  Times, Percents, Resets, MaxSamples,                      \* of Forecast
  Lifetime, Clients, MaxTokens, MaxLogins, Horizon,         \* of Antigravity
  Snapshots, Shares, Allowances, MaxCredits                 \* of Copilot

ASSUME CommandLineAssumption ==
  /\ {MaxRows, MaxFailures, MaxSamples, MaxTokens, MaxLogins, Horizon, MaxCredits} \subseteq Nat
  /\ BatchSize \in Nat \ {0}
  /\ Limits \subseteq Nat
  /\ Times \subseteq Nat
  /\ Percents \subseteq 0..100
  /\ Resets \subseteq Nat \ {0}
  /\ Lifetime \in Nat \ {0, 1}
  /\ Clients \subseteq BOOLEAN
  /\ Shares \subseteq Nat
  /\ Allowances \subseteq Nat

VARIABLES
  running,    \* the command
  rows, stored, backfill, printed, failures,
  history,
  now, client, grant, issued, place, poll,
  backing, cutOff, credits, copilot, samples

exporting == <<rows, stored, backfill, printed, failures>>
forecasting == <<history>>
pollingAntigravity == <<now, client, grant, issued, place, poll>>
pollingCopilot == <<backing, cutOff, credits, copilot, samples>>

commandVars == <<running, vars, exporting, forecasting, pollingAntigravity, pollingCopilot>>

Backfill == INSTANCE Backfill WITH command <- backfill
Forecast == INSTANCE Forecast
Antigravity == INSTANCE Antigravity
Copilot == INSTANCE Copilot WITH poll <- copilot, latest <- samples

Commands == {"upgrade", "otel-backfill", "forecast", "antigravity", "copilot"}

\* What may be one or the other at first is chosen for the running command only
CommandInit ==
  /\ running \in Commands
  /\ Init
  /\ Backfill!Init
  /\ Forecast!Init
  /\ Antigravity!Init
  /\ Copilot!Init
  /\ running # "upgrade" => launchd = CHOOSE l \in Launchd : TRUE
  /\ running # "antigravity" => client = CHOOSE c \in Clients : TRUE
  /\ running # "copilot" => backing = CHOOSE n \in Snapshots : TRUE

CommandNext ==
  \/ /\ running = "upgrade"
     /\ Next
     /\ UNCHANGED <<running, exporting, forecasting, pollingAntigravity, pollingCopilot>>
  \/ /\ running = "otel-backfill"
     /\ Backfill!Next
     /\ UNCHANGED <<running, vars, forecasting, pollingAntigravity, pollingCopilot>>
  \/ /\ running = "forecast"
     /\ Forecast!Next
     /\ UNCHANGED <<running, vars, exporting, pollingAntigravity, pollingCopilot>>
  \/ /\ running = "antigravity"
     /\ Antigravity!Next
     /\ UNCHANGED <<running, vars, exporting, forecasting, pollingCopilot>>
  \/ /\ running = "copilot"
     /\ Copilot!Next
     /\ UNCHANGED <<running, vars, exporting, forecasting, pollingAntigravity>>

CommandSpec == CommandInit /\ [][CommandNext]_commandVars

-----------------------------------------------------------------------------
(***************************************************************************)
(* Properties, as the modules state them                                   *)
(***************************************************************************)
\* An export resumed after its last printed id misses and repeats nothing
\* without a reason (newOTelBackfillCommand)
ResumeIsExact == Backfill!ResumeIsExact

\* A forecast is about the current window of the quota (stableSamples)
CurrentWindowOnly == Forecast!CurrentWindowOnly

\* The numbers of a forecast agree with each other (Calculate)
ForecastConsistent == Forecast!ForecastConsistent

\* A poll of Antigravity finds the login that works (Fetch, tokenCandidates)
WorkingLoginFound == Antigravity!WorkingLoginFound

\* A poll of Copilot shows no capacity that GitHub has cut off, whatever it reports of
\* the quota, estimates of the credits or has stored before (windowFromQuota,
\* addAICreditWindow, LatestSamples), while one quota only is flagged
CutOffShowsNoCapacityUnlessAmbiguous == Copilot!CutOffShowsNoCapacityUnlessAmbiguous
=============================================================================
