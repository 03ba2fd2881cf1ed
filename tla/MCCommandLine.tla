--------------------------- MODULE MCCommandLine ---------------------------
EXTENDS CommandLine, TLC

\* Upgrades are told apart only by what they do
UpgradeSymmetry == Permutations(Upgraders)
=============================================================================
