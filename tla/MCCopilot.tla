----------------------------- MODULE MCCopilot -----------------------------
EXTENDS Copilot
=============================================================================
