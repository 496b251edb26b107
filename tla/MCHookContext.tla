----------------------------- MODULE MCHookContext -----------------------------
EXTENDS HookContext, TLC

\* Relations are alike, and so are the commands that run at once.
Symmetry == Permutations(Relations) \cup Permutations(Clients)
===============================================================================
