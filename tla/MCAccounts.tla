----------------------------- MODULE MCAccounts -----------------------------
EXTENDS Accounts, TLC

Symmetry == Permutations(Sessions) \cup Permutations(Handlers)
=============================================================================
