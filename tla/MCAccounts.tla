----------------------------- MODULE MCAccounts -----------------------------
EXTENDS AccountsInvariant, TLC

Interchangeable == Permutations(Request) \cup Permutations(Account) \cup Permutations(Email)
=============================================================================
