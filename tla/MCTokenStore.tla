---------------------------- MODULE MCTokenStore ----------------------------
EXTENDS TokenStore, TLC

Interchangeable == Permutations(Logins) \cup Permutations(Logouts)
=============================================================================
