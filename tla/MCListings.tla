----------------------------- MODULE MCListings -----------------------------
EXTENDS Listings, TLC
Interchangeable == Permutations(Request)
=============================================================================
