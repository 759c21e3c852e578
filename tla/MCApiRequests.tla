--------------------------- MODULE MCApiRequests ---------------------------
\* Instances of ApiRequests for TLC.
EXTENDS ApiRequests, TLC

RequestSymmetry == Permutations(Request)
=============================================================================
