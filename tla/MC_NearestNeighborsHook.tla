------------------------ MODULE MC_NearestNeighborsHook ------------------------
EXTENDS NearestNeighborsHook
CONSTANTS r1, r2, r3, r4
\* four UDF threads serving requests
MCRequests == {r1, r2, r3, r4}
=============================================================================
