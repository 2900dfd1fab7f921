--------------------------- MODULE MCTripRecorder ---------------------------
(* TripRecorder for TLC: places on a line.  Two places one apart are the    *)
(* same to the program, two apart are not, so that "same" is not            *)
(* transitive; 0 is latitude 0, longitude 0.                                *)
EXTENDS TripRecorder

MCWidePlace  == {0, 1, 2, 4}
MCApartPlace == {0, 2, 4}
MCTwoPlaces  == {0, 2}

Close(p, q)  == p - q \in -1 .. 1
MCWideNear   == {pq \in MCWidePlace \X MCWidePlace : Close(pq[1], pq[2])}
MCApartNear  == {<<p, p>> : p \in MCApartPlace}
MCTwoNear    == {<<p, p>> : p \in MCTwoPlaces}
MCZero       == 0

\* A heap that happens to be zeroed, and one that holds anything.
MCZeroPtrs == {NULL}
MCZeroInts == {0}
MCAnyPtrs  == {NULL, Wild}
MCAnyInts  == {-1, 0}
=============================================================================
