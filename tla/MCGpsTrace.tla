----------------------------- MODULE MCGpsTrace -----------------------------
EXTENDS GpsTrace

\* Neighbours are near (2 < MaxDiff = 3), the ends are not.
MCPosition == {0, 2, 4}
=============================================================================
