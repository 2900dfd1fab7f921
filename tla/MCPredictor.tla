---------------------------- MODULE MCPredictor ----------------------------
EXTENDS Predictor

\* Two latitudes and longitudes, three of the four places stops; no two near.
MCCoord == {0, 1}
MCPlace == MCCoord \X MCCoord
MCNear  == {<<p, p>> : p \in MCPlace}
MCZero  == <<0, 0>>
MCStops == {<<0, 0>>, <<0, 1>>, <<1, 1>>}

\* A Friday, the 31st, before midnight, and the next Friday after midnight.
MCClocks == {[date |-> 20140131, time |-> 235010], [date |-> 20140207, time |-> 2030]}
MCArrivals == {2005}

Double(n) == [kind |-> "double", val |-> n]
Whole(n)   == [kind |-> "int", val |-> n]
MCMessages ==
  {[wellFormed |-> FALSE, root |-> << >>],
   [wellFormed |-> TRUE, root |-> [latitude |-> Double(1), longitude |-> Whole(1)]],
   [wellFormed |-> TRUE, root |-> [latitude |-> Double(0), longitude |-> Double(1)]]}

MCHeapPlaces == {<<1, 1>>}
MCHeapInts == {0, -1}
=============================================================================
