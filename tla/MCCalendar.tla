----------------------------- MODULE MCCalendar -----------------------------
(* Calendar for TLC: from before a leap year, a century that is none and a  *)
(* century that is one.                                                     *)
EXTENDS Calendar

Day(yy, mm, dd) == [y |-> yy, m |-> mm, d |-> dd]

MCEpochs == {[day |-> Day(2014, 12, 30), weekday |-> 2],
             [day |-> Day(2099, 12, 30), weekday |-> 3],
             [day |-> Day(1999, 12, 30), weekday |-> 4]}
=============================================================================
