------------------------------- MODULE TripLog -------------------------------
(***************************************************************************)
(* What the trip recorder promises: out of the fixes it is given it cuts    *)
(* trips, one after the other, and logs each by the fixes it began and      *)
(* ended at.  Nothing is said of threads, timers, tables, codes or files;   *)
(* TripRecorder implements this module as long as its handler and its       *)
(* callback do not overlap.                                                 *)
(***************************************************************************)
EXTENDS Naturals, Sequences

CONSTANT Place

VARIABLES fixes,  \* where each fix was taken
          start,  \* the fix the open trip began at, 0 when none is open
          log     \* the recorded trips

vars == <<fixes, start, log>>

Init == fixes = <<>> /\ start = 0 /\ log = <<>>

\* A fix opens a trip unless one is open.
Fix(p) ==
  /\ fixes' = Append(fixes, p)
  /\ start' = IF start = 0 THEN Len(fixes') ELSE start
  /\ UNCHANGED log

\* The open trip ends at the last fix, at another place than it began.
Record ==
  /\ start # 0
  /\ fixes[start] # fixes[Len(fixes)]
  /\ log' = Append(log, [from |-> start, to |-> Len(fixes)])
  /\ start' = 0
  /\ UNCHANGED fixes

\* The open trip is lost: no power, or no file to write it to.
Lose ==
  /\ start # 0
  /\ start' = 0
  /\ UNCHANGED <<fixes, log>>

Next == (\E p \in Place : Fix(p)) \/ Record \/ Lose

Spec == Init /\ [][Next]_vars
-----------------------------------------------------------------------------
Trip == [from : Nat \ {0}, to : Nat]

TypeOK == /\ fixes \in Seq(Place)
          /\ start \in 0 .. Len(fixes)
          /\ log \in Seq(Trip)

\* Every recorded trip takes at least two fixes and goes somewhere, the trips
\* follow one another, and the open trip is none of them: what the code means
\* by resetting mGetFirstGPSSig only after a save.
TripsDisjoint ==
  /\ \A k \in 1 .. Len(log) :
       /\ log[k].from < log[k].to /\ log[k].to <= Len(fixes)
       /\ fixes[log[k].from] # fixes[log[k].to]
  /\ \A j, k \in 1 .. Len(log) : j < k => log[j].to < log[k].from
  /\ start # 0 => \A k \in 1 .. Len(log) : log[k].to < start
=============================================================================
