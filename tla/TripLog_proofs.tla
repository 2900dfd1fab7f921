--------------------------- MODULE TripLog_proofs ---------------------------
(***************************************************************************)
(* The abstract trip log keeps what it promises, for every set of places.   *)
(***************************************************************************)
EXTENDS TripLog, SequenceTheorems, TLAPS

\* The variables keep their types.
LEMMA LogTypeStep == TypeOK /\ [Next]_vars => TypeOK'
PROOF
<1> SUFFICES ASSUME TypeOK, [Next]_vars PROVE TypeOK'
  OBVIOUS
<1>1. ASSUME NEW p \in Place, Fix(p) PROVE TypeOK'
  <2>1. fixes' \in Seq(Place) /\ Len(fixes') = Len(fixes) + 1 /\ Len(fixes) \in Nat
    BY <1>1 DEF TypeOK, Fix
  <2> QED
    BY <1>1, <2>1 DEF TypeOK, Fix
<1>2. CASE Record
  <2>1. [from |-> start, to |-> Len(fixes)] \in Trip
    BY <1>2 DEF TypeOK, Record, Trip
  <2> QED
    BY <1>2, <2>1 DEF TypeOK, Record
<1>3. CASE Lose
  BY <1>3 DEF TypeOK, Lose
<1>4. CASE UNCHANGED vars
  BY <1>4 DEF TypeOK, vars
<1> QED
  BY <1>1, <1>2, <1>3, <1>4 DEF Next

\* No step breaks TripsDisjoint: Fix only lengthens fixes, and Record logs a
\* trip that begins after all the logged ones.
LEMMA DisjointStep == TypeOK /\ TripsDisjoint /\ [Next]_vars => TripsDisjoint'
PROOF
<1> SUFFICES ASSUME TypeOK, TripsDisjoint, [Next]_vars PROVE TripsDisjoint'
  OBVIOUS
<1>0. /\ Len(fixes) \in Nat /\ Len(log) \in Nat /\ start \in 0 .. Len(fixes)
      /\ \A k \in 1 .. Len(log) : log[k].from \in Nat \ {0} /\ log[k].to \in Nat
  <2>1. Len(fixes) \in Nat /\ Len(log) \in Nat /\ start \in 0 .. Len(fixes)
    BY DEF TypeOK
  <2>2. \A k \in 1 .. Len(log) : log[k] \in Trip
    BY ElementOfSeq DEF TypeOK
  <2> QED
    BY <2>1, <2>2 DEF Trip
<1>1. ASSUME NEW p \in Place, Fix(p) PROVE TripsDisjoint'
  <2>1. /\ Len(fixes') = Len(fixes) + 1 /\ log' = log
        /\ \A k \in 1 .. Len(fixes) : fixes'[k] = fixes[k]
    BY <1>1 DEF TypeOK, Fix
  <2>2. \A k \in 1 .. Len(log) :
          /\ log[k].from < log[k].to /\ log[k].to <= Len(fixes')
          /\ fixes'[log[k].from] # fixes'[log[k].to]
    BY <1>0, <2>1 DEF TripsDisjoint
  <2>3. start' # 0 => \A k \in 1 .. Len(log) : log[k].to < start'
    BY <1>0, <1>1, <2>1 DEF TripsDisjoint, Fix
  <2> QED
    BY <2>1, <2>2, <2>3 DEF TripsDisjoint
<1>2. CASE Record
  <2>1. /\ Len(log') = Len(log) + 1 /\ start' = 0 /\ fixes' = fixes
        /\ log'[Len(log) + 1] = [from |-> start, to |-> Len(fixes)]
        /\ \A k \in 1 .. Len(log) : log'[k] = log[k]
    BY <1>2 DEF TypeOK, Record
  <2>2. start # 0 /\ start < Len(fixes) /\ fixes[start] # fixes[Len(fixes)]
    BY <1>0, <1>2 DEF Record
  <2>3. \A k \in 1 .. Len(log') :
          /\ log'[k].from < log'[k].to /\ log'[k].to <= Len(fixes)
          /\ fixes[log'[k].from] # fixes[log'[k].to]
    BY <1>0, <2>1, <2>2 DEF TripsDisjoint
  <2>4. \A j, k \in 1 .. Len(log') : j < k => log'[j].to < log'[k].from
    BY <1>0, <2>1, <2>2 DEF TripsDisjoint
  <2> QED
    BY <2>1, <2>3, <2>4 DEF TripsDisjoint
<1>3. CASE Lose
  BY <1>3 DEF TripsDisjoint, Lose
<1>4. CASE UNCHANGED vars
  BY <1>4 DEF TripsDisjoint, vars
<1> QED
  BY <1>1, <1>2, <1>3, <1>4 DEF Next

\* The logged trips never share a fix, never lead nowhere, and never reach
\* into the open trip: what TripRecorder's records inherit from this module.
THEOREM TripsAlwaysDisjoint == Spec => [](TypeOK /\ TripsDisjoint)
PROOF
<1>1. Init => TypeOK /\ TripsDisjoint
  BY DEF Init, TypeOK, TripsDisjoint
<1> QED
  BY <1>1, LogTypeStep, DisjointStep, PTL DEF Spec
=============================================================================
