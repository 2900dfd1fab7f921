-------------------------- MODULE Predictor_proofs --------------------------
(***************************************************************************)
(* Saving, loading and predicting keep their types; the start a request is *)
(* for is found again in the position table, as is the start of the trip   *)
(* being saved; predictions are trips once recorded; every trip is counted *)
(* once in each of its drawers; the rates stay below 1 together; and a     *)
(* destination is missed only for want of space: for any set of places,    *)
(* messages, clock readings and trips.                                     *)
(***************************************************************************)
EXTENDS Predictor, PlaceTable_proofs, FiniteSetTheorems, SequenceTheorems

-----------------------------------------------------------------------------
(* Least and greatest numbers, and loops.                                  *)

\* Min is the member below the others.
LEMMA MinIs ==
  ASSUME NEW T \in SUBSET Int, NEW m \in T, \A k \in T : m <= k
  PROVE  Min(T) = m
PROOF
<1>1. \A x \in T : (\A y \in T : x =< y) => x = m
  OBVIOUS
<1> QED
  BY <1>1 DEF Min

\* Min of a nonempty set of naturals is in it.
LEMMA MinIn ==
  ASSUME NEW T \in SUBSET Nat, T # {}
  PROVE  Min(T) \in T
PROOF
<1>1. PICK m \in T : \A k \in T : m <= k
  BY LeastExists
<1> QED
  BY <1>1, MinIs

\* g goes from s0 in steps from lo to hi, and stays in S.
Iterates(g, S, lo, hi, s0, step) ==
  /\ g \in [lo .. hi -> S]
  /\ \A j \in lo .. hi : g[j] = IF j = lo THEN s0 ELSE step[<<g[j - 1], j - 1>>]

\* A state of S and a step that stays in S can be iterated.
LEMMA Iteration ==
  ASSUME NEW S, NEW lo \in Int, NEW hi \in Int, NEW s0 \in S,
         NEW step \in [S \X (lo .. hi - 1) -> S]
  PROVE  \E g : Iterates(g, S, lo, hi, s0, step)
PROOF
<1> DEFINE Run(g, n) == \A j \in lo .. n :
                          g[j] = IF j = lo THEN s0 ELSE step[<<g[j - 1], j - 1>>]
           Reached(n) == \E g \in [lo .. n -> S] : Run(g, n)
           T == {k \in Nat : lo + k <= hi /\ ~Reached(lo + k)}
<1>1. T = {}
  <2> SUFFICES ASSUME T # {} PROVE FALSE
    OBVIOUS
  <2>1. PICK m \in T : \A k \in T : m <= k
    BY LeastExists
  <2>2. CASE m = 0
    <3> DEFINE h == [j \in lo .. lo |-> s0]
    <3>1. h \in [lo .. lo + 0 -> S] /\ Run(h, lo + 0)
      OBVIOUS
    <3> QED
      BY <2>2, <3>1
  <2>3. CASE m # 0
    <3> DEFINE top == lo + m
    <3>1. Reached(top - 1)
      <4> HIDE DEF Reached
      <4>1. m - 1 \in Nat /\ lo + (m - 1) = top - 1 /\ lo + (m - 1) <= hi
        BY <2>1, <2>3
      <4>2. m - 1 \notin T
        BY <2>1, <4>1
      <4> QED
        BY <4>1, <4>2
    <3>2. PICK g \in [lo .. top - 1 -> S] : Run(g, top - 1)
      BY <3>1
    <3> DEFINE v == step[<<g[top - 1], top - 1>>]
               h == [j \in lo .. top |-> IF j = top THEN v ELSE g[j]]
    <3>3. top \in Int /\ lo <= top - 1 /\ top <= hi
      BY <2>1, <2>3
    <3>4. v \in S
      <4>1. g[top - 1] \in S /\ top - 1 \in lo .. hi - 1
        BY <3>2, <3>3
      <4> QED
        BY <4>1
    <3>5. h \in [lo .. top -> S]
      BY <3>2, <3>3, <3>4
    <3>6. Run(h, top)
      <4> SUFFICES ASSUME NEW j \in lo .. top
                   PROVE  h[j] = IF j = lo THEN s0 ELSE step[<<h[j - 1], j - 1>>]
        OBVIOUS
      <4>1. CASE j = top
        <5>1. top - 1 \in lo .. top /\ top - 1 # top /\ j # lo
          BY <3>3, <4>1
        <5>2. h[j] = v /\ h[j - 1] = g[top - 1]
          BY <4>1, <5>1
        <5> QED
          BY <4>1, <5>1, <5>2
      <4>2. CASE j # top
        <5>1. j \in lo .. top - 1 /\ h[j] = g[j]
          BY <3>3, <4>2
        <5>2. j # lo => j - 1 \in lo .. top /\ j - 1 # top /\ h[j - 1] = g[j - 1]
          BY <3>3, <5>1
        <5>3. g[j] = IF j = lo THEN s0 ELSE step[<<g[j - 1], j - 1>>]
          BY <3>2, <3>3, <5>1
        <5> QED
          BY <5>1, <5>2, <5>3
      <4> QED
        BY <4>1, <4>2
    <3> QED
      BY <2>1, <3>5, <3>6
  <2> QED
    BY <2>2, <2>3
<1>2. CASE lo <= hi
  <2>1. Reached(hi)
    <3> HIDE DEF Reached
    <3>1. hi - lo \in Nat /\ lo + (hi - lo) = hi
      BY <1>2
    <3> DEFINE n == hi - lo
    <3>2. n \notin T
      BY <1>1, Zenon
    <3> QED
      BY <3>1, <3>2
  <2> QED
    BY <2>1 DEF Iterates
<1>3. CASE ~(lo <= hi)
  <2>1. lo .. hi = {}
    BY <1>3
  <2> DEFINE g == [j \in lo .. hi |-> s0]
  <2>2. g \in [lo .. hi -> S]
    BY <2>1
  <2> QED
    BY <2>1, <2>2 DEF Iterates
<1> QED
  BY <1>2, <1>3

\* Max of a set of naturals with a bound is in it.
LEMMA MaxIn ==
  ASSUME NEW n \in Nat, NEW T \in SUBSET (0 .. n), T # {}
  PROVE  Max(T) \in T
PROOF
<1> DEFINE R == {k \in Nat : n - k \in T}
<1>1. R # {}
  <2>1. PICK x \in T : TRUE
    OBVIOUS
  <2>2. x \in 0 .. n /\ n - x \in Nat /\ n - (n - x) = x
    BY <2>1
  <2> QED
    BY <2>1, <2>2
<1>2. PICK r \in R : \A k \in R : r <= k
  BY <1>1, LeastExists
<1> DEFINE m == n - r
<1>3. m \in T /\ m \in Int
  BY <1>2
<1>4. ASSUME NEW y \in T PROVE m >= y
  <2>1. y \in 0 .. n /\ n - y \in Nat /\ n - (n - y) = y
    OBVIOUS
  <2>2. n - y \in R
    BY <2>1
  <2> QED
    BY <1>2, <2>1, <2>2
<1>5. \E x \in T : \A y \in T : x >= y
  BY <1>3, <1>4
<1> QED
  BY <1>5 DEF Max

\* What holds of 0, and of each number after one of which it holds, holds up to n.
LEMMA Upward ==
  ASSUME NEW n \in Nat, NEW T, 0 \in T, \A j \in 1 .. n : j - 1 \in T => j \in T
  PROVE  \A j \in 0 .. n : j \in T
PROOF
<1> DEFINE R == {j \in 0 .. n : j \notin T}
<1>1. SUFFICES ASSUME R # {} PROVE FALSE
  OBVIOUS
<1>2. R \in SUBSET Nat
  OBVIOUS
<1>3. PICK m \in R : \A k \in R : m <= k
  BY <1>1, <1>2, LeastExists
<1>4. m \in 1 .. n /\ m - 1 \in 0 .. n /\ ~(m <= m - 1)
  BY <1>3
<1>5. m - 1 \in T
  BY <1>3, <1>4
<1> QED
  BY <1>3, <1>4, <1>5

\* A loop of n turns: at[j] is the state after the j-th, which step makes of the
\* one before and of j.
Turns(at, S, n, s0, step) ==
  /\ at \in [0 .. n -> S]
  /\ at = [j \in 0 .. n |-> IF j = 0 THEN s0 ELSE step[<<at[j - 1], j>>]]

\* There is one, if step stays in S.
LEMMA Loop ==
  ASSUME NEW S, NEW n \in Nat, NEW s0 \in S, NEW step \in [S \X (1 .. n) -> S]
  PROVE  \E at : Turns(at, S, n, s0, step)
PROOF
<1> DEFINE next == [x \in S \X (0 .. n - 1) |-> step[<<x[1], x[2] + 1>>]]
<1>1. next \in [S \X (0 .. n - 1) -> S]
  <2> SUFFICES ASSUME NEW s \in S, NEW j \in 0 .. n - 1
               PROVE  step[<<s, j + 1>>] \in S
    OBVIOUS
  <2>1. j + 1 \in 1 .. n
    OBVIOUS
  <2> QED
    BY <2>1
<1>2. PICK at : Iterates(at, S, 0, n, s0, next)
  <2> HIDE DEF next
  <2>1. 0 \in Int /\ n \in Int
    OBVIOUS
  <2> QED
    BY <1>1, <2>1, Iteration, Zenon
<1>3. ASSUME NEW j \in 0 .. n
      PROVE  at[j] = IF j = 0 THEN s0 ELSE step[<<at[j - 1], j>>]
  <2>1. CASE j = 0
    BY <1>2, <2>1 DEF Iterates
  <2>2. CASE j # 0
    <3>1. j - 1 \in 0 .. n - 1 /\ j - 1 \in 0 .. n /\ (j - 1) + 1 = j
      BY <2>2
    <3>2. at[j - 1] \in S /\ at[j] = next[<<at[j - 1], j - 1>>]
      <4> HIDE DEF next
      <4> QED
        BY <1>2, <2>2, <3>1 DEF Iterates
    <3>3. next[<<at[j - 1], j - 1>>] = step[<<at[j - 1], (j - 1) + 1>>]
      BY <3>1, <3>2
    <3> QED
      BY <2>2, <3>1, <3>2, <3>3
  <2> QED
    BY <2>1, <2>2
<1>4. at \in [0 .. n -> S]
  <2> HIDE DEF next
  <2> QED
    BY <1>2 DEF Iterates
<1>5. at = [j \in 0 .. n |-> at[j]]
  BY <1>4
<1> HIDE DEF next
<1>6. at = [j \in 0 .. n |-> IF j = 0 THEN s0 ELSE step[<<at[j - 1], j>>]]
  BY <1>3, <1>5
<1> QED
  BY <1>4, <1>6 DEF Turns

-----------------------------------------------------------------------------
(* Records, entries and candidates.                                        *)

Readings == Clocks \cup {NoClock}
ClockOf(b) == [date |-> b.date, time |-> b.time]

\* A record begins when a clock was read, or is the zeroed one.
Trips == {b \in Behavior : ClockOf(b) \in Readings /\ b.time_d \in Time}
Kept  == {e \in Entry : e.time \in Time /\ e.time_d \in Time}
Cand  == [code_s : Code, code_d : Code, date_d : Nat, time_d : Nat, count : Nat \ {0}]

LEMMA Zeroed ==
  /\ 0 \in Code /\ 0 \in Time /\ NoBehavior \in Trips
  /\ \A b \in Trips : b.time \in Time /\ b.date \in Nat
PROOF
<1>1. 0 \in Code
  BY PlaceAssumption DEF Code
<1>2. 0 \in Time
  BY DEF Time, TIME_DVT
<1>3. Time \subseteq Nat
  BY DEF Time
<1>4. NoBehavior \in Trips
  BY <1>1, <1>2, <1>3 DEF NoBehavior, Behavior, Trips, ClockOf, NoClock, Readings
<1>5. ASSUME NEW b \in Trips PROVE b.time \in Time /\ b.date \in Nat
  <2>1. ClockOf(b) \in [date : Nat, time : Time]
    BY <1>2, PredictorAssumption DEF Trips, Readings, NoClock, Date
  <2>2. ClockOf(b).date = b.date /\ ClockOf(b).time = b.time
    BY DEF ClockOf
  <2> QED
    BY <2>1, <2>2
<1> QED
  BY <1>1, <1>2, <1>4, <1>5

\* The four drawers of a record are among those in use.
LEMMA DrawersInUse ==
  ASSUME NEW b, ClockOf(b) \in Readings, NEW k \in 1 .. 4
  PROVE  DrawersOf(b)[k] \in Cells
PROOF
<1>1. ClockOf(b) \in Clocks \cup {NoClock}
  BY DEF Readings
<1>2. ClockOf(b).date = b.date /\ ClockOf(b).time = b.time
  BY DEF ClockOf
<1>3. \A c \in Clocks \cup {NoClock} : DOMAIN Drawers4[c] = 1 .. 4 
  BY DEF Drawers4
<1>4. \A c : DrawersOf(c) = Drawers4[ClockOf(c)]
  BY DEF DrawersOf, ClockOf
<1>5. ClockOf(ClockOf(b)) = ClockOf(b)
  BY DEF ClockOf
<1>6. DrawersOf(ClockOf(b)) = DrawersOf(b) /\ DOMAIN DrawersOf(b) = 1 .. 4
  BY <1>1, <1>3, <1>4, <1>5
<1>7. DrawersOf(b)[k] \in ToSet(DrawersOf(ClockOf(b)))
  BY <1>6 DEF ToSet
<1> QED
  BY <1>1, <1>7 DEF Cells

\* A record is kept as an entry counted once.
LEMMA NewKept ==
  ASSUME NEW b \in Trips
  PROVE  New(b) \in Kept
BY Zeroed DEF New, Trips, Kept, Entry, Behavior

\* An entry counted once more stays one.
LEMMA CountedKept ==
  ASSUME NEW e \in Kept
  PROVE  [e EXCEPT !.count = @ + 1] \in Kept
BY DEF Kept, Entry

\* putInDrawer makes of entries and a record entries, of any set in which
\* counting stays.
LEMMA PutStays ==
  ASSUME NEW E \in SUBSET Kept, \A e \in E : [e EXCEPT !.count = @ + 1] \in E,
         NEW vec \in Seq(E), NEW b, New(b) \in E
  PROVE  putInDrawer(vec, b) \in Seq(E)
PROOF
<1>1. CASE \A j \in 1 .. Len(vec) : vec[j].code_s # b.code_s
  BY <1>1 DEF putInDrawer
<1>2. CASE \E j \in 1 .. Len(vec) : vec[j].code_s = b.code_s
  <2> DEFINE own == {j \in 1 .. Len(vec) : vec[j].code_s = b.code_s}
             j == FirstOf(vec, b)
             counted == [vec EXCEPT ![j].count = @ + 1]
             place == FrontPlace(counted, j)
  <2>1. j \in 1 .. Len(vec)
    <3>1. own \in SUBSET Nat /\ own # {}
      BY <1>2
    <3>2. FirstOf(vec, b) \in own
      BY <3>1, MinIn, Zenon DEF FirstOf
    <3> QED
      BY <3>2
  <2> HIDE DEF j
  <2>2. counted \in Seq(E) /\ Len(counted) = Len(vec)
    <3>1. vec[j] \in E
      BY <2>1
    <3>2. [vec[j] EXCEPT !.count = @ + 1] \in E
      BY <3>1
    <3> QED
      BY <2>1, <3>2
  <2> HIDE DEF counted
  <2>3. place \in 1 .. j
    <3> DEFINE stops == {k \in 0 .. j - 1 : \/ k <= 1
                                   \/ counted[k].code_s # counted[j].code_s
                                   \/ counted[k].count > counted[j].count}
    <3>1. stops \in SUBSET (0 .. j - 1) /\ 0 \in stops /\ j - 1 \in Nat
      BY <2>1
    <3> HIDE DEF stops
    <3>2. Max(stops) \in stops
      BY <3>1, MaxIn
    <3>3. place = Max(stops) + 1
      BY DEF FrontPlace, stops
    <3>4. Max(stops) \in 0 .. j - 1
      BY <3>1, <3>2
    <3> HIDE DEF place
    <3> QED
      BY <2>1, <3>3, <3>4
  <2> HIDE DEF place
  <2> DEFINE front == SubSeq(counted, 1, j - 1)
             back == SubSeq(counted, j + 1, Len(counted))
  <2>a. front \in Seq(E) /\ Len(front) = j - 1
    BY <2>1, <2>2
  <2>b. back \in Seq(E) /\ Len(back) = Len(vec) - j
    BY <2>1, <2>2
  <2> HIDE DEF front, back
  <2>4. RemoveAt(counted, j) \in Seq(E)
    BY <2>a, <2>b DEF RemoveAt, front, back
  <2>5. Len(RemoveAt(counted, j)) = Len(vec) - 1
    <3>1. Len(front \o back) = (j - 1) + (Len(vec) - j)
      BY <2>a, <2>b
    <3>2. RemoveAt(counted, j) = front \o back
      BY DEF RemoveAt, front, back
    <3>3. Len(vec) \in Nat
      OBVIOUS
    <3> QED
      BY <2>1, <3>1, <3>2, <3>3
  <2>6. counted[j] \in E
    BY <2>1, <2>2
  <2> DEFINE rest == RemoveAt(counted, j)
  <2>7. InsertAt(rest, place, counted[j]) \in Seq(E)
    <3> HIDE DEF rest
    <3>1. place \in 1 .. Len(rest) + 1
      BY <2>1, <2>3, <2>5 DEF rest
    <3>2. rest \in Seq(E)
      BY <2>4 DEF rest
    <3> QED
      BY <2>6, <3>1, <3>2 DEF InsertAt
  <2>8. Append(vec, New(b)) \in Seq(E)
    OBVIOUS
  <2> QED
    BY <1>2, <2>7, <2>8 DEF putInDrawer, j, counted, place
<1> QED
  BY <1>1, <1>2

LEMMA PutKept ==
  ASSUME NEW vec \in Seq(Kept), NEW b \in Trips
  PROVE  putInDrawer(vec, b) \in Seq(Kept)
PROOF
<1>1. \A e \in Kept : [e EXCEPT !.count = @ + 1] \in Kept
  BY CountedKept
<1> QED
  BY <1>1, NewKept, PutStays

-----------------------------------------------------------------------------
(* The loops.                                                              *)

Full == [Cells -> Seq(Kept)]

LEMMA PutRecordKept ==
  ASSUME NEW cells \in Full, NEW r \in Trips
  PROVE  PutRecord(cells, r) \in Full
BY PutKept DEF PutRecord, Full

\* The records a load puts: those of the file and the zeroed one.
Surplus(recs) == IF recs = <<>> THEN <<>> ELSE Append(recs, NoBehavior)

\* put[n] are the drawers after n of them.
Filling(recs, put) ==
  /\ put \in [0 .. Len(Surplus(recs)) -> Full]
  /\ put[0] = [c \in Cells |-> <<>>]
  /\ \A n \in 1 .. Len(Surplus(recs)) : put[n] = PutRecord(put[n - 1], Surplus(recs)[n])
  /\ Loaded(recs) = put[Len(Surplus(recs))]

LEMMA LoadedByTurns ==
  ASSUME NEW recs \in Seq(Trips)
  PROVE  /\ Surplus(recs) \in Seq(Trips) /\ Len(Surplus(recs)) \in Nat
         /\ \E put : Filling(recs, put)
PROOF
<1> DEFINE all == Surplus(recs)
           none == [c \in Cells |-> <<>>]
           Equation(g) == g = [n \in 0 .. Len(all) |->
                                 IF n = 0 THEN none ELSE PutRecord(g[n - 1], all[n])]
           put == CHOOSE g : Equation(g)
           step == [x \in Full \X (1 .. Len(all)) |-> PutRecord(x[1], all[x[2]])]
<1>1. all \in Seq(Trips) /\ Len(all) \in Nat
  BY Zeroed DEF Surplus
<1>2. none \in Full
  BY DEF Full
<1>7. Loaded(recs) = put[Len(all)]
  BY DEF Loaded, Surplus
<1> HIDE DEF all, none
<1>3. step \in [Full \X (1 .. Len(all)) -> Full]
  BY <1>1, PutRecordKept
<1>4. PICK g : Turns(g, Full, Len(all), none, step)
  <2> HIDE DEF step
  <2> QED
    BY <1>1, <1>2, <1>3, Loop, Zenon
<1>5. Equation(g)
  <2>1. ASSUME NEW n \in 0 .. Len(all), n # 0
        PROVE  step[<<g[n - 1], n>>] = PutRecord(g[n - 1], all[n])
    <3>1. n \in 1 .. Len(all) /\ n - 1 \in 0 .. Len(all)
      BY <1>1, <2>1
    <3>2. g[n - 1] \in Full
      BY <1>4, <3>1, Zenon DEF Turns
    <3> QED
      BY <3>1, <3>2
  <2> HIDE DEF step
  <2>2. [n \in 0 .. Len(all) |-> IF n = 0 THEN none ELSE step[<<g[n - 1], n>>]]
          = [n \in 0 .. Len(all) |-> IF n = 0 THEN none ELSE PutRecord(g[n - 1], all[n])]
    BY <2>1
  <2> QED
    BY <1>4, <2>2, Zenon DEF Turns
<1>6. Equation(put)
  <2> HIDE DEF Equation
  <2> QED
    BY <1>5, Zenon
<1> HIDE DEF put
<1>8. put[0] = none /\ \A n \in 1 .. Len(all) : put[n] = PutRecord(put[n - 1], all[n])
  BY <1>1, <1>6
<1> DEFINE T == {n \in 0 .. Len(all) : put[n] \in Full}
<1>9. \A n \in 0 .. Len(all) : n \in T
  <2>1. 0 \in T
    BY <1>1, <1>2, <1>8
  <2>2. ASSUME NEW n \in 1 .. Len(all), n - 1 \in T PROVE n \in T
    <3>1. put[n - 1] \in Full /\ all[n] \in Trips /\ n \in 0 .. Len(all)
      BY <1>1, <2>2
    <3> QED
      BY <1>8, <3>1, PutRecordKept
  <2> HIDE DEF T
  <2> QED
    BY <1>1, <2>1, <2>2, Upward
<1>10. put \in [0 .. Len(all) -> Full]
  BY <1>6, <1>9
<1>11. Filling(recs, put)
  BY <1>7, <1>8, <1>10 DEF Filling, all, none
<1> QED
  BY <1>1, <1>11 DEF all

\* A load fills the drawers in use with entries.
LEMMA LoadedKept ==
  ASSUME NEW recs \in Seq(Trips)
  PROVE  Loaded(recs) \in Full
PROOF
<1>1. PICK put : Filling(recs, put)
  BY LoadedByTurns
<1>2. Len(Surplus(recs)) \in Nat
  BY LoadedByTurns
<1> QED
  BY <1>1, <1>2 DEF Filling

\* own[j] are the candidates among the first j entries of vec.
Collecting(vec, behav, own) ==
  /\ own \in [0 .. Len(vec) -> Seq(Kept)]
  /\ own[0] = <<>>
  /\ \A j \in 1 .. Len(vec) :
       own[j] = IF Len(own[j - 1]) < PerDrawer /\ vec[j].code_s = behav.code_s
                THEN Append(own[j - 1], vec[j]) ELSE own[j - 1]
  /\ Candidates(vec, behav) = own[Len(vec)]

LEMMA CandidatesByTurns ==
  ASSUME NEW vec \in Seq(Kept), NEW behav
  PROVE  \E own : Collecting(vec, behav, own)
PROOF
<1> DEFINE n == Len(vec)
           Turn(own, j) == IF Len(own) < PerDrawer /\ vec[j].code_s = behav.code_s
                           THEN Append(own, vec[j]) ELSE own
           Equation(g) == g = [j \in 0 .. n |-> IF j = 0 THEN <<>> ELSE Turn(g[j - 1], j)]
           own == CHOOSE g : Equation(g)
           step == [x \in Seq(Kept) \X (1 .. n) |-> Turn(x[1], x[2])]
<1>1. n \in Nat /\ \A j \in 1 .. n : vec[j] \in Kept
  OBVIOUS
<1>2. ASSUME NEW s \in Seq(Kept), NEW j \in 1 .. n PROVE Turn(s, j) \in Seq(Kept)
  BY <1>1
<1>3. Candidates(vec, behav) = own[n]
  BY DEF Candidates
<1> HIDE DEF n, Turn
<1>4. step \in [Seq(Kept) \X (1 .. n) -> Seq(Kept)]
  BY <1>2
<1>5. PICK g : Turns(g, Seq(Kept), n, <<>>, step)
  <2> HIDE DEF step
  <2>1. <<>> \in Seq(Kept)
    OBVIOUS
  <2> QED
    BY <1>1, <1>4, <2>1, Loop, Zenon
<1>6. Equation(g)
  <2>1. ASSUME NEW j \in 0 .. n, j # 0
        PROVE  step[<<g[j - 1], j>>] = Turn(g[j - 1], j)
    <3>1. j \in 1 .. n /\ j - 1 \in 0 .. n
      BY <1>1, <2>1
    <3>2. g[j - 1] \in Seq(Kept)
      BY <1>5, <3>1, Zenon DEF Turns
    <3> QED
      BY <3>1, <3>2
  <2> HIDE DEF step
  <2>2. [j \in 0 .. n |-> IF j = 0 THEN <<>> ELSE step[<<g[j - 1], j>>]]
          = [j \in 0 .. n |-> IF j = 0 THEN <<>> ELSE Turn(g[j - 1], j)]
    BY <2>1
  <2> QED
    BY <1>5, <2>2, Zenon DEF Turns
<1>7. Equation(own)
  <2> HIDE DEF Equation
  <2> QED
    BY <1>6, Zenon
<1> HIDE DEF own
<1>e. <<>> \in Seq(Kept)
  OBVIOUS
<1>8. own[0] = <<>> /\ \A j \in 1 .. n : own[j] = Turn(own[j - 1], j)
  BY <1>1, <1>7
<1> DEFINE T == {j \in 0 .. n : own[j] \in Seq(Kept)}
<1>9. \A j \in 0 .. n : j \in T
  <2>1. 0 \in T
    <3>1. 0 \in 0 .. n
      BY <1>1
    <3>2. own[0] \in Seq(Kept)
      BY <1>8, <1>e, Zenon
    <3> QED
      BY <3>1, <3>2
  <2>2. ASSUME NEW j \in 1 .. n, j - 1 \in T PROVE j \in T
    <3>1. own[j - 1] \in Seq(Kept) /\ j \in 0 .. n
      BY <1>1, <2>2
    <3> QED
      BY <1>2, <1>8, <3>1
  <2> HIDE DEF T
  <2> QED
    BY <1>1, <2>1, <2>2, Upward
<1>10. own \in [0 .. n -> Seq(Kept)]
  BY <1>7, <1>9
<1>11. Collecting(vec, behav, own)
  BY <1>3, <1>8, <1>10 DEF Collecting, n, Turn
<1> QED
  BY <1>11

\* Candidates are entries of the start, as the drawer has them.
LEMMA CandidatesStay ==
  ASSUME NEW E \in SUBSET Kept, NEW vec \in Seq(E), NEW behav
  PROVE  Candidates(vec, behav) \in Seq({e \in E : e.code_s = behav.code_s})
PROOF
<1> DEFINE F == {e \in E : e.code_s = behav.code_s}
<1>1. vec \in Seq(Kept) /\ Len(vec) \in Nat
  OBVIOUS
<1>2. PICK own : Collecting(vec, behav, own)
  BY <1>1, CandidatesByTurns
<1> DEFINE T == {j \in 0 .. Len(vec) : own[j] \in Seq(F)}
<1>3. 0 \in T
  BY <1>1, <1>2 DEF Collecting
<1>4. ASSUME NEW j \in 1 .. Len(vec), j - 1 \in T PROVE j \in T
  <2>1. vec[j] \in E /\ own[j - 1] \in Seq(F) /\ j \in 0 .. Len(vec)
    BY <1>4
  <2>2. own[j] = IF Len(own[j - 1]) < PerDrawer /\ vec[j].code_s = behav.code_s
                 THEN Append(own[j - 1], vec[j]) ELSE own[j - 1]
    BY <1>2 DEF Collecting
  <2>3. own[j] \in Seq(F)
    <3>1. CASE vec[j].code_s = behav.code_s
      <4>1. vec[j] \in F
        BY <2>1, <3>1
      <4> HIDE DEF F
      <4> QED
        BY <2>1, <2>2, <4>1
    <3>2. CASE vec[j].code_s # behav.code_s
      BY <2>1, <2>2, <3>2
    <3> QED
      BY <3>1, <3>2
  <2> QED
    BY <2>1, <2>3
<1>5. Len(vec) \in T
  <2> HIDE DEF T
  <2>1. \A j \in 0 .. Len(vec) : j \in T
    BY <1>1, <1>3, <1>4, Upward
  <2> QED
    BY <1>1, <2>1
<1> QED
  BY <1>2, <1>5 DEF Collecting

LEMMA CandidatesKept ==
  ASSUME NEW vec \in Seq(Kept), NEW behav
  PROVE  Candidates(vec, behav) \in Seq(Kept)
PROOF
<1>1. Candidates(vec, behav) \in Seq({e \in Kept : e.code_s = behav.code_s})
  BY CandidatesStay
<1> QED
  BY <1>1

LEMMA DestRateCands ==
  ASSUME NEW vec \in Seq(Kept), NEW behav, NEW date_d \in Nat
  PROVE  getDestRateFromDraw(vec, behav, date_d) \in Seq(Cand)
PROOF
<1>1. Candidates(vec, behav) \in Seq(Kept)
  BY CandidatesKept
<1> DEFINE cs == Candidates(vec, behav)
           rs == getDestRateFromDraw(vec, behav, date_d)
<1>2. rs = [j \in 1 .. Len(cs) |->
              [code_s |-> cs[j].code_s, code_d |-> cs[j].code_d, date_d |-> date_d,
               time_d |-> cs[j].time_d, count |-> cs[j].count]]
  BY DEF getDestRateFromDraw
<1> HIDE DEF cs, rs
<1>3. ASSUME NEW j \in 1 .. Len(cs)
      PROVE  [code_s |-> cs[j].code_s, code_d |-> cs[j].code_d, date_d |-> date_d,
               time_d |-> cs[j].time_d, count |-> cs[j].count] \in Cand
  <2>1. cs[j] \in Entry
    BY <1>1 DEF cs, Kept
  <2> QED
    BY <2>1 DEF Entry, Cand
<1>4. Len(cs) \in Nat
  BY <1>1 DEF cs
<1> QED
  BY <1>2, <1>3, <1>4 DEF rs

\* The date of the request, or the one getDateByDiffDay makes of it.
LEMMA ArrivalDatesType ==
  ASSUME NEW date \in Date
  PROVE  ArrivalDates(date) \subseteq Nat
PROOF
<1> DEFINE t == YEAR_MON_DATE_DVT(date)
<1>1. /\ t.y \in Nat /\ t.m \in 1 .. 12 /\ t.d \in 1 .. daByMon(t.y)[t.m]
      /\ date \in Nat
  BY DEF Date, YEAR_MON_DATE_DVT
<1>2. daByMon(t.y)[t.m] \in Nat
  BY <1>1 DEF daByMon
<1> HIDE DEF t
<1>3. ~(t.d > daByMon(t.y)[t.m]) /\ t.d \in Nat
  BY <1>1, <1>2
<1>4. getDateByDiffDay(date) = YEAR_MON_DATE_CVT(t.y, t.m, t.d)
  BY <1>3 DEF getDateByDiffDay, t
<1>5. getDateByDiffDay(date) \in Nat
  BY <1>1, <1>3, <1>4 DEF YEAR_MON_DATE_CVT
<1> QED
  BY <1>1, <1>5 DEF ArrivalDates

-----------------------------------------------------------------------------
(* The list of destinations.                                               *)

Share == [res : Cand, weight : {10, 6, 3, 1}]

LEMMA WeightedStay ==
  ASSUME NEW C, NEW cate \in [1 .. 4 -> Seq(C)]
  PROVE  Weighted(cate) \in Seq([res : C, weight : {10, 6, 3, 1}])
PROOF
<1> DEFINE Shares == [res : C, weight : {10, 6, 3, 1}]
           cands(i) == [j \in 1 .. Len(cate[i]) |->
                          [res |-> cate[i][j], weight |-> weights[i]]]
<1>1. ASSUME NEW i \in 1 .. 4 PROVE cands(i) \in Seq(Shares)
  <2>1. cate[i] \in Seq(C)
    OBVIOUS
  <2>2. weights[i] \in {10, 6, 3, 1}
    BY DEF weights
  <2>3. \A j \in 1 .. Len(cate[i]) : [res |-> cate[i][j], weight |-> weights[i]] \in Shares
    BY <2>1, <2>2
  <2>4. Len(cate[i]) \in Nat
    BY <2>1
  <2> QED
    BY <2>3, <2>4
<1>2. Weighted(cate) = cands(1) \o cands(2) \o cands(3) \o cands(4)
  BY DEF Weighted
<1> HIDE DEF cands
<1>3. /\ cands(1) \in Seq(Shares) /\ cands(2) \in Seq(Shares)
      /\ cands(3) \in Seq(Shares) /\ cands(4) \in Seq(Shares)
  BY <1>1
<1> QED
  BY <1>2, <1>3

LEMMA WeightedShares ==
  ASSUME NEW cate \in [1 .. 4 -> Seq(Cand)]
  PROVE  Weighted(cate) \in Seq(Share)
BY WeightedStay DEF Share

LEMMA RaisedType ==
  ASSUME NEW r \in Result, NEW part \in Nat
  PROVE  [r EXCEPT !.rate = @ + part] \in Result
PROOF
<1>1. r.rate \in Nat /\ r.rate + part \in Nat
  BY DEF Result
<1> QED
  BY <1>1 DEF Result

\* Candidates of C become results of R, and these stay in R when they are raised.
Yields(C, R) ==
  /\ C \subseteq Cand /\ R \subseteq Result
  /\ \A r \in R, part \in Nat : [r EXCEPT !.rate = @ + part] \in R
  /\ \A x \in C, part \in Nat :
       [code |-> x.code_d, pos |-> Zero, rate |-> part, date_d |-> x.date_d,
        time_d |-> x.time_d] \in R

LEMMA CandsYieldResults == Yields(Cand, Result)
PROOF
<1>1. ASSUME NEW x \in Cand, NEW part \in Nat
      PROVE  [code |-> x.code_d, pos |-> Zero, rate |-> part, date_d |-> x.date_d,
              time_d |-> x.time_d] \in Result
  BY PlaceAssumption DEF Cand, Result
<1> QED
  BY <1>1, RaisedType DEF Yields

LEMMA WeighStays ==
  ASSUME NEW C, NEW R, Yields(C, R), NEW list \in Seq(R),
         NEW c \in [res : C, weight : {10, 6, 3, 1}]
  PROVE  Weigh(list, c) \in Seq(R)
PROOF
<1> DEFINE same == {k \in 1 .. Len(list) : list[k].code = c.res.code_d}
           part == IF endCount = 0 THEN 0 ELSE c.res.count * c.weight
           new  == [code |-> c.res.code_d, pos |-> Zero, rate |-> part,
                    date_d |-> c.res.date_d, time_d |-> c.res.time_d]
<1>1. c.res \in C /\ c.res \in Cand /\ c.weight \in Nat
  BY DEF Yields
<1>2. part \in Nat
  <2>1. c.res.count \in Nat
    BY <1>1 DEF Cand
  <2>2. c.res.count * c.weight \in Nat
    BY <1>1, <2>1
  <2> QED
    BY <2>2
<1> HIDE DEF part
<1>3. new \in R
  BY <1>1, <1>2 DEF Yields
<1>4. same # {} => [list EXCEPT ![CHOOSE k \in same : TRUE].rate = @ + part] \in Seq(R)
  <2> SUFFICES ASSUME same # {}
               PROVE  [list EXCEPT ![CHOOSE k \in same : TRUE].rate = @ + part] \in Seq(R)
    OBVIOUS
  <2> DEFINE k == CHOOSE k \in same : TRUE
  <2>1. k \in 1 .. Len(list)
    OBVIOUS
  <2> HIDE DEF k
  <2>2. list[k] \in R
    BY <2>1
  <2>3. [list[k] EXCEPT !.rate = @ + part] \in R
    BY <1>2, <2>2 DEF Yields
  <2>4. [list EXCEPT ![k] = [list[k] EXCEPT !.rate = @ + part]] \in Seq(R)
    BY <2>1, <2>3
  <2> QED
    BY <2>4 DEF k
<1>5. Append(list, new) \in Seq(R)
  BY <1>3
<1> QED
  BY <1>4, <1>5 DEF Weigh, part

LEMMA WeighType ==
  ASSUME NEW list \in Seq(Result), NEW c \in Share
  PROVE  Weigh(list, c) \in Seq(Result)
BY CandsYieldResults, WeighStays DEF Share

\* list[j] is the list after j candidates.
Listing(cands, list) ==
  /\ list \in [0 .. Len(cands) -> Seq(Result)]
  /\ list[0] = <<>>
  /\ \A j \in 1 .. Len(cands) : list[j] = Weigh(list[j - 1], cands[j])
  /\ Listed(cands) = list[Len(cands)]

LEMMA ListedByTurns ==
  ASSUME NEW cands \in Seq(Share)
  PROVE  \E list : Listing(cands, list)
PROOF
<1> DEFINE n == Len(cands)
           Equation(g) == g = [j \in 0 .. n |->
                                 IF j = 0 THEN <<>> ELSE Weigh(g[j - 1], cands[j])]
           list == CHOOSE g : Equation(g)
           step == [x \in Seq(Result) \X (1 .. n) |-> Weigh(x[1], cands[x[2]])]
<1>1. n \in Nat /\ \A j \in 1 .. n : cands[j] \in Share
  OBVIOUS
<1>2. <<>> \in Seq(Result)
  OBVIOUS
<1>3. Listed(cands) = list[n]
  BY DEF Listed
<1> HIDE DEF n
<1>4. step \in [Seq(Result) \X (1 .. n) -> Seq(Result)]
  BY <1>1, WeighType
<1>5. PICK g : Turns(g, Seq(Result), n, <<>>, step)
  <2> HIDE DEF step
  <2> QED
    BY <1>1, <1>2, <1>4, Loop, Zenon
<1>6. Equation(g)
  <2>1. ASSUME NEW j \in 0 .. n, j # 0
        PROVE  step[<<g[j - 1], j>>] = Weigh(g[j - 1], cands[j])
    <3>1. j \in 1 .. n /\ j - 1 \in 0 .. n
      BY <1>1, <2>1
    <3>2. g[j - 1] \in Seq(Result)
      BY <1>5, <3>1, Zenon DEF Turns
    <3> QED
      BY <3>1, <3>2
  <2> HIDE DEF step
  <2>2. [j \in 0 .. n |-> IF j = 0 THEN <<>> ELSE step[<<g[j - 1], j>>]]
          = [j \in 0 .. n |-> IF j = 0 THEN <<>> ELSE Weigh(g[j - 1], cands[j])]
    BY <2>1
  <2> QED
    BY <1>5, <2>2, Zenon DEF Turns
<1>7. Equation(list)
  <2> HIDE DEF Equation
  <2> QED
    BY <1>6, Zenon
<1> HIDE DEF list
<1>8. list[0] = <<>> /\ \A j \in 1 .. n : list[j] = Weigh(list[j - 1], cands[j])
  BY <1>1, <1>7
<1> DEFINE T == {j \in 0 .. n : list[j] \in Seq(Result)}
<1>9. \A j \in 0 .. n : j \in T
  <2>1. 0 \in T
    <3>1. 0 \in 0 .. n
      BY <1>1
    <3>2. list[0] \in Seq(Result)
      BY <1>8, <1>2, Zenon
    <3> QED
      BY <3>1, <3>2
  <2>2. ASSUME NEW j \in 1 .. n, j - 1 \in T PROVE j \in T
    <3>1. list[j - 1] \in Seq(Result) /\ cands[j] \in Share /\ j \in 0 .. n
      BY <1>1, <2>2
    <3>2. Weigh(list[j - 1], cands[j]) \in Seq(Result)
      BY <3>1, WeighType, Zenon
    <3> QED
      BY <1>8, <3>1, <3>2
  <2> HIDE DEF T
  <2> QED
    BY <1>1, <2>1, <2>2, Upward
<1>10. list \in [0 .. n -> Seq(Result)]
  BY <1>7, <1>9
<1>11. Listing(cands, list)
  BY <1>3, <1>8, <1>10 DEF Listing, n
<1> QED
  BY <1>11

\* A list of candidates of C is one of results of R.
LEMMA ListedStays ==
  ASSUME NEW C, NEW R, Yields(C, R),
         NEW cands \in Seq([res : C, weight : {10, 6, 3, 1}])
  PROVE  Listed(cands) \in Seq(R)
PROOF
<1> DEFINE Shares == [res : C, weight : {10, 6, 3, 1}]
<1>0. Shares \subseteq Share /\ cands \in Seq(Shares)
  BY DEF Share, Yields
<1>1. cands \in Seq(Share) /\ Len(cands) \in Nat /\ \A j \in 1 .. Len(cands) : cands[j] \in Shares
  <2> HIDE DEF Shares
  <2> QED
    BY <1>0
<1>2. PICK list : Listing(cands, list)
  BY <1>1, ListedByTurns
<1> DEFINE T == {j \in 0 .. Len(cands) : list[j] \in Seq(R)}
<1>3. 0 \in T
  <2>1. <<>> \in Seq(R)
    OBVIOUS
  <2> QED
    BY <1>1, <1>2, <2>1 DEF Listing
<1>4. ASSUME NEW j \in 1 .. Len(cands), j - 1 \in T PROVE j \in T
  <2>1. cands[j] \in [res : C, weight : {10, 6, 3, 1}] /\ j \in 0 .. Len(cands)
    BY <1>1
  <2>2. list[j - 1] \in Seq(R)
    BY <1>4
  <2>3. Weigh(list[j - 1], cands[j]) \in Seq(R)
    BY <2>1, <2>2, WeighStays
  <2> QED
    BY <1>2, <2>1, <2>3 DEF Listing
<1>5. Len(cands) \in T
  <2> HIDE DEF T
  <2>1. \A j \in 0 .. Len(cands) : j \in T
    BY <1>1, <1>3, <1>4, Upward
  <2> QED
    BY <1>1, <2>1
<1> QED
  BY <1>2, <1>5 DEF Listing

LEMMA ListedType ==
  ASSUME NEW cands \in Seq(Share)
  PROVE  Listed(cands) \in Seq(Result)
BY CandsYieldResults, ListedStays DEF Share

\* Sorting makes a list of the same destinations.
LEMMA RankedType ==
  ASSUME NEW R, NEW list \in Seq(R), NEW s \in Ranked(list)
  PROVE  s \in Seq(R)
PROOF
<1>1. IsFiniteSet(1 .. Len(list))
  BY FS_Interval
<1>2. ToSet(list) = {list[i] : i \in 1 .. Len(list)} /\ ToSet(list) \subseteq R
  BY DEF ToSet
<1>3. IsFiniteSet(ToSet(list))
  <2> DEFINE f == [i \in 1 .. Len(list) |-> list[i]]
  <2>1. f \in Surjection(1 .. Len(list), ToSet(list))
    BY <1>2 DEF Surjection
  <2> QED
    BY <1>1, <2>1, FS_Surjection
<1>4. Cardinality(ToSet(list)) \in Nat
  BY <1>3, FS_CardinalityType
<1>5. s \in [1 .. Cardinality(ToSet(list)) -> ToSet(list)]
  BY DEF Ranked, SetToSeqs
<1> DEFINE m == Cardinality(ToSet(list))
<1>6. m \in Nat /\ s \in [1 .. m -> R]
  BY <1>2, <1>4, <1>5
<1> HIDE DEF m
<1> QED
  BY <1>6, SeqDef

-----------------------------------------------------------------------------
(* The types.                                                              *)

SaveState == [pc : {"idle", "count", "put", "write"}, k : 1 .. 4, rec : Trips]
AskState ==
  [pc : {"idle", "read", "rate", "done"}, k : 1 .. 4, vecCate : [1 .. 4 -> Seq(Cand)],
   text : Messages \cup {NoText}, first : Trips, known : Nat, total : Int]

Types ==
  /\ mBehav \in Full /\ endCount \in Int /\ heap \in Int
  /\ mGpsPosVec \in Seq(GPS_POS) /\ mInitPosVecSize \in 0 .. Len(mGpsPosVec)
  /\ mGetFirstGPSSig \in {0, 1} /\ mCurGPS \in Readings
  /\ mFirstGPS \in Trips /\ mStart \in Place /\ mGpsRetLst \in Seq(Result)
  /\ saver \in SaveState
  /\ asker \in AskState
  /\ behFile \in Seq(Trips) /\ posFile \in Seq(Place)
  /\ begun \in [pos : Place, asked : BOOLEAN]
  \* Drawers are read for a clock reading, not for the zeroed record.
  /\ asker.pc = "read" => ClockOf(mFirstGPS) \in Clocks

LEMMA TypesImply == Types => TypeOK
PROOF
<1> SUFFICES ASSUME Types PROVE TypeOK
  OBVIOUS
<1>1. mBehav \in [Cells -> Seq(Entry)]
  <2>1. Seq(Kept) \subseteq Seq(Entry)
    BY DEF Kept
  <2> QED
    BY <2>1 DEF Types, Full
<1>2. Trips \subseteq Behavior
  BY DEF Trips
<1>3. behFile \in Seq(Behavior)
  BY <1>2 DEF Types
<1> QED
  BY <1>1, <1>2, <1>3 DEF Types, TypeOK, SaveState, AskState

\* The clock of a record that is not zeroed.
LEMMA ClockRead ==
  ASSUME NEW b \in Trips, b.date # 0
  PROVE  ClockOf(b) \in Clocks
BY DEF Trips, Readings, NoClock, ClockOf

LEMMA ClocksAre ==
  ASSUME NEW now \in Clocks
  PROVE  /\ now = [date |-> now.date, time |-> now.time]
         /\ now.date \in Date /\ now.time \in Time /\ now.date \in Nat /\ now.time \in Nat
BY PredictorAssumption DEF Date, Time

\* A record with the date and time of a reading is one that begins then.
LEMMA ClockedTrip ==
  ASSUME NEW b \in Behavior, NEW now \in Readings, b.date = now.date, b.time = now.time,
         b.time_d \in Time
  PROVE  b \in Trips
PROOF
<1>1. now = [date |-> now.date, time |-> now.time]
  BY ClocksAre DEF Readings, NoClock
<1> QED
  BY <1>1 DEF Trips, ClockOf

LEMMA FirstFixTrip ==
  ASSUME NEW code \in Code, NEW now \in Clocks
  PROVE  [NoBehavior EXCEPT !.code_s = code, !.date = now.date, !.time = now.time] \in Trips
PROOF
<1> DEFINE b == [NoBehavior EXCEPT !.code_s = code, !.date = now.date, !.time = now.time]
<1>1. b \in Behavior /\ b.date = now.date /\ b.time = now.time /\ b.time_d = 0
  BY Zeroed, ClocksAre DEF NoBehavior, Behavior
<1> HIDE DEF b
<1>2. b \in Trips
  BY <1>1, Zeroed, ClockedTrip DEF Readings
<1> QED
  BY <1>2 DEF b

LEMMA AskedTrip ==
  ASSUME NEW f \in Trips, NEW code \in Code, NEW now \in Clocks
  PROVE  LET b == [f EXCEPT !.code_s = code, !.date = now.date, !.time = now.time]
         IN  b \in Trips /\ ClockOf(b) = now
PROOF
<1> DEFINE b == [f EXCEPT !.code_s = code, !.date = now.date, !.time = now.time]
<1>1. /\ b \in Behavior /\ b.date = now.date /\ b.time = now.time /\ b.time_d = f.time_d
      /\ f.time_d \in Time
  BY ClocksAre DEF Trips, Behavior
<1> HIDE DEF b
<1>2. b \in Trips
  BY <1>1, ClockedTrip DEF Readings
<1>3. ClockOf(b) = now
  BY <1>1, ClocksAre DEF ClockOf
<1> QED
  BY <1>2, <1>3 DEF b

\* The record of the callback.
LEMMA LastFixTrip ==
  ASSUME NEW code_s \in Code, NEW code_d \in Code, NEW now \in Readings, NEW time \in Time
  PROVE  [code_s |-> code_s, code_d |-> code_d, date |-> now.date, time |-> now.time,
          time_d |-> time, count |-> 0] \in Trips
PROOF
<1> DEFINE b == [code_s |-> code_s, code_d |-> code_d, date |-> now.date,
                 time |-> now.time, time_d |-> time, count |-> 0]
<1>1. now.date \in Nat /\ now.time \in Nat
  BY ClocksAre DEF Readings, NoClock
<1>2. time \in Nat
  BY DEF Time
<1>3. b \in Behavior /\ b.date = now.date /\ b.time = now.time /\ b.time_d = time
  BY <1>1, <1>2 DEF Behavior
<1> HIDE DEF b
<1> QED
  BY <1>3, ClockedTrip DEF b

\* A table keeps its types, and what a code is decoded to is a place.
LEMMA DecodedType ==
  ASSUME NEW vec \in Seq(GPS_POS), NEW code
  PROVE  getLatLonByCode(vec, code) \in Place
PROOF
<1> DEFINE hits == {i \in 1 .. Len(vec) : vec[i].code = code}
<1>1. \A i \in 1 .. Len(vec) : vec[i].pos \in Place
  <2>1. \A i \in 1 .. Len(vec) : vec[i] \in GPS_POS
    OBVIOUS
  <2> QED
    BY <2>1 DEF GPS_POS
<1>2. hits # {} => (CHOOSE i \in hits : \A j \in hits : i <= j) \in hits
  <2>1. hits \in SUBSET Nat
    OBVIOUS
  <2> HIDE DEF hits
  <2> QED
    BY <2>1, LeastExists
<1>3. vec # <<>> => vec[Len(vec)].pos \in Place
  BY <1>1
<1> HIDE DEF hits
<1>4. \A i \in hits : i \in 1 .. Len(vec)
  BY DEF hits
<1> QED
  BY <1>1, <1>2, <1>3, <1>4, PlaceAssumption DEF getLatLonByCode, hits

\* What the coordinates of a message make of the start.
LEMMA AskedPlace ==
  ASSUME NEW text \in Messages, NEW param, NEW x \in Coord
  PROVE  ValidateJsonDouble(param, ParseJsonString(text).root, x).out \in Coord
BY PredictorAssumption DEF ValidateJsonDouble, Validate, ParseJsonString, get, empty, nullValue

\* What the two threads' states become.
LEMMA SaverIdleType == SaverIdle \in SaveState
BY Zeroed DEF SaverIdle, SaveState

LEMMA SaverStates ==
  ASSUME NEW rec \in Trips, NEW s \in SaveState
  PROVE  /\ SaverIdle \in SaveState
         /\ [SaverIdle EXCEPT !.pc = "count", !.rec = rec] \in SaveState
         /\ [s EXCEPT !.pc = "put"] \in SaveState
         /\ [s EXCEPT !.pc = "write"] \in SaveState
         /\ s.k < 4 => [s EXCEPT !.k = @ + 1] \in SaveState
PROOF
<1>1. SaverIdle \in SaveState
  BY SaverIdleType
<1>2. ASSUME NEW r \in SaveState PROVE [r EXCEPT !.pc = "count", !.rec = rec] \in SaveState
  BY DEF SaveState
<1>3. [s EXCEPT !.pc = "put"] \in SaveState /\ [s EXCEPT !.pc = "write"] \in SaveState
  BY DEF SaveState
<1>4. s.k < 4 => [s EXCEPT !.k = @ + 1] \in SaveState
  BY DEF SaveState
<1> QED
  BY <1>1, <1>2, <1>3, <1>4

LEMMA NothingCollected == NoCandidates \in [1 .. 4 -> Seq(Cand)]
PROOF
<1>1. <<>> \in Seq(Cand)
  OBVIOUS
<1> QED
  BY <1>1 DEF NoCandidates

LEMMA AskerIdleType == AskerIdle \in AskState /\ AskerIdle.pc = "idle"
PROOF
<1>1. 0 \in Nat /\ 0 \in Int /\ 1 \in 1 .. 4
  OBVIOUS
<1> QED
  BY <1>1, NothingCollected, Zeroed DEF AskerIdle, AskState

LEMMA AskerAsked ==
  ASSUME NEW text \in Messages, NEW first \in Trips, NEW known \in Nat
  PROVE  [AskerIdle EXCEPT !.pc = "read", !.text = text, !.first = first,
                           !.known = known] \in AskState
PROOF
<1>1. ASSUME NEW a \in AskState
      PROVE  [a EXCEPT !.pc = "read", !.text = text, !.first = first, !.known = known]
               \in AskState
  BY DEF AskState
<1> QED
  BY <1>1, AskerIdleType

LEMMA AskerPrinted ==
  ASSUME NEW first \in Trips, NEW known \in Nat, NEW total \in Int
  PROVE  LET b == [AskerIdle EXCEPT !.pc = "done", !.first = first, !.known = known,
                                    !.total = total]
         IN  b \in AskState /\ b.pc = "done"
PROOF
<1>1. ASSUME NEW a \in AskState
      PROVE  LET b == [a EXCEPT !.pc = "done", !.first = first, !.known = known,
                                !.total = total]
             IN  b \in AskState /\ b.pc = "done"
  BY DEF AskState
<1> QED
  BY <1>1, AskerIdleType

LEMMA AskerRead ==
  ASSUME NEW a \in AskState, NEW cands \in Seq(Cand)
  PROVE  [a EXCEPT !.vecCate[a.k] = cands, !.k = IF a.k < 4 THEN @ + 1 ELSE 1,
                   !.pc = IF a.k < 4 THEN @ ELSE "rate"] \in AskState
PROOF
<1> DEFINE cate == [a.vecCate EXCEPT ![a.k] = cands]
           k1   == IF a.k < 4 THEN a.k + 1 ELSE 1
           pc1  == IF a.k < 4 THEN a.pc ELSE "rate"
<1>1. a.vecCate \in [1 .. 4 -> Seq(Cand)] /\ a.k \in 1 .. 4
  BY DEF AskState
<1>2. cate \in [1 .. 4 -> Seq(Cand)]
  BY <1>1
<1>3. k1 \in 1 .. 4
  BY <1>1
<1>4. pc1 \in {"idle", "read", "rate", "done"}
  BY DEF AskState
<1>5. [a EXCEPT !.vecCate[a.k] = cands, !.k = IF a.k < 4 THEN @ + 1 ELSE 1,
                !.pc = IF a.k < 4 THEN @ ELSE "rate"]
        = [a EXCEPT !.vecCate = cate, !.k = k1, !.pc = pc1]
  BY DEF AskState
<1> HIDE DEF cate, k1, pc1
<1>6. [a EXCEPT !.vecCate = cate, !.k = k1, !.pc = pc1] \in AskState
  BY <1>2, <1>3, <1>4 DEF AskState
<1> QED
  BY <1>5, <1>6

LEMMA AskerRated ==
  ASSUME NEW a \in AskState, NEW total \in Int
  PROVE  LET b == [a EXCEPT !.pc = "done", !.vecCate = NoCandidates, !.text = NoText,
                            !.total = total]
         IN  b \in AskState /\ b.pc = "done"
BY NothingCollected DEF AskState

LEMMA TypesInit == Init => Types
PROOF
<1> SUFFICES ASSUME Init PROVE Types
  OBVIOUS
<1>1. mBehav \in Full
  <2>1. <<>> \in Seq(Trips)
    OBVIOUS
  <2> QED
    BY <2>1, LoadedKept DEF Init
<1>3. saver \in SaveState
  BY SaverIdleType DEF Init
<1>5. asker \in AskState /\ asker.pc = "idle"
  BY AskerIdleType DEF Init
<1>6. /\ mGpsPosVec \in Seq(GPS_POS) /\ Len(mGpsPosVec) = 0
      /\ mInitPosVecSize = 0 /\ behFile \in Seq(Trips) /\ posFile \in Seq(Place)
      /\ mGpsRetLst \in Seq(Result)
  BY DEF Init
<1>7. /\ heap \in Int /\ endCount \in Int /\ mStart \in Place /\ begun.pos \in Place
      /\ begun \in [pos : Place, asked : BOOLEAN]
  BY PredictorAssumption, PlaceAssumption DEF Init
<1>8. mCurGPS \in Readings /\ mFirstGPS \in Trips /\ mGetFirstGPSSig \in {0, 1}
  BY Zeroed DEF Init, Readings
<1> QED
  BY <1>1, <1>3, <1>5, <1>6, <1>7, <1>8 DEF Types

LEMMA TypesStep == Types /\ [Next]_vars => Types'
PROOF
<1> SUFFICES ASSUME Types, [Next]_vars PROVE Types'
  OBVIOUS
<1> USE DEF Types
<1>1. CASE Restart
  <2> DEFINE recs == IF behFile = <<>> THEN <<>> ELSE Append(behFile, NoBehavior)
             pos  == IF posFile = <<>> THEN <<>> ELSE Append(posFile, Zero)
             table1 == [k \in 1 .. Len(pos) |-> [code |-> ToShort(k - 1), pos |-> pos[k]]]
  <2>1. mBehav' \in Full
    BY <1>1, LoadedKept DEF Restart
  <2>3. SaverIdle \in SaveState /\ AskerIdle \in AskState /\ AskerIdle.pc = "idle"
    BY SaverStates, AskerIdleType, Zeroed
  <2>5. Len(recs) \in Nat
    BY Zeroed
  <2>6. pos \in Seq(Place) /\ Len(pos) \in Nat
    BY PlaceAssumption
  <2>7. table1 \in Seq(GPS_POS) /\ Len(table1) = Len(pos)
    <3> HIDE DEF pos
    <3>1. ASSUME NEW k \in 1 .. Len(pos)
          PROVE  [code |-> ToShort(k - 1), pos |-> pos[k]] \in GPS_POS
      <4>1. k - 1 \in Int /\ pos[k] \in Place
        BY <2>6
      <4> QED
        BY <4>1, ToShortType DEF GPS_POS
    <3> QED
      BY <2>6, <3>1
  <2>8. /\ heap' \in Int /\ endCount' = heap' + Len(recs)
        /\ mGpsPosVec' = table1 /\ mInitPosVecSize' = Len(pos)
    BY <1>1, PredictorAssumption DEF Restart, Counted
  <2>9. /\ mGetFirstGPSSig' = 0 /\ mCurGPS' = NoClock /\ mFirstGPS' = NoBehavior
        /\ mStart' \in Place /\ mGpsRetLst' = <<>>
        /\ saver' = SaverIdle /\ asker' = AskerIdle
        /\ begun' = [pos |-> Zero, asked |-> FALSE] /\ UNCHANGED <<behFile, posFile>>
    BY <1>1, PredictorAssumption DEF Restart, disk
  <2>10. begun' \in [pos : Place, asked : BOOLEAN] /\ mCurGPS' \in Readings
    BY <2>9, PlaceAssumption DEF Readings
  <2> HIDE DEF recs, pos, table1
  <2>11. mInitPosVecSize' \in 0 .. Len(mGpsPosVec') /\ endCount' \in Int
    BY <2>5, <2>6, <2>7, <2>8
  <2> QED
    BY <2>1, <2>3, <2>7, <2>8, <2>9, <2>10, <2>11, Zeroed
<1>2. ASSUME NEW p \in Stops, NEW now \in Clocks, FirstFix(p, now) PROVE Types'
  <2> DEFINE i == SearchPos(mGpsPosVec, Len(mGpsPosVec), p)
  <2>1. p \in Place /\ i \in 0 .. Len(mGpsPosVec) /\ i \in Nat /\ Len(mGpsPosVec) \in Nat
    BY PredictorAssumption, SearchPosBounds
  <2>2. ToShort(i) \in Code
    BY <2>1, ToShortType
  <2>3. /\ mGpsPosVec' = AddPos(mGpsPosVec, i, Len(mGpsPosVec), p)
        /\ mFirstGPS' = [NoBehavior EXCEPT !.code_s = ToShort(i),
                                           !.date = now.date, !.time = now.time]
    BY <1>2 DEF FirstFix
  <2> HIDE DEF i
  <2>4. mGpsPosVec' \in Seq(GPS_POS) /\ Len(mGpsPosVec') >= Len(mGpsPosVec)
    <3>1. mGpsPosVec' \in Seq(GPS_POS)
      BY <2>1, <2>3, AddPosType
    <3> QED
      BY <2>1, <2>3, <3>1 DEF AddPos
  <2>5. mFirstGPS' \in Trips
    BY <2>2, <2>3, FirstFixTrip
  <2>6. mCurGPS' \in Readings /\ mGetFirstGPSSig' = 1 /\ asker.pc # "read"
    BY <1>2 DEF FirstFix, Readings, Idle
  <2>7. begun' \in [pos : Place, asked : BOOLEAN]
    BY <1>2, <2>1 DEF FirstFix
  <2>8. UNCHANGED <<mBehav, endCount, mInitPosVecSize, mStart, mGpsRetLst, saver,
                    asker, behFile, posFile, heap>>
    BY <1>2 DEF FirstFix, disk
  <2> QED
    BY <2>1, <2>4, <2>5, <2>6, <2>7, <2>8
<1>3. ASSUME NEW p \in Stops, NEW time \in Arrivals, LastFix(p, time) PROVE Types'
  <2> DEFINE i == SearchPos(mGpsPosVec, Len(mGpsPosVec), p)
             rec == [code_s |-> mFirstGPS.code_s, code_d |-> ToShort(i),
                 date |-> mCurGPS.date, time |-> mCurGPS.time,
                 time_d |-> time, count |-> 0]
  <2>1. p \in Place /\ i \in 0 .. Len(mGpsPosVec) /\ i \in Nat /\ Len(mGpsPosVec) \in Nat
    BY PredictorAssumption, SearchPosBounds
  <2>2. ToShort(i) \in Code /\ mFirstGPS.code_s \in Code /\ time \in Time
    BY <2>1, ToShortType, PredictorAssumption DEF Trips, Behavior
  <2>3. rec \in Trips
    BY <2>2, LastFixTrip
  <2>4. /\ mGpsPosVec' = AddPos(mGpsPosVec, i, Len(mGpsPosVec), p)
        /\ saver' = [SaverIdle EXCEPT !.pc = "count", !.rec = rec]
    BY <1>3 DEF LastFix
  <2> HIDE DEF i, rec
  <2>5. mGpsPosVec' \in Seq(GPS_POS) /\ Len(mGpsPosVec') >= Len(mGpsPosVec)
    <3>1. mGpsPosVec' \in Seq(GPS_POS)
      BY <2>1, <2>4, AddPosType
    <3> QED
      BY <2>1, <2>4, <3>1 DEF AddPos
  <2>6. saver' \in SaveState
    BY <2>3, <2>4, SaverStates
  <2>7. UNCHANGED <<mBehav, endCount, mInitPosVecSize, mGetFirstGPSSig, mCurGPS, begun,
                    mFirstGPS, mStart, mGpsRetLst, asker, behFile, posFile, heap>>
    BY <1>3 DEF LastFix, disk, trip, bound
  <2> QED
    BY <2>1, <2>5, <2>6, <2>7

<1>4. CASE SaveCount
  <2>1. endCount' \in Int
    BY <1>4 DEF SaveCount, Counted
  <2>2. saver' \in SaveState
    BY <1>4, SaverStates, Zeroed DEF SaveCount
  <2> QED
    BY <1>4, <2>1, <2>2 DEF SaveCount, table, trip, disk, bound
<1>5. CASE SavePut
  <2>1. saver.rec \in Trips /\ saver.k \in 1 .. 4 /\ mBehav \in [Cells -> Seq(Kept)]
    BY DEF Full, SaveState
  <2> DEFINE c == DrawersOf(saver.rec)[saver.k]
  <2>2. c \in Cells
    BY <2>1, DrawersInUse DEF Trips
  <2>3. mBehav' = [mBehav EXCEPT ![c] = putInDrawer(mBehav[c], saver.rec)]
    BY <1>5 DEF SavePut
  <2> HIDE DEF c
  <2>4. putInDrawer(mBehav[c], saver.rec) \in Seq(Kept)
    <3>1. mBehav[c] \in Seq(Kept)
      BY <2>1, <2>2
    <3> QED
      BY <2>1, <3>1, PutKept
  <2>5. mBehav' \in Full
    BY <2>1, <2>2, <2>3, <2>4 DEF Full
  <2>6. saver' \in SaveState
    BY <1>5, <2>1, SaverStates DEF SavePut
  <2> QED
    BY <1>5, <2>5, <2>6 DEF SavePut, table, trip, disk, bound
<1>6. CASE SaveWrite
  <2> DEFINE new == [k \in 1 .. Len(mGpsPosVec) - mInitPosVecSize |->
                              mGpsPosVec[mInitPosVecSize + k].pos]
  <2>1. new \in Seq(Place)
    <3>1. ASSUME NEW k \in 1 .. Len(mGpsPosVec) - mInitPosVecSize
          PROVE  mGpsPosVec[mInitPosVecSize + k].pos \in Place
      <4>1. mInitPosVecSize + k \in 1 .. Len(mGpsPosVec)
        OBVIOUS
      <4>2. mGpsPosVec[mInitPosVecSize + k] \in GPS_POS
        BY <4>1
      <4> QED
        BY <4>2 DEF GPS_POS
    <3>2. Len(mGpsPosVec) - mInitPosVecSize \in Nat
      OBVIOUS
    <3> QED
      BY <3>1, <3>2
  <2>2. posFile' = posFile \o new /\ behFile' = Append(behFile, saver.rec)
    BY <1>6 DEF SaveWrite
  <2> HIDE DEF new
  <2>3. posFile' \in Seq(Place) /\ behFile' \in Seq(Trips)
    BY <2>1, <2>2 DEF SaveState
  <2>4. SaverIdle \in SaveState
    BY Zeroed, SaverStates
  <2> QED
    BY <1>6, <2>3, <2>4 DEF SaveWrite, bound
<1>7. ASSUME NEW text \in Messages, NEW now \in Clocks, predictDestinationAtStart(text, now)
      PROVE  Types'
  <2> DEFINE msg == ParseJsonString(text)
             lat == ValidateJsonDouble("latitude", msg.root, mStart[1]).out
             lon == ValidateJsonDouble("longitude", msg.root, mStart[2]).out
             i == SearchPos(mGpsPosVec, Len(mGpsPosVec), mStart')
  <2>1. mStart' \in Place
    <3>1. mStart[1] \in Coord /\ mStart[2] \in Coord
      BY PredictorAssumption
    <3>2. lat \in Coord /\ lon \in Coord
      BY <3>1, AskedPlace
    <3>3. mStart' = IF msg.ok THEN <<lat, lon>> ELSE mStart
      BY <1>7 DEF predictDestinationAtStart
    <3> QED
      BY <3>2, <3>3, PredictorAssumption
  <2>2. i \in 0 .. Len(mGpsPosVec) /\ i \in Nat /\ Len(mGpsPosVec) \in Nat
    BY SearchPosBounds
  <2>3. ToShort(i) \in Code
    BY <2>2, ToShortType
  <2>4. /\ mGpsPosVec' = AddPos(mGpsPosVec, i, Len(mGpsPosVec), mStart')
        /\ mFirstGPS' = [mFirstGPS EXCEPT !.code_s = ToShort(i),
                                          !.date = now.date, !.time = now.time]
    BY <1>7 DEF predictDestinationAtStart
  <2> HIDE DEF i
  <2>5. mGpsPosVec' \in Seq(GPS_POS) /\ Len(mGpsPosVec') >= Len(mGpsPosVec)
    <3>1. mGpsPosVec' \in Seq(GPS_POS)
      BY <2>1, <2>2, <2>4, AddPosType
    <3> QED
      BY <2>2, <2>4, <3>1 DEF AddPos
  <2>6. mFirstGPS' \in Trips /\ ClockOf(mFirstGPS') \in Clocks
    BY <2>3, <2>4, AskedTrip
  <2>7. asker' \in AskState
    <3>2. asker' = [AskerIdle EXCEPT !.pc = "read", !.text = text,
                                     !.first = mFirstGPS', !.known = Len(behFile)]
      BY <1>7 DEF predictDestinationAtStart
    <3>3. Len(behFile) \in Nat
      OBVIOUS
    <3> QED
      BY <2>6, <3>2, <3>3, AskerAsked
  <2>8. begun' \in [pos : Place, asked : BOOLEAN]
    BY <1>7 DEF predictDestinationAtStart
  <2>9. UNCHANGED <<mBehav, endCount, mInitPosVecSize, mGetFirstGPSSig, mCurGPS,
                    mGpsRetLst, saver, behFile, posFile, heap>>
    BY <1>7 DEF predictDestinationAtStart, disk
  <2> QED
    BY <2>1, <2>2, <2>5, <2>6, <2>7, <2>8, <2>9
<1>8. CASE ReadDrawer
  <2> DEFINE c == DrawersOf(mFirstGPS)[asker.k]
  <2>1. asker.pc = "read" /\ asker.k \in 1 .. 4 /\ ClockOf(mFirstGPS) \in Clocks
    BY <1>8 DEF ReadDrawer, AskState
  <2>2. c \in Cells /\ mBehav[c] \in Seq(Kept)
    BY <2>1, DrawersInUse DEF Full, Readings
  <2>3. PICK date_d \in ArrivalDates(mFirstGPS.date) :
          asker' = [asker EXCEPT
             !.vecCate[asker.k] = getDestRateFromDraw(mBehav[c], mFirstGPS, date_d),
             !.k = IF asker.k < 4 THEN @ + 1 ELSE 1,
             !.pc = IF asker.k < 4 THEN @ ELSE "rate"]
    BY <1>8 DEF ReadDrawer
  <2>4. date_d \in Nat
    <3>1. mFirstGPS.date \in Date
      BY <2>1, ClocksAre DEF ClockOf
    <3> QED
      BY <3>1, ArrivalDatesType
  <2> HIDE DEF c
  <2>5. getDestRateFromDraw(mBehav[c], mFirstGPS, date_d) \in Seq(Cand)
    BY <2>2, <2>4, DestRateCands
  <2>6. asker' \in AskState
    BY <2>3, <2>5, AskerRead
  <2> QED
    BY <1>8, <2>1, <2>6 DEF ReadDrawer, table, trip, disk, bound
<1>9. CASE Rate
  <2>1. Weighted(asker.vecCate) \in Seq(Share)
    BY WeightedShares DEF AskState
  <2>2. Listed(Weighted(asker.vecCate)) \in Seq(Result)
    BY <2>1, ListedType
  <2>3. mGpsRetLst' \in Ranked(Listed(Weighted(asker.vecCate)))
    BY <1>9 DEF Rate
  <2>4. mGpsRetLst' \in Seq(Result)
    BY <2>2, <2>3, RankedType
  <2>5. asker' = [asker EXCEPT !.pc = "done", !.vecCate = NoCandidates,
                             !.text = NoText, !.total = endCount]
    BY <1>9 DEF Rate
  <2>7. asker' \in AskState /\ asker'.pc = "done"
    BY <2>5, AskerRated
  <2> QED
    BY <1>9, <2>4, <2>7 DEF Rate, table, trip, disk, bound
<1>10. CASE printResult
  <2> DEFINE cells == DrawersOf(mFirstGPS)
             cate(date_d) == [k \in 1 .. 4 |->
                               getDestRateFromDraw(mBehav[cells[k]], mFirstGPS, date_d)]
  <2>1. ClockOf(mFirstGPS) \in Clocks
    BY <1>10, ClockRead DEF printResult
  <2>2. mFirstGPS.date \in Date
    BY <2>1, ClocksAre DEF ClockOf
  <2>a. PICK date_d \in ArrivalDates(mFirstGPS.date) :
          \E list \in Ranked(Listed(Weighted(cate(date_d)))) :
            mGpsRetLst' = [k \in 1 .. Len(list) |->
               [list[k] EXCEPT !.pos = getLatLonByCode(mGpsPosVec, list[k].code)]]
    BY <1>10 DEF printResult
  <2>3. PICK list \in Ranked(Listed(Weighted(cate(date_d)))) :
          mGpsRetLst' = [k \in 1 .. Len(list) |->
               [list[k] EXCEPT !.pos = getLatLonByCode(mGpsPosVec, list[k].code)]]
    BY <2>a
  <2>4. cate(date_d) \in [1 .. 4 -> Seq(Cand)]
    <3>1. date_d \in Nat
      BY <2>2, ArrivalDatesType
    <3>2. ASSUME NEW k \in 1 .. 4
          PROVE  getDestRateFromDraw(mBehav[cells[k]], mFirstGPS, date_d) \in Seq(Cand)
      <4>1. cells[k] \in Cells
        BY <2>1, DrawersInUse DEF Readings
      <4>2. mBehav[cells[k]] \in Seq(Kept)
        BY <4>1 DEF Full
      <4> QED
        BY <3>1, <4>2, DestRateCands
    <3> QED
      BY <3>2
  <2> HIDE DEF cate
  <2>5. list \in Seq(Result)
    BY <2>4, WeightedShares, ListedType, RankedType
  <2> DEFINE placed(k) == [list[k] EXCEPT !.pos = getLatLonByCode(mGpsPosVec, list[k].code)]
  <2>6. mGpsRetLst' \in Seq(Result)
    <3>1. ASSUME NEW k \in 1 .. Len(list)
          PROVE  placed(k) \in Result
      <4>1. list[k] \in Result
        BY <2>5
      <4>2. getLatLonByCode(mGpsPosVec, list[k].code) \in Place
        BY DecodedType
      <4> QED
        BY <4>1, <4>2 DEF Result
    <3>2. Len(list) \in Nat
      BY <2>5
    <3>3. mGpsRetLst' = [k \in 1 .. Len(list) |-> placed(k)]
      BY <2>3
    <3> HIDE DEF placed
    <3> QED
      BY <3>1, <3>2, <3>3
  <2>7. asker' = [AskerIdle EXCEPT !.pc = "done", !.first = mFirstGPS,
                                   !.known = Len(behFile), !.total = endCount]
    BY <1>10 DEF printResult
  <2>8. asker' \in AskState /\ asker'.pc = "done"
    <3>1. Len(behFile) \in Nat
      OBVIOUS
    <3> QED
      BY <2>7, <3>1, AskerPrinted
  <2> QED
    BY <1>10, <2>6, <2>8 DEF printResult, table, trip, disk
<1>11. CASE UNCHANGED vars
  BY <1>11 DEF vars, table, trip, disk, bound
<1> QED
  BY <1>1, <1>2, <1>3, <1>4, <1>5, <1>6, <1>7, <1>8, <1>9, <1>10, <1>11 DEF Next, Save

\* The parts of TypeOK hold whatever happens: saving, loading and rating leave
\* counted entries in the drawers and rated destinations in the list.
THEOREM PredictorTypes == Spec => []TypeOK
PROOF
<1>1. Spec => []Types
  BY TypesInit, TypesStep, PTL DEF Spec
<1> QED
  BY <1>1, TypesImply, PTL

-----------------------------------------------------------------------------
(* The place a start code names.                                           *)

\* The search finds p, at the position that code was made of.
Named(vec, p, code) ==
  /\ SearchPos(vec, Len(vec), p) < Len(vec)
  /\ code = ToShort(SearchPos(vec, Len(vec), p))

\* Codes are positions counted from 0.
CodesGiven(vec) == \A k \in 1 .. Len(vec) : vec[k].code = ToShort(k - 1)

\* The table after a search for q and the push that may follow.
Extended(vec, q) == AddPos(vec, SearchPos(vec, Len(vec), q), Len(vec), q)

LEMMA NamedExtended ==
  ASSUME NEW vec \in Seq(GPS_POS), NEW q \in Place
  PROVE  /\ Extended(vec, q) \in Seq(GPS_POS)
         /\ Named(Extended(vec, q), q, ToShort(SearchPos(vec, Len(vec), q)))
         /\ \A p, code : Named(vec, p, code) => Named(Extended(vec, q), p, code)
         /\ CodesGiven(vec) => CodesGiven(Extended(vec, q))
PROOF
<1> DEFINE i == SearchPos(vec, Len(vec), q)
<1>1. i \in 0 .. Len(vec) /\ i \in Nat /\ Len(vec) \in Nat
  BY SearchPosBounds
<1>2. Extended(vec, q) \in Seq(GPS_POS)
  BY <1>1, AddPosType DEF Extended
<1>3. /\ i < Len(Extended(vec, q))
      /\ SearchPos(Extended(vec, q), Len(Extended(vec, q)), q) = i
      /\ \A p : SearchPos(vec, Len(vec), p) < Len(vec) =>
           /\ SearchPos(Extended(vec, q), Len(Extended(vec, q)), p) = SearchPos(vec, Len(vec), p)
           /\ SearchPos(Extended(vec, q), Len(Extended(vec, q)), p) < Len(Extended(vec, q))
  BY SearchPosAdded DEF Extended
<1>4. ASSUME CodesGiven(vec) PROVE CodesGiven(Extended(vec, q))
  <2>1. CASE i # Len(vec)
    BY <1>4, <2>1 DEF Extended, AddPos
  <2>2. CASE i = Len(vec)
    <3> DEFINE e == [code |-> ToShort(i), pos |-> q]
    <3>1. Extended(vec, q) = Append(vec, e)
      BY <2>2 DEF Extended, AddPos
    <3>2. e.code = ToShort(Len(vec))
      BY <2>2
    <3> HIDE DEF e, i
    <3>3. /\ Len(Append(vec, e)) = Len(vec) + 1 /\ Append(vec, e)[Len(vec) + 1] = e
          /\ \A k \in 1 .. Len(vec) : Append(vec, e)[k] = vec[k]
      OBVIOUS
    <3>4. ASSUME NEW k \in 1 .. Len(vec) + 1
          PROVE  Append(vec, e)[k].code = ToShort(k - 1)
      <4>1. CASE k = Len(vec) + 1
        <5>1. k - 1 = Len(vec)
          BY <1>1, <4>1
        <5> QED
          BY <3>2, <3>3, <4>1, <5>1
      <4>2. CASE k # Len(vec) + 1
        <5>1. k \in 1 .. Len(vec)
          BY <1>1, <4>2
        <5> QED
          BY <1>4, <3>3, <5>1 DEF CodesGiven
      <4> QED
        BY <4>1, <4>2
    <3> QED
      BY <3>1, <3>3, <3>4 DEF CodesGiven
  <2> QED
    BY <2>1, <2>2
<1> HIDE DEF i
<1>5. Named(Extended(vec, q), q, ToShort(i))
  BY <1>3 DEF Named
<1>6. ASSUME NEW p, NEW code, Named(vec, p, code) PROVE Named(Extended(vec, q), p, code)
  BY <1>3, <1>6 DEF Named
<1> QED
  BY <1>2, <1>4, <1>5, <1>6 DEF i

\* A named place is the one its code decodes to, while the codes fit a short.
LEMMA NamedDecodes ==
  ASSUME NEW vec \in Seq(GPS_POS), CodesGiven(vec), Len(vec) <= ShortMax + 1,
         NEW p, NEW code, Named(vec, p, code)
  PROVE  isIdenticalPos(getLatLonByCode(vec, code), p)
BY FoundDecodes DEF Named, CodesGiven

CarriesPlace(text) == Carries(text, "latitude") /\ Carries(text, "longitude")
PlaceCarried(text) == <<text.root["latitude"].val, text.root["longitude"].val>>

\* A message with both coordinates is searched for at that place.
LEMMA CarriedIsSearched ==
  ASSUME NEW text, CarriesPlace(text), NEW x, NEW y
  PROVE  LET msg == ParseJsonString(text)
         IN  /\ msg.ok
             /\ <<ValidateJsonDouble("latitude", msg.root, x).out,
                  ValidateJsonDouble("longitude", msg.root, y).out>> = PlaceCarried(text)
BY DEF CarriesPlace, PlaceCarried, Carries, ParseJsonString, ValidateJsonDouble, Validate,
       get, empty, nullValue

Starts ==
  /\ CodesGiven(mGpsPosVec)
  /\ asker.pc # "idle" /\ CarriesPlace(asker.text) =>
       Named(mGpsPosVec, PlaceCarried(asker.text), asker.first.code_s)
  /\ mGetFirstGPSSig = 1 /\ ~begun.asked => Named(mGpsPosVec, begun.pos, mFirstGPS.code_s)
  /\ saver.pc # "idle" => mGetFirstGPSSig = 1
  /\ saver.pc # "idle" /\ ~begun.asked => Named(mGpsPosVec, begun.pos, saver.rec.code_s)

LEMMA StartsInit == Init => Starts
BY DEF Init, Starts, CodesGiven, SaverIdle, AskerIdle

LEMMA NothingCarried == ~CarriesPlace(NoText)
BY DEF CarriesPlace, Carries, NoText

LEMMA StartsStep == Types /\ Types' /\ Starts /\ [Next]_vars => Starts'
PROOF
<1> SUFFICES ASSUME Types, Types', Starts, [Next]_vars PROVE Starts'
  OBVIOUS
<1> USE DEF Starts
<1>t. mGpsPosVec \in Seq(GPS_POS)
  BY DEF Types
<1>1. CASE Restart
  <2> DEFINE pos == IF posFile = <<>> THEN <<>> ELSE Append(posFile, Zero)
  <2>1. pos \in Seq(Place)
    BY PlaceAssumption DEF Types
  <2>2. mGpsPosVec' = [k \in 1 .. Len(pos) |-> [code |-> ToShort(k - 1), pos |-> pos[k]]]
    BY <1>1 DEF Restart
  <2> HIDE DEF pos
  <2>3. CodesGiven(mGpsPosVec')
    <3>1. Len(mGpsPosVec') = Len(pos)
      BY <2>1, <2>2
    <3> QED
      BY <2>2, <3>1 DEF CodesGiven
  <2>4. mGetFirstGPSSig' = 0 /\ saver'.pc = "idle" /\ asker'.pc = "idle"
    BY <1>1 DEF Restart, SaverIdle, AskerIdle
  <2> QED
    BY <2>3, <2>4
<1>2. ASSUME NEW p \in Stops, NEW now \in Clocks, FirstFix(p, now) PROVE Starts'
  <2> DEFINE i == SearchPos(mGpsPosVec, Len(mGpsPosVec), p)
  <2>1. p \in Place /\ mGpsPosVec' = Extended(mGpsPosVec, p)
    BY <1>2, PredictorAssumption DEF FirstFix, Extended
  <2>2. mFirstGPS'.code_s = ToShort(i)
    <3>1. mFirstGPS' = [NoBehavior EXCEPT !.code_s = ToShort(i),
                                          !.date = now.date, !.time = now.time]
      BY <1>2 DEF FirstFix
    <3> QED
      BY <3>1 DEF NoBehavior
  <2>3. begun'.pos = p /\ asker' = asker /\ saver' = saver /\ saver.pc = "idle"
    BY <1>2 DEF FirstFix
  <2> QED
    BY <1>t, <2>1, <2>2, <2>3, NamedExtended
<1>3. ASSUME NEW p \in Stops, NEW time \in Arrivals, LastFix(p, time) PROVE Starts'
  <2>1. p \in Place /\ mGpsPosVec' = Extended(mGpsPosVec, p)
    BY <1>3, PredictorAssumption DEF LastFix, Extended
  <2>2. saver'.rec.code_s = mFirstGPS.code_s
    BY <1>3 DEF LastFix, SaverIdle
  <2>3. UNCHANGED <<mGetFirstGPSSig, begun, mFirstGPS, asker>> /\ mGetFirstGPSSig = 1
    BY <1>3 DEF LastFix, trip
  <2> QED
    BY <1>t, <2>1, <2>2, <2>3, NamedExtended
<1>4. CASE Save
  <2>1. UNCHANGED <<mGpsPosVec, mFirstGPS, begun, asker>>
    BY <1>4 DEF Save, SaveCount, SavePut, SaveWrite, table, trip
  <2>2. CASE SaveWrite
    <3>1. saver'.pc = "idle" /\ mGetFirstGPSSig' = 0
      BY <2>2 DEF SaveWrite, SaverIdle
    <3> QED
      BY <2>1, <3>1
  <2>3. CASE SaveCount \/ SavePut
    <3>1. saver.pc # "idle" /\ mGetFirstGPSSig' = mGetFirstGPSSig
      BY <2>3 DEF SaveCount, SavePut, trip
    <3>2. saver'.rec = saver.rec
      BY <2>3 DEF SaveCount, SavePut, Types, SaveState
    <3> QED
      BY <2>1, <3>1, <3>2
  <2> QED
    BY <1>4, <2>2, <2>3 DEF Save
<1>5. ASSUME NEW text \in Messages, NEW now \in Clocks, predictDestinationAtStart(text, now)
      PROVE  Starts'
  <2> DEFINE msg == ParseJsonString(text)
             lat == ValidateJsonDouble("latitude", msg.root, mStart[1]).out
             lon == ValidateJsonDouble("longitude", msg.root, mStart[2]).out
             i == SearchPos(mGpsPosVec, Len(mGpsPosVec), mStart')
  <2>1. mStart' \in Place /\ mGpsPosVec' = Extended(mGpsPosVec, mStart')
    BY <1>5 DEF predictDestinationAtStart, Extended, Types
  <2>2. mFirstGPS'.code_s = ToShort(i)
    <3>1. mFirstGPS' = [mFirstGPS EXCEPT !.code_s = ToShort(i),
                                         !.date = now.date, !.time = now.time]
      BY <1>5 DEF predictDestinationAtStart
    <3>2. mFirstGPS \in Behavior
      BY DEF Types, Trips
    <3> QED
      BY <3>1, <3>2 DEF Behavior
  <2>3. asker'.text = text /\ asker'.first = mFirstGPS'
    BY <1>5 DEF predictDestinationAtStart, AskerIdle
  <2>4. begun'.asked = TRUE /\ UNCHANGED <<mGetFirstGPSSig, saver>>
    BY <1>5 DEF predictDestinationAtStart, Types
  <2>5. CarriesPlace(text) => mStart' = PlaceCarried(text)
    <3>1. mStart' = IF msg.ok THEN <<lat, lon>> ELSE mStart
      BY <1>5 DEF predictDestinationAtStart
    <3>2. CarriesPlace(text) => msg.ok /\ <<lat, lon>> = PlaceCarried(text)
      BY CarriedIsSearched
    <3> HIDE DEF msg, lat, lon
    <3> QED
      BY <3>1, <3>2
  <2> QED
    BY <1>t, <2>1, <2>2, <2>3, <2>4, <2>5, NamedExtended
<1>6. CASE ReadDrawer
  <2>1. UNCHANGED <<mGpsPosVec, mGetFirstGPSSig, begun, mFirstGPS, saver>> /\ asker.pc = "read"
    BY <1>6 DEF ReadDrawer, table, trip
  <2>2. asker'.text = asker.text /\ asker'.first = asker.first
    BY <1>6 DEF ReadDrawer, Types, AskState
  <2> QED
    BY <2>1, <2>2
<1>7. CASE Rate \/ printResult
  <2>1. UNCHANGED <<mGpsPosVec, mGetFirstGPSSig, mFirstGPS, saver>> /\ begun' = begun
    BY <1>7 DEF Rate, printResult, table, trip
  <2>2. asker'.text = NoText
    BY <1>7 DEF Rate, printResult, Types, AskState, AskerIdle
  <2> QED
    BY <2>1, <2>2, NothingCarried
<1>8. CASE UNCHANGED vars
  BY <1>8 DEF vars, table, trip
<1> QED
  BY <1>1, <1>2, <1>3, <1>4, <1>5, <1>6, <1>7, <1>8 DEF Next

\* While positions fit a short, the start code a prediction is for names the
\* place that the message carries.
THEOREM AskedStartNamed ==
  Spec => [](Len(mGpsPosVec) <= ShortMax + 1 => AskedStartFound)
PROOF
<1>1. Types /\ Starts => (Len(mGpsPosVec) <= ShortMax + 1 => AskedStartFound)
  BY NamedDecodes DEF Types, Starts, AskedStartFound, CarriesPlace, PlaceCarried
<1>2. Spec => [](Types /\ Starts)
  BY TypesInit, TypesStep, StartsInit, StartsStep, PTL DEF Spec
<1> QED
  BY <1>1, <1>2, PTL

\* And the start code of the record being saved names the place where the trip
\* began, if no request came in between.
THEOREM StartCodeKept ==
  Spec => [](Len(mGpsPosVec) <= ShortMax + 1 => StartKeptUnlessAsked)
PROOF
<1>1. Types /\ Starts => (Len(mGpsPosVec) <= ShortMax + 1 => StartKeptUnlessAsked)
  BY NamedDecodes DEF Types, Starts, StartKeptUnlessAsked
<1>2. Spec => [](Types /\ Starts)
  BY TypesInit, TypesStep, StartsInit, StartsStep, PTL DEF Spec
<1> QED
  BY <1>1, <1>2, PTL

-----------------------------------------------------------------------------
(* What a drawer in common says of two records.                            *)

\* Minutes and seconds of a time of the day are below 60.
LEMMA TimeRead ==
  ASSUME NEW x \in Time
  PROVE  /\ TIME_DVT(x).h \in Nat /\ TIME_DVT(x).m \in 0 .. 59 /\ TIME_DVT(x).s \in 0 .. 59
PROOF
<1>1. x \in Nat
  BY DEF Time
<1>2. x \div 10000 \in Nat /\ (x % 10000) \div 100 \in Nat /\ x % 100 \in Nat
  BY <1>1
<1>3. TIME_DVT(x).m < 60 /\ TIME_DVT(x).s < 60
  BY DEF Time
<1> QED
  BY <1>2, <1>3 DEF TIME_DVT

\* A record of a clock that was read.
Real == {b \in Trips : ClockOf(b) \in Clocks}

LEMMA DaysBeforeType ==
  ASSUME NEW y \in Nat, NEW mon \in 1 .. 12
  PROVE  DaysBefore(y, mon) \in Nat
PROOF
<1> DEFINE Equation(g) == g = [i \in 0 .. 12 |-> IF i = 0 THEN 0 ELSE g[i - 1] + daByMon(y)[i]]
           idx  == CHOOSE g : Equation(g)
           step == [x \in Nat \X (1 .. 12) |-> x[1] + daByMon(y)[x[2]]]
<1>1. \A i \in 1 .. 12 : daByMon(y)[i] \in Nat
  BY DEF daByMon
<1>2. step \in [Nat \X (1 .. 12) -> Nat]
  BY <1>1
<1>3. DaysBefore(y, mon) = idx[mon - 1]
  BY DEF DaysBefore
<1>4. PICK g : Turns(g, Nat, 12, 0, step)
  <2> HIDE DEF step
  <2>1. 12 \in Nat /\ 0 \in Nat
    OBVIOUS
  <2> QED
    BY <1>2, <2>1, Loop
<1>5. Equation(g)
  <2>1. ASSUME NEW i \in 0 .. 12, i # 0
        PROVE  step[<<g[i - 1], i>>] = g[i - 1] + daByMon(y)[i]
    <3>1. i \in 1 .. 12 /\ i - 1 \in 0 .. 12
      BY <2>1
    <3>2. g[i - 1] \in Nat
      BY <1>4, <3>1 DEF Turns
    <3> QED
      BY <3>1, <3>2
  <2> HIDE DEF step
  <2>2. [i \in 0 .. 12 |-> IF i = 0 THEN 0 ELSE step[<<g[i - 1], i>>]]
          = [i \in 0 .. 12 |-> IF i = 0 THEN 0 ELSE g[i - 1] + daByMon(y)[i]]
    BY <2>1
  <2> QED
    BY <1>4, <2>2 DEF Turns
<1>6. Equation(idx)
  <2> HIDE DEF Equation
  <2> QED
    BY <1>5, Zenon
<1> HIDE DEF idx
<1>7. idx[0] = 0 /\ \A i \in 1 .. 12 : idx[i] = idx[i - 1] + daByMon(y)[i]
  BY <1>6
<1> HIDE DEF Equation
<1> DEFINE T == {i \in 0 .. 12 : idx[i] \in Nat}
<1>8. \A i \in 0 .. 12 : i \in T
  <2>1. 0 \in T
    BY <1>7
  <2>2. ASSUME NEW i \in 1 .. 12, i - 1 \in T PROVE i \in T
    BY <1>1, <1>7, <2>2
  <2> HIDE DEF T
  <2>3. 12 \in Nat
    OBVIOUS
  <2> QED
    BY <2>1, <2>2, <2>3, Upward
<1> QED
  BY <1>3, <1>8

\* The index of a day of the calendar, and its weekday.
LEMMA DayNumbers ==
  ASSUME NEW y \in Nat, NEW m \in 1 .. 12, NEW d \in 1 .. 31
  PROVE  CaculateWeekDay(y, m, d) \in 0 .. 6 /\ getIdxOfDate(y, m, d) \in Nat
PROOF
<1>1. CaculateWeekDay(y, m, d) \in 0 .. 6
  BY DEF CaculateWeekDay
<1>2. DaysBefore(y, m) \in Nat
  BY DaysBeforeType
<1>3. getIdxOfDate(y, m, d) \in Nat
  BY <1>2 DEF getIdxOfDate
<1> QED
  BY <1>1, <1>3

\* Two digits, and two more, below the rest.
LEMMA Digits ==
  ASSUME NEW n \in Nat
  PROVE  YEAR_MON_DATE_CVT(n \div 10000, (n % 10000) \div 100, n % 100) = n
PROOF
<1> DEFINE a == n \div 10000
           r == n % 10000
           b == r \div 100
           s == r % 100
<1>1. a \in Nat /\ r \in Nat /\ n = a * 10000 + r
  OBVIOUS
<1> HIDE DEF a, r
<1>2. b \in Nat /\ s \in 0 .. 99 /\ r = b * 100 + s
  BY <1>1
<1> HIDE DEF b, s
<1>3. n = (a * 100 + b) * 100 + s
  BY <1>1, <1>2
<1>4. n % 100 = s
  BY <1>1, <1>2, <1>3
<1>5. a * 10000 + b * 100 + s = n
  BY <1>1, <1>2, <1>3
<1>6. YEAR_MON_DATE_CVT(a, b, s) = n
  BY <1>5 DEF YEAR_MON_DATE_CVT
<1> QED
  BY <1>4, <1>6 DEF a, b, r

\* A date decodes to its year, month and day.
LEMMA DateRead ==
  ASSUME NEW date \in Date
  PROVE  LET t == YEAR_MON_DATE_DVT(date)
         IN  /\ t.y \in Nat /\ t.m \in 1 .. 12 /\ t.d \in 1 .. 31
             /\ t.d <= daByMon(t.y)[t.m]
             /\ YEAR_MON_DATE_CVT(t.y, t.m, t.d) = date
PROOF
<1> DEFINE t == YEAR_MON_DATE_DVT(date)
<1>1. date \in Nat /\ t.m \in 1 .. 12 /\ t.d \in 1 .. daByMon(t.y)[t.m]
  BY DEF Date
<1>2. t.y = date \div 10000 /\ t.m = (date % 10000) \div 100 /\ t.d = date % 100
  BY DEF YEAR_MON_DATE_DVT
<1>4. t.y \in Nat /\ t.d \in Nat
  BY <1>1, <1>2
<1>5. daByMon(t.y)[t.m] \in 28 .. 31
  <2> HIDE DEF t
  <2> QED
    BY <1>1 DEF daByMon
<1>6. YEAR_MON_DATE_CVT(t.y, t.m, t.d) = date
  BY <1>1, <1>2, Digits
<1> HIDE DEF t
<1> QED
  BY <1>1, <1>4, <1>5, <1>6 DEF t

\* The places of a real record's drawers: those of the four arrays lie apart.
LEMMA DrawerPlaces ==
  ASSUME NEW b \in Real
  PROVE  LET t == YEAR_MON_DATE_DVT(b.date)
             D == DrawersOf(b)
         IN  /\ D[1] = CaculateWeekDay(t.y, t.m, t.d) /\ CaculateWeekDay(t.y, t.m, t.d) \in 0 .. 6
             /\ D[2] = 7 + TIME_DVT(b.time).h /\ TIME_DVT(b.time).h \in 0 .. 23
             /\ D[3] = 30 + t.d /\ t.d \in 1 .. 31
             /\ D[4] = 62 + getIdxOfDate(t.y, t.m, t.d) /\ getIdxOfDate(t.y, t.m, t.d) \in Nat
             /\ ToSet(D) = {D[k] : k \in 1 .. 4}
PROOF
<1> DEFINE t == YEAR_MON_DATE_DVT(b.date)
           h == TIME_DVT(b.time).h
           D == DrawersOf(b)
<1>1. ClockOf(b) \in Clocks /\ b.date \in Date /\ b.time \in Time
  <2>1. ClockOf(b) \in Clocks
    BY DEF Real
  <2>2. ClockOf(b).date = b.date /\ ClockOf(b).time = b.time
    BY DEF ClockOf
  <2> QED
    BY <2>1, <2>2, PredictorAssumption
<1>2. D = <<CaculateWeekDay(t.y, t.m, t.d), 7 + h, 7 + 24 + t.d - 1,
            7 + 24 + 31 + getIdxOfDate(t.y, t.m, t.d)>>
  <2>1. D = Drawers4[ClockOf(b)]
    BY DEF DrawersOf, ClockOf
  <2>2. ClockOf(b).date = b.date /\ ClockOf(b).time = b.time
    BY DEF ClockOf
  <2> QED
    BY <1>1, <2>1, <2>2 DEF Drawers4
<1>3. t.y \in Nat /\ t.m \in 1 .. 12 /\ t.d \in 1 .. 31
  BY <1>1, DateRead
<1>4. h \in 0 .. 23
  <2>1. h \in Nat
    BY <1>1, TimeRead
  <2>2. h < 24
    BY <1>1 DEF Time
  <2> QED
    BY <2>1, <2>2
<1> HIDE DEF t, h
<1>5. CaculateWeekDay(t.y, t.m, t.d) \in 0 .. 6
  BY <1>3, DayNumbers
<1>6. getIdxOfDate(t.y, t.m, t.d) \in Nat
  BY <1>3, DayNumbers
<1>7. ToSet(D) = {D[k] : k \in 1 .. 4}
  BY <1>2 DEF ToSet
<1> DEFINE w == CaculateWeekDay(t.y, t.m, t.d)
           i == getIdxOfDate(t.y, t.m, t.d)
<1>8. D[1] = w /\ D[2] = 7 + h /\ D[3] = 7 + 24 + t.d - 1 /\ D[4] = 7 + 24 + 31 + i
  BY <1>2
<1> HIDE DEF w, i, D
<1>9. D[3] = 30 + t.d /\ D[4] = 62 + i
  BY <1>3, <1>4, <1>6, <1>8 DEF i
<1> QED
  BY <1>3, <1>4, <1>5, <1>6, <1>7, <1>8, <1>9 DEF t, h, D, w, i

\* Those of the zeroed record: Monday's, midnight's, and two that are the last
\* of the array before.
LEMMA ZeroedPlaces == ToSet(DrawersOf(NoBehavior)) = {1, 7, 30, 61}
PROOF
<1> DEFINE D == DrawersOf(NoBehavior)
<1>1. D = Drawers4[NoClock]
  BY DEF DrawersOf, NoBehavior, NoClock
<1>2. NoClock.date = 0 /\ NoClock.time = 0
  BY DEF NoClock
<1>3. /\ YEAR_MON_DATE_DVT(0).y = 0 /\ YEAR_MON_DATE_DVT(0).m = 0
      /\ YEAR_MON_DATE_DVT(0).d = 0 /\ TIME_DVT(0).h = 0
  BY DEF YEAR_MON_DATE_DVT, TIME_DVT
<1>4. CaculateWeekDay(0, 0, 0) = 1
  BY DEF CaculateWeekDay
<1>5. getIdxOfDate(0, 0, 0) = 0 - 1
  BY DEF getIdxOfDate, DaysBefore
<1>6. D = <<1, 7 + 0, 7 + 24 + 0 - 1, 7 + 24 + 31 + (0 - 1)>>
  BY <1>1, <1>2, <1>3, <1>4, <1>5 DEF Drawers4
<1> HIDE DEF D
<1>7. D = <<1, 7, 30, 61>>
  BY <1>6
<1>8. ToSet(D) = {1, 7, 30, 61}
  BY <1>7 DEF ToSet
<1> QED
  BY <1>8 DEF D

\* Drawers of a weekday, an hour, a day of the month and a day of the year.
PlacesAre(D, w, h, d, i) ==
  /\ w \in 0 .. 6 /\ h \in 0 .. 23 /\ d \in 1 .. 31 /\ i \in Nat
  /\ D[1] = w /\ D[2] = 7 + h /\ D[3] = 30 + d /\ D[4] = 62 + i

\* What two real records with a drawer in common share.
LEMMA DrawerShared ==
  ASSUME NEW Q, NEW R, NEW k \in 1 .. 4, NEW j \in 1 .. 4, Q[k] = R[j],
         NEW wq, NEW hq, NEW dq, NEW iq, PlacesAre(Q, wq, hq, dq, iq),
         NEW wr, NEW hr, NEW dr, NEW ir, PlacesAre(R, wr, hr, dr, ir)
  PROVE  wq = wr \/ hq = hr \/ dq = dr \/ iq = ir
PROOF
<1>1. CASE k = 1
  <2>1. wq = R[j] /\ j = 1
    BY <1>1 DEF PlacesAre
  <2> QED
    BY <2>1 DEF PlacesAre
<1>2. CASE k = 2
  <2>1. 7 + hq = R[j] /\ j = 2
    BY <1>2 DEF PlacesAre
  <2> QED
    BY <2>1 DEF PlacesAre
<1>3. CASE k = 3
  <2>1. 30 + dq = R[j] /\ j = 3
    BY <1>3 DEF PlacesAre
  <2> QED
    BY <2>1 DEF PlacesAre
<1>4. CASE k = 4
  <2>1. 62 + iq = R[j] /\ j = 4
    BY <1>4 DEF PlacesAre
  <2> QED
    BY <2>1 DEF PlacesAre
<1> QED
  BY <1>1, <1>2, <1>3, <1>4

\* What a real record with a drawer of the zeroed one shares with it.
LEMMA DrawerSharedZeroed ==
  ASSUME NEW Q, NEW k \in 1 .. 4, Q[k] \in {1, 7, 30, 61},
         NEW wq, NEW hq, NEW dq, NEW iq, PlacesAre(Q, wq, hq, dq, iq)
  PROVE  wq = 1 \/ hq \in {0, 23} \/ dq = 31
PROOF
<1>1. CASE k = 1
  BY <1>1 DEF PlacesAre
<1>2. CASE k = 2
  BY <1>2 DEF PlacesAre
<1>3. CASE k = 3
  BY <1>3 DEF PlacesAre
<1>4. CASE k = 4
  BY <1>4 DEF PlacesAre
<1> QED
  BY <1>1, <1>2, <1>3, <1>4

\* A record speaks for a trip that begins with one of its drawers.
LEMMA DrawerSpeaks ==
  ASSUME NEW r \in Real \cup {NoBehavior}, NEW q \in Real,
         NEW c \in ToSet(DrawersOf(r)), c \in ToSet(DrawersOf(q))
  PROVE  Speaks(r, q)
PROOF
<1> DEFINE a == YEAR_MON_DATE_DVT(r.date)
           b == YEAR_MON_DATE_DVT(q.date)
           wa == CaculateWeekDay(a.y, a.m, a.d)
           wb == CaculateWeekDay(b.y, b.m, b.d)
           ha == TIME_DVT(r.time).h
           hb == TIME_DVT(q.time).h
           ia == getIdxOfDate(a.y, a.m, a.d)
           ib == getIdxOfDate(b.y, b.m, b.d)
           Q == DrawersOf(q)
           R == DrawersOf(r)
<1>1. /\ Q[1] = wb /\ wb \in 0 .. 6 /\ Q[2] = 7 + hb /\ hb \in 0 .. 23
      /\ Q[3] = 30 + b.d /\ b.d \in 1 .. 31 /\ Q[4] = 62 + ib /\ ib \in Nat
      /\ ToSet(Q) = {Q[k] : k \in 1 .. 4}
  BY DrawerPlaces
<1>3. CASE r = NoBehavior
  <2>1. c \in {1, 7, 30, 61}
    BY <1>3, ZeroedPlaces
  <2>2. PICK k \in 1 .. 4 : c = Q[k]
    BY <1>1
  <2> HIDE DEF Q, wb, hb, ib, b
  <2>3. wb = 1 \/ hb \in {0, 23} \/ b.d = 31
    <3>1. PlacesAre(Q, wb, hb, b.d, ib) /\ Q[k] \in {1, 7, 30, 61}
      BY <1>1, <2>1, <2>2 DEF PlacesAre
    <3> QED
      BY <3>1, DrawerSharedZeroed
  <2> QED
    BY <1>3, <2>3 DEF Speaks, wb, hb, b
<1>4. CASE r \in Real /\ r # NoBehavior
  <2>1. /\ R[1] = wa /\ wa \in 0 .. 6 /\ R[2] = 7 + ha /\ ha \in 0 .. 23
        /\ R[3] = 30 + a.d /\ a.d \in 1 .. 31 /\ R[4] = 62 + ia /\ ia \in Nat
        /\ ToSet(R) = {R[k] : k \in 1 .. 4}
    BY <1>4, DrawerPlaces
  <2>3. PICK k \in 1 .. 4, j \in 1 .. 4 : c = Q[k] /\ c = R[j]
    BY <1>1, <2>1
  <2> HIDE DEF Q, R, wa, wb, ha, hb, ia, ib, a, b
  <2>4. wb = wa \/ hb = ha \/ b.d = a.d \/ ib = ia
    <3>1. PlacesAre(Q, wb, hb, b.d, ib) /\ PlacesAre(R, wa, ha, a.d, ia) /\ Q[k] = R[j]
      BY <1>1, <2>1, <2>3 DEF PlacesAre
    <3> QED
      BY <2>3, <3>1, DrawerShared
  <2> QED
    BY <1>4, <2>4 DEF Speaks, wa, wb, ha, hb, ia, ib, a, b
<1> QED
  BY <1>3, <1>4

-----------------------------------------------------------------------------
(* Where entries, candidates and results come from.                        *)

\* Entries that a record of S put in drawer c.
EntriesFrom(c, S) ==
  {e \in Kept : \E r \in S : /\ c \in ToSet(DrawersOf(r))
                             /\ r.code_s = e.code_s /\ r.code_d = e.code_d
                             /\ r.time_d = e.time_d}

\* A record of S that speaks for the trip q, to the destination d at the time t.
Backed(S, q, d, t) ==
  \E r \in S : /\ r.code_s = q.code_s /\ r.code_d = d /\ r.time_d = t
               /\ Speaks(r, q)

\* Candidates and results for q from records of S.
CandsFrom(S, q) == {x \in Cand : Backed(S, q, x.code_d, x.time_d)}
ResultsFrom(S, q) == {x \in Result : Backed(S, q, x.code, x.time_d)}

\* More records, more of each.
LEMMA FromMore ==
  ASSUME NEW S, NEW T, S \subseteq T
  PROVE  /\ \A c : EntriesFrom(c, S) \subseteq EntriesFrom(c, T)
         /\ \A q : CandsFrom(S, q) \subseteq CandsFrom(T, q)
         /\ \A q : ResultsFrom(S, q) \subseteq ResultsFrom(T, q)
PROOF
<1>1. \A c : EntriesFrom(c, S) \subseteq EntriesFrom(c, T)
  BY DEF EntriesFrom
<1>2. \A q, d, t : Backed(S, q, d, t) => Backed(T, q, d, t)
  BY Zenon DEF Backed
<1>3. \A q : CandsFrom(S, q) \subseteq CandsFrom(T, q)
  BY <1>2 DEF CandsFrom
<1>4. \A q : ResultsFrom(S, q) \subseteq ResultsFrom(T, q)
  BY <1>2 DEF ResultsFrom
<1> QED
  BY <1>1, <1>3, <1>4

\* What a record of S is put among stays from S.
LEMMA PutFrom ==
  ASSUME NEW S, NEW c, NEW vec \in Seq(EntriesFrom(c, S)),
         NEW b \in Trips, b \in S, c \in ToSet(DrawersOf(b))
  PROVE  putInDrawer(vec, b) \in Seq(EntriesFrom(c, S))
PROOF
<1> DEFINE E == EntriesFrom(c, S)
<1>1. E \in SUBSET Kept
  BY DEF EntriesFrom
<1>2. ASSUME NEW e \in E PROVE [e EXCEPT !.count = @ + 1] \in E
  <2>1. e \in Kept
    BY DEF EntriesFrom
  <2> DEFINE f == [e EXCEPT !.count = @ + 1]
  <2>2. f \in Kept
    BY <2>1, CountedKept
  <2>3. f.code_s = e.code_s /\ f.code_d = e.code_d /\ f.time_d = e.time_d
    BY <2>1 DEF Kept, Entry
  <2> HIDE DEF f
  <2> QED
    BY <2>2, <2>3 DEF EntriesFrom, f
<1>3. New(b) \in E
  <2>1. New(b) \in Kept
    BY NewKept
  <2>2. New(b).code_s = b.code_s /\ New(b).code_d = b.code_d /\ New(b).time_d = b.time_d
    BY DEF New, Trips, Behavior
  <2> QED
    BY <2>1, <2>2 DEF EntriesFrom
<1> HIDE DEF E
<1>4. putInDrawer(vec, b) \in Seq(E)
  <2>1. vec \in Seq(E)
    BY DEF E
  <2> QED
    BY <1>1, <1>2, <1>3, <2>1, PutStays
<1> QED
  BY <1>4 DEF E

\* A load fills each drawer from the records of the file and the zeroed one.
LEMMA LoadedFrom ==
  ASSUME NEW recs \in Seq(Trips), NEW c \in Cells
  PROVE  Loaded(recs)[c] \in Seq(EntriesFrom(c, ToSet(Surplus(recs))))
PROOF
<1> DEFINE all == Surplus(recs)
           S == ToSet(Surplus(recs))
           E == EntriesFrom(c, S)
<1>1. all \in Seq(Trips) /\ Len(all) \in Nat
  BY LoadedByTurns
<1>2. PICK put : Filling(recs, put)
  BY LoadedByTurns
<1>3. /\ put[0] = [x \in Cells |-> <<>>] /\ Loaded(recs) = put[Len(all)]
      /\ \A n \in 1 .. Len(all) : put[n] = PutRecord(put[n - 1], all[n])
  BY <1>2 DEF Filling
<1>4. \A n \in 1 .. Len(all) : all[n] \in Trips /\ all[n] \in S
  <2>1. S = {all[n] : n \in 1 .. Len(all)}
    BY <1>1 DEF ToSet
  <2> QED
    BY <1>1, <2>1
<1> HIDE DEF all, S
<1> DEFINE T == {n \in 0 .. Len(all) : put[n][c] \in Seq(E)}
<1>5. 0 \in T
  <2>1. <<>> \in Seq(E)
    OBVIOUS
  <2>2. put[0][c] = <<>> /\ 0 \in 0 .. Len(all)
    BY <1>1, <1>3
  <2> QED
    BY <2>1, <2>2
<1>6. ASSUME NEW n \in 1 .. Len(all), n - 1 \in T PROVE n \in T
  <2>1. put[n - 1][c] \in Seq(E) /\ n \in 0 .. Len(all)
    BY <1>1, <1>6
  <2>2. all[n] \in Trips /\ all[n] \in S
    BY <1>4
  <2>3. put[n][c] = IF c \in ToSet(DrawersOf(all[n]))
                    THEN putInDrawer(put[n - 1][c], all[n]) ELSE put[n - 1][c]
    BY <1>3 DEF PutRecord
  <2>4. c \in ToSet(DrawersOf(all[n])) => putInDrawer(put[n - 1][c], all[n]) \in Seq(E)
    BY <2>1, <2>2, PutFrom DEF S
  <2> HIDE DEF E
  <2> QED
    BY <2>1, <2>3, <2>4
<1>7. Len(all) \in T
  <2> HIDE DEF T
  <2>1. \A n \in 0 .. Len(all) : n \in T
    BY <1>1, <1>5, <1>6, Upward
  <2> QED
    BY <1>1, <2>1
<1> QED
  BY <1>3, <1>7 DEF S

\* The candidates of a drawer of q, on whatever day, have records that speak for
\* it.
LEMMA DestRateFrom ==
  ASSUME NEW S \in SUBSET (Real \cup {NoBehavior}), NEW q \in Real,
         NEW c \in ToSet(DrawersOf(q)), NEW vec \in Seq(EntriesFrom(c, S)),
         NEW date_d \in Nat
  PROVE  getDestRateFromDraw(vec, q, date_d) \in Seq(CandsFrom(S, q))
PROOF
<1> DEFINE E == EntriesFrom(c, S)
           F == {e \in E : e.code_s = q.code_s}
           cs == Candidates(vec, q)
           Made(e) == [code_s |-> e.code_s, code_d |-> e.code_d, date_d |-> date_d,
                       time_d |-> e.time_d, count |-> e.count]
<1>1. cs \in Seq(F)
  <2>1. E \in SUBSET Kept
    BY DEF EntriesFrom
  <2> HIDE DEF E
  <2>2. vec \in Seq(E)
    BY DEF E
  <2> QED
    BY <2>1, <2>2, CandidatesStay
<1>2. getDestRateFromDraw(vec, q, date_d) = [j \in 1 .. Len(cs) |-> Made(cs[j])]
  BY DEF getDestRateFromDraw
<1>3. ASSUME NEW e \in F PROVE Made(e) \in CandsFrom(S, q)
  <2>1. e \in Kept /\ e.code_s = q.code_s
    BY DEF EntriesFrom
  <2>2. PICK r \in S : /\ c \in ToSet(DrawersOf(r)) /\ r.code_s = e.code_s
                       /\ r.code_d = e.code_d /\ r.time_d = e.time_d
    BY DEF EntriesFrom
  <2>3. Speaks(r, q)
    <3>1. r \in Real \cup {NoBehavior}
      OBVIOUS
    <3> QED
      BY <2>2, <3>1, DrawerSpeaks
  <2> DEFINE m == Made(e)
  <2>4. m \in Cand /\ m.code_d = e.code_d /\ m.time_d = e.time_d
    BY <2>1 DEF Kept, Entry, Cand
  <2>5. Backed(S, q, e.code_d, e.time_d)
    BY <2>1, <2>2, <2>3 DEF Backed
  <2> HIDE DEF m
  <2>6. m \in CandsFrom(S, q)
    BY <2>4, <2>5 DEF CandsFrom
  <2> QED
    BY <2>6 DEF m
<1> HIDE DEF F, cs, Made
<1>4. Len(cs) \in Nat /\ \A j \in 1 .. Len(cs) : Made(cs[j]) \in CandsFrom(S, q)
  BY <1>1, <1>3
<1> QED
  BY <1>2, <1>4

\* Rating makes results of candidates from the same records.
LEMMA RatedFrom ==
  ASSUME NEW S, NEW q, NEW cate \in [1 .. 4 -> Seq(CandsFrom(S, q))],
         NEW s \in Ranked(Listed(Weighted(cate)))
  PROVE  s \in Seq(ResultsFrom(S, q))
PROOF
<1> DEFINE C == CandsFrom(S, q)
           R == ResultsFrom(S, q)
<1>1. ASSUME NEW r \in R, NEW part \in Nat PROVE [r EXCEPT !.rate = @ + part] \in R
  <2> DEFINE x == [r EXCEPT !.rate = @ + part]
  <2>1. r \in Result /\ Backed(S, q, r.code, r.time_d)
    BY DEF ResultsFrom
  <2>2. x \in Result
    BY <2>1, RaisedType
  <2>3. x.code = r.code /\ x.time_d = r.time_d
    BY <2>1 DEF Result
  <2> HIDE DEF x
  <2>4. x \in R
    BY <2>1, <2>2, <2>3 DEF ResultsFrom
  <2> QED
    BY <2>4 DEF x
<1>2. ASSUME NEW x \in C, NEW part \in Nat
      PROVE  [code |-> x.code_d, pos |-> Zero, rate |-> part, date_d |-> x.date_d,
              time_d |-> x.time_d] \in R
  <2> DEFINE y == [code |-> x.code_d, pos |-> Zero, rate |-> part, date_d |-> x.date_d,
                   time_d |-> x.time_d]
  <2>1. x \in Cand /\ Backed(S, q, x.code_d, x.time_d)
    BY DEF CandsFrom
  <2>2. y \in Result /\ y.code = x.code_d /\ y.time_d = x.time_d
    BY <2>1, CandsYieldResults DEF Yields
  <2> HIDE DEF y
  <2>3. y \in R
    BY <2>1, <2>2 DEF ResultsFrom
  <2> QED
    BY <2>3 DEF y
<1>3. C \subseteq Cand /\ R \subseteq Result
  BY DEF CandsFrom, ResultsFrom
<1>5. cate \in [1 .. 4 -> Seq(C)]
  OBVIOUS
<1> HIDE DEF C, R
<1>4. Yields(C, R)
  BY <1>1, <1>2, <1>3 DEF Yields
<1>6. Weighted(cate) \in Seq([res : C, weight : {10, 6, 3, 1}])
  BY <1>5, WeightedStay
<1>7. Listed(Weighted(cate)) \in Seq(R)
  BY <1>4, <1>6, ListedStays
<1>8. s \in Seq(R)
  BY <1>7, RankedType
<1> QED
  BY <1>8 DEF R

-----------------------------------------------------------------------------
(* Predictions have their records.                                         *)

LEMMA AppendSet ==
  ASSUME NEW X, NEW s \in Seq(X), NEW x
  PROVE  ToSet(Append(s, x)) = ToSet(s) \cup {x}
PROOF
<1> DEFINE t == Append(s, x)
<1>1. /\ Len(s) \in Nat /\ Len(t) = Len(s) + 1 /\ t[Len(s) + 1] = x
      /\ \A i \in 1 .. Len(s) : t[i] = s[i]
      /\ ToSet(s) = {s[i] : i \in 1 .. Len(s)}
      /\ ToSet(t) = {t[i] : i \in 1 .. Len(s) + 1}
  BY DEF ToSet
<1> HIDE DEF t
<1>2. 1 .. Len(s) + 1 = (1 .. Len(s)) \cup {Len(s) + 1}
  BY <1>1
<1>3. ToSet(t) = ToSet(s) \cup {x}
  BY <1>1, <1>2
<1> QED
  BY <1>3 DEF t

LEMMA ConcatSet ==
  ASSUME NEW X, NEW s \in Seq(X), NEW t \in Seq(X)
  PROVE  ToSet(s) \subseteq ToSet(s \o t) /\ ToSet(t) \subseteq ToSet(s \o t)
PROOF
<1> DEFINE u == s \o t
<1>1. /\ Len(s) \in Nat /\ Len(t) \in Nat /\ Len(u) = Len(s) + Len(t)
      /\ \A i \in 1 .. Len(s) : u[i] = s[i]
      /\ \A i \in 1 .. Len(t) : u[Len(s) + i] = t[i]
      /\ ToSet(s) = {s[i] : i \in 1 .. Len(s)} /\ ToSet(t) = {t[i] : i \in 1 .. Len(t)}
      /\ ToSet(u) = {u[i] : i \in 1 .. Len(u)}
  BY DEF ToSet
<1> HIDE DEF u
<1>2. ASSUME NEW i \in 1 .. Len(s) PROVE s[i] \in ToSet(u)
  <2>1. i \in 1 .. Len(u) /\ u[i] = s[i]
    BY <1>1
  <2> QED
    BY <1>1, <2>1
<1>3. ASSUME NEW i \in 1 .. Len(t) PROVE t[i] \in ToSet(u)
  <2>1. Len(s) + i \in 1 .. Len(u) /\ u[Len(s) + i] = t[i]
    BY <1>1
  <2> QED
    BY <1>1, <2>1
<1> QED
  BY <1>1, <1>2, <1>3 DEF u

\* The records on file, the zeroed one of a load and the one being saved.
Sources == ToSet(behFile) \cup {b \in {NoBehavior} : loaded # 0}
             \cup {b \in {saver.rec} : saver.pc # "idle"}

\* Drawers filled from S, and an asker whose candidates or results are from S.
FilledFrom(cells, S) == \A c \in Cells : cells[c] \in Seq(EntriesFrom(c, S))
AskedFrom(a, results, S) ==
  /\ a.pc # "idle" => a.first \in Real
  /\ a.pc \in {"read", "rate"} => a.vecCate \in [1 .. 4 -> Seq(CandsFrom(S, a.first))]
  /\ a.pc = "done" => results \in Seq(ResultsFrom(S, a.first))

LEMMA FilledMore ==
  ASSUME NEW cells, NEW S, NEW T, S \subseteq T, FilledFrom(cells, S)
  PROVE  FilledFrom(cells, T)
PROOF
<1>1. ASSUME NEW c \in Cells PROVE cells[c] \in Seq(EntriesFrom(c, T))
  <2>1. EntriesFrom(c, S) \subseteq EntriesFrom(c, T)
    BY FromMore
  <2>2. cells[c] \in Seq(EntriesFrom(c, S))
    BY DEF FilledFrom
  <2> QED
    BY <2>1, <2>2
<1> QED
  BY <1>1 DEF FilledFrom

LEMMA AskedMore ==
  ASSUME NEW a, NEW results, NEW S, NEW T, S \subseteq T, AskedFrom(a, results, S)
  PROVE  AskedFrom(a, results, T)
PROOF
<1> DEFINE C == CandsFrom(S, a.first)
           D == CandsFrom(T, a.first)
           Q == ResultsFrom(S, a.first)
           R == ResultsFrom(T, a.first)
<1>1. C \subseteq D /\ Q \subseteq R
  BY FromMore
<1>2. Seq(C) \subseteq Seq(D) /\ Seq(Q) \subseteq Seq(R)
  <2> HIDE DEF C, D, Q, R
  <2> QED
    BY <1>1
<1> QED
  BY <1>2 DEF AskedFrom

\* Only real trips are recorded, and drawers, candidates and results come from
\* the records.
Sourced ==
  /\ loaded \in 0 .. Len(behFile) + 1
  /\ mGetFirstGPSSig = 1 => mCurGPS \in Clocks
  /\ behFile \in Seq(Real)
  /\ saver.pc # "idle" => saver.rec \in Real
  /\ asker.pc = "read" => mFirstGPS = asker.first
  /\ FilledFrom(mBehav, Sources)
  /\ AskedFrom(asker, mGpsRetLst, Sources)

LEMMA SourcedInit == Init => Sourced
PROOF
<1> SUFFICES ASSUME Init PROVE Sourced
  OBVIOUS
<1>1. FilledFrom(mBehav, Sources)
  <2>1. <<>> \in Seq(Trips)
    OBVIOUS
  <2>2. Surplus(<<>>) = <<>> /\ ToSet(<<>>) = {}
    BY DEF Surplus, ToSet
  <2>3. FilledFrom(mBehav, {})
    BY <2>1, <2>2, LoadedFrom DEF FilledFrom, Init
  <2> QED
    BY <2>3, FilledMore
<1>2. asker.pc = "idle" /\ saver.pc = "idle" /\ mGetFirstGPSSig = 0
  BY DEF Init, AskerIdle, SaverIdle
<1>3. behFile \in Seq(Real) /\ loaded = 0 /\ Len(behFile) = 0
  BY DEF Init
<1>4. AskedFrom(asker, mGpsRetLst, Sources)
  BY <1>2 DEF AskedFrom
<1> QED
  BY <1>1, <1>2, <1>3, <1>4 DEF Sourced

LEMMA DrawerIn ==
  ASSUME NEW b \in Real, NEW k \in 1 .. 4
  PROVE  DrawersOf(b)[k] \in ToSet(DrawersOf(b)) /\ DrawersOf(b)[k] \in Cells
PROOF
<1>1. DrawersOf(b)[k] \in ToSet(DrawersOf(b))
  BY DrawerPlaces
<1>2. DrawersOf(b)[k] \in Cells
  BY DrawersInUse DEF Real, Readings
<1> QED
  BY <1>1, <1>2

\* Records are real or the zeroed one.
LEMMA SourcesReal == Sourced => Sources \in SUBSET (Real \cup {NoBehavior})
PROOF
<1> SUFFICES ASSUME Sourced PROVE Sources \in SUBSET (Real \cup {NoBehavior})
  OBVIOUS
<1>1. ToSet(behFile) = {behFile[i] : i \in 1 .. Len(behFile)}
  BY DEF ToSet
<1>2. ToSet(behFile) \subseteq Real
  BY <1>1 DEF Sourced
<1> QED
  BY <1>2 DEF Sources, Sourced

\* Nothing was collected before the first drawer is read.
LEMMA AskedFirst ==
  ASSUME NEW text, NEW first \in Real, NEW known, NEW results, NEW S
  PROVE  LET a == [AskerIdle EXCEPT !.pc = "read", !.text = text, !.first = first,
                                    !.known = known]
         IN  AskedFrom(a, results, S) /\ a.first = first
PROOF
<1> DEFINE a == [AskerIdle EXCEPT !.pc = "read", !.text = text, !.first = first,
                                  !.known = known]
<1>1. a.pc = "read" /\ a.first = first /\ a.vecCate = NoCandidates
  BY DEF AskerIdle
<1> HIDE DEF a
<1>2. NoCandidates \in [1 .. 4 -> Seq(CandsFrom(S, first))]
  <2>1. <<>> \in Seq(CandsFrom(S, first))
    OBVIOUS
  <2> QED
    BY <2>1 DEF NoCandidates
<1> QED
  BY <1>1, <1>2 DEF AskedFrom, a

\* One drawer's candidates are added to those collected.
LEMMA AskedNext ==
  ASSUME NEW a \in AskState, a.pc = "read", NEW results, NEW S, AskedFrom(a, results, S),
         NEW cands \in Seq(CandsFrom(S, a.first))
  PROVE  LET b == [a EXCEPT !.vecCate[a.k] = cands, !.k = IF a.k < 4 THEN @ + 1 ELSE 1,
                            !.pc = IF a.k < 4 THEN @ ELSE "rate"]
         IN  AskedFrom(b, results, S) /\ b.first = a.first
PROOF
<1> DEFINE cate == [a.vecCate EXCEPT ![a.k] = cands]
           b == [a EXCEPT !.vecCate[a.k] = cands, !.k = IF a.k < 4 THEN @ + 1 ELSE 1,
                          !.pc = IF a.k < 4 THEN @ ELSE "rate"]
<1>1. a.vecCate \in [1 .. 4 -> Seq(CandsFrom(S, a.first))] /\ a.first \in Real
  BY DEF AskedFrom
<1>2. cate \in [1 .. 4 -> Seq(CandsFrom(S, a.first))]
  BY <1>1
<1>3. b.first = a.first /\ b.vecCate = cate /\ b.pc \in {"read", "rate"}
  BY DEF AskState
<1> HIDE DEF cate, b
<1> QED
  BY <1>1, <1>2, <1>3 DEF AskedFrom, b

LEMMA SourcedStep == Types /\ Types' /\ Sourced /\ [Next]_vars => Sourced'
PROOF
<1> SUFFICES ASSUME Types, Types', Sourced, [Next]_vars PROVE Sourced'
  OBVIOUS
<1>s. Sources \in SUBSET (Real \cup {NoBehavior})
  BY SourcesReal
<1>o. FilledFrom(mBehav, Sources) /\ AskedFrom(asker, mGpsRetLst, Sources)
  BY DEF Sourced
<1>1. CASE Restart
  <2>1. /\ UNCHANGED <<behFile>> /\ mBehav' = Loaded(behFile)
        /\ loaded' = Len(Surplus(behFile))
        /\ mGetFirstGPSSig' = 0 /\ saver' = SaverIdle /\ asker' = AskerIdle
    BY <1>1 DEF Restart, disk, Surplus
  <2>2. saver'.pc = "idle" /\ asker'.pc = "idle"
    BY <2>1 DEF SaverIdle, AskerIdle
  <2>3. ToSet(Surplus(behFile)) \subseteq Sources' /\ loaded' \in 0 .. Len(behFile') + 1
    <3>1. CASE behFile = <<>>
      <4>1. Surplus(behFile) = <<>> /\ ToSet(<<>>) = {} /\ Len(<<>>) = 0
        BY <3>1 DEF Surplus, ToSet
      <4> QED
        BY <2>1, <3>1, <4>1
    <3>2. CASE behFile # <<>>
      <4>1. behFile \in Seq(Trips)
        BY DEF Types
      <4>2. Surplus(behFile) = Append(behFile, NoBehavior)
        BY <3>2 DEF Surplus
      <4>3. ToSet(Surplus(behFile)) = ToSet(behFile) \cup {NoBehavior}
        BY <4>1, <4>2, AppendSet
      <4>4. loaded' = Len(behFile) + 1 /\ Len(behFile) \in Nat
        BY <2>1, <4>1, <4>2
      <4> QED
        BY <2>1, <4>3, <4>4 DEF Sources
    <3> QED
      BY <3>1, <3>2
  <2>4. FilledFrom(mBehav', Sources')
    <3>1. behFile \in Seq(Trips)
      BY DEF Types
    <3>2. FilledFrom(mBehav', ToSet(Surplus(behFile)))
      BY <2>1, <3>1, LoadedFrom DEF FilledFrom
    <3> QED
      BY <2>3, <3>2, FilledMore
  <2>5. AskedFrom(asker', mGpsRetLst', Sources')
    BY <2>2 DEF AskedFrom
  <2> QED
    BY <2>1, <2>2, <2>3, <2>4, <2>5 DEF Sourced
<1>2. ASSUME NEW p \in Stops, NEW now \in Clocks, FirstFix(p, now) PROVE Sourced'
  <2>1. /\ asker.pc # "read" /\ mCurGPS' = now
        /\ UNCHANGED <<mBehav, mGpsRetLst, saver, asker, behFile, loaded>>
    BY <1>2 DEF FirstFix, Idle, disk
  <2>2. Sources' = Sources
    BY <2>1 DEF Sources
  <2> QED
    BY <1>o, <2>1, <2>2 DEF Sourced
<1>3. ASSUME NEW p \in Stops, NEW time \in Arrivals, LastFix(p, time) PROVE Sourced'
  <2>1. /\ saver.pc = "idle" /\ mGetFirstGPSSig = 1
        /\ UNCHANGED <<mBehav, mGetFirstGPSSig, mCurGPS, mFirstGPS, mGpsRetLst, asker,
                       behFile, loaded>>
    BY <1>3 DEF LastFix, trip, disk, bound
  <2>2. Sources \subseteq Sources'
    BY <2>1 DEF Sources
  <2>3. saver'.rec \in Real
    <3>1. saver'.rec \in Trips
      BY DEF Types, SaveState
    <3>2. saver'.rec.date = mCurGPS.date /\ saver'.rec.time = mCurGPS.time
      BY <1>3 DEF LastFix, SaverIdle
    <3>3. mCurGPS \in Clocks
      BY <2>1 DEF Sourced
    <3>4. ClockOf(saver'.rec) = mCurGPS
      BY <3>2, <3>3, ClocksAre DEF ClockOf
    <3> QED
      BY <3>1, <3>3, <3>4 DEF Real
  <2>4. FilledFrom(mBehav', Sources') /\ AskedFrom(asker', mGpsRetLst', Sources')
    BY <1>o, <2>1, <2>2, FilledMore, AskedMore
  <2> QED
    BY <2>1, <2>3, <2>4 DEF Sourced
<1>4. CASE SaveCount
  <2>1. /\ saver.pc = "count" /\ saver'.pc = "put" /\ saver'.rec = saver.rec
        /\ UNCHANGED <<mBehav, mGetFirstGPSSig, mCurGPS, mFirstGPS, mGpsRetLst, asker,
                       behFile, loaded>>
    BY <1>4 DEF SaveCount, trip, disk, bound, Types, SaveState
  <2>2. Sources' = Sources
    BY <2>1 DEF Sources
  <2> QED
    BY <1>o, <2>1, <2>2 DEF Sourced
<1>5. CASE SavePut
  <2>1. /\ saver.pc = "put" /\ saver'.pc # "idle" /\ saver'.rec = saver.rec
        /\ UNCHANGED <<mGetFirstGPSSig, mCurGPS, mFirstGPS, mGpsRetLst, asker,
                       behFile, loaded>>
    BY <1>5 DEF SavePut, trip, disk, bound, Types, SaveState
  <2>2. Sources' = Sources
    BY <2>1 DEF Sources
  <2> DEFINE c == DrawersOf(saver.rec)[saver.k]
  <2>3. saver.rec \in Real /\ saver.k \in 1 .. 4 /\ saver.rec \in Sources
    BY <2>1 DEF Sourced, Sources, Types, SaveState
  <2>4. c \in Cells /\ c \in ToSet(DrawersOf(saver.rec))
    BY <2>3, DrawerIn
  <2>5. mBehav' = [mBehav EXCEPT ![c] = putInDrawer(mBehav[c], saver.rec)]
        /\ mBehav \in [Cells -> Seq(Kept)]
    BY <1>5 DEF SavePut, Types, Full
  <2> HIDE DEF c
  <2>6. putInDrawer(mBehav[c], saver.rec) \in Seq(EntriesFrom(c, Sources))
    <3>1. mBehav[c] \in Seq(EntriesFrom(c, Sources))
      BY <1>o, <2>4 DEF FilledFrom
    <3>2. saver.rec \in Trips
      BY <2>3 DEF Real
    <3> QED
      BY <2>3, <2>4, <3>1, <3>2, PutFrom
  <2>7. FilledFrom(mBehav', Sources)
    <3>1. ASSUME NEW x \in Cells PROVE mBehav'[x] \in Seq(EntriesFrom(x, Sources))
      <4>1. mBehav[x] \in Seq(EntriesFrom(x, Sources))
        BY <1>o DEF FilledFrom
      <4>2. mBehav'[x] = IF x = c THEN putInDrawer(mBehav[c], saver.rec) ELSE mBehav[x]
        BY <2>5
      <4> QED
        BY <2>6, <4>1, <4>2
    <3> QED
      BY <3>1 DEF FilledFrom
  <2> QED
    BY <1>o, <2>1, <2>2, <2>3, <2>7 DEF Sourced
<1>6. CASE SaveWrite
  <2>1. /\ saver.pc = "write" /\ saver' = SaverIdle /\ behFile' = Append(behFile, saver.rec)
        /\ mGetFirstGPSSig' = 0
        /\ UNCHANGED <<mBehav, mFirstGPS, mGpsRetLst, asker, loaded>>
    BY <1>6 DEF SaveWrite, bound
  <2>2. saver'.pc = "idle"
    BY <2>1 DEF SaverIdle
  <2>3. behFile \in Seq(Real) /\ saver.rec \in Real
    BY <2>1 DEF Sourced
  <2>4. ToSet(behFile') = ToSet(behFile) \cup {saver.rec}
    BY <2>1, <2>3, AppendSet
  <2>5. Sources \subseteq Sources'
    BY <2>1, <2>4 DEF Sources
  <2>6. behFile' \in Seq(Real) /\ loaded' \in 0 .. Len(behFile') + 1
    <3>1. behFile' \in Seq(Real) /\ Len(behFile') = Len(behFile) + 1 /\ Len(behFile) \in Nat
      BY <2>1, <2>3
    <3>2. loaded \in 0 .. Len(behFile) + 1 /\ loaded' = loaded
      BY <2>1 DEF Sourced
    <3> QED
      BY <3>1, <3>2
  <2>7. FilledFrom(mBehav', Sources') /\ AskedFrom(asker', mGpsRetLst', Sources')
    BY <1>o, <2>1, <2>5, FilledMore, AskedMore
  <2> QED
    BY <2>1, <2>2, <2>6, <2>7 DEF Sourced
<1>7. ASSUME NEW text \in Messages, NEW now \in Clocks, predictDestinationAtStart(text, now)
      PROVE  Sourced'
  <2>1. /\ asker' = [AskerIdle EXCEPT !.pc = "read", !.text = text,
                                      !.first = mFirstGPS', !.known = Len(behFile)]
        /\ UNCHANGED <<mBehav, mGetFirstGPSSig, mCurGPS, mGpsRetLst, saver, behFile, loaded>>
    BY <1>7 DEF predictDestinationAtStart, disk
  <2>2. Sources' = Sources
    BY <2>1 DEF Sources
  <2>3. asker'.pc = "read"
    BY <2>1 DEF AskerIdle
  <2>4. mFirstGPS' \in Real
    BY <2>3 DEF Types, Real
  <2>5. AskedFrom(asker', mGpsRetLst', Sources') /\ asker'.first = mFirstGPS'
    BY <2>1, <2>4, AskedFirst
  <2> QED
    BY <1>o, <2>1, <2>2, <2>5 DEF Sourced
<1>8. CASE ReadDrawer
  <2> DEFINE c == DrawersOf(mFirstGPS)[asker.k]
  <2>1. /\ asker.pc = "read" /\ asker.k \in 1 .. 4 /\ asker \in AskState
        /\ mFirstGPS = asker.first
    BY <1>8 DEF ReadDrawer, Types, AskState, Sourced
  <2>2. mFirstGPS \in Real
    BY <1>o, <2>1 DEF AskedFrom
  <2>3. c \in Cells /\ c \in ToSet(DrawersOf(mFirstGPS))
    BY <2>1, <2>2, DrawerIn
  <2>4. PICK date_d \in ArrivalDates(mFirstGPS.date) :
          asker' = [asker EXCEPT
             !.vecCate[asker.k] = getDestRateFromDraw(mBehav[c], mFirstGPS, date_d),
             !.k = IF asker.k < 4 THEN @ + 1 ELSE 1,
             !.pc = IF asker.k < 4 THEN @ ELSE "rate"]
    BY <1>8 DEF ReadDrawer
  <2>5. date_d \in Nat
    <3>1. mFirstGPS.date \in Date
      BY <2>2, ClocksAre DEF ClockOf, Real
    <3> QED
      BY <2>4, <3>1, ArrivalDatesType
  <2>6. UNCHANGED <<mBehav, mGetFirstGPSSig, mCurGPS, mFirstGPS, mGpsRetLst, saver,
                    behFile, loaded>>
    BY <1>8 DEF ReadDrawer, trip, disk, bound
  <2>7. Sources' = Sources
    BY <2>6 DEF Sources
  <2> HIDE DEF c
  <2> DEFINE cands == getDestRateFromDraw(mBehav[c], mFirstGPS, date_d)
  <2>8. cands \in Seq(CandsFrom(Sources, asker.first))
    <3>1. mBehav[c] \in Seq(EntriesFrom(c, Sources))
      BY <1>o, <2>3 DEF FilledFrom
    <3> QED
      BY <1>s, <2>1, <2>2, <2>3, <2>5, <3>1, DestRateFrom
  <2> HIDE DEF cands
  <2>9. AskedFrom(asker', mGpsRetLst, Sources) /\ asker'.first = asker.first
    <3>1. asker' = [asker EXCEPT
             !.vecCate[asker.k] = cands, !.k = IF asker.k < 4 THEN @ + 1 ELSE 1,
             !.pc = IF asker.k < 4 THEN @ ELSE "rate"]
      BY <2>4 DEF cands
    <3> QED
      BY <1>o, <2>1, <2>8, <3>1, AskedNext
  <2> QED
    BY <1>o, <2>1, <2>6, <2>7, <2>9 DEF Sourced
<1>9. CASE Rate
  <2>1. /\ asker.pc = "rate" /\ mGpsRetLst' \in Ranked(Listed(Weighted(asker.vecCate)))
        /\ asker' = [asker EXCEPT !.pc = "done", !.vecCate = NoCandidates,
                                  !.text = NoText, !.total = endCount]
        /\ UNCHANGED <<mBehav, mGetFirstGPSSig, mCurGPS, mFirstGPS, saver, behFile, loaded>>
    BY <1>9 DEF Rate, trip, disk, bound
  <2>2. Sources' = Sources
    BY <2>1 DEF Sources
  <2>3. asker'.pc = "done" /\ asker'.first = asker.first
    BY <2>1 DEF Types, AskState
  <2>4. asker.vecCate \in [1 .. 4 -> Seq(CandsFrom(Sources, asker.first))]
        /\ asker.first \in Real
    BY <1>o, <2>1 DEF AskedFrom
  <2>5. mGpsRetLst' \in Seq(ResultsFrom(Sources, asker.first))
    BY <2>1, <2>4, RatedFrom
  <2>6. AskedFrom(asker', mGpsRetLst', Sources')
    BY <2>2, <2>3, <2>4, <2>5 DEF AskedFrom
  <2> QED
    BY <1>o, <2>1, <2>2, <2>3, <2>6 DEF Sourced
<1>10. CASE printResult
  <2> DEFINE cells == DrawersOf(mFirstGPS)
             cate(date_d) == [k \in 1 .. 4 |->
                               getDestRateFromDraw(mBehav[cells[k]], mFirstGPS, date_d)]
  <2>1. /\ asker' = [AskerIdle EXCEPT !.pc = "done", !.first = mFirstGPS,
                                      !.known = Len(behFile), !.total = endCount]
        /\ UNCHANGED <<mBehav, mGetFirstGPSSig, mCurGPS, mFirstGPS, saver, behFile, loaded>>
    BY <1>10 DEF printResult, trip, disk
  <2>2. Sources' = Sources
    BY <2>1 DEF Sources
  <2>3. mFirstGPS \in Real /\ mFirstGPS.date \in Date
    <3>1. ClockOf(mFirstGPS) \in Clocks /\ mFirstGPS \in Trips
      BY <1>10, ClockRead DEF printResult, Types
    <3> QED
      BY <3>1, ClocksAre DEF ClockOf, Real
  <2>4. PICK date_d \in ArrivalDates(mFirstGPS.date) :
          \E list \in Ranked(Listed(Weighted(cate(date_d)))) :
            mGpsRetLst' = [k \in 1 .. Len(list) |->
               [list[k] EXCEPT !.pos = getLatLonByCode(mGpsPosVec, list[k].code)]]
    BY <1>10 DEF printResult
  <2>5. PICK list \in Ranked(Listed(Weighted(cate(date_d)))) :
          mGpsRetLst' = [k \in 1 .. Len(list) |->
               [list[k] EXCEPT !.pos = getLatLonByCode(mGpsPosVec, list[k].code)]]
    BY <2>4
  <2>6. cate(date_d) \in [1 .. 4 -> Seq(CandsFrom(Sources, mFirstGPS))]
    <3>1. date_d \in Nat
      BY <2>3, ArrivalDatesType
    <3>2. ASSUME NEW k \in 1 .. 4
          PROVE  getDestRateFromDraw(mBehav[cells[k]], mFirstGPS, date_d)
                   \in Seq(CandsFrom(Sources, mFirstGPS))
      <4>1. cells[k] \in Cells /\ cells[k] \in ToSet(DrawersOf(mFirstGPS))
        BY <2>3, DrawerIn
      <4> HIDE DEF cells
      <4>2. mBehav[cells[k]] \in Seq(EntriesFrom(cells[k], Sources))
        BY <1>o, <4>1 DEF FilledFrom
      <4> QED
        BY <1>s, <2>3, <3>1, <4>1, <4>2, DestRateFrom
    <3> HIDE DEF cells
    <3> QED
      BY <3>1, <3>2
  <2> HIDE DEF cate
  <2>7. list \in Seq(ResultsFrom(Sources, mFirstGPS))
    BY <2>6, RatedFrom
  <2> DEFINE placed(k) == [list[k] EXCEPT !.pos = getLatLonByCode(mGpsPosVec, list[k].code)]
  <2>8. mGpsRetLst' \in Seq(ResultsFrom(Sources, mFirstGPS))
    <3>1. ASSUME NEW k \in 1 .. Len(list)
          PROVE  placed(k) \in ResultsFrom(Sources, mFirstGPS)
      <4>1. list[k] \in ResultsFrom(Sources, mFirstGPS)
        BY <2>7
      <4>2. /\ list[k] \in Result
            /\ Backed(Sources, mFirstGPS, list[k].code, list[k].time_d)
        BY <4>1 DEF ResultsFrom
      <4>3. getLatLonByCode(mGpsPosVec, list[k].code) \in Place
        BY DecodedType DEF Types
      <4>4. /\ placed(k) \in Result
            /\ placed(k).code = list[k].code /\ placed(k).time_d = list[k].time_d
        BY <4>2, <4>3 DEF Result
      <4> HIDE DEF placed
      <4> QED
        BY <4>2, <4>4 DEF ResultsFrom
    <3>2. Len(list) \in Nat
      BY <2>7
    <3>3. mGpsRetLst' = [k \in 1 .. Len(list) |-> placed(k)]
      BY <2>5
    <3> HIDE DEF placed
    <3> QED
      BY <3>1, <3>2, <3>3
  <2>9. asker'.pc = "done" /\ asker'.first = mFirstGPS
    BY <2>1 DEF AskerIdle
  <2>10. AskedFrom(asker', mGpsRetLst', Sources')
    BY <2>2, <2>3, <2>8, <2>9 DEF AskedFrom
  <2> QED
    BY <1>o, <2>1, <2>2, <2>9, <2>10 DEF Sourced
<1>11. CASE UNCHANGED vars
  <2>1. UNCHANGED <<mBehav, mGetFirstGPSSig, mCurGPS, mFirstGPS, mGpsRetLst, saver,
                    asker, behFile, loaded>>
    BY <1>11 DEF vars, trip, disk, bound
  <2>2. Sources' = Sources
    BY <2>1 DEF Sources
  <2> QED
    BY <1>o, <2>1, <2>2 DEF Sourced
<1> QED
  BY <1>1, <1>2, <1>3, <1>4, <1>5, <1>6, <1>7, <1>8, <1>9, <1>10, <1>11 DEF Next, Save

\* The records a property speaks of are those on file, with the zeroed one of a load.
LEMMA FileIsRecords ==
  Sourced => ToSet(behFile) \cup {b \in {NoBehavior} : loaded # 0} \subseteq ToSet(Records)
PROOF
<1> SUFFICES ASSUME Sourced, NEW b \in ToSet(behFile) \cup {x \in {NoBehavior} : loaded # 0}
             PROVE  b \in ToSet(Records)
  OBVIOUS
<1> DEFINE n == Len(behFile)
           X == Real \cup {NoBehavior}
           front == LoadedRecords
           from == IF loaded = 0 THEN 1 ELSE loaded
           back == SubSeq(behFile, from, n)
<1>1. behFile \in Seq(X) /\ n \in Nat /\ loaded \in 0 .. n + 1 /\ from \in 1 .. n + 1
  BY DEF Sourced
<1>2. front \in Seq(X)
  <2>1. loaded # 0 => SubSeq(behFile, 1, loaded - 1) \in Seq(X)
    BY <1>1
  <2> HIDE DEF X
  <2>2. NoBehavior \in X
    BY DEF X
  <2> QED
    BY <2>1, <2>2 DEF LoadedRecords
<1>3. /\ back \in Seq(X) /\ Len(back) = n - from + 1
      /\ \A i \in 1 .. n - from + 1 : back[i] = behFile[from + i - 1]
  <2> HIDE DEF X, from
  <2>1. from \in Nat /\ n \in Nat /\ from \in 1 .. n + 1
    BY <1>1
  <2>2. back \in Seq(X)
    BY <1>1, <2>1
  <2> QED
    BY <1>1, <2>1, <2>2
<1>4. Records = front \o back
  BY DEF Records, RecordsUpTo
<1>5. ToSet(front) \subseteq ToSet(Records) /\ ToSet(back) \subseteq ToSet(Records)
  BY <1>2, <1>3, <1>4, ConcatSet
<1> HIDE DEF X, front, from, back
<1>6. CASE b = NoBehavior /\ loaded # 0
  <2> DEFINE s == SubSeq(behFile, 1, loaded - 1)
  <2>1. s \in Seq(X)
    BY <1>1, <1>6
  <2>2. front = Append(s, NoBehavior)
    BY <1>6 DEF front, LoadedRecords
  <2> HIDE DEF s
  <2>3. b \in ToSet(front)
    BY <1>6, <2>1, <2>2, AppendSet
  <2> QED
    BY <1>5, <2>3
<1>7. CASE b \in ToSet(behFile)
  <2>1. PICK i \in 1 .. n : b = behFile[i]
    BY <1>7 DEF ToSet
  <2>2. CASE i < from
    <3>1. loaded # 0 /\ i \in 1 .. loaded - 1 /\ loaded - 1 <= n
      BY <1>1, <2>2 DEF from
    <3> DEFINE s == SubSeq(behFile, 1, loaded - 1)
    <3>2. s \in Seq(X) /\ Len(s) = loaded - 1 /\ s[i] = behFile[i]
      BY <1>1, <3>1
    <3>3. front = Append(s, NoBehavior)
      BY <3>1 DEF front, LoadedRecords
    <3> HIDE DEF s
    <3>4. b \in ToSet(s)
      BY <2>1, <3>1, <3>2 DEF ToSet
    <3>5. ToSet(front) = ToSet(s) \cup {NoBehavior}
      BY <3>2, <3>3, AppendSet
    <3> QED
      BY <1>5, <3>4, <3>5
  <2>3. CASE ~(i < from)
    <3>1. i - from + 1 \in 1 .. n - from + 1 /\ from + (i - from + 1) - 1 = i
      BY <1>1, <2>3
    <3>2. back[i - from + 1] = b
      BY <1>3, <2>1, <3>1
    <3>3. b \in ToSet(back)
      BY <1>3, <3>1, <3>2 DEF ToSet
    <3> QED
      BY <1>5, <3>3
  <2> QED
    BY <2>2, <2>3
<1> QED
  BY <1>6, <1>7

LEMMA RecordsTyped ==
  Sourced => Records \in Seq(Real \cup {NoBehavior})
PROOF
<1> SUFFICES ASSUME Sourced PROVE Records \in Seq(Real \cup {NoBehavior})
  OBVIOUS
<1> DEFINE n == Len(behFile)
           X == Real \cup {NoBehavior}
           front == LoadedRecords
           from == IF loaded = 0 THEN 1 ELSE loaded
           back == SubSeq(behFile, from, n)
<1>1. behFile \in Seq(X) /\ n \in Nat /\ loaded \in 0 .. n + 1 /\ from \in 1 .. n + 1
  BY DEF Sourced
<1>2. front \in Seq(X)
  <2>1. loaded # 0 => SubSeq(behFile, 1, loaded - 1) \in Seq(X)
    BY <1>1
  <2> HIDE DEF X
  <2>2. NoBehavior \in X
    BY DEF X
  <2> QED
    BY <2>1, <2>2 DEF LoadedRecords
<1>3. back \in Seq(X)
  <2> HIDE DEF X, from
  <2> QED
    BY <1>1
<1>4. Records = front \o back
  BY DEF Records, RecordsUpTo
<1> HIDE DEF front, back, X
<1>5. Records \in Seq(X)
  BY <1>2, <1>3, <1>4, ConcatProperties
<1> QED
  BY <1>5 DEF X

LEMMA SourcesAreRecords ==
  Sourced => Sources \subseteq ToSet(Known)
PROOF
<1> SUFFICES ASSUME Sourced PROVE Sources \subseteq ToSet(Append(Records, saver.rec))
  BY DEF Known
<1>1. ToSet(Append(Records, saver.rec)) = ToSet(Records) \cup {saver.rec}
  BY RecordsTyped, AppendSet
<1> QED
  BY <1>1, FileIsRecords DEF Sources

\* Every prediction is a trip once recorded, or the zeroed record, from the start
\* asked for and on a day or at an hour that speaks for it, and arrives at that
\* trip's time.
THEOREM PredictionsAreRecorded == Spec => []PredictsRecordedTrips
PROOF
<1>1. Sourced => PredictsRecordedTrips
  <2> SUFFICES ASSUME Sourced, asker.pc = "done", NEW res \in Predicted
               PROVE  \E r \in ToSet(Known) :
                        /\ r.code_s = asker.first.code_s /\ r.code_d = res.code
                        /\ r.time_d = res.time_d
                        /\ Speaks(r, asker.first)
    BY DEF PredictsRecordedTrips
  <2>1. mGpsRetLst \in Seq(ResultsFrom(Sources, asker.first))
    BY DEF Sourced, AskedFrom
  <2>2. res \in ResultsFrom(Sources, asker.first)
    BY <2>1 DEF Predicted
  <2>3. Backed(Sources, asker.first, res.code, res.time_d)
    BY <2>2 DEF ResultsFrom
  <2>4. Sources \subseteq ToSet(Known)
    BY SourcesAreRecords
  <2> QED
    BY <2>3, <2>4, Zenon DEF Backed
<1>2. Spec => [](Types /\ Sourced)
  BY TypesInit, TypesStep, SourcedInit, SourcedStep, PTL DEF Spec
<1> QED
  BY <1>1, <1>2, PTL

-----------------------------------------------------------------------------
(* Sums over finite sets, as MapThenSumSet computes them.                  *)

\* g[s] is the sum of f over s, taken one chosen element after the other.
Pick(s) == CHOOSE x \in s : TRUE
Totals(g, f, S) ==
  g = [s \in SUBSET S |-> IF s = {} THEN 0 ELSE f[Pick(s)] + g[s \ {Pick(s)}]]
Total(f, S) == (CHOOSE g : Totals(g, f, S))[S]

LEMMA PickIn ==
  ASSUME NEW s, s # {}, IsFiniteSet(s)
  PROVE  /\ Pick(s) \in s /\ IsFiniteSet(s \ {Pick(s)})
         /\ Cardinality(s) \in Nat /\ Cardinality(s) >= 1
         /\ Cardinality(s \ {Pick(s)}) = Cardinality(s) - 1
PROOF
<1>1. Pick(s) \in s
  BY DEF Pick
<1>2. Cardinality(s) \in Nat /\ Cardinality(s) # 0
  BY FS_CardinalityType, FS_EmptySet
<1>3. IsFiniteSet(s \ {Pick(s)}) /\ Cardinality(s \ {Pick(s)}) = Cardinality(s) - 1
  BY <1>1, FS_RemoveElement
<1> QED
  BY <1>1, <1>2, <1>3

\* There are such sums.
LEMMA TotalsExist ==
  ASSUME NEW S, IsFiniteSet(S), NEW f, \A x \in S : f[x] \in Nat
  PROVE  \E g \in [SUBSET S -> Nat] : Totals(g, f, S)
PROOF
<1> DEFINE N == Cardinality(S)
           Below(n) == {s \in SUBSET S : Cardinality(s) <= n}
           Rule(g, s) == IF s = {} THEN 0 ELSE f[Pick(s)] + g[s \ {Pick(s)}]
           Summing(g, n) == g \in [Below(n) -> Nat] /\ \A s \in Below(n) : g[s] = Rule(g, s)
           T == {n \in 0 .. N : \E g : Summing(g, n)}
<1>1. /\ N \in Nat
      /\ \A s \in SUBSET S : IsFiniteSet(s) /\ Cardinality(s) \in Nat /\ Cardinality(s) <= N
  BY FS_CardinalityType, FS_Subset
<1> HIDE DEF N
<1>2. 0 \in T
  <2> DEFINE g == [s \in Below(0) |-> 0]
  <2>1. ASSUME NEW s \in Below(0) PROVE s = {}
    <3>1. IsFiniteSet(s) /\ Cardinality(s) = 0
      BY <1>1
    <3> QED
      BY <3>1, FS_EmptySet
  <2>2. Summing(g, 0)
    BY <2>1
  <2>3. 0 \in 0 .. N
    BY <1>1
  <2> HIDE DEF Summing, g
  <2> QED
    BY <2>2, <2>3
<1>3. ASSUME NEW n \in 1 .. N, n - 1 \in T PROVE n \in T
  <2>1. PICK g : Summing(g, n - 1)
    BY <1>3
  <2> DEFINE h == [s \in Below(n) |-> Rule(g, s)]
  <2>2. ASSUME NEW s \in Below(n), s # {}
        PROVE  Pick(s) \in S /\ s \ {Pick(s)} \in Below(n - 1) /\ s \ {Pick(s)} \in Below(n)
    <3>1. IsFiniteSet(s) /\ s \subseteq S /\ Cardinality(s) \in Nat /\ Cardinality(s) <= n
      BY <1>1
    <3>2. Pick(s) \in s /\ Cardinality(s \ {Pick(s)}) = Cardinality(s) - 1
      BY <2>2, <3>1, PickIn
    <3> QED
      BY <3>1, <3>2
  <2>3. ASSUME NEW s \in Below(n) PROVE Rule(g, s) \in Nat
    <3>1. s # {} => f[Pick(s)] \in Nat /\ g[s \ {Pick(s)}] \in Nat
      BY <2>1, <2>2
    <3> QED
      BY <3>1
  <2>4. ASSUME NEW s \in Below(n - 1) PROVE h[s] = g[s]
    <3>1. s \in Below(n)
      BY <1>1
    <3> HIDE DEF Below, Rule
    <3> QED
      BY <2>1, <3>1
  <2>5. ASSUME NEW s \in Below(n) PROVE h[s] = Rule(h, s)
    <3>1. s # {} => h[s \ {Pick(s)}] = g[s \ {Pick(s)}]
      BY <2>2, <2>4
    <3>2. h[s] = Rule(g, s)
      OBVIOUS
    <3> HIDE DEF h
    <3> QED
      BY <3>1, <3>2
  <2>6. h \in [Below(n) -> Nat]
    <3> HIDE DEF Below, Rule
    <3> QED
      BY <2>3
  <2>7. n \in 0 .. N
    BY <1>1
  <2>8. Summing(h, n)
    <3> HIDE DEF h, Below, Rule
    <3> QED
      BY <2>5, <2>6
  <2> HIDE DEF Summing, h
  <2> QED
    BY <2>7, <2>8
<1>4. N \in T
  <2> HIDE DEF T
  <2>1. \A n \in 0 .. N : n \in T
    BY <1>1, <1>2, <1>3, Upward
  <2> QED
    BY <1>1, <2>1
<1>5. PICK g : Summing(g, N)
  BY <1>4
<1>6. Below(N) = SUBSET S
  BY <1>1
<1>7. g \in [SUBSET S -> Nat] /\ \A s \in SUBSET S : g[s] = Rule(g, s)
  BY <1>5, <1>6
<1>8. g = [s \in SUBSET S |-> Rule(g, s)]
  <2> HIDE DEF Rule
  <2> QED
    BY <1>7
<1> QED
  BY <1>7, <1>8 DEF Totals

\* Sums of the same numbers are the same.
LEMMA TotalsAgree ==
  ASSUME NEW s, IsFiniteSet(s), NEW S, s \subseteq S, NEW U, s \subseteq U,
         NEW f, NEW e, \A x \in s : f[x] = e[x],
         NEW g, Totals(g, f, S), NEW h, Totals(h, e, U)
  PROVE  g[s] = h[s]
PROOF
<1> DEFINE N == Cardinality(s)
           T == {n \in 0 .. N : \A r \in SUBSET s : Cardinality(r) = n => g[r] = h[r]}
<1>1. /\ N \in Nat
      /\ \A r \in SUBSET s : IsFiniteSet(r) /\ Cardinality(r) \in Nat
  BY FS_CardinalityType, FS_Subset
<1>2. /\ \A r \in SUBSET S : g[r] = IF r = {} THEN 0 ELSE f[Pick(r)] + g[r \ {Pick(r)}]
      /\ \A r \in SUBSET U : h[r] = IF r = {} THEN 0 ELSE e[Pick(r)] + h[r \ {Pick(r)}]
  BY DEF Totals
<1>3. 0 \in T
  <2>1. ASSUME NEW r \in SUBSET s, Cardinality(r) = 0 PROVE g[r] = h[r]
    <3>1. r = {}
      BY <1>1, <2>1, FS_EmptySet
    <3> QED
      BY <1>2, <3>1
  <2> QED
    BY <1>1, <2>1
<1>4. ASSUME NEW n \in 1 .. N, n - 1 \in T PROVE n \in T
  <2>1. ASSUME NEW r \in SUBSET s, Cardinality(r) = n PROVE g[r] = h[r]
    <3>1. r # {} /\ IsFiniteSet(r)
      BY <1>1, <2>1, FS_EmptySet
    <3>2. Pick(r) \in r /\ Cardinality(r \ {Pick(r)}) = n - 1
      BY <2>1, <3>1, PickIn
    <3>3. g[r \ {Pick(r)}] = h[r \ {Pick(r)}]
      BY <1>4, <3>2
    <3>4. f[Pick(r)] = e[Pick(r)]
      BY <3>2
    <3>5. g[r] = f[Pick(r)] + g[r \ {Pick(r)}] /\ h[r] = e[Pick(r)] + h[r \ {Pick(r)}]
      BY <1>2, <3>1
    <3> QED
      BY <3>3, <3>4, <3>5
  <2> QED
    BY <1>1, <2>1
<1>5. N \in T
  <2> HIDE DEF T
  <2>1. \A n \in 0 .. N : n \in T
    BY <1>1, <1>3, <1>4, Upward
  <2> QED
    BY <1>1, <2>1
<1> QED
  BY <1>5

\* They do not depend on what is chosen first.
LEMMA TotalsRemove ==
  ASSUME NEW S, IsFiniteSet(S), NEW f, \A x \in S : f[x] \in Nat,
         NEW g \in [SUBSET S -> Nat], Totals(g, f, S)
  PROVE  \A s \in SUBSET S : \A y \in s : g[s] = f[y] + g[s \ {y}]
PROOF
<1> DEFINE N == Cardinality(S)
           T == {n \in 0 .. N : \A s \in SUBSET S : Cardinality(s) = n =>
                                  \A y \in s : g[s] = f[y] + g[s \ {y}]}
<1>1. /\ N \in Nat
      /\ \A s \in SUBSET S : IsFiniteSet(s) /\ Cardinality(s) \in Nat /\ Cardinality(s) <= N
  BY FS_CardinalityType, FS_Subset
<1>2. \A s \in SUBSET S : g[s] = IF s = {} THEN 0 ELSE f[Pick(s)] + g[s \ {Pick(s)}]
  BY DEF Totals
<1>3. 0 \in T
  <2>1. ASSUME NEW s \in SUBSET S, Cardinality(s) = 0 PROVE s = {}
    BY <1>1, <2>1, FS_EmptySet
  <2> QED
    BY <1>1, <2>1
<1>4. ASSUME NEW n \in 1 .. N, n - 1 \in T PROVE n \in T
  <2>1. ASSUME NEW s \in SUBSET S, Cardinality(s) = n, NEW y \in s
        PROVE  g[s] = f[y] + g[s \ {y}]
    <3> DEFINE x == Pick(s)
               sx == s \ {x}
               sy == s \ {y}
               sxy == sx \ {y}
    <3>1. s # {} /\ IsFiniteSet(s)
      BY <1>1
    <3>2. x \in s /\ g[s] = f[x] + g[sx] /\ Cardinality(sx) = n - 1
      BY <1>2, <2>1, <3>1, PickIn
    <3>3. CASE y = x
      BY <3>2, <3>3
    <3>4. CASE y # x
      <4>1. Cardinality(sy) = n - 1
        BY <2>1, <3>1, FS_RemoveElement
      <4> HIDE DEF x
      <4>2. y \in sx /\ x \in sy /\ sy \ {x} = sxy /\ sx \in SUBSET S /\ sy \in SUBSET S
        BY <3>2, <3>4
      <4>3. g[sx] = f[y] + g[sxy]
        BY <1>4, <3>2, <4>2
      <4>4. g[sy] = f[x] + g[sy \ {x}]
        BY <1>4, <4>1, <4>2
      <4>5. f[x] \in Nat /\ f[y] \in Nat /\ g[sxy] \in Nat
        BY <3>2, <4>2
      <4>6. g[sy] = f[x] + g[sxy] /\ g[s] = f[x] + g[sx]
        BY <3>2, <4>2, <4>4
      <4> HIDE DEF sx, sy, sxy
      <4>7. f[x] + (f[y] + g[sxy]) = f[y] + (f[x] + g[sxy])
        BY <4>5
      <4>8. g[s] = f[y] + g[sy]
        BY <4>3, <4>6, <4>7
      <4> QED
        BY <4>8 DEF sy
    <3> QED
      BY <3>3, <3>4
  <2>2. n \in 0 .. N
    BY <1>1
  <2> QED
    BY <2>1, <2>2
<1>5. \A n \in 0 .. N : n \in T
  <2> HIDE DEF T
  <2> QED
    BY <1>1, <1>3, <1>4, Upward
<1> SUFFICES ASSUME NEW s \in SUBSET S, NEW y \in s PROVE g[s] = f[y] + g[s \ {y}]
  OBVIOUS
<1>6. Cardinality(s) \in 0 .. N
  BY <1>1
<1> HIDE DEF N
<1> QED
  BY <1>5, <1>6

\* The sum over no element, with one element set apart, and of the same numbers.
LEMMA TotalFacts ==
  ASSUME NEW S, IsFiniteSet(S), NEW f, \A x \in S : f[x] \in Nat
  PROVE  /\ Total(f, S) \in Nat
         /\ S = {} => Total(f, S) = 0
         /\ \A y \in S : Total(f, S) = f[y] + Total(f, S \ {y})
         /\ \A e : (\A x \in S : f[x] = e[x]) => Total(e, S) = Total(f, S)
PROOF
<1>1. PICK g \in [SUBSET S -> Nat] : Totals(g, f, S)
  BY TotalsExist
<1> DEFINE G(e, U) == CHOOSE h : Totals(h, e, U)
<1>2. ASSUME NEW U \in SUBSET S, NEW e, \A x \in U : f[x] = e[x]
      PROVE  Total(e, U) = g[U]
  <2>1. IsFiniteSet(U) /\ \A x \in U : e[x] \in Nat
    BY <1>2, FS_Subset
  <2>2. \E h : Totals(h, e, U)
    BY <2>1, TotalsExist
  <2>3. Totals(G(e, U), e, U)
    BY <2>2, Zenon
  <2> HIDE DEF G
  <2>4. g[U] = G(e, U)[U]
    BY <1>1, <1>2, <2>1, <2>3, TotalsAgree
  <2> QED
    BY <2>4 DEF Total, G
<1>3. Total(f, S) = g[S]
  BY <1>2
<1>4. S = {} => g[S] = 0
  BY <1>1 DEF Totals
<1>5. ASSUME NEW y \in S PROVE Total(f, S) = f[y] + Total(f, S \ {y})
  <2>1. g[S] = f[y] + g[S \ {y}]
    BY <1>1, TotalsRemove
  <2>2. Total(f, S \ {y}) = g[S \ {y}]
    BY <1>2
  <2> QED
    BY <1>3, <2>1, <2>2
<1>6. ASSUME NEW e, \A x \in S : f[x] = e[x] PROVE Total(e, S) = Total(f, S)
  <2>1. Total(e, S) = g[S]
    BY <1>2, <1>6
  <2> QED
    BY <1>3, <2>1
<1> QED
  BY <1>3, <1>4, <1>5, <1>6

\* MapThenSumSet over the counts of a drawer is such a sum.
CountsOf(vec) == [k \in 1 .. Len(vec) |-> vec[k].count]

LEMMA CountsTotal ==
  ASSUME NEW vec \in Seq(Kept), NEW S \in SUBSET (1 .. Len(vec))
  PROVE  MapThenSumSet(LAMBDA k : vec[k].count, S) = Total(CountsOf(vec), S)
PROOF
<1> DEFINE f == CountsOf(vec)
           Equation(g) == g = [s \in SUBSET S |->
                                 IF s = {} THEN 0
                                 ELSE LET x == CHOOSE x \in s : TRUE
                                      IN  vec[x].count + g[s \ {x}]]
           g0 == CHOOSE g : Equation(g)
<1>1. IsFiniteSet(S)
  <2>1. IsFiniteSet(1 .. Len(vec))
    BY FS_Interval
  <2> QED
    BY <2>1, FS_Subset
<1>2. \A x \in S : f[x] = vec[x].count /\ f[x] \in Nat
  <2>1. \A x \in S : vec[x] \in Kept
    OBVIOUS
  <2> QED
    BY <2>1 DEF CountsOf, Kept, Entry
<1>3. MapThenSumSet(LAMBDA k : vec[k].count, S) = g0[S]
  BY DEF MapThenSumSet, MapThenFoldSet
<1> HIDE DEF f
<1>4. ASSUME NEW g PROVE Totals(g, f, S) <=> Equation(g)
  <2>1. [s \in SUBSET S |-> IF s = {} THEN 0 ELSE f[Pick(s)] + g[s \ {Pick(s)}]]
          = [s \in SUBSET S |-> IF s = {} THEN 0 ELSE LET x == CHOOSE x \in s : TRUE
                                                    IN  vec[x].count + g[s \ {x}]]
    <3>1. ASSUME NEW s \in SUBSET S, s # {}
          PROVE  f[Pick(s)] = vec[Pick(s)].count
      <4>1. Pick(s) \in s
        BY <3>1 DEF Pick
      <4> QED
        BY <1>2, <4>1
    <3> QED
      BY <3>1 DEF Pick
  <2> QED
    BY <2>1 DEF Totals
<1>5. PICK g : Totals(g, f, S)
  BY <1>1, <1>2, TotalsExist
<1>6. Equation(g0)
  <2>1. Equation(g)
    BY <1>4, <1>5
  <2> HIDE DEF Equation
  <2> QED
    BY <2>1, Zenon
<1>7. Totals(g0, f, S)
  <2> HIDE DEF g0
  <2> QED
    BY <1>4, <1>6
<1> HIDE DEF g0
<1> DEFINE g1 == CHOOSE h : Totals(h, f, S)
<1>8. Totals(g1, f, S)
  BY <1>5, Zenon
<1> HIDE DEF g1
<1>9. g0[S] = g1[S]
  BY <1>1, <1>7, <1>8, TotalsAgree
<1> QED
  BY <1>3, <1>9 DEF Total, g1, f

-----------------------------------------------------------------------------
(* What a drawer has of the records put in it.                             *)

\* Max is the member above the others.
LEMMA MaxIs ==
  ASSUME NEW T \in SUBSET Int, NEW m \in T, \A k \in T : m >= k
  PROVE  Max(T) = m
PROOF
<1>1. \A x \in T : (\A y \in T : x >= y) => x = m
  OBVIOUS
<1> QED
  BY <1>1 DEF Max

\* Where the search loop stops, if the drawer has an entry of the start.
LEMMA FirstIs ==
  ASSUME NEW vec, Len(vec) \in Nat, NEW b, \E j \in 1 .. Len(vec) : vec[j].code_s = b.code_s
  PROVE  /\ FirstOf(vec, b) \in 1 .. Len(vec)
         /\ vec[FirstOf(vec, b)].code_s = b.code_s
         /\ \A j \in 1 .. Len(vec) : j < FirstOf(vec, b) => vec[j].code_s # b.code_s
PROOF
<1> DEFINE own == {j \in 1 .. Len(vec) : vec[j].code_s = b.code_s}
<1>1. own \in SUBSET Nat /\ own # {}
  OBVIOUS
<1>2. PICK m \in own : \A k \in own : m <= k
  BY <1>1, LeastExists
<1>3. FirstOf(vec, b) = m
  <2>1. own \in SUBSET Int
    OBVIOUS
  <2>2. Min(own) = m
    BY <1>2, <2>1, MinIs
  <2> QED
    BY <2>2 DEF FirstOf
<1> QED
  BY <1>2, <1>3

\* Taken out and put in again at the same place.
LEMMA MovedNowhere ==
  ASSUME NEW X, NEW vec \in Seq(X), NEW j \in 1 .. Len(vec)
  PROVE  InsertAt(RemoveAt(vec, j), j, vec[j]) = vec
PROOF
<1> DEFINE n == Len(vec)
           front == SubSeq(vec, 1, j - 1)
           back == SubSeq(vec, j + 1, n)
           rest == RemoveAt(vec, j)
           ins == InsertAt(rest, j, vec[j])
<1>1. n \in Nat /\ j \in 1 .. n
  OBVIOUS
<1>2. /\ front \in Seq(X) /\ Len(front) = j - 1
      /\ \A i \in 1 .. j - 1 : front[i] = vec[i]
  BY <1>1
<1>3. /\ back \in Seq(X) /\ Len(back) = n - j
      /\ \A i \in 1 .. n - j : back[i] = vec[j + i]
  BY <1>1
<1>4. rest = front \o back
  BY DEF RemoveAt
<1> HIDE DEF front, back
<1>5. /\ rest \in Seq(X) /\ Len(rest) = n - 1
      /\ \A i \in 1 .. j - 1 : rest[i] = vec[i]
      /\ \A i \in j .. n - 1 : rest[i] = vec[i + 1]
  <2>1. rest \in Seq(X) /\ Len(rest) = (j - 1) + (n - j)
    <3>1. front \o back \in Seq(X) /\ Len(front \o back) = Len(front) + Len(back)
      BY <1>2, <1>3, ConcatProperties
    <3> HIDE DEF n, rest
    <3> QED
      BY <1>2, <1>3, <1>4, <3>1
  <2>2. \A i \in 1 .. j - 1 : rest[i] = vec[i]
    BY <1>2, <1>3, <1>4
  <2>3. ASSUME NEW i \in j .. n - 1 PROVE rest[i] = vec[i + 1]
    <3>1. i - (j - 1) \in 1 .. n - j /\ i = Len(front) + (i - (j - 1))
      BY <1>1, <1>2
    <3>2. rest[i] = back[i - (j - 1)]
      BY <1>2, <1>3, <1>4, <3>1
    <3>3. back[i - (j - 1)] = vec[j + (i - (j - 1))] /\ j + (i - (j - 1)) = i + 1
      BY <1>1, <1>3, <3>1
    <3> QED
      BY <3>2, <3>3
  <2> QED
    BY <1>1, <2>1, <2>2, <2>3
<1> DEFINE f2 == SubSeq(rest, 1, j - 1)
           b2 == SubSeq(rest, j, n - 1)
<1>6. ins = f2 \o <<vec[j]>> \o b2
  BY <1>5 DEF InsertAt
<1> HIDE DEF rest
<1>7. f2 \in Seq(X) /\ Len(f2) = j - 1 /\ \A i \in 1 .. j - 1 : f2[i] = vec[i]
  <2>1. f2 \in Seq(X) /\ Len(f2) = j - 1 /\ \A i \in 1 .. j - 1 : f2[i] = rest[i]
    BY <1>1, <1>5
  <2> HIDE DEF f2
  <2> QED
    BY <1>5, <2>1
<1>8. b2 \in Seq(X) /\ Len(b2) = n - j /\ \A i \in 1 .. n - j : b2[i] = vec[i + j]
  <2>1. b2 \in Seq(X) /\ Len(b2) = n - j /\ \A i \in 1 .. n - j : b2[i] = rest[j + i - 1]
    BY <1>1, <1>5
  <2> HIDE DEF b2
  <2>2. ASSUME NEW i \in 1 .. n - j PROVE b2[i] = vec[i + j]
    <3>1. j + i - 1 \in j .. n - 1 /\ (j + i - 1) + 1 = i + j
      BY <1>1
    <3>2. rest[j + i - 1] = vec[(j + i - 1) + 1]
      BY <1>5, <3>1
    <3> QED
      BY <2>1, <3>1, <3>2
  <2> QED
    BY <2>1, <2>2
<1> HIDE DEF f2, b2, ins
<1>9. vec[j] \in X
  BY <1>1
<1>10. ins \in Seq(X) /\ Len(ins) = n
  <2>1. ins \in Seq(X) /\ Len(ins) = (j - 1) + 1 + (n - j)
    <3> DEFINE g == f2 \o <<vec[j]>>
    <3>1. g \in Seq(X) /\ Len(g) = (j - 1) + 1
      BY <1>7, <1>9
    <3>2. ins = g \o b2
      BY <1>6
    <3> HIDE DEF g
    <3>3. g \o b2 \in Seq(X) /\ Len(g \o b2) = Len(g) + Len(b2)
      BY <1>8, <3>1, ConcatProperties
    <3> HIDE DEF n
    <3> QED
      BY <1>8, <3>1, <3>2, <3>3
  <2> QED
    BY <1>1, <2>1
<1>11. ASSUME NEW i \in 1 .. n PROVE ins[i] = vec[i]
  <2> DEFINE g == f2 \o <<vec[j]>>
  <2>1. /\ g \in Seq(X) /\ Len(g) = j /\ g[j] = vec[j]
        /\ \A k \in 1 .. j - 1 : g[k] = vec[k]
    BY <1>1, <1>7, <1>9
  <2>2. ins = g \o b2
    BY <1>6
  <2> HIDE DEF g
  <2>3. CASE i <= j
    <3>1. i \in 1 .. Len(g)
      BY <2>1, <2>3
    <3>2. ins[i] = g[i]
      BY <1>8, <2>1, <2>2, <3>1
    <3>3. g[i] = vec[i]
      <4>1. CASE i = j
        BY <2>1, <4>1
      <4>2. CASE i # j
        <5>1. i \in 1 .. j - 1
          BY <1>1, <2>3, <4>2
        <5> QED
          BY <2>1, <5>1
      <4> QED
        BY <4>1, <4>2
    <3> QED
      BY <3>2, <3>3
  <2>4. CASE ~(i <= j)
    <3>1. i - j \in 1 .. n - j /\ i = Len(g) + (i - j) /\ (i - j) + j = i
      BY <1>1, <2>1, <2>4
    <3>2. ins[i] = b2[i - j]
      BY <1>8, <2>1, <2>2, <3>1
    <3> QED
      BY <1>8, <3>1, <3>2
  <2> QED
    BY <2>3, <2>4
<1>12. ins = vec
  BY <1>10, <1>11
<1> QED
  BY <1>12 DEF ins, rest

\* An entry that is counted stays where it is: it is the first of its start, and
\* the entry before is of another. All others are put at the end.
LEMMA PutIs ==
  ASSUME NEW vec \in Seq(Kept), NEW b \in Trips
  PROVE  putInDrawer(vec, b) =
           IF /\ \E j \in 1 .. Len(vec) : vec[j].code_s = b.code_s
              /\ vec[FirstOf(vec, b)].code_d = b.code_d
           THEN [vec EXCEPT ![FirstOf(vec, b)].count = @ + 1]
           ELSE Append(vec, New(b))
PROOF
<1>1. CASE \A j \in 1 .. Len(vec) : vec[j].code_s # b.code_s
  BY <1>1 DEF putInDrawer
<1>2. CASE \E j \in 1 .. Len(vec) : vec[j].code_s = b.code_s
  <2> DEFINE j == FirstOf(vec, b)
             w == [vec EXCEPT ![j].count = @ + 1]
             place == FrontPlace(w, j)
             stops == {k \in 0 .. j - 1 : \/ k <= 1
                                          \/ w[k].code_s # w[j].code_s
                                          \/ w[k].count > w[j].count}
  <2>1. /\ j \in 1 .. Len(vec) /\ vec[j].code_s = b.code_s
        /\ \A i \in 1 .. Len(vec) : i < j => vec[i].code_s # b.code_s
    <3>1. Len(vec) \in Nat
      OBVIOUS
    <3> QED
      BY <1>2, <3>1, FirstIs
  <2> HIDE DEF j
  <2>2. /\ w \in Seq(Kept) /\ Len(w) = Len(vec)
        /\ \A i \in 1 .. Len(vec) : w[i].code_s = vec[i].code_s
    <3>1. vec[j] \in Kept /\ [vec[j] EXCEPT !.count = @ + 1] \in Kept
      BY <2>1, CountedKept
    <3>2. [vec[j] EXCEPT !.count = @ + 1].code_s = vec[j].code_s
      BY <3>1 DEF Kept, Entry
    <3>3. w = [vec EXCEPT ![j] = [vec[j] EXCEPT !.count = @ + 1]]
      OBVIOUS
    <3> HIDE DEF w
    <3> QED
      BY <2>1, <3>1, <3>2, <3>3
  <2> HIDE DEF w
  <2>3. place = j
    <3>1. place = Max(stops) + 1
      BY DEF FrontPlace
    <3>2. stops \in SUBSET Int /\ \A k \in stops : j - 1 >= k
      BY <2>1
    <3>3. j - 1 \in stops
      <4>1. j - 1 \in 0 .. j - 1
        BY <2>1
      <4>2. CASE j - 1 <= 1
        BY <4>1, <4>2
      <4>3. CASE ~(j - 1 <= 1)
        <5>1. j - 1 \in 1 .. Len(vec) /\ j - 1 < j
          BY <2>1, <4>3
        <5>2. w[j - 1].code_s # w[j].code_s
          BY <2>1, <2>2, <5>1
        <5> QED
          BY <4>1, <5>2
      <4> QED
        BY <4>2, <4>3
    <3> HIDE DEF stops
    <3>4. Max(stops) = j - 1
      BY <3>2, <3>3, MaxIs
    <3> HIDE DEF place
    <3> QED
      BY <2>1, <3>1, <3>4
  <2>4. InsertAt(RemoveAt(w, j), place, w[j]) = w
    <3>1. InsertAt(RemoveAt(w, j), j, w[j]) = w
      BY <2>1, <2>2, MovedNowhere
    <3> HIDE DEF place
    <3> QED
      BY <2>3, <3>1
  <2> HIDE DEF place
  <2>5. putInDrawer(vec, b) =
          IF vec[j].code_d = b.code_d THEN InsertAt(RemoveAt(w, j), place, w[j])
          ELSE Append(vec, New(b))
    BY <1>2 DEF putInDrawer, j, w, place
  <2> QED
    BY <1>2, <2>4, <2>5 DEF j, w
<1> QED
  BY <1>1, <1>2

-----------------------------------------------------------------------------
(* Drawers against records.                                                *)

\* In vec each trip of put is counted, and each start is led by the destination
\* of its first.
Sums(vec, put, recs) ==
  \A s, d : Total(CountsOf(vec), Between(vec, s, d)) = Cardinality(put \cap Between(recs, s, d))
FirstIn(vec, j) == \A i \in 1 .. Len(vec) : i < j => vec[i].code_s # vec[j].code_s
FirstPut(put, recs, k) == \A i \in put : i < k => recs[i].code_s # recs[k].code_s
Leads(vec, put, recs) ==
  /\ \A k \in put : \E j \in 1 .. Len(vec) : vec[j].code_s = recs[k].code_s
  /\ \A j \in 1 .. Len(vec) : \E k \in put : vec[j].code_s = recs[k].code_s
  /\ \A k \in put, j \in 1 .. Len(vec) :
       /\ FirstPut(put, recs, k) /\ FirstIn(vec, j)
       /\ vec[j].code_s = recs[k].code_s
       => vec[j].code_d = recs[k].code_d
Tally(vec, put, recs) ==
  put \in SUBSET (1 .. Len(recs)) /\ Sums(vec, put, recs) /\ Leads(vec, put, recs)

\* The entries and records between two places are numbered from 1 to n.
LEMMA BetweenFinite ==
  ASSUME NEW vec, Len(vec) \in Nat, NEW s, NEW d
  PROVE  Between(vec, s, d) \in SUBSET (1 .. Len(vec)) /\ IsFiniteSet(Between(vec, s, d))
PROOF
<1>1. IsFiniteSet(1 .. Len(vec))
  BY FS_Interval
<1>2. Between(vec, s, d) \in SUBSET (1 .. Len(vec))
  BY DEF Between
<1> QED
  BY <1>1, <1>2, FS_Subset

LEMMA CountsAre ==
  ASSUME NEW vec \in Seq(Kept)
  PROVE  \A j \in 1 .. Len(vec) : CountsOf(vec)[j] = vec[j].count /\ CountsOf(vec)[j] \in Nat
PROOF
<1>1. \A j \in 1 .. Len(vec) : vec[j] \in Kept
  OBVIOUS
<1> QED
  BY <1>1 DEF CountsOf, Kept, Entry

\* One more record is one more between its places, and none elsewhere.
LEMMA OneMorePut ==
  ASSUME NEW recs, Len(recs) \in Nat, NEW put \in SUBSET (1 .. Len(recs)),
         NEW n \in 1 .. Len(recs), n \notin put, NEW s, NEW d
  PROVE  Cardinality((put \cup {n}) \cap Between(recs, s, d)) =
           Cardinality(put \cap Between(recs, s, d))
             + (IF recs[n].code_s = s /\ recs[n].code_d = d THEN 1 ELSE 0)
PROOF
<1> DEFINE B == Between(recs, s, d)
           P == put \cap B
<1>1. IsFiniteSet(P) /\ n \notin P /\ Cardinality(P) \in Nat
  <2>1. IsFiniteSet(B)
    BY BetweenFinite
  <2>2. P \in SUBSET B
    OBVIOUS
  <2> QED
    BY <2>1, <2>2, FS_Subset, FS_CardinalityType
<1>2. CASE recs[n].code_s = s /\ recs[n].code_d = d
  <2>1. (put \cup {n}) \cap B = P \cup {n}
    BY <1>2 DEF Between
  <2>2. Cardinality(P \cup {n}) = Cardinality(P) + 1
    BY <1>1, FS_AddElement
  <2> QED
    BY <1>2, <2>1, <2>2
<1>3. CASE ~(recs[n].code_s = s /\ recs[n].code_d = d)
  <2>1. (put \cup {n}) \cap B = P
    BY <1>3 DEF Between
  <2> DEFINE x == Cardinality(P)
             y == Cardinality((put \cup {n}) \cap B)
             i == IF recs[n].code_s = s /\ recs[n].code_d = d THEN 1 ELSE 0
  <2>2. y = x /\ x \in Nat /\ i = 0
    BY <1>1, <1>3, <2>1
  <2> HIDE DEF x, y, i
  <2>3. y = x + i
    BY <2>2
  <2> QED
    BY <2>3 DEF x, y, i
<1> QED
  BY <1>2, <1>3

\* A new entry counts for one.
LEMMA NewCounts ==
  ASSUME NEW vec \in Seq(Kept), NEW b \in Trips, NEW s, NEW d
  PROVE  Total(CountsOf(Append(vec, New(b))), Between(Append(vec, New(b)), s, d)) =
           Total(CountsOf(vec), Between(vec, s, d))
             + (IF b.code_s = s /\ b.code_d = d THEN 1 ELSE 0)
PROOF
<1> DEFINE e == New(b)
           w == Append(vec, e)
           m == Len(vec) + 1
           V == Between(vec, s, d)
           W == Between(w, s, d)
           f == CountsOf(vec)
           g == CountsOf(w)
<1>1. e \in Kept /\ e.code_s = b.code_s /\ e.code_d = b.code_d /\ e.count = 1
  BY NewKept DEF New, Trips, Behavior
<1> HIDE DEF e
<1>2. /\ w \in Seq(Kept) /\ Len(w) = m /\ Len(vec) \in Nat /\ w[m] = e
      /\ \A j \in 1 .. Len(vec) : w[j] = vec[j]
  BY <1>1
<1> HIDE DEF w
<1>3. /\ \A j \in 1 .. Len(vec) : f[j] = vec[j].count /\ f[j] \in Nat
      /\ \A j \in 1 .. m : g[j] = w[j].count /\ g[j] \in Nat
  BY <1>2, CountsAre
<1>4. IsFiniteSet(V) /\ IsFiniteSet(W) /\ V \in SUBSET (1 .. Len(vec)) /\ W \in SUBSET (1 .. m)
  BY <1>2, BetweenFinite
<1>5. W \ {m} = V
  BY <1>2 DEF Between
<1>6. m \in W <=> b.code_s = s /\ b.code_d = d
  BY <1>1, <1>2 DEF Between
<1>7. \A j \in V : f[j] = g[j] /\ f[j] \in Nat
  <2>1. \A j \in V : j \in 1 .. Len(vec) /\ j \in 1 .. m
    BY <1>2, <1>4
  <2> QED
    BY <1>2, <1>3, <2>1
<1>8. g[m] = 1 /\ \A j \in W : g[j] \in Nat
  <2>1. m \in 1 .. m
    BY <1>2
  <2> QED
    BY <1>1, <1>2, <1>3, <1>4, <2>1
<1> HIDE DEF V, W, f, g, m
<1>9. Total(g, V) = Total(f, V) /\ Total(f, V) \in Nat
  BY <1>4, <1>7, TotalFacts
<1>10. CASE b.code_s = s /\ b.code_d = d
  <2>1. m \in W
    BY <1>6, <1>10
  <2>2. Total(g, W) = g[m] + Total(g, W \ {m})
    BY <1>4, <1>8, <2>1, TotalFacts
  <2>3. Total(g, W) = 1 + Total(f, V)
    BY <1>5, <1>8, <1>9, <2>2
  <2>4. Total(g, W) = Total(f, V) + 1
    BY <1>9, <2>3
  <2> QED
    BY <1>10, <2>4 DEF V, W, f, g, w, e
<1>11. CASE ~(b.code_s = s /\ b.code_d = d)
  <2>1. W = V
    BY <1>5, <1>6, <1>11
  <2>2. Total(g, W) = Total(f, V) + 0
    BY <1>9, <2>1
  <2> QED
    BY <1>11, <2>2 DEF V, W, f, g, w, e
<1> QED
  BY <1>10, <1>11

\* What counting an entry once more leaves as it is.
LEMMA CountedEntry ==
  ASSUME NEW vec \in Seq(Kept), NEW j \in 1 .. Len(vec)
  PROVE  LET w == [vec EXCEPT ![j].count = @ + 1]
         IN  /\ w \in Seq(Kept) /\ Len(w) = Len(vec) /\ w[j].count = vec[j].count + 1
             /\ \A i \in 1 .. Len(vec) : /\ w[i].code_s = vec[i].code_s
                                         /\ w[i].code_d = vec[i].code_d
                                         /\ i # j => w[i].count = vec[i].count
PROOF
<1> DEFINE e == [vec[j] EXCEPT !.count = @ + 1]
           w == [vec EXCEPT ![j] = e]
<1>1. vec[j] \in Kept
  OBVIOUS
<1>2. e \in Kept
  BY <1>1, CountedKept
<1>3. e.code_s = vec[j].code_s /\ e.code_d = vec[j].code_d /\ e.count = vec[j].count + 1
  BY <1>1 DEF Kept, Entry
<1>4. [vec EXCEPT ![j].count = @ + 1] = w
  OBVIOUS
<1> HIDE DEF e
<1>5. w \in Seq(Kept) /\ Len(w) = Len(vec) /\ w[j] = e
  BY <1>2
<1>6. \A i \in 1 .. Len(vec) : i # j => w[i] = vec[i]
  OBVIOUS
<1> HIDE DEF w
<1> QED
  BY <1>3, <1>4, <1>5, <1>6

\* And it counts for one more between its places.
LEMMA CountedCounts ==
  ASSUME NEW vec \in Seq(Kept), NEW j \in 1 .. Len(vec), NEW s, NEW d
  PROVE  Total(CountsOf([vec EXCEPT ![j].count = @ + 1]),
               Between([vec EXCEPT ![j].count = @ + 1], s, d)) =
           Total(CountsOf(vec), Between(vec, s, d))
             + (IF vec[j].code_s = s /\ vec[j].code_d = d THEN 1 ELSE 0)
PROOF
<1> DEFINE w == [vec EXCEPT ![j].count = @ + 1]
           V == Between(vec, s, d)
           W == Between(w, s, d)
           f == CountsOf(vec)
           g == CountsOf(w)
<1>1. /\ w \in Seq(Kept) /\ Len(w) = Len(vec) /\ w[j].count = vec[j].count + 1
      /\ \A i \in 1 .. Len(vec) : /\ w[i].code_s = vec[i].code_s
                                  /\ w[i].code_d = vec[i].code_d
                                  /\ i # j => w[i].count = vec[i].count
  BY CountedEntry
<1> HIDE DEF w
<1>2. W = V
  BY <1>1 DEF Between
<1>3. /\ \A i \in 1 .. Len(vec) : f[i] = vec[i].count /\ f[i] \in Nat
      /\ \A i \in 1 .. Len(vec) : g[i] = w[i].count /\ g[i] \in Nat
  BY <1>1, CountsAre
<1>4. IsFiniteSet(V) /\ V \in SUBSET (1 .. Len(vec))
  <2>1. Len(vec) \in Nat
    OBVIOUS
  <2> QED
    BY <2>1, BetweenFinite
<1>5. j \in V <=> vec[j].code_s = s /\ vec[j].code_d = d
  BY DEF Between
<1>6. /\ g[j] = f[j] + 1 /\ f[j] \in Nat
      /\ \A i \in V : f[i] \in Nat /\ g[i] \in Nat
      /\ \A i \in V \ {j} : f[i] = g[i]
  BY <1>1, <1>3, <1>4
<1> HIDE DEF V, W, f, g
<1>7. Total(f, V) \in Nat
  BY <1>4, <1>6, TotalFacts
<1>8. Total(g, V \ {j}) = Total(f, V \ {j}) /\ Total(f, V \ {j}) \in Nat
  <2>1. IsFiniteSet(V \ {j})
    BY <1>4, FS_Subset
  <2>2. \A i \in V \ {j} : f[i] \in Nat
    BY <1>6
  <2> QED
    BY <1>6, <2>1, <2>2, TotalFacts
<1>9. CASE vec[j].code_s = s /\ vec[j].code_d = d
  <2>1. j \in V
    BY <1>5, <1>9
  <2>2. Total(g, V) = g[j] + Total(g, V \ {j}) /\ Total(f, V) = f[j] + Total(f, V \ {j})
    BY <1>4, <1>6, <2>1, TotalFacts
  <2>3. Total(g, V) = Total(f, V) + 1
    BY <1>6, <1>8, <2>2
  <2> QED
    BY <1>2, <1>9, <2>3 DEF V, W, f, g, w
<1>10. CASE ~(vec[j].code_s = s /\ vec[j].code_d = d)
  <2>1. V \ {j} = V
    BY <1>5, <1>10
  <2>2. Total(g, V) = Total(f, V)
    BY <1>8, <2>1
  <2>3. Total(g, V) = Total(f, V) + 0
    BY <1>7, <2>2
  <2> QED
    BY <1>2, <1>10, <2>3 DEF V, W, f, g, w
<1> QED
  BY <1>9, <1>10

\* What a record put in a drawer changes: it is counted between its places, and
\* entries stay where they are, but for one at the end.
LEMMA PutAdds ==
  ASSUME NEW vec \in Seq(Kept), NEW b \in Trips
  PROVE  LET w == putInDrawer(vec, b)
             m == Len(vec) + 1
         IN  /\ \A s, d : Total(CountsOf(w), Between(w, s, d)) =
                            Total(CountsOf(vec), Between(vec, s, d))
                              + (IF b.code_s = s /\ b.code_d = d THEN 1 ELSE 0)
             /\ w \in Seq(Kept)
             /\ \A i \in 1 .. Len(vec) : /\ w[i].code_s = vec[i].code_s
                                         /\ w[i].code_d = vec[i].code_d
             /\ \/ Len(w) = Len(vec) /\ \E j \in 1 .. Len(vec) : vec[j].code_s = b.code_s
                \/ Len(w) = m /\ w[m].code_s = b.code_s /\ w[m].code_d = b.code_d
PROOF
<1> DEFINE j == FirstOf(vec, b)
           w == putInDrawer(vec, b)
           m == Len(vec) + 1
           Counting == /\ \E i \in 1 .. Len(vec) : vec[i].code_s = b.code_s
                       /\ vec[j].code_d = b.code_d
<1>1. w = IF Counting THEN [vec EXCEPT ![j].count = @ + 1] ELSE Append(vec, New(b))
  BY PutIs
<1>2. CASE Counting
  <2>1. j \in 1 .. Len(vec) /\ vec[j].code_s = b.code_s /\ vec[j].code_d = b.code_d
    <3>1. Len(vec) \in Nat
      OBVIOUS
    <3> QED
      BY <1>2, <3>1, FirstIs
  <2> DEFINE v == [vec EXCEPT ![j].count = @ + 1]
  <2>2. w = v
    BY <1>1, <1>2
  <2> HIDE DEF j, w
  <2>3. /\ v \in Seq(Kept) /\ Len(v) = Len(vec)
        /\ \A i \in 1 .. Len(vec) : v[i].code_s = vec[i].code_s /\ v[i].code_d = vec[i].code_d
    BY <2>1, CountedEntry
  <2>4. \A s, d : Total(CountsOf(v), Between(v, s, d)) =
                    Total(CountsOf(vec), Between(vec, s, d))
                      + (IF vec[j].code_s = s /\ vec[j].code_d = d THEN 1 ELSE 0)
    BY <2>1, CountedCounts, Zenon
  <2> HIDE DEF v
  <2>5. \A s, d : Total(CountsOf(w), Between(w, s, d)) =
                    Total(CountsOf(vec), Between(vec, s, d))
                      + (IF b.code_s = s /\ b.code_d = d THEN 1 ELSE 0)
    BY <2>1, <2>2, <2>4, Zenon
  <2> QED
    BY <2>1, <2>2, <2>3, <2>5 DEF w
<1>3. CASE ~Counting
  <2> DEFINE v == Append(vec, New(b))
  <2>1. w = v
    BY <1>1, <1>3
  <2>2. New(b) \in Kept /\ New(b).code_s = b.code_s /\ New(b).code_d = b.code_d
    BY NewKept DEF New, Trips, Behavior
  <2>3. /\ v \in Seq(Kept) /\ Len(v) = m /\ v[m] = New(b)
        /\ \A i \in 1 .. Len(vec) : v[i] = vec[i]
    <3> DEFINE e == New(b)
    <3>1. e \in Kept
      BY <2>2
    <3> HIDE DEF e
    <3>2. /\ Append(vec, e) \in Seq(Kept) /\ Len(Append(vec, e)) = m /\ Append(vec, e)[m] = e
          /\ \A i \in 1 .. Len(vec) : Append(vec, e)[i] = vec[i]
      BY <3>1
    <3> QED
      BY <3>2 DEF e
  <2>4. \A s, d : Total(CountsOf(v), Between(v, s, d)) =
                    Total(CountsOf(vec), Between(vec, s, d))
                      + (IF b.code_s = s /\ b.code_d = d THEN 1 ELSE 0)
    BY NewCounts, Zenon
  <2> HIDE DEF v, w, m
  <2>5. \A s, d : Total(CountsOf(w), Between(w, s, d)) =
                    Total(CountsOf(vec), Between(vec, s, d))
                      + (IF b.code_s = s /\ b.code_d = d THEN 1 ELSE 0)
    BY <2>1, <2>4, Zenon
  <2> QED
    BY <2>1, <2>2, <2>3, <2>5 DEF w, m
<1> QED
  BY <1>2, <1>3

\* Putting the next record in a drawer keeps its tally.
LEMMA TallyPut ==
  ASSUME NEW vec \in Seq(Kept), NEW recs, Len(recs) \in Nat, NEW put, Tally(vec, put, recs),
         NEW n \in 1 .. Len(recs), recs[n] \in Trips, \A k \in put : k < n
  PROVE  Tally(putInDrawer(vec, recs[n]), put \cup {n}, recs)
PROOF
<1> DEFINE w == putInDrawer(vec, recs[n])
           m == Len(vec) + 1
           more == put \cup {n}
<1>1. /\ \A s, d : Total(CountsOf(w), Between(w, s, d)) =
                     Total(CountsOf(vec), Between(vec, s, d))
                       + (IF recs[n].code_s = s /\ recs[n].code_d = d THEN 1 ELSE 0)
      /\ w \in Seq(Kept)
      /\ \A i \in 1 .. Len(vec) : /\ w[i].code_s = vec[i].code_s
                                  /\ w[i].code_d = vec[i].code_d
      /\ \/ Len(w) = Len(vec) /\ \E j \in 1 .. Len(vec) : vec[j].code_s = recs[n].code_s
         \/ Len(w) = m /\ w[m].code_s = recs[n].code_s /\ w[m].code_d = recs[n].code_d
  BY PutAdds
<1>2. put \in SUBSET (1 .. Len(recs)) /\ n \notin put /\ Len(vec) \in Nat
  BY DEF Tally
<1> HIDE DEF w
<1>3. Sums(w, more, recs)
  <2> SUFFICES ASSUME NEW s, NEW d
               PROVE  Total(CountsOf(w), Between(w, s, d)) = Cardinality(more \cap Between(recs, s, d))
    BY DEF Sums
  <2>1. Total(CountsOf(vec), Between(vec, s, d)) = Cardinality(put \cap Between(recs, s, d))
    BY DEF Tally, Sums
  <2>2. Cardinality(more \cap Between(recs, s, d)) =
           Cardinality(put \cap Between(recs, s, d))
             + (IF recs[n].code_s = s /\ recs[n].code_d = d THEN 1 ELSE 0)
    BY <1>2, OneMorePut
  <2>3. Total(CountsOf(w), Between(w, s, d)) =
          Total(CountsOf(vec), Between(vec, s, d))
            + (IF recs[n].code_s = s /\ recs[n].code_d = d THEN 1 ELSE 0)
    BY <1>1, Zenon
  <2> HIDE DEF more
  <2> QED
    BY <2>1, <2>2, <2>3, Zenon
<1>4. ASSUME NEW k \in more PROVE \E j \in 1 .. Len(w) : w[j].code_s = recs[k].code_s
  <2>1. CASE k \in put
    <3>1. PICK j \in 1 .. Len(vec) : vec[j].code_s = recs[k].code_s
      BY <2>1 DEF Tally, Leads
    <3>2. j \in 1 .. Len(w)
      BY <1>1, <1>2
    <3> QED
      BY <1>1, <3>1, <3>2
  <2>2. CASE k = n
    <3>1. m \in 1 .. m
      BY <1>2
    <3> HIDE DEF m
    <3> QED
      BY <1>1, <2>2, <3>1
  <2> QED
    BY <2>1, <2>2
<1>5. ASSUME NEW j \in 1 .. Len(w) PROVE j \in 1 .. Len(vec) \/ (j = m /\ Len(w) = m)
  BY <1>1, <1>2
<1>6. ASSUME NEW j \in 1 .. Len(w) PROVE \E k \in more : w[j].code_s = recs[k].code_s
  <2>1. CASE j \in 1 .. Len(vec)
    <3>1. PICK k \in put : vec[j].code_s = recs[k].code_s
      BY <2>1 DEF Tally, Leads
    <3> QED
      BY <1>1, <2>1, <3>1
  <2>2. CASE j = m /\ Len(w) = m
    <3>1. w[m].code_s = recs[n].code_s
      BY <1>1, <1>2, <2>2
    <3> QED
      BY <2>2, <3>1
  <2> QED
    BY <1>5, <2>1, <2>2
<1>7. ASSUME NEW k \in more, NEW j \in 1 .. Len(w), FirstPut(more, recs, k), FirstIn(w, j),
             w[j].code_s = recs[k].code_s
      PROVE  w[j].code_d = recs[k].code_d
  <2>1. CASE k \in put /\ j \in 1 .. Len(vec)
    <3>1. FirstPut(put, recs, k)
      BY <1>7 DEF FirstPut
    <3>2. FirstIn(vec, j)
      <4>1. \A i \in 1 .. Len(vec) : i \in 1 .. Len(w)
        BY <1>1, <1>2
      <4> QED
        BY <1>1, <1>7, <2>1, <4>1 DEF FirstIn
    <3>3. w[j].code_s = vec[j].code_s /\ w[j].code_d = vec[j].code_d
      BY <1>1, <2>1
    <3> QED
      BY <1>7, <2>1, <3>1, <3>2, <3>3 DEF Tally, Leads
  <2>2. CASE k \in put /\ j = m /\ Len(w) = m
    <3>1. PICK i \in 1 .. Len(vec) : vec[i].code_s = recs[k].code_s
      BY <2>2 DEF Tally, Leads
    <3>2. i \in 1 .. Len(w) /\ i < j
      BY <1>2, <2>2
    <3>3. w[i].code_s = w[j].code_s
      BY <1>1, <1>7, <3>1
    <3> QED
      BY <1>7, <3>2, <3>3 DEF FirstIn
  <2>3. CASE k = n
    <3>1. \A i \in put : recs[i].code_s # recs[n].code_s
      BY <1>7, <2>3 DEF FirstPut
    <3>2. \A i \in 1 .. Len(vec) : vec[i].code_s # recs[n].code_s
      BY <3>1 DEF Tally, Leads
    <3>3. j \notin 1 .. Len(vec)
      BY <1>1, <1>7, <2>3, <3>2
    <3>4. j = m /\ Len(w) = m
      BY <1>5, <3>3
    <3> HIDE DEF m
    <3> QED
      BY <1>1, <2>3, <3>2, <3>4
  <2> QED
    BY <1>5, <2>1, <2>2, <2>3
<1>8. Leads(w, more, recs)
  <2> HIDE DEF more
  <2> QED
    BY <1>4, <1>6, <1>7, Zenon DEF Leads
<1>9. more \in SUBSET (1 .. Len(recs))
  BY <1>2
<1> QED
  BY <1>3, <1>8, <1>9 DEF Tally, w

\* A tally looks at the places of the records that are put, and at no others.
LEMMA TallySame ==
  ASSUME NEW vec, NEW put, NEW recs, Tally(vec, put, recs), NEW also,
         \A k \in put : /\ k \in 1 .. Len(also) /\ k \in 1 .. Len(recs)
                        /\ also[k].code_s = recs[k].code_s /\ also[k].code_d = recs[k].code_d
  PROVE  Tally(vec, put, also)
PROOF
<1>1. \A s, d : put \cap Between(recs, s, d) = put \cap Between(also, s, d)
  BY DEF Between
<1>2. Sums(vec, put, also)
  <2> SUFFICES ASSUME NEW s, NEW d
               PROVE  Total(CountsOf(vec), Between(vec, s, d)) = Cardinality(put \cap Between(also, s, d))
    BY DEF Sums
  <2>1. Total(CountsOf(vec), Between(vec, s, d)) = Cardinality(put \cap Between(recs, s, d))
    BY DEF Tally, Sums
  <2>2. put \cap Between(recs, s, d) = put \cap Between(also, s, d)
    BY <1>1
  <2> QED
    BY <2>1, <2>2
<1>3. Leads(vec, put, recs)
  BY DEF Tally
<1>4. \A k \in put : FirstPut(put, also, k) => FirstPut(put, recs, k)
  BY DEF FirstPut
<1>5. Leads(vec, put, also)
  BY <1>3, <1>4 DEF Leads
<1> QED
  BY <1>2, <1>5 DEF Tally

\* An empty drawer and no record.
LEMMA TallyEmpty ==
  ASSUME NEW recs, Len(recs) \in Nat
  PROVE  Tally(<<>>, {}, recs)
PROOF
<1>1. ASSUME NEW s, NEW d
      PROVE  Total(CountsOf(<<>>), Between(<<>>, s, d)) = Cardinality({} \cap Between(recs, s, d))
  <2>1. Between(<<>>, s, d) = {} /\ {} \cap Between(recs, s, d) = {}
    BY DEF Between
  <2> DEFINE S == Between(<<>>, s, d)
  <2>2. IsFiniteSet({}) /\ Cardinality({}) = 0
    BY FS_EmptySet
  <2>3. Total(CountsOf(<<>>), {}) = 0
    BY <2>2, TotalFacts
  <2> QED
    BY <2>1, <2>2, <2>3
<1>2. Leads(<<>>, {}, recs)
  BY DEF Leads
<1> QED
  BY <1>1, <1>2 DEF Tally, Sums

\* A load leaves each drawer with the tally of all records put.
LEMMA LoadedTally ==
  ASSUME NEW recs \in Seq(Trips), NEW c \in Cells
  PROVE  Tally(Loaded(recs)[c],
               {k \in 1 .. Len(Surplus(recs)) : c \in ToSet(DrawersOf(Surplus(recs)[k]))},
               Surplus(recs))
PROOF
<1> DEFINE all == Surplus(recs)
<1>1. all \in Seq(Trips) /\ Len(all) \in Nat
  BY LoadedByTurns
<1>2. PICK put : Filling(recs, put)
  BY LoadedByTurns
<1>3. /\ put \in [0 .. Len(all) -> Full]
      /\ put[0] = [x \in Cells |-> <<>>] /\ Loaded(recs) = put[Len(all)]
      /\ \A n \in 1 .. Len(all) : put[n] = PutRecord(put[n - 1], all[n])
  BY <1>2 DEF Filling
<1> HIDE DEF all
<1> DEFINE In(n) == {k \in 1 .. n : c \in ToSet(DrawersOf(all[k]))}
           T == {n \in 0 .. Len(all) : Tally(put[n][c], In(n), all)}
<1>4. 0 \in T
  <2>1. put[0][c] = <<>> /\ In(0) = {} /\ 0 \in 0 .. Len(all)
    BY <1>1, <1>3
  <2> HIDE DEF In
  <2> QED
    BY <1>1, <2>1, TallyEmpty
<1>5. ASSUME NEW n \in 1 .. Len(all), n - 1 \in T PROVE n \in T
  <2> DEFINE vec == put[n - 1][c]
  <2>1. n - 1 \in 0 .. Len(all) /\ n \in 0 .. Len(all) /\ n - 1 \in Nat
    BY <1>1
  <2>2. vec \in Seq(Kept) /\ all[n] \in Trips
    <3>1. put[n - 1] \in Full
      BY <1>3, <2>1
    <3>2. put[n - 1] \in [Cells -> Seq(Kept)]
      BY <3>1 DEF Full
    <3>3. vec \in Seq(Kept)
      BY <3>2
    <3> QED
      BY <1>1, <3>3
  <2>3. put[n][c] = IF c \in ToSet(DrawersOf(all[n])) THEN putInDrawer(vec, all[n]) ELSE vec
    BY <1>3 DEF PutRecord
  <2>4. Tally(vec, In(n - 1), all)
    BY <1>5
  <2>5. 1 .. n = (1 .. n - 1) \cup {n}
    BY <2>1
  <2>6. \A k \in In(n - 1) : k < n
    BY <2>1
  <2> HIDE DEF vec
  <2>7. CASE c \in ToSet(DrawersOf(all[n]))
    <3>1. In(n) = In(n - 1) \cup {n}
      BY <2>5, <2>7
    <3> HIDE DEF In
    <3>2. Tally(putInDrawer(vec, all[n]), In(n - 1) \cup {n}, all)
      BY <1>1, <2>2, <2>4, <2>6, TallyPut
    <3> QED
      BY <2>1, <2>3, <2>7, <3>1, <3>2
  <2>8. CASE c \notin ToSet(DrawersOf(all[n]))
    <3>1. In(n) = In(n - 1)
      BY <2>5, <2>8
    <3> HIDE DEF In
    <3> QED
      BY <2>1, <2>3, <2>4, <2>8, <3>1
  <2> QED
    BY <2>7, <2>8
<1>6. Len(all) \in T
  <2> HIDE DEF T
  <2>1. \A n \in 0 .. Len(all) : n \in T
    BY <1>1, <1>4, <1>5, Upward
  <2> QED
    BY <1>1, <2>1
<1> QED
  BY <1>3, <1>6 DEF all

-----------------------------------------------------------------------------
(* The records counted, with one more in hand.                             *)

\* LoadedRecords, Records and PutIn of a file, a load and a record in hand.
RecsOf(beh, load) ==
  (IF load = 0 THEN <<>> ELSE Append(SubSeq(beh, 1, load - 1), NoBehavior))
    \o SubSeq(beh, IF load = 0 THEN 1 ELSE load, Len(beh))
PutSet(c, recs, rec, done) ==
  {k \in 1 .. Len(recs) : c \in ToSet(DrawersOf(recs[k]))}
    \cup {k \in {Len(recs) + 1} : \E n \in 1 .. done : DrawersOf(rec)[n] = c}

LEMMA RecsAre ==
  ASSUME NEW beh \in Seq(Trips), NEW load \in 0 .. Len(beh) + 1
  PROVE  /\ RecsOf(beh, load) \in Seq(Trips)
         /\ \A r \in Trips : RecsOf(Append(beh, r), load) = Append(RecsOf(beh, load), r)
PROOF
<1> DEFINE n == Len(beh)
           Early(b) == IF load = 0 THEN <<>> ELSE Append(SubSeq(b, 1, load - 1), NoBehavior)
           from == IF load = 0 THEN 1 ELSE load
           Back(b) == SubSeq(b, from, Len(b))
<1>1. n \in Nat /\ from \in 1 .. n + 1 /\ NoBehavior \in Trips
  BY Zeroed
<1>2. \A b : RecsOf(b, load) = Early(b) \o Back(b)
  BY DEF RecsOf
<1>3. Early(beh) \in Seq(Trips)
  <2>1. load # 0 => SubSeq(beh, 1, load - 1) \in Seq(Trips)
    BY <1>1
  <2>2. <<>> \in Seq(Trips)
    OBVIOUS
  <2>3. load # 0 => Append(SubSeq(beh, 1, load - 1), NoBehavior) \in Seq(Trips)
    BY <1>1, <2>1
  <2> QED
    BY <2>2, <2>3
<1>4. Back(beh) \in Seq(Trips)
  <2> HIDE DEF from
  <2> QED
    BY <1>1
<1>5. RecsOf(beh, load) \in Seq(Trips)
  <2> HIDE DEF Early, Back
  <2> QED
    BY <1>2, <1>3, <1>4, ConcatProperties
<1>6. ASSUME NEW r \in Trips PROVE RecsOf(Append(beh, r), load) = Append(RecsOf(beh, load), r)
  <2> DEFINE more == Append(beh, r)
  <2>1. /\ more \in Seq(Trips) /\ Len(more) = n + 1 /\ more[n + 1] = r
        /\ \A i \in 1 .. n : more[i] = beh[i]
    OBVIOUS
  <2> HIDE DEF more
  <2>2. Early(more) = Early(beh)
    <3>1. CASE load = 0
      BY <3>1
    <3>2. CASE load # 0
      <4>1. load - 1 \in 0 .. n
        BY <1>1, <3>2
      <4>2. SubSeq(more, 1, load - 1) = SubSeq(beh, 1, load - 1)
        BY <1>1, <2>1, <4>1
      <4> QED
        BY <4>2
    <3> QED
      BY <3>1, <3>2
  <2>3. Back(more) = Append(Back(beh), r)
    <3> HIDE DEF from
    <3> DEFINE a == SubSeq(more, from, n + 1)
               b == SubSeq(beh, from, n)
               m == n - from + 1
    <3>1. m \in Nat /\ from \in Nat
      BY <1>1
    <3>2. /\ a \in Seq(Trips) /\ Len(a) = m + 1
          /\ \A i \in 1 .. m + 1 : a[i] = more[from + i - 1]
      BY <1>1, <2>1
    <3>3. b \in Seq(Trips) /\ Len(b) = m /\ \A i \in 1 .. m : b[i] = beh[from + i - 1]
      BY <1>1
    <3> HIDE DEF a, b
    <3>4. ASSUME NEW i \in 1 .. m + 1 PROVE a[i] = Append(b, r)[i]
      <4>1. CASE i = m + 1
        <5>1. from + i - 1 = n + 1
          BY <1>1, <4>1
        <5>2. a[i] = r
          BY <2>1, <3>2, <5>1
        <5>3. Append(b, r)[i] = r
          BY <3>1, <3>3, <4>1
        <5> QED
          BY <5>2, <5>3
      <4>2. CASE i # m + 1
        <5>1. from + i - 1 \in 1 .. n /\ i \in 1 .. m
          BY <1>1, <3>1, <4>2
        <5>2. a[i] = beh[from + i - 1]
          BY <2>1, <3>2, <5>1
        <5>3. Append(b, r)[i] = b[i]
          BY <3>3, <5>1
        <5> QED
          BY <3>3, <5>1, <5>2, <5>3
      <4> QED
        BY <4>1, <4>2
    <3> DEFINE u == Append(b, r)
    <3> HIDE DEF m
    <3>5. u \in Seq(Trips) /\ Len(u) = m + 1
      BY <3>1, <3>3
    <3> HIDE DEF u
    <3>6. a = u
      BY <3>2, <3>4, <3>5 DEF u
    <3> QED
      BY <2>1, <3>6 DEF a, b, u
  <2> HIDE DEF Early, Back
  <2>4. Early(beh) \o Append(Back(beh), r) = Append(Early(beh) \o Back(beh), r)
    BY <1>3, <1>4
  <2> QED
    BY <1>2, <2>2, <2>3, <2>4 DEF more
<1> QED
  BY <1>5, <1>6

\* After a load they are the records put.
LEMMA RecsLoaded ==
  ASSUME NEW beh \in Seq(Trips)
  PROVE  /\ RecsOf(beh, Len(Surplus(beh))) = Surplus(beh)
         /\ Len(Surplus(beh)) \in 0 .. Len(beh) + 1
PROOF
<1>1. CASE beh = <<>>
  <2>1. Surplus(beh) = <<>> /\ Len(Surplus(beh)) = 0 /\ Len(beh) = 0
    BY <1>1 DEF Surplus
  <2>2. SubSeq(beh, 1, 0) = <<>> /\ <<>> \o <<>> = <<>>
    BY <1>1
  <2> QED
    BY <2>1, <2>2 DEF RecsOf
<1>2. CASE beh # <<>>
  <2> DEFINE n == Len(beh)
  <2>1. n \in Nat /\ Surplus(beh) = Append(beh, NoBehavior) /\ Len(Surplus(beh)) = n + 1
    BY <1>2 DEF Surplus
  <2>2. SubSeq(beh, 1, n) = beh /\ SubSeq(beh, n + 1, n) = <<>>
    OBVIOUS
  <2>3. (n + 1) - 1 = n /\ n + 1 # 0
    BY <2>1
  <2>4. Surplus(beh) \in Seq(Trips)
    BY LoadedByTurns
  <2>5. Surplus(beh) \o <<>> = Surplus(beh)
    BY <2>4
  <2>6. RecsOf(beh, n + 1) = Append(SubSeq(beh, 1, n), NoBehavior) \o SubSeq(beh, n + 1, n)
    BY <2>3 DEF RecsOf
  <2> HIDE DEF n
  <2>7. RecsOf(beh, n + 1) = Surplus(beh)
    BY <2>1, <2>2, <2>5, <2>6
  <2>8. n + 1 \in 0 .. n + 1
    BY <2>1
  <2> QED
    BY <2>1, <2>7, <2>8 DEF n
<1> QED
  BY <1>1, <1>2

\* Drawers against the records of a file, of a load and in hand.
TallyOf(cells, beh, load, rec, done) ==
  \A c \in Cells : Tally(cells[c], PutSet(c, RecsOf(beh, load), rec, done),
                         Append(RecsOf(beh, load), rec))

LEMMA PutSetFacts ==
  ASSUME NEW recs \in Seq(Trips), NEW rec, NEW c
  PROVE  LET n == Len(recs) + 1
             before == {k \in 1 .. Len(recs) : c \in ToSet(DrawersOf(recs[k]))}
             more == Append(recs, rec)
         IN  /\ n \in Nat /\ n - 1 = Len(recs) /\ Len(more) = n /\ more[n] = rec
             /\ \A k \in 1 .. Len(recs) : k < n /\ k # n /\ k \in 1 .. n /\ more[k] = recs[k]
             /\ 1 .. n = (1 .. Len(recs)) \cup {n}
             /\ PutSet(c, recs, rec, 0) = before
PROOF
<1> DEFINE n == Len(recs) + 1
           more == Append(recs, rec)
           before == {k \in 1 .. Len(recs) : c \in ToSet(DrawersOf(recs[k]))}
<1>1. Len(recs) \in Nat /\ Len(more) = n /\ more[n] = rec /\ \A k \in 1 .. Len(recs) : more[k] = recs[k]
  OBVIOUS
<1>2. PutSet(c, recs, rec, 0) =
         before \cup {k \in {n} : \E i \in 1 .. 0 : DrawersOf(rec)[i] = c}
  BY DEF PutSet
<1>3. 1 .. 0 = {}
  OBVIOUS
<1> HIDE DEF before, more
<1>4. PutSet(c, recs, rec, 0) = before
  BY <1>2, <1>3
<1>5. /\ n \in Nat /\ n - 1 = Len(recs) /\ 1 .. n = (1 .. Len(recs)) \cup {n}
      /\ \A k \in 1 .. Len(recs) : k < n /\ k # n /\ k \in 1 .. n
  BY <1>1
<1> HIDE DEF n
<1> QED
  BY <1>1, <1>2, <1>4, <1>5 DEF n, more, before

\* As long as it is in no drawer, any record may be in hand.
LEMMA TallyInHand ==
  ASSUME NEW cells, NEW beh \in Seq(Trips), NEW load \in 0 .. Len(beh) + 1,
         NEW rec, NEW other, TallyOf(cells, beh, load, rec, 0)
  PROVE  TallyOf(cells, beh, load, other, 0)
PROOF
<1> DEFINE recs == RecsOf(beh, load)
<1>1. recs \in Seq(Trips)
  BY RecsAre
<1> HIDE DEF recs
<1> SUFFICES ASSUME NEW c \in Cells
             PROVE  Tally(cells[c], PutSet(c, recs, other, 0), Append(recs, other))
  BY DEF TallyOf, recs
<1> DEFINE before == {k \in 1 .. Len(recs) : c \in ToSet(DrawersOf(recs[k]))}
           n == Len(recs) + 1
<1>2. /\ PutSet(c, recs, rec, 0) = before /\ PutSet(c, recs, other, 0) = before
      /\ Len(Append(recs, rec)) = n /\ Len(Append(recs, other)) = n
      /\ \A k \in 1 .. Len(recs) : /\ k \in 1 .. n /\ Append(recs, rec)[k] = recs[k]
                                   /\ Append(recs, other)[k] = recs[k]
  BY <1>1, PutSetFacts
<1>3. Tally(cells[c], before, Append(recs, rec))
  BY <1>2 DEF TallyOf, recs
<1>4. before \subseteq 1 .. Len(recs)
  OBVIOUS
<1> HIDE DEF before, n
<1>5. Tally(cells[c], before, Append(recs, other))
  BY <1>2, <1>3, <1>4, TallySame
<1> QED
  BY <1>2, <1>5

\* The four drawers of a record are four.
LEMMA DrawersDiffer ==
  ASSUME NEW b \in Real, NEW k \in 1 .. 4, NEW i \in 1 .. 4, i # k
  PROVE  DrawersOf(b)[i] # DrawersOf(b)[k]
PROOF
<1> DEFINE t == YEAR_MON_DATE_DVT(b.date)
           D == DrawersOf(b)
           w == CaculateWeekDay(t.y, t.m, t.d)
           h == TIME_DVT(b.time).h
           d == t.d
           y == getIdxOfDate(t.y, t.m, t.d)
<1>1. PlacesAre(D, w, h, d, y)
  BY DrawerPlaces DEF PlacesAre
<1> HIDE DEF D, w, h, d, y
<1>2. /\ D[1] \in 0 .. 6 /\ D[2] \in 7 .. 30 /\ D[3] \in 31 .. 61
      /\ D[4] \in Int /\ D[4] >= 62
  BY <1>1 DEF PlacesAre
<1>3. D[1] < D[2] /\ D[2] < D[3] /\ D[3] < D[4] /\ \A j \in 1 .. 4 : D[j] \in Int
  BY <1>2
<1>4. D[i] # D[k]
  BY <1>3
<1> QED
  BY <1>4 DEF D

\* One more of its drawers.
LEMMA TallyNext ==
  ASSUME NEW cells \in [Cells -> Seq(Kept)], NEW beh \in Seq(Trips),
         NEW load \in 0 .. Len(beh) + 1, NEW rec \in Real, NEW k \in 1 .. 4,
         TallyOf(cells, beh, load, rec, k - 1)
  PROVE  LET x == DrawersOf(rec)[k]
         IN  TallyOf([cells EXCEPT ![x] = putInDrawer(cells[x], rec)], beh, load, rec, k)
PROOF
<1> DEFINE recs == RecsOf(beh, load)
           n == Len(recs) + 1
           more == Append(recs, rec)
           D == DrawersOf(rec)
           x == D[k]
           then == [cells EXCEPT ![x] = putInDrawer(cells[x], rec)]
<1>1. recs \in Seq(Trips)
  BY RecsAre
<1>2. x \in Cells /\ rec \in Trips
  BY DrawerIn DEF Real
<1>3. \A i \in 1 .. k - 1 : D[i] # x
  <2>1. \A i \in 1 .. k - 1 : i \in 1 .. 4 /\ i # k
    OBVIOUS
  <2> QED
    BY <2>1, DrawersDiffer
<1>4. 1 .. k = (1 .. k - 1) \cup {k}
  OBVIOUS
<1> HIDE DEF recs
<1> SUFFICES ASSUME NEW c \in Cells
             PROVE  Tally(then[c], PutSet(c, recs, rec, k), more)
  BY DEF TallyOf, recs
<1>5. Tally(cells[c], PutSet(c, recs, rec, k - 1), more)
  BY DEF TallyOf, recs
<1>6. then[c] = IF c = x THEN putInDrawer(cells[c], rec) ELSE cells[c]
  BY <1>2
<1> DEFINE before == {i \in 1 .. Len(recs) : c \in ToSet(DrawersOf(recs[i]))}
           InHand(done) == {j \in {n} : \E i \in 1 .. done : D[i] = c}
<1>7. /\ n \in Nat /\ Len(more) = n /\ more[n] = rec /\ n \in 1 .. n
      /\ \A i \in 1 .. Len(recs) : i < n
  BY <1>1, PutSetFacts
<1>p. /\ PutSet(c, recs, rec, k) = before \cup InHand(k)
      /\ PutSet(c, recs, rec, k - 1) = before \cup InHand(k - 1)
  BY DEF PutSet
<1>8. before \subseteq 1 .. Len(recs)
  OBVIOUS
<1> HIDE DEF more, then, n, before, D
<1>9. CASE c = x
  <2>1. InHand(k) = {n} /\ InHand(k - 1) = {}
    BY <1>3, <1>4, <1>9
  <2> HIDE DEF InHand, x
  <2>2. PutSet(c, recs, rec, k) = before \cup {n} /\ PutSet(c, recs, rec, k - 1) = before
    BY <1>p, <2>1
  <2>3. cells[c] \in Seq(Kept) /\ \A i \in before : i < n
    BY <1>7, <1>8
  <2>4. Tally(putInDrawer(cells[c], more[n]), before \cup {n}, more)
    BY <1>2, <1>5, <1>7, <2>2, <2>3, TallyPut
  <2> QED
    BY <1>6, <1>7, <1>9, <2>2, <2>4
<1>10. CASE c # x
  <2>1. InHand(k) = InHand(k - 1)
    BY <1>4, <1>10
  <2> HIDE DEF InHand, x
  <2> QED
    BY <1>5, <1>6, <1>p, <1>10, <2>1
<1> QED
  BY <1>9, <1>10

\* Written to the file, it is one of the records.
LEMMA TallyWritten ==
  ASSUME NEW cells, NEW beh \in Seq(Trips), NEW load \in 0 .. Len(beh) + 1,
         NEW rec \in Real, TallyOf(cells, beh, load, rec, 4)
  PROVE  TallyOf(cells, Append(beh, rec), load, NoBehavior, 0)
PROOF
<1> DEFINE recs == RecsOf(beh, load)
           n == Len(recs) + 1
           more == Append(recs, rec)
           after == Append(more, NoBehavior)
<1>1. recs \in Seq(Trips) /\ rec \in Trips /\ RecsOf(Append(beh, rec), load) = more
  BY RecsAre DEF Real
<1>2. more \in Seq(Trips)
  BY <1>1
<1>d. ToSet(DrawersOf(rec)) = {DrawersOf(rec)[i] : i \in 1 .. 4}
  BY DrawerPlaces
<1> HIDE DEF recs
<1> SUFFICES ASSUME NEW c \in Cells
             PROVE  Tally(cells[c], PutSet(c, more, NoBehavior, 0), after)
  BY <1>1 DEF TallyOf
<1>3. Tally(cells[c], PutSet(c, recs, rec, 4), more)
  BY DEF TallyOf, recs
<1> DEFINE before == {i \in 1 .. Len(recs) : c \in ToSet(DrawersOf(recs[i]))}
           InHand == {j \in {n} : \E i \in 1 .. 4 : DrawersOf(rec)[i] = c}
           In == {i \in 1 .. Len(more) : c \in ToSet(DrawersOf(more[i]))}
<1>4. /\ Len(more) = n /\ more[n] = rec /\ 1 .. n = (1 .. Len(recs)) \cup {n}
      /\ \A i \in 1 .. Len(recs) : more[i] = recs[i]
      /\ PutSet(c, recs, rec, 4) = before \cup InHand
  <2>1. /\ Len(more) = n /\ more[n] = rec /\ 1 .. n = (1 .. Len(recs)) \cup {n}
        /\ \A i \in 1 .. Len(recs) : more[i] = recs[i]
    BY <1>1, PutSetFacts
  <2>2. PutSet(c, recs, rec, 4) = before \cup InHand
    BY DEF PutSet
  <2> QED
    BY <2>1, <2>2
<1>5. /\ \A i \in 1 .. Len(more) : i \in 1 .. Len(after) /\ after[i] = more[i]
      /\ PutSet(c, more, NoBehavior, 0) = In
  <2> HIDE DEF more
  <2> QED
    BY <1>2, PutSetFacts
<1> HIDE DEF more, after, n
<1>6. In = before \cup InHand
  BY <1>d, <1>4
<1>7. In \subseteq 1 .. Len(more)
  OBVIOUS
<1> HIDE DEF In, before, InHand
<1>8. Tally(cells[c], In, more)
  BY <1>3, <1>4, <1>6
<1>9. Tally(cells[c], In, after)
  BY <1>5, <1>7, <1>8, TallySame
<1> QED
  BY <1>5, <1>9

\* And loaded again, with the zeroed one.
LEMMA TallyLoaded ==
  ASSUME NEW beh \in Seq(Trips)
  PROVE  TallyOf(Loaded(beh), beh, Len(Surplus(beh)), NoBehavior, 0)
PROOF
<1> DEFINE all == Surplus(beh)
           more == Append(all, NoBehavior)
<1>1. all \in Seq(Trips)
  BY LoadedByTurns
<1>2. RecsOf(beh, Len(all)) = all
  BY RecsLoaded
<1> SUFFICES ASSUME NEW c \in Cells
             PROVE  Tally(Loaded(beh)[c], PutSet(c, all, NoBehavior, 0), more)
  BY <1>2 DEF TallyOf
<1> DEFINE In == {k \in 1 .. Len(all) : c \in ToSet(DrawersOf(all[k]))}
<1>3. Tally(Loaded(beh)[c], In, all)
  BY LoadedTally
<1> HIDE DEF all
<1>4. /\ PutSet(c, all, NoBehavior, 0) = In
      /\ \A k \in 1 .. Len(all) : k \in 1 .. Len(more) /\ more[k] = all[k]
  BY <1>1, PutSetFacts
<1>5. In \subseteq 1 .. Len(all)
  OBVIOUS
<1> HIDE DEF In, more
<1>6. Tally(Loaded(beh)[c], In, more)
  BY <1>3, <1>4, <1>5, TallySame
<1> QED
  BY <1>4, <1>6

-----------------------------------------------------------------------------
(* No trip is lost or counted twice.                                       *)

\* Every drawer has the tally of the records put in it, and a save begins with
\* the first of its four.
Tallied ==
  /\ TallyOf(mBehav, behFile, loaded, saver.rec, PutsDone)
  /\ saver.pc \in {"idle", "count"} => saver.k = 1

LEMMA TalliedInit == Init => Tallied
PROOF
<1> SUFFICES ASSUME Init PROVE Tallied
  OBVIOUS
<1>1. TallyOf(Loaded(<<>>), <<>>, Len(Surplus(<<>>)), NoBehavior, 0)
  <2>1. <<>> \in Seq(Trips)
    OBVIOUS
  <2> QED
    BY <2>1, TallyLoaded
<1>2. Len(Surplus(<<>>)) = 0
  BY DEF Surplus
<1>3. mBehav = Loaded(<<>>) /\ behFile = <<>> /\ loaded = 0 /\ saver = SaverIdle
  BY DEF Init
<1>4. saver.rec = NoBehavior /\ saver.k = 1 /\ PutsDone = 0
  BY <1>3 DEF SaverIdle, PutsDone
<1> QED
  BY <1>1, <1>2, <1>3, <1>4 DEF Tallied

LEMMA TalliedStep ==
  Types /\ Types' /\ Sourced /\ Tallied /\ [Next]_vars => Tallied'
PROOF
<1> SUFFICES ASSUME Types, Types', Sourced, Tallied, [Next]_vars PROVE Tallied'
  OBVIOUS
<1>o. TallyOf(mBehav, behFile, loaded, saver.rec, PutsDone)
  BY DEF Tallied
<1>t. /\ behFile \in Seq(Trips) /\ loaded \in 0 .. Len(behFile) + 1
      /\ saver \in SaveState /\ saver.k \in 1 .. 4
      /\ mBehav \in [Cells -> Seq(Kept)]
  BY DEF Types, Sourced, SaveState, Full
<1>1. CASE Restart
  <2>1. mBehav' = Loaded(behFile) /\ behFile' = behFile /\ saver' = SaverIdle
    BY <1>1 DEF Restart, disk
  <2>2. loaded' = Len(Surplus(behFile))
    BY <1>1 DEF Restart, Surplus
  <2>3. TallyOf(Loaded(behFile), behFile, Len(Surplus(behFile)), NoBehavior, 0)
    BY <1>t, TallyLoaded
  <2>4. saver'.rec = NoBehavior /\ saver'.k = 1 /\ PutsDone' = 0
    BY <2>1 DEF SaverIdle, PutsDone
  <2> QED
    BY <2>1, <2>2, <2>3, <2>4 DEF Tallied
<1>2. ASSUME UNCHANGED <<mBehav, behFile, loaded, saver>> PROVE Tallied'
  <2>1. PutsDone' = PutsDone
    BY <1>2 DEF PutsDone
  <2> QED
    BY <1>2, <2>1 DEF Tallied
<1>3. ASSUME NEW p \in Stops, NEW now \in Clocks, FirstFix(p, now) PROVE Tallied'
  BY <1>2, <1>3 DEF FirstFix, disk
<1>4. ASSUME NEW p \in Stops, NEW time \in Arrivals, LastFix(p, time) PROVE Tallied'
  <2>1. saver.pc = "idle" /\ UNCHANGED <<mBehav, behFile, loaded>>
    BY <1>4 DEF LastFix, disk, bound
  <2>2. saver'.pc = "count" /\ saver'.k = 1
    BY <1>4 DEF LastFix, SaverIdle
  <2>3. PutsDone = 0 /\ PutsDone' = 0
    BY <2>1, <2>2 DEF PutsDone
  <2>4. TallyOf(mBehav, behFile, loaded, saver'.rec, 0)
    BY <1>o, <1>t, <2>3, TallyInHand
  <2> QED
    BY <2>1, <2>2, <2>3, <2>4 DEF Tallied
<1>5. CASE SaveCount
  <2>1. saver.pc = "count" /\ UNCHANGED <<mBehav, behFile, loaded>>
    BY <1>5 DEF SaveCount, disk, bound
  <2>2. saver'.pc = "put" /\ saver'.k = saver.k /\ saver'.rec = saver.rec
    BY <1>5, <1>t DEF SaveCount, SaveState
  <2>3. saver.k = 1
    BY <2>1 DEF Tallied
  <2>4. PutsDone = 0 /\ PutsDone' = 0
    BY <2>1, <2>2, <2>3 DEF PutsDone
  <2> QED
    BY <1>o, <2>1, <2>2, <2>4 DEF Tallied
<1>6. CASE SavePut
  <2>1. saver.pc = "put" /\ UNCHANGED <<behFile, loaded>>
    BY <1>6 DEF SavePut, disk, bound
  <2> DEFINE x == DrawersOf(saver.rec)[saver.k]
  <2>2. mBehav' = [mBehav EXCEPT ![x] = putInDrawer(mBehav[x], saver.rec)]
    BY <1>6 DEF SavePut
  <2>3. saver.rec \in Real
    BY <2>1 DEF Sourced
  <2>4. PutsDone = saver.k - 1
    BY <2>1 DEF PutsDone
  <2>5. TallyOf(mBehav', behFile, loaded, saver.rec, saver.k)
    <3>1. TallyOf([mBehav EXCEPT ![x] = putInDrawer(mBehav[x], saver.rec)],
                  behFile, loaded, saver.rec, saver.k)
      BY <1>o, <1>t, <2>3, <2>4, TallyNext
    <3> QED
      BY <2>2, <3>1
  <2>6. /\ saver'.rec = saver.rec /\ saver'.pc \in {"put", "write"}
        /\ PutsDone' = saver.k
    <3>1. saver' = IF saver.k < 4 THEN [saver EXCEPT !.k = @ + 1]
                   ELSE [saver EXCEPT !.pc = "write"]
      BY <1>6 DEF SavePut
    <3>2. CASE saver.k < 4
      <4>1. saver'.pc = "put" /\ saver'.rec = saver.rec /\ saver'.k = saver.k + 1
        BY <1>t, <2>1, <3>1, <3>2 DEF SaveState
      <4>2. saver'.k - 1 = saver.k
        BY <1>t, <4>1
      <4>3. PutsDone' = saver'.k - 1
        BY <4>1 DEF PutsDone
      <4> QED
        BY <4>1, <4>2, <4>3
    <3>3. CASE ~(saver.k < 4)
      <4>1. saver'.pc = "write" /\ saver'.rec = saver.rec /\ saver.k = 4
        BY <1>t, <2>1, <3>1, <3>3 DEF SaveState
      <4> QED
        BY <4>1 DEF PutsDone
    <3> QED
      BY <3>2, <3>3
  <2> QED
    BY <2>1, <2>5, <2>6 DEF Tallied
<1>7. CASE SaveWrite
  <2>1. /\ saver.pc = "write" /\ mBehav' = mBehav /\ loaded' = loaded
        /\ behFile' = Append(behFile, saver.rec) /\ saver' = SaverIdle
    BY <1>7 DEF SaveWrite, bound
  <2>2. saver.rec \in Real /\ PutsDone = 4
    BY <2>1 DEF Sourced, PutsDone
  <2>3. saver'.rec = NoBehavior /\ saver'.k = 1 /\ PutsDone' = 0
    BY <2>1 DEF SaverIdle, PutsDone
  <2>4. TallyOf(mBehav, Append(behFile, saver.rec), loaded, NoBehavior, 0)
    BY <1>o, <1>t, <2>2, TallyWritten
  <2> QED
    BY <2>1, <2>3, <2>4 DEF Tallied
<1>8. ASSUME NEW text \in Messages, NEW now \in Clocks, predictDestinationAtStart(text, now)
      PROVE  Tallied'
  BY <1>2, <1>8 DEF predictDestinationAtStart, disk
<1>9. CASE ReadDrawer \/ Rate \/ printResult
  BY <1>2, <1>9 DEF ReadDrawer, Rate, printResult, disk, bound
<1>10. CASE UNCHANGED vars
  BY <1>2, <1>10 DEF vars, disk, bound
<1> QED
  BY <1>1, <1>3, <1>4, <1>5, <1>6, <1>7, <1>8, <1>9, <1>10 DEF Next, Save

\* In terms of the properties.
LEMMA TalliedSays ==
  ASSUME Tallied, NEW c \in Cells
  PROVE  Tally(mBehav[c], PutIn(c), Known)
PROOF
<1>1. Records = RecsOf(behFile, loaded)
  BY DEF Records, RecordsUpTo, LoadedRecords, RecsOf
<1>2. PutIn(c) = PutSet(c, Records, saver.rec, PutsDone)
  BY DEF PutIn, PutSet
<1> QED
  BY <1>1, <1>2 DEF Known, Tallied, TallyOf

LEMMA TalliedAlways == Spec => [](Types /\ Tallied)
PROOF
<1>1. Spec => [](Types /\ Sourced /\ Tallied)
  BY TypesInit, TypesStep, SourcedInit, SourcedStep, TalliedInit, TalliedStep, PTL DEF Spec
<1> QED
  BY <1>1, PTL

\* No trip is lost or counted twice, whether saved or loaded again: in every
\* drawer, and while one is put in its four, the entries of a start and
\* destination together count its trips.
THEOREM TripsAreCounted == Spec => []EveryTripCounted
PROOF
<1>1. Types /\ Tallied => EveryTripCounted
  <2> SUFFICES ASSUME Types, Tallied, NEW c \in Cells,
                      NEW e \in ToSet(mBehav[c]) \cup {Known[k] : k \in PutIn(c)}
               PROVE  MapThenSumSet(LAMBDA k : mBehav[c][k].count,
                                    Between(mBehav[c], e.code_s, e.code_d))
                        = Cardinality(PutIn(c) \cap Between(Known, e.code_s, e.code_d))
    BY DEF EveryTripCounted
  <2> DEFINE vec == mBehav[c]
             S == Between(vec, e.code_s, e.code_d)
  <2>1. vec \in Seq(Kept) /\ Len(vec) \in Nat
    BY DEF Types, Full
  <2>2. S \in SUBSET (1 .. Len(vec))
    BY <2>1, BetweenFinite
  <2>3. MapThenSumSet(LAMBDA k : vec[k].count, S) = Total(CountsOf(vec), S)
    BY <2>1, <2>2, CountsTotal
  <2>4. Tally(vec, PutIn(c), Known)
    BY TalliedSays
  <2>5. Total(CountsOf(vec), S) = Cardinality(PutIn(c) \cap Between(Known, e.code_s, e.code_d))
    BY <2>4 DEF Tally, Sums
  <2> QED
    BY <2>3, <2>5
<1> QED
  BY <1>1, TalliedAlways, PTL

\* In every drawer the destination that leads a start's entries is the first
\* ever seen from it, after a load as well.
THEOREM FirstSeenLeads == Spec => []FirstDestinationLeads
PROOF
<1>1. Types /\ Tallied => FirstDestinationLeads
  <2> SUFFICES ASSUME Types, Tallied, NEW c \in Cells, NEW k \in PutIn(c),
                      \A j \in PutIn(c) : j < k => Known[j].code_s # Known[k].code_s
               PROVE  mBehav[c][FirstOf(mBehav[c], Known[k])].code_d = Known[k].code_d
    BY DEF FirstDestinationLeads
  <2> DEFINE vec == mBehav[c]
             j == FirstOf(vec, Known[k])
  <2>1. vec \in Seq(Kept) /\ Len(vec) \in Nat
    BY DEF Types, Full
  <2>2. Leads(vec, PutIn(c), Known)
    BY TalliedSays DEF Tally
  <2>3. \E i \in 1 .. Len(vec) : vec[i].code_s = Known[k].code_s
    BY <2>2 DEF Leads
  <2>4. /\ j \in 1 .. Len(vec) /\ vec[j].code_s = Known[k].code_s
        /\ \A i \in 1 .. Len(vec) : i < j => vec[i].code_s # Known[k].code_s
    BY <2>1, <2>3, FirstIs
  <2> HIDE DEF vec, j
  <2>5. FirstIn(vec, j) /\ FirstPut(PutIn(c), Known, k)
    BY <2>4 DEF FirstIn, FirstPut
  <2>6. vec[j].code_d = Known[k].code_d
    BY <2>2, <2>4, <2>5 DEF Leads
  <2> QED
    BY <2>6 DEF vec, j
<1> QED
  BY <1>1, TalliedAlways, PTL

-----------------------------------------------------------------------------
(* How much is counted, and how much is rated.                             *)

SumTo(f, n) == Total(f, 1 .. n)

LEMMA SumToFacts ==
  ASSUME NEW n \in Nat, NEW f, \A i \in 1 .. n : f[i] \in Nat
  PROVE  /\ SumTo(f, n) \in Nat
         /\ n = 0 => SumTo(f, n) = 0
         /\ n # 0 => SumTo(f, n) = SumTo(f, n - 1) + f[n]
         /\ \A e : (\A i \in 1 .. n : f[i] = e[i]) => SumTo(e, n) = SumTo(f, n)
PROOF
<1> DEFINE S == 1 .. n
<1>1. IsFiniteSet(S)
  BY FS_Interval
<1>2. n = 0 => S = {}
  OBVIOUS
<1>3. n # 0 => n \in S /\ S \ {n} = 1 .. n - 1 /\ 1 .. n - 1 \subseteq S
  OBVIOUS
<1>4. /\ Total(f, S) \in Nat
      /\ S = {} => Total(f, S) = 0
      /\ \A y \in S : Total(f, S) = f[y] + Total(f, S \ {y})
      /\ \A e : (\A x \in S : f[x] = e[x]) => Total(e, S) = Total(f, S)
  <2> HIDE DEF S
  <2>1. \A x \in S : f[x] \in Nat
    BY DEF S
  <2> QED
    BY <1>1, <2>1, TotalFacts
<1>5. n # 0 => SumTo(f, n) = SumTo(f, n - 1) + f[n]
  <2> SUFFICES ASSUME n # 0 PROVE SumTo(f, n) = SumTo(f, n - 1) + f[n]
    OBVIOUS
  <2>1. SumTo(f, n) = f[n] + SumTo(f, n - 1) /\ f[n] \in Nat
    BY <1>3, <1>4 DEF SumTo
  <2>2. IsFiniteSet(1 .. n - 1) /\ \A x \in 1 .. n - 1 : f[x] \in Nat
    BY <1>3, FS_Interval
  <2>3. SumTo(f, n - 1) \in Nat
    BY <2>2, TotalFacts DEF SumTo
  <2> QED
    BY <2>1, <2>3
<1> QED
  BY <1>2, <1>4, <1>5 DEF SumTo

\* One number more.
LEMMA SumAppend ==
  ASSUME NEW n \in Nat, NEW f, NEW g, g[n + 1] \in Nat,
         \A i \in 1 .. n : f[i] \in Nat /\ g[i] = f[i]
  PROVE  SumTo(g, n + 1) = SumTo(f, n) + g[n + 1] /\ SumTo(f, n) \in Nat
PROOF
<1>1. n + 1 \in Nat /\ n + 1 # 0 /\ (n + 1) - 1 = n
  OBVIOUS
<1>2. \A i \in 1 .. n + 1 : i \in 1 .. n \/ i = n + 1
  OBVIOUS
<1>3. \A i \in 1 .. n + 1 : g[i] \in Nat
  BY <1>2
<1>4. SumTo(g, n + 1) = SumTo(g, n) + g[n + 1]
  <2> DEFINE m == n + 1
  <2>1. m \in Nat /\ m # 0 /\ m - 1 = n /\ \A i \in 1 .. m : g[i] \in Nat
    BY <1>1, <1>3
  <2> HIDE DEF m
  <2>2. SumTo(g, m) = SumTo(g, m - 1) + g[m]
    BY <2>1, SumToFacts
  <2> QED
    BY <2>1, <2>2 DEF m
<1>5. SumTo(g, n) = SumTo(f, n) /\ SumTo(f, n) \in Nat
  BY SumToFacts
<1> QED
  BY <1>4, <1>5

\* One number changed.
LEMMA SumChanged ==
  ASSUME NEW n \in Nat, NEW j \in 1 .. n, NEW f, NEW g, NEW x \in Nat,
         \A i \in 1 .. n : f[i] \in Nat, g[j] = f[j] + x,
         \A i \in 1 .. n : i # j => g[i] = f[i]
  PROVE  SumTo(g, n) = SumTo(f, n) + x
PROOF
<1> DEFINE S == 1 .. n
           R == S \ {j}
<1>1. IsFiniteSet(S) /\ j \in S
  BY FS_Interval
<1>2. IsFiniteSet(R) /\ R \subseteq S
  BY <1>1, FS_Subset
<1>3. /\ \A i \in S : f[i] \in Nat /\ g[i] \in Nat
      /\ \A i \in R : f[i] \in Nat /\ f[i] = g[i]
  OBVIOUS
<1> HIDE DEF S
<1>4. Total(f, S) = f[j] + Total(f, R) /\ Total(g, S) = g[j] + Total(g, R)
  BY <1>1, <1>3, TotalFacts
<1> HIDE DEF R
<1>5. Total(g, R) = Total(f, R) /\ Total(f, R) \in Nat
  BY <1>2, <1>3, TotalFacts
<1>6. f[j] \in Nat
  BY <1>1, <1>3
<1>7. Total(g, S) = Total(f, S) + x
  BY <1>4, <1>5, <1>6
<1> QED
  BY <1>7 DEF S, SumTo

\* The same numbers, or some of them, in another order.
LEMMA SumReordered ==
  ASSUME NEW n \in Nat, NEW m \in Nat, NEW f, NEW g, NEW h \in [1 .. n -> 1 .. m],
         \A i, j \in 1 .. n : i # j => h[i] # h[j],
         \A i \in 1 .. m : g[i] \in Nat,
         \A i \in 1 .. n : f[i] = g[h[i]]
  PROVE  SumTo(f, n) <= SumTo(g, m)
PROOF
<1> DEFINE M == 1 .. m
           Left(j) == M \ {h[i] : i \in 1 .. j}
           T == {j \in 0 .. n : Total(g, M) = SumTo(f, j) + Total(g, Left(j))}
<1>1. IsFiniteSet(M)
  BY FS_Interval
<1>2. \A j : IsFiniteSet(Left(j)) /\ \A i \in Left(j) : g[i] \in Nat
  BY <1>1, FS_Subset
<1>3. \A j : Total(g, Left(j)) \in Nat
  <2> HIDE DEF Left
  <2> QED
    BY <1>2, TotalFacts
<1>f. \A i \in 1 .. n : f[i] \in Nat
  OBVIOUS
<1>4. \A j \in 0 .. n : SumTo(f, j) \in Nat
  <2> SUFFICES ASSUME NEW j \in 0 .. n PROVE SumTo(f, j) \in Nat
    OBVIOUS
  <2>1. j \in Nat /\ \A i \in 1 .. j : f[i] \in Nat
    BY <1>f
  <2> QED
    BY <2>1, SumToFacts
<1>5. 0 \in T
  <2>1. Left(0) = M /\ 0 \in 0 .. n
    OBVIOUS
  <2>2. SumTo(f, 0) = 0
    <3>1. \A i \in 1 .. 0 : f[i] \in Nat
      OBVIOUS
    <3> QED
      BY <3>1, SumToFacts
  <2> HIDE DEF Left, M
  <2>3. Total(g, M) \in Nat
    BY <1>3, <2>1
  <2>4. Total(g, M) = SumTo(f, 0) + Total(g, Left(0))
    BY <2>1, <2>2, <2>3
  <2> QED
    BY <2>1, <2>4
<1>6. ASSUME NEW j \in 1 .. n, j - 1 \in T PROVE j \in T
  <2>1. h[j] \in Left(j - 1) /\ Left(j) = Left(j - 1) \ {h[j]}
    <3>1. 1 .. j = (1 .. j - 1) \cup {j} /\ \A i \in 1 .. j - 1 : i \in 1 .. n /\ i # j
      OBVIOUS
    <3>2. h[j] \in M
      OBVIOUS
    <3> QED
      BY <3>1, <3>2
  <2>2. Total(g, M) = SumTo(f, j - 1) + Total(g, Left(j - 1))
    BY <1>6
  <2>3. f[j] = g[h[j]] /\ f[j] \in Nat
    BY <1>f
  <2>i. \A i \in 1 .. j : i \in 1 .. n
    OBVIOUS
  <2>n. j \in Nat /\ j # 0 /\ j \in 0 .. n /\ j - 1 \in 0 .. n
    OBVIOUS
  <2> HIDE DEF Left, M
  <2>4. Total(g, Left(j - 1)) = g[h[j]] + Total(g, Left(j))
    BY <1>2, <2>1, TotalFacts
  <2>5. SumTo(f, j) = SumTo(f, j - 1) + f[j]
    BY <1>f, <2>i, <2>n, SumToFacts
  <2>6. SumTo(f, j - 1) \in Nat /\ Total(g, Left(j)) \in Nat
    BY <1>3, <1>4, <2>n
  <2>7. Total(g, M) = SumTo(f, j) + Total(g, Left(j))
    BY <2>2, <2>3, <2>4, <2>5, <2>6
  <2> QED
    BY <2>7, <2>n
<1>7. n \in T
  <2> HIDE DEF T
  <2>1. \A j \in 0 .. n : j \in T
    BY <1>5, <1>6, Upward
  <2> QED
    BY <2>1
<1> HIDE DEF Left, M
<1>8. Total(g, M) = SumTo(f, n) + Total(g, Left(n))
  BY <1>7
<1>9. SumTo(f, n) \in Nat /\ Total(g, Left(n)) \in Nat
  <2>1. n \in 0 .. n
    OBVIOUS
  <2> QED
    BY <1>3, <1>4, <2>1
<1>10. SumTo(f, n) <= Total(g, M)
  BY <1>8, <1>9
<1> QED
  BY <1>10 DEF M, SumTo

\* All that a sequence of entries or candidates counts.
Whole(vec) == SumTo(CountsOf(vec), Len(vec))

LEMMA WholeAppended ==
  ASSUME NEW X, NEW vec \in Seq(X), NEW e \in X, \A x \in X : x.count \in Nat
  PROVE  Whole(Append(vec, e)) = Whole(vec) + e.count /\ Whole(vec) \in Nat
PROOF
<1> DEFINE w == Append(vec, e)
           n == Len(vec)
           f == CountsOf(vec)
           g == CountsOf(w)
<1>1. n \in Nat /\ Len(w) = n + 1 /\ w[n + 1] = e /\ \A i \in 1 .. n : w[i] = vec[i]
  OBVIOUS
<1>2. \A i \in 1 .. n : vec[i] \in X
  OBVIOUS
<1>3. 1 .. n + 1 = (1 .. n) \cup {n + 1}
  BY <1>1
<1> HIDE DEF w
<1>4. f = [i \in 1 .. n |-> vec[i].count] /\ g = [i \in 1 .. n + 1 |-> w[i].count]
  BY <1>1 DEF CountsOf
<1> HIDE DEF f, g, n
<1>5. g[n + 1] = e.count /\ \A i \in 1 .. n : f[i] \in Nat /\ g[i] = f[i]
  BY <1>1, <1>2, <1>3, <1>4
<1>6. SumTo(g, n + 1) = SumTo(f, n) + g[n + 1] /\ SumTo(f, n) \in Nat
  BY <1>1, <1>5, SumAppend
<1> QED
  BY <1>1, <1>5, <1>6 DEF Whole, w, f, g, n

LEMMA WholeEmpty == Whole(<<>>) = 0
PROOF
<1>1. Len(<<>>) = 0 /\ \A i \in 1 .. 0 : CountsOf(<<>>)[i] \in Nat
  OBVIOUS
<1> QED
  BY <1>1, SumToFacts DEF Whole

\* A record put in a drawer counts for one.
LEMMA WholePut ==
  ASSUME NEW vec \in Seq(Kept), NEW b \in Trips
  PROVE  Whole(putInDrawer(vec, b)) = Whole(vec) + 1 /\ Whole(vec) \in Nat
PROOF
<1> DEFINE j == FirstOf(vec, b)
           w == putInDrawer(vec, b)
           Counting == /\ \E i \in 1 .. Len(vec) : vec[i].code_s = b.code_s
                       /\ vec[j].code_d = b.code_d
<1>1. w = IF Counting THEN [vec EXCEPT ![j].count = @ + 1] ELSE Append(vec, New(b))
  BY PutIs
<1>2. \A x \in Kept : x.count \in Nat
  BY DEF Kept, Entry
<1>3. New(b) \in Kept /\ New(b).count = 1
  BY NewKept DEF New, Trips, Behavior
<1>4. Whole(Append(vec, New(b))) = Whole(vec) + 1 /\ Whole(vec) \in Nat
  <2> DEFINE e == New(b)
  <2>1. e \in Kept /\ e.count = 1
    BY <1>3
  <2> HIDE DEF e
  <2>2. Whole(Append(vec, e)) = Whole(vec) + e.count /\ Whole(vec) \in Nat
    BY <1>2, <2>1, WholeAppended
  <2> QED
    BY <2>1, <2>2 DEF e
<1>5. CASE Counting
  <2>1. j \in 1 .. Len(vec)
    <3>1. Len(vec) \in Nat
      OBVIOUS
    <3> QED
      BY <1>5, <3>1, FirstIs
  <2> DEFINE v == [vec EXCEPT ![j].count = @ + 1]
             f == CountsOf(vec)
             g == CountsOf(v)
  <2>2. w = v
    BY <1>1, <1>5
  <2> HIDE DEF j, w
  <2>3. /\ v \in Seq(Kept) /\ Len(v) = Len(vec) /\ v[j].count = vec[j].count + 1
        /\ \A i \in 1 .. Len(vec) : i # j => v[i].count = vec[i].count
    BY <2>1, CountedEntry
  <2> HIDE DEF v
  <2>4. /\ \A i \in 1 .. Len(vec) : f[i] = vec[i].count /\ f[i] \in Nat
        /\ \A i \in 1 .. Len(vec) : g[i] = v[i].count
    BY <2>3, CountsAre
  <2>5. Len(vec) \in Nat
    OBVIOUS
  <2> HIDE DEF f, g
  <2>6. g[j] = f[j] + 1 /\ \A i \in 1 .. Len(vec) : i # j => g[i] = f[i]
    BY <2>1, <2>3, <2>4
  <2>7. SumTo(g, Len(vec)) = SumTo(f, Len(vec)) + 1
    BY <2>1, <2>4, <2>5, <2>6, SumChanged
  <2> QED
    BY <1>4, <2>2, <2>3, <2>7 DEF Whole, f, g, w
<1>6. CASE ~Counting
  BY <1>1, <1>4, <1>6
<1> QED
  BY <1>5, <1>6

\* A load counts each record put once at most in a drawer.
LEMMA LoadedWhole ==
  ASSUME NEW recs \in Seq(Trips), NEW c \in Cells
  PROVE  Whole(Loaded(recs)[c]) <= Len(Surplus(recs))
PROOF
<1> DEFINE all == Surplus(recs)
<1>1. all \in Seq(Trips) /\ Len(all) \in Nat
  BY LoadedByTurns
<1>2. PICK put : Filling(recs, put)
  BY LoadedByTurns
<1>3. /\ put \in [0 .. Len(all) -> Full]
      /\ put[0] = [x \in Cells |-> <<>>] /\ Loaded(recs) = put[Len(all)]
      /\ \A n \in 1 .. Len(all) : put[n] = PutRecord(put[n - 1], all[n])
  BY <1>2 DEF Filling
<1> HIDE DEF all
<1> DEFINE T == {n \in 0 .. Len(all) : Whole(put[n][c]) \in Nat /\ Whole(put[n][c]) <= n}
<1>4. 0 \in T
  <2>1. put[0][c] = <<>> /\ 0 \in 0 .. Len(all)
    BY <1>1, <1>3
  <2> QED
    BY <2>1, WholeEmpty
<1>5. ASSUME NEW n \in 1 .. Len(all), n - 1 \in T PROVE n \in T
  <2> DEFINE vec == put[n - 1][c]
  <2>1. n - 1 \in 0 .. Len(all) /\ n \in 0 .. Len(all)
    BY <1>1
  <2>2. vec \in Seq(Kept) /\ all[n] \in Trips
    <3>1. put[n - 1] \in Full
      BY <1>3, <2>1
    <3>2. put[n - 1] \in [Cells -> Seq(Kept)]
      BY <3>1 DEF Full
    <3>3. vec \in Seq(Kept)
      BY <3>2
    <3> QED
      BY <1>1, <3>3
  <2>3. put[n][c] = IF c \in ToSet(DrawersOf(all[n])) THEN putInDrawer(vec, all[n]) ELSE vec
    BY <1>3 DEF PutRecord
  <2>4. Whole(vec) \in Nat /\ Whole(vec) <= n - 1
    BY <1>5
  <2> HIDE DEF vec
  <2>5. Whole(putInDrawer(vec, all[n])) = Whole(vec) + 1
    BY <2>2, WholePut
  <2>6. Whole(put[n][c]) \in {Whole(vec), Whole(vec) + 1}
    BY <2>3, <2>5
  <2>7. Whole(put[n][c]) \in Nat /\ Whole(put[n][c]) <= n
    BY <2>1, <2>4, <2>6
  <2> QED
    BY <2>1, <2>7
<1>6. Len(all) \in T
  <2> HIDE DEF T
  <2>1. \A n \in 0 .. Len(all) : n \in T
    BY <1>1, <1>4, <1>5, Upward
  <2> QED
    BY <1>1, <2>1
<1> QED
  BY <1>3, <1>6 DEF all

\* Candidates count no more than their drawer.
LEMMA WholeCandidates ==
  ASSUME NEW vec \in Seq(Kept), NEW behav
  PROVE  Whole(Candidates(vec, behav)) <= Whole(vec) /\ Whole(Candidates(vec, behav)) \in Nat
PROOF
<1> DEFINE n == Len(vec)
           f == CountsOf(vec)
<1>1. n \in Nat /\ \A j \in 1 .. n : f[j] = vec[j].count /\ f[j] \in Nat /\ vec[j] \in Kept
  BY CountsAre
<1>2. PICK own : Collecting(vec, behav, own)
  BY CandidatesByTurns
<1>3. /\ own \in [0 .. n -> Seq(Kept)] /\ own[0] = <<>> /\ Candidates(vec, behav) = own[n]
      /\ \A j \in 1 .. n : own[j] = own[j - 1] \/ own[j] = Append(own[j - 1], vec[j])
  BY <1>2 DEF Collecting
<1>4. \A x \in Kept : x.count \in Nat
  BY DEF Kept, Entry
<1> HIDE DEF n, f
<1> DEFINE T == {j \in 0 .. n : Whole(own[j]) \in Nat /\ Whole(own[j]) <= SumTo(f, j)}
<1>5. 0 \in T
  <2>1. SumTo(f, 0) = 0
    <3>1. \A i \in 1 .. 0 : f[i] \in Nat
      OBVIOUS
    <3> QED
      BY <3>1, SumToFacts
  <2> QED
    BY <1>1, <1>3, <2>1, WholeEmpty
<1>6. ASSUME NEW j \in 1 .. n, j - 1 \in T PROVE j \in T
  <2>1. j \in Nat /\ j # 0 /\ j - 1 \in 0 .. n /\ j \in 0 .. n /\ j - 1 \in Nat
        /\ \A i \in 1 .. j : i \in 1 .. n
    BY <1>1
  <2>2. SumTo(f, j) = SumTo(f, j - 1) + f[j] /\ f[j] \in Nat
    BY <1>1, <2>1, SumToFacts
  <2>3. SumTo(f, j - 1) \in Nat
    <3>1. \A i \in 1 .. j - 1 : f[i] \in Nat
      BY <1>1, <2>1
    <3> QED
      BY <2>1, <3>1, SumToFacts
  <2>4. Whole(own[j - 1]) \in Nat /\ Whole(own[j - 1]) <= SumTo(f, j - 1)
    BY <1>6
  <2>5. Whole(Append(own[j - 1], vec[j])) = Whole(own[j - 1]) + f[j]
    <3>1. own[j - 1] \in Seq(Kept) /\ vec[j] \in Kept /\ f[j] = vec[j].count
      BY <1>1, <1>3, <2>1
    <3> QED
      BY <1>4, <3>1, WholeAppended
  <2>6. Whole(own[j]) \in {Whole(own[j - 1]), Whole(own[j - 1]) + f[j]}
    BY <1>3, <2>5
  <2>7. Whole(own[j]) \in Nat /\ Whole(own[j]) <= SumTo(f, j)
    BY <2>2, <2>3, <2>4, <2>6
  <2> QED
    BY <2>1, <2>7
<1>7. n \in T
  <2> HIDE DEF T
  <2>1. \A j \in 0 .. n : j \in T
    BY <1>1, <1>5, <1>6, Upward
  <2> QED
    BY <1>1, <2>1
<1> QED
  BY <1>3, <1>7 DEF Whole, f, n

LEMMA WholeDestRate ==
  ASSUME NEW vec \in Seq(Kept), NEW behav, NEW date_d
  PROVE  /\ Whole(getDestRateFromDraw(vec, behav, date_d)) <= Whole(vec)
         /\ Whole(getDestRateFromDraw(vec, behav, date_d)) \in Nat
PROOF
<1> DEFINE cs == Candidates(vec, behav)
           rs == getDestRateFromDraw(vec, behav, date_d)
<1>1. rs = [j \in 1 .. Len(cs) |->
              [code_s |-> cs[j].code_s, code_d |-> cs[j].code_d, date_d |-> date_d,
               time_d |-> cs[j].time_d, count |-> cs[j].count]]
  BY DEF getDestRateFromDraw
<1>2. cs \in Seq(Kept)
  BY CandidatesKept
<1> HIDE DEF cs, rs
<1>3. Len(cs) \in Nat
  BY <1>2
<1>4. Len(rs) = Len(cs) /\ \A j \in 1 .. Len(cs) : rs[j].count = cs[j].count
  BY <1>1, <1>3
<1>5. CountsOf(rs) = CountsOf(cs)
  BY <1>4 DEF CountsOf
<1>6. Whole(rs) = Whole(cs)
  BY <1>4, <1>5 DEF Whole
<1> QED
  BY <1>6, WholeCandidates DEF cs, rs

\* What candidates add to the rates, and the rates together.
SharesOf(cands) == [k \in 1 .. Len(cands) |-> cands[k].res.count * cands[k].weight]
Shared(cands) == SumTo(SharesOf(cands), Len(cands))
RatesOf(list) == [k \in 1 .. Len(list) |-> list[k].rate]
Rated(list) == SumTo(RatesOf(list), Len(list))

LEMMA ShareNat ==
  ASSUME NEW x \in Share
  PROVE  x.res.count * x.weight \in Nat /\ x.res \in Cand /\ x.res.count \in Nat
PROOF
<1>1. x.res \in Cand /\ x.weight \in {10, 6, 3, 1}
  BY DEF Share
<1>2. x.res.count \in Nat
  BY <1>1 DEF Cand
<1> QED
  BY <1>1, <1>2

LEMMA SharesAre ==
  ASSUME NEW cands \in Seq(Share)
  PROVE  /\ Len(cands) \in Nat
         /\ \A k \in 1 .. Len(cands) : /\ SharesOf(cands)[k] = cands[k].res.count * cands[k].weight
                                       /\ SharesOf(cands)[k] \in Nat /\ cands[k] \in Share
PROOF
<1>1. Len(cands) \in Nat /\ \A k \in 1 .. Len(cands) : cands[k] \in Share
  OBVIOUS
<1>2. \A k \in 1 .. Len(cands) : cands[k].res.count * cands[k].weight \in Nat
  BY <1>1, ShareNat
<1> QED
  BY <1>1, <1>2 DEF SharesOf

LEMMA RatesAre ==
  ASSUME NEW list \in Seq(Result)
  PROVE  /\ Len(list) \in Nat /\ Rated(list) \in Nat
         /\ \A k \in 1 .. Len(list) : RatesOf(list)[k] = list[k].rate /\ RatesOf(list)[k] \in Nat
PROOF
<1>1. Len(list) \in Nat /\ \A k \in 1 .. Len(list) : list[k] \in Result
  OBVIOUS
<1>2. \A k \in 1 .. Len(list) : RatesOf(list)[k] = list[k].rate /\ RatesOf(list)[k] \in Nat
  BY <1>1 DEF RatesOf, Result
<1>3. Rated(list) \in Nat
  BY <1>1, <1>2, SumToFacts DEF Rated
<1> QED
  BY <1>1, <1>2, <1>3

\* A candidate adds its share at most.
LEMMA RatedWeigh ==
  ASSUME NEW list \in Seq(Result), NEW c \in Share
  PROVE  Rated(Weigh(list, c)) <= Rated(list) + c.res.count * c.weight
PROOF
<1> DEFINE same == {k \in 1 .. Len(list) : list[k].code = c.res.code_d}
           part == IF endCount = 0 THEN 0 ELSE c.res.count * c.weight
           new  == [code |-> c.res.code_d, pos |-> Zero, rate |-> part,
                    date_d |-> c.res.date_d, time_d |-> c.res.time_d]
           k == CHOOSE k \in same : TRUE
           raised == [list EXCEPT ![k].rate = @ + part]
           f == RatesOf(list)
           n == Len(list)
           share == c.res.count * c.weight
<1>1. share \in Nat /\ c.res \in Cand
  BY ShareNat
<1>2. part \in Nat /\ part <= share
  BY <1>1
<1>3. Weigh(list, c) = IF Len(list) = 3 THEN list
                       ELSE IF same # {} THEN raised ELSE Append(list, new)
  BY DEF Weigh
<1>4. n \in Nat /\ Rated(list) \in Nat /\ \A i \in 1 .. n : f[i] = list[i].rate /\ f[i] \in Nat
  BY RatesAre
<1>5. new \in Result /\ new.rate = part
  BY <1>1, <1>2, CandsYieldResults DEF Yields
<1>6. same # {} => k \in 1 .. n
  OBVIOUS
<1> HIDE DEF share, part, new, k
<1>7. ASSUME same # {} PROVE Rated(raised) = Rated(list) + part
  <2> DEFINE e == [list[k] EXCEPT !.rate = @ + part]
             g == RatesOf(raised)
  <2>1. k \in 1 .. n /\ list[k] \in Result
    BY <1>6, <1>7
  <2>2. e.rate = list[k].rate + part
    BY <2>1 DEF Result
  <2>3. raised = [list EXCEPT ![k] = e]
    OBVIOUS
  <2> HIDE DEF e, raised
  <2>4. Len(raised) = n /\ raised[k] = e /\ \A i \in 1 .. n : i # k => raised[i] = list[i]
    BY <2>1, <2>3
  <2>5. g = [i \in 1 .. n |-> raised[i].rate]
    BY <2>4 DEF RatesOf
  <2> HIDE DEF f, g, n
  <2>6. g[k] = f[k] + part /\ \A i \in 1 .. n : i # k => g[i] = f[i]
    BY <1>4, <2>1, <2>2, <2>4, <2>5
  <2>7. SumTo(g, n) = SumTo(f, n) + part
    BY <1>2, <1>4, <2>1, <2>6, SumChanged
  <2> QED
    BY <2>4, <2>7 DEF Rated, f, g, n
<1>8. Rated(Append(list, new)) = Rated(list) + part
  <2> DEFINE w == Append(list, new)
             g == RatesOf(w)
  <2>1. Len(w) = n + 1 /\ w[n + 1] = new /\ \A i \in 1 .. n : w[i] = list[i]
    BY <1>5
  <2> HIDE DEF w
  <2>2. g = [i \in 1 .. n + 1 |-> w[i].rate]
    BY <2>1 DEF RatesOf
  <2>3. 1 .. n + 1 = (1 .. n) \cup {n + 1}
    BY <1>4
  <2> HIDE DEF f, g, n
  <2>4. g[n + 1] = part /\ \A i \in 1 .. n : f[i] \in Nat /\ g[i] = f[i]
    BY <1>4, <1>5, <2>1, <2>2, <2>3
  <2>5. SumTo(g, n + 1) = SumTo(f, n) + part
    BY <1>2, <1>4, <2>4, SumAppend
  <2> QED
    BY <2>1, <2>5 DEF Rated, f, g, n, w
<1> HIDE DEF raised, same
<1>9. Rated(Weigh(list, c)) \in {Rated(list), Rated(list) + part}
  BY <1>3, <1>7, <1>8
<1>10. Rated(Weigh(list, c)) <= Rated(list) + share
  BY <1>1, <1>2, <1>4, <1>9
<1> QED
  BY <1>10 DEF share

\* All candidates together add their shares at most.
LEMMA RatedListed ==
  ASSUME NEW cands \in Seq(Share)
  PROVE  Rated(Listed(cands)) <= Shared(cands)
PROOF
<1> DEFINE n == Len(cands)
           f == SharesOf(cands)
<1>1. n \in Nat /\ \A j \in 1 .. n : /\ f[j] = cands[j].res.count * cands[j].weight
                                     /\ f[j] \in Nat /\ cands[j] \in Share
  BY SharesAre
<1>2. PICK list : Listing(cands, list)
  BY ListedByTurns
<1>3. /\ list \in [0 .. n -> Seq(Result)] /\ list[0] = <<>> /\ Listed(cands) = list[n]
      /\ \A j \in 1 .. n : list[j] = Weigh(list[j - 1], cands[j])
  BY <1>2 DEF Listing
<1> HIDE DEF n, f
<1> DEFINE T == {j \in 0 .. n : Rated(list[j]) <= SumTo(f, j)}
<1>4. 0 \in T
  <2>1. SumTo(f, 0) = 0
    <3>1. \A i \in 1 .. 0 : f[i] \in Nat
      OBVIOUS
    <3> QED
      BY <3>1, SumToFacts
  <2>2. Rated(<<>>) = 0
    <3>1. Len(<<>>) = 0 /\ \A i \in 1 .. 0 : RatesOf(<<>>)[i] \in Nat
      OBVIOUS
    <3> QED
      BY <3>1, SumToFacts DEF Rated
  <2> QED
    BY <1>1, <1>3, <2>1, <2>2
<1>5. ASSUME NEW j \in 1 .. n, j - 1 \in T PROVE j \in T
  <2>1. /\ j \in Nat /\ j # 0 /\ j - 1 \in 0 .. n /\ j \in 0 .. n /\ j - 1 \in Nat
        /\ \A i \in 1 .. j : i \in 1 .. n
    BY <1>1
  <2>2. SumTo(f, j) = SumTo(f, j - 1) + f[j] /\ f[j] \in Nat
    BY <1>1, <2>1, SumToFacts
  <2>3. SumTo(f, j - 1) \in Nat
    <3>1. \A i \in 1 .. j - 1 : f[i] \in Nat
      BY <1>1, <2>1
    <3> QED
      BY <2>1, <3>1, SumToFacts
  <2>4. Rated(list[j - 1]) <= SumTo(f, j - 1)
    BY <1>5
  <2>5. /\ list[j - 1] \in Seq(Result) /\ cands[j] \in Share
        /\ list[j] = Weigh(list[j - 1], cands[j])
    BY <1>1, <1>3, <2>1
  <2>6. Rated(list[j]) <= Rated(list[j - 1]) + f[j]
    BY <1>1, <2>5, RatedWeigh
  <2>7. Rated(list[j - 1]) \in Nat /\ Rated(list[j]) \in Nat
    BY <1>3, <2>1, RatesAre
  <2>8. Rated(list[j]) <= SumTo(f, j)
    BY <2>2, <2>3, <2>4, <2>6, <2>7
  <2> QED
    BY <2>1, <2>8
<1>6. n \in T
  <2> HIDE DEF T
  <2>1. \A j \in 0 .. n : j \in T
    BY <1>1, <1>4, <1>5, Upward
  <2> QED
    BY <1>1, <2>1
<1> QED
  BY <1>3, <1>6 DEF Shared, f, n

\* The shares of two lists of candidates, one after the other.
LEMMA SharedConcat ==
  ASSUME NEW a \in Seq(Share), NEW b \in Seq(Share)
  PROVE  Shared(a \o b) = Shared(a) + Shared(b) /\ Shared(a) \in Nat /\ Shared(b) \in Nat
PROOF
<1> DEFINE ab == a \o b
           n == Len(a)
           m == Len(b)
           f == SharesOf(a)
           g == SharesOf(b)
           h == SharesOf(ab)
<1>1. /\ ab \in Seq(Share) /\ Len(ab) = n + m
      /\ \A i \in 1 .. n : ab[i] = a[i]
      /\ \A i \in 1 .. m : ab[n + i] = b[i]
  BY ConcatProperties
<1> HIDE DEF ab
<1>2. /\ n \in Nat /\ \A i \in 1 .. n : f[i] = a[i].res.count * a[i].weight /\ f[i] \in Nat
      /\ m \in Nat /\ \A i \in 1 .. m : g[i] = b[i].res.count * b[i].weight /\ g[i] \in Nat
      /\ \A i \in 1 .. n + m : h[i] = ab[i].res.count * ab[i].weight /\ h[i] \in Nat
  BY <1>1, SharesAre
<1> HIDE DEF n, m, f, g, h
<1>3. (\A i \in 1 .. n : i \in 1 .. n + m) /\ \A i \in 1 .. m : n + i \in 1 .. n + m
  BY <1>2
<1>4. (\A i \in 1 .. n : h[i] = f[i]) /\ \A i \in 1 .. m : h[n + i] = g[i]
  BY <1>1, <1>2, <1>3
<1>5. SumTo(h, n) = SumTo(f, n) /\ SumTo(f, n) \in Nat
  BY <1>2, <1>4, SumToFacts
<1> DEFINE T == {j \in 0 .. m : SumTo(h, n + j) = SumTo(f, n) + SumTo(g, j)}
<1>6. 0 \in T
  <2>1. SumTo(g, 0) = 0
    <3>1. \A i \in 1 .. 0 : g[i] \in Nat
      OBVIOUS
    <3> QED
      BY <3>1, SumToFacts
  <2>2. n + 0 = n /\ 0 \in 0 .. m
    BY <1>2
  <2> QED
    BY <1>5, <2>1, <2>2
<1>7. ASSUME NEW j \in 1 .. m, j - 1 \in T PROVE j \in T
  <2>1. /\ j \in Nat /\ j # 0 /\ j \in 0 .. m /\ j - 1 \in Nat
        /\ \A i \in 1 .. j : i \in 1 .. m
    BY <1>2
  <2> DEFINE l == n + j
  <2>2. l \in Nat /\ l # 0 /\ l - 1 = n + (j - 1) /\ \A i \in 1 .. l : i \in 1 .. n + m
    BY <1>2, <2>1
  <2>3. h[l] = g[j]
    BY <1>4
  <2> HIDE DEF l
  <2>4. SumTo(h, l) = SumTo(h, l - 1) + h[l]
    BY <1>2, <2>2, SumToFacts
  <2>5. SumTo(g, j) = SumTo(g, j - 1) + g[j] /\ g[j] \in Nat
    BY <1>2, <2>1, SumToFacts
  <2>6. SumTo(g, j - 1) \in Nat
    <3>1. \A i \in 1 .. j - 1 : g[i] \in Nat
      BY <1>2, <2>1
    <3> QED
      BY <2>1, <3>1, SumToFacts
  <2>7. SumTo(h, l - 1) = SumTo(f, n) + SumTo(g, j - 1)
    BY <1>7, <2>2
  <2>8. SumTo(h, l) = SumTo(f, n) + SumTo(g, j)
    BY <1>5, <2>3, <2>4, <2>5, <2>6, <2>7
  <2> QED
    BY <2>1, <2>8 DEF l
<1>8. m \in T
  <2> HIDE DEF T
  <2>1. \A j \in 0 .. m : j \in T
    BY <1>2, <1>6, <1>7, Upward
  <2> QED
    BY <1>2, <2>1
<1>9. SumTo(g, m) \in Nat
  BY <1>2, SumToFacts
<1> QED
  BY <1>1, <1>5, <1>8, <1>9 DEF Shared, f, g, h, n, m, ab

\* The share of one array's candidates is what they count, weighted.
LEMMA SharedOne ==
  ASSUME NEW vec \in Seq(Cand), NEW w \in {10, 6, 3, 1}
  PROVE  LET cs == [j \in 1 .. Len(vec) |-> [res |-> vec[j], weight |-> w]]
         IN  cs \in Seq(Share) /\ Shared(cs) = Whole(vec) * w /\ Whole(vec) \in Nat
PROOF
<1> DEFINE n == Len(vec)
           cs == [j \in 1 .. n |-> [res |-> vec[j], weight |-> w]]
           f == CountsOf(vec)
           g == SharesOf(cs)
<1>1. n \in Nat /\ w \in Nat /\ \A j \in 1 .. n : vec[j] \in Cand
  OBVIOUS
<1>2. \A j \in 1 .. n : [res |-> vec[j], weight |-> w] \in Share
  BY <1>1 DEF Share
<1>3. cs \in Seq(Share) /\ Len(cs) = n
  BY <1>1, <1>2
<1>4. \A j \in 1 .. n : f[j] = vec[j].count /\ f[j] \in Nat
  BY <1>1 DEF CountsOf, Cand
<1>5. \A j \in 1 .. n : g[j] = f[j] * w /\ g[j] \in Nat
  <2>1. \A j \in 1 .. n : cs[j].res = vec[j] /\ cs[j].weight = w
    OBVIOUS
  <2> HIDE DEF cs
  <2>2. \A j \in 1 .. n : g[j] = cs[j].res.count * cs[j].weight /\ g[j] \in Nat
    BY <1>3, SharesAre
  <2> QED
    BY <1>4, <2>1, <2>2
<1> HIDE DEF n, cs, f, g
<1>6. ASSUME NEW x \in Nat, NEW y \in Nat PROVE (x + y) * w = x * w + y * w /\ x * w \in Nat
  BY <1>1
<1>7. \A j \in 0 .. n : SumTo(f, j) \in Nat
  <2> SUFFICES ASSUME NEW j \in 0 .. n PROVE SumTo(f, j) \in Nat
    OBVIOUS
  <2>1. j \in Nat /\ \A i \in 1 .. j : f[i] \in Nat
    BY <1>1, <1>4
  <2> QED
    BY <2>1, SumToFacts
<1> DEFINE T == {j \in 0 .. n : SumTo(g, j) = SumTo(f, j) * w}
<1>8. 0 \in T
  <2>1. (\A i \in 1 .. 0 : f[i] \in Nat /\ g[i] \in Nat) /\ 0 \in Nat
    OBVIOUS
  <2>2. SumTo(f, 0) = 0 /\ SumTo(g, 0) = 0
    BY <2>1, SumToFacts
  <2>3. 0 * w = 0
    BY <1>1
  <2> QED
    BY <1>1, <2>2, <2>3
<1>9. ASSUME NEW j \in 1 .. n, j - 1 \in T PROVE j \in T
  <2>1. /\ j \in Nat /\ j # 0 /\ j \in 0 .. n /\ j - 1 \in 0 .. n
        /\ \A i \in 1 .. j : i \in 1 .. n
    BY <1>1
  <2>2. SumTo(f, j) = SumTo(f, j - 1) + f[j] /\ SumTo(g, j) = SumTo(g, j - 1) + g[j]
    BY <1>4, <1>5, <2>1, SumToFacts
  <2>3. SumTo(f, j - 1) \in Nat /\ f[j] \in Nat /\ g[j] = f[j] * w
    BY <1>4, <1>5, <1>7, <2>1
  <2>4. SumTo(g, j - 1) = SumTo(f, j - 1) * w
    BY <1>9
  <2>5. (SumTo(f, j - 1) + f[j]) * w = SumTo(f, j - 1) * w + f[j] * w
    BY <1>6, <2>3
  <2>6. SumTo(g, j) = SumTo(f, j) * w
    BY <2>2, <2>3, <2>4, <2>5, Zenon
  <2> QED
    BY <2>1, <2>6
<1>10. n \in T
  <2> HIDE DEF T
  <2>1. \A j \in 0 .. n : j \in T
    BY <1>1, <1>8, <1>9, Upward
  <2> QED
    BY <1>1, <2>1
<1>11. SumTo(f, n) \in Nat /\ SumTo(g, n) = SumTo(f, n) * w
  <2>1. n \in 0 .. n
    BY <1>1
  <2> QED
    BY <1>7, <1>10, <2>1
<1> QED
  BY <1>3, <1>11 DEF Shared, Whole, f, g, cs, n

\* The weights are 20 together.
LEMMA SharedWeighted ==
  ASSUME NEW cate \in [1 .. 4 -> Seq(Cand)], NEW total \in Nat,
         \A i \in 1 .. 4 : Whole(cate[i]) <= total
  PROVE  Shared(Weighted(cate)) <= 20 * total
PROOF
<1> DEFINE cands(i) == [j \in 1 .. Len(cate[i]) |->
                          [res |-> cate[i][j], weight |-> weights[i]]]
<1>1. Weighted(cate) = cands(1) \o cands(2) \o cands(3) \o cands(4)
  BY DEF Weighted
<1>2. ASSUME NEW i \in 1 .. 4
      PROVE  /\ cands(i) \in Seq(Share) /\ Shared(cands(i)) = Whole(cate[i]) * weights[i]
             /\ Whole(cate[i]) \in Nat
  <2>1. cate[i] \in Seq(Cand) /\ weights[i] \in {10, 6, 3, 1}
    BY DEF weights
  <2> QED
    BY <2>1, SharedOne
<1>3. weights[1] = 10 /\ weights[2] = 6 /\ weights[3] = 3 /\ weights[4] = 1
  BY DEF weights
<1> HIDE DEF cands
<1>4. /\ cands(1) \in Seq(Share) /\ cands(2) \in Seq(Share)
      /\ cands(3) \in Seq(Share) /\ cands(4) \in Seq(Share)
  BY <1>2
<1>5. /\ Shared(cands(1)) = Whole(cate[1]) * 10 /\ Shared(cands(2)) = Whole(cate[2]) * 6
      /\ Shared(cands(3)) = Whole(cate[3]) * 3 /\ Shared(cands(4)) = Whole(cate[4]) * 1
      /\ Whole(cate[1]) \in Nat /\ Whole(cate[2]) \in Nat
      /\ Whole(cate[3]) \in Nat /\ Whole(cate[4]) \in Nat
  <2>1. Shared(cands(1)) = Whole(cate[1]) * weights[1] /\ Whole(cate[1]) \in Nat
    BY <1>2
  <2>2. Shared(cands(2)) = Whole(cate[2]) * weights[2] /\ Whole(cate[2]) \in Nat
    BY <1>2
  <2>3. Shared(cands(3)) = Whole(cate[3]) * weights[3] /\ Whole(cate[3]) \in Nat
    BY <1>2
  <2>4. Shared(cands(4)) = Whole(cate[4]) * weights[4] /\ Whole(cate[4]) \in Nat
    BY <1>2
  <2> QED
    BY <1>3, <2>1, <2>2, <2>3, <2>4
<1> DEFINE c2 == cands(1) \o cands(2)
           c3 == c2 \o cands(3)
<1>6. c2 \in Seq(Share) /\ Shared(c2) = Shared(cands(1)) + Shared(cands(2))
  BY <1>4, SharedConcat, ConcatProperties
<1>7. c3 \in Seq(Share) /\ Shared(c3) = Shared(c2) + Shared(cands(3))
  <2> HIDE DEF c2
  <2> QED
    BY <1>4, <1>6, SharedConcat, ConcatProperties
<1>8. Shared(Weighted(cate)) = Shared(c3) + Shared(cands(4))
  <2>1. Weighted(cate) = c3 \o cands(4)
    BY <1>1
  <2> HIDE DEF c3
  <2> QED
    BY <1>4, <1>7, <2>1, SharedConcat
<1> HIDE DEF c2, c3
<1>9. /\ Whole(cate[1]) <= total /\ Whole(cate[2]) <= total
      /\ Whole(cate[3]) <= total /\ Whole(cate[4]) <= total
  OBVIOUS
<1> DEFINE a == Whole(cate[1])
           b == Whole(cate[2])
           c == Whole(cate[3])
           d == Whole(cate[4])
<1>10. Shared(Weighted(cate)) = a * 10 + b * 6 + c * 3 + d * 1
  BY <1>5, <1>6, <1>7, <1>8
<1>11. /\ a \in Nat /\ b \in Nat /\ c \in Nat /\ d \in Nat
       /\ a <= total /\ b <= total /\ c <= total /\ d <= total
  BY <1>5, <1>9
<1> HIDE DEF a, b, c, d
<1>12. a * 10 + b * 6 + c * 3 + d * 1 <= 20 * total
  BY <1>11
<1> QED
  BY <1>10, <1>12

\* Sorting adds nothing.
LEMMA RatedRanked ==
  ASSUME NEW list \in Seq(Result), NEW s \in Ranked(list)
  PROVE  Rated(s) <= Rated(list)
PROOF
<1> DEFINE n == Len(s)
           m == Len(list)
           f == RatesOf(s)
           g == RatesOf(list)
           h == [k \in 1 .. n |-> CHOOSE i \in 1 .. m : list[i] = s[k]]
<1>1. s \in Seq(Result)
  BY RankedType
<1>2. /\ n \in Nat /\ \A k \in 1 .. n : f[k] = s[k].rate
      /\ m \in Nat /\ \A k \in 1 .. m : g[k] = list[k].rate /\ g[k] \in Nat
  BY <1>1, RatesAre
<1>3. /\ \A k \in 1 .. n : \E i \in 1 .. m : list[i] = s[k]
      /\ \A k, j \in 1 .. n : k # j => s[k] # s[j]
  <2>1. ToSet(list) = {list[i] : i \in 1 .. m}
    BY DEF ToSet
  <2>2. /\ s \in [1 .. Cardinality(ToSet(list)) -> ToSet(list)]
        /\ \A k, j \in 1 .. Cardinality(ToSet(list)) : k # j => s[k] # s[j]
    BY DEF Ranked, SetToSeqs
  <2>3. DOMAIN s = 1 .. n /\ DOMAIN s = 1 .. Cardinality(ToSet(list))
    BY <1>1, <2>2
  <2> QED
    BY <2>1, <2>2, <2>3
<1> HIDE DEF n, m, f, g
<1>4. \A k \in 1 .. n : h[k] \in 1 .. m /\ list[h[k]] = s[k]
  BY <1>3
<1>5. h \in [1 .. n -> 1 .. m]
  BY <1>4
<1> HIDE DEF h
<1>6. \A k, j \in 1 .. n : k # j => h[k] # h[j]
  BY <1>3, <1>4
<1>7. \A k \in 1 .. n : f[k] = g[h[k]]
  BY <1>2, <1>4
<1>8. SumTo(f, n) <= SumTo(g, m)
  BY <1>2, <1>5, <1>6, <1>7, SumReordered
<1> QED
  BY <1>8 DEF Rated, f, g, n, m

\* What a drawer or the candidates of one count is a number.
LEMMA WholeNat ==
  /\ \A vec \in Seq(Kept) : Whole(vec) \in Nat
  /\ \A vec \in Seq(Cand) : Whole(vec) \in Nat
PROOF
<1>1. ASSUME NEW vec \in Seq(Kept) PROVE Whole(vec) \in Nat
  <2>1. Len(vec) \in Nat
    OBVIOUS
  <2> QED
    BY <2>1, CountsAre, SumToFacts DEF Whole
<1>2. ASSUME NEW vec \in Seq(Cand) PROVE Whole(vec) \in Nat
  BY SharedOne
<1> QED
  BY <1>1, <1>2

\* The records counted, at least, and one more where the record in hand is still
\* to be put.
ToPut(s, c) == s.pc = "put" /\ \E i \in s.k .. 4 : DrawersOf(s.rec)[i] = c
Spare(cells, s, room) ==
  \A c \in Cells : Whole(cells[c]) + (IF ToPut(s, c) THEN 1 ELSE 0) <= room

\* No drawer counts more than was counted since the start, no candidates more
\* than their drawer, and no list rates more than its candidates.
Room ==
  /\ endCount - heap \in Nat
  /\ Spare(mBehav, saver, endCount - heap)
  /\ asker.pc \in {"read", "rate"} =>
       \A i \in 1 .. 4 : Whole(asker.vecCate[i]) <= endCount - heap
  /\ asker.pc = "done" /\ heap = 0 => Rated(mGpsRetLst) <= 20 * asker.total

\* As long as nothing more is to be put, the room may stay.
LEMMA SpareLater ==
  ASSUME NEW cells \in [Cells -> Seq(Kept)], NEW room \in Nat, NEW s, Spare(cells, s, room),
         NEW t, t.pc # "put"
  PROVE  Spare(cells, t, room)
PROOF
<1> SUFFICES ASSUME NEW c \in Cells PROVE Whole(cells[c]) + (IF ToPut(t, c) THEN 1 ELSE 0) <= room
  BY DEF Spare
<1> DEFINE x == Whole(cells[c])
<1>1. x \in Nat
  BY WholeNat
<1>2. x + (IF ToPut(s, c) THEN 1 ELSE 0) <= room
  BY DEF Spare
<1>3. ~ToPut(t, c)
  BY DEF ToPut
<1> HIDE DEF x
<1>4. x + 0 <= room /\ x <= room
  BY <1>1, <1>2
<1> QED
  BY <1>3, <1>4 DEF x

\* One more counted makes room for one more in each drawer.
LEMMA SpareCounted ==
  ASSUME NEW cells \in [Cells -> Seq(Kept)], NEW room \in Nat, NEW s, Spare(cells, s, room), NEW t
  PROVE  Spare(cells, t, room + 1)
PROOF
<1> SUFFICES ASSUME NEW c \in Cells
             PROVE  Whole(cells[c]) + (IF ToPut(t, c) THEN 1 ELSE 0) <= room + 1
  BY DEF Spare
<1> DEFINE x == Whole(cells[c])
           y == IF ToPut(s, c) THEN 1 ELSE 0
           z == IF ToPut(t, c) THEN 1 ELSE 0
<1>1. x \in Nat /\ y \in 0 .. 1 /\ z \in 0 .. 1
  BY WholeNat
<1>2. x + y <= room
  BY DEF Spare
<1> HIDE DEF x, y, z
<1>3. x + z <= room + 1
  BY <1>1, <1>2
<1> QED
  BY <1>3 DEF x, z

\* A put takes the room that was kept for it.
LEMMA SparePut ==
  ASSUME NEW cells \in [Cells -> Seq(Kept)], NEW room \in Nat, NEW s \in SaveState,
         s.pc = "put", s.rec \in Real, Spare(cells, s, room),
         NEW t, t.pc = "put" => t.k = s.k + 1 /\ t.rec = s.rec
  PROVE  LET x == DrawersOf(s.rec)[s.k]
         IN  Spare([cells EXCEPT ![x] = putInDrawer(cells[x], s.rec)], t, room)
PROOF
<1> DEFINE D == DrawersOf(s.rec)
           x == D[s.k]
           then == [cells EXCEPT ![x] = putInDrawer(cells[x], s.rec)]
<1>1. s.k \in 1 .. 4 /\ s.rec \in Trips
  BY DEF SaveState
<1>2. x \in Cells
  BY <1>1, DrawerIn
<1>3. \A i \in s.k + 1 .. 4 : D[i] # x
  <2>1. \A i \in s.k + 1 .. 4 : i \in 1 .. 4 /\ i # s.k
    BY <1>1
  <2> QED
    BY <1>1, <2>1, DrawersDiffer
<1>4. s.k \in s.k .. 4 /\ \A i \in s.k + 1 .. 4 : i \in s.k .. 4
  BY <1>1
<1> SUFFICES ASSUME NEW c \in Cells
             PROVE  Whole(then[c]) + (IF ToPut(t, c) THEN 1 ELSE 0) <= room
  BY DEF Spare
<1>5. then[c] = IF c = x THEN putInDrawer(cells[c], s.rec) ELSE cells[c]
  BY <1>2
<1>6. Whole(cells[c]) + (IF ToPut(s, c) THEN 1 ELSE 0) <= room
  BY DEF Spare
<1>7. cells[c] \in Seq(Kept)
  OBVIOUS
<1> DEFINE u == Whole(cells[c])
           v == Whole(then[c])
<1>8. u \in Nat
  BY <1>7, WholeNat
<1>9. Whole(putInDrawer(cells[c], s.rec)) = u + 1
  BY <1>1, <1>7, WholePut
<1>10. CASE c = x
  <2>1. ToPut(s, c) /\ ~ToPut(t, c)
    BY <1>3, <1>4, <1>10 DEF ToPut
  <2>2. v = u + 1
    BY <1>5, <1>9, <1>10
  <2>3. u + 1 <= room
    BY <1>6, <2>1
  <2> HIDE DEF u, v
  <2>4. v + 0 <= room
    BY <1>8, <2>2, <2>3
  <2> QED
    BY <2>1, <2>4 DEF v
<1>11. CASE c # x
  <2>1. v = u
    BY <1>5, <1>11
  <2>2. ToPut(t, c) => ToPut(s, c)
    BY <1>4 DEF ToPut
  <2> DEFINE y == IF ToPut(s, c) THEN 1 ELSE 0
             z == IF ToPut(t, c) THEN 1 ELSE 0
  <2>3. y \in 0 .. 1 /\ z \in 0 .. 1 /\ z <= y
    BY <2>2
  <2>4. u + y <= room
    BY <1>6
  <2> HIDE DEF u, v, y, z
  <2>5. v + z <= room
    BY <1>8, <2>1, <2>3, <2>4
  <2> QED
    BY <2>5 DEF v, z
<1> QED
  BY <1>10, <1>11

LEMMA RoomInit == Init => Room
PROOF
<1> SUFFICES ASSUME Init PROVE Room
  OBVIOUS
<1>1. endCount - heap = 0
  <2>1. heap \in Int /\ endCount = heap
    BY PredictorAssumption DEF Init
  <2> QED
    BY <2>1
<1>2. saver.pc = "idle" /\ asker.pc = "idle"
  BY DEF Init, SaverIdle, AskerIdle
<1>3. Spare(mBehav, saver, 0)
  <2> SUFFICES ASSUME NEW c \in Cells
               PROVE  Whole(mBehav[c]) + (IF ToPut(saver, c) THEN 1 ELSE 0) <= 0
    BY DEF Spare
  <2>1. <<>> \in Seq(Trips) /\ Len(Surplus(<<>>)) = 0
    BY DEF Surplus
  <2>2. Whole(mBehav[c]) <= 0
    BY <2>1, LoadedWhole DEF Init
  <2>3. mBehav[c] \in Seq(Kept)
    BY TypesInit DEF Types, Full
  <2>4. Whole(mBehav[c]) \in Nat
    BY <2>3, WholeNat
  <2>5. ~ToPut(saver, c)
    BY <1>2 DEF ToPut
  <2> QED
    BY <2>2, <2>4, <2>5
<1> QED
  BY <1>1, <1>2, <1>3 DEF Room

\* Rating candidates that count no more than was counted.
LEMMA RatedTogether ==
  ASSUME NEW cate \in [1 .. 4 -> Seq(Cand)], NEW total \in Nat,
         \A i \in 1 .. 4 : Whole(cate[i]) <= total,
         NEW list \in Ranked(Listed(Weighted(cate)))
  PROVE  Rated(list) <= 20 * total
PROOF
<1> DEFINE all == Weighted(cate)
           raw == Listed(all)
           x == Rated(list)
           y == Rated(raw)
           z == Shared(all)
           t == 20 * total
<1>1. all \in Seq(Share)
  BY WeightedShares
<1>2. z <= t
  BY SharedWeighted
<1> HIDE DEF all
<1>3. raw \in Seq(Result)
  BY <1>1, ListedType
<1>4. y <= z
  BY <1>1, RatedListed
<1>5. list \in Ranked(raw)
  BY DEF all
<1> HIDE DEF raw
<1>6. x <= y /\ list \in Seq(Result)
  BY <1>3, <1>5, RatedRanked, RankedType
<1>7. x \in Nat /\ y \in Nat
  BY <1>3, <1>6, RatesAre
<1>8. z \in Nat
  BY <1>1, SharesAre, SumToFacts DEF Shared
<1>9. t \in Nat
  OBVIOUS
<1> HIDE DEF x, y, z, t
<1>10. x <= t
  BY <1>2, <1>4, <1>6, <1>7, <1>8, <1>9
<1> QED
  BY <1>10 DEF x, t

\* The candidates found in a drawer count no more than the room.
LEMMA RoomForCandidates ==
  ASSUME NEW cells \in [Cells -> Seq(Kept)], NEW room \in Nat, NEW s, Spare(cells, s, room),
         NEW c \in Cells, NEW behav, NEW date_d
  PROVE  Whole(getDestRateFromDraw(cells[c], behav, date_d)) <= room
PROOF
<1> DEFINE x == Whole(getDestRateFromDraw(cells[c], behav, date_d))
           y == Whole(cells[c])
           z == IF ToPut(s, c) THEN 1 ELSE 0
<1>1. y + z <= room
  BY DEF Spare
<1>2. cells[c] \in Seq(Kept)
  OBVIOUS
<1>3. x \in Nat /\ x <= y /\ y \in Nat
  BY <1>2, WholeDestRate, WholeNat
<1>4. z \in 0 .. 1
  OBVIOUS
<1> HIDE DEF x, y, z
<1>5. x <= room
  BY <1>1, <1>3, <1>4
<1> QED
  BY <1>5 DEF x

LEMMA RoomStep == Types /\ Types' /\ Sourced /\ Room /\ [Next]_vars => Room'
PROOF
<1> SUFFICES ASSUME Types, Types', Sourced, Room, [Next]_vars PROVE Room'
  OBVIOUS
<1> DEFINE room == endCount - heap
           Collected(r) == asker.pc \in {"read", "rate"} =>
                             \A i \in 1 .. 4 : Whole(asker.vecCate[i]) <= r
           Bounded == asker.pc = "done" /\ heap = 0 => Rated(mGpsRetLst) <= 20 * asker.total
<1>o. room \in Nat /\ Spare(mBehav, saver, room) /\ Collected(room) /\ Bounded
  BY DEF Room
<1>t. /\ mBehav \in [Cells -> Seq(Kept)] /\ mBehav' \in [Cells -> Seq(Kept)]
      /\ endCount \in Int /\ heap \in Int /\ saver \in SaveState /\ asker \in AskState
      /\ asker.vecCate \in [1 .. 4 -> Seq(Cand)]
  BY DEF Types, Full, AskState
<1>z. heap = 0 => endCount = room
  BY <1>t
<1>h. ASSUME UNCHANGED <<endCount, heap>>, Spare(mBehav', saver', room),
             asker'.pc \in {"read", "rate"} =>
               \A i \in 1 .. 4 : Whole(asker'.vecCate[i]) <= room,
             asker'.pc = "done" /\ heap = 0 => Rated(mGpsRetLst') <= 20 * asker'.total
      PROVE  Room'
  BY <1>o, <1>h DEF Room
<1>1. CASE Restart
  <2>1. /\ mBehav' = Loaded(behFile) /\ saver' = SaverIdle /\ asker' = AskerIdle
        /\ heap' \in HeapInts /\ endCount' = heap' + Len(Surplus(behFile))
    BY <1>1 DEF Restart, Surplus, Counted
  <2>2. behFile \in Seq(Trips) /\ heap' \in Int
    BY <2>1, PredictorAssumption DEF Types
  <2> DEFINE n == Len(Surplus(behFile))
  <2>3. n \in Nat
    <3>1. Surplus(behFile) \in Seq(Trips)
      BY <2>2, LoadedByTurns
    <3> QED
      BY <3>1
  <2>4. endCount' - heap' = n
    <3> HIDE DEF n
    <3>1. endCount' = heap' + n
      BY <2>1 DEF n
    <3>2. \A a \in Int, b \in Nat : (a + b) - a = b
      OBVIOUS
    <3>3. (heap' + n) - heap' = n
      BY <2>2, <2>3, <3>2
    <3> QED
      BY <3>1, <3>3
  <2>5. saver'.pc = "idle" /\ asker'.pc = "idle"
    BY <2>1 DEF SaverIdle, AskerIdle
  <2>6. Spare(mBehav', saver', n)
    <3> SUFFICES ASSUME NEW c \in Cells
                 PROVE  Whole(mBehav'[c]) + (IF ToPut(saver', c) THEN 1 ELSE 0) <= n
      BY DEF Spare
    <3>1. Whole(mBehav'[c]) <= n
      BY <2>1, <2>2, LoadedWhole
    <3>2. Whole(mBehav'[c]) \in Nat
      BY <1>t, WholeNat
    <3>3. ~ToPut(saver', c)
      BY <2>5 DEF ToPut
    <3> HIDE DEF n
    <3>4. Whole(mBehav'[c]) + 0 <= n
      BY <2>3, <3>1, <3>2
    <3> QED
      BY <3>3, <3>4
  <2> HIDE DEF n
  <2> QED
    BY <2>3, <2>4, <2>5, <2>6 DEF Room
<1>2. ASSUME NEW p \in Stops, NEW now \in Clocks, FirstFix(p, now) PROVE Room'
  <2>1. UNCHANGED <<mBehav, endCount, mGpsRetLst, saver, asker, heap>>
    BY <1>2 DEF FirstFix
  <2> QED
    BY <1>h, <1>o, <2>1
<1>3. ASSUME NEW p \in Stops, NEW time \in Arrivals, LastFix(p, time) PROVE Room'
  <2>1. UNCHANGED <<mBehav, endCount, mGpsRetLst, asker, heap>>
    BY <1>3 DEF LastFix, bound
  <2>2. saver'.pc # "put"
    BY <1>3 DEF LastFix, SaverIdle
  <2>3. Spare(mBehav, saver', room)
    BY <1>o, <1>t, <2>2, SpareLater
  <2> QED
    BY <1>h, <1>o, <2>1, <2>3
<1>4. CASE SaveCount
  <2>1. /\ endCount' = endCount + 1
        /\ UNCHANGED <<mBehav, mGpsRetLst, asker, heap>>
    BY <1>4 DEF SaveCount, Counted, bound
  <2>2. endCount' - heap' = room + 1 /\ room + 1 \in Nat
    BY <1>o, <1>t, <2>1
  <2>3. Spare(mBehav', saver', room + 1)
    BY <1>o, <1>t, <2>1, SpareCounted
  <2>4. asker'.pc \in {"read", "rate"} =>
          \A i \in 1 .. 4 : Whole(asker'.vecCate[i]) <= room + 1
    <3> SUFFICES ASSUME asker.pc \in {"read", "rate"}, NEW i \in 1 .. 4
                 PROVE  Whole(asker.vecCate[i]) <= room + 1
      BY <2>1
    <3>1. Whole(asker.vecCate[i]) <= room
      BY <1>o
    <3>2. Whole(asker.vecCate[i]) \in Nat
      BY <1>t, WholeNat
    <3> HIDE DEF room
    <3> QED
      BY <1>o, <3>1, <3>2
  <2>5. asker'.pc = "done" /\ heap' = 0 => Rated(mGpsRetLst') <= 20 * asker'.total
    BY <1>o, <2>1
  <2> HIDE DEF room
  <2> QED
    BY <2>2, <2>3, <2>4, <2>5 DEF Room
<1>5. CASE SavePut
  <2>1. /\ saver.pc = "put" /\ UNCHANGED <<endCount, mGpsRetLst, asker, heap>>
        /\ saver' = IF saver.k < 4 THEN [saver EXCEPT !.k = @ + 1]
                    ELSE [saver EXCEPT !.pc = "write"]
    BY <1>5 DEF SavePut, bound
  <2> DEFINE x == DrawersOf(saver.rec)[saver.k]
  <2>2. mBehav' = [mBehav EXCEPT ![x] = putInDrawer(mBehav[x], saver.rec)]
    BY <1>5 DEF SavePut
  <2>3. saver'.pc = "put" => saver'.k = saver.k + 1 /\ saver'.rec = saver.rec
    BY <1>t, <2>1 DEF SaveState
  <2>4. saver.rec \in Real
    BY <2>1 DEF Sourced
  <2>5. Spare([mBehav EXCEPT ![x] = putInDrawer(mBehav[x], saver.rec)], saver', room)
    BY <1>o, <1>t, <2>1, <2>3, <2>4, SparePut
  <2>6. Spare(mBehav', saver', room)
    BY <2>2, <2>5
  <2> QED
    BY <1>h, <1>o, <2>1, <2>6
<1>6. CASE SaveWrite
  <2>1. /\ UNCHANGED <<mBehav, endCount, mGpsRetLst, asker, heap>> /\ saver' = SaverIdle
    BY <1>6 DEF SaveWrite, bound
  <2>2. saver'.pc # "put"
    BY <2>1 DEF SaverIdle
  <2>3. Spare(mBehav, saver', room)
    BY <1>o, <1>t, <2>2, SpareLater
  <2> QED
    BY <1>h, <1>o, <2>1, <2>3
<1>7. ASSUME NEW text \in Messages, NEW now \in Clocks, predictDestinationAtStart(text, now)
      PROVE  Room'
  <2>1. /\ UNCHANGED <<mBehav, endCount, saver, heap>>
        /\ asker' = [AskerIdle EXCEPT !.pc = "read", !.text = text,
                                      !.first = mFirstGPS', !.known = Len(behFile)]
    BY <1>7 DEF predictDestinationAtStart
  <2>2. asker'.pc = "read" /\ asker'.vecCate = NoCandidates
    BY <2>1 DEF AskerIdle
  <2>3. \A i \in 1 .. 4 : Whole(asker'.vecCate[i]) <= room
    <3>1. \A i \in 1 .. 4 : asker'.vecCate[i] = <<>>
      BY <2>2 DEF NoCandidates
    <3> HIDE DEF room
    <3>2. 0 <= room
      BY <1>o
    <3> QED
      BY <3>1, <3>2, WholeEmpty
  <2> QED
    BY <1>h, <1>o, <2>1, <2>2, <2>3
<1>8. CASE ReadDrawer
  <2> DEFINE c == DrawersOf(mFirstGPS)[asker.k]
  <2>1. /\ asker.pc = "read" /\ asker.k \in 1 .. 4
        /\ UNCHANGED <<mBehav, endCount, mGpsRetLst, saver, heap>>
    BY <1>8, <1>t DEF ReadDrawer, bound, AskState
  <2>2. mFirstGPS \in Real
    BY <2>1 DEF Sourced, AskedFrom
  <2>3. c \in Cells
    BY <2>1, <2>2, DrawerIn
  <2>4. PICK date_d \in ArrivalDates(mFirstGPS.date) :
          asker' = [asker EXCEPT
             !.vecCate[asker.k] = getDestRateFromDraw(mBehav[c], mFirstGPS, date_d),
             !.k = IF asker.k < 4 THEN @ + 1 ELSE 1,
             !.pc = IF asker.k < 4 THEN @ ELSE "rate"]
    BY <1>8 DEF ReadDrawer
  <2> HIDE DEF c
  <2> DEFINE cands == getDestRateFromDraw(mBehav[c], mFirstGPS, date_d)
  <2>5. Whole(cands) <= room
    <3> HIDE DEF room
    <3> QED
      BY <1>o, <1>t, <2>3, RoomForCandidates
  <2> HIDE DEF cands
  <2>6. asker'.vecCate = [asker.vecCate EXCEPT ![asker.k] = cands]
        /\ asker'.pc \in {"read", "rate"}
    <3>1. asker' = [asker EXCEPT
             !.vecCate[asker.k] = cands, !.k = IF asker.k < 4 THEN @ + 1 ELSE 1,
             !.pc = IF asker.k < 4 THEN @ ELSE "rate"]
      BY <2>4 DEF cands
    <3> QED
      BY <1>t, <2>1, <3>1 DEF AskState
  <2>7. \A i \in 1 .. 4 : Whole(asker'.vecCate[i]) <= room
    <3> SUFFICES ASSUME NEW i \in 1 .. 4 PROVE Whole(asker'.vecCate[i]) <= room
      OBVIOUS
    <3>1. asker'.vecCate[i] = IF i = asker.k THEN cands ELSE asker.vecCate[i]
      BY <1>t, <2>6
    <3>2. Whole(asker.vecCate[i]) <= room
      BY <1>o, <2>1
    <3> QED
      BY <2>5, <3>1, <3>2
  <2> QED
    BY <1>h, <1>o, <2>1, <2>6, <2>7
<1>9. CASE Rate
  <2>1. /\ asker.pc = "rate" /\ mGpsRetLst' \in Ranked(Listed(Weighted(asker.vecCate)))
        /\ asker' = [asker EXCEPT !.pc = "done", !.vecCate = NoCandidates,
                                  !.text = NoText, !.total = endCount]
        /\ UNCHANGED <<mBehav, endCount, saver, heap>>
    BY <1>9 DEF Rate, bound
  <2>2. asker'.pc = "done" /\ asker'.total = endCount
    BY <1>t, <2>1 DEF AskState
  <2>3. \A i \in 1 .. 4 : Whole(asker.vecCate[i]) <= room
    BY <1>o, <2>1
  <2>4. Rated(mGpsRetLst') <= 20 * room
    <3> HIDE DEF room
    <3> QED
      BY <1>o, <1>t, <2>1, <2>3, RatedTogether
  <2> QED
    BY <1>h, <1>o, <1>z, <2>1, <2>2, <2>4
<1>10. CASE printResult
  <2> DEFINE cells == DrawersOf(mFirstGPS)
             cate(date_d) == [k \in 1 .. 4 |->
                               getDestRateFromDraw(mBehav[cells[k]], mFirstGPS, date_d)]
  <2>1. /\ asker' = [AskerIdle EXCEPT !.pc = "done", !.first = mFirstGPS,
                                      !.known = Len(behFile), !.total = endCount]
        /\ UNCHANGED <<mBehav, endCount, saver, heap>>
    BY <1>10 DEF printResult
  <2>2. asker'.pc = "done" /\ asker'.total = endCount
    BY <2>1 DEF AskerIdle
  <2>3. mFirstGPS \in Real /\ mFirstGPS.date \in Date
    <3>1. ClockOf(mFirstGPS) \in Clocks /\ mFirstGPS \in Trips
      BY <1>10, ClockRead DEF printResult, Types
    <3> QED
      BY <3>1, ClocksAre DEF ClockOf, Real
  <2>4. PICK date_d \in ArrivalDates(mFirstGPS.date) :
          \E list \in Ranked(Listed(Weighted(cate(date_d)))) :
            mGpsRetLst' = [k \in 1 .. Len(list) |->
               [list[k] EXCEPT !.pos = getLatLonByCode(mGpsPosVec, list[k].code)]]
    BY <1>10 DEF printResult
  <2>5. PICK list \in Ranked(Listed(Weighted(cate(date_d)))) :
          mGpsRetLst' = [k \in 1 .. Len(list) |->
               [list[k] EXCEPT !.pos = getLatLonByCode(mGpsPosVec, list[k].code)]]
    BY <2>4
  <2>6. date_d \in Nat
    BY <2>3, ArrivalDatesType
  <2>7. ASSUME NEW k \in 1 .. 4
        PROVE  /\ getDestRateFromDraw(mBehav[cells[k]], mFirstGPS, date_d) \in Seq(Cand)
               /\ Whole(getDestRateFromDraw(mBehav[cells[k]], mFirstGPS, date_d)) <= room
    <3>1. cells[k] \in Cells
      BY <2>3, DrawerIn
    <3> HIDE DEF cells, room
    <3>2. mBehav[cells[k]] \in Seq(Kept)
      BY <1>t, <3>1
    <3>3. getDestRateFromDraw(mBehav[cells[k]], mFirstGPS, date_d) \in Seq(Cand)
      BY <2>6, <3>2, DestRateCands
    <3>4. Whole(getDestRateFromDraw(mBehav[cells[k]], mFirstGPS, date_d)) <= room
      BY <1>o, <1>t, <3>1, RoomForCandidates
    <3> QED
      BY <3>3, <3>4
  <2>8. /\ cate(date_d) \in [1 .. 4 -> Seq(Cand)]
        /\ \A k \in 1 .. 4 : Whole(cate(date_d)[k]) <= room
    <3> HIDE DEF cells, room
    <3> QED
      BY <2>7
  <2> HIDE DEF cate
  <2>9. Rated(list) <= 20 * room /\ list \in Seq(Result)
    <3>1. Rated(list) <= 20 * room
      <4> HIDE DEF room
      <4> QED
        BY <1>o, <2>8, RatedTogether
    <3>2. list \in Seq(Result)
      BY <2>8, WeightedShares, ListedType, RankedType
    <3> QED
      BY <3>1, <3>2
  <2>10. Rated(mGpsRetLst') = Rated(list)
    <3>1. Len(list) \in Nat /\ \A k \in 1 .. Len(list) : list[k] \in Result
      BY <2>9
    <3>2. /\ Len(mGpsRetLst') = Len(list)
          /\ \A k \in 1 .. Len(list) :
               mGpsRetLst'[k] = [list[k] EXCEPT !.pos = getLatLonByCode(mGpsPosVec, list[k].code)]
      BY <2>5, <3>1
    <3>3. \A k \in 1 .. Len(list) : mGpsRetLst'[k].rate = list[k].rate
      BY <3>1, <3>2 DEF Result
    <3>4. RatesOf(mGpsRetLst') = RatesOf(list)
      BY <3>2, <3>3 DEF RatesOf
    <3> QED
      BY <3>2, <3>4 DEF Rated
  <2> QED
    BY <1>h, <1>o, <1>z, <2>1, <2>2, <2>9, <2>10
<1>11. CASE UNCHANGED vars
  <2>1. UNCHANGED <<mBehav, endCount, mGpsRetLst, saver, asker, heap>>
    BY <1>11 DEF vars, bound
  <2> QED
    BY <1>h, <1>o, <2>1
<1> QED
  BY <1>1, <1>2, <1>3, <1>4, <1>5, <1>6, <1>7, <1>8, <1>9, <1>10, <1>11 DEF Next, Save

\* The rates summed in the property are these.
LEMMA RatesTotal ==
  ASSUME NEW vec \in Seq(Result)
  PROVE  MapThenSumSet(LAMBDA k : vec[k].rate, 1 .. Len(vec)) = Rated(vec)
PROOF
<1> DEFINE f == RatesOf(vec)
           S == 1 .. Len(vec)
           Equation(g) == g = [s \in SUBSET S |->
                                 IF s = {} THEN 0
                                 ELSE LET x == CHOOSE x \in s : TRUE
                                      IN  vec[x].rate + g[s \ {x}]]
           g0 == CHOOSE g : Equation(g)
<1>1. IsFiniteSet(S)
  BY FS_Interval
<1>2. \A x \in S : f[x] = vec[x].rate /\ f[x] \in Nat
  BY RatesAre
<1>3. MapThenSumSet(LAMBDA k : vec[k].rate, S) = g0[S]
  BY DEF MapThenSumSet, MapThenFoldSet
<1> HIDE DEF f
<1>4. ASSUME NEW g PROVE Totals(g, f, S) <=> Equation(g)
  <2>1. [s \in SUBSET S |-> IF s = {} THEN 0 ELSE f[Pick(s)] + g[s \ {Pick(s)}]]
          = [s \in SUBSET S |-> IF s = {} THEN 0 ELSE LET x == CHOOSE x \in s : TRUE
                                                    IN  vec[x].rate + g[s \ {x}]]
    <3>1. ASSUME NEW s \in SUBSET S, s # {}
          PROVE  f[Pick(s)] = vec[Pick(s)].rate
      <4>1. Pick(s) \in s
        BY <3>1 DEF Pick
      <4> QED
        BY <1>2, <4>1
    <3> QED
      BY <3>1 DEF Pick
  <2> QED
    BY <2>1 DEF Totals
<1>5. PICK g : Totals(g, f, S)
  BY <1>1, <1>2, TotalsExist
<1>6. Equation(g0)
  <2>1. Equation(g)
    BY <1>4, <1>5
  <2> HIDE DEF Equation
  <2> QED
    BY <2>1, Zenon
<1>7. Totals(g0, f, S)
  <2> HIDE DEF g0
  <2> QED
    BY <1>4, <1>6
<1> HIDE DEF g0
<1> DEFINE g1 == CHOOSE h : Totals(h, f, S)
<1>8. Totals(g1, f, S)
  BY <1>5, Zenon
<1> HIDE DEF g1
<1>9. g0[S] = g1[S]
  BY <1>1, <1>7, <1>8, TotalsAgree
<1> QED
  BY <1>3, <1>9 DEF Total, SumTo, Rated, g1, f

\* Together the rates never exceed 1 of a counter that started from 0, with trips
\* counted and put while a request is answered, and after a load.
THEOREM RatesStayTogether == Spec => []RatesTogetherAtMostOne
PROOF
<1>1. Types /\ Room => RatesTogetherAtMostOne
  <2>1. Types => MapThenSumSet(LAMBDA k : mGpsRetLst[k].rate, 1 .. Len(mGpsRetLst))
                  = Rated(mGpsRetLst)
    BY RatesTotal DEF Types
  <2> QED
    BY <2>1 DEF Room, RatesTogetherAtMostOne
<1>2. Spec => [](Types /\ Sourced /\ Room)
  BY TypesInit, TypesStep, SourcedInit, SourcedStep, RoomInit, RoomStep, PTL DEF Spec
<1> QED
  BY <1>1, <1>2, PTL

-----------------------------------------------------------------------------
(* A destination is missed only for want of space.                         *)

\* A record that speaks for a trip shares one of the trip's drawers.
LEMMA SpeakingShares ==
  ASSUME NEW r \in Real \cup {NoBehavior}, NEW q \in Real, Speaks(r, q)
  PROVE  \E k \in 1 .. 4 : DrawersOf(q)[k] \in ToSet(DrawersOf(r))
PROOF
<1> DEFINE a == YEAR_MON_DATE_DVT(r.date)
           b == YEAR_MON_DATE_DVT(q.date)
           wa == CaculateWeekDay(a.y, a.m, a.d)
           wb == CaculateWeekDay(b.y, b.m, b.d)
           ha == TIME_DVT(r.time).h
           hb == TIME_DVT(q.time).h
           ia == getIdxOfDate(a.y, a.m, a.d)
           ib == getIdxOfDate(b.y, b.m, b.d)
           Q == DrawersOf(q)
           R == DrawersOf(r)
<1>1. /\ Q[1] = wb /\ Q[2] = 7 + hb /\ Q[3] = 30 + b.d /\ Q[4] = 62 + ib
  BY DrawerPlaces
<1>2. CASE r = NoBehavior
  <2>1. ToSet(R) = {1, 7, 30, 61}
    BY <1>2, ZeroedPlaces
  <2>2. wb = 1 \/ hb \in {0, 23} \/ b.d = 31
    BY <1>2 DEF Speaks
  <2> HIDE DEF Q, R, wb, hb, ib, b
  <2>3. Q[1] \in ToSet(R) \/ Q[2] \in ToSet(R) \/ Q[3] \in ToSet(R)
    <3>1. CASE wb = 1
      BY <1>1, <2>1, <3>1
    <3>2. CASE hb = 0
      <4>1. Q[2] = 7
        BY <1>1, <3>2
      <4> QED
        BY <2>1, <4>1
    <3>3. CASE hb = 23
      <4>1. Q[2] = 30
        BY <1>1, <3>3
      <4> QED
        BY <2>1, <4>1
    <3>4. CASE b.d = 31
      <4>1. Q[3] = 61
        BY <1>1, <3>4
      <4> QED
        BY <2>1, <4>1
    <3> QED
      BY <2>2, <3>1, <3>2, <3>3, <3>4
  <2>4. \E k \in 1 .. 4 : Q[k] \in ToSet(R)
    BY <2>3
  <2> QED
    BY <2>4 DEF Q, R
<1>3. CASE r \in Real /\ r # NoBehavior
  <2>1. /\ R[1] = wa /\ R[2] = 7 + ha /\ R[3] = 30 + a.d /\ R[4] = 62 + ia
        /\ ToSet(R) = {R[k] : k \in 1 .. 4}
    BY <1>3, DrawerPlaces
  <2>2. wa = wb \/ ha = hb \/ a.d = b.d \/ ia = ib
    BY <1>3 DEF Speaks
  <2> HIDE DEF Q, R, wa, wb, ha, hb, ia, ib, a, b
  <2>3. Q[1] = R[1] \/ Q[2] = R[2] \/ Q[3] = R[3] \/ Q[4] = R[4]
    BY <1>1, <2>1, <2>2
  <2>4. \E k \in 1 .. 4 : Q[k] = R[k]
    BY <2>3
  <2>5. \E k \in 1 .. 4 : Q[k] \in ToSet(R)
    BY <2>1, <2>4
  <2> QED
    BY <2>5 DEF Q, R
<1> QED
  BY <1>2, <1>3

\* The entries of start s, up to the n-th.
OwnTo(vec, s, n) == {k \in 1 .. n : vec[k].code_s = s}
Crowded(vec, s) == Cardinality(OwnTo(vec, s, Len(vec))) > PerDrawer

LEMMA OwnFacts ==
  ASSUME NEW vec, NEW s, NEW n \in Nat \ {0}
  PROVE  /\ IsFiniteSet(OwnTo(vec, s, n)) /\ IsFiniteSet(OwnTo(vec, s, n - 1))
         /\ Cardinality(OwnTo(vec, s, n)) \in Nat /\ Cardinality(OwnTo(vec, s, n - 1)) \in Nat
         /\ vec[n].code_s = s =>
              /\ OwnTo(vec, s, n) = OwnTo(vec, s, n - 1) \cup {n}
              /\ Cardinality(OwnTo(vec, s, n)) = Cardinality(OwnTo(vec, s, n - 1)) + 1
         /\ vec[n].code_s # s => OwnTo(vec, s, n) = OwnTo(vec, s, n - 1)
PROOF
<1> DEFINE A == OwnTo(vec, s, n - 1)
           B == OwnTo(vec, s, n)
<1>1. IsFiniteSet(1 .. n)
  BY FS_Interval
<1>2. 1 .. n = (1 .. n - 1) \cup {n} /\ n \notin 1 .. n - 1
  OBVIOUS
<1>3. A \subseteq 1 .. n /\ B \subseteq 1 .. n
  BY <1>2 DEF OwnTo
<1>4. /\ vec[n].code_s = s => B = A \cup {n}
      /\ vec[n].code_s # s => B = A
      /\ n \notin A
  BY <1>2 DEF OwnTo
<1>5. IsFiniteSet(A) /\ IsFiniteSet(B)
  BY <1>1, <1>3, FS_Subset
<1> HIDE DEF A, B
<1>6. Cardinality(A) \in Nat /\ Cardinality(B) \in Nat
  BY <1>5, FS_CardinalityType
<1>7. Cardinality(A \cup {n}) = Cardinality(A) + 1
  BY <1>4, <1>5, FS_AddElement
<1> QED
  BY <1>4, <1>5, <1>6, <1>7 DEF A, B

\* All of a start's entries are candidates, or there are more than are taken.
LEMMA AllTaken ==
  ASSUME NEW vec \in Seq(Kept), NEW behav
  PROVE  \/ Crowded(vec, behav.code_s)
         \/ \A k \in 1 .. Len(vec) : vec[k].code_s = behav.code_s =>
              \E j \in 1 .. Len(Candidates(vec, behav)) : Candidates(vec, behav)[j] = vec[k]
PROOF
<1> DEFINE n == Len(vec)
           s == behav.code_s
<1>1. n \in Nat /\ \A j \in 1 .. n : vec[j] \in Kept
  OBVIOUS
<1>2. PICK own : Collecting(vec, behav, own)
  BY CandidatesByTurns
<1>3. /\ own \in [0 .. n -> Seq(Kept)] /\ own[0] = <<>> /\ Candidates(vec, behav) = own[n]
      /\ \A j \in 1 .. n :
           own[j] = IF Len(own[j - 1]) < PerDrawer /\ vec[j].code_s = s
                    THEN Append(own[j - 1], vec[j]) ELSE own[j - 1]
  BY <1>2 DEF Collecting
<1>p. PerDrawer \in Nat
  BY PredictorAssumption
<1> HIDE DEF n, s
<1> DEFINE All(j) == /\ Len(own[j]) = Cardinality(OwnTo(vec, s, j))
                     /\ \A k \in OwnTo(vec, s, j) : \E i \in 1 .. Len(own[j]) : own[j][i] = vec[k]
           More(j) == Cardinality(OwnTo(vec, s, j)) > PerDrawer
           T == {j \in 0 .. n : More(j) \/ All(j)}
<1>4. 0 \in T
  <2>1. OwnTo(vec, s, 0) = {} /\ Len(own[0]) = 0
    BY <1>3 DEF OwnTo
  <2>2. Cardinality({}) = 0
    BY FS_EmptySet
  <2>3. 0 \in 0 .. n
    BY <1>1
  <2> QED
    BY <2>1, <2>2, <2>3
<1>5. ASSUME NEW j \in 1 .. n, j - 1 \in T PROVE j \in T
  <2>1. j \in Nat \ {0} /\ j - 1 \in 0 .. n /\ j \in 0 .. n
    BY <1>1
  <2> DEFINE A == OwnTo(vec, s, j - 1)
             B == OwnTo(vec, s, j)
             u == own[j - 1]
             w == own[j]
             e == vec[j]
  <2>2. /\ Cardinality(A) \in Nat /\ Cardinality(B) \in Nat
        /\ e.code_s = s => B = A \cup {j} /\ Cardinality(B) = Cardinality(A) + 1
        /\ e.code_s # s => B = A
    BY <2>1, OwnFacts
  <2>3. w = IF Len(u) < PerDrawer /\ e.code_s = s THEN Append(u, e) ELSE u
    BY <1>3
  <2>4. u \in Seq(Kept) /\ Len(u) \in Nat
    <3>1. u \in Seq(Kept)
      BY <1>3, <2>1
    <3> QED
      BY <3>1
  <2>5. \/ Cardinality(A) > PerDrawer
        \/ Len(u) = Cardinality(A) /\ \A k \in A : \E i \in 1 .. Len(u) : u[i] = vec[k]
    BY <1>5
  <2>6. SUFFICES \/ Cardinality(B) > PerDrawer
                 \/ Len(w) = Cardinality(B) /\ \A k \in B : \E i \in 1 .. Len(w) : w[i] = vec[k]
    BY <2>1
  <2>7. CASE Cardinality(A) > PerDrawer
    <3> HIDE DEF A, B, e
    <3>1. Cardinality(B) \in {Cardinality(A), Cardinality(A) + 1}
      BY <2>2
    <3> QED
      BY <1>p, <2>2, <2>7, <3>1
  <2>8. CASE Len(u) = Cardinality(A) /\ \A k \in A : \E i \in 1 .. Len(u) : u[i] = vec[k]
    <3>1. CASE e.code_s # s
      <4>1. B = A /\ w = u
        BY <2>2, <2>3, <3>1
      <4> HIDE DEF A, B, u, w
      <4> QED
        BY <2>8, <4>1
    <3>2. CASE e.code_s = s /\ ~(Len(u) < PerDrawer)
      <4> HIDE DEF A, B, u, w, e
      <4>1. Cardinality(B) > PerDrawer
        BY <1>p, <2>2, <2>4, <2>8, <3>2
      <4> QED
        BY <4>1
    <3>3. CASE e.code_s = s /\ Len(u) < PerDrawer
      <4>1. /\ w = Append(u, e) /\ B = A \cup {j} /\ Cardinality(B) = Cardinality(A) + 1
            /\ e = vec[j]
        BY <2>2, <2>3, <3>3
      <4> HIDE DEF A, B, u, w, e
      <4>2. /\ Len(w) = Len(u) + 1 /\ w[Len(u) + 1] = e
            /\ \A i \in 1 .. Len(u) : w[i] = u[i] /\ i \in 1 .. Len(u) + 1
            /\ Len(u) + 1 \in 1 .. Len(u) + 1
        BY <2>4, <4>1
      <4>3. \A k \in B : \E i \in 1 .. Len(w) : w[i] = vec[k]
        <5> SUFFICES ASSUME NEW k \in B PROVE \E i \in 1 .. Len(w) : w[i] = vec[k]
          OBVIOUS
        <5>1. CASE k \in A
          <6>1. PICK i \in 1 .. Len(u) : u[i] = vec[k]
            BY <2>8, <5>1
          <6> QED
            BY <4>2, <6>1
        <5>2. CASE k = j
          BY <4>1, <4>2, <5>2
        <5> QED
          BY <4>1, <5>1, <5>2
      <4>4. Len(w) = Cardinality(B)
        BY <2>8, <4>1, <4>2
      <4> QED
        BY <4>3, <4>4
    <3> QED
      BY <3>1, <3>2, <3>3
  <2> QED
    BY <2>5, <2>7, <2>8
<1>6. n \in T
  <2> HIDE DEF T
  <2>1. \A j \in 0 .. n : j \in T
    BY <1>1, <1>4, <1>5, Upward
  <2> QED
    BY <1>1, <2>1
<1>7. CASE More(n)
  BY <1>7 DEF Crowded, n, s
<1>8. CASE All(n)
  <2> DEFINE cs == Candidates(vec, behav)
  <2>1. cs = own[n]
    BY <1>3
  <2>2. \A k \in OwnTo(vec, s, n) : \E i \in 1 .. Len(cs) : cs[i] = vec[k]
    BY <1>8, <2>1
  <2> HIDE DEF cs
  <2>3. \A k \in 1 .. n : vec[k].code_s = s => \E i \in 1 .. Len(cs) : cs[i] = vec[k]
    BY <2>2 DEF OwnTo
  <2> QED
    BY <2>3 DEF cs, n, s
<1> QED
  BY <1>6, <1>7, <1>8

LEMMA AllAsked ==
  ASSUME NEW vec \in Seq(Kept), NEW behav, NEW date_d
  PROVE  LET cs == getDestRateFromDraw(vec, behav, date_d)
         IN  \/ Crowded(vec, behav.code_s)
             \/ \A k \in 1 .. Len(vec) : vec[k].code_s = behav.code_s =>
                  \E j \in 1 .. Len(cs) : cs[j].code_d = vec[k].code_d
PROOF
<1> DEFINE own == Candidates(vec, behav)
           cs == getDestRateFromDraw(vec, behav, date_d)
<1>1. cs = [j \in 1 .. Len(own) |->
              [code_s |-> own[j].code_s, code_d |-> own[j].code_d, date_d |-> date_d,
               time_d |-> own[j].time_d, count |-> own[j].count]]
  BY DEF getDestRateFromDraw
<1>2. own \in Seq(Kept)
  BY CandidatesKept
<1>3. \/ Crowded(vec, behav.code_s)
      \/ \A k \in 1 .. Len(vec) : vec[k].code_s = behav.code_s =>
           \E j \in 1 .. Len(own) : own[j] = vec[k]
  BY AllTaken
<1> HIDE DEF own, cs
<1>4. Len(cs) = Len(own) /\ \A j \in 1 .. Len(own) : cs[j].code_d = own[j].code_d
  <2>1. Len(own) \in Nat
    BY <1>2
  <2> QED
    BY <1>1, <2>1
<1>5. \/ Crowded(vec, behav.code_s)
      \/ \A k \in 1 .. Len(vec) : vec[k].code_s = behav.code_s =>
           \E j \in 1 .. Len(cs) : cs[j].code_d = vec[k].code_d
  BY <1>3, <1>4
<1> QED
  BY <1>5 DEF cs

\* Each candidate is in the list, or the list is complete with its three.
Distinct(list) == \A j, k \in 1 .. Len(list) : j # k => list[j].code # list[k].code

LEMMA WeighLists ==
  ASSUME NEW list \in Seq(Result), NEW x \in Share, Distinct(list), Len(list) <= 3
  PROVE  LET w == Weigh(list, x)
         IN  /\ Distinct(w) /\ Len(w) <= 3 /\ Len(w) \in Nat
             /\ \A j \in 1 .. Len(list) : \E k \in 1 .. Len(w) : w[k].code = list[j].code
             /\ Len(w) = 3 \/ \E k \in 1 .. Len(w) : w[k].code = x.res.code_d
             /\ Len(list) = 3 => Len(w) = 3
PROOF
<1> DEFINE same == {k \in 1 .. Len(list) : list[k].code = x.res.code_d}
           part == IF endCount = 0 THEN 0 ELSE x.res.count * x.weight
           k0 == CHOOSE k \in same : TRUE
           new == [code |-> x.res.code_d, pos |-> Zero, rate |-> part,
                   date_d |-> x.res.date_d, time_d |-> x.res.time_d]
           w == Weigh(list, x)
<1>1. w = IF Len(list) = 3 THEN list
          ELSE IF same # {} THEN [list EXCEPT ![k0].rate = @ + part]
          ELSE Append(list, new)
  BY DEF Weigh
<1>2. Len(list) \in Nat /\ \A j \in 1 .. Len(list) : list[j] \in Result
  OBVIOUS
<1>3. new.code = x.res.code_d
  OBVIOUS
<1>4. CASE Len(list) = 3
  <2>1. w = list
    BY <1>1, <1>4
  <2> HIDE DEF w
  <2> QED
    BY <1>2, <1>4, <2>1 DEF w
<1>5. CASE Len(list) # 3 /\ same # {}
  <2>1. k0 \in same
    BY <1>5
  <2>2. k0 \in 1 .. Len(list) /\ list[k0].code = x.res.code_d
    BY <2>1
  <2>3. w = [list EXCEPT ![k0].rate = @ + part]
    BY <1>1, <1>5
  <2> HIDE DEF w, k0, part, same
  <2>4. Len(w) = Len(list) /\ \A j \in 1 .. Len(list) : w[j].code = list[j].code
    BY <1>2, <2>2, <2>3 DEF Result
  <2>5. Distinct(w)
    BY <2>4 DEF Distinct
  <2> QED
    BY <1>2, <1>5, <2>2, <2>4, <2>5 DEF w
<1>6. CASE Len(list) # 3 /\ same = {}
  <2>1. w = Append(list, new)
    BY <1>1, <1>6
  <2>2. \A j \in 1 .. Len(list) : list[j].code # x.res.code_d
    BY <1>6
  <2> HIDE DEF w, new, same
  <2> DEFINE n == Len(list) + 1
  <2>a. Len(w) = n /\ w[n] = new /\ \A j \in 1 .. Len(list) : w[j] = list[j]
    BY <2>1
  <2>b. /\ n \in 1 .. n /\ n \in Nat /\ n <= 3
        /\ \A j \in 1 .. Len(list) : j \in 1 .. n
        /\ \A j \in 1 .. n : j \in 1 .. Len(list) \/ j = n
    <3> DEFINE l == Len(list)
    <3>1. l \in Nat /\ l # 3 /\ l <= 3
      BY <1>2, <1>6
    <3> HIDE DEF l
    <3>2. /\ l + 1 \in 1 .. l + 1 /\ l + 1 \in Nat /\ l + 1 <= 3
          /\ \A j \in 1 .. l : j \in 1 .. l + 1
          /\ \A j \in 1 .. l + 1 : j \in 1 .. l \/ j = l + 1
      BY <3>1
    <3> QED
      BY <3>2 DEF l
  <2>3. /\ Len(w) = n /\ w[n] = new /\ n \in 1 .. n
        /\ \A j \in 1 .. Len(list) : w[j] = list[j] /\ j \in 1 .. n
        /\ \A j \in 1 .. n : j \in 1 .. Len(list) \/ j = n
        /\ n \in Nat /\ n <= 3
    <3> HIDE DEF n
    <3> QED
      BY <2>a, <2>b
  <2> HIDE DEF n
  <2>4. Distinct(w)
    <3> SUFFICES ASSUME NEW j \in 1 .. n, NEW k \in 1 .. n, j # k
                 PROVE  w[j].code # w[k].code
      BY <2>3 DEF Distinct
    <3>1. CASE j \in 1 .. Len(list) /\ k \in 1 .. Len(list)
      BY <2>3, <3>1 DEF Distinct
    <3>2. CASE j = n /\ k \in 1 .. Len(list)
      BY <1>3, <2>2, <2>3, <3>2
    <3>3. CASE k = n /\ j \in 1 .. Len(list)
      BY <1>3, <2>2, <2>3, <3>3
    <3> QED
      BY <2>3, <3>1, <3>2, <3>3
  <2>5. \A j \in 1 .. Len(list) : \E k \in 1 .. Len(w) : w[k].code = list[j].code
    BY <2>3
  <2>6. \E k \in 1 .. Len(w) : w[k].code = x.res.code_d
    BY <1>3, <2>3
  <2> QED
    BY <1>6, <2>3, <2>4, <2>5, <2>6 DEF w
<1> QED
  BY <1>4, <1>5, <1>6

LEMMA AllListed ==
  ASSUME NEW cands \in Seq(Share)
  PROVE  LET list == Listed(cands)
         IN  /\ Distinct(list)
             /\ \/ Len(list) = 3
                \/ \A j \in 1 .. Len(cands) :
                     \E k \in 1 .. Len(list) : list[k].code = cands[j].res.code_d
PROOF
<1> DEFINE n == Len(cands)
<1>1. n \in Nat /\ \A j \in 1 .. n : cands[j] \in Share
  OBVIOUS
<1>2. PICK list : Listing(cands, list)
  BY ListedByTurns
<1>3. /\ list \in [0 .. n -> Seq(Result)] /\ list[0] = <<>> /\ Listed(cands) = list[n]
      /\ \A j \in 1 .. n : list[j] = Weigh(list[j - 1], cands[j])
  BY <1>2 DEF Listing
<1> HIDE DEF n
<1> DEFINE Has(j, c) == \E k \in 1 .. Len(list[j]) : list[j][k].code = c
           All(j) == \A i \in 1 .. j : Has(j, cands[i].res.code_d)
           T == {j \in 0 .. n : /\ Distinct(list[j]) /\ Len(list[j]) <= 3
                                /\ Len(list[j]) = 3 \/ All(j)}
<1>4. 0 \in T
  <2>1. Len(<<>>) = 0 /\ 0 \in 0 .. n /\ 1 .. 0 = {}
    BY <1>1
  <2>2. All(0)
    BY <2>1
  <2>3. Distinct(<<>>)
    BY <2>1 DEF Distinct
  <2> HIDE DEF All
  <2> QED
    BY <1>3, <2>1, <2>2, <2>3
<1>5. ASSUME NEW j \in 1 .. n, j - 1 \in T PROVE j \in T
  <2>1. j - 1 \in 0 .. n /\ j \in 0 .. n /\ \A i \in 1 .. j : i \in 1 .. j - 1 \/ i = j
    BY <1>1
  <2> DEFINE u == list[j - 1]
             w == list[j]
             x == cands[j]
  <2>2. u \in Seq(Result) /\ x \in Share /\ w = Weigh(u, x)
    BY <1>1, <1>3, <2>1
  <2>3. Distinct(u) /\ Len(u) <= 3 /\ (Len(u) = 3 \/ All(j - 1))
    BY <1>5
  <2>4. /\ Distinct(w) /\ Len(w) <= 3 /\ Len(w) \in Nat
        /\ \A i \in 1 .. Len(u) : \E k \in 1 .. Len(w) : w[k].code = u[i].code
        /\ Len(w) = 3 \/ \E k \in 1 .. Len(w) : w[k].code = x.res.code_d
        /\ Len(u) = 3 => Len(w) = 3
    <3> HIDE DEF u, w, x
    <3> QED
      BY <2>2, <2>3, WeighLists
  <2>5. Len(w) = 3 \/ All(j)
    <3> SUFFICES ASSUME Len(w) # 3, NEW i \in 1 .. j
                 PROVE  \E k \in 1 .. Len(w) : w[k].code = cands[i].res.code_d
      OBVIOUS
    <3>1. CASE i = j
      BY <2>4, <3>1
    <3>2. CASE i \in 1 .. j - 1
      <4>1. PICK k \in 1 .. Len(u) : u[k].code = cands[i].res.code_d
        BY <2>3, <2>4, <3>2
      <4> HIDE DEF u, w, x
      <4> QED
        BY <2>4, <4>1
    <3> QED
      BY <2>1, <3>1, <3>2
  <2> HIDE DEF All
  <2> QED
    BY <2>1, <2>4, <2>5
<1>6. n \in T
  <2> HIDE DEF T
  <2>1. \A j \in 0 .. n : j \in T
    BY <1>1, <1>4, <1>5, Upward
  <2> QED
    BY <1>1, <2>1
<1>7. Distinct(list[n]) /\ (Len(list[n]) = 3 \/ All(n))
  BY <1>6
<1> QED
  BY <1>3, <1>7 DEF n

\* Sorting distinct results leaves none out.
LEMMA AllRanked ==
  ASSUME NEW list \in Seq(Result), Distinct(list), NEW s \in Ranked(list)
  PROVE  /\ Len(s) = Len(list) /\ s \in Seq(Result)
         /\ \A j \in 1 .. Len(list) : \E k \in 1 .. Len(s) : s[k] = list[j]
PROOF
<1> DEFINE n == Len(list)
           S == ToSet(list)
           f == [i \in 1 .. n |-> list[i]]
<1>1. n \in Nat /\ \A i \in 1 .. n : list[i] \in Result
  OBVIOUS
<1>2. S = {list[i] : i \in 1 .. n}
  BY DEF ToSet
<1>3. IsFiniteSet(1 .. n) /\ Cardinality(1 .. n) = n
  <2> HIDE DEF n
  <2>1. IsFiniteSet(1 .. n) /\ Cardinality(1 .. n) = IF 1 > n THEN 0 ELSE n - 1 + 1
    BY <1>1, FS_Interval
  <2> QED
    BY <1>1, <2>1
<1> HIDE DEF S
<1>4. f \in Surjection(1 .. n, S) /\ f \in Injection(1 .. n, S)
  <2>1. f \in Surjection(1 .. n, S)
    BY <1>2 DEF Surjection
  <2>2. f \in [1 .. n -> S]
    BY <1>2
  <2>3. \A i, j \in 1 .. n : f[i] = f[j] => i = j
    BY DEF Distinct
  <2>4. IsInjective(f)
    BY <2>2, <2>3 DEF IsInjective
  <2> QED
    BY <2>1, <2>2, <2>4 DEF Injection
<1>5. IsFiniteSet(S) /\ Cardinality(S) = n
  <2> HIDE DEF f
  <2> QED
    BY <1>3, <1>4, FS_Surjection
<1>6. /\ s \in [1 .. n -> S] /\ \A x \in S : \E k \in 1 .. n : s[k] = x
  <2>1. s \in [1 .. n -> S] /\ \A i, j \in 1 .. n : i # j => s[i] # s[j]
    BY <1>5 DEF Ranked, SetToSeqs, S
  <2>2. IsInjective(s)
    BY <2>1 DEF IsInjective
  <2>3. s \in Injection(1 .. n, S)
    BY <2>1, <2>2 DEF Injection
  <2>4. s \in Surjection(1 .. n, S)
    BY <1>3, <1>5, <2>3, FS_Injection
  <2> QED
    BY <2>1, <2>4 DEF Surjection
<1>7. s \in Seq(Result)
  BY RankedType
<1>8. Len(s) = n
  BY <1>1, <1>6, <1>7
<1>9. \A j \in 1 .. n : list[j] \in S
  BY <1>2
<1> HIDE DEF n
<1> QED
  BY <1>6, <1>7, <1>8, <1>9 DEF n

\* A tally has an entry for each record.
LEMMA TallyHas ==
  ASSUME NEW vec \in Seq(Kept), NEW put, NEW recs, Len(recs) \in Nat, Tally(vec, put, recs),
         NEW k \in put
  PROVE  \E j \in 1 .. Len(vec) : vec[j].code_s = recs[k].code_s /\ vec[j].code_d = recs[k].code_d
PROOF
<1> DEFINE s == recs[k].code_s
           d == recs[k].code_d
           S == put \cap Between(recs, s, d)
<1>1. Total(CountsOf(vec), Between(vec, s, d)) = Cardinality(S)
  BY DEF Tally, Sums
<1>2. k \in S /\ IsFiniteSet(S)
  <2>1. k \in Between(recs, s, d)
    BY DEF Tally, Between
  <2>2. IsFiniteSet(Between(recs, s, d))
    BY BetweenFinite
  <2> QED
    BY <2>1, <2>2, FS_Subset
<1> HIDE DEF S, s, d
<1>3. Cardinality(S) # 0
  BY <1>2, FS_EmptySet
<1>4. Between(vec, s, d) # {}
  <2> SUFFICES ASSUME Between(vec, s, d) = {} PROVE FALSE
    OBVIOUS
  <2>1. IsFiniteSet({}) /\ \A x \in {} : CountsOf(vec)[x] \in Nat
    BY FS_EmptySet
  <2>2. Total(CountsOf(vec), {}) = 0
    BY <2>1, TotalFacts
  <2> QED
    BY <1>1, <1>3, <2>2
<1> QED
  BY <1>4 DEF Between, s, d

\* Each candidate of the four arrays is weighed.
LEMMA AllWeighed ==
  ASSUME NEW cate \in [1 .. 4 -> Seq(Cand)], NEW i \in 1 .. 4, NEW j \in 1 .. Len(cate[i])
  PROVE  \E n \in 1 .. Len(Weighted(cate)) : Weighted(cate)[n].res = cate[i][j]
PROOF
<1> DEFINE cands(k) == [n \in 1 .. Len(cate[k]) |->
                          [res |-> cate[k][n], weight |-> weights[k]]]
           c2 == cands(1) \o cands(2)
           c3 == c2 \o cands(3)
           c4 == c3 \o cands(4)
<1>w. \A k \in 1 .. 4 : weights[k] \in {10, 6, 3, 1}
  BY DEF weights
<1>1. Weighted(cate) = c4
  BY DEF Weighted
<1>2. ASSUME NEW k \in 1 .. 4 PROVE cands(k) \in Seq(Share)
  <2>1. cate[k] \in Seq(Cand) /\ weights[k] \in {10, 6, 3, 1}
    BY <1>w
  <2> QED
    BY <2>1, SharedOne
<1>3. Len(cands(i)) = Len(cate[i]) /\ cands(i)[j].res = cate[i][j]
  <2>1. Len(cate[i]) \in Nat
    OBVIOUS
  <2> QED
    BY <2>1
<1> HIDE DEF cands
<1>4. cands(i)[j] \in ToSet(cands(i))
  BY <1>3 DEF ToSet
<1>5. /\ cands(1) \in Seq(Share) /\ cands(2) \in Seq(Share)
      /\ cands(3) \in Seq(Share) /\ cands(4) \in Seq(Share)
  BY <1>2
<1>6. c2 \in Seq(Share) /\ ToSet(cands(1)) \subseteq ToSet(c2) /\ ToSet(cands(2)) \subseteq ToSet(c2)
  BY <1>5, ConcatSet, ConcatProperties
<1>7. c3 \in Seq(Share) /\ ToSet(c2) \subseteq ToSet(c3) /\ ToSet(cands(3)) \subseteq ToSet(c3)
  <2> HIDE DEF c2
  <2> QED
    BY <1>5, <1>6, ConcatSet, ConcatProperties
<1>8. c4 \in Seq(Share) /\ ToSet(c3) \subseteq ToSet(c4) /\ ToSet(cands(4)) \subseteq ToSet(c4)
  <2> HIDE DEF c3
  <2> QED
    BY <1>5, <1>7, ConcatSet, ConcatProperties
<1> HIDE DEF c2, c3, c4
<1>9. cands(i)[j] \in ToSet(c4)
  <2>1. i = 1 \/ i = 2 \/ i = 3 \/ i = 4
    OBVIOUS
  <2> QED
    BY <1>4, <1>6, <1>7, <1>8, <2>1
<1>d. DOMAIN c4 = 1 .. Len(c4)
  BY <1>8
<1>10. PICK n \in 1 .. Len(c4) : c4[n] = cands(i)[j]
  BY <1>9, <1>d DEF ToSet
<1> QED
  BY <1>1, <1>3, <1>10

\* The destinations that the i-th array should give for q, those it does give,
\* and those of the list.
Wanted(recs, q, i) ==
  {r.code_d : r \in {x \in recs : /\ x.code_s = q.code_s
                                  /\ DrawersOf(q)[i] \in ToSet(DrawersOf(x))}}
CodesIn(cands) == {cands[j].code_d : j \in 1 .. Len(cands)}
Given(list) == {list[j].code : j \in 1 .. Len(list)}
Served(cells, recs, q, i, codes) ==
  Crowded(cells[DrawersOf(q)[i]], q.code_s) \/ Wanted(recs, q, i) \subseteq codes

\* The records that were on file with the first n trips, and the zeroed one.
OnFile(n) == {behFile[j] : j \in 1 .. n} \cup {b \in {NoBehavior} : loaded # 0}

LEMMA OnFileAre ==
  ASSUME Sourced, NEW n \in 0 .. Len(behFile), loaded <= n + 1
  PROVE  /\ ToSet(RecordsUpTo(n)) \subseteq OnFile(n)
         /\ OnFile(n) \subseteq ToSet(Records)
         /\ OnFile(n) \subseteq Real \cup {NoBehavior}
PROOF
<1> DEFINE X == Real \cup {NoBehavior}
           m == Len(behFile)
           from == IF loaded = 0 THEN 1 ELSE loaded
           front == LoadedRecords
           back == SubSeq(behFile, from, n)
<1>1. /\ behFile \in Seq(X) /\ m \in Nat /\ n \in Nat /\ n <= m /\ loaded \in 0 .. n + 1
      /\ from \in 1 .. n + 1 /\ from \in Nat
  BY DEF Sourced
<1>2. \A j \in 1 .. m : behFile[j] \in ToSet(behFile) /\ behFile[j] \in Real
  BY DEF ToSet, Sourced
<1>3. \A j \in 1 .. n : j \in 1 .. m
  BY <1>1
<1>4. OnFile(n) \subseteq ToSet(behFile) \cup {b \in {NoBehavior} : loaded # 0}
  BY <1>2, <1>3 DEF OnFile
<1>5. OnFile(n) \subseteq ToSet(Records)
  BY <1>4, FileIsRecords
<1>6. OnFile(n) \subseteq X
  BY <1>2, <1>3 DEF OnFile
<1>7. front \in Seq(X) /\ ToSet(front) \subseteq OnFile(n)
  <2>1. CASE loaded = 0
    <3>1. front = <<>>
      BY <2>1 DEF LoadedRecords
    <3>2. <<>> \in Seq(X) /\ ToSet(<<>>) = {}
      BY DEF ToSet
    <3> QED
      BY <3>1, <3>2
  <2>2. CASE loaded # 0
    <3> DEFINE s == SubSeq(behFile, 1, loaded - 1)
               l == loaded - 1
    <3>1. l \in Nat /\ l <= m /\ l <= n
      BY <1>1, <2>2
    <3>2. s \in Seq(X) /\ Len(s) = l /\ \A j \in 1 .. l : s[j] = behFile[j]
      <4> HIDE DEF X
      <4>1. 1 \in Nat /\ l \in 0 .. m
        BY <1>1, <3>1
      <4> QED
        BY <1>1, <4>1
    <3>3. front = Append(s, NoBehavior)
      BY <2>2 DEF LoadedRecords
    <3> HIDE DEF s, l
    <3>4. ToSet(front) = ToSet(s) \cup {NoBehavior}
      BY <3>2, <3>3, AppendSet
    <3>5. ToSet(s) \subseteq OnFile(n)
      <4>1. \A j \in 1 .. l : j \in 1 .. n
        BY <1>1, <3>1
      <4>2. ToSet(s) = {s[j] : j \in 1 .. l}
        BY <3>2 DEF ToSet
      <4> QED
        BY <3>2, <4>1, <4>2 DEF OnFile
    <3>6. NoBehavior \in OnFile(n)
      BY <2>2 DEF OnFile
    <3>7. front \in Seq(X)
      BY <3>2, <3>3
    <3> QED
      BY <3>4, <3>5, <3>6, <3>7
  <2> QED
    BY <2>1, <2>2
<1>8. back \in Seq(X) /\ ToSet(back) \subseteq OnFile(n)
  <2> DEFINE l == n - from + 1
  <2>1. l \in Nat /\ \A j \in 1 .. l : from + j - 1 \in 1 .. n
    BY <1>1
  <2>2. back \in Seq(X) /\ Len(back) = l /\ \A j \in 1 .. l : back[j] = behFile[from + j - 1]
    <3> HIDE DEF X, from
    <3>1. from \in 1 .. n + 1 /\ n \in 0 .. m
      BY <1>1
    <3> QED
      BY <1>1, <3>1
  <2> HIDE DEF l, back, from, X
  <2>d. DOMAIN back = 1 .. l
    BY <2>2
  <2>3. ToSet(back) = {back[j] : j \in 1 .. l}
    BY <2>d DEF ToSet
  <2> QED
    BY <2>1, <2>2, <2>3 DEF OnFile
<1>9. RecordsUpTo(n) = front \o back
  BY DEF RecordsUpTo
<1> HIDE DEF X, front, back
<1>10. ToSet(front \o back) \subseteq ToSet(front) \cup ToSet(back)
  <2> SUFFICES ASSUME NEW x \in ToSet(front \o back) PROVE x \in ToSet(front) \cup ToSet(back)
    OBVIOUS
  <2> DEFINE a == Len(front)
             b == Len(back)
             u == front \o back
  <2>1. a \in Nat /\ b \in Nat
    BY <1>7, <1>8
  <2>2. /\ Len(u) = a + b /\ \A j \in 1 .. a : u[j] = front[j]
        /\ \A j \in 1 .. b : u[a + j] = back[j]
    BY <1>7, <1>8
  <2>3. PICK j \in 1 .. Len(u) : x = u[j]
    BY DEF ToSet
  <2> HIDE DEF u
  <2>4. CASE j <= a
    <3>1. j \in 1 .. a
      BY <2>1, <2>2, <2>4
    <3> QED
      BY <2>2, <2>3, <3>1 DEF ToSet
  <2>5. CASE ~(j <= a)
    <3>1. j - a \in 1 .. b /\ a + (j - a) = j
      BY <2>1, <2>2, <2>5
    <3> QED
      BY <2>2, <2>3, <3>1 DEF ToSet
  <2> QED
    BY <2>4, <2>5
<1> QED
  BY <1>5, <1>6, <1>7, <1>8, <1>9, <1>10 DEF X

\* What a drawer gives once serves, whatever is put in it later.
LEMMA CrowdedPut ==
  ASSUME NEW vec \in Seq(Kept), NEW b \in Trips, NEW s, Crowded(vec, s)
  PROVE  Crowded(putInDrawer(vec, b), s)
PROOF
<1> DEFINE w == putInDrawer(vec, b)
           n == Len(vec)
           m == Len(w)
           A == OwnTo(vec, s, n)
           B == OwnTo(w, s, m)
<1>1. /\ w \in Seq(Kept) /\ \A i \in 1 .. n : w[i].code_s = vec[i].code_s
      /\ m = n \/ m = n + 1
  BY PutAdds
<1> HIDE DEF w
<1>2. n \in Nat /\ m \in Nat
  BY <1>1
<1> HIDE DEF n, m
<1>3. \A i \in 1 .. n : i \in 1 .. m
  BY <1>1, <1>2
<1>4. A \subseteq B
  BY <1>1, <1>3 DEF OwnTo
<1>5. IsFiniteSet(1 .. m) /\ B \subseteq 1 .. m
  BY <1>2, FS_Interval DEF OwnTo
<1>6. IsFiniteSet(B)
  BY <1>5, FS_Subset
<1> HIDE DEF A, B
<1>7. /\ IsFiniteSet(A) /\ Cardinality(A) <= Cardinality(B)
  BY <1>4, <1>6, FS_Subset
<1>8. Cardinality(A) \in Nat /\ Cardinality(B) \in Nat /\ PerDrawer \in Nat
  BY <1>6, <1>7, FS_CardinalityType, PredictorAssumption
<1>9. Cardinality(A) > PerDrawer
  BY DEF Crowded, A, n
<1>10. Cardinality(B) > PerDrawer
  BY <1>7, <1>8, <1>9
<1> QED
  BY <1>10 DEF Crowded, B, m, w

LEMMA ServedPut ==
  ASSUME NEW cells \in [Cells -> Seq(Kept)], NEW c \in Cells, NEW b \in Trips,
         NEW recs, NEW q \in Real, NEW i \in 1 .. 4, NEW codes, Served(cells, recs, q, i, codes)
  PROVE  Served([cells EXCEPT ![c] = putInDrawer(cells[c], b)], recs, q, i, codes)
PROOF
<1> DEFINE x == DrawersOf(q)[i]
           then == [cells EXCEPT ![c] = putInDrawer(cells[c], b)]
<1>1. x \in Cells
  BY DrawerIn
<1>2. Crowded(cells[x], q.code_s) \/ Wanted(recs, q, i) \subseteq codes
  BY DEF Served
<1> HIDE DEF x
<1>3. then[x] = IF x = c THEN putInDrawer(cells[x], b) ELSE cells[x]
  BY <1>1
<1>4. cells[x] \in Seq(Kept)
  BY <1>1
<1>5. Crowded(cells[x], q.code_s) => Crowded(then[x], q.code_s)
  <2>1. Crowded(cells[x], q.code_s) => Crowded(putInDrawer(cells[x], b), q.code_s)
    BY <1>4, CrowdedPut
  <2> HIDE DEF then
  <2> QED
    BY <1>3, <2>1
<1> HIDE DEF then
<1> QED
  BY <1>2, <1>5 DEF Served, x, then

\* A drawer gives the destinations of all records on file that are in it.
LEMMA ServedRead ==
  ASSUME Types, Sourced, Tallied, NEW n \in 0 .. Len(behFile), loaded <= n + 1,
         NEW q \in Real, NEW i \in 1 .. 4, NEW date_d
  PROVE  Served(mBehav, OnFile(n), q, i,
                CodesIn(getDestRateFromDraw(mBehav[DrawersOf(q)[i]], q, date_d)))
PROOF
<1> DEFINE c == DrawersOf(q)[i]
           vec == mBehav[c]
           cs == getDestRateFromDraw(vec, q, date_d)
<1>1. c \in Cells
  BY DrawerIn
<1> HIDE DEF c
<1>2. vec \in Seq(Kept)
  BY <1>1 DEF Types, Full
<1>3. Tally(vec, PutIn(c), Known)
  BY <1>1, TalliedSays
<1>4. \/ Crowded(vec, q.code_s)
      \/ \A k \in 1 .. Len(vec) : vec[k].code_s = q.code_s =>
           \E j \in 1 .. Len(cs) : cs[j].code_d = vec[k].code_d
  BY <1>2, AllAsked
<1>5. Records \in Seq(Real \cup {NoBehavior})
  BY RecordsTyped
<1> DEFINE m == Len(Records)
<1>6. m \in Nat /\ Len(Known) \in Nat /\ \A k \in 1 .. m : Known[k] = Records[k]
  BY <1>5 DEF Known
<1>7. OnFile(n) \subseteq ToSet(Records)
  BY OnFileAre
<1> HIDE DEF vec, cs
<1>8. ASSUME NEW r \in OnFile(n), r.code_s = q.code_s, c \in ToSet(DrawersOf(r)),
             ~Crowded(vec, q.code_s)
      PROVE  r.code_d \in CodesIn(cs)
  <2>1. DOMAIN Records = 1 .. m
    BY <1>5
  <2>2. PICK k \in 1 .. m : Records[k] = r
    BY <1>7, <2>1 DEF ToSet
  <2>3. k \in PutIn(c) /\ Known[k] = r
    BY <1>6, <1>8, <2>2 DEF PutIn
  <2>4. PICK j \in 1 .. Len(vec) : vec[j].code_s = r.code_s /\ vec[j].code_d = r.code_d
    BY <1>2, <1>3, <1>6, <2>3, TallyHas
  <2>5. \E l \in 1 .. Len(cs) : cs[l].code_d = vec[j].code_d
    BY <1>4, <1>8, <2>4
  <2> QED
    BY <2>4, <2>5 DEF CodesIn
<1>9. Crowded(vec, q.code_s) \/ Wanted(OnFile(n), q, i) \subseteq CodesIn(cs)
  BY <1>8 DEF Wanted, c
<1> QED
  BY <1>9 DEF Served, vec, cs, c

\* The list has its three or all that the arrays give.
LEMMA ServedListed ==
  ASSUME NEW cells, NEW recs, NEW q, NEW cate \in [1 .. 4 -> Seq(Cand)],
         \A i \in 1 .. 4 : Served(cells, recs, q, i, CodesIn(cate[i])),
         NEW list \in Ranked(Listed(Weighted(cate)))
  PROVE  Len(list) # 3 => \A i \in 1 .. 4 : Served(cells, recs, q, i, Given(list))
PROOF
<1> DEFINE all == Weighted(cate)
           raw == Listed(all)
<1>1. all \in Seq(Share)
  BY WeightedShares
<1>2. \A i \in 1 .. 4 : \A j \in 1 .. Len(cate[i]) :
        \E n \in 1 .. Len(all) : all[n].res = cate[i][j]
  BY AllWeighed
<1> HIDE DEF all
<1>3. /\ Distinct(raw)
      /\ \/ Len(raw) = 3
         \/ \A n \in 1 .. Len(all) : \E k \in 1 .. Len(raw) : raw[k].code = all[n].res.code_d
  BY <1>1, AllListed
<1>4. raw \in Seq(Result) /\ list \in Ranked(raw)
  BY <1>1, ListedType DEF all
<1> HIDE DEF raw
<1>5. /\ Len(list) = Len(raw)
      /\ \A j \in 1 .. Len(raw) : \E k \in 1 .. Len(list) : list[k] = raw[j]
  BY <1>3, <1>4, AllRanked
<1> SUFFICES ASSUME Len(list) # 3, NEW i \in 1 .. 4
             PROVE  Served(cells, recs, q, i, Given(list))
  OBVIOUS
<1>6. CodesIn(cate[i]) \subseteq Given(list)
  <2> SUFFICES ASSUME NEW j \in 1 .. Len(cate[i]) PROVE cate[i][j].code_d \in Given(list)
    BY DEF CodesIn
  <2>1. PICK n \in 1 .. Len(all) : all[n].res = cate[i][j]
    BY <1>2
  <2>2. PICK k \in 1 .. Len(raw) : raw[k].code = cate[i][j].code_d
    BY <1>3, <1>5, <2>1
  <2>3. PICK l \in 1 .. Len(list) : list[l] = raw[k]
    BY <1>5
  <2> QED
    BY <2>2, <2>3 DEF Given
<1>7. Served(cells, recs, q, i, CodesIn(cate[i]))
  OBVIOUS
<1> QED
  BY <1>6, <1>7 DEF Served

\* What is read so far, or listed, serves each array.
Answers(a, cells, recs, list) ==
  /\ a.pc \in {"read", "rate"} => \A i \in 1 .. 4 : (a.pc = "read" => i < a.k) =>
       Served(cells, recs, a.first, i, CodesIn(a.vecCate[i]))
  /\ a.pc = "done" /\ Len(list) # 3 => \A i \in 1 .. 4 :
       Served(cells, recs, a.first, i, Given(list))

\* The answer is for the records that were on file when it began, all loaded
\* ones among them.
Reached ==
  /\ asker.pc # "idle" => asker.known \in 0 .. Len(behFile) /\ loaded <= asker.known + 1
  /\ Answers(asker, mBehav, OnFile(asker.known), mGpsRetLst)

LEMMA ReachedInit == Init => Reached
PROOF
<1> SUFFICES ASSUME Init PROVE Reached
  OBVIOUS
<1>1. asker.pc = "idle"
  BY DEF Init, AskerIdle
<1> QED
  BY <1>1 DEF Reached, Answers

\* Another record put, the same answer.
LEMMA AnswersPut ==
  ASSUME NEW a, NEW cells \in [Cells -> Seq(Kept)], NEW c \in Cells, NEW b \in Trips,
         NEW recs, NEW list, a.pc # "idle" => a.first \in Real, Answers(a, cells, recs, list)
  PROVE  Answers(a, [cells EXCEPT ![c] = putInDrawer(cells[c], b)], recs, list)
PROOF
<1> DEFINE then == [cells EXCEPT ![c] = putInDrawer(cells[c], b)]
<1>1. ASSUME a.pc # "idle", NEW i \in 1 .. 4, NEW codes, Served(cells, recs, a.first, i, codes)
      PROVE  Served(then, recs, a.first, i, codes)
  BY <1>1, ServedPut
<1> HIDE DEF then
<1>2. ASSUME a.pc \in {"read", "rate"}, NEW i \in 1 .. 4, a.pc = "read" => i < a.k
      PROVE  Served(then, recs, a.first, i, CodesIn(a.vecCate[i]))
  BY <1>1, <1>2 DEF Answers
<1>3. ASSUME a.pc = "done", Len(list) # 3, NEW i \in 1 .. 4
      PROVE  Served(then, recs, a.first, i, Given(list))
  BY <1>1, <1>3 DEF Answers
<1>4. Answers(a, then, recs, list)
  BY <1>2, <1>3 DEF Answers
<1> QED
  BY <1>4 DEF then

LEMMA ReachedStep ==
  Types /\ Types' /\ Sourced /\ Tallied /\ Reached /\ [Next]_vars => Reached'
PROOF
<1> SUFFICES ASSUME Types, Types', Sourced, Tallied, Reached, [Next]_vars PROVE Reached'
  OBVIOUS
<1> DEFINE recs == OnFile(asker.known)
<1>o. /\ asker.pc # "idle" => asker.known \in 0 .. Len(behFile) /\ loaded <= asker.known + 1
      /\ Answers(asker, mBehav, recs, mGpsRetLst)
  BY DEF Reached
<1>t. /\ mBehav \in [Cells -> Seq(Kept)] /\ saver \in SaveState /\ asker \in AskState
      /\ asker.vecCate \in [1 .. 4 -> Seq(Cand)]
      /\ behFile \in Seq(Trips) /\ loaded \in 0 .. Len(behFile) + 1
  BY DEF Types, Full, AskState, Sourced
<1>a. asker.pc # "idle" => asker.first \in Real
  BY DEF Sourced, AskedFrom
<1>f. ASSUME UNCHANGED <<behFile, loaded>>, asker'.known = asker.known
      PROVE  OnFile(asker.known)' = recs
  BY <1>f DEF OnFile
<1> HIDE DEF recs
<1>h. ASSUME UNCHANGED <<behFile, loaded>>, asker'.known = asker.known, asker.pc # "idle",
             Answers(asker', mBehav', recs, mGpsRetLst')
      PROVE  Reached'
  BY <1>f, <1>o, <1>h DEF Reached
<1>u. ASSUME UNCHANGED <<behFile, loaded, asker>>, Answers(asker, mBehav', recs, mGpsRetLst')
      PROVE  Reached'
  BY <1>f, <1>o, <1>u DEF Reached
<1>1. CASE Restart
  <2>1. asker'.pc = "idle"
    BY <1>1 DEF Restart, AskerIdle
  <2> QED
    BY <2>1 DEF Reached, Answers
<1>2. ASSUME NEW p \in Stops, NEW now \in Clocks, FirstFix(p, now) PROVE Reached'
  <2>1. UNCHANGED <<behFile, loaded, asker, mBehav, mGpsRetLst>>
    BY <1>2 DEF FirstFix, disk
  <2> QED
    BY <1>o, <1>u, <2>1
<1>3. ASSUME NEW p \in Stops, NEW time \in Arrivals, LastFix(p, time) PROVE Reached'
  <2>1. UNCHANGED <<behFile, loaded, asker, mBehav, mGpsRetLst>>
    BY <1>3 DEF LastFix, disk, bound
  <2> QED
    BY <1>o, <1>u, <2>1
<1>4. CASE SaveCount
  <2>1. UNCHANGED <<behFile, loaded, asker, mBehav, mGpsRetLst>>
    BY <1>4 DEF SaveCount, disk, bound
  <2> QED
    BY <1>o, <1>u, <2>1
<1>5. CASE SavePut
  <2> DEFINE x == DrawersOf(saver.rec)[saver.k]
  <2>1. /\ saver.pc = "put" /\ UNCHANGED <<behFile, loaded, asker, mGpsRetLst>>
        /\ mBehav' = [mBehav EXCEPT ![x] = putInDrawer(mBehav[x], saver.rec)]
    BY <1>5 DEF SavePut, disk, bound
  <2>2. saver.rec \in Real /\ saver.rec \in Trips /\ saver.k \in 1 .. 4
    BY <1>t, <2>1 DEF Sourced, SaveState
  <2>3. x \in Cells
    BY <2>2, DrawerIn
  <2> HIDE DEF x
  <2>4. Answers(asker, mBehav', recs, mGpsRetLst)
    BY <1>a, <1>o, <1>t, <2>1, <2>2, <2>3, AnswersPut
  <2> QED
    BY <1>u, <2>1, <2>4
<1>6. CASE SaveWrite
  <2>1. /\ UNCHANGED <<loaded, asker, mBehav, mGpsRetLst>>
        /\ behFile' = Append(behFile, saver.rec)
    BY <1>6 DEF SaveWrite, bound
  <2>2. Len(behFile') = Len(behFile) + 1 /\ Len(behFile) \in Nat
    BY <1>t, <2>1
  <2>3. CASE asker.pc = "idle"
    BY <2>1, <2>3 DEF Reached, Answers
  <2>4. CASE asker.pc # "idle"
    <3> DEFINE n == asker.known
    <3>1. n \in 0 .. Len(behFile) /\ loaded <= n + 1
      BY <1>o, <2>4
    <3> HIDE DEF n
    <3>2. n \in 0 .. Len(behFile')
      BY <2>2, <3>1
    <3>3. \A j \in 1 .. n : behFile'[j] = behFile[j]
      BY <1>t, <2>1, <3>1
    <3>4. OnFile(asker.known)' = recs
      BY <2>1, <3>3 DEF OnFile, n, recs
    <3>5. asker'.known \in 0 .. Len(behFile') /\ loaded' <= asker'.known + 1
      BY <2>1, <3>1, <3>2 DEF n
    <3> QED
      BY <1>o, <2>1, <3>4, <3>5 DEF Reached
  <2> QED
    BY <2>3, <2>4
<1>7. ASSUME NEW text \in Messages, NEW now \in Clocks, predictDestinationAtStart(text, now)
      PROVE  Reached'
  <2>1. /\ UNCHANGED <<behFile, loaded>>
        /\ asker' = [AskerIdle EXCEPT !.pc = "read", !.text = text,
                                      !.first = mFirstGPS', !.known = Len(behFile)]
    BY <1>7 DEF predictDestinationAtStart, disk
  <2>2. asker'.pc = "read" /\ asker'.k = 1 /\ asker'.known = Len(behFile)
    BY <2>1 DEF AskerIdle
  <2>3. asker'.known \in 0 .. Len(behFile') /\ loaded' <= asker'.known + 1
    BY <1>t, <2>1, <2>2
  <2>4. \A i \in 1 .. 4 : ~(i < asker'.k)
    BY <2>2
  <2>5. Answers(asker', mBehav', OnFile(asker.known)', mGpsRetLst')
    BY <2>2, <2>4 DEF Answers
  <2> QED
    BY <2>3, <2>5 DEF Reached
<1>8. CASE ReadDrawer
  <2> DEFINE c == DrawersOf(mFirstGPS)[asker.k]
  <2>1. /\ asker.pc = "read" /\ asker.k \in 1 .. 4
        /\ UNCHANGED <<behFile, loaded, mBehav, mGpsRetLst>>
    BY <1>8, <1>t DEF ReadDrawer, disk, bound, AskState
  <2>2. mFirstGPS = asker.first /\ asker.first \in Real
    BY <1>a, <2>1 DEF Sourced
  <2>3. PICK date_d \in ArrivalDates(mFirstGPS.date) :
          asker' = [asker EXCEPT
             !.vecCate[asker.k] = getDestRateFromDraw(mBehav[c], mFirstGPS, date_d),
             !.k = IF asker.k < 4 THEN @ + 1 ELSE 1,
             !.pc = IF asker.k < 4 THEN @ ELSE "rate"]
    BY <1>8, Zenon DEF ReadDrawer
  <2> DEFINE cands == getDestRateFromDraw(mBehav[c], mFirstGPS, date_d)
  <2>4. asker.known \in 0 .. Len(behFile) /\ loaded <= asker.known + 1
    BY <1>o, <2>1
  <2>5. Served(mBehav, recs, asker.first, asker.k, CodesIn(cands))
    BY <2>1, <2>2, <2>4, ServedRead DEF recs
  <2> HIDE DEF cands, c
  <2>6. /\ asker'.vecCate = [asker.vecCate EXCEPT ![asker.k] = cands]
        /\ asker'.pc = (IF asker.k < 4 THEN "read" ELSE "rate")
        /\ asker'.k = (IF asker.k < 4 THEN asker.k + 1 ELSE 1)
        /\ asker'.first = asker.first /\ asker'.known = asker.known
    <3>1. asker' = [asker EXCEPT
             !.vecCate[asker.k] = cands, !.k = IF asker.k < 4 THEN @ + 1 ELSE 1,
             !.pc = IF asker.k < 4 THEN @ ELSE "rate"]
      BY <2>3 DEF cands
    <3> QED
      BY <1>t, <2>1, <3>1 DEF AskState
  <2>7. ASSUME NEW i \in 1 .. 4, asker'.pc = "read" => i < asker'.k
        PROVE  Served(mBehav, recs, asker.first, i, CodesIn(asker'.vecCate[i]))
    <3>1. asker'.vecCate[i] = IF i = asker.k THEN cands ELSE asker.vecCate[i]
      BY <1>t, <2>6
    <3>2. i = asker.k \/ i < asker.k
      BY <2>1, <2>6, <2>7
    <3>3. CASE i = asker.k
      BY <2>5, <3>1, <3>3
    <3>4. CASE i # asker.k
      <4>1. i < asker.k
        BY <3>2, <3>4
      <4>2. Served(mBehav, recs, asker.first, i, CodesIn(asker.vecCate[i]))
        BY <1>o, <2>1, <4>1 DEF Answers
      <4> QED
        BY <3>1, <3>4, <4>2
    <3> QED
      BY <3>3, <3>4
  <2>8. asker'.pc # "done"
    BY <2>6
  <2>9. Answers(asker', mBehav', recs, mGpsRetLst')
    BY <2>1, <2>6, <2>7, <2>8 DEF Answers
  <2> QED
    BY <1>h, <2>1, <2>6, <2>9
<1>9. CASE Rate
  <2>1. /\ asker.pc = "rate" /\ mGpsRetLst' \in Ranked(Listed(Weighted(asker.vecCate)))
        /\ asker' = [asker EXCEPT !.pc = "done", !.vecCate = NoCandidates,
                                  !.text = NoText, !.total = endCount]
        /\ UNCHANGED <<behFile, loaded, mBehav>>
    BY <1>9 DEF Rate, disk, bound
  <2>2. /\ asker'.pc = "done" /\ asker'.first = asker.first /\ asker'.known = asker.known
    BY <1>t, <2>1 DEF AskState
  <2>3. \A i \in 1 .. 4 : Served(mBehav, recs, asker.first, i, CodesIn(asker.vecCate[i]))
    BY <1>o, <2>1 DEF Answers
  <2>4. Len(mGpsRetLst') # 3 =>
          \A i \in 1 .. 4 : Served(mBehav, recs, asker.first, i, Given(mGpsRetLst'))
    BY <1>t, <2>1, <2>3, ServedListed
  <2>5. Answers(asker', mBehav', recs, mGpsRetLst')
    BY <2>1, <2>2, <2>4 DEF Answers
  <2> QED
    BY <1>h, <2>1, <2>2, <2>5
<1>10. CASE printResult
  <2> DEFINE cells == DrawersOf(mFirstGPS)
             cate(date_d) == [k \in 1 .. 4 |->
                               getDestRateFromDraw(mBehav[cells[k]], mFirstGPS, date_d)]
             n == Len(behFile)
  <2>1. /\ asker' = [AskerIdle EXCEPT !.pc = "done", !.first = mFirstGPS,
                                      !.known = n, !.total = endCount]
        /\ UNCHANGED <<behFile, loaded, mBehav>>
    BY <1>10 DEF printResult, disk
  <2>2. asker'.pc = "done" /\ asker'.first = mFirstGPS /\ asker'.known = n
    BY <2>1 DEF AskerIdle
  <2>3. mFirstGPS \in Real /\ mFirstGPS.date \in Date
    <3>1. ClockOf(mFirstGPS) \in Clocks /\ mFirstGPS \in Trips
      BY <1>10, ClockRead DEF printResult, Types
    <3> QED
      BY <3>1, ClocksAre DEF ClockOf, Real
  <2>4. PICK date_d \in ArrivalDates(mFirstGPS.date) :
          \E list \in Ranked(Listed(Weighted(cate(date_d)))) :
            mGpsRetLst' = [k \in 1 .. Len(list) |->
               [list[k] EXCEPT !.pos = getLatLonByCode(mGpsPosVec, list[k].code)]]
    BY <1>10 DEF printResult
  <2>5. PICK list \in Ranked(Listed(Weighted(cate(date_d)))) :
          mGpsRetLst' = [k \in 1 .. Len(list) |->
               [list[k] EXCEPT !.pos = getLatLonByCode(mGpsPosVec, list[k].code)]]
    BY <2>4
  <2>6. date_d \in Nat
    BY <2>3, ArrivalDatesType
  <2>7. n \in 0 .. Len(behFile) /\ n \in Nat /\ loaded <= n + 1
    BY <1>t
  <2>8. ASSUME NEW k \in 1 .. 4
        PROVE  /\ getDestRateFromDraw(mBehav[cells[k]], mFirstGPS, date_d) \in Seq(Cand)
               /\ Served(mBehav, OnFile(n), mFirstGPS, k,
                         CodesIn(getDestRateFromDraw(mBehav[cells[k]], mFirstGPS, date_d)))
    <3>1. Served(mBehav, OnFile(n), mFirstGPS, k,
                 CodesIn(getDestRateFromDraw(mBehav[cells[k]], mFirstGPS, date_d)))
      <4> HIDE DEF n
      <4> QED
        BY <2>3, <2>7, ServedRead
    <3>2. cells[k] \in Cells
      BY <2>3, DrawerIn
    <3> HIDE DEF cells
    <3>3. mBehav[cells[k]] \in Seq(Kept)
      BY <1>t, <3>2
    <3>4. getDestRateFromDraw(mBehav[cells[k]], mFirstGPS, date_d) \in Seq(Cand)
      BY <2>6, <3>3, DestRateCands
    <3> QED
      BY <3>1, <3>4
  <2>9. /\ cate(date_d) \in [1 .. 4 -> Seq(Cand)]
        /\ \A k \in 1 .. 4 : Served(mBehav, OnFile(n), mFirstGPS, k, CodesIn(cate(date_d)[k]))
    <3> HIDE DEF cells, n
    <3> QED
      BY <2>8
  <2> HIDE DEF cate
  <2>10. list \in Seq(Result)
    BY <2>9, WeightedShares, ListedType, RankedType
  <2>11. Len(list) # 3 =>
           \A i \in 1 .. 4 : Served(mBehav, OnFile(n), mFirstGPS, i, Given(list))
    <3> HIDE DEF n
    <3> QED
      BY <2>9, ServedListed
  <2>12. Len(mGpsRetLst') = Len(list) /\ Given(mGpsRetLst') = Given(list)
    <3>1. Len(list) \in Nat /\ \A k \in 1 .. Len(list) : list[k] \in Result
      BY <2>10
    <3>2. /\ Len(mGpsRetLst') = Len(list)
          /\ \A k \in 1 .. Len(list) :
               mGpsRetLst'[k] = [list[k] EXCEPT !.pos = getLatLonByCode(mGpsPosVec, list[k].code)]
      BY <2>5, <3>1
    <3>3. \A k \in 1 .. Len(list) : mGpsRetLst'[k].code = list[k].code
      BY <3>1, <3>2 DEF Result
    <3> QED
      BY <3>2, <3>3 DEF Given
  <2>13. OnFile(asker.known)' = OnFile(n)
    BY <2>1, <2>2 DEF OnFile
  <2> HIDE DEF n
  <2>14. Answers(asker', mBehav', OnFile(asker.known)', mGpsRetLst')
    BY <2>1, <2>2, <2>11, <2>12, <2>13 DEF Answers
  <2>15. asker'.known \in 0 .. Len(behFile') /\ loaded' <= asker'.known + 1
    BY <2>1, <2>2, <2>7
  <2> QED
    BY <2>14, <2>15 DEF Reached
<1>11. CASE UNCHANGED vars
  <2>1. UNCHANGED <<behFile, loaded, asker, mBehav, mGpsRetLst>>
    BY <1>11 DEF vars, disk, bound
  <2> QED
    BY <1>o, <1>u, <2>1
<1> QED
  BY <1>1, <1>2, <1>3, <1>4, <1>5, <1>6, <1>7, <1>8, <1>9, <1>10, <1>11 DEF Next, Save

\* An answer short of three destinations has every destination that a record
\* on file when it began speaks for, unless a drawer of the trip was crowded:
\* with trips put in the drawers while they are read, and after a load.
THEOREM MissedForSpace == Spec => []MissesOnlyForSpace
PROOF
<1>1. Types /\ Sourced /\ Reached => MissesOnlyForSpace
  <2> SUFFICES ASSUME Types, Sourced, Reached, asker.pc = "done", Len(mGpsRetLst) < 3,
                      \A c \in ToSet(DrawersOf(asker.first)) :
                        ~(Cardinality({k \in 1 .. Len(mBehav[c]) :
                                         mBehav[c][k].code_s = asker.first.code_s}) > PerDrawer),
                      NEW r \in ToSet(RecordsUpTo(asker.known)),
                      r.code_s = asker.first.code_s, Speaks(r, asker.first)
               PROVE  \E res \in Predicted : res.code = r.code_d
    BY DEF MissesOnlyForSpace
  <2>1. asker.first \in Real
    BY DEF Sourced, AskedFrom
  <2>2. asker.known \in 0 .. Len(behFile) /\ loaded <= asker.known + 1
    BY DEF Reached
  <2>3. r \in OnFile(asker.known) /\ r \in Real \cup {NoBehavior}
    BY <2>2, OnFileAre
  <2>4. PICK i \in 1 .. 4 : DrawersOf(asker.first)[i] \in ToSet(DrawersOf(r))
    BY <2>1, <2>3, SpeakingShares
  <2>5. Len(mGpsRetLst) # 3
    <3> DEFINE n == Len(mGpsRetLst)
    <3>1. n \in Nat /\ n < 3
      BY DEF Types
    <3> HIDE DEF n
    <3>2. n # 3
      BY <3>1
    <3> QED
      BY <3>2 DEF n
  <2>6. Served(mBehav, OnFile(asker.known), asker.first, i, Given(mGpsRetLst))
    BY <2>5 DEF Reached, Answers
  <2> DEFINE c == DrawersOf(asker.first)[i]
  <2>7. c \in ToSet(DrawersOf(asker.first))
    BY <2>1, DrawerIn
  <2>8. ~Crowded(mBehav[c], asker.first.code_s)
    BY <2>7 DEF Crowded, OwnTo
  <2>9. r.code_d \in Wanted(OnFile(asker.known), asker.first, i)
    BY <2>3, <2>4 DEF Wanted
  <2>10. r.code_d \in Given(mGpsRetLst)
    BY <2>6, <2>8, <2>9 DEF Served
  <2> QED
    BY <2>10 DEF Given, Predicted
<1>2. Spec => [](Types /\ Sourced /\ Tallied /\ Reached)
  BY TypesInit, TypesStep, SourcedInit, SourcedStep, TalliedInit, TalliedStep,
     ReachedInit, ReachedStep, PTL DEF Spec
<1> QED
  BY <1>1, <1>2, PTL
=============================================================================
