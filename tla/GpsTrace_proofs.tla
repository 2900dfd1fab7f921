--------------------------- MODULE GpsTrace_proofs ---------------------------
(***************************************************************************)
(* For every size of the grid, every number of starts, trips and faults:    *)
(* the grid is one trace, none is made but by luck, and one fault does not  *)
(* lose the newest.                                                        *)
(***************************************************************************)
EXTENDS GpsTrace, FiniteSetTheorems, WellFoundedInduction, TLAPS

\* A save is at one of its steps, and at those of the kind it is of.
Saver ==
  /\ saver \in [pc : {"idle", "remove", "rows", "columns", "open", "write"},
                row : Row, len : Nat, fresh : BOOLEAN]
  /\ saver.pc = "idle" => ~saver.fresh
  /\ saver.pc \in {"remove", "rows"} => saver.fresh
  /\ saver.pc = "remove" => saver.row = 0
  /\ saver.pc = "rows" => saver.row <= Rows - 2
  /\ saver.pc = "columns" => ~saver.fresh
  /\ saver.pc \in {"columns", "open", "write"} => mCurRow # -1
  /\ saver.pc = "write" => saver.len <= Len(mGpsInfoVec)

\* The saves are numbered from 1, and a file being written has no number.
Counted ==
  /\ saves \in Nat /\ newest \in 0 .. saves /\ faults \in Nat /\ kept \subseteq 1 .. saves
  /\ saver.pc # "idle" => newest < saves
  /\ \A c \in Cell : file[c].id # 0 => file[c].made
  /\ saver.pc = "write" => file[<<saver.row, 0>>].id = 0

\* Files lie in column 0 only.
FirstColumnFiles(f) == \A c \in Cell : f[c].made => c[2] = 0

\* Memory holds at most one trace, of column 0.
OneTrace ==
  \A c, d \in Cell : mGpsData[c] # <<>> /\ mGpsData[d] # <<>> => c = d /\ c[2] = 0

\* Until the row is known the files are those that were loaded.
Loaded == saver.pc = "idle" /\ mCurRow = -1 => mGpsData = loadGPSTrace(file)

\* Without luck there is nothing anywhere.
Luck ==
  lucky \/ /\ \A c \in Cell : ~file[c].made /\ mGpsData[c] = <<>>
           /\ ~mNewTrack /\ mCurRow = -1 /\ saver.pc = "idle"

\* A new save has moved row 0.
Moved == saver.pc \in {"open", "write"} \/ (saver.pc = "rows" /\ saver.row > 0)

\* The newest trace: without a fault it is in row 0, or in row 1 while a new save
\* is at work, and that save moves row 0 and writes row 0; after one fault
\* it is somewhere while no new save is at work.
InFront ==
  newest \in kept /\ faults = 0 /\ ~(saver.fresh /\ Moved) => file[<<0, 0>>].id = newest
Behind ==
  newest \in kept /\ faults = 0 /\ saver.fresh =>
    /\ Moved => file[<<1, 0>>].id = newest
    /\ \A c \in Cell : mGpsData[c] # <<>> <=> c = <<0, 0>>
    /\ mCurRow \in {-1, 0}
    /\ saver.pc = "write" => saver.row = 0
Somewhere ==
  newest \in kept /\ faults = 1 /\ ~saver.fresh => \E c \in Cell : file[c].id = newest

TraceInv ==
  /\ TypeOK /\ Saver /\ Counted /\ FirstColumnFiles(file) /\ OneTrace /\ Loaded /\ Luck
  /\ InFront /\ Behind /\ Somewhere

-----------------------------------------------------------------------------
(* Least numbers and iteration.                                            *)

\* Every set of naturals has a least member.
LEMMA LeastExists ==
  ASSUME NEW T \in SUBSET Nat, T # {}
  PROVE  \E m \in T : \A k \in T : m <= k
PROOF
<1> DEFINE R == {ss \in Nat \X Nat : ss[1] < ss[2]}
<1>1. OpToRel(<, Nat) = R
  BY Zenon DEF OpToRel
<1>2. IsWellFoundedOn(R, Nat)
  BY <1>1, NatLessThanWellFounded, Zenon
<1>3. \A a, b \in Nat : a < b => <<a, b>> \in R
  OBVIOUS
<1> HIDE DEF R
<1>4. PICK m \in T : \A k \in T : ~(<<k, m>> \in R)
  BY <1>2, WFMin
<1>5. ASSUME NEW k \in T PROVE m <= k
  <2>1. m \in Nat /\ k \in Nat
    OBVIOUS
  <2>2. ~(k < m)
    BY <1>3, <1>4, <2>1, Zenon
  <2> QED
    BY <2>1, <2>2
<1> QED
  BY <1>5

\* Min is the member below the others.
LEMMA MinIs ==
  ASSUME NEW T \in SUBSET Int, NEW m \in T, \A k \in T : m <= k
  PROVE  Min(T) = m
PROOF
<1>1. \A x \in T : (\A y \in T : x =< y) => x = m
  OBVIOUS
<1> QED
  BY <1>1 DEF Min

\* Min of a nonempty set of naturals is in it.
LEMMA MinIn ==
  ASSUME NEW T \in SUBSET Nat, T # {}
  PROVE  Min(T) \in T
PROOF
<1>1. PICK m \in T : \A k \in T : m <= k
  BY LeastExists
<1> QED
  BY <1>1, MinIs

\* g goes from s0 in steps from lo to hi, and stays in S.
Iterates(g, S, lo, hi, s0, step) ==
  /\ g \in [lo .. hi -> S]
  /\ \A j \in lo .. hi : g[j] = IF j = lo THEN s0 ELSE step[<<g[j - 1], j - 1>>]

\* A state of S and a step that stays in S can be iterated.
LEMMA Iteration ==
  ASSUME NEW S, NEW lo \in Int, NEW hi \in Int, NEW s0 \in S,
         NEW step \in [S \X (lo .. hi - 1) -> S]
  PROVE  \E g : Iterates(g, S, lo, hi, s0, step)
PROOF
<1> DEFINE Run(g, n) == \A j \in lo .. n :
                          g[j] = IF j = lo THEN s0 ELSE step[<<g[j - 1], j - 1>>]
           Reached(n) == \E g \in [lo .. n -> S] : Run(g, n)
           T == {k \in Nat : lo + k <= hi /\ ~Reached(lo + k)}
<1>1. T = {}
  <2> SUFFICES ASSUME T # {} PROVE FALSE
    OBVIOUS
  <2>1. PICK m \in T : \A k \in T : m <= k
    BY LeastExists
  <2>2. CASE m = 0
    <3> DEFINE h == [j \in lo .. lo |-> s0]
    <3>1. h \in [lo .. lo + 0 -> S] /\ Run(h, lo + 0)
      OBVIOUS
    <3> QED
      BY <2>2, <3>1
  <2>3. CASE m # 0
    <3> DEFINE top == lo + m
    <3>1. Reached(top - 1)
      <4> HIDE DEF Reached
      <4>1. m - 1 \in Nat /\ lo + (m - 1) = top - 1 /\ lo + (m - 1) <= hi
        BY <2>1, <2>3
      <4>2. m - 1 \notin T
        BY <2>1, <4>1
      <4> QED
        BY <4>1, <4>2
    <3>2. PICK g \in [lo .. top - 1 -> S] : Run(g, top - 1)
      BY <3>1
    <3> DEFINE v == step[<<g[top - 1], top - 1>>]
               h == [j \in lo .. top |-> IF j = top THEN v ELSE g[j]]
    <3>3. top \in Int /\ lo <= top - 1 /\ top <= hi
      BY <2>1, <2>3
    <3>4. v \in S
      <4>1. g[top - 1] \in S /\ top - 1 \in lo .. hi - 1
        BY <3>2, <3>3
      <4> QED
        BY <4>1
    <3>5. h \in [lo .. top -> S]
      BY <3>2, <3>3, <3>4
    <3>6. Run(h, top)
      <4> SUFFICES ASSUME NEW j \in lo .. top
                   PROVE  h[j] = IF j = lo THEN s0 ELSE step[<<h[j - 1], j - 1>>]
        OBVIOUS
      <4>1. CASE j = top
        <5>1. top - 1 \in lo .. top /\ top - 1 # top /\ j # lo
          BY <3>3, <4>1
        <5>2. h[j] = v /\ h[j - 1] = g[top - 1]
          BY <4>1, <5>1
        <5> QED
          BY <4>1, <5>1, <5>2
      <4>2. CASE j # top
        <5>1. j \in lo .. top - 1 /\ h[j] = g[j]
          BY <3>3, <4>2
        <5>2. j # lo => j - 1 \in lo .. top /\ j - 1 # top /\ h[j - 1] = g[j - 1]
          BY <3>3, <5>1
        <5>3. g[j] = IF j = lo THEN s0 ELSE step[<<g[j - 1], j - 1>>]
          BY <3>2, <3>3, <5>1
        <5> QED
          BY <5>1, <5>2, <5>3
      <4> QED
        BY <4>1, <4>2
    <3> QED
      BY <2>1, <3>5, <3>6
  <2> QED
    BY <2>2, <2>3
<1>2. CASE lo <= hi
  <2>1. Reached(hi)
    <3> HIDE DEF Reached
    <3>1. hi - lo \in Nat /\ lo + (hi - lo) = hi
      BY <1>2
    <3> DEFINE n == hi - lo
    <3>2. n \notin T
      BY <1>1, Zenon
    <3> QED
      BY <3>1, <3>2
  <2> QED
    BY <2>1 DEF Iterates
<1>3. CASE ~(lo <= hi)
  <2>1. lo .. hi = {}
    BY <1>3
  <2> DEFINE g == [j \in lo .. hi |-> s0]
  <2>2. g \in [lo .. hi -> S]
    BY <2>1
  <2> QED
    BY <2>1, <2>2 DEF Iterates
<1> QED
  BY <1>2, <1>3

-----------------------------------------------------------------------------
(* The load.                                                               *)

\* The first file of column 0.
IsFirst(f, c) == f[c].made /\ \A r \in 0 .. c[1] - 1 : ~f[<<r, 0>>].made

\* While files lie in column 0 only, the load goes on in column 1 after the first
\* row that has one.
LEMMA StartColumnIs ==
  ASSUME NEW f, FirstColumnFiles(f)
  PROVE  \A i \in 0 .. Rows :
           StartColumn(f)[i] = IF \E r \in 0 .. i - 1 : f[<<r, 0>>].made THEN 1 ELSE 0
PROOF
<1> DEFINE Seen(i) == \E r \in 0 .. i - 1 : f[<<r, 0>>].made
           Stops(i, s) == {j \in s .. Cols : j < Cols => ~f[<<i - 1, j>>].made}
           Equation(g) == g = [i \in 0 .. Rows |->
                                 IF i = 0 THEN 0 ELSE Min(Stops(i, g[i - 1]))]
           h == [i \in 0 .. Rows |-> IF Seen(i) THEN 1 ELSE 0]
           start == CHOOSE g : Equation(g)
<1>1. Rows \in Nat /\ Cols \in Nat /\ 2 <= Cols
  BY TraceAssumption
<1>0. \A i \in 0 .. Rows : h[i] = IF Seen(i) THEN 1 ELSE 0
  OBVIOUS
<1>2. ASSUME NEW i \in 1 .. Rows
      PROVE  h[i] = Min(Stops(i, h[i - 1]))
  <2>1. i - 1 \in 0 .. Rows /\ i - 1 \in Row /\ <<i - 1, 1>> \in Cell /\ i \in 0 .. Rows
    BY <1>1 DEF Row, Col, Cell
  <2>2. ~f[<<i - 1, 1>>].made
    BY <2>1 DEF FirstColumnFiles
  <2>3. Seen(i) <=> Seen(i - 1) \/ f[<<i - 1, 0>>].made
    <3>1. 0 .. i - 1 = (0 .. (i - 1) - 1) \cup {i - 1}
      BY <2>1
    <3> QED
      BY <3>1
  <2>4. CASE Seen(i - 1)
    <3>1. h[i] = 1 /\ h[i - 1] = 1
      <4> HIDE DEF h, Seen
      <4> QED
        BY <1>0, <2>1, <2>3, <2>4
    <3>2. 1 \in Stops(i, 1)
      BY <1>1, <2>2
    <3>3. Stops(i, 1) \in SUBSET Int /\ \A k \in Stops(i, 1) : 1 <= k
      BY <3>2, <1>1
    <3>4. Min(Stops(i, 1)) = 1
      <4> HIDE DEF Stops
      <4> QED
        BY <3>2, <3>3, MinIs
    <3> QED
      BY <3>1, <3>4
  <2>5. CASE ~Seen(i - 1) /\ f[<<i - 1, 0>>].made
    <3>1. h[i] = 1 /\ h[i - 1] = 0
      <4> HIDE DEF h, Seen
      <4> QED
        BY <1>0, <2>1, <2>3, <2>5
    <3>2. 1 \in Stops(i, 0) /\ 0 \notin Stops(i, 0)
      BY <1>1, <2>2, <2>5
    <3>3. Stops(i, 0) \in SUBSET Int /\ \A k \in Stops(i, 0) : 1 <= k
      BY <3>2, <1>1
    <3>4. Min(Stops(i, 0)) = 1
      <4> HIDE DEF Stops
      <4> QED
        BY <3>2, <3>3, MinIs
    <3> QED
      BY <3>1, <3>4
  <2>6. CASE ~Seen(i - 1) /\ ~f[<<i - 1, 0>>].made
    <3>1. h[i] = 0 /\ h[i - 1] = 0
      <4> HIDE DEF h, Seen
      <4> QED
        BY <1>0, <2>1, <2>3, <2>6
    <3>2. 0 \in Stops(i, 0)
      BY <1>1, <2>6
    <3>3. Stops(i, 0) \in SUBSET Int /\ \A k \in Stops(i, 0) : 0 <= k
      BY <3>2, <1>1
    <3>4. Min(Stops(i, 0)) = 0
      <4> HIDE DEF Stops
      <4> QED
        BY <3>2, <3>3, MinIs
    <3> QED
      BY <3>1, <3>4
  <2> QED
    BY <2>4, <2>5, <2>6
<1>3. Equation(h)
  <2>1. h[0] = 0 /\ 0 \in 0 .. Rows
    <3>1. 0 \in 0 .. Rows /\ ~Seen(0)
      BY <1>1
    <3> HIDE DEF h, Seen
    <3> QED
      BY <1>0, <3>1
  <2>2. \A i \in 0 .. Rows : h[i] = IF i = 0 THEN 0 ELSE Min(Stops(i, h[i - 1]))
    <3> HIDE DEF h, Stops
    <3> QED
      BY <1>1, <1>2, <2>1
  <2>3. h = [i \in 0 .. Rows |-> h[i]]
    OBVIOUS
  <2> HIDE DEF h, Stops
  <2> QED
    BY <2>2, <2>3
<1>4. Equation(start)
  <2> HIDE DEF h, Equation
  <2> QED
    BY <1>3, Zenon
<1>5. StartColumn(f) = start
  BY DEF StartColumn
<1>6. ASSUME {i \in 0 .. Rows : start[i] # h[i]} # {}
      PROVE  FALSE
  <2> HIDE DEF start, h, Stops
  <2> DEFINE T == {i \in 0 .. Rows : start[i] # h[i]}
  <2>1. PICK m \in T : \A k \in T : m <= k
    <3>1. T \in SUBSET Nat
      OBVIOUS
    <3> QED
      BY <1>6, <3>1, LeastExists
  <2>2. start[m] = IF m = 0 THEN 0 ELSE Min(Stops(m, start[m - 1]))
    BY <1>4
  <2>3. h[m] = IF m = 0 THEN 0 ELSE Min(Stops(m, h[m - 1]))
    BY <1>3
  <2>4. m # 0
    BY <2>2, <2>3
  <2>5. m - 1 \in 0 .. Rows /\ m - 1 \notin T
    BY <2>1, <2>4, <1>1
  <2>6. start[m - 1] = h[m - 1]
    BY <2>5
  <2> QED
    BY <2>2, <2>3, <2>6
<1> HIDE DEF h, start, Seen, Equation, Stops
<1> QED
  <2>1. \A i \in 0 .. Rows : start[i] = IF Seen(i) THEN 1 ELSE 0
    BY <1>6, <1>0
  <2> QED
    BY <1>5, <2>1 DEF Seen

\* It reads the first file of column 0 and no other.
LEMMA CellsReadAre ==
  ASSUME NEW f, FirstColumnFiles(f)
  PROVE  CellsRead(f) = {c \in Cell : IsFirst(f, c)}
PROOF
<1> DEFINE Seen(i) == \E r \in 0 .. i - 1 : f[<<r, 0>>].made
<1> SUFFICES ASSUME NEW c \in Cell
             PROVE  c \in CellsRead(f) <=> IsFirst(f, c)
  BY Zenon DEF CellsRead
<1>1. /\ c = <<c[1], c[2]>> /\ c[1] \in 0 .. Rows /\ c[2] \in Nat /\ c[2] < Cols
      /\ c[1] \in Row
  BY TraceAssumption DEF Cell, Row, Col
<1>2. c \in CellsRead(f) <=> /\ \A j \in StartColumn(f)[c[1]] .. c[2] : f[<<c[1], j>>].made
                             /\ ~(c[2] < StartColumn(f)[c[1]])
  BY Zenon DEF CellsRead
<1>3. StartColumn(f)[c[1]] = IF Seen(c[1]) THEN 1 ELSE 0
  BY <1>1, StartColumnIs
<1>4. f[c].made => c[2] = 0
  BY DEF FirstColumnFiles
<1>5. CASE Seen(c[1])
  <2>1. ~IsFirst(f, c)
    BY <1>5 DEF IsFirst
  <2>2. c \in CellsRead(f) => c[2] >= 1 /\ f[<<c[1], c[2]>>].made
    BY <1>1, <1>2, <1>3, <1>5
  <2> QED
    BY <1>1, <1>4, <2>1, <2>2
<1>6. CASE ~Seen(c[1])
  <2>1. c \in CellsRead(f) <=> \A j \in 0 .. c[2] : f[<<c[1], j>>].made
    BY <1>1, <1>2, <1>3, <1>6
  <2>2. IsFirst(f, c) <=> f[c].made
    BY <1>6 DEF IsFirst
  <2>3. c \in CellsRead(f) => f[c].made
    BY <1>1, <2>1
  <2>4. f[c].made => c \in CellsRead(f)
    BY <1>1, <1>4, <2>1
  <2> QED
    BY <2>2, <2>3, <2>4
<1> QED
  BY <1>5, <1>6

\* A cell read holds its file and the zeroed record, the others hold nothing.
LEMMA LoadIs ==
  ASSUME NEW f, FirstColumnFiles(f), NEW c \in Cell
  PROVE  loadGPSTrace(f)[c] = IF IsFirst(f, c) THEN Append(f[c].recs, ZeroInfo) ELSE <<>>
BY CellsReadAre DEF loadGPSTrace

\* There is at most one first file, and it is in column 0.
LEMMA FirstIsOne ==
  ASSUME NEW f, FirstColumnFiles(f), NEW c \in Cell, NEW d \in Cell,
         IsFirst(f, c), IsFirst(f, d)
  PROVE  c = d /\ c[2] = 0
PROOF
<1>1. c[2] = 0 /\ d[2] = 0
  BY DEF IsFirst, FirstColumnFiles
<1>2. /\ c = <<c[1], 0>> /\ d = <<d[1], 0>> /\ c[1] \in Nat /\ d[1] \in Nat
  BY <1>1 DEF Cell, Row, Col
<1>3. ~(c[1] < d[1])
  BY <1>2 DEF IsFirst
<1>4. ~(d[1] < c[1])
  BY <1>2 DEF IsFirst
<1> QED
  BY <1>1, <1>2, <1>3, <1>4

-----------------------------------------------------------------------------
(* The scan of a trace and the loop over the columns.                      *)

\* A scan ends at an index.
LEMMA ScanResult ==
  ASSUME NEW trace \in Seq(GPSInfo), NEW idx \in Nat, NEW p \in Int
  PROVE  /\ Scan(trace, idx, p).hit \in BOOLEAN
         /\ Scan(trace, idx, p).idx \in Nat
PROOF
<1> DEFINE diff(i) == Distance(trace[i + 1].pos, p)
           stops == {i \in idx + 1 .. Len(trace) - 1 : diff(i) < diff(idx) \/ diff(i) > MaxDiff}
           far == [hit |-> FALSE, idx |-> 0]
           near == [hit |-> TRUE, idx |-> Min(stops)]
           same == [hit |-> FALSE, idx |-> idx]
<1>1. Scan(trace, idx, p) \in {same, near, far} /\ (stops = {} => Scan(trace, idx, p) = same)
  BY DEF Scan
<1>2. stops # {} => Min(stops) \in Nat
  <2>1. stops \in SUBSET Nat
    OBVIOUS
  <2> HIDE DEF stops
  <2> QED
    BY <2>1, MinIn
<1> HIDE DEF stops
<1>3. CASE Scan(trace, idx, p) = same
  BY <1>3
<1>4. CASE Scan(trace, idx, p) = far
  BY <1>4
<1>5. CASE Scan(trace, idx, p) = near /\ stops # {}
  BY <1>2, <1>5
<1> QED
  BY <1>1, <1>3, <1>4, <1>5

\* Where compareTrace may stand between two columns.
Stand == [done : BOOLEAN, idx : Nat, col : Col \cup {-1}, end : Int]

\* A column leads from such a place to such a place.
LEMMA ColumnStand ==
  ASSUME mGpsData \in [Cell -> Seq(GPSInfo)], mGpsInfo \in GPSInfo,
         mCurRow \in Row, mCurCol \in Col \cup {-1},
         NEW a \in Stand, NEW j \in FirstColumn .. Cols - 1
  PROVE  Column(a, j) \in Stand
PROOF
<1> DEFINE k == IF mCurCol = -1 THEN j ELSE mCurCol
           trace == mGpsData[<<mCurRow, k>>]
           s == Scan(trace, a.idx, mGpsInfo.pos)
           over == [a EXCEPT !.done = TRUE, !.end = j]
           on == [done |-> s.hit, idx |-> s.idx, col |-> IF s.hit THEN j ELSE a.col,
                  end |-> j + 1]
<1>1. j \in Col
  BY TraceAssumption DEF FirstColumn, Col
<1>2. <<mCurRow, k>> \in Cell
  BY <1>1 DEF Cell
<1>3. trace \in Seq(GPSInfo) /\ mGpsInfo.pos \in Int /\ a.idx \in Nat
  BY <1>2 DEF Stand, GPSInfo
<1>4. s.hit \in BOOLEAN /\ s.idx \in Nat
  <2> HIDE DEF trace
  <2> QED
    BY <1>3, ScanResult
<1>5. on \in Stand
  <2> HIDE DEF s
  <2> QED
    BY <1>1, <1>4 DEF Stand, Col
<1>6. over \in Stand
  <2>1. j \in Int
    BY <1>1 DEF Col
  <2> QED
    BY <2>1 DEF Stand
<1>7. Column(a, j) \in {a, over, on}
  BY DEF Column
<1> HIDE DEF over, on
<1> QED
  BY <1>5, <1>6, <1>7

\* The loop over the columns ends in such a place.
LEMMA ColumnsStand ==
  ASSUME mGpsData \in [Cell -> Seq(GPSInfo)], mGpsInfo \in GPSInfo,
         mCurRow \in Row, mCurCol \in Col \cup {-1}, mCurIdx \in Nat
  PROVE  Columns \in Stand
PROOF
<1> DEFINE begin == [done |-> FALSE, idx |-> mCurIdx, col |-> mCurCol, end |-> FirstColumn]
           Equation(g) == g = [j \in FirstColumn .. Cols |->
                                 IF j = FirstColumn THEN begin ELSE Column(g[j - 1], j - 1)]
           at == CHOOSE g : Equation(g)
           step == [x \in Stand \X (FirstColumn .. Cols - 1) |-> Column(x[1], x[2])]
<1>1. FirstColumn \in Nat /\ Cols \in Nat /\ FirstColumn <= Cols
  BY TraceAssumption DEF FirstColumn, Col
<1>2. begin \in Stand
  BY <1>1 DEF Stand
<1>3. step \in [Stand \X (FirstColumn .. Cols - 1) -> Stand]
  BY ColumnStand
<1>4. PICK g : Iterates(g, Stand, FirstColumn, Cols, begin, step)
  <2> HIDE DEF begin, step
  <2>1. FirstColumn \in Int /\ Cols \in Int
    BY <1>1
  <2> QED
    BY <1>2, <1>3, <2>1, Iteration, Zenon
<1>5. Equation(g)
  <2>1. \A j \in FirstColumn .. Cols :
          g[j] = IF j = FirstColumn THEN begin ELSE Column(g[j - 1], j - 1)
    <3> SUFFICES ASSUME NEW j \in FirstColumn .. Cols, j # FirstColumn
                 PROVE  step[<<g[j - 1], j - 1>>] = Column(g[j - 1], j - 1)
      <4> HIDE DEF begin, step
      <4> QED
        BY <1>4 DEF Iterates
    <3>1. j - 1 \in FirstColumn .. Cols - 1 /\ g[j - 1] \in Stand
      BY <1>1, <1>4 DEF Iterates
    <3> QED
      BY <3>1
  <2>2. g = [j \in FirstColumn .. Cols |-> g[j]]
    BY <1>4 DEF Iterates
  <2> HIDE DEF begin
  <2> QED
    BY <2>1, <2>2
<1>6. Equation(at)
  <2> HIDE DEF Equation
  <2> QED
    BY <1>5, Zenon
<1>7. Columns = at[Cols]
  BY DEF Columns
<1>8. ASSUME {j \in FirstColumn .. Cols : at[j] \notin Stand} # {}
      PROVE  FALSE
  <2> HIDE DEF at, begin
  <2> DEFINE T == {j \in FirstColumn .. Cols : at[j] \notin Stand}
  <2>1. PICK m \in T : \A k \in T : m <= k
    <3>1. T \in SUBSET Nat
      BY <1>1
    <3> QED
      BY <1>8, <3>1, LeastExists
  <2>2. at[m] = IF m = FirstColumn THEN begin ELSE Column(at[m - 1], m - 1)
    BY <1>6
  <2>3. m # FirstColumn
    BY <1>2, <2>2
  <2>4. m - 1 \in FirstColumn .. Cols - 1 /\ m - 1 \notin T
    BY <1>1, <2>1, <2>3
  <2>5. at[m - 1] \in Stand
    BY <1>1, <2>4
  <2>6. Column(at[m - 1], m - 1) \in Stand
    BY <2>4, <2>5, ColumnStand
  <2> QED
    BY <2>2, <2>3, <2>6
<1> HIDE DEF at
<1> QED
  BY <1>1, <1>7, <1>8

-----------------------------------------------------------------------------
(* Types.                                                                  *)

\* What the load reads are samples.
LEMMA LoadType ==
  ASSUME NEW f \in [Cell -> File]
  PROVE  loadGPSTrace(f) \in [Cell -> Seq(GPSInfo)]
PROOF
<1>1. ZeroInfo \in GPSInfo
  BY DEF ZeroInfo, GPSInfo
<1>2. ASSUME NEW c \in Cell
      PROVE  Append(f[c].recs, ZeroInfo) \in Seq(GPSInfo)
  <2>1. f[c].recs \in Seq(GPSInfo)
    BY DEF File
  <2> QED
    BY <1>1, <2>1
<1>3. <<>> \in Seq(GPSInfo)
  OBVIOUS
<1> QED
  BY <1>2, <1>3 DEF loadGPSTrace

LEMMA NoFileType == NoFile \in File /\ NoFile.made = FALSE /\ NoFile.id = 0
BY DEF NoFile, File

\* Removing and renaming leave files.
LEMMA RemovedType ==
  ASSUME NEW f \in [Cell -> File], NEW cells
  PROVE  Removed(f, cells) \in [Cell -> File]
BY NoFileType DEF Removed

LEMMA RenamedType ==
  ASSUME NEW f \in [Cell -> File], NEW cells \in SUBSET Cell, NEW d
  PROVE  Renamed(f, cells, d) \in [Cell -> File]
BY NoFileType DEF Renamed

LEMMA RowCellsType == \A i : RowCells(i) \in SUBSET Cell
BY DEF RowCells

\* The row looked up is a row, or what it was.
LEMMA RowFound ==
  ASSUME NEW info
  PROVE  getGPSTraceRow(info) \in Row \cup {mCurRow}
PROOF
<1>1. Starts(info) \in SUBSET Nat /\ Starts(info) \subseteq Row
  BY DEF Starts, Row
<1>2. Starts(info) # {} => Min(Starts(info)) \in Row
  BY <1>1, MinIn, Zenon
<1> QED
  BY <1>2 DEF getGPSTraceRow

\* Init gives every variable its type.
LEMMA TypeInit == Init => TypeOK
PROOF
<1> SUFFICES ASSUME Init PROVE TypeOK
  OBVIOUS
<1>1. file \in [Cell -> File]
  BY NoFileType DEF Init
<1>2. mGpsData \in [Cell -> Seq(GPSInfo)]
  BY <1>1, LoadType DEF Init
<1>3. mGpsInfo \in GPSInfo /\ mGpsInfoVec \in Seq(GPSInfo)
  BY DEF Init, ZeroInfo, GPSInfo
<1>4. 0 \in Row
  BY TraceAssumption DEF Row
<1>5. mNewTrack \in BOOLEAN /\ lucky \in BOOLEAN /\ mGPSDataEvt \in BOOLEAN
  <2>1. mNewTrack \in BOOLEAN
    BY TraceAssumption, Zenon DEF Init
  <2>2. lucky = mNewTrack /\ mGPSDataEvt = FALSE
    BY Zenon DEF Init
  <2> QED
    BY <2>1, <2>2
<1> QED
  BY <1>1, <1>2, <1>3, <1>4, <1>5 DEF Init, TypeOK, SaverIdle

\* Every step keeps the types.
LEMMA TypeStep == TypeOK /\ Saver /\ Counted /\ [Next]_vars => TypeOK'
PROOF
<1> SUFFICES ASSUME TypeOK, Saver, Counted, [Next]_vars
             PROVE  TypeOK'
  OBVIOUS
<1>0. 0 \in Row /\ ZeroInfo \in GPSInfo /\ <<>> \in Seq(GPSInfo)
  BY TraceAssumption DEF Row, ZeroInfo, GPSInfo
<1>1. CASE Restart
  <2>1. mGpsData' \in [Cell -> Seq(GPSInfo)]
    BY <1>1, LoadType DEF Restart, TypeOK
  <2>2. mNewTrack' \in BOOLEAN /\ lucky' \in BOOLEAN
    <3>1. mNewTrack' \in BOOLEAN
      BY <1>1, TraceAssumption, Zenon DEF Restart
    <3>2. lucky' = (lucky \/ mNewTrack')
      BY <1>1, Zenon DEF Restart
    <3> QED
      BY <3>1, <3>2
  <2>3. mGPSDataEvt' \in BOOLEAN
    BY <1>1, Zenon DEF Restart
  <2> QED
    BY <1>0, <1>1, <2>1, <2>2, <2>3 DEF Restart, TypeOK, SaverIdle
<1>2. ASSUME NEW p \in Position, Signal(p) PROVE TypeOK'
  <2>1. mGpsInfo' \in GPSInfo
    BY <1>2, TraceAssumption DEF Signal, Sample, GPSInfo
  <2>2. mCurRow' \in Row \cup {-1}
    BY <1>2, RowFound DEF Signal, TypeOK
  <2>3. mGPSDataEvt' \in BOOLEAN
    BY <1>2, Zenon DEF Signal
  <2> QED
    BY <1>2, <2>1, <2>2, <2>3 DEF Signal, TypeOK, past
<1>3. CASE calcArrival
  <2>1. mGpsInfoVec' \in Seq(GPSInfo)
    BY <1>3 DEF calcArrival, TypeOK
  <2>2. mCurIdx' \in Nat /\ mCurCol' \in Col \cup {-1} /\ mNewTrack' \in BOOLEAN
    <3>1. CASE ~mNewTrack /\ mCurRow # -1
      <4>1. Columns \in Stand
        BY <3>1, ColumnsStand DEF TypeOK
      <4>2. Columns.idx \in Nat /\ Columns.col \in Col \cup {-1}
        BY <4>1 DEF Stand
      <4>3. mCurIdx' = Columns.idx /\ mCurCol' = Columns.col /\ mNewTrack' = (Columns.end = Cols)
        BY <1>3, <3>1 DEF calcArrival
      <4>4. mNewTrack' \in BOOLEAN
        BY <4>3, Zenon
      <4> QED
        BY <4>2, <4>3, <4>4
    <3>2. CASE ~(~mNewTrack /\ mCurRow # -1)
      BY <1>3, <3>2 DEF calcArrival, TypeOK
    <3> QED
      BY <3>1, <3>2
  <2>3. mGPSDataEvt' \in BOOLEAN
    BY <1>3, Zenon DEF calcArrival
  <2> QED
    BY <1>3, <2>1, <2>2, <2>3 DEF calcArrival, TypeOK, past
<1>4. CASE SaveBegin
  <2>1. saver' = saver \/ \E pc \in {"remove", "columns"}, new \in BOOLEAN :
                           saver' = [pc |-> pc, row |-> 0, len |-> 0, fresh |-> new]
    BY <1>4 DEF SaveBegin, SaverIdle
  <2>2. /\ saver'.pc \in {"idle", "remove", "rows", "columns", "open", "write"}
        /\ saver'.row \in Row /\ saver'.len \in Nat
    BY <1>0, <2>1 DEF Saver
  <2>3. UNCHANGED <<file, mGpsData, mGpsInfo, mGpsInfoVec, mGPSDataEvt, place, mNewTrack, lucky>>
        /\ mGetFirstGPSSig' = 0
    BY <1>4 DEF SaveBegin
  <2> QED
    BY <2>2, <2>3 DEF TypeOK, place
<1>5. CASE SaveRemoveLast
  <2>1. file' \in [Cell -> File]
    BY <1>5, RemovedType DEF SaveRemoveLast, TypeOK
  <2> QED
    BY <1>5, <2>1 DEF SaveRemoveLast, TypeOK, Saver, Saving, drive, place
<1>6. CASE SaveShiftRow
  <2>1. file' \in [Cell -> File]
    BY <1>6, RenamedType, RowCellsType DEF SaveShiftRow, TypeOK
  <2>2. saver'.row \in Row /\ mCurRow' \in Row \cup {-1}
    <3>1. CASE saver.row < Rows - 2
      <4>1. saver'.row = saver.row + 1 /\ mCurRow' = mCurRow
        BY <1>6, <3>1 DEF SaveShiftRow, Saver
      <4>2. saver.row + 1 \in Row
        BY <3>1, TraceAssumption DEF TypeOK, Row
      <4> QED
        BY <4>1, <4>2 DEF TypeOK
    <3>2. CASE ~(saver.row < Rows - 2)
      BY <1>0, <1>6, <3>2 DEF SaveShiftRow, TypeOK, Saver
    <3> QED
      BY <3>1, <3>2
  <2>3. saver'.pc \in {"rows", "open"} /\ saver'.len \in Nat
    BY <1>6 DEF SaveShiftRow, TypeOK, Saver
  <2> QED
    BY <1>6, <2>1, <2>2, <2>3 DEF SaveShiftRow, TypeOK, Saving, drive
<1>7. CASE SaveShiftColumns
  <2>1. mCurCol # -1 /\ mCurCol # Cols - 1 => {mCurRow} \X (1 .. mCurCol) \in SUBSET Cell
    BY <1>7, TraceAssumption DEF SaveShiftColumns, Saver, TypeOK, Cell, Col
  <2>2. file' \in [Cell -> File]
    BY <1>7, <2>1, RemovedType, RenamedType DEF SaveShiftColumns, TypeOK
  <2> QED
    BY <1>7, <2>2 DEF SaveShiftColumns, TypeOK, Saver, Saving, drive, place
<1>8. CASE SaveOpen
  <2>1. CASE Truncate(<<mCurRow, 0>>)
    <3>1. [made |-> TRUE, recs |-> <<>>, id |-> 0] \in File
      BY <1>0 DEF File
    <3>2. file' \in [Cell -> File]
      BY <2>1, <3>1 DEF Truncate, TypeOK
    <3>3. mCurRow \in Row /\ Len(mGpsInfoVec) \in Nat
      BY <1>8 DEF SaveOpen, Saver, TypeOK
    <3>4. saver'.pc = "write" /\ saver'.row \in Row /\ saver'.len \in Nat
      BY <2>1, <3>3 DEF Truncate, Saver
    <3> QED
      BY <1>8, <2>1, <3>2, <3>4 DEF SaveOpen, TypeOK, Saving, drive, place
  <2>2. CASE saver' = SaverIdle /\ file' = file
    BY <1>0, <1>8, <2>2 DEF SaveOpen, SaverIdle, TypeOK, Saving, drive, place
  <2> QED
    BY <1>8, <2>1, <2>2 DEF SaveOpen
<1>9. CASE SaveWrite
  <2>1. SubSeq(mGpsInfoVec, 1, saver.len) \in Seq(GPSInfo)
    BY <1>9 DEF SaveWrite, Saver, TypeOK
  <2>2. [made |-> TRUE, recs |-> SubSeq(mGpsInfoVec, 1, saver.len), id |-> saves] \in File
    BY <2>1 DEF Counted, File
  <2>3. file' \in [Cell -> File]
    BY <1>9, <2>2 DEF SaveWrite, TypeOK
  <2> QED
    BY <1>0, <1>9, <2>3 DEF SaveWrite, SaverIdle, TypeOK, Saving, drive, place
<1>10. CASE UNCHANGED vars
  BY <1>10 DEF vars, drive, place, past, TypeOK
<1> QED
  BY <1>1, <1>2, <1>3, <1>4, <1>5, <1>6, <1>7, <1>8, <1>9, <1>10 DEF Next, saveGPSTrace

-----------------------------------------------------------------------------
(* The steps of a save.                                                    *)

LEMMA SaverStep == TypeOK /\ Saver /\ [Next]_vars => Saver'
PROOF
<1> SUFFICES ASSUME TypeOK, Saver, [Next]_vars PROVE Saver'
  OBVIOUS
<1>0. 0 \in Row /\ Rows \in Nat /\ 2 <= Rows /\ Len(mGpsInfoVec) \in Nat
  BY TraceAssumption DEF Row, TypeOK
<1>a. (saver' = SaverIdle) => Saver'
  BY <1>0 DEF SaverIdle, Saver
<1>b. saver' = saver /\ mGpsInfoVec' = mGpsInfoVec /\ (mCurRow # -1 => mCurRow' # -1) => Saver'
  BY DEF Saver
<1>1. CASE Restart
  BY <1>1, <1>a DEF Restart
<1>2. ASSUME NEW p \in Position, Signal(p) PROVE Saver'
  <2>1. mCurRow # -1 => mCurRow' # -1
    BY <1>2, RowFound DEF Signal, Row
  <2> QED
    BY <1>2, <1>b, <2>1 DEF Signal
<1>3. CASE calcArrival
  <2>1. Len(mGpsInfoVec') = Len(mGpsInfoVec) + 1
    BY <1>3 DEF calcArrival, TypeOK
  <2>2. saver' = saver /\ mCurRow' = mCurRow
    BY <1>3 DEF calcArrival
  <2>3. saver'.pc = "write" => saver'.len <= Len(mGpsInfoVec')
    BY <1>0, <2>1, <2>2 DEF Saver
  <2> QED
    BY <2>2, <2>3 DEF Saver
<1>4. CASE SaveBegin
  <2>1. CASE mNewTrack
    <3>1. saver' = [pc |-> IF mCurRow = -1 THEN "remove" ELSE "columns", row |-> 0,
                    len |-> 0, fresh |-> (mCurRow = -1)]
      BY <1>4, <2>1 DEF SaveBegin, SaverIdle
    <3>2. mCurRow' = mCurRow
      BY <1>4 DEF SaveBegin, place
    <3>3. CASE mCurRow = -1
      <4>1. saver' = [pc |-> "remove", row |-> 0, len |-> 0, fresh |-> TRUE]
        BY <3>1, <3>3
      <4> QED
        BY <1>0, <4>1 DEF Saver
    <3>4. CASE mCurRow # -1
      <4>1. saver' = [pc |-> "columns", row |-> 0, len |-> 0, fresh |-> FALSE]
        BY <3>1, <3>4
      <4> QED
        BY <1>0, <3>2, <3>4, <4>1 DEF Saver
    <3> QED
      BY <3>3, <3>4
  <2>2. CASE ~mNewTrack
    BY <1>4, <1>b, <2>2 DEF SaveBegin, place
  <2> QED
    BY <2>1, <2>2
<1>5. CASE SaveRemoveLast
  BY <1>0, <1>5 DEF SaveRemoveLast, Saver, Saving, drive, place
<1>6. CASE SaveShiftRow
  <2>1. CASE saver.row < Rows - 2
    <3>1. saver.row + 1 \in Row /\ saver.row + 1 <= Rows - 2
      BY <1>0, <2>1 DEF TypeOK, Row
    <3>2. saver' = [saver EXCEPT !.row = saver.row + 1] /\ saver.pc = "rows"
      BY <1>6, <2>1 DEF SaveShiftRow
    <3> QED
      BY <3>1, <3>2 DEF Saver
  <2>2. CASE ~(saver.row < Rows - 2)
    BY <1>0, <1>6, <2>2 DEF SaveShiftRow, Saver
  <2> QED
    BY <2>1, <2>2
<1>7. CASE SaveShiftColumns
  BY <1>7 DEF SaveShiftColumns, Saver, Saving, drive, place
<1>8. CASE SaveOpen
  <2>1. CASE Truncate(<<mCurRow, 0>>)
    <3>1. mCurRow \in Row
      BY <1>8 DEF SaveOpen, Saver, TypeOK
    <3>2. saver' = [pc |-> "write", row |-> mCurRow, len |-> Len(mGpsInfoVec),
                    fresh |-> saver.fresh]
      BY <2>1 DEF Truncate, Saver
    <3>3. mGpsInfoVec' = mGpsInfoVec /\ mCurRow' = mCurRow /\ mCurRow # -1
      BY <1>8, <3>1 DEF SaveOpen, Saving, drive, place, Row
    <3> QED
      BY <1>0, <3>1, <3>2, <3>3 DEF Saver
  <2>2. CASE saver' = SaverIdle
    BY <2>2, <1>a
  <2> QED
    BY <1>8, <2>1, <2>2 DEF SaveOpen
<1>9. CASE SaveWrite
  BY <1>9, <1>a DEF SaveWrite
<1>10. CASE UNCHANGED vars
  BY <1>10, <1>b DEF vars, drive, place
<1> QED
  BY <1>1, <1>2, <1>3, <1>4, <1>5, <1>6, <1>7, <1>8, <1>9, <1>10 DEF Next, saveGPSTrace

\* What removing and renaming make of a cell: another file, no file or the same.
LEMMA RemovedIs ==
  ASSUME NEW f, NEW cells, NEW c \in Cell
  PROVE  Removed(f, cells)[c] = IF c \in cells THEN NoFile ELSE f[c]
BY DEF Removed

LEMMA RenamedIs ==
  ASSUME NEW f, NEW cells \in SUBSET Cell, NEW d, NEW c \in Cell
  PROVE  \/ Renamed(f, cells, d)[c] = NoFile
         \/ Renamed(f, cells, d)[c] = f[c]
         \/ \E b \in cells : /\ b = <<c[1] - d[1], c[2] - d[2]>>
                             /\ f[b].made
                             /\ Renamed(f, cells, d)[c] = f[b]
PROOF
<1> DEFINE there == {b \in cells : f[b].made}
           Back(b) == <<b[1] - d[1], b[2] - d[2]>>
<1>1. Renamed(f, cells, d)[c] = IF Back(c) \in there THEN f[Back(c)]
                                ELSE IF c \in there THEN NoFile ELSE f[c]
  BY DEF Renamed
<1>2. CASE Back(c) \in there
  BY <1>1, <1>2
<1>3. CASE Back(c) \notin there
  BY <1>1, <1>3
<1> QED
  BY <1>2, <1>3

\* A step of the save that moves files only moves files that are there; all others
\* are gone or where they were.
LEMMA FilesMoved ==
  ASSUME TypeOK, Saver, SaveRemoveLast \/ SaveShiftRow \/ SaveShiftColumns,
         NEW c \in Cell
  PROVE  \/ file'[c] = NoFile
         \/ file'[c] = file[c]
         \/ \E b \in Cell : /\ file[b].made /\ file'[c] = file[b]
                            /\ b[2] = 0 => c[2] = 0
PROOF
<1>0. c \in Row \X Col /\ c[1] \in Int /\ c[2] \in Int
  BY DEF Cell, Row, Col
<1>1. CASE SaveRemoveLast
  BY <1>1, RemovedIs DEF SaveRemoveLast
<1>2. CASE SaveShiftRow
  <2>1. file' = Renamed(file, RowCells(saver.row), <<1, 0>>)
    BY <1>2 DEF SaveShiftRow
  <2>2. RowCells(saver.row) \in SUBSET Cell
    BY RowCellsType
  <2>3. CASE \E b \in RowCells(saver.row) :
               /\ b = <<c[1] - <<1, 0>>[1], c[2] - <<1, 0>>[2]>>
               /\ file[b].made
               /\ Renamed(file, RowCells(saver.row), <<1, 0>>)[c] = file[b]
    <3>1. PICK b \in RowCells(saver.row) : /\ b = <<c[1] - 1, c[2] - 0>>
                                           /\ file[b].made /\ file'[c] = file[b]
      BY <2>1, <2>3
    <3> QED
      BY <1>0, <2>2, <3>1
  <2> QED
    BY <2>1, <2>2, <2>3, RenamedIs
<1>3. CASE SaveShiftColumns
  <2> DEFINE cells == {mCurRow} \X (1 .. mCurCol)
  <2>1. CASE file' = file \/ file' = Removed(file, {<<mCurRow, mCurCol>>})
    BY <2>1, RemovedIs
  <2>2. CASE file' = Renamed(file, cells, <<0, 1>>) /\ mCurCol # -1 /\ mCurCol # Cols - 1
    <3>1. cells \in SUBSET Cell /\ \A b \in cells : b[2] # 0
      BY <1>3, <2>2, TraceAssumption DEF SaveShiftColumns, Saver, TypeOK, Cell, Col
    <3>2. CASE \E b \in cells : /\ b = <<c[1] - <<0, 1>>[1], c[2] - <<0, 1>>[2]>>
                                /\ file[b].made
                                /\ Renamed(file, cells, <<0, 1>>)[c] = file[b]
      BY <2>2, <3>1, <3>2
    <3> HIDE DEF cells
    <3> QED
      BY <2>2, <3>1, <3>2, RenamedIs
  <2> QED
    BY <1>3, <2>1, <2>2 DEF SaveShiftColumns
<1> QED
  BY <1>1, <1>2, <1>3

\* Opening and writing make one file, in column 0.
LEMMA FileWritten ==
  ASSUME TypeOK, Saver, SaveOpen \/ SaveWrite, NEW c \in Cell
  PROVE  \/ file'[c] = file[c]
         \/ c[2] = 0 /\ file'[c].made /\ file'[c].id \in {0, saves}
PROOF
<1> DEFINE Put(d, recs, id) == file' = [file EXCEPT ![d] = [made |-> TRUE, recs |-> recs, id |-> id]]
<1>1. \/ file' = file \/ Put(<<mCurRow, 0>>, <<>>, 0)
      \/ Put(<<saver.row, 0>>, SubSeq(mGpsInfoVec, 1, saver.len), saves)
  BY DEF SaveOpen, Truncate, SaveWrite
<1>2. ASSUME NEW r, NEW recs, NEW id, Put(<<r, 0>>, recs, id)
      PROVE  file'[c] = file[c] \/ (c[2] = 0 /\ file'[c].made /\ file'[c].id = id)
  BY <1>2 DEF TypeOK
<1> QED
  BY <1>1, <1>2

\* No other step touches a file.
LEMMA FilesKept ==
  ASSUME [Next]_vars, ~saveGPSTrace
  PROVE  file' = file
BY DEF Next, Restart, Signal, calcArrival, SaveBegin, vars

-----------------------------------------------------------------------------
(* One column, one trace.                                                  *)

LEMMA FirstColumnStep ==
  TypeOK /\ Saver /\ FirstColumnFiles(file) /\ [Next]_vars => FirstColumnFiles(file')
PROOF
<1> SUFFICES ASSUME TypeOK, Saver, FirstColumnFiles(file), [Next]_vars,
                    NEW c \in Cell, file'[c].made
             PROVE  c[2] = 0
  BY DEF FirstColumnFiles
<1>1. CASE SaveRemoveLast \/ SaveShiftRow \/ SaveShiftColumns
  BY <1>1, FilesMoved, NoFileType DEF FirstColumnFiles
<1>2. CASE SaveOpen \/ SaveWrite
  BY <1>2, FileWritten DEF FirstColumnFiles
<1>3. CASE ~saveGPSTrace
  BY <1>3, FilesKept DEF FirstColumnFiles
<1> QED
  BY <1>1, <1>2, <1>3 DEF saveGPSTrace

\* What is loaded from one column is one trace.
LEMMA LoadIsOneTrace ==
  ASSUME NEW f, FirstColumnFiles(f), NEW c \in Cell, NEW d \in Cell,
         loadGPSTrace(f)[c] # <<>>, loadGPSTrace(f)[d] # <<>>
  PROVE  c = d /\ c[2] = 0
PROOF
<1>1. IsFirst(f, c) /\ IsFirst(f, d)
  BY LoadIs
<1> QED
  BY <1>1, FirstIsOne

LEMMA MemoryKept ==
  ASSUME [Next]_vars, ~Restart
  PROVE  mGpsData' = mGpsData
BY DEF Next, Signal, calcArrival, SaveBegin, saveGPSTrace, SaveRemoveLast, SaveShiftRow,
       SaveShiftColumns, SaveOpen, SaveWrite, Saving, vars

LEMMA OneTraceStep == FirstColumnFiles(file) /\ OneTrace /\ [Next]_vars => OneTrace'
PROOF
<1> SUFFICES ASSUME FirstColumnFiles(file), OneTrace, [Next]_vars PROVE OneTrace'
  OBVIOUS
<1>1. CASE Restart
  <2>1. mGpsData' = loadGPSTrace(file)
    BY <1>1 DEF Restart
  <2> QED
    BY <2>1, LoadIsOneTrace DEF OneTrace
<1>2. CASE ~Restart
  BY <1>2, MemoryKept DEF OneTrace
<1> QED
  BY <1>1, <1>2

\* The row changes with the first signal of a trip, the end of a new save's
\* moving and a start.
LEMMA RowKept ==
  ASSUME [Next]_vars, ~Restart, ~SaveShiftRow, ~\E p \in Position : Signal(p)
  PROVE  mCurRow' = mCurRow
BY DEF Next, calcArrival, SaveBegin, saveGPSTrace, SaveRemoveLast,
       SaveShiftColumns, SaveOpen, SaveWrite, place, vars

\* The memory is what was loaded as long as the row is unknown and no save is
\* at work.
LEMMA LoadedStep == TypeOK /\ Saver /\ Loaded /\ [Next]_vars => Loaded'
PROOF
<1> SUFFICES ASSUME TypeOK, Saver, Loaded, [Next]_vars, saver'.pc = "idle", mCurRow' = -1
             PROVE  mGpsData' = loadGPSTrace(file')
  BY DEF Loaded
<1>1. CASE Restart
  BY <1>1 DEF Restart
<1>2. ASSUME NEW p \in Position, Signal(p) PROVE mGpsData' = loadGPSTrace(file')
  <2>1. mCurRow = -1
    BY <1>2, RowFound DEF Signal, Row
  <2> QED
    BY <1>2, <2>1 DEF Signal, Loaded
<1>3. CASE calcArrival
  BY <1>3 DEF calcArrival, Loaded
<1>4. CASE SaveBegin
  BY <1>4 DEF SaveBegin, Loaded, place
<1>5. CASE SaveRemoveLast
  <2>1. saver'.pc = "rows"
    BY <1>5 DEF SaveRemoveLast, Saver
  <2> QED
    BY <2>1
<1>6. CASE SaveShiftRow
  <2>1. saver'.pc \in {"rows", "open"}
    BY <1>6 DEF SaveShiftRow, Saver
  <2> QED
    BY <2>1
<1>7. CASE SaveShiftColumns \/ SaveOpen \/ SaveWrite
  <2>1. mCurRow # -1 /\ mCurRow' = mCurRow
    BY <1>7 DEF SaveShiftColumns, SaveOpen, SaveWrite, Saver, place
  <2> QED
    BY <2>1
<1>8. CASE UNCHANGED vars
  BY <1>8 DEF vars, place, Loaded
<1> QED
  BY <1>1, <1>2, <1>3, <1>4, <1>5, <1>6, <1>7, <1>8 DEF Next, saveGPSTrace

\* Nothing is made before mNewTrack has been TRUE from the start.
LEMMA LuckStep ==
  TypeOK /\ Saver /\ FirstColumnFiles(file) /\ Luck /\ [Next]_vars => Luck'
PROOF
<1> SUFFICES ASSUME TypeOK, Saver, FirstColumnFiles(file), Luck, [Next]_vars PROVE Luck'
  OBVIOUS
<1>1. CASE lucky
  <2>1. lucky'
    BY <1>1 DEF Next, Restart, Signal, calcArrival, SaveBegin, saveGPSTrace, SaveRemoveLast,
                SaveShiftRow, SaveShiftColumns, SaveOpen, SaveWrite, Saving, past, vars
  <2> QED
    BY <2>1 DEF Luck
<1>2. CASE ~lucky
  <2>0. /\ \A c \in Cell : ~file[c].made /\ mGpsData[c] = <<>>
        /\ ~mNewTrack /\ mCurRow = -1 /\ saver.pc = "idle"
    BY <1>2 DEF Luck
  <2>1. CASE Restart
    <3>1. \A c \in Cell : mGpsData'[c] = <<>>
      <4>1. mGpsData' = loadGPSTrace(file)
        BY <2>1 DEF Restart
      <4> QED
        BY <2>0, <4>1, LoadIs DEF IsFirst
    <3>2. file' = file /\ mCurRow' = -1 /\ saver'.pc = "idle"
      BY <2>1 DEF Restart, SaverIdle
    <3>3. lucky' \/ ~mNewTrack'
      BY <2>1 DEF Restart
    <3> QED
      BY <2>0, <3>1, <3>2, <3>3 DEF Luck
  <2>2. ASSUME NEW p \in Position, Signal(p) PROVE Luck'
    <3>1. <<0, 0>> \in Cell /\ \A i \in Row : <<i, 0>> \in Cell
      BY TraceAssumption DEF Cell, Row, Col
    <3>2. Starts(Sample(p)) = {}
      BY <2>0, <3>1 DEF Starts
    <3>3. mCurRow' = -1
      BY <2>0, <2>2, <3>2 DEF Signal, getGPSTraceRow
    <3> QED
      BY <2>0, <2>2, <3>3 DEF Signal, Luck
  <2>3. CASE calcArrival
    BY <2>0, <2>3 DEF calcArrival, Luck
  <2>4. CASE SaveBegin
    BY <2>0, <2>4 DEF SaveBegin, Luck, place
  <2>5. CASE saveGPSTrace
    BY <2>0, <2>5 DEF saveGPSTrace, SaveRemoveLast, SaveShiftRow, SaveShiftColumns,
                      SaveOpen, SaveWrite
  <2>6. CASE UNCHANGED vars
    BY <2>0, <2>6 DEF vars, place, Luck
  <2> QED
    BY <2>1, <2>2, <2>3, <2>4, <2>5, <2>6 DEF Next
<1> QED
  BY <1>1, <1>2

-----------------------------------------------------------------------------
(* The newest trace.                                                       *)

\* No step but those of a save touches the files; a step of the save that
\* rewrites a known trace leaves column 0 to the writing.
LEMMA ColumnZeroKept ==
  ASSUME TypeOK, Saver, SaveShiftColumns, NEW c \in Cell, c[2] = 0
  PROVE  file'[c] = file[c]
PROOF
<1>0. /\ c[1] \in Int /\ Cols \in Nat /\ 2 <= Cols /\ mCurCol \in Int /\ mCurRow \in Row
      /\ mCurCol \in Col \cup {-1}
  BY TraceAssumption DEF Cell, Row, Col, TypeOK, SaveShiftColumns, Saver
<1>1. CASE file' = file
  BY <1>1
<1>2. CASE file' = Removed(file, {<<mCurRow, mCurCol>>}) /\ mCurCol = Cols - 1
  BY <1>0, <1>2, RemovedIs
<1>3. CASE file' = Renamed(file, {mCurRow} \X (1 .. mCurCol), <<0, 1>>)
           /\ mCurCol # -1 /\ mCurCol # Cols - 1
  <2> DEFINE cells == {mCurRow} \X (1 .. mCurCol)
  <2>1. cells \in SUBSET Cell
    BY <1>0, <1>3 DEF Cell, Col
  <2>2. c \notin cells /\ <<c[1] - 0, c[2] - 1>> \notin cells
    BY <1>0
  <2>3. Renamed(file, cells, <<0, 1>>)[c] = file[c]
    <3> HIDE DEF cells
    <3> QED
      BY <2>1, <2>2 DEF Renamed
  <2> QED
    BY <1>3, <2>3
<1> QED
  BY <1>1, <1>2, <1>3 DEF SaveShiftColumns

LEMMA CountedStep == TypeOK /\ Saver /\ Counted /\ [Next]_vars => Counted'
PROOF
<1> SUFFICES ASSUME TypeOK, Saver, Counted, [Next]_vars PROVE Counted'
  OBVIOUS
<1>1. \A c \in Cell : file'[c].id # 0 => file'[c].made
  <2> SUFFICES ASSUME NEW c \in Cell, file'[c].id # 0 PROVE file'[c].made
    OBVIOUS
  <2>1. CASE SaveRemoveLast \/ SaveShiftRow \/ SaveShiftColumns
    BY <2>1, FilesMoved, NoFileType DEF Counted
  <2>2. CASE SaveOpen \/ SaveWrite
    BY <2>2, FileWritten DEF Counted
  <2>3. CASE ~saveGPSTrace
    BY <2>3, FilesKept DEF Counted
  <2> QED
    BY <2>1, <2>2, <2>3 DEF saveGPSTrace
<1>2. CASE Restart
  BY <1>1, <1>2 DEF Restart, Counted, SaverIdle
<1>3. CASE \E p \in Position : Signal(p)
  BY <1>1, <1>3 DEF Signal, Counted, past
<1>4. CASE calcArrival
  BY <1>1, <1>4 DEF calcArrival, Counted, past
<1>5. CASE SaveBegin
  <2>1. CASE mNewTrack
    <3>1. saver'.pc \in {"remove", "columns"}
      BY <1>5, <2>1 DEF SaveBegin, SaverIdle
    <3>2. saves' = saves + 1 /\ newest' = newest /\ kept' = kept /\ faults' = faults
      BY <1>5, <2>1 DEF SaveBegin
    <3> QED
      BY <1>1, <3>1, <3>2 DEF Counted
  <2>2. CASE ~mNewTrack
    BY <1>1, <1>5, <2>2 DEF SaveBegin, Counted
  <2> QED
    BY <2>1, <2>2
<1>6. CASE SaveRemoveLast
  <2>1. saver'.pc = "rows"
    BY <1>6 DEF SaveRemoveLast, Saver
  <2> QED
    BY <1>1, <1>6, <2>1 DEF SaveRemoveLast, Counted, Saving
<1>7. CASE SaveShiftRow
  <2>1. saver'.pc \in {"rows", "open"}
    BY <1>7 DEF SaveShiftRow, Saver
  <2> QED
    BY <1>1, <1>7, <2>1 DEF SaveShiftRow, Counted, Saving
<1>8. CASE SaveShiftColumns
  <2>1. saver'.pc = "open"
    BY <1>8 DEF SaveShiftColumns, Saver
  <2> QED
    BY <1>1, <1>8, <2>1 DEF SaveShiftColumns, Counted, Saving
<1>9. CASE SaveOpen
  <2>1. CASE Truncate(<<mCurRow, 0>>)
    <3>1. saver'.row = mCurRow /\ saver'.pc = "write"
      BY <2>1 DEF Truncate, Saver
    <3>2. <<mCurRow, 0>> \in Cell
      BY <1>9, TraceAssumption DEF SaveOpen, Saver, TypeOK, Cell, Col
    <3>3. file'[<<saver'.row, 0>>].id = 0
      BY <2>1, <3>1, <3>2 DEF Truncate, TypeOK
    <3> QED
      BY <1>1, <1>9, <2>1, <3>1, <3>3 DEF SaveOpen, Truncate, Counted, Saving
  <2>2. CASE saver' = SaverIdle /\ faults' = faults + 1 /\ UNCHANGED <<file, newest, kept>>
    BY <1>1, <1>9, <2>2 DEF SaveOpen, SaverIdle, Counted, Saving
  <2> QED
    BY <1>9, <2>1, <2>2 DEF SaveOpen
<1>10. CASE SaveWrite
  <2>1. saver'.pc = "idle" /\ saves' = saves /\ kept' = kept \cup {saves} /\ newest < saves
    BY <1>10 DEF SaveWrite, SaverIdle, Saving, Counted
  <2>2. newest' \in {newest, saves} /\ faults' \in {0, faults + 1, faults}
    BY <1>10 DEF SaveWrite
  <2> QED
    BY <1>1, <2>1, <2>2 DEF Counted
<1>11. CASE UNCHANGED vars
  BY <1>1, <1>11 DEF vars, past, Counted
<1> QED
  BY <1>2, <1>3, <1>4, <1>5, <1>6, <1>7, <1>8, <1>9, <1>10, <1>11 DEF Next, saveGPSTrace

\* What the next three lemmas start from.
NewestFacts ==
  /\ TypeOK /\ Saver /\ Counted /\ FirstColumnFiles(file) /\ Loaded
  /\ InFront /\ Behind /\ Somewhere

LEMMA Corners ==
  /\ <<0, 0>> \in Cell /\ <<1, 0>> \in Cell
  /\ Rows \in Nat /\ 2 <= Rows /\ Cols \in Nat /\ 2 <= Cols
  /\ \A i \in Row : <<i, 0>> \in Cell /\ i \in Nat
BY TraceAssumption DEF Cell, Row, Col

LEMMA InFrontStep == NewestFacts /\ [Next]_vars => InFront'
PROOF
<1> SUFFICES ASSUME NewestFacts, [Next]_vars, newest' \in kept', faults' = 0,
                    ~(saver'.fresh /\ Moved')
             PROVE  file'[<<0, 0>>].id = newest'
  BY DEF InFront
<1> USE Corners DEF NewestFacts
<1>a. ASSUME file' = file, newest \in kept, newest' = newest, faults = 0,
             ~(saver.fresh /\ Moved)
      PROVE  file'[<<0, 0>>].id = newest'
  BY <1>a DEF InFront
<1>1. CASE Restart
  <2>1. saver.pc = "idle" /\ faults = 0
    BY <1>1 DEF Restart, Counted
  <2> QED
    BY <1>1, <1>a, <2>1 DEF Restart, Saver
<1>2. CASE \E p \in Position : Signal(p)
  BY <1>2, <1>a DEF Signal, past, Moved
<1>3. CASE calcArrival
  BY <1>3, <1>a DEF calcArrival, past, Moved
<1>4. CASE SaveBegin
  BY <1>4, <1>a DEF SaveBegin, Saver
<1>5. CASE SaveRemoveLast
  <2>1. file[<<0, 0>>].id = newest
    BY <1>5 DEF SaveRemoveLast, InFront, Moved
  <2>2. <<0, 0>> \notin RowCells(Rows - 1)
    BY DEF RowCells
  <2>3. file'[<<0, 0>>] = file[<<0, 0>>]
    BY <1>5, <2>2, RemovedIs DEF SaveRemoveLast
  <2> QED
    BY <1>5, <2>1, <2>3 DEF SaveRemoveLast
<1>6. CASE SaveShiftRow
  <2>1. saver'.fresh
    BY <1>6 DEF SaveShiftRow, Saver
  <2>2. saver'.pc = "open" \/ (saver'.pc = "rows" /\ saver'.row = saver.row + 1)
    BY <1>6 DEF SaveShiftRow, Saver
  <2>3. saver.row \in Nat
    BY DEF Saver, Row
  <2> QED
    BY <2>1, <2>2, <2>3 DEF Moved
<1>7. CASE SaveShiftColumns
  <2>1. file'[<<0, 0>>] = file[<<0, 0>>]
    BY <1>7, ColumnZeroKept
  <2> QED
    BY <1>7, <2>1 DEF SaveShiftColumns, Saver, InFront
<1>8. CASE SaveOpen
  <2>1. CASE Truncate(<<mCurRow, 0>>)
    <3>1. saver'.fresh = saver.fresh /\ saver'.pc = "write" /\ newest' = newest /\ faults = 0
      BY <1>8, <2>1 DEF SaveOpen, Truncate, Saver
    <3>2. ~saver.fresh
      BY <3>1 DEF Moved
    <3>3. newest \in kept /\ newest # file[<<mCurRow, 0>>].id
      BY <2>1, <3>1, <3>2 DEF Truncate
    <3>4. file[<<0, 0>>].id = newest
      BY <3>1, <3>2, <3>3 DEF InFront
    <3>5. file'[<<0, 0>>] = file[<<0, 0>>]
      BY <2>1, <3>3, <3>4 DEF Truncate, TypeOK
    <3> QED
      BY <3>1, <3>4, <3>5
  <2>2. CASE faults' = faults + 1
    BY <2>2 DEF Counted
  <2> QED
    BY <1>8, <2>1, <2>2 DEF SaveOpen
<1>9. CASE SaveWrite
  <2>1. file'[<<saver.row, 0>>].id = saves
    BY <1>9 DEF SaveWrite, Saver, TypeOK
  <2>2. CASE saver.fresh /\ saver.row = 0
    BY <1>9, <2>1, <2>2 DEF SaveWrite
  <2>3. CASE saver.fresh /\ saver.row # 0
    BY <1>9, <2>3 DEF SaveWrite, Counted
  <2>4. CASE ~saver.fresh
    <3>1. newest' = newest /\ faults = 0 /\ newest \in kept \cup {saves}
      BY <1>9, <2>4 DEF SaveWrite
    <3>2. newest < saves /\ newest \in kept /\ newest # 0
      BY <1>9, <3>1 DEF SaveWrite, Counted
    <3>3. file[<<0, 0>>].id = newest /\ file[<<saver.row, 0>>].id = 0
      BY <1>9, <2>4, <3>1, <3>2 DEF SaveWrite, InFront, Counted
    <3>4. file'[<<0, 0>>] = file[<<0, 0>>]
      BY <1>9, <3>2, <3>3 DEF SaveWrite, TypeOK
    <3> QED
      BY <3>1, <3>3, <3>4
  <2> QED
    BY <2>2, <2>3, <2>4
<1>10. CASE UNCHANGED vars
  BY <1>10, <1>a DEF vars, past, Moved
<1> QED
  BY <1>1, <1>2, <1>3, <1>4, <1>5, <1>6, <1>7, <1>8, <1>9, <1>10 DEF Next, saveGPSTrace

\* A new save begins in the memory of the files it moves.
LEMMA NewSaveKnows ==
  ASSUME NewestFacts, SaveBegin, mNewTrack, mCurRow = -1, newest \in kept, faults = 0
  PROVE  \A c \in Cell : mGpsData[c] # <<>> <=> c = <<0, 0>>
PROOF
<1> USE Corners DEF NewestFacts
<1>1. mGpsData = loadGPSTrace(file)
  BY DEF SaveBegin, Loaded
<1>2. file[<<0, 0>>].id = newest /\ newest # 0
  BY DEF SaveBegin, Saver, InFront, Counted
<1>3. IsFirst(file, <<0, 0>>)
  BY <1>2 DEF IsFirst, Counted
<1>4. mGpsData[<<0, 0>>] # <<>>
  <2>1. file[<<0, 0>>].recs \in Seq(GPSInfo)
    BY DEF TypeOK, File
  <2>2. Append(file[<<0, 0>>].recs, ZeroInfo) # <<>>
    BY <2>1
  <2> QED
    BY <1>1, <1>3, <2>2, LoadIs
<1> QED
  BY <1>1, <1>4, LoadIsOneTrace

LEMMA BehindStep == NewestFacts /\ [Next]_vars => Behind'
PROOF
<1> SUFFICES ASSUME NewestFacts, [Next]_vars, newest' \in kept', faults' = 0, saver'.fresh
             PROVE  /\ Moved' => file'[<<1, 0>>].id = newest'
                    /\ \A c \in Cell : mGpsData'[c] # <<>> <=> c = <<0, 0>>
                    /\ mCurRow' \in {-1, 0}
                    /\ saver'.pc = "write" => saver'.row = 0
  BY DEF Behind
<1> USE Corners DEF NewestFacts
<1>a. ASSUME newest \in kept, faults = 0, saver.fresh
      PROVE  /\ Moved => file[<<1, 0>>].id = newest
             /\ \A c \in Cell : mGpsData[c] # <<>> <=> c = <<0, 0>>
             /\ mCurRow \in {-1, 0}
             /\ saver.pc = "write" => saver.row = 0
  BY <1>a DEF Behind
<1>1. CASE Restart
  BY <1>1 DEF Restart, SaverIdle
<1>2. ASSUME NEW p \in Position, Signal(p)
      PROVE  /\ Moved' => file'[<<1, 0>>].id = newest'
             /\ \A c \in Cell : mGpsData'[c] # <<>> <=> c = <<0, 0>>
             /\ mCurRow' \in {-1, 0}
             /\ saver'.pc = "write" => saver'.row = 0
  <2>1. /\ newest \in kept /\ faults = 0 /\ saver.fresh /\ saver' = saver
        /\ file' = file /\ mGpsData' = mGpsData /\ newest' = newest
    BY <1>2 DEF Signal, past
  <2>2. Starts(Sample(p)) \subseteq {0}
    BY <1>a, <2>1 DEF Starts
  <2>3. Starts(Sample(p)) # {} => Min(Starts(Sample(p))) = 0
    <3>1. Starts(Sample(p)) \in SUBSET Nat
      BY <2>2
    <3> QED
      BY <2>2, <3>1, MinIn
  <2>4. mCurRow' \in {-1, 0}
    BY <1>2, <1>a, <2>1, <2>3 DEF Signal, getGPSTraceRow
  <2>5. Moved' <=> Moved
    BY <2>1 DEF Moved
  <2> QED
    BY <1>a, <2>1, <2>4, <2>5
<1>3. CASE calcArrival
  <2>1. /\ newest \in kept /\ faults = 0 /\ saver' = saver /\ mCurRow' = mCurRow
        /\ file' = file /\ mGpsData' = mGpsData /\ newest' = newest
    BY <1>3 DEF calcArrival, past
  <2>2. Moved' <=> Moved
    BY <2>1 DEF Moved
  <2> QED
    BY <1>a, <2>1, <2>2
<1>4. CASE SaveBegin
  <2>1. mNewTrack /\ mCurRow = -1 /\ saver'.pc = "remove" /\ mCurRow' = -1
    <3>1. saver.pc = "idle" /\ ~saver.fresh
      BY <1>4 DEF SaveBegin, Saver
    <3>2. mNewTrack
      BY <1>4, <3>1 DEF SaveBegin
    <3>3. mCurRow = -1
      BY <1>4, <3>2 DEF SaveBegin, SaverIdle
    <3> QED
      BY <1>4, <3>2, <3>3 DEF SaveBegin, SaverIdle, place
  <2>2. newest \in kept /\ faults = 0 /\ mGpsData' = mGpsData
    BY <1>4 DEF SaveBegin
  <2>3. ~Moved'
    BY <2>1 DEF Moved
  <2> QED
    BY <1>4, <2>1, <2>2, <2>3, NewSaveKnows
<1>5. CASE SaveRemoveLast
  <2>1. newest \in kept /\ faults = 0 /\ saver.fresh /\ saver'.pc = "rows" /\ saver'.row = 0
    BY <1>5 DEF SaveRemoveLast, Saver
  <2>2. mGpsData' = mGpsData /\ mCurRow' = mCurRow
    BY <1>5 DEF SaveRemoveLast, Saving, place
  <2> QED
    BY <1>a, <2>1, <2>2 DEF Moved
<1>6. CASE SaveShiftRow
  <2>1. newest \in kept /\ faults = 0 /\ saver.fresh /\ saver.pc = "rows" /\ newest' = newest
    BY <1>6 DEF SaveShiftRow, Saver
  <2>2. mGpsData' = mGpsData /\ mCurRow' \in {mCurRow, 0}
    BY <1>6 DEF SaveShiftRow, Saving
  <2>3. saver'.pc \in {"rows", "open"}
    BY <1>6 DEF SaveShiftRow, Saver
  <2>4. file' = Renamed(file, RowCells(saver.row), <<1, 0>>)
    BY <1>6 DEF SaveShiftRow
  <2>5. CASE saver.row = 0
    <3>1. file[<<0, 0>>].id = newest /\ newest # 0
      BY <2>1, <2>5 DEF InFront, Moved, Counted
    <3>2. <<0, 0>> \in RowCells(0)
      BY <1>a, <2>1 DEF RowCells
    <3>3. file[<<0, 0>>].made
      BY <3>1 DEF Counted
    <3>4. file'[<<1, 0>>] = file[<<1 - 1, 0 - 0>>]
      BY <2>4, <2>5, <3>2, <3>3 DEF Renamed
    <3> QED
      BY <1>a, <2>1, <2>2, <2>3, <3>1, <3>4
  <2>6. CASE saver.row # 0
    <3>1. file[<<1, 0>>].id = newest
      <4>1. Moved
        BY <2>1, <2>6 DEF Moved, Saver, Row
      <4> QED
        BY <1>a, <2>1, <4>1
    <3>2. RowCells(saver.row) = {}
      <4> SUFFICES ASSUME NEW c \in RowCells(saver.row) PROVE FALSE
        OBVIOUS
      <4>1. /\ c \in Cell /\ \A j \in 0 .. c[2] : mGpsData[<<saver.row, j>>] # <<>>
        BY DEF RowCells
      <4>2. 0 \in 0 .. c[2] /\ <<saver.row, 0>> \in Cell
        BY <4>1 DEF Cell, Col, Saver
      <4> QED
        BY <1>a, <2>1, <2>6, <4>1, <4>2
    <3>3. file'[<<1, 0>>] = file[<<1, 0>>]
      BY <2>4, <3>2 DEF Renamed
    <3> QED
      BY <1>a, <2>1, <2>2, <2>3, <3>1, <3>3
  <2> QED
    BY <2>5, <2>6
<1>7. CASE SaveShiftColumns
  BY <1>7 DEF SaveShiftColumns, Saver
<1>8. CASE SaveOpen
  <2>1. CASE Truncate(<<mCurRow, 0>>)
    <3>1. /\ saver.fresh /\ saver'.row = mCurRow /\ newest' = newest /\ faults = 0
          /\ mGpsData' = mGpsData /\ mCurRow' = mCurRow
      BY <1>8, <2>1 DEF SaveOpen, Truncate, Saver, Saving, place
    <3>2. newest \in kept
      BY <2>1, <3>1 DEF Truncate
    <3>3. mCurRow = 0 /\ file[<<1, 0>>].id = newest
      BY <1>8, <1>a, <3>1, <3>2 DEF SaveOpen, Saver, Moved
    <3>4. file'[<<1, 0>>] = file[<<1, 0>>]
      BY <2>1, <3>3 DEF Truncate, TypeOK
    <3> QED
      BY <1>a, <3>1, <3>2, <3>3, <3>4
  <2>2. CASE saver' = SaverIdle
    BY <2>2 DEF SaverIdle
  <2> QED
    BY <1>8, <2>1, <2>2 DEF SaveOpen
<1>9. CASE SaveWrite
  BY <1>9 DEF SaveWrite, SaverIdle
<1>10. CASE UNCHANGED vars
  <2>1. /\ newest \in kept /\ faults = 0 /\ saver' = saver /\ mCurRow' = mCurRow
        /\ file' = file /\ mGpsData' = mGpsData /\ newest' = newest
    BY <1>10 DEF vars, past, place
  <2>2. Moved' <=> Moved
    BY <2>1 DEF Moved
  <2> QED
    BY <1>a, <2>1, <2>2
<1> QED
  BY <1>1, <1>2, <1>3, <1>4, <1>5, <1>6, <1>7, <1>8, <1>9, <1>10 DEF Next, saveGPSTrace

\* Before any fault the newest trace is in row 0 or row 1.
LEMMA NewestThere ==
  ASSUME NewestFacts, newest \in kept, faults = 0
  PROVE  \E c \in Cell : file[c].id = newest
BY Corners DEF NewestFacts, InFront, Behind

LEMMA SomewhereStep == NewestFacts /\ [Next]_vars => Somewhere'
PROOF
<1> SUFFICES ASSUME NewestFacts, [Next]_vars, newest' \in kept', faults' = 1, ~saver'.fresh
             PROVE  \E c \in Cell : file'[c].id = newest'
  BY DEF Somewhere
<1> USE Corners DEF NewestFacts
<1>a. ASSUME newest \in kept, newest' = newest, file' = file,
             faults = 0 \/ (faults = 1 /\ ~saver.fresh)
      PROVE  \E c \in Cell : file'[c].id = newest'
  BY <1>a, NewestThere DEF Somewhere
<1>1. CASE Restart
  <2>1. faults = 0 \/ (faults = 1 /\ ~saver.fresh)
    BY <1>1 DEF Restart, Counted, Saver
  <2> QED
    BY <1>1, <1>a, <2>1 DEF Restart
<1>2. CASE \E p \in Position : Signal(p)
  BY <1>2, <1>a DEF Signal, past
<1>3. CASE calcArrival
  BY <1>3, <1>a DEF calcArrival, past
<1>4. CASE SaveBegin
  BY <1>4, <1>a DEF SaveBegin, Saver
<1>5. CASE SaveRemoveLast
  BY <1>5 DEF SaveRemoveLast, Saver
<1>6. CASE SaveShiftRow
  BY <1>6 DEF SaveShiftRow, Saver
<1>7. CASE SaveShiftColumns
  <2>1. newest \in kept /\ newest' = newest /\ faults = 1 /\ ~saver.fresh
    BY <1>7 DEF SaveShiftColumns, Saver
  <2>2. PICK c \in Cell : file[c].id = newest
    BY <2>1 DEF Somewhere
  <2>3. c[2] = 0
    BY <2>1, <2>2 DEF Counted, FirstColumnFiles
  <2> QED
    BY <1>7, <2>1, <2>2, <2>3, ColumnZeroKept
<1>8. CASE SaveOpen
  <2>1. CASE Truncate(<<mCurRow, 0>>)
    <3>1. saver'.fresh = saver.fresh /\ newest' = newest /\ faults = 1 /\ ~saver.fresh
      BY <1>8, <2>1 DEF SaveOpen, Truncate, Saver
    <3>2. newest \in kept /\ newest # file[<<mCurRow, 0>>].id
      BY <2>1, <3>1 DEF Truncate
    <3>3. PICK c \in Cell : file[c].id = newest
      BY <3>1, <3>2 DEF Somewhere
    <3>4. file'[c] = file[c]
      BY <2>1, <3>2, <3>3 DEF Truncate, TypeOK
    <3> QED
      BY <3>1, <3>3, <3>4
  <2>2. CASE faults' = faults + 1 /\ UNCHANGED <<file, newest, kept>>
    BY <1>a, <2>2 DEF Counted
  <2> QED
    BY <1>8, <2>1, <2>2 DEF SaveOpen
<1>9. CASE SaveWrite
  <2>1. CASE saver.fresh
    <3>1. saver.row # 0 /\ newest' = newest /\ faults = 0 /\ newest \in kept \cup {saves}
      BY <1>9, <2>1 DEF SaveWrite, Counted
    <3>2. newest \in kept
      BY <1>9, <3>1 DEF SaveWrite, Counted
    <3> QED
      BY <1>9, <2>1, <3>1, <3>2 DEF SaveWrite, Behind
  <2>2. CASE ~saver.fresh
    <3>1. newest' = newest /\ faults = 1 /\ newest \in kept \cup {saves}
      BY <1>9, <2>2 DEF SaveWrite
    <3>2. newest < saves /\ newest \in kept /\ newest # 0
      BY <1>9, <3>1 DEF SaveWrite, Counted
    <3>3. PICK c \in Cell : file[c].id = newest
      BY <2>2, <3>1, <3>2 DEF Somewhere
    <3>4. file[<<saver.row, 0>>].id = 0
      BY <1>9 DEF SaveWrite, Counted
    <3>5. file'[c] = file[c]
      BY <1>9, <3>2, <3>3, <3>4 DEF SaveWrite, TypeOK
    <3> QED
      BY <3>1, <3>3, <3>5
  <2> QED
    BY <2>1, <2>2
<1>10. CASE UNCHANGED vars
  BY <1>10, <1>a DEF vars, past
<1> QED
  BY <1>1, <1>2, <1>3, <1>4, <1>5, <1>6, <1>7, <1>8, <1>9, <1>10 DEF Next, saveGPSTrace

-----------------------------------------------------------------------------
(* The invariant and what follows from it.                                 *)

LEMMA TraceInit == Init => TraceInv
PROOF
<1> SUFFICES ASSUME Init PROVE TraceInv
  OBVIOUS
<1>1. TypeOK
  BY TypeInit
<1>2. \A c \in Cell : file[c] = NoFile
  BY DEF Init
<1>3. Saver
  BY Corners, TraceAssumption DEF Init, Saver, SaverIdle, Row
<1>4. Counted
  BY <1>2, NoFileType DEF Init, Counted, SaverIdle
<1>5. FirstColumnFiles(file) /\ mGpsData = loadGPSTrace(file)
  BY <1>2, NoFileType DEF FirstColumnFiles, Init
<1>6. \A c \in Cell : mGpsData[c] = <<>>
  BY <1>2, <1>5, LoadIs, NoFileType DEF IsFirst
<1>7. OneTrace /\ Loaded
  BY <1>5, <1>6 DEF OneTrace, Loaded
<1>8. Luck
  <2>1. lucky = mNewTrack
    BY DEF Init
  <2>2. mNewTrack \in BOOLEAN /\ mCurRow = -1 /\ saver.pc = "idle"
    BY <1>1 DEF Init, SaverIdle, TypeOK
  <2> QED
    BY <1>2, <1>6, <2>1, <2>2, NoFileType DEF Luck
<1>9. InFront /\ Behind /\ Somewhere
  BY DEF Init, InFront, Behind, Somewhere
<1> QED
  BY <1>1, <1>3, <1>4, <1>5, <1>7, <1>8, <1>9 DEF TraceInv

LEMMA TraceStep == TraceInv /\ [Next]_vars => TraceInv'
BY TypeStep, SaverStep, CountedStep, FirstColumnStep, OneTraceStep, LoadedStep, LuckStep,
   InFrontStep, BehindStep, SomewhereStep DEF TraceInv, NewestFacts

LEMMA TraceInvariance == Spec => []TraceInv
BY TraceInit, TraceStep, PTL DEF Spec

\* The files, the memory, the place and the save keep their types, whatever the
\* scans, the shifts and the starts do.
THEOREM TraceTypes == Spec => []TypeOK
PROOF
<1>1. TraceInv => TypeOK
  BY DEF TraceInv
<1> QED
  BY <1>1, TraceInvariance, PTL

\* The 10 x 10 grid of files is used as one column, and its load brings one
\* trace into memory.
THEOREM GridComesToOneTrace == Spec => []GridIsOneTrace
PROOF
<1>1. ASSUME TraceInv PROVE GridIsOneTrace
  <2> DEFINE full == {c \in Cell : mGpsData[c] # <<>>}
  <2>1. Cardinality(full) <= 1
    <3>1. CASE full = {}
      BY <3>1, FS_EmptySet
    <3>2. CASE full # {}
      <4>1. PICK c \in full : TRUE
        BY <3>2
      <4>2. full = {c}
        BY <1>1, <4>1 DEF TraceInv, OneTrace
      <4> QED
        BY <4>2, FS_Singleton
    <3> QED
      BY <3>1, <3>2
  <2> QED
    BY <1>1, <2>1 DEF TraceInv, FirstColumnFiles, GridIsOneTrace
<1> QED
  BY <1>1, TraceInvariance, PTL

\* No trace is ever saved unless the heap once left mNewTrack TRUE.
THEOREM TracesByLuck == Spec => []FirstTraceByLuck
PROOF
<1>1. TraceInv => FirstTraceByLuck
  BY DEF TraceInv, Luck, FirstTraceByLuck
<1> QED
  BY <1>1, TraceInvariance, PTL

\* One fault does not lose the newest trace of row 0.
THEOREM NewestOutlivesOneFault == Spec => []NewestTraceKept
PROOF
<1>1. ASSUME TraceInv PROVE NewestTraceKept
  <2> SUFFICES ASSUME saver.pc = "idle", faults <= 1, newest \in kept
               PROVE  \E c \in Cell : file[c].id = newest
    BY DEF NewestTraceKept
  <2>1. NewestFacts /\ ~saver.fresh /\ faults \in Nat
    BY <1>1 DEF TraceInv, NewestFacts, Saver, Counted
  <2>2. CASE faults = 0
    BY <2>1, <2>2, NewestThere
  <2>3. CASE faults = 1
    BY <2>1, <2>3 DEF NewestFacts, Somewhere
  <2> QED
    BY <2>1, <2>2, <2>3
<1> QED
  BY <1>1, TraceInvariance, PTL
=============================================================================
