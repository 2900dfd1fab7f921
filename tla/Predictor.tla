------------------------------ MODULE Predictor ------------------------------
(***************************************************************************)
(* How destinations are predicted.  The timer's thread saves a trip: it is  *)
(* counted, put in one drawer of each of the four arrays and written to the *)
(* file (saveDriverBehavior).  The dispatch thread answers a request: it    *)
(* reads the start position from the message, collects candidates from the  *)
(* four drawers of the present day and hour, and rates them                *)
(* (predictDestinationAtStart, getDestAndRate).  A start of the process     *)
(* puts the trips of the file in the drawers again.                         *)
(*                                                                         *)
(* Nothing is locked.  One drawer, one counter or one position search is    *)
(* one access here; what the two threads do to the position table between   *)
(* search and push is in TripRecorder.  The call of                         *)
(* predictDestinationAtStart is commented out in onSvcipcRequestCallback;   *)
(* the module is of the program with that call in place.                    *)
(***************************************************************************)
EXTENDS PlaceTable, Utils, Drawers, JsonHandler

CONSTANTS Coord,     \* values of a coordinate; a place is a pair of them
          Stops,     \* bound: the places where the car starts or stops
          Clocks,    \* bound: the readings of the clock, [date, time]
          Arrivals,  \* bound: the times at which a trip ends
          HeapPlaces,\* values uninitialized mStartLat, mStartLon may hold
          Messages,  \* the texts a request may carry
          PerDrawer, \* candidates taken from a drawer, 5 in the program
          MaxTrip,   \* bound: trips opened
          MaxAsk,    \* bound: requests
          MaxBoot,   \* bound: starts of the process
          HeapInts   \* values an uninitialized int may hold

\* What a clock shows: a day of the calendar and a time of the day.
Date == {ymd \in Nat : LET t == YEAR_MON_DATE_DVT(ymd)
                       IN  t.m \in 1 .. 12 /\ t.d \in 1 .. daByMon(t.y)[t.m]}
Time == {hms \in Nat : LET t == TIME_DVT(hms) IN t.h < 24 /\ t.m < 60 /\ t.s < 60}

ASSUME PredictorAssumption ==
  /\ Clocks \subseteq [date : Date, time : Time] /\ Arrivals \subseteq Time
  /\ Place = Coord \X Coord /\ Stops \subseteq Place
  /\ \A text \in Messages : \A param \in DOMAIN text.root :
       text.root[param].kind = "double" => text.root[param].val \in Coord
  /\ PerDrawer \in Nat \ {0} /\ HeapInts \subseteq Int /\ HeapPlaces \subseteq Place
  /\ MaxTrip \in Nat /\ MaxAsk \in Nat /\ MaxBoot \in Nat

Behavior   == [code_s : Code, code_d : Code, date : Nat, time : Nat, time_d : Nat,
               count : Nat]
NoBehavior == [code_s |-> 0, code_d |-> 0, date |-> 0, time |-> 0, time_d |-> 0,
               count |-> 0]

\* mBehavWeek[7], mBehavHour[24], mBehavDatePerMon[31] and
\* mBehavDatePerYear[366] lie one after the other in the object, so they are
\* numbered through: index -1 of one is the last vector of the one before.
NoClock == [date |-> 0, time |-> 0]
Drawers4 ==
  [c \in Clocks \cup {NoClock} |->
     LET t == YEAR_MON_DATE_DVT(c.date)
     IN  <<CaculateWeekDay(t.y, t.m, t.d),
           7 + TIME_DVT(c.time).h,
           7 + 24 + t.d - 1,
           7 + 24 + 31 + getIdxOfDate(t.y, t.m, t.d)>>]
DrawersOf(b) == Drawers4[[date |-> b.date, time |-> b.time]]

\* The drawers that can come into use.
Cells == UNION {ToSet(DrawersOf(c)) : c \in Clocks \cup {NoClock}}

VARIABLES
  mBehav,          \* the drawers
  endCount,        \* mStCntMap.end()->second
  mGpsPosVec, mInitPosVecSize,
  mGetFirstGPSSig, \* 1 while a trip is open
  mCurGPS,         \* of it, date and time: the clock at the first fix
  mFirstGPS,       \* of it, code_s, date and time
  mStart,          \* <<mStartLat, mStartLon>>
  mGpsRetLst,      \* the predicted destinations
  saver,           \* saveDriverBehavior: step and mLastGPS
  asker,           \* predictDestinationAtStart: step and vecCate; history: the
                   \* text until it is answered, mFirstGPS and the trips
                   \* on file when it began, endCount when it rated
  behFile, posFile,\* the two files
  loaded,          \* records pushed by the last load
  trips, asks, boots,
  heap,            \* history: the first value of endCount
  begun            \* history: where the open trip began; asked about since?

table == <<mGpsPosVec, mInitPosVecSize>>
trip  == <<mGetFirstGPSSig, mCurGPS, begun>>
disk  == <<behFile, posFile>>
bound == <<trips, asks, boots, loaded, heap>>
vars  == <<mBehav, endCount, table, trip, mFirstGPS, mStart, mGpsRetLst, saver,
           asker, disk, bound>>

NoText    == [wellFormed |-> FALSE, root |-> << >>]
SaverIdle == [pc |-> "idle", k |-> 1, rec |-> NoBehavior]
NoCandidates == [k \in 1 .. 4 |-> <<>>]
AskerIdle == [pc |-> "idle", k |-> 1, vecCate |-> NoCandidates,
              text |-> NoText, first |-> NoBehavior, known |-> 0, total |-> 0]
Idle == asker.pc \in {"idle", "done"}

\* mStCntMap.find(code_s) != NULL holds even at end(), so nothing is ever
\* inserted: every record of every start is counted in the one pair behind the
\* last element, on top of what that memory holds.
Counted(h, n) == h + n

\* loadDriverBehavior on a memory of empty drawers: the records of the file and
\* the zeroed one its loop reads past the end.
PutRecord(cells, r) ==
  [c \in Cells |-> IF c \in ToSet(DrawersOf(r))
                   THEN putInDrawer(cells[c], r) ELSE cells[c]]
Loaded(recs) ==
  LET all == IF recs = <<>> THEN <<>> ELSE Append(recs, NoBehavior)
      put[n \in 0 .. Len(all)] ==
        IF n = 0 THEN [c \in Cells |-> <<>>] ELSE PutRecord(put[n - 1], all[n])
  IN  put[Len(all)]

Init ==
  /\ mBehav = Loaded(<<>>)
  /\ heap \in HeapInts /\ endCount = heap
  /\ mGpsPosVec = <<>> /\ mInitPosVecSize = 0
  /\ mGetFirstGPSSig = 0 /\ mCurGPS = NoClock
  /\ mFirstGPS = NoBehavior
  /\ mStart \in HeapPlaces
  /\ mGpsRetLst = <<>>
  /\ saver = SaverIdle /\ asker = AskerIdle
  /\ behFile = <<>> /\ posFile = <<>>
  /\ loaded = 0 /\ trips = 0 /\ asks = 0 /\ boots = 1
  /\ begun = [pos |-> Zero, asked |-> FALSE]

\* A new start of the process, at whatever point the old one ended.
Restart ==
  /\ boots < MaxBoot
  /\ boots' = boots + 1
  /\ LET recs == IF behFile = <<>> THEN <<>> ELSE Append(behFile, NoBehavior)
         pos  == IF posFile = <<>> THEN <<>> ELSE Append(posFile, Zero)
     IN  /\ mBehav' = Loaded(behFile)
         /\ loaded' = Len(recs)
         /\ heap' \in HeapInts
         /\ endCount' = Counted(heap', Len(recs))
         /\ mGpsPosVec' = [k \in 1 .. Len(pos) |->
                             [code |-> ToShort(k - 1), pos |-> pos[k]]]
         /\ mInitPosVecSize' = Len(pos)
  /\ mGetFirstGPSSig' = 0 /\ mCurGPS' = NoClock
  /\ mFirstGPS' = NoBehavior
  /\ mStart' \in HeapPlaces
  /\ mGpsRetLst' = <<>>
  /\ saver' = SaverIdle /\ asker' = AskerIdle
  /\ begun' = [pos |-> Zero, asked |-> FALSE]
  /\ UNCHANGED <<disk, trips, asks>>

-----------------------------------------------------------------------------
(* Recording, as far as the drawers see it.                                *)

\* The first fix of a trip (dispatch thread).
FirstFix(p, now) ==
  /\ Idle /\ saver.pc = "idle"
  /\ mGetFirstGPSSig = 0
  /\ trips < MaxTrip
  /\ trips' = trips + 1
  /\ mGetFirstGPSSig' = 1
  /\ mCurGPS' = now
  /\ LET i == SearchPos(mGpsPosVec, Len(mGpsPosVec), p)
     IN  /\ mGpsPosVec' = AddPos(mGpsPosVec, i, Len(mGpsPosVec), p)
         /\ mFirstGPS' = [NoBehavior EXCEPT !.code_s = ToShort(i),
                                            !.date = now.date, !.time = now.time]
  /\ begun' = [pos |-> p, asked |-> FALSE]
  /\ UNCHANGED <<mBehav, endCount, mInitPosVecSize, mStart, mGpsRetLst, saver,
                 asker, disk, asks, boots, loaded, heap>>

\* lastGPSCallback at p up to its call of saveDriverBehavior (timer thread).
LastFix(p, time) ==
  /\ saver.pc = "idle"
  /\ mGetFirstGPSSig = 1
  /\ LET i   == SearchPos(mGpsPosVec, Len(mGpsPosVec), p)
         rec == [code_s |-> mFirstGPS.code_s, code_d |-> ToShort(i),
                 date |-> mCurGPS.date, time |-> mCurGPS.time,
                 time_d |-> time, count |-> 0]
     IN  /\ rec.code_s # rec.code_d
         /\ mGpsPosVec' = AddPos(mGpsPosVec, i, Len(mGpsPosVec), p)
         /\ saver' = [SaverIdle EXCEPT !.pc = "count", !.rec = rec]
  /\ UNCHANGED <<mBehav, endCount, mInitPosVecSize, trip, mFirstGPS, mStart,
                 mGpsRetLst, asker, disk, bound>>

\* Mutant: the counter is forgotten.
SaveCountNothing ==
  /\ saver.pc = "count"
  /\ saver' = [saver EXCEPT !.pc = "put"]
  /\ UNCHANGED <<mBehav, endCount, table, trip, mFirstGPS, mStart, mGpsRetLst,
                 asker, disk, bound>>

SaveCount ==
  /\ saver.pc = "count"
  /\ endCount' = Counted(endCount, 1)
  /\ saver' = [saver EXCEPT !.pc = "put"]
  /\ UNCHANGED <<mBehav, table, trip, mFirstGPS, mStart, mGpsRetLst, asker,
                 disk, bound>>

\* putInDrawer for the k-th array.
SavePut ==
  /\ saver.pc = "put"
  /\ LET c == DrawersOf(saver.rec)[saver.k]
     IN  mBehav' = [mBehav EXCEPT ![c] = putInDrawer(@, saver.rec)]
  /\ saver' = IF saver.k < 4 THEN [saver EXCEPT !.k = @ + 1]
              ELSE [saver EXCEPT !.pc = "write"]
  /\ UNCHANGED <<endCount, table, trip, mFirstGPS, mStart, mGpsRetLst, asker,
                 disk, bound>>

\* Both files, and the end of the callback.
SaveWrite ==
  /\ saver.pc = "write"
  /\ behFile' = Append(behFile, saver.rec)
  /\ posFile' = posFile \o [k \in 1 .. Len(mGpsPosVec) - mInitPosVecSize |->
                              mGpsPosVec[mInitPosVecSize + k].pos]
  /\ mInitPosVecSize' = Len(mGpsPosVec)
  /\ mGetFirstGPSSig' = 0
  /\ saver' = SaverIdle
  /\ UNCHANGED <<mBehav, endCount, mGpsPosVec, mCurGPS, begun, mFirstGPS, mStart,
                 mGpsRetLst, asker, bound>>

-----------------------------------------------------------------------------
(* Predicting.                                                             *)

\* A request comes in: message, start position, date and time.  What the
\* validations return is not looked at.
predictDestinationAtStart(text, now) ==
  /\ Idle
  /\ asks < MaxAsk
  /\ asks' = asks + 1
  /\ LET msg   == ParseJsonString(text)
         lat   == ValidateJsonDouble("latitude", msg.root, mStart[1]).out
         lon   == ValidateJsonDouble("longitude", msg.root, mStart[2]).out
         i     == SearchPos(mGpsPosVec, Len(mGpsPosVec), mStart')
     IN  /\ mStart' = IF msg.ok THEN <<lat, lon>> ELSE mStart
         /\ mGpsPosVec' = AddPos(mGpsPosVec, i, Len(mGpsPosVec), mStart')
         /\ mFirstGPS' = [mFirstGPS EXCEPT !.code_s = ToShort(i),
                                           !.date = now.date, !.time = now.time]
  /\ asker' = [AskerIdle EXCEPT !.pc = "read", !.text = text,
                                !.first = mFirstGPS', !.known = Len(behFile)]
  /\ begun' = [begun EXCEPT !.asked = TRUE]
  /\ UNCHANGED <<mBehav, endCount, mInitPosVecSize, mGetFirstGPSSig, mCurGPS,
                 mGpsRetLst, saver, disk, trips, boots, loaded, heap>>

\* Mutants: candidates of every start, and one candidate at most.
CandidatesOfAnyone(vec, behav) == SubSeq(vec, 1, IF Len(vec) < PerDrawer THEN Len(vec) ELSE PerDrawer)
CandidatesFirst(vec, behav) ==
  LET own == SelectSeq(vec, LAMBDA e : e.code_s = behav.code_s)
  IN  IF own = <<>> THEN own ELSE <<own[1]>>

\* The first PerDrawer entries of the start.
Candidates(vec, behav) ==
  LET own[j \in 0 .. Len(vec)] ==
        IF j = 0 THEN <<>>
        ELSE IF Len(own[j - 1]) < PerDrawer /\ vec[j].code_s = behav.code_s
        THEN Append(own[j - 1], vec[j])
        ELSE own[j - 1]
  IN  own[Len(vec)]

\* The same, as they go into vecCate: codes, time and count of the entry.
getDestRateFromDraw(vec, behav, date_d) ==
  [j \in 1 .. Len(Candidates(vec, behav)) |->
     LET e == Candidates(vec, behav)[j]
     IN  [code_s |-> e.code_s, code_d |-> e.code_d, date_d |-> date_d,
          time_d |-> e.time_d, count |-> e.count]]

\* The date they get.  getArriveTime returns nothing: what is read as its result
\* is whatever the build leaves there, and decides whether the date of the
\* request goes through getDateByDiffDay.  The time it computes is overwritten
\* by the entry's.
ArrivalDates(date) == {date, getDateByDiffDay(date)}

\* The candidates of the k-th array.
ReadDrawer ==
  /\ asker.pc = "read"
  /\ LET c == DrawersOf(mFirstGPS)[asker.k]
     IN  \E date_d \in ArrivalDates(mFirstGPS.date) :
           asker' = [asker EXCEPT
             !.vecCate[asker.k] = getDestRateFromDraw(mBehav[c], mFirstGPS, date_d),
             !.k = IF asker.k < 4 THEN @ + 1 ELSE 1,
             !.pc = IF asker.k < 4 THEN @ ELSE "rate"]
  /\ UNCHANGED <<mBehav, endCount, table, trip, mFirstGPS, mStart, mGpsRetLst,
                 saver, disk, bound>>

\* Half, three tenths, fifteen and five hundredths, in twentieths.
weights == <<10, 6, 3, 1>>

\* What one candidate of the i-th array does to the list: it raises the rate of
\* its destination, or joins the list, which is complete with three.
Weigh(list, c) ==
  LET same == {k \in 1 .. Len(list) : list[k].code = c.res.code_d}
      part == IF endCount = 0 THEN 0 ELSE c.res.count * c.weight
  IN  IF Len(list) = 3 THEN list
      ELSE IF same # {} THEN [list EXCEPT ![CHOOSE k \in same : TRUE].rate = @ + part]
      ELSE Append(list, [code |-> c.res.code_d, pos |-> Zero, rate |-> part,
                         date_d |-> c.res.date_d, time_d |-> c.res.time_d])

Weighted(vecCate) ==
  LET cands(i) == [j \in 1 .. Len(vecCate[i]) |->
                     [res |-> vecCate[i][j], weight |-> weights[i]]]
  IN  cands(1) \o cands(2) \o cands(3) \o cands(4)

\* The list after the last candidate.
Listed(cands) ==
  LET list[n \in 0 .. Len(cands)] ==
        IF n = 0 THEN <<>> ELSE Weigh(list[n - 1], cands[n])
  IN  list[Len(cands)]

\* A rate is kept as the numerator over 20 * endCount.
Higher(a, b) == IF endCount < 0 THEN a.rate < b.rate ELSE a.rate > b.rate

\* The list sorted by rate.  What is equal here may differ in a float, so equal
\* rates come in any order.
Ranked(list) ==
  {s \in SetToSeqs(ToSet(list)) :
     \A j, k \in 1 .. Len(s) : j < k => ~Higher(s[k], s[j])}

\* getDestAndRate, once the candidates are collected.  The counter is read once;
\* the code reads it anew for every candidate, and a trip counted in between makes
\* rates smaller if it started from 0.
Rate ==
  /\ asker.pc = "rate"
  /\ mGpsRetLst' \in Ranked(Listed(Weighted(asker.vecCate)))
  /\ asker' = [asker EXCEPT !.pc = "done", !.vecCate = NoCandidates,
                             !.text = NoText, !.total = endCount]
  /\ UNCHANGED <<mBehav, endCount, table, trip, mFirstGPS, mStart, saver, disk,
                 bound>>

\* printResult: another getDestAndRate, for mFirstGPS as it is, and the places
\* of the destinations.  Its call is commented out as well; before any fix or
\* request mFirstGPS holds no date.
printResult ==
  /\ Idle
  /\ asks < MaxAsk
  /\ mFirstGPS.date # 0
  /\ asks' = asks + 1
  /\ \E date_d \in ArrivalDates(mFirstGPS.date) :
       LET cells == DrawersOf(mFirstGPS)
           cate  == [k \in 1 .. 4 |-> getDestRateFromDraw(mBehav[cells[k]], mFirstGPS, date_d)]
       IN  \E list \in Ranked(Listed(Weighted(cate))) :
             mGpsRetLst' = [k \in 1 .. Len(list) |->
               [list[k] EXCEPT !.pos = getLatLonByCode(mGpsPosVec, list[k].code)]]
  /\ asker' = [AskerIdle EXCEPT !.pc = "done", !.first = mFirstGPS,
                                !.known = Len(behFile), !.total = endCount]
  /\ UNCHANGED <<mBehav, endCount, table, trip, mFirstGPS, mStart, saver, disk,
                 trips, boots, loaded, heap>>

-----------------------------------------------------------------------------
Save == SaveCount \/ SavePut \/ SaveWrite

Next == \/ Restart
        \/ \E p \in Stops, now \in Clocks : FirstFix(p, now)
        \/ \E p \in Stops, time \in Arrivals : LastFix(p, time)
        \/ Save
        \/ \E text \in Messages, now \in Clocks : predictDestinationAtStart(text, now)
        \/ ReadDrawer \/ Rate \/ printResult

Spec == Init /\ [][Next]_vars
-----------------------------------------------------------------------------
(* Properties.                                                             *)

Entry == [code_s : Code, code_d : Code, date : Nat, time : Nat, time_d : Nat,
          count : Nat \ {0}]
Result == [code : Code, pos : Place, rate : Nat, date_d : Nat, time_d : Nat]

\* Drawers hold counted entries, predictions are rated destinations, and both
\* threads are at one of their steps.
TypeOK ==
  /\ mBehav \in [Cells -> Seq(Entry)]
  /\ endCount \in Int /\ heap \in Int
  /\ mGpsPosVec \in Seq(GPS_POS) /\ mInitPosVecSize \in 0 .. Len(mGpsPosVec)
  /\ mGetFirstGPSSig \in {0, 1}
  /\ mFirstGPS \in Behavior /\ mStart \in Place
  /\ mGpsRetLst \in Seq(Result)
  /\ saver.pc \in {"idle", "count", "put", "write"} /\ saver.rec \in Behavior
  /\ asker.pc \in {"idle", "read", "rate", "done"}
  /\ behFile \in Seq(Behavior) /\ posFile \in Seq(Place)

\* The records counted since the start: those of the load, and those saved.
LoadedRecords ==
  IF loaded = 0 THEN <<>> ELSE Append(SubSeq(behFile, 1, loaded - 1), NoBehavior)
RecordsUpTo(n) ==
  LoadedRecords \o SubSeq(behFile, IF loaded = 0 THEN 1 ELSE loaded, n)
Records == RecordsUpTo(Len(behFile))

\* These and the one in hand; which of them have been put in drawer c.
Known == Append(Records, saver.rec)
PutsDone == CASE saver.pc = "put" -> saver.k - 1
              [] saver.pc = "write" -> 4
              [] OTHER -> 0
PutIn(c) ==
  LET recs == Records
  IN  {k \in 1 .. Len(recs) : c \in ToSet(DrawersOf(recs[k]))}
        \cup {k \in {Len(recs) + 1} : \E n \in 1 .. PutsDone : DrawersOf(saver.rec)[n] = c}

Between(vec, s, d) == {k \in 1 .. Len(vec) : vec[k].code_s = s /\ vec[k].code_d = d}

\* The codes the table has given out, and that of the zeroed record.
Codes == {0} \cup {mGpsPosVec[k].code : k \in 1 .. Len(mGpsPosVec)}

\* No trip is lost or counted twice, whether saved or loaded again: in every
\* drawer the entries of a start and destination together count its trips.
EveryTripCounted ==
  LET recs == Known IN
  \A c \in Cells : LET put == PutIn(c) IN
    \A e \in ToSet(mBehav[c]) \cup {recs[k] : k \in put} :
      MapThenSumSet(LAMBDA k : mBehav[c][k].count, Between(mBehav[c], e.code_s, e.code_d))
        = Cardinality(put \cap Between(recs, e.code_s, e.code_d))

\* In every drawer the destination that leads a start's entries is the first
\* ever seen from it, after a load as well; only its trips are counted
\* together.
FirstDestinationLeads ==
  LET recs == Known IN
  \A c \in Cells : LET put == PutIn(c) IN
    \A k \in put :
      (\A j \in put : j < k => recs[j].code_s # recs[k].code_s) =>
        mBehav[c][FirstOf(mBehav[c], recs[k])].code_d = recs[k].code_d

\* The destination that leads a start's entries is none that is visited less
\* than another ("item in cluster list as count descendent", "big count stay
\* on front").
FrequentDestinationLeads ==
  \A c \in Cells : \A k \in 1 .. Len(mBehav[c]) :
    LET e        == mBehav[c][k]
        Times(d) == Cardinality(PutIn(c) \cap Between(Known, e.code_s, d))
    IN  FirstOf(mBehav[c], e) = k => \A d \in Codes : Times(d) <= Times(e.code_d)

\* Do the day and hour of record r speak for a trip at that of q?  The zeroed
\* record stands for Monday and midnight, and, at index -1, for 11 p.m. and for
\* the 31st.
Speaks(r, q) ==
  LET a == YEAR_MON_DATE_DVT(r.date)
      b == YEAR_MON_DATE_DVT(q.date)
      hour == TIME_DVT(q.time).h
      week == CaculateWeekDay(b.y, b.m, b.d)
  IN  IF r = NoBehavior THEN week = 1 \/ hour \in {0, 23} \/ b.d = 31
      ELSE \/ CaculateWeekDay(a.y, a.m, a.d) = week
           \/ TIME_DVT(r.time).h = hour
           \/ a.d = b.d
           \/ getIdxOfDate(a.y, a.m, a.d) = getIdxOfDate(b.y, b.m, b.d)

Predicted == {mGpsRetLst[k] : k \in 1 .. Len(mGpsRetLst)}

\* Every prediction is a trip once recorded (or the zeroed record) from the
\* start asked for, on a day or at an hour that speaks for it, and arrives at
\* that trip's time.
PredictsRecordedTrips ==
  asker.pc = "done" =>
    \A res \in Predicted : \E r \in ToSet(Known) :
      /\ r.code_s = asker.first.code_s /\ r.code_d = res.code
      /\ r.time_d = res.time_d
      /\ Speaks(r, asker.first)

\* A destination that the records of the start speak for is left out only when
\* the list has its three, or a drawer more candidates than are taken from it.
MissesOnlyForSpace ==
  asker.pc = "done" /\ Len(mGpsRetLst) < 3 =>
    \/ \A r \in ToSet(RecordsUpTo(asker.known)) :
         r.code_s = asker.first.code_s /\ Speaks(r, asker.first) =>
           \E res \in Predicted : res.code = r.code_d
    \/ \E c \in ToSet(DrawersOf(asker.first)) :
         Cardinality({k \in 1 .. Len(mBehav[c]) :
                        mBehav[c][k].code_s = asker.first.code_s}) > PerDrawer

\* Together the rates never exceed 1, even of a trip that is being counted and
\* put while they are computed, if endCount started from 0.
RatesTogetherAtMostOne ==
  asker.pc = "done" /\ heap = 0 =>
    MapThenSumSet(LAMBDA k : mGpsRetLst[k].rate, 1 .. Len(mGpsRetLst)) <= 20 * asker.total

Carries(text, param) ==
  text.wellFormed /\ param \in DOMAIN text.root /\ text.root[param].kind = "double"

\* When the message carries both coordinates as doubles, the start code that
\* the prediction is for names that very place.
AskedStartFound ==
  asker.pc # "idle" /\ Carries(asker.text, "latitude") /\ Carries(asker.text, "longitude") =>
    isIdenticalPos(getLatLonByCode(mGpsPosVec, asker.first.code_s),
                   <<asker.text.root["latitude"].val, asker.text.root["longitude"].val>>)

\* The start code of the record being saved names the place where the trip
\* began, unless a request came in between: predictDestinationAtStart
\* overwrites mFirstGPS of the open trip.
StartKeptUnlessAsked ==
  saver.pc # "idle" /\ ~begun.asked =>
    isIdenticalPos(getLatLonByCode(mGpsPosVec, saver.rec.code_s), begun.pos)
=============================================================================
