--------------------------- MODULE GpsFeed_proofs ---------------------------
(***************************************************************************)
(* The samples calcArrival takes are whole, in order and taken at most      *)
(* twice, however many signals come.                                        *)
(***************************************************************************)
EXTENDS GpsFeed, SequenceTheorems, TLAPS

\* Whoever is inside its critical section holds mGetDataMutex.
Locked ==
  /\ mGetDataMutex = "dispatch" <=> dispatch # "idle"
  /\ mGetDataMutex = "calc" <=> calc \in {"push", "unlock"}

\* How far the handler has written mGpsInfo.
Writing == dispatch \in Field \cup {"set"}
Written ==
  /\ dispatch # "idle" => signals >= 1
  /\ dispatch = "parse" => mGpsInfo.date < signals
  /\ dispatch = "time" => mGpsInfo.date = signals
  /\ dispatch = "latitude" => mGpsInfo.date = signals /\ mGpsInfo.time = signals
  /\ dispatch = "longitude" => /\ mGpsInfo.date = signals /\ mGpsInfo.time = signals
                               /\ mGpsInfo.latitude = signals
  /\ dispatch = "set" => mGpsInfo.date = signals
  /\ dispatch \notin Field => /\ mGpsInfo.date <= signals
                              /\ mGpsInfo = Sample(mGpsInfo.date)

\* calcArrival has been woken, and what it was woken for is written.
Woken  == calc \in {"lock", "push"}
Fresh  == dispatch \notin Field /\ (mGPSDataEvt \/ Woken) => mGpsInfo.date >= 1

\* No sample taken is younger than mGpsInfo, and while the handler writes, all
\* are older than what it writes.
Bounded ==
  \A k \in 1 .. Len(mGpsInfoVec) :
    /\ mGpsInfoVec[k].date <= signals
    /\ Writing => mGpsInfoVec[k].date < signals
    /\ ~Writing => mGpsInfoVec[k].date <= mGpsInfo.date

\* Each copy of the current sample has used up one of the two wake-ups there
\* can be for it: one that was on its way before its signal, and its own.
Taken(n) == n \in 1 .. Len(mGpsInfoVec) /\ mGpsInfoVec[n].date = mGpsInfo.date
Budget ==
  ~Writing =>
    /\ Taken(Len(mGpsInfoVec)) => ~(mGPSDataEvt /\ Woken)
    /\ Taken(Len(mGpsInfoVec) - 1) => ~mGPSDataEvt /\ ~Woken

FeedInv == /\ TypeOK /\ Locked /\ Written /\ Fresh /\ Bounded /\ Budget
           /\ NoTornSample /\ SamplesInOrder /\ AtMostTwice

-----------------------------------------------------------------------------
\* Nothing has been written or taken yet.
LEMMA FeedInit == Init => FeedInv
PROOF
<1> SUFFICES ASSUME Init PROVE FeedInv
  OBVIOUS
<1>1. mGpsInfo \in GPSInfo /\ mGpsInfo.date = 0
  BY DEF Init, Sample, GPSInfo
<1>2. mGpsInfoVec \in Seq(GPSInfo) /\ Len(mGpsInfoVec) = 0
  BY DEF Init
<1>3. TypeOK
  <2>1. signals \in 0 .. MaxSignal
    BY FeedAssumption DEF Init
  <2>2. mGPSDataEvt \in BOOLEAN
    BY Zenon DEF Init
  <2>3. /\ mGetDataMutex \in Threads \cup {NoThread}
        /\ dispatch \in {"idle", "parse", "set", "unlock"} \cup Field
        /\ calc \in {"unborn", "wait", "lock", "push", "unlock"}
    BY DEF Init
  <2> QED
    BY <1>1, <1>2, <2>1, <2>2, <2>3 DEF TypeOK
<1>4. Locked /\ Fresh /\ Written
  BY <1>1 DEF Init, Locked, Fresh, Written, Woken, NoThread, Field
<1>5. Bounded /\ Budget /\ NoTornSample /\ SamplesInOrder /\ AtMostTwice
  BY <1>2 DEF Bounded, Budget, Taken, NoTornSample, SamplesInOrder, AtMostTwice
<1> QED
  BY <1>3, <1>4, <1>5 DEF FeedInv

\* The variables keep their types.
LEMMA FeedTypeStep == TypeOK /\ [Next]_vars => TypeOK'
PROOF
<1> SUFFICES ASSUME TypeOK, [Next]_vars PROVE TypeOK'
  OBVIOUS
<1> USE FeedAssumption DEF TypeOK, Threads, NoThread, Field
<1>1. CASE Deliver
  BY <1>1 DEF Deliver
<1>2. CASE Reject
  BY <1>2 DEF Reject
<1>3. CASE Clear
  <2>1. mGpsInfo' \in GPSInfo
    BY <1>3 DEF Clear, Sample, GPSInfo
  <2> QED
    BY <1>3, <2>1 DEF Clear
<1>4. CASE WriteField
  <2>1. mGpsInfo' \in GPSInfo
    BY <1>4 DEF WriteField, GPSInfo
  <2>2. dispatch' \in {"set"} \cup Field
    BY <1>4 DEF WriteField, After
  <2> QED
    BY <1>4, <2>1, <2>2 DEF WriteField
<1>5. CASE SetEvent
  BY <1>5 DEF SetEvent
<1>6. CASE Unlock
  BY <1>6 DEF Unlock
<1>7. CASE createCalcThread
  BY <1>7 DEF createCalcThread
<1>8. CASE WakeUp
  BY <1>8 DEF WakeUp
<1>9. CASE CalcLock
  BY <1>9 DEF CalcLock
<1>10. CASE Push
  <2>1. mGpsInfoVec' \in Seq(GPSInfo)
    BY <1>10, AppendProperties DEF Push
  <2> QED
    BY <1>10, <2>1 DEF Push
<1>11. CASE CalcUnlock
  BY <1>11 DEF CalcUnlock
<1>12. CASE UNCHANGED vars
  BY <1>12 DEF vars
<1> QED
  BY <1>1, <1>2, <1>3, <1>4, <1>5, <1>6, <1>7, <1>8, <1>9, <1>10, <1>11, <1>12
  DEF Next, Handler, calcArrival

\* The lock is respected, and the handler writes one field after the other.
LEMMA ControlStep ==
  TypeOK /\ Locked /\ Written /\ Fresh /\ [Next]_vars => Locked' /\ Written' /\ Fresh'
PROOF
<1> SUFFICES ASSUME TypeOK, Locked, Written, Fresh, [Next]_vars
             PROVE  Locked' /\ Written' /\ Fresh'
  OBVIOUS
<1>0. signals \in Nat /\ mGpsInfo \in GPSInfo /\ mGpsInfo.date \in Nat
  BY FeedAssumption DEF TypeOK, GPSInfo
<1>1. CASE Deliver
  <2>1. mGpsInfo.date <= signals /\ mGpsInfo = Sample(mGpsInfo.date)
    BY <1>1 DEF Deliver, Written, Field
  <2> QED
    BY <1>0, <1>1, <2>1 DEF Deliver, Locked, Written, Fresh, Woken, Field, NoThread
<1>2. CASE Reject
  BY <1>0, <1>2 DEF Reject, Locked, Written, Fresh, Woken, Field
<1>3. CASE Clear
  BY <1>0, <1>3 DEF Clear, Locked, Written, Fresh, Woken, Field
<1>4. CASE WriteField
  <2>1. dispatch \in Field /\ dispatch' \in Field \cup {"set"} /\ dispatch' # "date"
    BY <1>4 DEF WriteField, After, Field
  <2>2. Locked'
    BY <1>4, <2>1 DEF WriteField, Locked, Field
  <2>3. /\ dispatch' = "time" => mGpsInfo'.date = signals
        /\ dispatch' = "latitude" => mGpsInfo'.date = signals /\ mGpsInfo'.time = signals
        /\ dispatch' = "longitude" => /\ mGpsInfo'.date = signals /\ mGpsInfo'.time = signals
                                      /\ mGpsInfo'.latitude = signals
        /\ dispatch' = "set" => mGpsInfo' = Sample(signals)
    <3>1. CASE dispatch = "date"
      BY <1>0, <1>4, <3>1 DEF WriteField, After, GPSInfo
    <3>2. CASE dispatch = "time"
      BY <1>0, <1>4, <3>2 DEF WriteField, After, Written, GPSInfo
    <3>3. CASE dispatch = "latitude"
      BY <1>0, <1>4, <3>3 DEF WriteField, After, Written, GPSInfo
    <3>4. CASE dispatch = "longitude"
      BY <1>0, <1>4, <3>4 DEF WriteField, After, Written, Sample, GPSInfo
    <3> QED
      BY <2>1, <3>1, <3>2, <3>3, <3>4 DEF Field
  <2>4. signals >= 1 /\ signals' = signals
    BY <1>4 DEF WriteField, Written, Field
  <2>5. Written'
    BY <1>0, <2>1, <2>3, <2>4 DEF Written, Sample, Field
  <2>6. Fresh'
    BY <1>0, <2>1, <2>3, <2>4 DEF Fresh, Field, Sample
  <2> QED
    BY <2>2, <2>5, <2>6
<1>5. CASE SetEvent
  BY <1>0, <1>5 DEF SetEvent, Locked, Written, Fresh, Woken, Field
<1>6. CASE Unlock
  BY <1>0, <1>6 DEF Unlock, Locked, Written, Fresh, Woken, Field, NoThread
<1>7. CASE createCalcThread
  BY <1>0, <1>7 DEF createCalcThread, Locked, Written, Fresh, Woken
<1>8. CASE WakeUp
  BY <1>0, <1>8 DEF WakeUp, Locked, Written, Fresh, Woken
<1>9. CASE CalcLock
  BY <1>0, <1>9 DEF CalcLock, Locked, Written, Fresh, Woken, NoThread
<1>10. CASE Push
  BY <1>0, <1>10 DEF Push, Locked, Written, Fresh, Woken
<1>11. CASE CalcUnlock
  BY <1>0, <1>11 DEF CalcUnlock, Locked, Written, Fresh, Woken, NoThread
<1>12. CASE UNCHANGED vars
  BY <1>12 DEF vars, Locked, Written, Fresh, Woken
<1> QED
  BY <1>1, <1>2, <1>3, <1>4, <1>5, <1>6, <1>7, <1>8, <1>9, <1>10, <1>11, <1>12
  DEF Next, Handler, calcArrival

\* A step that takes no sample and takes back no signal keeps what is
\* said of the samples alone.
LEMMA KeepsSamples ==
  ASSUME TypeOK, NoTornSample, SamplesInOrder, AtMostTwice,
         mGpsInfoVec' = mGpsInfoVec, signals' \in Nat, signals <= signals'
  PROVE  NoTornSample' /\ SamplesInOrder' /\ AtMostTwice'
PROOF
<1>1. NoTornSample'
  BY DEF TypeOK, NoTornSample
<1>2. SamplesInOrder' /\ AtMostTwice'
  BY DEF SamplesInOrder, AtMostTwice
<1> QED
  BY <1>1, <1>2

\* What is known of the samples taken: only Push adds one, Clear begins and
\* SetEvent ends a younger one.
LEMMA SamplesStep ==
  FeedInv /\ [Next]_vars =>
    Bounded' /\ Budget' /\ NoTornSample' /\ SamplesInOrder' /\ AtMostTwice'
PROOF
<1> SUFFICES ASSUME FeedInv, [Next]_vars
             PROVE  /\ Bounded' /\ Budget'
                    /\ NoTornSample' /\ SamplesInOrder' /\ AtMostTwice'
  OBVIOUS
<1> DEFINE n == Len(mGpsInfoVec)
<1>0. /\ TypeOK /\ Locked /\ Written /\ Fresh /\ Bounded /\ Budget
      /\ NoTornSample /\ SamplesInOrder /\ AtMostTwice
  BY DEF FeedInv
<1>a. /\ signals \in Nat /\ mGpsInfo.date \in Nat /\ n \in Nat
      /\ \A k \in 1 .. n : mGpsInfoVec[k].date \in Nat
  <2>1. \A k \in 1 .. n : mGpsInfoVec[k] \in GPSInfo
    BY <1>0, ElementOfSeq DEF TypeOK
  <2> QED
    BY <1>0, <2>1, FeedAssumption DEF TypeOK, GPSInfo
<1>1. CASE Deliver
  <2>1. ~Writing /\ ~Writing' /\ mGpsInfo.date <= signals
    BY <1>0, <1>1 DEF Deliver, Writing, Written, Field
  <2>2. Bounded' /\ Budget'
    BY <1>0, <1>a, <1>1, <2>1 DEF Deliver, Bounded, Budget, Taken, Woken
  <2> QED
    BY <1>0, <1>a, <1>1, <2>2, KeepsSamples DEF Deliver
<1>2. CASE Reject
  <2>1. ~Writing /\ ~Writing'
    BY <1>2 DEF Reject, Writing, Field
  <2>2. Bounded' /\ Budget'
    BY <1>0, <1>a, <1>2, <2>1 DEF Reject, Bounded, Budget, Taken, Woken
  <2> QED
    BY <1>0, <1>a, <1>2, <2>2, KeepsSamples DEF Reject
<1>3. CASE Clear
  <2>1. ~Writing /\ Writing' /\ mGpsInfo.date < signals
    BY <1>0, <1>3 DEF Clear, Writing, Written, Field
  <2>2. Bounded' /\ Budget'
    BY <1>0, <1>a, <1>3, <2>1 DEF Clear, Bounded, Budget
  <2> QED
    BY <1>0, <1>a, <1>3, <2>2, KeepsSamples DEF Clear
<1>4. CASE WriteField
  <2>1. Writing /\ Writing'
    BY <1>4 DEF WriteField, Writing, Field, After
  <2>2. Bounded' /\ Budget'
    BY <1>0, <1>a, <1>4, <2>1 DEF WriteField, Bounded, Budget
  <2> QED
    BY <1>0, <1>a, <1>4, <2>2, KeepsSamples DEF WriteField
<1>5. CASE SetEvent
  <2>1. Writing /\ ~Writing' /\ mGpsInfo'.date = signals
    BY <1>0, <1>5 DEF SetEvent, Writing, Written, Field
  <2>2. \A k \in 1 .. n : mGpsInfoVec[k].date < signals
    BY <1>0, <2>1 DEF Bounded
  <2>3. Bounded' /\ Budget'
    BY <1>a, <1>5, <2>1, <2>2 DEF SetEvent, Bounded, Budget, Taken
  <2> QED
    BY <1>0, <1>a, <1>5, <2>3, KeepsSamples DEF SetEvent
<1>6. CASE Unlock
  <2>1. ~Writing /\ ~Writing'
    BY <1>6 DEF Unlock, Writing, Field
  <2>2. Bounded' /\ Budget'
    BY <1>0, <1>a, <1>6, <2>1 DEF Unlock, Bounded, Budget, Taken, Woken
  <2> QED
    BY <1>0, <1>a, <1>6, <2>2, KeepsSamples DEF Unlock
<1>7. CASE createCalcThread
  <2>1. Bounded' /\ Budget'
    BY <1>0, <1>7 DEF createCalcThread, Bounded, Budget, Taken, Writing, Woken
  <2> QED
    BY <1>0, <1>a, <1>7, <2>1, KeepsSamples DEF createCalcThread
<1>8. CASE WakeUp
  <2>1. Bounded' /\ Budget'
    BY <1>0, <1>8 DEF WakeUp, Bounded, Budget, Taken, Writing, Woken
  <2> QED
    BY <1>0, <1>a, <1>8, <2>1, KeepsSamples DEF WakeUp
<1>9. CASE CalcLock
  <2>1. Bounded' /\ Budget'
    BY <1>0, <1>9 DEF CalcLock, Bounded, Budget, Taken, Writing, Woken
  <2> QED
    BY <1>0, <1>a, <1>9, <2>1, KeepsSamples DEF CalcLock
<1>10. CASE Push
  <2>1. dispatch = "idle" /\ calc = "push" /\ calc' = "unlock"
    BY <1>0, <1>10 DEF Push, Locked
  <2>2. /\ mGpsInfo = Sample(mGpsInfo.date) /\ ~Writing /\ ~Writing'
        /\ mGpsInfo.date >= 1 /\ mGpsInfo.date <= signals
    BY <1>0, <1>10, <2>1 DEF Push, Written, Fresh, Woken, Writing, Field
  <2>3. /\ Len(mGpsInfoVec') = n + 1
        /\ mGpsInfoVec'[n + 1] = mGpsInfo
        /\ \A k \in 1 .. n : mGpsInfoVec'[k] = mGpsInfoVec[k]
        /\ UNCHANGED <<mGPSDataEvt, mGpsInfo, signals>>
    BY <1>0, <1>10 DEF Push, TypeOK
  <2>4. \A k \in 1 .. n : mGpsInfoVec[k].date <= mGpsInfo.date
    BY <1>0, <2>2 DEF Bounded
  <2>5. Bounded'
    BY <1>a, <2>2, <2>3, <2>4 DEF Bounded
  <2>6. Budget'
    BY <1>0, <1>a, <2>1, <2>2, <2>3 DEF Budget, Taken, Woken
  <2>7. NoTornSample'
    BY <1>0, <1>a, <2>2, <2>3 DEF NoTornSample
  <2>8. SamplesInOrder'
    BY <1>0, <1>a, <2>3, <2>4 DEF SamplesInOrder
  <2>9. n >= 2 => mGpsInfoVec[n - 1].date < mGpsInfo.date
    BY <1>0, <1>a, <2>1, <2>2, <2>4 DEF Budget, Taken, Woken
  <2>10. AtMostTwice'
    BY <1>0, <1>a, <2>3, <2>9 DEF AtMostTwice
  <2> QED
    BY <2>5, <2>6, <2>7, <2>8, <2>10
<1>11. CASE CalcUnlock
  <2>1. Bounded' /\ Budget'
    BY <1>0, <1>11 DEF CalcUnlock, Bounded, Budget, Taken, Writing, Woken
  <2> QED
    BY <1>0, <1>a, <1>11, <2>1, KeepsSamples DEF CalcUnlock
<1>12. CASE UNCHANGED vars
  <2>1. Bounded' /\ Budget'
    BY <1>0, <1>12 DEF vars, Bounded, Budget, Taken, Writing, Woken
  <2> QED
    BY <1>0, <1>a, <1>12, <2>1, KeepsSamples DEF vars
<1> QED
  BY <1>1, <1>2, <1>3, <1>4, <1>5, <1>6, <1>7, <1>8, <1>9, <1>10, <1>11, <1>12
  DEF Next, Handler, calcArrival

\* The argument as a whole.
LEMMA FeedInvariant == Spec => []FeedInv
PROOF
<1>1. FeedInv /\ [Next]_vars => FeedInv'
  BY FeedTypeStep, ControlStep, SamplesStep DEF FeedInv
<1> QED
  BY <1>1, FeedInit, PTL DEF Spec

\* Both threads and what they share keep to their types, mGpsInfoVec however long.
THEOREM FeedTypes == Spec => []TypeOK
PROOF
<1>1. FeedInv => TypeOK
  BY DEF FeedInv
<1> QED
  BY <1>1, FeedInvariant, PTL

\* calcArrival never copies a half-written or cleared mGpsInfo.
THEOREM SamplesAreWhole == Spec => []NoTornSample
PROOF
<1>1. FeedInv => NoTornSample
  BY DEF FeedInv
<1> QED
  BY <1>1, FeedInvariant, PTL

\* calcArrival copies samples in the order their signals came.
THEOREM SamplesStayInOrder == Spec => []SamplesInOrder
PROOF
<1>1. FeedInv => SamplesInOrder
  BY DEF FeedInv
<1> QED
  BY <1>1, FeedInvariant, PTL

\* The wake-up that outlives the sample it was for lets calcArrival copy one
\* sample twice; nothing lets it copy one three times.
THEOREM NeverThrice == Spec => []AtMostTwice
PROOF
<1>1. FeedInv => AtMostTwice
  BY DEF FeedInv
<1> QED
  BY <1>1, FeedInvariant, PTL
=============================================================================
