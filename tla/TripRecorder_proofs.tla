------------------------ MODULE TripRecorder_proofs ------------------------
(***************************************************************************)
(* The recorder for every set of places and every bound, whatever the heap  *)
(* holds and however the handler and the callbacks overlap: its variables   *)
(* keep their C++ types, and no fix is forgotten.  The inductive invariant  *)
(* FixInv says, besides the two properties proved, which callback belongs   *)
(* to which timer, that mCurGPS carries the last fix whenever a callback    *)
(* may copy it, and which timer the handler is about to start.              *)
(* TypeStep and FixStep have one step per action of TripRecorder.           *)
(***************************************************************************)
EXTENDS TripRecorder, PlaceTable_proofs, SequenceTheorems

\* TypeOK, and what SigNewTimer needs to name its timer: a handler under way
\* has a fix.
TypeInv == TypeOK /\ (sig.pc # "idle" => fixes # <<>>)

\* The values a process starts with have their types.
LEMMA BlankTypes ==
  /\ NoBehavior \in Behavior /\ SigIdle \in SigState /\ CbIdle \in CbState
  /\ NoTimer \in TimerState
  /\ <<>> \in Seq(Behavior) /\ <<>> \in Seq(GPS_POS) /\ <<>> \in Seq(Place)
PROOF
  BY PlaceAssumption, RecorderAssumption
  DEF NoBehavior, Behavior, Code, Stamp, SigIdle, SigState, CbIdle, CbState,
      NoTimer, TimerState

\* Restarting a timer leaves timers.
LEMMA RestartedType ==
  ASSUME TypeOK, NEW t \in Timers, NEW on \in BOOLEAN
  PROVE  Restarted(t, on) \in [Timers -> TimerState]
PROOF
  BY DEF TypeOK, TimerState, Restarted

\* A process that stops, stops in a state of the right type.
LEMMA HaltType ==
  ASSUME TypeOK, NEW how \in {"off", "crash"}, Halt(how)
  PROVE  TypeInv'
PROOF
<1>1. sig' \in SigState /\ cb' \in [Timers -> CbState] /\ timers' \in [Timers -> TimerState]
  BY BlankTypes DEF Halt
<1>2. mCurGPS' \in Behavior /\ mFirstGPS' \in Behavior /\ mLastGPS' \in Behavior
  BY BlankTypes DEF Halt
<1>3. mGpsPosVec' \in Seq(GPS_POS) /\ mBehavGpsVec' \in Seq(Behavior)
  BY BlankTypes DEF Halt
<1> QED
  BY <1>1, <1>2, <1>3, PlaceAssumption DEF Halt, TypeInv, TypeOK, SigIdle, disk

\* The program starts in a state of the right type.
LEMMA TypeInit == Init => TypeInv
PROOF
<1> SUFFICES ASSUME Init PROVE TypeInv
  OBVIOUS
<1>1. behFile \in File(Behavior) /\ posFile \in File(Place)
  BY BlankTypes DEF Init, NoFile, File
<1> QED
  BY <1>1, BlankTypes, PlaceAssumption, RecorderAssumption
  DEF Init, TypeInv, TypeOK, Stamp, SigIdle

\* Every step keeps the types.
LEMMA TypeStep == TypeInv /\ [Next]_vars => TypeInv'
PROOF
<1> SUFFICES ASSUME TypeInv, [Next]_vars PROVE TypeInv'
  OBVIOUS
<1> USE DEF TypeInv, env, memory, trip, table, disk
<1>1. CASE Boot
  <2>1. bootFix' \in Stamp /\ snapped' \in Stamp
    BY <1>1 DEF TypeOK, Boot, Stamp
  <2>2. mLastGPSTimer' \in Timers \cup {NULL, Wild} /\ mInitPosVecSize' \in Int
    BY <1>1, RecorderAssumption DEF Boot
  <2> QED
    BY <1>1, <2>1, <2>2 DEF TypeOK, Boot
<1>2. CASE LoadBehaviors
  <2>1. behFile.recs \in Seq(Behavior)
    BY <1>2 DEF TypeOK, File
  <2>2. mBehavGpsVec \o behFile.recs \in Seq(Behavior)
    BY <1>2, <2>1 DEF TypeOK
  <2>3. Append(mBehavGpsVec \o behFile.recs, NoBehavior) \in Seq(Behavior)
    BY <1>2, <2>2, BlankTypes
  <2>4. mBehavGpsVec' \in Seq(Behavior)
    BY <1>2, <2>3 DEF TypeOK, LoadBehaviors
  <2> QED
    BY <1>2, <2>1, <2>2, <2>3, <2>4 DEF TypeOK, LoadBehaviors
<1>3. CASE LoadPosition
  <2>1. posFile.recs \in Seq(Place)
    BY <1>3 DEF TypeOK, File
  <2>2. \A p \in Place : [code |-> ToShort(loadIdx), pos |-> p] \in GPS_POS
    BY <1>3, ToShortType DEF TypeOK, GPS_POS
  <2>3. mGpsPosVec' \in Seq(GPS_POS)
    BY <1>3, <2>1, <2>2, PlaceAssumption DEF TypeOK, LoadPosition
  <2>4. loadIdx' \in Nat /\ phase' \in {"pos", "run"} /\ mInitPosVecSize' \in Int
    BY <1>3, <2>1, <2>3 DEF TypeOK, LoadPosition
  <2> QED
    BY <1>3, <2>1, <2>2, <2>3, <2>4 DEF TypeOK, LoadPosition
<1>4. CASE PowerOff
  BY <1>4, HaltType DEF PowerOff
<1>5. CASE SigSetLatLon
  <2>1. sig' \in SigState
    BY <1>5 DEF TypeOK, SigState, SigSetLatLon
  <2>2. mCurPos' \in Place
    BY <1>5 DEF TypeOK, SigState, SigSetLatLon
  <2> QED
    BY <1>5, <2>1, <2>2 DEF TypeOK, SigSetLatLon
<1>6. CASE SigFirst
  <2>1. sig' \in SigState
    BY <1>6 DEF TypeOK, SigState, SigFirst
  <2> QED
    BY <1>6, <2>1 DEF TypeOK, SigFirst
<1>6a. CASE SigDate
  <2>1. sig' \in SigState
    BY <1>6a DEF TypeOK, SigState, SigDate
  <2>2. Len(fixes) \in Stamp
    BY RecorderAssumption DEF TypeOK, Stamp
  <2>3. mCurGPS' \in Behavior
    BY <1>6a, <2>2 DEF TypeOK, SigDate, Behavior
  <2> QED
    BY <1>6a, <2>1, <2>3 DEF TypeOK, SigDate
<1>6b. CASE SigOpen
  <2>1. sig' \in SigState
    BY <1>6b DEF TypeOK, SigState, SigOpen
  <2> QED
    BY <1>6b, <2>1 DEF TypeOK, SigOpen
<1>6c. CASE SigCopy
  <2>1. sig' \in SigState
    BY <1>6c DEF TypeOK, SigState, SigCopy
  <2> QED
    BY <1>6c, <2>1 DEF TypeOK, SigCopy
<1>7. CASE SigSearch
  <2>1. sig.place \in Place /\ sig \in SigState
    BY <1>7 DEF TypeOK, SigState
  <2>2. Len(mGpsPosVec) \in Nat
    BY <1>7 DEF TypeOK
  <2>3. SearchPos(mGpsPosVec, Len(mGpsPosVec), sig.place) \in Nat
    BY <1>7, <2>2, SearchPosBounds
  <2>4. sig' \in SigState
    BY <1>7, <2>1, <2>2, <2>3 DEF SigState, SigSearch
  <2> QED
    BY <1>7, <2>1, <2>2, <2>3, <2>4 DEF TypeOK, SigSearch
<1>8. CASE SigAdd
  <2>1. sig.i \in Nat /\ sig.size \in Nat /\ sig.place \in Place
    BY <1>8 DEF TypeOK, SigState
  <2>2. mGpsPosVec' \in Seq(GPS_POS)
    BY <1>8, <2>1, AddPosType DEF TypeOK, SigAdd
  <2>3. sig' \in SigState
    BY <1>8 DEF TypeOK, SigState, SigAdd
  <2> QED
    BY <1>8, <2>2, <2>3 DEF TypeOK, SigAdd
<1>8a. CASE SigCurCode
  <2>1. ToShort(sig.i) \in Code
    BY ToShortType DEF TypeOK, SigState
  <2>2. mCurGPS' \in Behavior
    BY <1>8a, <2>1 DEF TypeOK, SigCurCode, Behavior
  <2>3. sig' \in SigState
    BY <1>8a DEF TypeOK, SigState, SigCurCode
  <2> QED
    BY <1>8a, <2>2, <2>3 DEF TypeOK, SigCurCode
<1>8b. CASE SigFirstCode
  <2>1. ToShort(sig.i) \in Code
    BY ToShortType DEF TypeOK, SigState
  <2>2. mFirstGPS' \in Behavior
    BY <1>8b, <2>1 DEF TypeOK, SigFirstCode, Behavior
  <2>3. sig' \in SigState
    BY <1>8b DEF TypeOK, SigState, SigFirstCode
  <2> QED
    BY <1>8b, <2>2, <2>3 DEF TypeOK, SigFirstCode
<1>9. CASE SigTestTimer
  <2>1. sig' \in SigState
    BY <1>9 DEF TypeOK, SigState, SigTestTimer
  <2> QED
    BY <1>9, <2>1 DEF TypeOK, SigTestTimer
<1>10. CASE SigNewTimer
  <2>1. Len(fixes) \in Timers
    BY <1>10, RecorderAssumption DEF TypeOK, SigNewTimer, Timers
  <2>2. mLastGPSTimer' \in Timers
    BY <1>10, <2>1 DEF SigNewTimer
  <2>3. timers' \in [Timers -> TimerState]
    BY <1>10, <2>1 DEF TypeOK, TimerState, SigNewTimer
  <2>4. sig' \in SigState
    BY <1>10 DEF TypeOK, SigState, SigNewTimer
  <2> QED
    BY <1>10, <2>1, <2>2, <2>3, <2>4 DEF TypeOK, SigNewTimer
<1>11. CASE SigStartTimer
  <2>1. CASE mLastGPSTimer \in Timers
    <3>1. timers' \in [Timers -> TimerState]
      BY <1>11, <2>1 DEF TypeOK, TimerState, SigStartTimer
    <3>2. sig' = SigIdle
      BY <1>11, <2>1 DEF SigStartTimer
    <3> QED
      BY <1>11, <2>1, <3>1, <3>2, BlankTypes DEF TypeOK, SigStartTimer, SigIdle
  <2>2. CASE ~(mLastGPSTimer \in Timers)
    BY <1>11, <2>2, HaltType DEF SigStartTimer
  <2> QED
    BY <2>1, <2>2
<1>12. CASE SigRestartTimer
  <2>1. CASE mLastGPSTimer \in Timers
    <3>1. timers' \in [Timers -> TimerState]
      BY <1>12, <2>1, RestartedType DEF TypeOK, SigRestartTimer
    <3>2. sig' = SigIdle
      BY <1>12, <2>1 DEF SigRestartTimer
    <3> QED
      BY <1>12, <2>1, <3>1, <3>2, BlankTypes
      DEF TypeOK, SigRestartTimer, SigIdle
  <2>2. CASE ~(mLastGPSTimer \in Timers)
    BY <1>12, <2>2, HaltType DEF SigRestartTimer
  <2> QED
    BY <2>1, <2>2
<1>13. ASSUME NEW p \in Place, GPSSignal(p) PROVE TypeInv'
  <2>1. fixes' \in Seq(Place) /\ Len(fixes') = Len(fixes) + 1 /\ Len(fixes') \in Stamp
    BY <1>13, RecorderAssumption DEF TypeOK, GPSSignal, Stamp
  <2>2. mCurGPS' \in Behavior
    BY <1>13, <2>1 DEF TypeOK, GPSSignal, Behavior
  <2>3. sig' \in SigState
    BY <1>13 DEF TypeOK, GPSSignal, SigState, SigIdle
  <2>4. Len(fixes') <= MaxFix /\ fixes' # <<>>
    BY <1>13, <2>1, RecorderAssumption DEF TypeOK, Stamp
  <2> QED
    BY <1>13, <2>1, <2>2, <2>3, <2>4 DEF TypeOK, GPSSignal
<1>14. ASSUME NEW t \in Timers, TimerFire(t) PROVE TypeInv'
  <2>1. timers' \in [Timers -> TimerState]
    BY <1>14 DEF TypeOK, TimerState, TimerFire
  <2>2. cb' \in [Timers -> CbState]
    BY <1>14 DEF TypeOK, CbState, TimerFire
  <2> QED
    BY <1>14, <2>1, <2>2 DEF TypeOK, TimerFire
<1>15. ASSUME NEW t \in Timers, CbStop(t) PROVE TypeInv'
  <2>1. CASE mLastGPSTimer \in Timers
    <3>1. timers' \in [Timers -> TimerState]
      BY <1>15, <2>1, RestartedType DEF TypeOK, CbStop
    <3>2. cb' \in [Timers -> CbState]
      BY <1>15, <2>1 DEF TypeOK, CbState, CbStop
    <3> QED
      BY <1>15, <2>1, <3>1, <3>2, BlankTypes DEF TypeOK, CbStop, SigIdle
  <2>2. CASE ~(mLastGPSTimer \in Timers)
    BY <1>15, <2>2, HaltType DEF CbStop
  <2> QED
    BY <2>1, <2>2
<1>16. ASSUME NEW t \in Timers, CbClear(t) PROVE TypeInv'
  <2>1. cb' \in [Timers -> CbState]
    BY <1>16 DEF TypeOK, CbState, CbClear
  <2> QED
    BY <1>16, <2>1 DEF TypeOK, CbClear
<1>17. ASSUME NEW t \in Timers, CbSnap(t) PROVE TypeInv'
  <2>1. cb' \in [Timers -> CbState]
    BY <1>17 DEF TypeOK, CbState, CbSnap
  <2>2. snapped' \in Stamp
    BY <1>17 DEF TypeOK, CbSnap, Behavior
  <2> QED
    BY <1>17, <2>1, <2>2 DEF TypeOK, CbSnap
<1>18. ASSUME NEW t \in Timers, CbSize(t) PROVE TypeInv'
  <2>1. Len(mGpsPosVec) \in Nat
    BY <1>18 DEF TypeOK
  <2>2. cb' \in [Timers -> CbState]
    BY <1>18, <2>1 DEF TypeOK, CbState, CbSize
  <2> QED
    BY <1>18, <2>2 DEF TypeOK, CbSize
<1>18a. ASSUME NEW t \in Timers, CbStartCode(t) PROVE TypeInv'
  <2>1. cb' \in [Timers -> CbState]
    BY <1>18a DEF TypeOK, CbState, CbStartCode
  <2>2. mLastGPS' \in Behavior
    BY <1>18a DEF TypeOK, CbStartCode, Behavior
  <2> QED
    BY <1>18a, <2>1, <2>2 DEF TypeOK, CbStartCode
<1>19. ASSUME NEW t \in Timers, CbSearch(t) PROVE TypeInv'
  <2>1. cb[t].size \in Nat /\ cb[t] \in CbState
    BY <1>19 DEF TypeOK, CbState
  <2>2. SearchPos(mGpsPosVec, cb[t].size, mCurPos) \in Nat
    BY <1>19, <2>1, SearchPosBounds
  <2>3. cb' \in [Timers -> CbState]
    BY <1>19, <2>1, <2>2 DEF TypeOK, CbState, CbSearch
  <2> QED
    BY <1>19, <2>1, <2>2, <2>3 DEF TypeOK, CbSearch
<1>20. ASSUME NEW t \in Timers, CbAdd(t) PROVE TypeInv'
  <2>1. cb[t].i \in Nat /\ cb[t].size \in Nat /\ cb[t].place \in Place
    BY <1>20 DEF TypeOK, CbState
  <2>2. mGpsPosVec' \in Seq(GPS_POS)
    BY <1>20, <2>1, AddPosType DEF TypeOK, CbAdd
  <2>3. cb' \in [Timers -> CbState]
    BY <1>20 DEF TypeOK, CbState, CbAdd
  <2> QED
    BY <1>20, <2>2, <2>3 DEF TypeOK, CbAdd
<1>20a. ASSUME NEW t \in Timers, CbDestCode(t) PROVE TypeInv'
  <2>1. ToShort(cb[t].i) \in Code
    BY <1>20a, ToShortType DEF TypeOK, CbState
  <2>2. mLastGPS' \in Behavior
    BY <1>20a, <2>1 DEF TypeOK, CbDestCode, Behavior
  <2>3. cb' \in [Timers -> CbState]
    BY <1>20a DEF TypeOK, CbState, CbDestCode
  <2> QED
    BY <1>20a, <2>2, <2>3 DEF TypeOK, CbDestCode
<1>21. ASSUME NEW t \in Timers, CbDecide(t) PROVE TypeInv'
  <2>1. cb' \in [Timers -> CbState]
    BY <1>21 DEF TypeOK, CbState, CbDecide
  <2> QED
    BY <1>21, <2>1 DEF TypeOK, CbDecide
<1>22. ASSUME NEW t \in Timers, OpenBehaviors(t) PROVE TypeInv'
  <2>1. \E pc \in {"push", "reset"} : cb' = [cb EXCEPT ![t].pc = pc]
    BY <1>22 DEF OpenBehaviors
  <2>2. cb' \in [Timers -> CbState]
    BY <1>22, <2>1 DEF TypeOK, CbState
  <2>3. behFile' = [behFile EXCEPT !.made = TRUE] \/ behFile' = behFile
    BY <1>22 DEF OpenBehaviors
  <2>4. behFile' \in File(Behavior)
    BY <1>22, <2>3 DEF TypeOK, File
  <2>5. fails' \in Nat
    BY <1>22 DEF TypeOK, OpenBehaviors
  <2> QED
    BY <1>22, <2>1, <2>2, <2>3, <2>4, <2>5 DEF TypeOK, OpenBehaviors
<1>23. ASSUME NEW t \in Timers, PushBehavior(t) PROVE TypeInv'
  <2>1. cb' \in [Timers -> CbState]
    BY <1>23 DEF TypeOK, CbState, PushBehavior
  <2>2. mBehavGpsVec' \in Seq(Behavior)
    BY <1>23 DEF TypeOK, PushBehavior
  <2> QED
    BY <1>23, <2>1, <2>2 DEF TypeOK, PushBehavior
<1>24. ASSUME NEW t \in Timers, WriteBehavior(t) PROVE TypeInv'
  <2>1. cb' \in [Timers -> CbState]
    BY <1>24 DEF TypeOK, CbState, WriteBehavior
  <2>2. behFile.recs \in Seq(Behavior) /\ mLastGPS \in Behavior
    BY <1>24 DEF TypeOK, File
  <2>3. Append(behFile.recs, mLastGPS) \in Seq(Behavior)
    BY <1>24, <2>2
  <2>4. behFile' \in File(Behavior)
    BY <1>24, <2>3 DEF TypeOK, WriteBehavior, File
  <2> QED
    BY <1>24, <2>1, <2>2, <2>3, <2>4 DEF TypeOK, WriteBehavior
<1>25. ASSUME NEW t \in Timers, OpenPositions(t) PROVE TypeInv'
  <2>1. \E pc \in {"writePos", "reset"} : cb' = [cb EXCEPT ![t].pc = pc]
    BY <1>25 DEF OpenPositions
  <2>2. cb' \in [Timers -> CbState]
    BY <1>25, <2>1 DEF TypeOK, CbState
  <2>3. posFile' = [posFile EXCEPT !.made = TRUE] \/ posFile' = posFile
    BY <1>25 DEF OpenPositions
  <2>4. posFile' \in File(Place)
    BY <1>25, <2>3 DEF TypeOK, File
  <2>5. fails' \in Nat
    BY <1>25 DEF TypeOK, OpenPositions
  <2> QED
    BY <1>25, <2>1, <2>2, <2>3, <2>4, <2>5 DEF TypeOK, OpenPositions
<1>26. ASSUME NEW t \in Timers, WritePositions(t) PROVE TypeInv'
  <2> DEFINE new == [k \in 1 .. Len(mGpsPosVec) - mInitPosVecSize |->
                       mGpsPosVec[mInitPosVecSize + k].pos]
  <2>1. cb' \in [Timers -> CbState]
    BY <1>26 DEF TypeOK, CbState, WritePositions
  <2>2. mGpsPosVec \in Seq(GPS_POS) /\ mInitPosVecSize \in Int /\ Len(mGpsPosVec) \in Nat
    BY DEF TypeOK
  <2>3. \A k \in 1 .. Len(mGpsPosVec) : mGpsPosVec[k].pos \in Place
    <3>1. \A k \in 1 .. Len(mGpsPosVec) : mGpsPosVec[k] \in GPS_POS
      BY <2>2, ElementOfSeq
    <3> QED
      BY <3>1 DEF GPS_POS
  <2>4. ASSUME mInitPosVecSize \in 0 .. Len(mGpsPosVec) PROVE new \in Seq(Place)
    <3>1. Len(mGpsPosVec) - mInitPosVecSize \in Nat
      BY <2>2, <2>4
    <3>2. new \in [1 .. Len(mGpsPosVec) - mInitPosVecSize -> Place]
      BY <2>2, <2>3, <2>4
    <3> QED
      BY <3>1, <3>2, SeqDef
  <2>5. posFile.recs \in Seq(Place) /\ posFile \in File(Place)
    BY DEF TypeOK, File
  <2> HIDE DEF new
  <2>6. ASSUME mInitPosVecSize \in 0 .. Len(mGpsPosVec)
        PROVE  posFile.recs \o new \in Seq(Place)
    BY <2>4, <2>5, <2>6
  <2>7. \/ /\ mInitPosVecSize \in 0 .. Len(mGpsPosVec)
           /\ posFile' = [posFile EXCEPT !.recs = @ \o new]
           /\ mInitPosVecSize' = Len(mGpsPosVec)
        \/ UNCHANGED <<posFile, mInitPosVecSize>>
    BY <1>26 DEF WritePositions, new
  <2>8. posFile' \in File(Place)
    BY <2>5, <2>6, <2>7 DEF File
  <2>9. mInitPosVecSize' \in Int
    BY <2>2, <2>7
  <2> QED
    BY <1>26, <2>1, <2>8, <2>9 DEF TypeOK, WritePositions
<1>27. ASSUME NEW t \in Timers, CbReset(t) PROVE TypeInv'
  <2>1. cb' \in [Timers -> CbState]
    BY <1>27 DEF TypeOK, CbState, CbReset
  <2> QED
    BY <1>27, <2>1 DEF TypeOK, CbReset
<1>28. ASSUME NEW t \in Timers, CbReturn(t) PROVE TypeInv'
  <2>1. timers' \in [Timers -> TimerState]
    BY <1>28 DEF TypeOK, TimerState, CbReturn
  <2>2. cb' \in [Timers -> CbState]
    BY <1>28, BlankTypes DEF TypeOK, CbReturn
  <2> QED
    BY <1>28, <2>1, <2>2 DEF TypeOK, CbReturn
<1>29. CASE UNCHANGED vars
  BY <1>29 DEF TypeOK, vars
<1> QED
  BY <1>1, <1>2, <1>3, <1>4, <1>5, <1>6, <1>6a, <1>6b, <1>6c, <1>7, <1>8,
     <1>8a, <1>8b, <1>9, <1>10, <1>11, <1>12, <1>13, <1>14, <1>15, <1>16,
     <1>17, <1>18, <1>18a, <1>19, <1>20, <1>20a, <1>21, <1>22, <1>23, <1>24,
     <1>25, <1>26, <1>27, <1>28, <1>29 DEF Next, Loader, Handler, Callback

\* TypeOK holds whatever the bounds, the places, the heap and the overlap.
THEOREM TypeCorrect == Spec => []TypeOK
PROOF
<1>1. TypeInv => TypeOK
  BY DEF TypeInv
<1> QED
  BY TypeInit, TypeStep, <1>1, PTL DEF Spec

-----------------------------------------------------------------------------
(* No fix is forgotten.                                                    *)

\* A callback is under way exactly while its timer is in it.
CallbackIsFiring ==
  \A t \in Timers : cb[t].pc # "idle" <=> timers[t].st = "firing"

\* Once the process has a timer, or is making one, mCurGPS carries the last
\* fix: a snapshot of it takes that fix over.
CurIsLastFix ==
  sig.pc # "idle" \/ (\E t \in Timers : timers[t].st # "none") =>
    mCurGPS.date_d = Len(fixes)

\* The number of the fix being handled names no timer until SigNewTimer.
BeforeNew == {"latlon", "first", "date", "open", "copy", "search", "add",
              "curCode", "firstCode", "timer", "new"}
NamesFresh ==
  \A t \in Timers : timers[t].st # "none" =>
    t <= Len(fixes) /\ (t = Len(fixes) => sig.pc \notin BeforeNew)

\* LastTimerCallsBack, of a process that is off as well.
LastTimerLive ==
  mLastGPSTimer \in Timers =>
    \/ timers[mLastGPSTimer].st = "armed"
    \/ timers[mLastGPSTimer].st = "new" /\ sig.pc = "start"
    \/ cb[mLastGPSTimer].pc \in {"stop", "clear"}
    \/ \E t \in Timers : cb[t].pc = "clear"

\* The timer the handler is about to start is the one it has just made.
StartedIsNew ==
  sig.pc = "start" /\ mLastGPSTimer \in Timers => timers[mLastGPSTimer].st = "new"

FixInv == /\ CallbackIsFiring
          /\ CurIsLastFix
          /\ NamesFresh
          /\ StartedIsNew
          /\ LastTimerLive
          /\ NoFixForgotten

\* The part of the state FixInv reads, with the types its proof needs.
LEMMA FixTypes ==
  ASSUME TypeInv
  PROVE  /\ sig \in SigState /\ cb \in [Timers -> CbState]
         /\ timers \in [Timers -> TimerState]
         /\ mCurGPS \in Behavior /\ Len(fixes) \in Nat
         /\ NULL \notin Timers /\ Wild \notin Timers
PROOF
  BY DEF TypeInv, TypeOK, NULL, Wild, Timers

\* Before the first start there is nothing to forget.
LEMMA FixInit == Init => FixInv
PROOF
  BY DEF Init, FixInv, CallbackIsFiring, CurIsLastFix, NamesFresh, StartedIsNew,
     LastTimerLive, NoFixForgotten, NULL, Timers, SigIdle, CbIdle, NoTimer, Running

\* A process that stops forgets nothing it is still bound to.
LEMMA FixHalt ==
  ASSUME NEW how \in {"off", "crash"}, Halt(how)
  PROVE  FixInv'
PROOF
  BY DEF Halt, FixInv, CallbackIsFiring, CurIsLastFix, NamesFresh, StartedIsNew,
     LastTimerLive, NoFixForgotten, NULL, Timers, SigIdle, CbIdle, NoTimer, Running

\* Past the snapshot a callback touches nothing FixInv reads but its own
\* program counter.
LEMMA FixInner ==
  ASSUME TypeInv, FixInv, NEW t \in Timers,
         cb[t].pc \notin {"idle", "stop", "clear", "snap"},
         cb'[t].pc # "idle", \A u \in Timers \ {t} : cb'[u] = cb[u],
         UNCHANGED <<phase, fixes, sig, timers, mLastGPSTimer, mCurGPS, snapped>>
  PROVE  FixInv'
PROOF
<1>1. CallbackIsFiring'
  BY DEF FixInv, CallbackIsFiring
<1>2. CurIsLastFix' /\ NamesFresh' /\ StartedIsNew'
  BY DEF FixInv, CurIsLastFix, NamesFresh, StartedIsNew
<1>3. LastTimerLive'
  BY DEF FixInv, LastTimerLive
<1>4. NoFixForgotten'
  BY DEF FixInv, NoFixForgotten, Running
<1> QED
  BY <1>1, <1>2, <1>3, <1>4 DEF FixInv

\* Inside the handler, between its start and the making of a timer, nothing
\* FixInv reads changes but the handler's program counter.
LEMMA FixHandler ==
  ASSUME TypeInv, FixInv, sig.pc \in BeforeNew,
         sig'.pc \in BeforeNew \cup {"restart"},
         mCurGPS'.date_d = mCurGPS.date_d,
         UNCHANGED <<phase, fixes, cb, timers, mLastGPSTimer, snapped>>
  PROVE  FixInv'
PROOF
<1>1. CallbackIsFiring'
  BY DEF FixInv, CallbackIsFiring
<1>2. CurIsLastFix'
  BY DEF FixInv, CurIsLastFix, BeforeNew
<1>3. NamesFresh' /\ StartedIsNew'
  BY DEF FixInv, NamesFresh, StartedIsNew, BeforeNew
<1>4. LastTimerLive'
  BY DEF FixInv, LastTimerLive, BeforeNew
<1>5. NoFixForgotten'
  BY DEF NoFixForgotten, BeforeNew
<1> QED
  BY <1>1, <1>2, <1>3, <1>4, <1>5 DEF FixInv

\* Every step keeps FixInv.  CbSnap takes the last fix over because mCurGPS
\* carries it; CbStop may end a timer other than its own, but then its own
\* callback is about to take the last fix over.
LEMMA FixStep == TypeInv /\ FixInv /\ [Next]_vars => FixInv'
PROOF
<1> SUFFICES ASSUME TypeInv, FixInv, [Next]_vars PROVE FixInv'
  OBVIOUS
<1> USE DEF env, memory, trip, table, disk
<1>a. /\ sig \in SigState /\ cb \in [Timers -> CbState]
      /\ timers \in [Timers -> TimerState]
      /\ mCurGPS \in Behavior /\ Len(fixes) \in Nat
      /\ NULL \notin Timers /\ Wild \notin Timers
  BY FixTypes
<1> DEFINE LenNext == \A p \in Place : Len(Append(fixes, p)) = Len(fixes) + 1
<1>b. LenNext
  BY DEF TypeOK, TypeInv
<1> HIDE DEF LenNext
<1>1. CASE Boot
  <2>1. CallbackIsFiring'
    BY <1>a, <1>1, RecorderAssumption DEF FixInv, CallbackIsFiring, Boot
  <2>2. CurIsLastFix'
    BY <1>a, <1>1, RecorderAssumption DEF FixInv, CurIsLastFix, Boot
  <2>3. NamesFresh'
    BY <1>a, <1>1, RecorderAssumption DEF FixInv, NamesFresh, Boot
  <2>4. StartedIsNew'
    BY <1>a, <1>1, RecorderAssumption DEF FixInv, StartedIsNew, Boot
  <2>5. LastTimerLive'
    BY <1>a, <1>1, RecorderAssumption DEF FixInv, LastTimerLive, Boot
  <2>6. NoFixForgotten'
    BY <1>a, <1>1, RecorderAssumption DEF FixInv, NoFixForgotten, Running, Boot
  <2> QED
    BY <2>1, <2>2, <2>3, <2>4, <2>5, <2>6 DEF FixInv
<1>2. CASE LoadBehaviors
  <2>1. CallbackIsFiring'
    BY <1>a, <1>2 DEF FixInv, CallbackIsFiring, LoadBehaviors
  <2>2. CurIsLastFix'
    BY <1>a, <1>2 DEF FixInv, CurIsLastFix, LoadBehaviors
  <2>3. NamesFresh'
    BY <1>a, <1>2 DEF FixInv, NamesFresh, LoadBehaviors
  <2>4. StartedIsNew'
    BY <1>a, <1>2 DEF FixInv, StartedIsNew, LoadBehaviors
  <2>5. LastTimerLive'
    BY <1>a, <1>2 DEF FixInv, LastTimerLive, LoadBehaviors
  <2>6. NoFixForgotten'
    BY <1>a, <1>2 DEF FixInv, NoFixForgotten, Running, LoadBehaviors
  <2> QED
    BY <2>1, <2>2, <2>3, <2>4, <2>5, <2>6 DEF FixInv
<1>3. CASE LoadPosition
  <2>1. CallbackIsFiring'
    BY <1>a, <1>3 DEF FixInv, CallbackIsFiring, LoadPosition
  <2>2. CurIsLastFix'
    BY <1>a, <1>3 DEF FixInv, CurIsLastFix, LoadPosition
  <2>3. NamesFresh'
    BY <1>a, <1>3 DEF FixInv, NamesFresh, LoadPosition
  <2>4. StartedIsNew'
    BY <1>a, <1>3 DEF FixInv, StartedIsNew, LoadPosition
  <2>5. LastTimerLive'
    BY <1>a, <1>3 DEF FixInv, LastTimerLive, LoadPosition
  <2>6. NoFixForgotten'
    BY <1>a, <1>3 DEF FixInv, NoFixForgotten, Running, LoadPosition
  <2> QED
    BY <2>1, <2>2, <2>3, <2>4, <2>5, <2>6 DEF FixInv
<1>4. CASE PowerOff
  BY <1>a, <1>4, FixHalt DEF PowerOff
<1>5. CASE SigSetLatLon
  BY <1>a, <1>5, FixHandler DEF SigSetLatLon, SigState, Behavior, BeforeNew
<1>6. CASE SigFirst
  BY <1>a, <1>6, FixHandler DEF SigFirst, SigState, Behavior, BeforeNew
<1>6a. CASE SigDate
  BY <1>a, <1>6a, FixHandler DEF SigDate, SigState, Behavior, BeforeNew
<1>6b. CASE SigOpen
  BY <1>a, <1>6b, FixHandler DEF SigOpen, SigState, Behavior, BeforeNew
<1>6c. CASE SigCopy
  BY <1>a, <1>6c, FixHandler DEF SigCopy, SigState, Behavior, BeforeNew
<1>7. CASE SigSearch
  BY <1>a, <1>7, FixHandler DEF SigSearch, SigState, Behavior, BeforeNew
<1>8. CASE SigAdd
  BY <1>a, <1>8, FixHandler DEF SigAdd, SigState, Behavior, BeforeNew
<1>8a. CASE SigCurCode
  BY <1>a, <1>8a, FixHandler DEF SigCurCode, SigState, Behavior, BeforeNew
<1>8b. CASE SigFirstCode
  BY <1>a, <1>8b, FixHandler DEF SigFirstCode, SigState, Behavior, BeforeNew
<1>9. CASE SigTestTimer
  BY <1>a, <1>9, FixHandler DEF SigTestTimer, SigState, BeforeNew
<1>10. CASE SigNewTimer
  <2>1. CallbackIsFiring'
    BY <1>a, <1>10
    DEF FixInv, CallbackIsFiring, SigNewTimer, SigState, TimerState,
        NamesFresh, BeforeNew, CallbackIsFiring
  <2>2. CurIsLastFix'
    BY <1>a, <1>10 DEF FixInv, CurIsLastFix, SigNewTimer, SigState, TimerState
  <2>3. NamesFresh'
    BY <1>a, <1>10
    DEF FixInv, NamesFresh, SigNewTimer, SigState, TimerState, BeforeNew
  <2>4. StartedIsNew'
    BY <1>a, <1>10 DEF FixInv, StartedIsNew, SigNewTimer, SigState, TimerState
  <2>5. LastTimerLive'
    BY <1>a, <1>10 DEF FixInv, LastTimerLive, SigNewTimer, SigState, TimerState
  <2>6. NoFixForgotten'
    BY <1>a, <1>10
    DEF FixInv, NoFixForgotten, Running, SigNewTimer, SigState, TimerState
  <2> QED
    BY <2>1, <2>2, <2>3, <2>4, <2>5, <2>6 DEF FixInv
<1>11. CASE SigStartTimer
  <2>1. CASE mLastGPSTimer \in Timers
    <3>1. CallbackIsFiring'
      BY <1>a, <1>11, <2>1
      DEF FixInv, CallbackIsFiring, StartedIsNew, SigStartTimer, SigIdle,
          TimerState
    <3>2. CurIsLastFix'
      BY <1>a, <1>11, <2>1
      DEF FixInv, CurIsLastFix, StartedIsNew, SigStartTimer, SigIdle,
          TimerState
    <3>3. NamesFresh'
      BY <1>a, <1>11, <2>1
      DEF FixInv, NamesFresh, StartedIsNew, BeforeNew, SigStartTimer, SigIdle,
          TimerState
    <3>4. StartedIsNew'
      BY <1>a, <1>11, <2>1
      DEF FixInv, StartedIsNew, SigStartTimer, SigIdle, TimerState
    <3>5. LastTimerLive'
      BY <1>a, <1>11, <2>1
      DEF FixInv, LastTimerLive, SigStartTimer, SigIdle, TimerState
    <3>6. NoFixForgotten'
      BY <1>a, <1>11, <2>1
      DEF FixInv, NoFixForgotten, Running, SigStartTimer, SigIdle, TimerState
    <3> QED
      BY <3>1, <3>2, <3>3, <3>4, <3>5, <3>6 DEF FixInv
  <2>2. CASE mLastGPSTimer \notin Timers
    BY <1>11, <2>2, FixHalt DEF SigStartTimer
  <2> QED
    BY <2>1, <2>2
<1>12. CASE SigRestartTimer
  <2>1. CASE mLastGPSTimer \in Timers
    <3>a. \A u \in Timers : timers'[u].st = timers[u].st
      BY <1>12, <2>1, <1>a DEF SigRestartTimer, Restarted, TimerState
    <3>b. fixes' = fixes /\ sig'.pc = "idle"
      BY <1>12, <2>1 DEF SigRestartTimer, SigIdle, env
    <3>1. CallbackIsFiring'
      BY <1>a, <1>12, <2>1, <3>a
      DEF FixInv, CallbackIsFiring, SigRestartTimer, SigIdle
    <3>2. CurIsLastFix'
      BY <1>a, <1>12, <2>1, <3>a
      DEF FixInv, CurIsLastFix, SigRestartTimer, SigIdle
    <3>3. NamesFresh'
      BY <3>a, <3>b DEF FixInv, NamesFresh, BeforeNew
    <3>4. StartedIsNew'
      BY <1>a, <1>12, <2>1, <3>a
      DEF FixInv, StartedIsNew, SigRestartTimer, SigIdle
    <3>5. LastTimerLive'
      BY <1>a, <1>12, <2>1, <3>a
      DEF FixInv, LastTimerLive, SigRestartTimer, SigIdle
    <3>6. NoFixForgotten'
      BY <1>a, <1>12, <2>1, <3>a
      DEF FixInv, NoFixForgotten, Running, LastTimerLive, SigRestartTimer,
          SigIdle
    <3> QED
      BY <3>1, <3>2, <3>3, <3>4, <3>5, <3>6 DEF FixInv
  <2>2. CASE mLastGPSTimer \notin Timers
    BY <1>12, <2>2, FixHalt DEF SigRestartTimer
  <2> QED
    BY <2>1, <2>2
<1>13. ASSUME NEW p \in Place, GPSSignal(p) PROVE FixInv'
  <2>1. CallbackIsFiring'
    BY <1>a, <1>13, <1>b
    DEF FixInv, CallbackIsFiring, GPSSignal, SigIdle, Behavior, BeforeNew
  <2>2. CurIsLastFix'
    BY <1>a, <1>13, <1>b
    DEF FixInv, CurIsLastFix, GPSSignal, SigIdle, Behavior, BeforeNew
  <2>3. NamesFresh'
    BY <1>a, <1>13, <1>b
    DEF FixInv, NamesFresh, GPSSignal, SigIdle, Behavior, BeforeNew, LenNext,
        Timers
  <2>4. StartedIsNew'
    BY <1>a, <1>13, <1>b
    DEF FixInv, StartedIsNew, GPSSignal, SigIdle, Behavior, BeforeNew
  <2>5. LastTimerLive'
    BY <1>a, <1>13, <1>b
    DEF FixInv, LastTimerLive, GPSSignal, SigIdle, Behavior, BeforeNew
  <2>6. NoFixForgotten'
    BY <1>a, <1>13, <1>b
    DEF FixInv, NoFixForgotten, Running, GPSSignal, SigIdle, Behavior,
        BeforeNew
  <2> QED
    BY <2>1, <2>2, <2>3, <2>4, <2>5, <2>6 DEF FixInv
<1>14. ASSUME NEW t \in Timers, TimerFire(t) PROVE FixInv'
  <2>1. CallbackIsFiring'
    BY <1>a, <1>14 DEF FixInv, CallbackIsFiring, TimerFire, CbState, TimerState
  <2>2. CurIsLastFix'
    BY <1>a, <1>14 DEF FixInv, CurIsLastFix, TimerFire, CbState, TimerState
  <2>3. NamesFresh'
    BY <1>a, <1>14 DEF FixInv, NamesFresh, TimerFire, CbState, TimerState
  <2>4. StartedIsNew'
    BY <1>a, <1>14 DEF FixInv, StartedIsNew, TimerFire, CbState, TimerState
  <2>5. LastTimerLive'
    BY <1>a, <1>14
    DEF FixInv, LastTimerLive, TimerFire, CbState, TimerState, CallbackIsFiring
  <2>6. NoFixForgotten'
    BY <1>a, <1>14
    DEF FixInv, NoFixForgotten, Running, TimerFire, CbState, TimerState
  <2> QED
    BY <2>1, <2>2, <2>3, <2>4, <2>5, <2>6 DEF FixInv
<1>15. ASSUME NEW t \in Timers, CbStop(t) PROVE FixInv'
  <2>1. CASE mLastGPSTimer \in Timers
    <3>a. \A u \in Timers :
             \/ timers'[u].st = timers[u].st
             \/ timers[u].st = "armed" /\ timers'[u].st = "done"
      BY <1>15, <2>1, <1>a DEF CbStop, Restarted, TimerState
    <3>b. cb[t].pc = "stop" /\ cb'[t].pc = "clear" /\ \A u \in Timers \ {t} : cb'[u] = cb[u]
      BY <1>15, <2>1, <1>a DEF CbStop, CbState
    <3>1. CallbackIsFiring'
      BY <3>a, <3>b DEF FixInv, CallbackIsFiring
    <3>2. CurIsLastFix'
      BY <1>a, <1>15, <2>1, <3>a, <3>b DEF FixInv, CurIsLastFix, CbStop
    <3>3. NamesFresh'
      BY <1>a, <1>15, <2>1, <3>a, <3>b DEF FixInv, NamesFresh, CbStop
    <3>4. StartedIsNew'
      BY <1>a, <1>15, <2>1, <3>a, <3>b DEF FixInv, StartedIsNew, CbStop
    <3>5. LastTimerLive'
      BY <1>a, <1>15, <2>1, <3>a, <3>b DEF FixInv, LastTimerLive, CbStop
    <3>6. NoFixForgotten'
      BY <1>a, <1>15, <2>1, <3>a, <3>b
      DEF FixInv, NoFixForgotten, Running, CbStop
    <3> QED
      BY <3>1, <3>2, <3>3, <3>4, <3>5, <3>6 DEF FixInv
  <2>2. CASE mLastGPSTimer \notin Timers
    BY <1>15, <2>2, FixHalt DEF CbStop
  <2> QED
    BY <2>1, <2>2
<1>16. ASSUME NEW t \in Timers, CbClear(t) PROVE FixInv'
  <2>1. CallbackIsFiring'
    BY <1>a, <1>16 DEF FixInv, CallbackIsFiring, CbClear, CbState
  <2>2. CurIsLastFix'
    BY <1>a, <1>16 DEF FixInv, CurIsLastFix, CbClear, CbState
  <2>3. NamesFresh'
    BY <1>a, <1>16 DEF FixInv, NamesFresh, CbClear, CbState
  <2>4. StartedIsNew'
    BY <1>a, <1>16 DEF FixInv, StartedIsNew, CbClear, CbState
  <2>5. LastTimerLive'
    BY <1>a, <1>16 DEF FixInv, LastTimerLive, CbClear, CbState
  <2>6. NoFixForgotten'
    BY <1>a, <1>16 DEF FixInv, NoFixForgotten, Running, CbClear, CbState
  <2> QED
    BY <2>1, <2>2, <2>3, <2>4, <2>5, <2>6 DEF FixInv
<1>17. ASSUME NEW t \in Timers, CbSnap(t) PROVE FixInv'
  <2>1. CallbackIsFiring'
    BY <1>a, <1>17 DEF FixInv, CallbackIsFiring, CbSnap, CbState
  <2>2. CurIsLastFix'
    BY <1>a, <1>17 DEF FixInv, CurIsLastFix, CbSnap, CbState
  <2>3. NamesFresh'
    BY <1>a, <1>17 DEF FixInv, NamesFresh, CbSnap, CbState
  <2>4. StartedIsNew'
    BY <1>a, <1>17 DEF FixInv, StartedIsNew, CbSnap, CbState
  <2>5. LastTimerLive'
    BY <1>a, <1>17 DEF FixInv, LastTimerLive, CbSnap, CbState
  <2>6. NoFixForgotten'
    <3>1. snapped' = Len(fixes)
      BY <1>a, <1>17 DEF FixInv, CallbackIsFiring, CurIsLastFix, CbSnap
    <3> QED
      BY <1>a, <1>17, <3>1 DEF NoFixForgotten, CbSnap, env
  <2> QED
    BY <2>1, <2>2, <2>3, <2>4, <2>5, <2>6 DEF FixInv
<1>18. ASSUME NEW t \in Timers, CbSize(t) PROVE FixInv'
  BY <1>a, <1>18, FixInner DEF CbSize, CbState
<1>18a. ASSUME NEW t \in Timers, CbStartCode(t) PROVE FixInv'
  BY <1>a, <1>18a, FixInner DEF CbStartCode, CbState
<1>19. ASSUME NEW t \in Timers, CbSearch(t) PROVE FixInv'
  BY <1>a, <1>19, FixInner DEF CbSearch, CbState
<1>20. ASSUME NEW t \in Timers, CbAdd(t) PROVE FixInv'
  BY <1>a, <1>20, FixInner DEF CbAdd, CbState
<1>20a. ASSUME NEW t \in Timers, CbDestCode(t) PROVE FixInv'
  BY <1>a, <1>20a, FixInner DEF CbDestCode, CbState
<1>21. ASSUME NEW t \in Timers, CbDecide(t) PROVE FixInv'
  BY <1>a, <1>21, FixInner DEF CbDecide, CbState
<1>22. ASSUME NEW t \in Timers, OpenBehaviors(t) PROVE FixInv'
  <2>1. cb'[t].pc \in {"push", "reset"} /\ \A u \in Timers \ {t} : cb'[u] = cb[u]
    BY <1>a, <1>22 DEF OpenBehaviors, CbState
  <2> QED
    BY <1>22, <2>1, FixInner DEF OpenBehaviors
<1>23. ASSUME NEW t \in Timers, PushBehavior(t) PROVE FixInv'
  BY <1>a, <1>23, FixInner DEF PushBehavior, CbState
<1>24. ASSUME NEW t \in Timers, WriteBehavior(t) PROVE FixInv'
  BY <1>a, <1>24, FixInner DEF WriteBehavior, CbState
<1>25. ASSUME NEW t \in Timers, OpenPositions(t) PROVE FixInv'
  <2>1. cb'[t].pc \in {"writePos", "reset"} /\ \A u \in Timers \ {t} : cb'[u] = cb[u]
    BY <1>a, <1>25 DEF OpenPositions, CbState
  <2> QED
    BY <1>25, <2>1, FixInner DEF OpenPositions
<1>26. ASSUME NEW t \in Timers, WritePositions(t) PROVE FixInv'
  BY <1>a, <1>26, FixInner DEF WritePositions, CbState
<1>27. ASSUME NEW t \in Timers, CbReset(t) PROVE FixInv'
  BY <1>a, <1>27, FixInner DEF CbReset, CbState
<1>28. ASSUME NEW t \in Timers, CbReturn(t) PROVE FixInv'
  <2>1. CallbackIsFiring'
    BY <1>a, <1>28
    DEF FixInv, CallbackIsFiring, CbReturn, CbIdle, CbState, TimerState
  <2>2. CurIsLastFix'
    BY <1>a, <1>28
    DEF FixInv, CurIsLastFix, CbReturn, CbIdle, CbState, TimerState,
        CallbackIsFiring
  <2>3. NamesFresh'
    BY <1>a, <1>28
    DEF FixInv, NamesFresh, CbReturn, CbIdle, CbState, TimerState,
        CallbackIsFiring
  <2>4. StartedIsNew'
    BY <1>a, <1>28
    DEF FixInv, StartedIsNew, CbReturn, CbIdle, CbState, TimerState,
        CallbackIsFiring
  <2>5. LastTimerLive'
    BY <1>a, <1>28
    DEF FixInv, LastTimerLive, CbReturn, CbIdle, CbState, TimerState,
        CallbackIsFiring
  <2>6. NoFixForgotten'
    BY <1>a, <1>28
    DEF FixInv, NoFixForgotten, Running, CbReturn, CbIdle, CbState, TimerState,
        CallbackIsFiring
  <2> QED
    BY <2>1, <2>2, <2>3, <2>4, <2>5, <2>6 DEF FixInv
<1>29. CASE UNCHANGED vars
  BY <1>29
  DEF FixInv, CallbackIsFiring, CurIsLastFix, NamesFresh, StartedIsNew,
      LastTimerLive,
     NoFixForgotten, Running, vars
<1> QED
  BY <1>1, <1>2, <1>3, <1>4, <1>5, <1>6, <1>6a, <1>6b, <1>6c, <1>7, <1>8,
     <1>8a, <1>8b, <1>9, <1>10, <1>11, <1>12, <1>13, <1>14, <1>15, <1>16,
     <1>17, <1>18, <1>18a, <1>19, <1>20, <1>20a, <1>21, <1>22, <1>23, <1>24,
     <1>25, <1>26, <1>27, <1>28, <1>29 DEF Next, Loader, Handler, Callback

\* No fix is forgotten by a running process: however the handler and the
\* callbacks interleave, a callback that takes over the last fix is on its way
\* or has run.
THEOREM NoFixEverForgotten == Spec => []NoFixForgotten
PROOF
<1>1. Init => TypeInv /\ FixInv
  BY TypeInit, FixInit
<1>2. TypeInv /\ FixInv /\ [Next]_vars => (TypeInv /\ FixInv)'
  BY TypeStep, FixStep
<1>3. FixInv => NoFixForgotten
  BY DEF FixInv
<1> QED
  BY <1>1, <1>2, <1>3, PTL DEF Spec

\* The timer the handler pushes back is one that still calls back, or is about
\* to be cleared.
THEOREM LastTimerAlwaysCallsBack == Spec => []LastTimerCallsBack
PROOF
<1>1. Init => TypeInv /\ FixInv
  BY TypeInit, FixInit
<1>2. TypeInv /\ FixInv /\ [Next]_vars => (TypeInv /\ FixInv)'
  BY TypeStep, FixStep
<1>3. FixInv => LastTimerCallsBack
  BY DEF FixInv, LastTimerLive, LastTimerCallsBack
<1> QED
  BY <1>1, <1>2, <1>3, PTL DEF Spec

-----------------------------------------------------------------------------
(* The recorder when no fix is delivered during a callback and the heap     *)
(* happens to be zeroed: one thread at a time, one timer, which is the one  *)
(* mLastGPSTimer names, a code for every index, and trips that follow one   *)
(* another on disk.                                                         *)

Serial == ~Overlap /\ HeapPtrs \subseteq {NULL}

-----------------------------------------------------------------------------
(* Threads and timers.                                                     *)

\* The process never follows a Timer pointer that points to no timer.
NoBadTimer == phase # "crash"

\* Only the handler or one callback is under way.
OneAtATime ==
  /\ sig.pc # "idle" => \A t \in Timers : cb[t].pc = "idle"
  /\ \A t, u \in Timers : cb[t].pc # "idle" /\ cb[u].pc # "idle" => t = u

\* Nothing is under way but in a process that has loaded its files.
OnlyRunning ==
  phase # "run" =>
    /\ sig.pc = "idle" /\ mGetFirstGPSSig = 0 /\ mLastGPSTimer = NULL
    /\ \A t \in Timers : cb[t].pc = "idle" /\ timers[t].st = "none"

\* A timer that can still be restarted is the one mLastGPSTimer names, and
\* there is none when the handler makes one.
TimerNamed ==
  /\ mLastGPSTimer # Wild
  /\ sig.pc = "new" => mLastGPSTimer = NULL
  /\ sig.pc = "start" => mLastGPSTimer \in Timers /\ timers[mLastGPSTimer].st = "new"
  /\ sig.pc = "restart" => mLastGPSTimer \in Timers
  /\ mLastGPSTimer \in Timers => timers[mLastGPSTimer].st \in {"new", "armed", "firing"}
  /\ \A t \in Timers :
       /\ timers[t].st \in {"new", "armed"} \/ cb[t].pc \in {"stop", "clear"} =>
            mLastGPSTimer = t
       /\ timers[t].st = "new" => sig.pc = "start"
       /\ cb[t].pc \notin {"idle", "stop", "clear"} => mLastGPSTimer = NULL

\* A timer goes on after its callback unless the callback has told it not to.
ToldToEnd ==
  \A t \in Timers : cb[t].pc \notin {"idle", "stop"} => ~timers[t].on

\* A timer is there, and a callback at work, for an open trip only.
ForOpenTrip ==
  /\ sig.pc \notin {"idle", "latlon", "first", "date", "open"} => mGetFirstGPSSig = 1
  /\ \A t \in Timers :
       timers[t].st \in {"new", "armed"} \/ cb[t].pc \notin {"idle", "ret"} =>
         mGetFirstGPSSig = 1

ThreadInv == NoBadTimer /\ OneAtATime /\ OnlyRunning /\ TimerNamed /\ ToldToEnd /\ ForOpenTrip

-----------------------------------------------------------------------------
(* The position table.                                                     *)

\* The table is as long as the loader, the handler and a callback take it to be
\* when they add to it.
SizesKnown ==
  /\ phase \in {"off", "behav", "crash"} => mGpsPosVec = <<>> /\ loadIdx = 0
  /\ phase = "pos" => loadIdx = Len(mGpsPosVec)
  /\ sig.pc = "add" => sig.size = Len(mGpsPosVec)
  /\ \A t \in Timers : cb[t].pc \in {"startCode", "search", "add"} =>
                         cb[t].size = Len(mGpsPosVec)

TableInv == CodeIsIndex /\ SizesKnown

-----------------------------------------------------------------------------
(* The records.                                                            *)

Starting  == {"latlon", "first", "date", "open"}
Searching == {"size", "startCode", "search", "add", "destCode", "decide"}
Saving    == {"openBeh", "push", "writeBeh"}
Done      == {"openPos", "writePos", "reset"}

\* What is about to be written is the open trip, and no stay.
TripInHand ==
  \A t \in Timers :
    /\ cb[t].pc \in Searching \cup Saving =>
         mLastGPS.date = mCurGPS.date /\ mLastGPS.date_d = mCurGPS.date_d
    /\ cb[t].pc \in Saving => mLastGPS.code_s # mLastGPS.code_d

\* The open trip has begun after every trip on disk ended.
OpenTripLast ==
  /\ mCurGPS.date_d <= Len(fixes)
  /\ mGetFirstGPSSig = 1 /\ (\A t \in Timers : cb[t].pc \notin Done) =>
       /\ mCurGPS.date <= mCurGPS.date_d
       /\ \A k \in 1 .. Len(behFile.recs) : behFile.recs[k].date_d < mCurGPS.date
  /\ \A k \in 1 .. Len(behFile.recs) :
       /\ behFile.recs[k].date_d <= Len(fixes)
       /\ sig.pc \in Starting => behFile.recs[k].date_d < Len(fixes)
  /\ sig.pc = "open" => mCurGPS.date = Len(fixes)

RecordInv == TripsInOrder /\ TripInHand /\ OpenTripLast

-----------------------------------------------------------------------------
(* No thread gets in another's way.                                        *)

\* The part of the state ThreadInv reads, with its types.
LEMMA ThreadTypes ==
  ASSUME TypeInv
  PROVE  /\ sig \in SigState /\ cb \in [Timers -> CbState]
         /\ timers \in [Timers -> TimerState]
         /\ mLastGPSTimer \in Timers \cup {NULL, Wild}
         /\ NULL \notin Timers /\ Wild \notin Timers /\ NULL # Wild
         /\ mGetFirstGPSSig \in {0, 1}
         /\ sig.pc # "idle" => Len(fixes) \in Timers
PROOF
  BY DEF TypeInv, TypeOK, NULL, Wild, Timers

\* Before the first start there is neither a thread nor a timer.
LEMMA ThreadInit == Init => ThreadInv
PROOF
  BY DEF Init, ThreadInv, NULL, Wild, Timers, SigIdle, CbIdle, NoTimer, NoBadTimer,
     OneAtATime, OnlyRunning, TimerNamed, ToldToEnd, ForOpenTrip

\* A process that is off has neither.
LEMMA ThreadHalt == ASSUME Halt("off") PROVE ThreadInv'
PROOF
  BY DEF Halt, ThreadInv, NULL, Wild, Timers, SigIdle, CbIdle, NoTimer, NoBadTimer,
     OneAtATime, OnlyRunning, TimerNamed, ToldToEnd, ForOpenTrip

\* Between the snapshot and its return a callback moves on alone.
LEMMA ThreadInner ==
  ASSUME TypeInv, ThreadInv, NEW t \in Timers,
         cb[t].pc \notin {"idle", "stop", "clear", "ret"},
         cb'[t].pc \notin {"idle", "stop", "clear"}, \A u \in Timers \ {t} : cb'[u] = cb[u],
         UNCHANGED <<phase, sig, timers, mLastGPSTimer, mGetFirstGPSSig>>
  PROVE  ThreadInv'
PROOF
<1>1. NoBadTimer'
  BY DEF ThreadInv, NoBadTimer
<1>2. OneAtATime'
  BY DEF ThreadInv, OneAtATime
<1>3. OnlyRunning'
  BY DEF ThreadInv, OnlyRunning
<1>4. TimerNamed'
  BY DEF ThreadInv, TimerNamed
<1>5. ToldToEnd'
  BY DEF ThreadInv, ToldToEnd
<1>6. ForOpenTrip'
  BY DEF ThreadInv, ForOpenTrip
<1> QED
  BY <1>1, <1>2, <1>3, <1>4, <1>5, <1>6 DEF ThreadInv

\* So does the handler, as long as it does not touch a timer.
LEMMA ThreadHandler ==
  ASSUME TypeInv, ThreadInv, sig.pc \in BeforeNew \ {"new"},
         sig'.pc \in BeforeNew \ {"new"},
         sig'.pc \in {"latlon", "first", "date", "open"} \/ mGetFirstGPSSig' = 1,
         mGetFirstGPSSig' = 1 \/ UNCHANGED mGetFirstGPSSig,
         UNCHANGED <<phase, cb, timers, mLastGPSTimer>>
  PROVE  ThreadInv'
PROOF
<1>1. NoBadTimer'
  BY DEF ThreadInv, NoBadTimer, BeforeNew
<1>2. OneAtATime'
  BY DEF ThreadInv, OneAtATime, BeforeNew
<1>3. OnlyRunning'
  BY DEF ThreadInv, OnlyRunning, BeforeNew
<1>4. TimerNamed'
  BY DEF ThreadInv, TimerNamed, BeforeNew
<1>5. ToldToEnd'
  BY DEF ThreadInv, ToldToEnd, BeforeNew
<1>6. ForOpenTrip'
  BY DEF ThreadInv, ForOpenTrip, BeforeNew
<1> QED
  BY <1>1, <1>2, <1>3, <1>4, <1>5, <1>6 DEF ThreadInv

\* Every step keeps ThreadInv.
LEMMA ThreadStep ==
  ASSUME Serial, TypeInv, FixInv, ThreadInv, [Next]_vars
  PROVE  ThreadInv'
PROOF
<1> USE DEF env, memory, trip, table, disk
<1>a. /\ sig \in SigState /\ cb \in [Timers -> CbState]
      /\ timers \in [Timers -> TimerState]
      /\ mLastGPSTimer \in Timers \cup {NULL, Wild}
      /\ NULL \notin Timers /\ Wild \notin Timers /\ NULL # Wild
      /\ mGetFirstGPSSig \in {0, 1}
      /\ sig.pc # "idle" => Len(fixes) \in Timers
  BY ThreadTypes
<1>b. CallbackIsFiring /\ NamesFresh
  BY DEF FixInv
<1>1. CASE Boot
  <2>1. NoBadTimer' /\ OneAtATime' /\ ToldToEnd' /\ ForOpenTrip'
    BY <1>a, <1>1 DEF ThreadInv, NoBadTimer, Boot, OneAtATime, ToldToEnd, ForOpenTrip
  <2>2. OnlyRunning'
    BY <1>a, <1>1 DEF ThreadInv, OnlyRunning, Boot, Serial, Quiet, ActiveCb
  <2>3. TimerNamed'
    BY <1>a, <1>1, RecorderAssumption DEF ThreadInv, TimerNamed, Boot, Serial,
       OnlyRunning
  <2> QED
    BY <2>1, <2>2, <2>3 DEF ThreadInv
<1>2. CASE LoadBehaviors
  BY <1>a, <1>2 DEF ThreadInv, NoBadTimer, LoadBehaviors, OneAtATime, OnlyRunning,
     TimerNamed, ToldToEnd, ForOpenTrip
<1>3. CASE LoadPosition
  BY <1>a, <1>3 DEF ThreadInv, NoBadTimer, LoadPosition, OneAtATime, OnlyRunning,
     TimerNamed, ToldToEnd, ForOpenTrip
<1>4. CASE PowerOff
  BY <1>4, ThreadHalt DEF PowerOff
<1>5. CASE SigSetLatLon
  BY <1>a, <1>5, ThreadHandler DEF SigSetLatLon, BeforeNew
<1>6. CASE SigFirst
  BY <1>a, <1>6, ThreadHandler DEF SigFirst, BeforeNew, SigState
<1>6a. CASE SigDate
  BY <1>a, <1>6a, ThreadHandler DEF SigDate, BeforeNew, SigState
<1>6b. CASE SigOpen
  BY <1>a, <1>6b, ThreadHandler DEF SigOpen, BeforeNew, SigState
<1>6c. CASE SigCopy
  BY <1>a, <1>6c, ThreadHandler DEF SigCopy, BeforeNew, SigState, ThreadInv,
     ForOpenTrip
<1>7. CASE SigSearch
  BY <1>a, <1>7, ThreadHandler DEF SigSearch, BeforeNew, SigState, ThreadInv,
     ForOpenTrip
<1>8. CASE SigAdd
  BY <1>a, <1>8, ThreadHandler DEF SigAdd, BeforeNew, SigState, ThreadInv, ForOpenTrip
<1>8a. CASE SigCurCode
  BY <1>a, <1>8a, ThreadHandler DEF SigCurCode, BeforeNew, SigState, ThreadInv,
     ForOpenTrip
<1>8b. CASE SigFirstCode
  BY <1>a, <1>8b, ThreadHandler DEF SigFirstCode, BeforeNew, SigState, ThreadInv,
     ForOpenTrip
<1>9. CASE SigTestTimer
  BY <1>a, <1>9 DEF ThreadInv, NoBadTimer, SigTestTimer, OneAtATime, OnlyRunning,
     TimerNamed, ToldToEnd, ForOpenTrip
<1>10. CASE SigNewTimer
  <2>1. NoBadTimer' /\ OneAtATime' /\ OnlyRunning' /\ ForOpenTrip'
    BY <1>a, <1>10 DEF ThreadInv, NoBadTimer, SigNewTimer, OneAtATime, OnlyRunning,
       ForOpenTrip
  <2>2. TimerNamed'
    BY <1>a, <1>10 DEF ThreadInv, TimerNamed, SigNewTimer, OneAtATime, SigState,
       CbState, TimerState
  <2>3. ToldToEnd'
    BY <1>a, <1>10 DEF ThreadInv, ToldToEnd, SigNewTimer, OneAtATime, SigState, CbState,
       TimerState
  <2> QED
    BY <2>1, <2>2, <2>3 DEF ThreadInv
<1>11. CASE SigStartTimer
  <2>a. mLastGPSTimer \in Timers
    BY <1>a, <1>11 DEF ThreadInv, TimerNamed, SigStartTimer
  <2>1. NoBadTimer' /\ OneAtATime' /\ OnlyRunning' /\ ForOpenTrip'
    BY <1>a, <1>11, <2>a DEF ThreadInv, NoBadTimer, SigStartTimer, OneAtATime,
       OnlyRunning, ForOpenTrip
  <2>2. TimerNamed'
    BY <1>a, <1>11, <2>a DEF ThreadInv, TimerNamed, SigStartTimer, SigIdle, CbIdle,
       SigState, CbState, TimerState
  <2>3. ToldToEnd'
    BY <1>a, <1>11, <2>a DEF ThreadInv, ToldToEnd, SigStartTimer, OneAtATime, SigState,
       CbState, TimerState
  <2> QED
    BY <2>1, <2>2, <2>3 DEF ThreadInv
<1>12. CASE SigRestartTimer
  <2>a. mLastGPSTimer \in Timers
    BY <1>a, <1>12 DEF ThreadInv, TimerNamed, SigRestartTimer
  <2>b. \A u \in Timers : timers'[u].st = timers[u].st
    BY <1>a, <1>12, <2>a DEF SigRestartTimer, Restarted, TimerState
  <2>c. sig'.pc = "idle" /\ UNCHANGED <<cb, mLastGPSTimer>>
    BY <1>a, <1>12, <2>a, <2>b DEF SigRestartTimer, SigIdle
  <2>1. NoBadTimer' /\ OneAtATime' /\ OnlyRunning' /\ ForOpenTrip'
    BY <1>a, <1>12, <2>a, <2>b, <2>c DEF ThreadInv, NoBadTimer, SigRestartTimer,
       OneAtATime, OnlyRunning, ForOpenTrip
  <2>2. TimerNamed'
    BY <1>a, <1>12, <2>a, <2>b, <2>c DEF ThreadInv, TimerNamed, SigRestartTimer
  <2>3. ToldToEnd'
    BY <1>a, <1>12, <2>a, <2>b, <2>c DEF ThreadInv, ToldToEnd, SigRestartTimer,
       OneAtATime, SigState, CbState, TimerState
  <2> QED
    BY <2>1, <2>2, <2>3 DEF ThreadInv
<1>13. ASSUME NEW p \in Place, GPSSignal(p) PROVE ThreadInv'
  <2>1. NoBadTimer' /\ TimerNamed' /\ ToldToEnd' /\ ForOpenTrip'
    BY <1>a, <1>13 DEF ThreadInv, NoBadTimer, GPSSignal, TimerNamed, ToldToEnd,
       ForOpenTrip
  <2>2. OneAtATime'
    BY <1>a, <1>13 DEF ThreadInv, OneAtATime, GPSSignal, Serial, Quiet, ActiveCb
  <2>3. OnlyRunning'
    BY <1>a, <1>13 DEF ThreadInv, OnlyRunning, GPSSignal, Serial, Quiet, ActiveCb
  <2> QED
    BY <2>1, <2>2, <2>3 DEF ThreadInv
<1>14. ASSUME NEW t \in Timers, TimerFire(t) PROVE ThreadInv'
  <2>1. NoBadTimer' /\ OnlyRunning' /\ TimerNamed' /\ ToldToEnd' /\ ForOpenTrip'
    BY <1>a, <1>14 DEF ThreadInv, NoBadTimer, TimerFire, OnlyRunning, TimerNamed,
       ToldToEnd, ForOpenTrip
  <2>2. OneAtATime'
    BY <1>a, <1>14 DEF ThreadInv, OneAtATime, TimerFire, Serial, Quiet, ActiveCb
  <2> QED
    BY <2>1, <2>2 DEF ThreadInv
<1>15. ASSUME NEW t \in Timers, CbStop(t) PROVE ThreadInv'
  <2>a. mLastGPSTimer = t
    BY <1>a, <1>15 DEF ThreadInv, TimerNamed, CbStop
  <2>b. \A u \in Timers : timers'[u].st = timers[u].st
    BY <1>a, <1>15, <2>a, <1>b DEF CbStop, Restarted, TimerState, CallbackIsFiring
  <2>c. cb'[t].pc = "clear" /\ \A u \in Timers \ {t} : cb'[u] = cb[u]
    BY <1>a, <1>15, <2>a, <2>b DEF CbStop, CbState
  <2>1. NoBadTimer' /\ OneAtATime' /\ OnlyRunning' /\ ForOpenTrip'
    BY ZenonT(60), <1>a, <1>15, <2>a, <2>b, <2>c DEF ThreadInv, NoBadTimer, CbStop,
       OneAtATime, OnlyRunning, ForOpenTrip
  <2>2. TimerNamed'
    BY ZenonT(60), <1>a, <1>15, <2>a, <2>b, <2>c DEF ThreadInv, TimerNamed, CbStop
  <2>3. ToldToEnd'
    BY <1>a, <1>15, <2>a, <2>b, <2>c, <1>b DEF ThreadInv, ToldToEnd, CbStop, Restarted,
       TimerState, OneAtATime, CallbackIsFiring
  <2> QED
    BY <2>1, <2>2, <2>3 DEF ThreadInv
<1>16. ASSUME NEW t \in Timers, CbClear(t) PROVE ThreadInv'
  <2>1. NoBadTimer' /\ OneAtATime' /\ OnlyRunning' /\ ToldToEnd' /\ ForOpenTrip'
    BY <1>a, <1>16 DEF ThreadInv, NoBadTimer, CbClear, OneAtATime, OnlyRunning,
       ToldToEnd, ForOpenTrip
  <2>2. TimerNamed'
    BY <1>a, <1>16, <1>b DEF ThreadInv, TimerNamed, CbClear, OneAtATime, CbState,
       CallbackIsFiring
  <2> QED
    BY <2>1, <2>2 DEF ThreadInv
<1>17. ASSUME NEW t \in Timers, CbSnap(t) PROVE ThreadInv'
  BY <1>a, <1>17, ThreadInner DEF CbSnap
<1>18. ASSUME NEW t \in Timers, CbSize(t) PROVE ThreadInv'
  BY <1>a, <1>18, ThreadInner DEF CbSize
<1>18a. ASSUME NEW t \in Timers, CbStartCode(t) PROVE ThreadInv'
  BY <1>a, <1>18a, ThreadInner DEF CbStartCode
<1>19. ASSUME NEW t \in Timers, CbSearch(t) PROVE ThreadInv'
  BY <1>a, <1>19, ThreadInner DEF CbSearch
<1>20. ASSUME NEW t \in Timers, CbAdd(t) PROVE ThreadInv'
  BY <1>a, <1>20, ThreadInner DEF CbAdd
<1>20a. ASSUME NEW t \in Timers, CbDestCode(t) PROVE ThreadInv'
  BY <1>a, <1>20a, ThreadInner DEF CbDestCode
<1>21. ASSUME NEW t \in Timers, CbDecide(t) PROVE ThreadInv'
  BY <1>a, <1>21, ThreadInner DEF CbDecide
<1>22. ASSUME NEW t \in Timers, OpenBehaviors(t) PROVE ThreadInv'
  <2>1. cb'[t].pc \in {"push", "reset"} /\ \A u \in Timers \ {t} : cb'[u] = cb[u]
    BY <1>a, <1>22 DEF OpenBehaviors, CbState
  <2> QED
    BY <1>a, <1>22, <2>1, ThreadInner DEF OpenBehaviors
<1>23. ASSUME NEW t \in Timers, PushBehavior(t) PROVE ThreadInv'
  BY <1>a, <1>23, ThreadInner DEF PushBehavior
<1>24. ASSUME NEW t \in Timers, WriteBehavior(t) PROVE ThreadInv'
  BY <1>a, <1>24, ThreadInner DEF WriteBehavior
<1>25. ASSUME NEW t \in Timers, OpenPositions(t) PROVE ThreadInv'
  <2>1. cb'[t].pc \in {"writePos", "reset"} /\ \A u \in Timers \ {t} : cb'[u] = cb[u]
    BY <1>a, <1>25 DEF OpenPositions, CbState
  <2> QED
    BY <1>a, <1>25, <2>1, ThreadInner DEF OpenPositions
<1>26. ASSUME NEW t \in Timers, WritePositions(t) PROVE ThreadInv'
  BY <1>a, <1>26, ThreadInner DEF WritePositions
<1>27. ASSUME NEW t \in Timers, CbReset(t) PROVE ThreadInv'
  <2>1. NoBadTimer' /\ OneAtATime' /\ OnlyRunning' /\ TimerNamed' /\ ToldToEnd'
    BY <1>a, <1>27 DEF ThreadInv, NoBadTimer, CbReset, OneAtATime, OnlyRunning,
       TimerNamed, ToldToEnd
  <2>2. ForOpenTrip'
    BY ZenonT(60), <1>a, <1>27 DEF ThreadInv, ForOpenTrip, CbReset, OneAtATime, TimerNamed,
       SigState, CbState, TimerState, SigIdle, CbIdle
  <2> QED
    BY <2>1, <2>2 DEF ThreadInv
<1>28. ASSUME NEW t \in Timers, CbReturn(t) PROVE ThreadInv'
  <2>1. NoBadTimer' /\ OneAtATime' /\ OnlyRunning' /\ ToldToEnd'
    BY <1>a, <1>28 DEF ThreadInv, NoBadTimer, CbReturn, OneAtATime, OnlyRunning,
       ToldToEnd
  <2>2. TimerNamed'
    BY <1>a, <1>28 DEF ThreadInv, TimerNamed, CbReturn, ToldToEnd, OneAtATime, CbIdle,
       CbState, TimerState
  <2>3. ForOpenTrip'
    BY <1>a, <1>28 DEF ThreadInv, ForOpenTrip, CbReturn, ToldToEnd, CbIdle, CbState,
       TimerState
  <2> QED
    BY <2>1, <2>2, <2>3 DEF ThreadInv
<1>29. CASE UNCHANGED vars
  BY <1>29 DEF ThreadInv, vars, NoBadTimer, OneAtATime, OnlyRunning, TimerNamed,
     ToldToEnd, ForOpenTrip
<1> QED
  BY <1>1, <1>2, <1>3, <1>4, <1>5, <1>6, <1>6a, <1>6b, <1>6c, <1>7, <1>8,
     <1>8a, <1>8b, <1>9, <1>10, <1>11, <1>12, <1>13, <1>14, <1>15, <1>16,
     <1>17, <1>18, <1>18a, <1>19, <1>20, <1>20a, <1>21, <1>22, <1>23, <1>24,
     <1>25, <1>26, <1>27, <1>28, <1>29 DEF Next, Loader, Handler, Callback
-----------------------------------------------------------------------------
(* The index the table is extended under is the next free one.             *)

\* An entry added under the next free index has it as its code.
LEMMA AddPosCodes ==
  ASSUME NEW vec \in Seq(GPS_POS), NEW i, NEW p \in Place,
         \A k \in 1 .. Len(vec) : vec[k].code = ToShort(k - 1)
  PROVE  \A k \in 1 .. Len(AddPos(vec, i, Len(vec), p)) :
           AddPos(vec, i, Len(vec), p)[k].code = ToShort(k - 1)
PROOF
<1>1. CASE i = Len(vec)
  <2> DEFINE e == [code |-> ToShort(i), pos |-> p]
  <2>1. AddPos(vec, i, Len(vec), p) = Append(vec, e)
    BY <1>1 DEF AddPos
  <2>2. /\ Len(Append(vec, e)) = Len(vec) + 1 /\ Len(vec) \in Nat
        /\ \A k \in 1 .. Len(vec) : Append(vec, e)[k] = vec[k]
        /\ Append(vec, e)[Len(vec) + 1] = e
    OBVIOUS
  <2>3. \A k \in 1 .. Len(vec) + 1 : k \in 1 .. Len(vec) \/ (k = Len(vec) + 1 /\ k - 1 = i)
    BY <1>1, <2>2
  <2>4. e.code = ToShort(i)
    OBVIOUS
  <2> HIDE DEF e
  <2> QED
    BY <2>1, <2>2, <2>3, <2>4
<1>2. CASE i # Len(vec)
  BY <1>2 DEF AddPos
<1> QED
  BY <1>1, <1>2

\* Before the first start there is no table.
LEMMA TableInit == Init => TableInv
PROOF
  BY DEF Init, TableInv, CodeIsIndex, SizesKnown, SigIdle, CbIdle

\* A step that leaves the table alone, and the sizes taken from it.
LEMMA TableFrame ==
  ASSUME TableInv, UNCHANGED <<loadIdx, mGpsPosVec>>, phase' \in {phase, "run"},
         sig'.pc # "add" \/ sig' = sig,
         \A t \in Timers : \/ cb'[t].pc \notin {"startCode", "search", "add"}
                           \/ /\ cb[t].pc \in {"startCode", "search", "add"}
                              /\ cb'[t].size = cb[t].size
  PROVE  TableInv'
PROOF
<1>1. CodeIsIndex'
  BY DEF TableInv, CodeIsIndex
<1>2. SizesKnown'
  BY DEF TableInv, SizesKnown
<1> QED
  BY <1>1, <1>2 DEF TableInv

\* Every step keeps TableInv: only one thread at a time searches the table.
LEMMA TableStep ==
  ASSUME TypeInv, ThreadInv, TableInv, [Next]_vars
  PROVE  TableInv'
PROOF
<1> USE DEF env, memory, trip, table, disk
<1>a. /\ sig \in SigState /\ cb \in [Timers -> CbState]
      /\ mGpsPosVec \in Seq(GPS_POS) /\ mCurPos \in Place
      /\ Len(mGpsPosVec) \in Nat /\ loadIdx \in Nat
  BY DEF TypeInv, TypeOK
<1>1. CASE Boot
  BY <1>a, <1>1 DEF TableInv, CodeIsIndex, Boot, SizesKnown
<1>2. CASE LoadBehaviors
  BY <1>a, <1>2 DEF TableInv, CodeIsIndex, LoadBehaviors, SizesKnown
<1>3. CASE LoadPosition
  <2>a. LET pos == IF loadIdx < Len(posFile.recs) THEN posFile.recs[loadIdx + 1] ELSE Zero
          e   == [code |-> ToShort(loadIdx), pos |-> pos]
      IN  /\ loadIdx = Len(mGpsPosVec) /\ mGpsPosVec' = Append(mGpsPosVec, e)
          /\ e.code = ToShort(Len(mGpsPosVec))
    BY <1>a, <1>3 DEF LoadPosition, TableInv, SizesKnown
  <2>b. sig.pc = "idle" /\ \A t \in Timers : cb[t].pc = "idle"
    BY <1>a, <1>3, <2>a DEF LoadPosition, ThreadInv, OnlyRunning
  <2>c. Len(mGpsPosVec') = Len(mGpsPosVec) + 1
    BY <1>a, <1>3, <2>a, <2>b
  <2> QED
    BY <1>a, <1>3, <2>a, <2>b, <2>c DEF TableInv, CodeIsIndex, LoadPosition, SizesKnown
<1>4. CASE PowerOff
  BY <1>4 DEF PowerOff, Halt, TableInv, SizesKnown, CodeIsIndex, SigIdle, CbIdle
<1>5. CASE SigSetLatLon
  BY <1>a, <1>5, TableFrame DEF SigSetLatLon
<1>6. CASE SigFirst
  BY <1>a, <1>6, TableFrame DEF SigFirst, SigState, CbState
<1>6a. CASE SigDate
  BY <1>a, <1>6a, TableFrame DEF SigDate
<1>6b. CASE SigOpen
  BY <1>a, <1>6b, TableFrame DEF SigOpen
<1>6c. CASE SigCopy
  BY <1>a, <1>6c, TableFrame DEF SigCopy
<1>7. CASE SigSearch
  BY <1>a, <1>7 DEF TableInv, CodeIsIndex, SigSearch, SizesKnown
<1>8. CASE SigAdd
  <2>a. sig.size = Len(mGpsPosVec) /\ sig.place \in Place
    BY <1>a, <1>8 DEF SigAdd, TableInv, SizesKnown, SigState
  <2>b. (phase = "run") /\ \A t \in Timers : cb[t].pc = "idle"
    BY <1>a, <1>8, <2>a DEF SigAdd, ThreadInv, OneAtATime, OnlyRunning, NoBadTimer
  <2>1. CodeIsIndex'
    BY <1>a, <1>8, <2>a, <2>b, AddPosCodes DEF TableInv, CodeIsIndex, SigAdd
  <2>2. SizesKnown'
    BY <1>a, <1>8, <2>a, <2>b DEF TableInv, SizesKnown, SigAdd
  <2> QED
    BY <2>1, <2>2 DEF TableInv
<1>8a. CASE SigCurCode
  BY <1>a, <1>8a, TableFrame DEF SigCurCode
<1>8b. CASE SigFirstCode
  BY <1>a, <1>8b, TableFrame DEF SigFirstCode
<1>9. CASE SigTestTimer
  BY <1>a, <1>9, TableFrame DEF SigTestTimer
<1>10. CASE SigNewTimer
  BY <1>a, <1>10, TableFrame DEF SigNewTimer
<1>11. CASE SigStartTimer
  <2>1. mLastGPSTimer \in Timers
    BY <1>a, <1>11, ThreadTypes DEF ThreadInv, TimerNamed, SigStartTimer
  <2> QED
    BY <1>a, <1>11, <2>1, TableFrame DEF SigStartTimer, SigState, CbState, SigIdle,
       CbIdle
<1>12. CASE SigRestartTimer
  <2>1. mLastGPSTimer \in Timers
    BY <1>a, <1>12, ThreadTypes DEF ThreadInv, TimerNamed, SigRestartTimer
  <2> QED
    BY <1>a, <1>12, <2>1, TableFrame DEF SigRestartTimer, SigState, CbState, SigIdle,
       CbIdle
<1>13. ASSUME NEW p \in Place, GPSSignal(p) PROVE TableInv'
  BY <1>a, <1>13, TableFrame DEF GPSSignal
<1>14. ASSUME NEW t \in Timers, TimerFire(t) PROVE TableInv'
  BY <1>a, <1>14, TableFrame DEF TimerFire
<1>15. ASSUME NEW t \in Timers, CbStop(t) PROVE TableInv'
  <2>1. mLastGPSTimer \in Timers
    BY <1>a, <1>15, ThreadTypes DEF ThreadInv, TimerNamed, CbStop
  <2> QED
    BY <1>a, <1>15, <2>1, TableFrame DEF CbStop, SigState, CbState
<1>16. ASSUME NEW t \in Timers, CbClear(t) PROVE TableInv'
  BY <1>a, <1>16, TableFrame DEF CbClear
<1>17. ASSUME NEW t \in Timers, CbSnap(t) PROVE TableInv'
  BY <1>a, <1>17, TableFrame DEF CbSnap
<1>18. ASSUME NEW t \in Timers, CbSize(t) PROVE TableInv'
  BY <1>a, <1>18 DEF TableInv, CodeIsIndex, CbSize, SizesKnown
<1>18a. ASSUME NEW t \in Timers, CbStartCode(t) PROVE TableInv'
  BY <1>a, <1>18a, TableFrame DEF CbStartCode
<1>19. ASSUME NEW t \in Timers, CbSearch(t) PROVE TableInv'
  BY <1>a, <1>19, TableFrame DEF CbSearch
<1>20. ASSUME NEW t \in Timers, CbAdd(t) PROVE TableInv'
  <2>a. cb[t].size = Len(mGpsPosVec) /\ cb[t].place \in Place
    BY <1>a, <1>20 DEF CbAdd, TableInv, SizesKnown, CbState
  <2>b. (phase = "run") /\ sig.pc = "idle" /\ \A u \in Timers \ {t} : cb[u].pc = "idle"
    BY <1>a, <1>20, <2>a DEF CbAdd, ThreadInv, OneAtATime, OnlyRunning, NoBadTimer
  <2>1. CodeIsIndex'
    BY <1>a, <1>20, <2>a, <2>b, AddPosCodes DEF TableInv, CodeIsIndex, CbAdd
  <2>2. SizesKnown'
    BY <1>a, <1>20, <2>a, <2>b DEF TableInv, SizesKnown, CbAdd
  <2> QED
    BY <2>1, <2>2 DEF TableInv
<1>20a. ASSUME NEW t \in Timers, CbDestCode(t) PROVE TableInv'
  BY <1>a, <1>20a, TableFrame DEF CbDestCode
<1>21. ASSUME NEW t \in Timers, CbDecide(t) PROVE TableInv'
  BY <1>a, <1>21, TableFrame DEF CbDecide
<1>22. ASSUME NEW t \in Timers, OpenBehaviors(t) PROVE TableInv'
  BY ZenonT(60), <1>a, <1>22, TableFrame DEF OpenBehaviors, SigState, CbState
<1>23. ASSUME NEW t \in Timers, PushBehavior(t) PROVE TableInv'
  BY <1>a, <1>23, TableFrame DEF PushBehavior
<1>24. ASSUME NEW t \in Timers, WriteBehavior(t) PROVE TableInv'
  BY <1>a, <1>24, TableFrame DEF WriteBehavior
<1>25. ASSUME NEW t \in Timers, OpenPositions(t) PROVE TableInv'
  BY ZenonT(60), <1>a, <1>25, TableFrame DEF OpenPositions, SigState, CbState
<1>26. ASSUME NEW t \in Timers, WritePositions(t) PROVE TableInv'
  BY <1>a, <1>26, TableFrame DEF WritePositions
<1>27. ASSUME NEW t \in Timers, CbReset(t) PROVE TableInv'
  BY <1>a, <1>27, TableFrame DEF CbReset
<1>28. ASSUME NEW t \in Timers, CbReturn(t) PROVE TableInv'
  BY <1>a, <1>28, TableFrame DEF CbReturn, SigState, CbState, SigIdle, CbIdle
<1>29. CASE UNCHANGED vars
  BY <1>29 DEF TableInv, vars, CodeIsIndex, SizesKnown
<1> QED
  BY <1>1, <1>2, <1>3, <1>4, <1>5, <1>6, <1>6a, <1>6b, <1>6c, <1>7, <1>8,
     <1>8a, <1>8b, <1>9, <1>10, <1>11, <1>12, <1>13, <1>14, <1>15, <1>16,
     <1>17, <1>18, <1>18a, <1>19, <1>20, <1>20a, <1>21, <1>22, <1>23, <1>24,
     <1>25, <1>26, <1>27, <1>28, <1>29 DEF Next, Loader, Handler, Callback

-----------------------------------------------------------------------------
(* The records on disk follow one another.                                 *)

\* What an added record leaves of the others.
LEMMA RecordAdded ==
  ASSUME NEW recs \in Seq(Behavior), NEW r \in Behavior
  PROVE  /\ Len(recs) \in Nat /\ Len(Append(recs, r)) = Len(recs) + 1
         /\ \A k \in 1 .. Len(recs) : Append(recs, r)[k] = recs[k] /\ recs[k] \in Behavior
         /\ Append(recs, r)[Len(recs) + 1] = r
         /\ \A k \in 1 .. Len(recs) + 1 : k \in 1 .. Len(recs) \/ k = Len(recs) + 1
PROOF
  OBVIOUS

\* The part of the state RecordInv reads, with its types.
LEMMA RecordTypes ==
  ASSUME TypeInv
  PROVE  /\ sig \in SigState /\ cb \in [Timers -> CbState]
         /\ mCurGPS \in Behavior /\ mFirstGPS \in Behavior /\ mLastGPS \in Behavior
         /\ mGetFirstGPSSig \in {0, 1} /\ Len(fixes) \in Nat
         /\ behFile \in File(Behavior) /\ behFile.recs \in Seq(Behavior)
         /\ Len(behFile.recs) \in Nat
         /\ \A k \in 1 .. Len(behFile.recs) :
              behFile.recs[k].date \in Int /\ behFile.recs[k].date_d \in Int
PROOF
<1>1. behFile \in File(Behavior) /\ behFile.recs \in Seq(Behavior)
  BY DEF TypeInv, TypeOK, File
<1>2. \A k \in 1 .. Len(behFile.recs) : behFile.recs[k] \in Behavior
  BY <1>1
<1>3. Stamp \subseteq Int
  BY RecorderAssumption DEF Stamp
<1>4. \A k \in 1 .. Len(behFile.recs) :
        behFile.recs[k].date \in Int /\ behFile.recs[k].date_d \in Int
  BY <1>2, <1>3 DEF Behavior
<1>5. Len(behFile.recs) \in Nat
  BY <1>1
<1> QED
  BY <1>1, <1>4, <1>5 DEF TypeInv, TypeOK

\* Before the first start nothing is recorded.
LEMMA RecordInit == Init => RecordInv
PROOF
  BY DEF Init, RecordInv, TripsInOrder, TripInHand, OpenTripLast,
         Starting, Searching, Saving, Done, NoFile, NoBehavior, SigIdle, CbIdle

\* A step that leaves the fixes, the open trip and the records alone, and takes
\* no callback to where it has a trip in hand.
LEMMA RecordFrame ==
  ASSUME TypeInv, RecordInv, UNCHANGED <<fixes, mGetFirstGPSSig, mLastGPS>>,
         behFile'.recs = behFile.recs,
         mCurGPS'.date = mCurGPS.date, mCurGPS'.date_d = mCurGPS.date_d,
         sig'.pc \in Starting => sig.pc \in Starting,
         sig'.pc = "open" => sig.pc = "open",
         \A t \in Timers :
           \/ cb'[t].pc = cb[t].pc
           \/ cb'[t].pc \in Searching /\ cb[t].pc \in Searching
           \/ cb'[t].pc \in Saving /\ cb[t].pc \in Saving
           \/ cb'[t].pc \in Done /\ cb[t].pc \in Saving \cup Done
           \/ cb'[t].pc \in {"idle", "stop", "clear", "snap", "ret"} /\ cb[t].pc \notin Done
  PROVE  RecordInv'
PROOF
<1>1. TripsInOrder'
  BY DEF RecordInv, TripsInOrder
<1>2. TripInHand'
  BY DEF RecordInv, TripInHand, Starting, Searching, Saving, Done
<1>3. OpenTripLast'
  BY DEF RecordInv, OpenTripLast, Starting, Searching, Saving, Done
<1> QED
  BY <1>1, <1>2, <1>3 DEF RecordInv

\* Every step keeps RecordInv.
LEMMA RecordStep ==
  ASSUME Serial, TypeInv, FixInv, ThreadInv, RecordInv, [Next]_vars
  PROVE  RecordInv'
PROOF
<1> USE DEF env, memory, trip, table, disk
<1>a. /\ sig \in SigState /\ cb \in [Timers -> CbState]
      /\ mCurGPS \in Behavior /\ mFirstGPS \in Behavior /\ mLastGPS \in Behavior
      /\ mGetFirstGPSSig \in {0, 1} /\ Len(fixes) \in Nat
      /\ behFile \in File(Behavior) /\ behFile.recs \in Seq(Behavior)
      /\ Len(behFile.recs) \in Nat
      /\ \A k \in 1 .. Len(behFile.recs) :
           behFile.recs[k].date \in Int /\ behFile.recs[k].date_d \in Int
  BY RecordTypes
<1>1. CASE Boot
  BY <1>a, <1>1, RecordFrame DEF Boot
<1>2. CASE LoadBehaviors
  BY <1>a, <1>2, RecordFrame DEF LoadBehaviors
<1>3. CASE LoadPosition
  BY <1>a, <1>3, RecordFrame DEF LoadPosition
<1>4. CASE PowerOff
  BY <1>a, <1>4 DEF PowerOff, Halt, RecordInv, TripsInOrder, TripInHand, OpenTripLast,
     Starting, Searching, Saving, Done, NoBehavior, SigIdle, CbIdle
<1>5. CASE SigSetLatLon
  BY <1>a, <1>5, RecordFrame DEF SigSetLatLon, Starting, SigState
<1>6. CASE SigFirst
  BY <1>a, <1>6, RecordFrame DEF SigFirst, Starting, SigState
<1>6a. CASE SigDate
  <2>a. \A t \in Timers : cb[t].pc = "idle"
    BY <1>a, <1>6a DEF SigDate, ThreadInv, OneAtATime
  <2>b. /\ mCurGPS'.date_d = Len(fixes) /\ mCurGPS'.date = Len(fixes)
        /\ UNCHANGED <<fixes, behFile, cb, mGetFirstGPSSig>> /\ sig.pc = "date"
    BY <1>a, <1>6a, <2>a DEF SigDate, FixInv, CurIsLastFix, Behavior
  <2>c. \A k \in 1 .. Len(behFile.recs) :
          behFile.recs[k].date_d < Len(fixes) /\ behFile.recs[k].date_d <= Len(fixes)
    BY <2>b DEF RecordInv, OpenTripLast, Starting
  <2>1. TripsInOrder'
    BY <2>b DEF RecordInv, TripsInOrder
  <2>2. TripInHand'
    BY <2>a, <2>b DEF TripInHand, Searching, Saving
  <2>3. OpenTripLast'
    BY <1>a, <2>b, <2>c DEF OpenTripLast
  <2> QED
    BY <2>1, <2>2, <2>3 DEF RecordInv
<1>6b. CASE SigOpen
  <2>a. /\ \A t \in Timers : cb[t].pc = "idle"
        /\ mCurGPS.date_d = Len(fixes) /\ mCurGPS.date = Len(fixes)
    BY <1>a, <1>6b DEF SigOpen, ThreadInv, OneAtATime, FixInv, CurIsLastFix, RecordInv,
       OpenTripLast
  <2>b. /\ UNCHANGED <<fixes, behFile, cb, mCurGPS>>
        /\ sig.pc = "open" /\ sig'.pc = "copy"
    BY <1>a, <1>6b DEF SigOpen, SigState
  <2>c. \A k \in 1 .. Len(behFile.recs) :
          behFile.recs[k].date_d < Len(fixes) /\ behFile.recs[k].date_d <= Len(fixes)
    BY <2>b DEF RecordInv, OpenTripLast, Starting
  <2>1. TripsInOrder'
    BY <2>b DEF RecordInv, TripsInOrder
  <2>2. TripInHand'
    BY <2>a, <2>b DEF TripInHand, Searching, Saving
  <2>3. OpenTripLast'
    BY <1>a, <2>a, <2>b, <2>c DEF OpenTripLast, Starting
  <2> QED
    BY <2>1, <2>2, <2>3 DEF RecordInv
<1>6c. CASE SigCopy
  BY <1>a, <1>6c, RecordFrame DEF SigCopy, Starting, SigState
<1>7. CASE SigSearch
  BY <1>a, <1>7, RecordFrame DEF SigSearch, Starting, SigState
<1>8. CASE SigAdd
  BY <1>a, <1>8, RecordFrame DEF SigAdd, Starting, SigState
<1>8a. CASE SigCurCode
  BY <1>a, <1>8a, RecordFrame DEF SigCurCode, Starting, SigState, Behavior
<1>8b. CASE SigFirstCode
  BY <1>a, <1>8b, RecordFrame DEF SigFirstCode, Starting, SigState
<1>9. CASE SigTestTimer
  BY <1>a, <1>9, RecordFrame DEF SigTestTimer, Starting, SigState
<1>10. CASE SigNewTimer
  BY <1>a, <1>10, RecordFrame DEF SigNewTimer, Starting, SigState
<1>11. CASE SigStartTimer
  <2>1. mLastGPSTimer \in Timers
    BY <1>a, <1>11, ThreadTypes DEF ThreadInv, TimerNamed, SigStartTimer
  <2> QED
    BY <1>a, <1>11, <2>1, RecordFrame DEF SigStartTimer, SigState, CbState, SigIdle,
       CbIdle, Starting, Searching, Saving, Done, Behavior
<1>12. CASE SigRestartTimer
  <2>1. mLastGPSTimer \in Timers
    BY <1>a, <1>12, ThreadTypes DEF ThreadInv, TimerNamed, SigRestartTimer
  <2> QED
    BY <1>a, <1>12, <2>1, RecordFrame DEF SigRestartTimer, SigState, CbState, SigIdle,
       CbIdle, Starting, Searching, Saving, Done, Behavior
<1>13. ASSUME NEW p \in Place, GPSSignal(p) PROVE RecordInv'
  <2>a. \A t \in Timers : cb[t].pc = "idle"
    BY <1>a, <1>13 DEF GPSSignal, Serial, Quiet, ActiveCb
  <2>b. /\ Len(fixes') = Len(fixes) + 1
        /\ mCurGPS'.date_d = Len(fixes) + 1 /\ mCurGPS'.date = mCurGPS.date
    BY <1>a, <1>13, <2>a DEF GPSSignal, TypeInv, TypeOK, Behavior
  <2>c. /\ sig'.pc = "latlon" /\ UNCHANGED <<cb, mGetFirstGPSSig, behFile>>
        /\ mCurGPS.date \in Int /\ mCurGPS.date_d \in Int
    BY <1>a, <1>13, <2>a, <2>b, RecorderAssumption DEF GPSSignal, SigIdle, Behavior,
       Stamp
  <2>d. /\ mCurGPS.date_d <= Len(fixes)
        /\ mGetFirstGPSSig = 1 =>
             /\ mCurGPS.date <= mCurGPS.date_d
             /\ \A k \in 1 .. Len(behFile.recs) : behFile.recs[k].date_d < mCurGPS.date
        /\ \A k \in 1 .. Len(behFile.recs) : behFile.recs[k].date_d <= Len(fixes)
    BY <1>a, <1>13, <2>a, <2>b, <2>c DEF RecordInv, OpenTripLast, Done
  <2>1. TripsInOrder' /\ OpenTripLast'
    BY <1>a, <1>13, <2>a, <2>b, <2>c, <2>d DEF RecordInv, TripsInOrder, GPSSignal,
       OpenTripLast
  <2>2. TripInHand'
    BY <2>a, <2>c DEF TripInHand, Searching, Saving
  <2> QED
    BY <2>1, <2>2 DEF RecordInv
<1>14. ASSUME NEW t \in Timers, TimerFire(t) PROVE RecordInv'
  <2>1. cb[t].pc = "idle"
    BY <1>a, <1>14 DEF TimerFire, FixInv, CallbackIsFiring
  <2> QED
    BY <1>a, <1>14, <2>1, RecordFrame DEF TimerFire, CbState, Starting, Searching,
       Saving, Done
<1>15. ASSUME NEW t \in Timers, CbStop(t) PROVE RecordInv'
  <2>1. mLastGPSTimer \in Timers
    BY <1>a, <1>15, ThreadTypes DEF ThreadInv, TimerNamed, CbStop
  <2>2. /\ UNCHANGED <<fixes, mGetFirstGPSSig, mLastGPS, mCurGPS, sig, behFile>>
        /\ cb[t].pc = "stop" /\ cb' = [cb EXCEPT ![t].pc = "clear"]
    BY <1>15, <2>1 DEF CbStop
  <2>3. \A u \in Timers : \/ cb'[u].pc = cb[u].pc
                          \/ cb'[u].pc = "clear" /\ cb[u].pc = "stop"
    BY <1>a, <2>2 DEF CbState
  <2> QED
    BY <1>a, <1>15, <2>2, <2>3, RecordFrame DEF Starting, Searching, Saving, Done
<1>16. ASSUME NEW t \in Timers, CbClear(t) PROVE RecordInv'
  BY <1>a, <1>16, RecordFrame DEF CbClear, SigState, CbState, Starting, Searching,
     Saving, Done
<1>17. ASSUME NEW t \in Timers, CbSnap(t) PROVE RecordInv'
  <2>a. sig.pc = "idle" /\ \A u \in Timers \ {t} : cb[u].pc = "idle"
    BY <1>a, <1>17 DEF CbSnap, ThreadInv, OneAtATime
  <2>1. TripsInOrder'
    BY <1>a, <1>17, <2>a DEF RecordInv, TripsInOrder, CbSnap
  <2>2. TripInHand'
    BY <1>a, <1>17, <2>a DEF RecordInv, TripInHand, CbSnap, Starting, Searching, Saving,
       Done, CbState, SigState, Behavior
  <2>3. OpenTripLast'
    BY <1>a, <1>17, <2>a DEF RecordInv, OpenTripLast, CbSnap, Starting, Searching,
       Saving, Done, CbState, SigState, Behavior
  <2> QED
    BY <2>1, <2>2, <2>3 DEF RecordInv
<1>18. ASSUME NEW t \in Timers, CbSize(t) PROVE RecordInv'
  BY <1>a, <1>18, RecordFrame DEF CbSize, CbState, Searching
<1>18a. ASSUME NEW t \in Timers, CbStartCode(t) PROVE RecordInv'
  <2>a. sig.pc = "idle" /\ \A u \in Timers \ {t} : cb[u].pc = "idle"
    BY <1>a, <1>18a DEF CbStartCode, ThreadInv, OneAtATime
  <2>1. TripsInOrder'
    BY <1>a, <1>18a, <2>a DEF RecordInv, TripsInOrder, CbStartCode
  <2>2. TripInHand'
    BY <1>a, <1>18a, <2>a DEF RecordInv, TripInHand, CbStartCode, Starting, Searching,
       Saving, Done, CbState, SigState, Behavior
  <2>3. OpenTripLast'
    BY <1>a, <1>18a, <2>a DEF RecordInv, OpenTripLast, CbStartCode, Starting, Searching,
       Saving, Done, CbState, SigState, Behavior
  <2> QED
    BY <2>1, <2>2, <2>3 DEF RecordInv
<1>19. ASSUME NEW t \in Timers, CbSearch(t) PROVE RecordInv'
  BY <1>a, <1>19, RecordFrame DEF CbSearch, CbState, Searching
<1>20. ASSUME NEW t \in Timers, CbAdd(t) PROVE RecordInv'
  BY <1>a, <1>20, RecordFrame DEF CbAdd, CbState, Searching
<1>20a. ASSUME NEW t \in Timers, CbDestCode(t) PROVE RecordInv'
  <2>a. sig.pc = "idle" /\ \A u \in Timers \ {t} : cb[u].pc = "idle"
    BY <1>a, <1>20a DEF CbDestCode, ThreadInv, OneAtATime
  <2>1. TripsInOrder'
    BY <1>a, <1>20a, <2>a DEF RecordInv, TripsInOrder, CbDestCode
  <2>2. TripInHand'
    BY <1>a, <1>20a, <2>a DEF RecordInv, TripInHand, CbDestCode, Starting, Searching,
       Saving, Done, CbState, SigState, Behavior
  <2>3. OpenTripLast'
    BY <1>a, <1>20a, <2>a DEF RecordInv, OpenTripLast, CbDestCode, Starting, Searching,
       Saving, Done, CbState, SigState, Behavior
  <2> QED
    BY <2>1, <2>2, <2>3 DEF RecordInv
<1>21. ASSUME NEW t \in Timers, CbDecide(t) PROVE RecordInv'
  <2>a. sig.pc = "idle" /\ \A u \in Timers \ {t} : cb[u].pc = "idle"
    BY <1>a, <1>21 DEF CbDecide, ThreadInv, OneAtATime
  <2>1. TripsInOrder'
    BY <1>a, <1>21, <2>a DEF RecordInv, TripsInOrder, CbDecide
  <2>2. TripInHand'
    BY <1>a, <1>21, <2>a DEF RecordInv, TripInHand, CbDecide, Starting, Searching,
       Saving, Done, CbState, SigState, Behavior
  <2>3. OpenTripLast'
    BY <1>a, <1>21, <2>a DEF RecordInv, OpenTripLast, CbDecide, Starting, Searching,
       Saving, Done, CbState, SigState, Behavior
  <2> QED
    BY <2>1, <2>2, <2>3 DEF RecordInv
<1>22. ASSUME NEW t \in Timers, OpenBehaviors(t) PROVE RecordInv'
  <2>1. cb'[t].pc \in {"push", "reset"} /\ \A u \in Timers \ {t} : cb'[u] = cb[u]
    BY <1>a, <1>22 DEF OpenBehaviors, CbState
  <2>2. behFile'.recs = behFile.recs
    BY <1>a, <1>22, <2>1 DEF OpenBehaviors, File
  <2> QED
    BY <1>a, <1>22, <2>1, <2>2, RecordFrame DEF OpenBehaviors, Starting, Searching,
       Saving, Done
<1>23. ASSUME NEW t \in Timers, PushBehavior(t) PROVE RecordInv'
  BY <1>a, <1>23, RecordFrame DEF PushBehavior, SigState, CbState, Starting, Searching,
     Saving, Done
<1>24. ASSUME NEW t \in Timers, WriteBehavior(t) PROVE RecordInv'
  <2>a. sig.pc = "idle" /\ \A u \in Timers \ {t} : cb[u].pc = "idle"
    BY <1>a, <1>24 DEF WriteBehavior, ThreadInv, OneAtATime
  <2>b. behFile'.recs = Append(behFile.recs, mLastGPS)
    BY <1>a, <1>24, <2>a DEF WriteBehavior, File
  <2>c. /\ Len(behFile'.recs) = Len(behFile.recs) + 1
        /\ \A k \in 1 .. Len(behFile.recs) : behFile'.recs[k] = behFile.recs[k]
        /\ behFile'.recs[Len(behFile.recs) + 1] = mLastGPS
        /\ \A k \in 1 .. Len(behFile.recs) + 1 :
             k \in 1 .. Len(behFile.recs) \/ k = Len(behFile.recs) + 1
    BY <1>a, <1>24, <2>a, <2>b, RecordAdded
  <2>d. /\ mLastGPS.code_s # mLastGPS.code_d
        /\ mLastGPS.date = mCurGPS.date /\ mLastGPS.date_d = mCurGPS.date_d
    BY <1>a, <1>24, <2>a, <2>b, <2>c DEF WriteBehavior, RecordInv, TripInHand, Saving
  <2>e. /\ mCurGPS.date <= mCurGPS.date_d /\ mCurGPS.date_d <= Len(fixes)
        /\ \A k \in 1 .. Len(behFile.recs) : behFile.recs[k].date_d < mCurGPS.date
    BY <1>a, <1>24, <2>a, <2>b, <2>c, <2>d DEF WriteBehavior, RecordInv, OpenTripLast,
       Done, ThreadInv, ForOpenTrip
  <2>f. /\ \A u \in Timers \ {t} : cb'[u] = cb[u]
        /\ cb'[t].pc = "openPos" /\ mCurGPS.date \in Int /\ mCurGPS.date_d \in Int
    BY <1>a, <1>24, <2>a, <2>b, <2>c, <2>d, <2>e, RecorderAssumption DEF WriteBehavior,
       CbState, Behavior, Stamp
  <2>1. TripsInOrder' /\ TripInHand'
    BY <1>a, <1>24, <2>a, <2>b, <2>c, <2>d, <2>e, <2>f DEF RecordInv, TripsInOrder,
       WriteBehavior, TripInHand
  <2>2. OpenTripLast'
    BY <1>a, <1>24, <2>a, <2>b, <2>c, <2>d, <2>e, <2>f DEF RecordInv, OpenTripLast,
       WriteBehavior, Starting, Searching, Saving, Done, CbState, SigState, Behavior
  <2> QED
    BY <2>1, <2>2 DEF RecordInv
<1>25. ASSUME NEW t \in Timers, OpenPositions(t) PROVE RecordInv'
  <2>1. cb'[t].pc \in {"writePos", "reset"} /\ \A u \in Timers \ {t} : cb'[u] = cb[u]
    BY <1>a, <1>25 DEF OpenPositions, CbState
  <2> QED
    BY <1>a, <1>25, <2>1, RecordFrame DEF OpenPositions, Starting, Searching, Saving, Done
<1>26. ASSUME NEW t \in Timers, WritePositions(t) PROVE RecordInv'
  BY <1>a, <1>26, RecordFrame DEF WritePositions, SigState, CbState, Starting,
     Searching, Saving, Done
<1>27. ASSUME NEW t \in Timers, CbReset(t) PROVE RecordInv'
  <2>a. sig.pc = "idle" /\ \A u \in Timers \ {t} : cb[u].pc = "idle"
    BY <1>a, <1>27 DEF CbReset, ThreadInv, OneAtATime
  <2>1. TripsInOrder' /\ OpenTripLast'
    BY <1>a, <1>27, <2>a DEF RecordInv, TripsInOrder, CbReset,
       OpenTripLast
  <2>2. TripInHand'
    BY <1>a, <1>27, <2>a DEF RecordInv, TripInHand, CbReset, Starting, Searching,
       Saving, Done, CbState, SigState, Behavior
  <2> QED
    BY <2>1, <2>2 DEF RecordInv
<1>28. ASSUME NEW t \in Timers, CbReturn(t) PROVE RecordInv'
  BY <1>a, <1>28, RecordFrame DEF CbReturn, SigState, CbState, SigIdle, CbIdle, Saving,
     Done, Behavior
<1>29. CASE UNCHANGED vars
  BY <1>29 DEF RecordInv, vars, TripsInOrder, TripInHand, OpenTripLast
<1> QED
  BY <1>1, <1>2, <1>3, <1>4, <1>5, <1>6, <1>6a, <1>6b, <1>6c, <1>7, <1>8,
     <1>8a, <1>8b, <1>9, <1>10, <1>11, <1>12, <1>13, <1>14, <1>15, <1>16,
     <1>17, <1>18, <1>18a, <1>19, <1>20, <1>20a, <1>21, <1>22, <1>23, <1>24,
     <1>25, <1>26, <1>27, <1>28, <1>29 DEF Next, Loader, Handler, Callback

-----------------------------------------------------------------------------
(* The trips in memory.                                                    *)

\* Between the push and the flush memory is a trip ahead of the file; before the
\* load it is empty, and so is a file that is not made.
MirrorInv ==
  /\ ~behFile.made => behFile.recs = <<>>
  /\ phase \in {"off", "behav", "crash"} => mBehavGpsVec = <<>>
  /\ \A t \in Timers : cb[t].pc \in {"push", "writeBeh"} => behFile.made
  /\ \A t \in Timers : phase = "run" /\ cb[t].pc = "writeBeh" =>
       Mirrors(mBehavGpsVec, Append(behFile.recs, mLastGPS))
  /\ MemoryMirrorsDisk

\* What the load leaves, and what one more trip on both sides does.
LEMMA MirrorLoad ==
  ASSUME NEW recs \in Seq(Behavior), NoBehavior \in Behavior
  PROVE  Mirrors(Append(<<>> \o recs, NoBehavior), recs)
PROOF
<1> DEFINE mem == Append(<<>> \o recs, NoBehavior)
<1>1. /\ Len(mem) = Len(recs) + 1 /\ mem[Len(recs) + 1] = NoBehavior
      /\ \A j \in 1 .. Len(recs) : mem[j] = recs[j]
  OBVIOUS
<1>2. Len(recs) + 1 \in 1 .. Len(mem)
  BY <1>1
<1>3. \A j \in 1 .. Len(recs) : j < Len(recs) + 1
  OBVIOUS
<1> HIDE DEF mem
<1> QED
  BY <1>1, <1>2, <1>3 DEF Mirrors

LEMMA MirrorAppend ==
  ASSUME NEW mem \in Seq(Behavior), NEW recs \in Seq(Behavior), NEW r \in Behavior,
         Mirrors(mem, recs)
  PROVE  Mirrors(Append(mem, r), Append(recs, r))
PROOF
<1>1. CASE mem = recs
  BY <1>1 DEF Mirrors
<1>2. CASE mem # recs
  <2> DEFINE m == Append(mem, r)  s == Append(recs, r)
  <2>1. Len(mem) = Len(recs) + 1
    BY <1>2 DEF Mirrors
  <2>2. PICK k \in 1 .. Len(mem) :
          /\ mem[k] = NoBehavior
          /\ \A j \in 1 .. Len(recs) : recs[j] = mem[IF j < k THEN j ELSE j + 1]
    BY <1>2 DEF Mirrors
  <2>3. /\ Len(m) = Len(s) + 1 /\ Len(s) = Len(recs) + 1 /\ k \in 1 .. Len(m)
        /\ \A j \in 1 .. Len(mem) : m[j] = mem[j]
        /\ \A j \in 1 .. Len(recs) : s[j] = recs[j]
        /\ m[Len(mem) + 1] = r /\ s[Len(recs) + 1] = r
    BY <2>1
  <2>4. ASSUME NEW j \in 1 .. Len(s) PROVE s[j] = m[IF j < k THEN j ELSE j + 1]
    <3> HIDE DEF m, s
    <3>1. CASE j \in 1 .. Len(recs)
      BY <2>1, <2>2, <2>3, <3>1
    <3>2. CASE j = Len(recs) + 1
      BY <2>1, <2>2, <2>3, <3>2
    <3> QED
      BY <2>3, <3>1, <3>2
  <2>5. m[k] = NoBehavior
    BY <2>2, <2>3
  <2> HIDE DEF m, s
  <2> QED
    BY <2>3, <2>4, <2>5 DEF Mirrors, m, s
<1> QED
  BY <1>1, <1>2

LEMMA MirrorInit == Init => MirrorInv
PROOF
  BY DEF Init, MirrorInv, MemoryMirrorsDisk, NoFile, CbIdle

\* A step that is not about the records, memory or file, disturbs nothing.
LEMMA MirrorFrame ==
  ASSUME MirrorInv, UNCHANGED <<mBehavGpsVec, behFile>>, phase' = phase,
         \A t \in Timers : cb'[t].pc = "push" => cb[t].pc = "push",
         \A t \in Timers : cb'[t].pc = "writeBeh" <=> cb[t].pc = "writeBeh",
         mLastGPS' = mLastGPS \/ \A t \in Timers : cb[t].pc # "writeBeh"
  PROVE  MirrorInv'
PROOF
  BY DEF MirrorInv, MemoryMirrorsDisk

\* Every step keeps MirrorInv.
LEMMA MirrorStep ==
  ASSUME TypeInv, FixInv, ThreadInv, [Next]_vars, MirrorInv
  PROVE  MirrorInv'
PROOF
<1> USE DEF env, memory, trip, table, disk
<1>a. /\ cb \in [Timers -> CbState] /\ sig \in SigState
      /\ mBehavGpsVec \in Seq(Behavior) /\ mLastGPS \in Behavior
      /\ behFile \in File(Behavior) /\ behFile.recs \in Seq(Behavior)
      /\ NoBehavior \in Behavior
  BY BlankTypes DEF TypeInv, TypeOK, File
<1>b. \A t \in Timers : timers[t].st = "firing" <=> cb[t].pc # "idle"
  BY DEF FixInv, CallbackIsFiring
<1>1. CASE Boot
  BY <1>a, <1>1 DEF MirrorInv, MemoryMirrorsDisk, Boot, ThreadInv, OnlyRunning
<1>2. CASE LoadBehaviors
  <2>1. \A t \in Timers : cb[t].pc = "idle"
    BY <1>a, <1>2 DEF LoadBehaviors, ThreadInv, OnlyRunning
  <2>2. mBehavGpsVec = <<>>
    BY <1>a, <1>2, <2>1 DEF MirrorInv, LoadBehaviors
  <2>3. CASE behFile.made
    BY <1>a, <1>2, <2>1, <2>2, <2>3, MirrorLoad DEF MirrorInv, MemoryMirrorsDisk,
       LoadBehaviors
  <2>4. CASE ~behFile.made
    BY <1>a, <1>2, <2>1, <2>2, <2>3, <2>4 DEF MirrorInv, MemoryMirrorsDisk, Mirrors,
       LoadBehaviors
  <2> QED
    BY <1>a, <1>2, <2>1, <2>2, <2>3, <2>4
<1>3. CASE LoadPosition
  BY <1>a, <1>3 DEF MirrorInv, MemoryMirrorsDisk, LoadPosition, ThreadInv, OnlyRunning
<1>4. CASE PowerOff
  BY <1>a, <1>4 DEF MirrorInv, MemoryMirrorsDisk, Halt, CbIdle, PowerOff
<1>5. CASE SigSetLatLon
  BY <1>a, <1>5, MirrorFrame DEF SigSetLatLon
<1>6. CASE SigFirst
  BY <1>a, <1>6, MirrorFrame DEF SigFirst
<1>6a. CASE SigDate
  BY <1>a, <1>6a, MirrorFrame DEF SigDate
<1>6b. CASE SigOpen
  BY <1>a, <1>6b, MirrorFrame DEF SigOpen
<1>6c. CASE SigCopy
  BY <1>a, <1>6c, MirrorFrame DEF SigCopy
<1>7. CASE SigSearch
  BY <1>a, <1>7, MirrorFrame DEF SigSearch
<1>8. CASE SigAdd
  BY <1>a, <1>8, MirrorFrame DEF SigAdd
<1>8a. CASE SigCurCode
  BY <1>a, <1>8a, MirrorFrame DEF SigCurCode
<1>8b. CASE SigFirstCode
  BY <1>a, <1>8b, MirrorFrame DEF SigFirstCode
<1>9. CASE SigTestTimer
  BY <1>a, <1>9, MirrorFrame DEF SigTestTimer
<1>10. CASE SigNewTimer
  BY <1>a, <1>10, MirrorFrame DEF SigNewTimer
<1>11. CASE SigStartTimer
  <2>1. mLastGPSTimer \in Timers
    BY <1>a, <1>11 DEF SigStartTimer, ThreadInv, TimerNamed
  <2> QED
    BY <1>a, <1>11, <2>1, MirrorFrame DEF SigStartTimer, ThreadInv, TimerNamed
<1>12. CASE SigRestartTimer
  <2>1. mLastGPSTimer \in Timers
    BY <1>a, <1>12 DEF SigRestartTimer, ThreadInv, TimerNamed
  <2> QED
    BY <1>a, <1>12, <2>1, MirrorFrame DEF SigRestartTimer, ThreadInv, TimerNamed
<1>13. ASSUME NEW p \in Place, GPSSignal(p) PROVE MirrorInv'
  BY <1>a, <1>13, MirrorFrame DEF GPSSignal
<1>14. ASSUME NEW t \in Timers, TimerFire(t) PROVE MirrorInv'
  BY <1>a, <1>14, MirrorFrame, <1>b DEF TimerFire, CbState
<1>15. ASSUME NEW t \in Timers, CbStop(t) PROVE MirrorInv'
  <2>1. mLastGPSTimer = t
    BY <1>a, <1>15 DEF CbStop, ThreadInv, TimerNamed
  <2> QED
    BY <1>a, <1>15, <2>1, MirrorFrame DEF CbStop, ThreadInv, TimerNamed, CbState, NULL,
       Wild
<1>16. ASSUME NEW t \in Timers, CbClear(t) PROVE MirrorInv'
  BY <1>a, <1>16, MirrorFrame DEF CbClear, CbState
<1>17. ASSUME NEW t \in Timers, CbSnap(t) PROVE MirrorInv'
  BY <1>a, <1>17, MirrorFrame DEF CbSnap, CbState, ThreadInv, OneAtATime
<1>18. ASSUME NEW t \in Timers, CbSize(t) PROVE MirrorInv'
  BY <1>a, <1>18, MirrorFrame DEF CbSize, CbState
<1>18a. ASSUME NEW t \in Timers, CbStartCode(t) PROVE MirrorInv'
  BY <1>a, <1>18a, MirrorFrame DEF CbStartCode, CbState, ThreadInv,
     OneAtATime
<1>19. ASSUME NEW t \in Timers, CbSearch(t) PROVE MirrorInv'
  BY <1>a, <1>19, MirrorFrame DEF CbSearch, CbState
<1>20. ASSUME NEW t \in Timers, CbAdd(t) PROVE MirrorInv'
  BY <1>a, <1>20, MirrorFrame DEF CbAdd, CbState
<1>20a. ASSUME NEW t \in Timers, CbDestCode(t) PROVE MirrorInv'
  BY <1>a, <1>20a, MirrorFrame DEF CbDestCode, CbState, ThreadInv,
     OneAtATime
<1>21. ASSUME NEW t \in Timers, CbDecide(t) PROVE MirrorInv'
  BY <1>a, <1>21, MirrorFrame DEF CbDecide, CbState
<1>22. ASSUME NEW t \in Timers, OpenBehaviors(t) PROVE MirrorInv'
  <2>1. cb'[t].pc \in {"push", "reset"} /\ cb[t].pc = "openBeh"
        /\ \A u \in Timers \ {t} : cb'[u] = cb[u] /\ cb[u].pc = "idle"
    BY <1>a, <1>22 DEF OpenBehaviors, CbState, ThreadInv, OneAtATime
  <2>2. behFile'.recs = behFile.recs /\ (behFile.made => behFile'.made)
    BY <1>a, <1>22, <2>1 DEF OpenBehaviors, File
  <2>3. cb'[t].pc = "push" => behFile'.made
    BY <1>a, <1>22 DEF OpenBehaviors, CbState, File
  <2> QED
    BY <1>a, <1>22, <2>1, <2>2, <2>3 DEF MirrorInv, MemoryMirrorsDisk, OpenBehaviors
<1>23. ASSUME NEW t \in Timers, PushBehavior(t) PROVE MirrorInv'
  <2>1. /\ phase = "run" /\ behFile.made
        /\ \A u \in Timers \ {t} : cb[u].pc = "idle" /\ cb'[u] = cb[u]
        /\ cb'[t].pc = "writeBeh"
    BY <1>a, <1>23 DEF MirrorInv, MemoryMirrorsDisk, PushBehavior, CbState, ThreadInv,
       OneAtATime, OnlyRunning
  <2>2. Mirrors(mBehavGpsVec', Append(behFile.recs, mLastGPS))
    BY <1>a, <1>23, <2>1, MirrorAppend DEF MirrorInv, MemoryMirrorsDisk, PushBehavior
  <2> QED
    BY <1>a, <1>23, <2>1, <2>2 DEF MirrorInv, MemoryMirrorsDisk, PushBehavior
<1>24. ASSUME NEW t \in Timers, WriteBehavior(t) PROVE MirrorInv'
  <2>1. /\ phase = "run" /\ behFile.made
        /\ \A u \in Timers \ {t} : cb[u].pc = "idle" /\ cb'[u] = cb[u]
        /\ cb'[t].pc = "openPos"
    BY <1>a, <1>24 DEF MirrorInv, MemoryMirrorsDisk, WriteBehavior, CbState, ThreadInv,
       OneAtATime, OnlyRunning
  <2>2. behFile'.recs = Append(behFile.recs, mLastGPS) /\ behFile'.made
    BY <1>a, <1>24, <2>1 DEF WriteBehavior, File
  <2> QED
    BY <1>a, <1>24, <2>1, <2>2 DEF MirrorInv, MemoryMirrorsDisk, WriteBehavior
<1>25. ASSUME NEW t \in Timers, OpenPositions(t) PROVE MirrorInv'
  <2>1. cb'[t].pc \in {"writePos", "reset"} /\ \A u \in Timers \ {t} : cb'[u] = cb[u]
    BY <1>a, <1>25 DEF OpenPositions, CbState
  <2> QED
    BY <1>a, <1>25, <2>1, MirrorFrame DEF OpenPositions
<1>26. ASSUME NEW t \in Timers, WritePositions(t) PROVE MirrorInv'
  BY <1>a, <1>26, MirrorFrame DEF WritePositions, CbState
<1>27. ASSUME NEW t \in Timers, CbReset(t) PROVE MirrorInv'
  BY <1>a, <1>27, MirrorFrame DEF CbReset, CbState
<1>28. ASSUME NEW t \in Timers, CbReturn(t) PROVE MirrorInv'
  BY <1>a, <1>28, MirrorFrame DEF CbReturn, CbState, CbIdle
<1>29. CASE UNCHANGED vars
  BY <1>29 DEF MirrorInv, MemoryMirrorsDisk, vars
<1> QED
  BY <1>1, <1>2, <1>3, <1>4, <1>5, <1>6, <1>6a, <1>6b, <1>6c, <1>7, <1>8,
     <1>8a, <1>8b, <1>9, <1>10, <1>11, <1>12, <1>13, <1>14, <1>15, <1>16,
     <1>17, <1>18, <1>18a, <1>19, <1>20, <1>20a, <1>21, <1>22, <1>23, <1>24,
     <1>25, <1>26, <1>27, <1>28, <1>29 DEF Next, Loader, Handler, Callback

-----------------------------------------------------------------------------
(* What holds as long as no fix is delivered during a callback.            *)

SerialInv == TypeInv /\ FixInv /\ ThreadInv /\ TableInv /\ RecordInv /\ MirrorInv

\* SerialInv is inductive.
LEMMA SerialInvariant == Serial => (Spec => []SerialInv)
PROOF
<1> SUFFICES ASSUME Serial PROVE Spec => []SerialInv
  OBVIOUS
<1>1. Init => SerialInv
  BY TypeInit, FixInit, ThreadInit, TableInit, RecordInit, MirrorInit DEF SerialInv
<1>2. SerialInv /\ [Next]_vars => SerialInv'
  BY TypeStep, FixStep, ThreadStep, TableStep, RecordStep, MirrorStep DEF SerialInv
<1> QED
  BY <1>1, <1>2, PTL DEF Spec

\* A timer that can call back is the one mLastGPSTimer names, or is being taken
\* down by its own callback; so there is never a second one.
LEMMA TimerIsOne == TypeInv /\ FixInv /\ ThreadInv => OneTimer
PROOF
<1> SUFFICES ASSUME TypeInv, FixInv, ThreadInv PROVE OneTimer
  OBVIOUS
<1>1. \A t \in Timers : timers[t].st = "firing" <=> cb[t].pc # "idle"
  BY DEF FixInv, CallbackIsFiring
<1>2. \A t \in Timers :
        /\ timers[t].st = "armed" => mLastGPSTimer = t
        /\ cb[t].pc \in {"stop", "clear"} => mLastGPSTimer = t
        /\ cb[t].pc \notin {"idle", "stop", "clear"} => mLastGPSTimer = NULL
  BY DEF ThreadInv, TimerNamed
<1>3. \A t, u \in Timers : cb[t].pc # "idle" /\ cb[u].pc # "idle" => t = u
  BY DEF ThreadInv, OneAtATime
<1>4. NULL \notin Timers
  BY ThreadTypes
<1> QED
  BY <1>1, <1>2, <1>3, <1>4 DEF OneTimer, Live

\* The process never follows a Timer pointer that points to no timer, and never
\* has two timers that can call back.
THEOREM OneTimerOnly == Serial => (Spec => [](NoBadTimer /\ OneTimer))
PROOF
<1> SUFFICES ASSUME Serial PROVE Spec => [](NoBadTimer /\ OneTimer)
  OBVIOUS
<1>1. SerialInv => NoBadTimer /\ OneTimer
  BY TimerIsOne DEF SerialInv, ThreadInv
<1> QED
  BY <1>1, SerialInvariant, PTL

\* In the position table code and index agree, so that getLatLonByCode finds
\* what the search has found, for tables of any length.
THEOREM CodesAreIndices == Serial => (Spec => []CodeIsIndex)
PROOF
<1> SUFFICES ASSUME Serial PROVE Spec => []CodeIsIndex
  OBVIOUS
<1>1. SerialInv => CodeIsIndex
  BY DEF SerialInv, TableInv
<1> QED
  BY <1>1, SerialInvariant, PTL

\* The trips on disk follow one another, over any number of starts, power cuts
\* and failing calls of fopen.
THEOREM DiskInOrder == Serial => (Spec => []TripsInOrder)
PROOF
<1> SUFFICES ASSUME Serial PROVE Spec => []TripsInOrder
  OBVIOUS
<1>1. SerialInv => TripsInOrder
  BY DEF SerialInv, RecordInv
<1> QED
  BY <1>1, SerialInvariant, PTL

\* Memory and file hold the same trips, whatever calls of fopen fail and whenever
\* the power goes, but for the zeroed record of the load.
THEOREM MemoryIsDisk == Serial => (Spec => []MemoryMirrorsDisk)
PROOF
<1> SUFFICES ASSUME Serial PROVE Spec => []MemoryMirrorsDisk
  OBVIOUS
<1>1. SerialInv => MemoryMirrorsDisk
  BY DEF SerialInv, MirrorInv
<1> QED
  BY <1>1, SerialInvariant, PTL

-----------------------------------------------------------------------------
(***************************************************************************)
(* As long as no fix is delivered during a callback, the recorder implements *)
(* TripLog: for every set of places and every bound, over any number of      *)
(* starts, power cuts and failing calls of fopen.  The step that takes an    *)
(* argument is the one that writes a record: what the callback compares are  *)
(* codes, and TripLog asks for different places.  And what the codes of a    *)
(* record stand for are the places of its trip.                              *)
(***************************************************************************)

\* Where the search for p ends, were it to start now.
Found(p) == SearchPos(mGpsPosVec, Len(mGpsPosVec), p)

\* The handler and the callback have the place of the last fix.
LastPlace ==
  /\ sig.pc # "idle" => sig.place = fixes[Len(fixes)]
  /\ \/ sig.pc \notin {"idle", "latlon"}
     \/ sig.pc = "idle" /\ \E t \in Timers : timers[t].st # "none"
     => mCurPos = fixes[Len(fixes)]
  /\ \A t \in Timers : cb[t].pc = "add" => cb[t].place = fixes[Len(fixes)]

Opens  == {"date", "open", "copy"}
Coding == {"search", "add", "curCode", "firstCode"}

\* The open trip began at a fix, which is the last one while the handler looks
\* for its code; mCurGPS has its date first, mFirstGPS from the copy on.
StartFix ==
  /\ sig.pc \in {"open", "copy"} => mCurGPS.date = Len(fixes)
  /\ mGetFirstGPSSig = 1 /\ sig.pc \notin Opens =>
       /\ mFirstGPS.date = mCurGPS.date /\ mFirstGPS.date \in 1 .. Len(fixes)
       /\ sig.pc \in Coding => mFirstGPS.date = Len(fixes)

\* The start code of the open trip is the index at which the place of its first
\* fix is found, and stays so, since the table grows at its end only.
StartFound ==
  /\ sig.pc = "add" => sig.i = Found(sig.place)
  /\ sig.pc \in {"curCode", "firstCode"} =>
       sig.i = Found(sig.place) /\ Found(sig.place) < Len(mGpsPosVec)
  /\ mGetFirstGPSSig = 1 /\ sig.pc \notin Opens \cup Coding =>
       /\ Found(fixes[mFirstGPS.date]) < Len(mGpsPosVec)
       /\ mFirstGPS.code_s = ToShort(Found(fixes[mFirstGPS.date]))

\* The destination code of the trip in hand is the index at which the place of
\* the last fix is found.
DestFound ==
  \A t \in Timers :
    /\ cb[t].pc \in {"add", "destCode"} => cb[t].i = Found(fixes[Len(fixes)])
    /\ cb[t].pc \in {"search", "add", "destCode", "decide"} \cup Saving =>
         mLastGPS.code_s = mFirstGPS.code_s
    /\ cb[t].pc \in {"decide"} \cup Saving =>
         mLastGPS.code_d = ToShort(Found(fixes[Len(fixes)]))

PlaceInv == LastPlace /\ StartFix /\ StartFound /\ DestFound

-----------------------------------------------------------------------------
(* The codes of the open trip.                                             *)

\* The part of the state PlaceInv reads, with its types.
LEMMA PlaceTypes ==
  ASSUME TypeInv
  PROVE  /\ sig \in SigState /\ cb \in [Timers -> CbState]
         /\ mCurGPS \in Behavior /\ mFirstGPS \in Behavior /\ mLastGPS \in Behavior
         /\ mGetFirstGPSSig \in {0, 1} /\ mCurPos \in Place
         /\ Len(fixes) \in Nat /\ fixes \in Seq(Place)
         /\ mGpsPosVec \in Seq(GPS_POS) /\ Len(mGpsPosVec) \in Nat
         /\ sig.pc # "idle" => Len(fixes) \in 1 .. Len(fixes)
PROOF
  BY DEF TypeInv, TypeOK

\* Before the first start no trip is open.
LEMMA PlaceInit == Init => PlaceInv
PROOF
  BY DEF Init, PlaceInv, LastPlace, StartFix, StartFound, DestFound, Saving, SigIdle,
     CbIdle, NoTimer

\* A step that leaves the fixes, the table and the open trip alone.
LEMMA PlaceFrame ==
  ASSUME PlaceInv,
         UNCHANGED <<fixes, mGpsPosVec, mGetFirstGPSSig, mCurGPS, mFirstGPS, mLastGPS, mCurPos>>,
         \/ sig' = sig
         \/ /\ sig.pc \in {"first", "timer", "new", "start", "restart"}
            /\ sig'.pc \in {"idle", "date", "timer", "new", "start", "restart"}
            /\ sig'.pc # "idle" => sig'.place = sig.place,
         \/ \A t \in Timers : timers'[t].st # "none" => timers[t].st # "none"
         \/ sig.pc = "new",
         \A t \in Timers :
           \/ cb'[t] = cb[t]
           \/ cb'[t].pc \in Saving /\ cb[t].pc \in Saving \cup {"decide"}
           \/ cb'[t].pc \notin {"search", "add", "destCode", "decide"} \cup Saving
  PROVE  PlaceInv'
PROOF
<1>1. LastPlace'
  BY DEF PlaceInv, LastPlace, Saving
<1>2. StartFix'
  BY DEF PlaceInv, StartFix, Opens, Coding
<1>3. StartFound'
  BY DEF PlaceInv, StartFound, Found, Opens, Coding
<1>4. DestFound'
  BY DEF PlaceInv, DestFound, Found, Saving
<1> QED
  BY <1>1, <1>2, <1>3, <1>4 DEF PlaceInv

\* Every step keeps PlaceInv.
LEMMA PlaceStep ==
  ASSUME Serial, SerialInv, PlaceInv, [Next]_vars
  PROVE  PlaceInv'
PROOF
<1> USE DEF env, memory, trip, table, disk
<1>a. /\ sig \in SigState /\ cb \in [Timers -> CbState]
      /\ mCurGPS \in Behavior /\ mFirstGPS \in Behavior /\ mLastGPS \in Behavior
      /\ mGetFirstGPSSig \in {0, 1} /\ mCurPos \in Place
      /\ Len(fixes) \in Nat /\ fixes \in Seq(Place)
      /\ mGpsPosVec \in Seq(GPS_POS) /\ Len(mGpsPosVec) \in Nat
      /\ sig.pc # "idle" => Len(fixes) \in 1 .. Len(fixes)
  BY PlaceTypes DEF SerialInv
<1>b. /\ FixInv /\ ThreadInv /\ TableInv /\ timers \in [Timers -> TimerState]
      /\ NULL \notin Timers /\ Wild \notin Timers
      /\ mLastGPSTimer \in Timers \cup {NULL, Wild}
  BY ThreadTypes DEF SerialInv
<1>1. CASE Boot
  BY <1>a, <1>1, PlaceFrame DEF Boot
<1>2. CASE LoadBehaviors
  BY <1>a, <1>2, PlaceFrame DEF LoadBehaviors
<1>3. CASE LoadPosition
  <2>a. /\ sig.pc = "idle" /\ mGetFirstGPSSig = 0
        /\ \A t \in Timers : cb[t].pc = "idle" /\ timers[t].st = "none"
    BY <1>a, <1>3, <1>b DEF LoadPosition, ThreadInv, OnlyRunning
  <2>1. LastPlace' /\ StartFix' /\ StartFound'
    BY <1>a, <1>3, <2>a DEF PlaceInv, LastPlace, LoadPosition, StartFix, StartFound,
       Found
  <2>2. DestFound'
    BY <1>a, <1>3, <2>a DEF PlaceInv, DestFound, LoadPosition, Found, Saving, CbState
  <2> QED
    BY <2>1, <2>2 DEF PlaceInv
<1>4. CASE PowerOff
  BY <1>a, <1>4 DEF PowerOff, Halt, PlaceInv, LastPlace, StartFix, StartFound,
     DestFound, Saving, SigIdle, CbIdle, NoTimer
<1>5. CASE SigSetLatLon
  <2>a. \A t \in Timers : cb[t].pc = "idle"
    BY <1>a, <1>5, <1>b DEF SigSetLatLon, ThreadInv, OneAtATime
  <2> QED
    BY <1>a, <1>5, <2>a DEF PlaceInv, LastPlace, SigSetLatLon, StartFix, StartFound,
       Found, DestFound, Opens, Coding, Saving
<1>6. CASE SigFirst
  BY <1>a, <1>6, PlaceFrame DEF SigFirst, SigState
<1>6a. CASE SigDate
  <2>a. \A t \in Timers : cb[t].pc = "idle"
    BY <1>a, <1>6a, <1>b DEF SigDate, ThreadInv, OneAtATime
  <2>b. /\ sig.pc = "date" /\ sig'.pc = "open" /\ sig'.place = sig.place
        /\ UNCHANGED <<fixes, mGpsPosVec, mGetFirstGPSSig, mFirstGPS, mCurPos, cb>>
        /\ mCurGPS'.date = Len(fixes)
    BY <1>a, <1>6a DEF SigDate, SigState, Behavior
  <2>1. LastPlace' /\ StartFix' /\ StartFound' /\ DestFound'
    BY <2>a, <2>b DEF PlaceInv, LastPlace, StartFix, StartFound, DestFound, Opens,
       Saving
  <2> QED
    BY <2>1 DEF PlaceInv
<1>6b. CASE SigOpen
  <2>a. \A t \in Timers : cb[t].pc = "idle"
    BY <1>a, <1>6b, <1>b DEF SigOpen, ThreadInv, OneAtATime
  <2>b. /\ sig.pc = "open" /\ sig'.pc = "copy" /\ sig'.place = sig.place
        /\ UNCHANGED <<fixes, mGpsPosVec, mCurGPS, mFirstGPS, mCurPos, cb>>
    BY <1>a, <1>6b DEF SigOpen, SigState
  <2>1. LastPlace' /\ StartFix' /\ StartFound' /\ DestFound'
    BY <2>a, <2>b DEF PlaceInv, LastPlace, StartFix, StartFound, DestFound, Opens,
       Saving
  <2> QED
    BY <2>1 DEF PlaceInv
<1>6c. CASE SigCopy
  <2>a. \A t \in Timers : cb[t].pc = "idle"
    BY <1>a, <1>6c, <1>b DEF SigCopy, ThreadInv, OneAtATime
  <2>b. /\ sig.pc = "copy" /\ sig'.pc = "search" /\ sig'.place = sig.place
        /\ UNCHANGED <<fixes, mGpsPosVec, mGetFirstGPSSig, mCurGPS, mCurPos, cb>>
        /\ mFirstGPS' = mCurGPS
    BY <1>a, <1>6c DEF SigCopy, SigState
  <2>c. mCurGPS.date = Len(fixes) /\ Len(fixes) \in 1 .. Len(fixes)
    BY <1>a, <2>b DEF PlaceInv, StartFix
  <2>1. LastPlace' /\ StartFix' /\ StartFound' /\ DestFound'
    BY <2>a, <2>b, <2>c DEF PlaceInv, LastPlace, StartFix, StartFound, DestFound, Opens,
       Coding, Saving
  <2> QED
    BY <2>1 DEF PlaceInv
<1>7. CASE SigSearch
  <2>a. \A t \in Timers : cb[t].pc = "idle"
    BY <1>a, <1>7, <1>b DEF SigSearch, ThreadInv, OneAtATime
  <2>b. /\ sig.pc = "search" /\ sig'.pc = "add" /\ sig'.place = sig.place
        /\ sig'.i = Found(sig.place)
        /\ UNCHANGED <<fixes, mGpsPosVec, mGetFirstGPSSig, mCurGPS, mFirstGPS, mCurPos, cb>>
    BY <1>a, <1>7 DEF SigSearch, SigState, Found
  <2>1. LastPlace' /\ StartFix' /\ DestFound'
    BY <2>a, <2>b DEF PlaceInv, LastPlace, StartFix, DestFound, Opens, Coding, Saving
  <2>2. StartFound'
    BY <2>b DEF StartFound, Found, Opens, Coding
  <2> QED
    BY <2>1, <2>2 DEF PlaceInv
<1>8. CASE SigAdd
  <2>a. \A t \in Timers : cb[t].pc = "idle"
    BY <1>a, <1>8, <1>b DEF SigAdd, ThreadInv, OneAtATime
  <2>b. /\ sig.size = Len(mGpsPosVec) /\ sig.place \in Place
        /\ sig.i = Found(sig.place) /\ sig.place = fixes[Len(fixes)]
    BY <1>a, <1>8, <2>a, <1>b DEF SigAdd, TableInv, SizesKnown, SigState, PlaceInv,
       StartFound, LastPlace
  <2>c. LET new == AddPos(mGpsPosVec, sig.i, sig.size, sig.place)
        IN  /\ mGpsPosVec' = new /\ SearchPos(new, Len(new), sig.place) = sig.i
            /\ sig.i < Len(new)
    BY <1>a, <1>8, <2>a, <2>b, SearchPosAdded DEF SigAdd, Found
  <2>d. /\ sig'.pc = "curCode" /\ sig'.place = sig.place /\ sig'.i = sig.i
        /\ UNCHANGED <<fixes, mGetFirstGPSSig, mCurGPS, mFirstGPS, mCurPos, cb>>
        /\ sig.pc = "add"
    BY <1>a, <1>8 DEF SigAdd, SigState
  <2>1. LastPlace' /\ StartFix' /\ DestFound'
    BY <2>a, <2>d DEF PlaceInv, LastPlace, StartFix, DestFound, Opens, Coding, Saving
  <2>2. StartFound'
    BY <2>c, <2>d DEF StartFound, Found, Opens, Coding
  <2> QED
    BY <2>1, <2>2 DEF PlaceInv
<1>8a. CASE SigCurCode
  <2>a. \A t \in Timers : cb[t].pc = "idle"
    BY <1>a, <1>8a, <1>b DEF SigCurCode, ThreadInv, OneAtATime
  <2>b. /\ sig.pc = "curCode" /\ sig'.pc = "firstCode"
        /\ sig'.place = sig.place /\ sig'.i = sig.i
        /\ UNCHANGED <<fixes, mGpsPosVec, mGetFirstGPSSig, mFirstGPS, mCurPos, cb>>
        /\ mCurGPS'.date = mCurGPS.date
    BY <1>a, <1>8a DEF SigCurCode, SigState, Behavior
  <2>1. LastPlace' /\ StartFix' /\ DestFound'
    BY <2>a, <2>b DEF PlaceInv, LastPlace, StartFix, DestFound, Opens, Coding, Saving
  <2>2. StartFound'
    BY <2>b DEF PlaceInv, StartFound, Found, Opens, Coding
  <2> QED
    BY <2>1, <2>2 DEF PlaceInv
<1>8b. CASE SigFirstCode
  <2>a. /\ \A t \in Timers : cb[t].pc = "idle"
        /\ mGetFirstGPSSig = 1
    BY <1>a, <1>8b, <1>b DEF SigFirstCode, ThreadInv, OneAtATime, ForOpenTrip
  <2>b. /\ sig.pc = "firstCode" /\ sig'.pc = "timer" /\ sig'.place = sig.place
        /\ UNCHANGED <<fixes, mGpsPosVec, mGetFirstGPSSig, mCurGPS, mCurPos, cb>>
        /\ mFirstGPS'.date = mFirstGPS.date /\ mFirstGPS'.code_s = ToShort(sig.i)
    BY <1>a, <1>8b DEF SigFirstCode, SigState, Behavior
  <2>c. /\ sig.i = Found(fixes[Len(fixes)]) /\ mFirstGPS.date = Len(fixes)
        /\ Found(fixes[Len(fixes)]) < Len(mGpsPosVec)
    BY <2>a, <2>b DEF PlaceInv, LastPlace, StartFix, StartFound, Opens, Coding
  <2>1. LastPlace' /\ StartFix' /\ DestFound'
    BY <2>a, <2>b DEF PlaceInv, LastPlace, StartFix, DestFound, Opens, Coding, Saving
  <2>2. StartFound'
    BY <2>b, <2>c DEF StartFound, Found
  <2> QED
    BY <2>1, <2>2 DEF PlaceInv
<1>9. CASE SigTestTimer
  BY <1>a, <1>9, PlaceFrame DEF SigTestTimer
<1>10. CASE SigNewTimer
  BY <1>a, <1>10, PlaceFrame DEF SigNewTimer
<1>11. CASE SigStartTimer
  <2>1. mLastGPSTimer \in Timers
    BY <1>a, <1>11, <1>b DEF ThreadInv, TimerNamed, SigStartTimer
  <2>2. timers[mLastGPSTimer].st = "new"
    BY <1>a, <1>11, <2>1, <1>b DEF SigStartTimer, ThreadInv, TimerNamed
  <2> QED
    BY SMTT(60), <1>a, <1>11, <2>1, <2>2, <1>b, PlaceFrame DEF SigStartTimer, SigState,
       CbState, Saving, TimerState, SigIdle, CbIdle
<1>12. CASE SigRestartTimer
  <2>1. mLastGPSTimer \in Timers
    BY <1>a, <1>12, <1>b DEF ThreadInv, TimerNamed, SigRestartTimer
  <2>2. \A t \in Timers : timers'[t].st # "none" => timers[t].st # "none"
    BY <1>a, <1>12, <2>1, <1>b DEF SigRestartTimer, Restarted, TimerState
  <2>3. sig.pc = "restart" /\ sig'.pc = "idle" /\ UNCHANGED <<cb, fixes, memory>>
    BY <1>a, <1>12, <2>1, <2>2 DEF SigRestartTimer, SigIdle
  <2> QED
    BY <1>a, <1>12, <2>1, <2>2, <2>3, PlaceFrame
<1>13. ASSUME NEW p \in Place, GPSSignal(p) PROVE PlaceInv'
  <2>a. \A t \in Timers : cb[t].pc = "idle"
    BY <1>a, <1>13 DEF GPSSignal, Serial, Quiet, ActiveCb
  <2>b. /\ Len(fixes') = Len(fixes) + 1 /\ fixes'[Len(fixes) + 1] = p
        /\ \A k \in 1 .. Len(fixes) : fixes'[k] = fixes[k]
    BY <1>a, <1>13, <2>a DEF GPSSignal
  <2>c. /\ sig'.pc = "latlon" /\ sig'.place = p
        /\ mCurGPS'.date = mCurGPS.date /\ UNCHANGED <<cb, mGpsPosVec, mFirstGPS, mGetFirstGPSSig>>
    BY <1>a, <1>13, <2>a, <2>b DEF GPSSignal, SigIdle, Behavior
  <2>d. /\ sig.pc = "idle"
        /\ mGetFirstGPSSig = 1 =>
             /\ mFirstGPS.date = mCurGPS.date /\ mFirstGPS.date \in 1 .. Len(fixes)
             /\ Found(fixes[mFirstGPS.date]) < Len(mGpsPosVec)
             /\ mFirstGPS.code_s = ToShort(Found(fixes[mFirstGPS.date]))
    BY <1>13 DEF GPSSignal, PlaceInv, StartFix, StartFound, Opens, Coding
  <2>1. LastPlace' /\ StartFix'
    BY <1>a, <1>13, <2>a, <2>b, <2>c, <2>d DEF PlaceInv, LastPlace, GPSSignal, StartFix,
       Coding
  <2>2. StartFound'
    BY <1>a, <2>b, <2>c, <2>d DEF StartFound, Found
  <2>3. DestFound'
    BY <1>a, <1>13, <2>a, <2>b, <2>c DEF PlaceInv, DestFound, GPSSignal, Found, Saving,
       CbState
  <2> QED
    BY <2>1, <2>2, <2>3 DEF PlaceInv
<1>14. ASSUME NEW t \in Timers, TimerFire(t) PROVE PlaceInv'
  BY <1>a, <1>14, PlaceFrame DEF TimerFire, SigState, CbState, Saving
<1>15. ASSUME NEW t \in Timers, CbStop(t) PROVE PlaceInv'
  <2>1. mLastGPSTimer \in Timers
    BY <1>a, <1>15, <1>b DEF ThreadInv, TimerNamed, CbStop
  <2>2. \A u \in Timers : timers'[u].st # "none" => timers[u].st # "none"
    BY <1>a, <1>15, <2>1, <1>b DEF CbStop, Restarted, TimerState
  <2>3. /\ cb'[t].pc = "clear" /\ \A u \in Timers \ {t} : cb'[u] = cb[u]
        /\ UNCHANGED <<sig, fixes, memory>>
    BY <1>a, <1>15, <2>1, <2>2 DEF CbStop, CbState
  <2> QED
    BY <1>a, <1>15, <2>1, <2>2, <2>3, PlaceFrame DEF Saving
<1>16. ASSUME NEW t \in Timers, CbClear(t) PROVE PlaceInv'
  BY <1>a, <1>16, PlaceFrame DEF CbClear, SigState, CbState, Saving
<1>17. ASSUME NEW t \in Timers, CbSnap(t) PROVE PlaceInv'
  <2>a. sig.pc = "idle" /\ \A u \in Timers \ {t} : cb[u].pc = "idle"
    BY <1>a, <1>17, <1>b DEF CbSnap, ThreadInv, OneAtATime
  <2>1. LastPlace' /\ StartFix' /\ StartFound'
    BY <1>a, <1>17, <2>a DEF PlaceInv, LastPlace, CbSnap, StartFix, StartFound, Found
  <2>2. DestFound'
    BY <1>a, <1>17, <2>a DEF PlaceInv, DestFound, CbSnap, Found, Saving, CbState
  <2> QED
    BY <2>1, <2>2 DEF PlaceInv
<1>18. ASSUME NEW t \in Timers, CbSize(t) PROVE PlaceInv'
  BY <1>a, <1>18, PlaceFrame DEF CbSize, CbState, Saving
<1>18a. ASSUME NEW t \in Timers, CbStartCode(t) PROVE PlaceInv'
  <2>a. sig.pc = "idle" /\ \A u \in Timers \ {t} : cb[u].pc = "idle"
    BY <1>a, <1>18a, <1>b DEF CbStartCode, ThreadInv, OneAtATime
  <2>1. LastPlace' /\ StartFix' /\ StartFound'
    BY <1>a, <1>18a, <2>a DEF PlaceInv, LastPlace, CbStartCode, StartFix, StartFound, Found
  <2>2. DestFound'
    BY <1>a, <1>18a, <2>a DEF PlaceInv, DestFound, CbStartCode, Found, Saving, CbState
  <2> QED
    BY <2>1, <2>2 DEF PlaceInv
<1>19. ASSUME NEW t \in Timers, CbSearch(t) PROVE PlaceInv'
  <2>a. sig.pc = "idle" /\ \A u \in Timers \ {t} : cb[u].pc = "idle"
    BY <1>a, <1>19, <1>b DEF CbSearch, ThreadInv, OneAtATime
  <2>b. mCurPos = fixes[Len(fixes)]
    BY <1>a, <1>19, <2>a, <1>b DEF CbSearch, PlaceInv, LastPlace, FixInv,
       CallbackIsFiring
  <2>c. cb[t].size = Len(mGpsPosVec)
    BY <1>a, <1>19, <2>a, <2>b, <1>b DEF CbSearch, TableInv, SizesKnown
  <2>1. LastPlace' /\ StartFix' /\ StartFound'
    BY <1>a, <1>19, <2>a, <2>b, <2>c DEF PlaceInv, LastPlace, CbSearch, StartFix,
       StartFound, Found
  <2>2. DestFound'
    BY <1>a, <1>19, <2>a, <2>b, <2>c DEF PlaceInv, DestFound, CbSearch, Found, Saving,
       CbState
  <2> QED
    BY <2>1, <2>2 DEF PlaceInv
<1>20. ASSUME NEW t \in Timers, CbAdd(t) PROVE PlaceInv'
  <2>a. sig.pc = "idle" /\ \A u \in Timers \ {t} : cb[u].pc = "idle"
    BY <1>a, <1>20, <1>b DEF CbAdd, ThreadInv, OneAtATime
  <2>b. /\ cb[t].size = Len(mGpsPosVec) /\ cb[t].place \in Place
        /\ cb[t].i = Found(cb[t].place) /\ cb[t].place = fixes[Len(fixes)]
    BY <1>a, <1>20, <2>a, <1>b DEF CbAdd, TableInv, SizesKnown, CbState, PlaceInv,
       DestFound, LastPlace
  <2>c. LET new == AddPos(mGpsPosVec, cb[t].i, cb[t].size, cb[t].place)
        IN  /\ mGpsPosVec' = new /\ SearchPos(new, Len(new), cb[t].place) = cb[t].i
            /\ \A q : Found(q) < Len(mGpsPosVec) =>
                 SearchPos(new, Len(new), q) = Found(q) /\ SearchPos(new, Len(new), q) < Len(new)
    BY <1>a, <1>20, <2>a, <2>b, SearchPosAdded DEF CbAdd, Found
  <2>d. /\ cb'[t].pc = "destCode" /\ cb'[t].i = cb[t].i
        /\ \A u \in Timers \ {t} : cb'[u] = cb[u]
    BY <1>a, <1>20 DEF CbAdd, CbState
  <2>1. LastPlace' /\ StartFix'
    BY <1>20, <2>a, <2>d DEF PlaceInv, LastPlace, CbAdd, StartFix
  <2>2. StartFound'
    BY <1>a, <1>20, <2>a, <2>c DEF PlaceInv, CbAdd, StartFound, Found
  <2>3. DestFound'
    BY <1>a, <1>20, <2>a, <2>b, <2>c, <2>d DEF PlaceInv, CbAdd, DestFound, Found, Saving
  <2> QED
    BY <2>1, <2>2, <2>3 DEF PlaceInv
<1>20a. ASSUME NEW t \in Timers, CbDestCode(t) PROVE PlaceInv'
  <2>a. sig.pc = "idle" /\ \A u \in Timers \ {t} : cb[u].pc = "idle"
    BY <1>a, <1>20a, <1>b DEF CbDestCode, ThreadInv, OneAtATime
  <2>b. /\ mLastGPS'.code_d = ToShort(cb[t].i) /\ mLastGPS'.code_s = mLastGPS.code_s
        /\ cb[t].pc = "destCode" /\ cb'[t].pc = "decide"
        /\ \A u \in Timers \ {t} : cb'[u] = cb[u]
    BY <1>a, <1>20a DEF CbDestCode, Behavior, CbState
  <2>1. LastPlace' /\ StartFix' /\ StartFound'
    BY <1>a, <1>20a, <2>a, <2>b DEF PlaceInv, LastPlace, CbDestCode, StartFix, StartFound,
       Found
  <2>2. DestFound'
    BY <1>a, <1>20a, <2>a, <2>b DEF PlaceInv, CbDestCode, DestFound, Found, Saving
  <2> QED
    BY <2>1, <2>2 DEF PlaceInv
<1>21. ASSUME NEW t \in Timers, CbDecide(t) PROVE PlaceInv'
  BY <1>a, <1>21, PlaceFrame DEF CbDecide
<1>22. ASSUME NEW t \in Timers, OpenBehaviors(t) PROVE PlaceInv'
  <2>1. cb'[t].pc \in {"push", "reset"} /\ \A u \in Timers \ {t} : cb'[u] = cb[u]
    BY <1>a, <1>22 DEF OpenBehaviors, CbState
  <2> QED
    BY <1>a, <1>22, <2>1, PlaceFrame DEF OpenBehaviors, Saving
<1>23. ASSUME NEW t \in Timers, PushBehavior(t) PROVE PlaceInv'
  BY <1>a, <1>23, PlaceFrame DEF PushBehavior, SigState, CbState, Saving
<1>24. ASSUME NEW t \in Timers, WriteBehavior(t) PROVE PlaceInv'
  BY <1>a, <1>24, PlaceFrame DEF WriteBehavior, SigState, CbState, Saving
<1>25. ASSUME NEW t \in Timers, OpenPositions(t) PROVE PlaceInv'
  <2>1. cb'[t].pc \in {"writePos", "reset"} /\ \A u \in Timers \ {t} : cb'[u] = cb[u]
    BY <1>a, <1>25 DEF OpenPositions, CbState
  <2> QED
    BY <1>a, <1>25, <2>1, PlaceFrame DEF OpenPositions, Saving
<1>26. ASSUME NEW t \in Timers, WritePositions(t) PROVE PlaceInv'
  BY <1>a, <1>26, PlaceFrame DEF WritePositions, SigState, CbState, Saving
<1>27. ASSUME NEW t \in Timers, CbReset(t) PROVE PlaceInv'
  <2>a. sig.pc = "idle" /\ \A u \in Timers \ {t} : cb[u].pc = "idle"
    BY <1>a, <1>27, <1>b DEF CbReset, ThreadInv, OneAtATime
  <2>1. LastPlace' /\ StartFix' /\ StartFound'
    BY <1>a, <1>27, <2>a DEF PlaceInv, LastPlace, CbReset, StartFix, StartFound, Found
  <2>2. DestFound'
    BY <1>a, <1>27, <2>a DEF PlaceInv, DestFound, CbReset, Found, Saving, CbState
  <2> QED
    BY <2>1, <2>2 DEF PlaceInv
<1>28. ASSUME NEW t \in Timers, CbReturn(t) PROVE PlaceInv'
  <2>1. /\ cb'[t].pc = "idle" /\ \A u \in Timers \ {t} : cb'[u] = cb[u]
        /\ UNCHANGED <<sig, fixes, memory>>
    BY <1>a, <1>28 DEF CbReturn, CbState, CbIdle
  <2>2. \A u \in Timers : timers'[u].st # "none" => timers[u].st # "none"
    BY <1>a, <1>28, <2>1, <1>b DEF CbReturn, TimerState, FixInv, CallbackIsFiring
  <2> QED
    BY <1>a, <1>28, <2>1, <2>2, PlaceFrame DEF Saving
<1>29. CASE UNCHANGED vars
  BY <1>29 DEF PlaceInv, vars, LastPlace, StartFix, StartFound, DestFound, Found
<1> QED
  BY <1>1, <1>2, <1>3, <1>4, <1>5, <1>6, <1>6a, <1>6b, <1>6c, <1>7, <1>8,
     <1>8a, <1>8b, <1>9, <1>10, <1>11, <1>12, <1>13, <1>14, <1>15, <1>16,
     <1>17, <1>18, <1>18a, <1>19, <1>20, <1>20a, <1>21, <1>22, <1>23, <1>24,
     <1>25, <1>26, <1>27, <1>28, <1>29 DEF Next, Loader, Handler, Callback
-----------------------------------------------------------------------------
(* Every step is one of TripLog, or none.                                  *)

\* The trip log of the records on disk.
LogOf(recs) == [k \in 1 .. Len(recs) |-> [from |-> recs[k].date, to |-> recs[k].date_d]]

\* A function on 1 .. n is a sequence of length n.
LEMMA FunctionIsSeq ==
  ASSUME NEW S, NEW n \in Nat, NEW f \in [1 .. n -> S]
  PROVE  f \in Seq(S) /\ Len(f) = n
PROOF
  OBVIOUS

\* A record added on disk is a trip added to the log.
LEMMA LogOfAppend ==
  ASSUME NEW recs \in Seq(Behavior), NEW r \in Behavior
  PROVE  LogOf(Append(recs, r)) = Append(LogOf(recs), [from |-> r.date, to |-> r.date_d])
PROOF
<1> DEFINE S == [from : Stamp, to : Stamp]
           e == [from |-> r.date, to |-> r.date_d]
<1>1. Len(recs) \in Nat /\ Append(recs, r) \in Seq(Behavior)
      /\ Len(Append(recs, r)) = Len(recs) + 1
  OBVIOUS
<1>2. \A s \in Seq(Behavior) : LogOf(s) \in Seq(S) /\ Len(LogOf(s)) = Len(s)
  <2> SUFFICES ASSUME NEW s \in Seq(Behavior)
               PROVE  LogOf(s) \in Seq(S) /\ Len(LogOf(s)) = Len(s)
    OBVIOUS
  <2>1. Len(s) \in Nat /\ \A k \in 1 .. Len(s) : s[k] \in Behavior
    OBVIOUS
  <2>2. LogOf(s) \in [1 .. Len(s) -> S]
    BY <2>1 DEF LogOf, Behavior
  <2> HIDE DEF S
  <2> QED
    BY <2>1, <2>2, FunctionIsSeq
<1>3. e \in S
  BY DEF Behavior
<1> HIDE DEF S, e
<1>4. /\ Append(LogOf(recs), e) \in Seq(S)
      /\ Len(Append(LogOf(recs), e)) = Len(recs) + 1
      /\ \A k \in 1 .. Len(recs) : Append(LogOf(recs), e)[k] = LogOf(recs)[k]
      /\ Append(LogOf(recs), e)[Len(recs) + 1] = e
  BY <1>1, <1>2, <1>3
<1>5. \A k \in 1 .. Len(recs) + 1 : LogOf(Append(recs, r))[k] = Append(LogOf(recs), e)[k]
  <2>1. \A k \in 1 .. Len(recs) : LogOf(Append(recs, r))[k] = LogOf(recs)[k]
    BY <1>1 DEF LogOf
  <2>2. LogOf(Append(recs, r))[Len(recs) + 1] = e
    BY <1>1 DEF LogOf, e
  <2> QED
    BY <1>1, <1>4, <2>1, <2>2
<1>6. LogOf(Append(recs, r)) = Append(LogOf(recs), e)
  <2> DEFINE s1 == LogOf(Append(recs, r))
             s2 == Append(LogOf(recs), e)
  <2>1. s1 \in Seq(S) /\ s2 \in Seq(S) /\ Len(s1) = Len(s2)
    BY <1>1, <1>2, <1>4
  <2>2. \A k \in 1 .. Len(s1) : s1[k] = s2[k]
    BY <1>1, <1>2, <1>5
  <2> HIDE DEF s1, s2
  <2>3. s1 = s2
    BY <2>1, <2>2, SeqEqual
  <2> QED
    BY <2>3 DEF s1, s2
<1> QED
  BY <1>6 DEF e

\* The recorder starts with an empty log.
LEMMA RefineInit == Init => TL!Init
PROOF
<1> SUFFICES ASSUME Init PROVE TL!Init
  OBVIOUS
<1>1. OpenedAt = 0
  BY DEF Init, OpenedAt, Opening, Closing, SigIdle, CbIdle
<1>2. LogOf(behFile.recs) = << >>
  BY DEF Init, LogOf, NoFile
<1> QED
  BY <1>1, <1>2 DEF TL!Init, LogOf, Init

\* The steps TripLog does not see.
LEMMA Unseen ==
  ASSUME UNCHANGED fixes, behFile'.recs = behFile.recs, Opening' <=> Opening,
         Opening \/ (mGetFirstGPSSig' = mGetFirstGPSSig /\ mFirstGPS'.date = mFirstGPS.date),
         \A t \in Timers : cb'[t].pc \in Done <=> cb[t].pc \in Done
  PROVE  UNCHANGED TL!vars
PROOF
<1>1. Closing' <=> Closing
  BY DEF Closing, Done
<1>2. OpenedAt' = OpenedAt
  BY <1>1 DEF OpenedAt
<1> QED
  BY <1>2 DEF TL!vars

\* Every step of the recorder is one of TripLog, or leaves the log as it is.
LEMMA RefineStep ==
  ASSUME Serial, SerialInv, PlaceInv, [Next]_vars
  PROVE  TL!Next \/ UNCHANGED TL!vars
PROOF
<1> DEFINE Refined == TL!Next \/ UNCHANGED TL!vars
<1> USE DEF env, memory, trip, table, disk
<1>a. /\ sig \in SigState /\ cb \in [Timers -> CbState]
      /\ mCurGPS \in Behavior /\ mFirstGPS \in Behavior /\ mLastGPS \in Behavior
      /\ mGetFirstGPSSig \in {0, 1} /\ Len(fixes) \in Nat /\ fixes \in Seq(Place)
      /\ behFile \in File(Behavior) /\ behFile.recs \in Seq(Behavior)
  BY PlaceTypes, RecordTypes DEF SerialInv
<1>b. /\ FixInv /\ ThreadInv /\ RecordInv
      /\ NULL \notin Timers /\ Wild \notin Timers
      /\ mLastGPSTimer \in Timers \cup {NULL, Wild}
  BY ThreadTypes DEF SerialInv
<1>c. ASSUME OpenedAt # 0, OpenedAt' = 0, UNCHANGED fixes, behFile'.recs = behFile.recs
      PROVE  Refined
  BY <1>c DEF TL!Next, TL!Lose
<1> HIDE DEF Refined
<1>1. CASE Boot
  BY <1>a, <1>1, Unseen DEF Refined, Boot, Opening, SigState
<1>2. CASE LoadBehaviors
  BY <1>a, <1>2, Unseen DEF Refined, LoadBehaviors, Opening, SigState
<1>3. CASE LoadPosition
  BY <1>a, <1>3, Unseen DEF Refined, LoadPosition, Opening, SigState
<1>4. CASE PowerOff
  <2>1. OpenedAt' = 0 /\ UNCHANGED <<fixes, behFile>>
    BY <1>a, <1>4 DEF PowerOff, Halt, OpenedAt, Opening, Closing, SigIdle, CbIdle
  <2>2. OpenedAt = 0 => UNCHANGED TL!vars
    BY <1>a, <1>4, <2>1 DEF TL!vars
  <2> QED
    BY <1>a, <1>4, <2>1, <2>2, <1>c DEF Refined
<1>5. CASE SigSetLatLon
  BY <1>a, <1>5, Unseen DEF Refined, SigSetLatLon, Opening, SigState
<1>6. CASE SigFirst
  BY <1>a, <1>6, Unseen DEF Refined, SigFirst, SigState, Opening
<1>6a. CASE SigDate
  BY <1>a, <1>6a, Unseen DEF Refined, SigDate, SigState, Opening
<1>6b. CASE SigOpen
  BY <1>a, <1>6b, Unseen DEF Refined, SigOpen, SigState, Opening
<1>6c. CASE SigCopy
  <2>1. /\ sig.pc = "copy" /\ sig'.pc = "search" /\ mFirstGPS' = mCurGPS
        /\ UNCHANGED <<fixes, behFile, mGetFirstGPSSig, cb>>
    BY <1>a, <1>6c DEF SigCopy, SigState
  <2>2. ~Closing /\ ~Closing'
    BY <1>b, <2>1 DEF ThreadInv, OneAtATime, Closing
  <2>3. mGetFirstGPSSig = 1 /\ mCurGPS.date = Len(fixes)
    BY <1>b, <2>1 DEF ThreadInv, ForOpenTrip, PlaceInv, StartFix
  <2>4. OpenedAt' = OpenedAt
    BY <2>1, <2>2, <2>3 DEF OpenedAt, Opening
  <2> QED
    BY <2>1, <2>4 DEF Refined, TL!vars
<1>7. CASE SigSearch
  BY <1>a, <1>7, Unseen DEF Refined, SigSearch, Opening, SigState
<1>8. CASE SigAdd
  BY <1>a, <1>8, Unseen DEF Refined, SigAdd, Opening, SigState
<1>8a. CASE SigCurCode
  BY <1>a, <1>8a, Unseen DEF Refined, SigCurCode, Opening, SigState
<1>8b. CASE SigFirstCode
  BY <1>a, <1>8b, Unseen DEF Refined, SigFirstCode, Opening, SigState,
     Behavior
<1>9. CASE SigTestTimer
  BY <1>a, <1>9, Unseen DEF Refined, SigTestTimer, Opening, SigState
<1>10. CASE SigNewTimer
  BY <1>a, <1>10, Unseen DEF Refined, SigNewTimer, Opening, SigState
<1>11. CASE SigStartTimer
  <2>1. mLastGPSTimer \in Timers
    BY <1>a, <1>11, <1>b DEF ThreadInv, TimerNamed, SigStartTimer
  <2> QED
    BY <1>a, <1>11, <2>1, Unseen DEF Refined, SigStartTimer, SigState, CbState, Done,
       Opening, Behavior, SigIdle, CbIdle, File
<1>12. CASE SigRestartTimer
  <2>1. mLastGPSTimer \in Timers
    BY <1>a, <1>12, <1>b DEF ThreadInv, TimerNamed, SigRestartTimer
  <2> QED
    BY <1>a, <1>12, <2>1, Unseen DEF Refined, SigRestartTimer, SigState, CbState, Done,
       Opening, Behavior, SigIdle, CbIdle, File
<1>13. ASSUME NEW p \in Place, GPSSignal(p) PROVE Refined
  <2>1. ~Closing /\ ~Closing'
    BY <1>a, <1>13 DEF GPSSignal, Serial, Quiet, ActiveCb, Closing
  <2>2. sig.pc = "idle" /\ sig'.pc = "latlon"
    BY <1>a, <1>13, <2>1 DEF GPSSignal, SigIdle
  <2>3. mGetFirstGPSSig = 1 => mFirstGPS.date # 0
    BY <1>a, <1>13, <2>1, <2>2 DEF PlaceInv, StartFix, Opens
  <2>4. OpenedAt' = IF OpenedAt = 0 THEN Len(fixes') ELSE OpenedAt
    BY <1>a, <1>13, <2>1, <2>2, <2>3 DEF GPSSignal, OpenedAt, Opening
  <2>5. TL!Fix(p)
    BY <1>a, <1>13, <2>1, <2>2, <2>3, <2>4 DEF GPSSignal, TL!Fix
  <2> QED
    BY <1>a, <1>13, <2>1, <2>2, <2>3, <2>4, <2>5 DEF Refined, TL!Next
<1>14. ASSUME NEW t \in Timers, TimerFire(t) PROVE Refined
  <2>1. cb[t].pc = "idle"
    BY <1>a, <1>14, <1>b DEF TimerFire, FixInv, CallbackIsFiring
  <2> QED
    BY <1>a, <1>14, <2>1, Unseen DEF Refined, TimerFire, SigState, CbState, Done, Opening
<1>15. ASSUME NEW t \in Timers, CbStop(t) PROVE Refined
  <2>1. mLastGPSTimer \in Timers
    BY <1>a, <1>15, <1>b DEF ThreadInv, TimerNamed, CbStop
  <2> QED
    BY ZenonT(60), <1>a, <1>15, <2>1, Unseen DEF Refined, CbStop, SigState, CbState,
       Done, Opening
<1>16. ASSUME NEW t \in Timers, CbClear(t) PROVE Refined
  BY <1>a, <1>16, Unseen DEF Refined, CbClear, SigState, CbState, Done, Opening
<1>17. ASSUME NEW t \in Timers, CbSnap(t) PROVE Refined
  BY <1>a, <1>17, Unseen DEF Refined, CbSnap, SigState, CbState, Done, Opening
<1>18. ASSUME NEW t \in Timers, CbSize(t) PROVE Refined
  BY <1>a, <1>18, Unseen DEF Refined, CbSize, SigState, CbState, Done, Opening
<1>18a. ASSUME NEW t \in Timers, CbStartCode(t) PROVE Refined
  BY <1>a, <1>18a, Unseen DEF Refined, CbStartCode, SigState, CbState, Done, Opening
<1>19. ASSUME NEW t \in Timers, CbSearch(t) PROVE Refined
  BY <1>a, <1>19, Unseen DEF Refined, CbSearch, SigState, CbState, Done, Opening
<1>20. ASSUME NEW t \in Timers, CbAdd(t) PROVE Refined
  BY <1>a, <1>20, Unseen DEF Refined, CbAdd, SigState, CbState, Done, Opening
<1>20a. ASSUME NEW t \in Timers, CbDestCode(t) PROVE Refined
  BY <1>a, <1>20a, Unseen DEF Refined, CbDestCode, SigState, CbState, Done, Opening
<1>21. ASSUME NEW t \in Timers, CbDecide(t) PROVE Refined
  BY <1>a, <1>21, Unseen DEF Refined, CbDecide, SigState, CbState, Done, Opening
<1>22. ASSUME NEW t \in Timers, OpenBehaviors(t) PROVE Refined
  <2>a. sig.pc = "idle" /\ \A u \in Timers \ {t} : cb[u].pc = "idle"
    BY <1>a, <1>22, <1>b DEF OpenBehaviors, ThreadInv, OneAtATime
  <2>1. mGetFirstGPSSig = 1 /\ mFirstGPS.date # 0
    BY <1>a, <1>22, <2>a, <1>b DEF OpenBehaviors, ThreadInv, ForOpenTrip, PlaceInv,
       StartFix, Opens
  <2>2. OpenedAt = mFirstGPS.date
    BY <1>a, <1>22, <2>a, <2>1 DEF OpenBehaviors, OpenedAt, Opening, Closing
  <2>3. behFile'.recs = behFile.recs /\ UNCHANGED <<fixes, sig, memory>> /\ cb'[t].pc \in {"push", "reset"}
        /\ \A u \in Timers \ {t} : cb'[u] = cb[u]
    BY <1>a, <1>22, <2>a, <2>1, <2>2 DEF OpenBehaviors, File, CbState
  <2>4. cb'[t].pc = "reset" => OpenedAt' = 0
    BY <1>a, <1>22, <2>a, <2>1, <2>2, <2>3 DEF OpenedAt, Opening, Closing
  <2>5. cb'[t].pc = "push" => UNCHANGED TL!vars
    BY <1>a, <1>22, <2>a, <2>1, <2>2, <2>3, <2>4, Unseen DEF OpenBehaviors, Done, Opening
  <2> QED
    BY <1>a, <1>22, <2>a, <2>1, <2>2, <2>3, <2>4, <2>5, <1>c DEF Refined
<1>23. ASSUME NEW t \in Timers, PushBehavior(t) PROVE Refined
  BY <1>a, <1>23, Unseen DEF Refined, PushBehavior, SigState, CbState, Done, Opening
<1>24. ASSUME NEW t \in Timers, WriteBehavior(t) PROVE Refined
  <2>a. sig.pc = "idle" /\ \A u \in Timers \ {t} : cb[u].pc = "idle"
    BY <1>a, <1>24, <1>b DEF WriteBehavior, ThreadInv, OneAtATime
  <2>1. UNCHANGED <<fixes, mFirstGPS, mLastGPS>> /\ cb'[t].pc = "openPos"
        /\ \A u \in Timers \ {t} : cb'[u] = cb[u]
    BY <1>a, <1>24, <2>a DEF WriteBehavior, CbState, CbIdle
  <2>2. mGetFirstGPSSig = 1 /\ mFirstGPS.date = mCurGPS.date /\ mFirstGPS.date \in 1 .. Len(fixes)
    BY <1>a, <1>24, <2>a, <2>1, <1>b DEF WriteBehavior, ThreadInv, ForOpenTrip,
       PlaceInv, StartFix, Opens
  <2>3. OpenedAt = mFirstGPS.date /\ OpenedAt' = 0
    BY <1>a, <1>24, <2>a, <2>1, <2>2 DEF WriteBehavior, OpenedAt, Opening, Closing
  <2>4. mLastGPS.date = mFirstGPS.date /\ mLastGPS.date_d = Len(fixes)
    BY <1>a, <1>24, <2>a, <2>1, <2>2, <2>3, <1>b DEF WriteBehavior, RecordInv,
       TripInHand, Searching, Saving, FixInv, CallbackIsFiring, CurIsLastFix
  <2>5. /\ mLastGPS.code_s = ToShort(Found(fixes[mFirstGPS.date]))
        /\ mLastGPS.code_d = ToShort(Found(fixes[Len(fixes)]))
        /\ mLastGPS.code_s # mLastGPS.code_d
    BY <1>a, <1>24, <2>a, <2>1, <2>2, <2>3, <2>4, <1>b DEF WriteBehavior, PlaceInv,
       StartFound, DestFound, RecordInv, TripInHand, Searching, Saving, Opens, Coding
  <2>6. fixes[OpenedAt] # fixes[Len(fixes)]
    BY <1>a, <1>24, <2>a, <2>1, <2>2, <2>3, <2>4, <2>5
  <2>7. LogOf(behFile'.recs) = Append(LogOf(behFile.recs), [from |-> OpenedAt, to |-> Len(fixes)])
    BY <1>a, <1>24, <2>a, <2>1, <2>2, <2>3, <2>4, <2>5, <2>6, LogOfAppend DEF
       WriteBehavior, File
  <2>8. OpenedAt # 0
    BY <1>a, <2>2, <2>3
  <2>9. LogOf(behFile.recs)' = Append(LogOf(behFile.recs), [from |-> OpenedAt, to |-> Len(fixes)])
    BY <2>7 DEF LogOf
  <2>10. UNCHANGED fixes
    BY <2>1
  <2>11. TL!Record
    BY <2>3, <2>6, <2>8, <2>9, <2>10, Zenon DEF TL!Record, LogOf
  <2> QED
    BY <1>a, <1>24, <2>a, <2>1, <2>2, <2>3, <2>4, <2>5, <2>6, <2>7, <2>8, <2>9, <2>10,
       <2>11 DEF Refined, TL!Next
<1>25. ASSUME NEW t \in Timers, OpenPositions(t) PROVE Refined
  <2>1. cb'[t].pc \in {"writePos", "reset"} /\ \A u \in Timers \ {t} : cb'[u] = cb[u]
    BY <1>a, <1>25 DEF OpenPositions, CbState
  <2> QED
    BY <1>a, <1>25, <2>1, Unseen DEF Refined, OpenPositions, Done, Opening
<1>26. ASSUME NEW t \in Timers, WritePositions(t) PROVE Refined
  BY <1>a, <1>26, Unseen DEF Refined, WritePositions, SigState, CbState, Done, Opening
<1>27. ASSUME NEW t \in Timers, CbReset(t) PROVE Refined
  <2>a. sig.pc = "idle" /\ \A u \in Timers \ {t} : cb[u].pc = "idle"
    BY <1>a, <1>27, <1>b DEF CbReset, ThreadInv, OneAtATime
  <2>1. cb'[t].pc = "ret" /\ \A u \in Timers \ {t} : cb'[u] = cb[u]
    BY <1>a, <1>27, <2>a DEF CbReset, CbState, CbIdle
  <2>2. OpenedAt = 0
    BY <1>a, <1>27, <2>a, <2>1 DEF CbReset, OpenedAt, Opening, Closing
  <2>3. OpenedAt' = 0
    BY <1>a, <1>27, <2>a, <2>1, <2>2 DEF CbReset, OpenedAt, Opening, Closing
  <2> QED
    BY <1>a, <1>27, <2>a, <2>1, <2>2, <2>3 DEF Refined, CbReset, TL!vars
<1>28. ASSUME NEW t \in Timers, CbReturn(t) PROVE Refined
  <2>1. cb'[t].pc = "idle" /\ \A u \in Timers \ {t} : cb'[u] = cb[u]
    BY <1>a, <1>28 DEF CbReturn, CbState, CbIdle
  <2> QED
    BY <1>a, <1>28, <2>1, Unseen DEF Refined, CbReturn, SigState, CbState, Done, Opening
<1>29. CASE UNCHANGED vars
  BY <1>29 DEF Refined, vars, TL!vars, OpenedAt, Opening, Closing
<1> QED
  BY <1>1, <1>2, <1>3, <1>4, <1>5, <1>6, <1>6a, <1>6b, <1>6c, <1>7, <1>8,
     <1>8a, <1>8b, <1>9, <1>10, <1>11, <1>12, <1>13, <1>14, <1>15, <1>16,
     <1>17, <1>18, <1>18a, <1>19, <1>20, <1>20a, <1>21, <1>22, <1>23, <1>24,
     <1>25, <1>26, <1>27, <1>28, <1>29 DEF Next, Loader, Handler, Callback, Refined

\* The recorder implements TripLog: what happens to the fixes, the open trip and
\* the records on disk is a behaviour of the abstract log.
THEOREM RecorderImplementsTripLog == Serial => (Spec => ImplementsTripLog)
PROOF
<1> SUFFICES ASSUME Serial PROVE Spec => ImplementsTripLog
  OBVIOUS
<1>1. Init => PlaceInv
  BY PlaceInit
<1>2. SerialInv /\ PlaceInv /\ [Next]_vars => PlaceInv'
  BY PlaceStep
<1>3. SerialInv /\ PlaceInv /\ [Next]_vars => [TL!Next]_(TL!vars)
  BY RefineStep
<1> QED
  BY <1>1, <1>2, <1>3, RefineInit, SerialInvariant, PTL DEF Spec, ImplementsTripLog, TL!Spec

-----------------------------------------------------------------------------
(* The records name their trips.                                           *)

\* The trip of r began before it ended, and its codes are the indices at which
\* the places of both fixes are found.
CodesFound(r) ==
  /\ r.date \in 1 .. Len(fixes) /\ r.date_d \in 1 .. Len(fixes) /\ r.date < r.date_d
  /\ Found(fixes[r.date]) < Len(mGpsPosVec) /\ r.code_s = ToShort(Found(fixes[r.date]))
  /\ Found(fixes[r.date_d]) < Len(mGpsPosVec) /\ r.code_d = ToShort(Found(fixes[r.date_d]))

\* That holds of the records written since the start, of which there is none
\* while the files are loaded.
NewFound ==
  \A k \in 1 .. Len(behFile.recs) :
    behFile.recs[k].date > bootFix =>
      phase \notin {"behav", "pos"} /\ (phase = "run" => CodesFound(behFile.recs[k]))

\* The destination is in the table once it has been added.
DestHeld ==
  \A t \in Timers :
    cb[t].pc \in {"destCode", "decide"} \cup Saving =>
      Found(fixes[Len(fixes)]) < Len(mGpsPosVec)

NameInv == NewFound /\ DestHeld

\* The part of the state NameInv reads.
LEMMA NameTypes ==
  ASSUME SerialInv
  PROVE  /\ Len(behFile.recs) \in Nat /\ bootFix \in Nat /\ Len(fixes) \in Nat
         /\ \A k \in 1 .. Len(behFile.recs) :
              /\ behFile.recs[k].date \in Nat /\ behFile.recs[k].date_d \in Nat
              /\ behFile.recs[k].date <= behFile.recs[k].date_d
              /\ behFile.recs[k].date_d <= Len(fixes)
PROOF
<1>1. /\ behFile.recs \in Seq(Behavior) /\ bootFix \in Stamp /\ Len(fixes) \in Nat
      /\ Len(behFile.recs) \in Nat
  BY RecordTypes DEF SerialInv, TypeInv, TypeOK, File
<1>2. \A k \in 1 .. Len(behFile.recs) : behFile.recs[k] \in Behavior
  BY <1>1, ElementOfSeq
<1>3. \A k \in 1 .. Len(behFile.recs) : behFile.recs[k].date \in Nat /\ behFile.recs[k].date_d \in Nat
  BY <1>2, RecorderAssumption DEF Behavior, Stamp
<1> QED
  BY <1>1, <1>3, RecorderAssumption DEF Stamp, SerialInv, RecordInv, TripsInOrder,
     OpenTripLast

\* Before the first start there is no record.
LEMMA NameInit == Init => NameInv
PROOF
  BY DEF Init, NameInv, NewFound, DestHeld, Saving, CbIdle, NoFile

\* A step that leaves fixes, table and records alone.
LEMMA NameFrame ==
  ASSUME NameInv, UNCHANGED <<fixes, mGpsPosVec, bootFix>>, behFile'.recs = behFile.recs,
         phase' = phase \/ phase' \in {"off", "crash"},
         \A t \in Timers : cb'[t].pc \in {"destCode", "decide"} \cup Saving =>
                           cb[t].pc \in {"destCode", "decide"} \cup Saving
  PROVE  NameInv'
PROOF
<1>1. NewFound'
  BY DEF NameInv, NewFound, CodesFound, Found
<1>2. DestHeld'
  BY DEF NameInv, DestHeld, Found, Saving
<1> QED
  BY <1>1, <1>2 DEF NameInv

\* A step that adds a place to the table.
LEMMA NameAdded ==
  ASSUME NameInv, UNCHANGED <<fixes, bootFix, phase, behFile>>,
         \A q : Found(q) < Len(mGpsPosVec) =>
           /\ SearchPos(mGpsPosVec', Len(mGpsPosVec'), q) = Found(q)
           /\ SearchPos(mGpsPosVec', Len(mGpsPosVec'), q) < Len(mGpsPosVec')
  PROVE  NewFound'
PROOF
  BY DEF NameInv, NewFound, CodesFound, Found

\* Every step keeps NameInv.
LEMMA NameStep ==
  ASSUME Serial, SerialInv, PlaceInv, NameInv, [Next]_vars
  PROVE  NameInv'
PROOF
<1> USE DEF env, memory, trip, table, disk
<1>a. /\ sig \in SigState /\ cb \in [Timers -> CbState]
      /\ mLastGPS \in Behavior /\ mGpsPosVec \in Seq(GPS_POS) /\ Len(mGpsPosVec) \in Nat
      /\ Len(fixes) \in Nat /\ fixes \in Seq(Place)
      /\ behFile \in File(Behavior) /\ behFile.recs \in Seq(Behavior)
  BY PlaceTypes, RecordTypes DEF SerialInv
<1>b. /\ FixInv /\ ThreadInv /\ TableInv /\ RecordInv
  BY DEF SerialInv
<1>c. behFile.recs \in Seq(Behavior) /\ mLastGPS \in Behavior
  BY <1>a
<1>1. CASE Boot
  <2>a. \A t \in Timers : cb[t].pc = "idle"
    BY <1>a, <1>1, <1>b DEF Boot, ThreadInv, OnlyRunning
  <2>1. NewFound'
    BY <1>a, <1>1, <2>a, NameTypes DEF Boot, NewFound
  <2>2. DestHeld'
    BY <1>a, <1>1, <2>a, <2>1 DEF Boot, DestHeld, Saving
  <2> QED
    BY <2>1, <2>2 DEF NameInv
<1>2. CASE LoadBehaviors
  <2>a. \A t \in Timers : cb[t].pc = "idle"
    BY <1>a, <1>2, <1>b DEF LoadBehaviors, ThreadInv, OnlyRunning
  <2>1. NewFound'
    BY <1>a, <1>2, <2>a DEF LoadBehaviors, NameInv, NewFound
  <2>2. DestHeld'
    BY <1>a, <1>2, <2>a, <2>1 DEF LoadBehaviors, DestHeld, Saving
  <2> QED
    BY <2>1, <2>2 DEF NameInv
<1>3. CASE LoadPosition
  <2>a. \A t \in Timers : cb[t].pc = "idle"
    BY <1>a, <1>3, <1>b DEF LoadPosition, ThreadInv, OnlyRunning
  <2>1. NewFound'
    BY <1>a, <1>3, <2>a DEF LoadPosition, NameInv, NewFound
  <2>2. DestHeld'
    BY <1>a, <1>3, <2>a, <2>1 DEF LoadPosition, DestHeld, Saving
  <2> QED
    BY <2>1, <2>2 DEF NameInv
<1>4. CASE PowerOff
  <2>1. NewFound'
    BY <1>a, <1>4 DEF PowerOff, Halt, NewFound
  <2>2. DestHeld'
    BY <1>a, <1>4, <2>1 DEF PowerOff, Halt, DestHeld, Saving, CbIdle
  <2> QED
    BY <2>1, <2>2 DEF NameInv
<1>5. CASE SigSetLatLon
  BY <1>a, <1>5, NameFrame DEF SigSetLatLon
<1>6. CASE SigFirst
  BY <1>a, <1>6, NameFrame DEF SigFirst
<1>6a. CASE SigDate
  BY <1>a, <1>6a, NameFrame DEF SigDate
<1>6b. CASE SigOpen
  BY <1>a, <1>6b, NameFrame DEF SigOpen
<1>6c. CASE SigCopy
  BY <1>a, <1>6c, NameFrame DEF SigCopy
<1>7. CASE SigSearch
  BY <1>a, <1>7, NameFrame DEF SigSearch
<1>8. CASE SigAdd
  <2>a. \A t \in Timers : cb[t].pc = "idle"
    BY <1>a, <1>8, <1>b DEF SigAdd, ThreadInv, OneAtATime
  <2>b. /\ sig.size = Len(mGpsPosVec) /\ sig.place \in Place
        /\ sig.i = Found(sig.place)
    BY <1>a, <1>8, <2>a, <1>b DEF SigAdd, TableInv, SizesKnown, SigState, PlaceInv,
       StartFound, LastPlace
  <2>1. NewFound'
    BY <1>a, <1>8, <2>a, <2>b, NameAdded, SearchPosAdded DEF SigAdd, Found
  <2>2. DestHeld'
    BY <1>a, <1>8, <2>a, <2>b, <2>1 DEF SigAdd, DestHeld, Saving
  <2> QED
    BY <2>1, <2>2 DEF NameInv
<1>8a. CASE SigCurCode
  BY <1>a, <1>8a, NameFrame DEF SigCurCode
<1>8b. CASE SigFirstCode
  BY <1>a, <1>8b, NameFrame DEF SigFirstCode
<1>9. CASE SigTestTimer
  BY <1>a, <1>9, NameFrame DEF SigTestTimer
<1>10. CASE SigNewTimer
  BY <1>a, <1>10, NameFrame DEF SigNewTimer
<1>11. CASE SigStartTimer
  <2>1. mLastGPSTimer \in Timers
    BY <1>a, <1>11, <1>b, ThreadTypes DEF SerialInv, ThreadInv, TimerNamed,
       SigStartTimer
  <2> QED
    BY <1>a, <1>11, <2>1, NameFrame DEF SigStartTimer
<1>12. CASE SigRestartTimer
  <2>1. mLastGPSTimer \in Timers
    BY <1>a, <1>12, <1>b, ThreadTypes DEF SerialInv, ThreadInv, TimerNamed,
       SigRestartTimer
  <2> QED
    BY <1>a, <1>12, <2>1, NameFrame DEF SigRestartTimer
<1>13. ASSUME NEW p \in Place, GPSSignal(p) PROVE NameInv'
  <2>a. \A t \in Timers : cb'[t].pc = "idle"
    BY <1>a, <1>13 DEF GPSSignal, Serial, Quiet, ActiveCb
  <2>b. /\ Len(fixes') = Len(fixes) + 1 /\ \A k \in 1 .. Len(fixes) : fixes'[k] = fixes[k]
        /\ UNCHANGED <<mGpsPosVec, behFile, phase, bootFix>>
    BY <1>a, <1>13, <2>a DEF GPSSignal
  <2>c. \A r : CodesFound(r) => CodesFound(r)'
    BY <1>a, <2>b DEF CodesFound, Found
  <2>1. NewFound'
    BY <2>b, <2>c DEF NameInv, NewFound, CodesFound, Found
  <2>2. DestHeld'
    BY <2>a DEF DestHeld, Saving
  <2> QED
    BY <2>1, <2>2 DEF NameInv
<1>14. ASSUME NEW t \in Timers, TimerFire(t) PROVE NameInv'
  BY <1>a, <1>14, NameFrame DEF TimerFire, CbState, Saving
<1>15. ASSUME NEW t \in Timers, CbStop(t) PROVE NameInv'
  <2>1. mLastGPSTimer \in Timers
    BY <1>a, <1>15, <1>b, ThreadTypes DEF SerialInv, ThreadInv, TimerNamed, CbStop
  <2> QED
    BY <1>a, <1>15, <2>1, NameFrame DEF CbStop, CbState, Saving
<1>16. ASSUME NEW t \in Timers, CbClear(t) PROVE NameInv'
  BY <1>a, <1>16, NameFrame DEF CbClear, CbState, Saving
<1>17. ASSUME NEW t \in Timers, CbSnap(t) PROVE NameInv'
  BY <1>a, <1>17, NameFrame DEF CbSnap, CbState, Saving
<1>18. ASSUME NEW t \in Timers, CbSize(t) PROVE NameInv'
  BY <1>a, <1>18, NameFrame DEF CbSize, CbState, Saving
<1>18a. ASSUME NEW t \in Timers, CbStartCode(t) PROVE NameInv'
  BY <1>a, <1>18a, NameFrame DEF CbStartCode, CbState, Saving
<1>19. ASSUME NEW t \in Timers, CbSearch(t) PROVE NameInv'
  BY <1>a, <1>19, NameFrame DEF CbSearch, CbState, Saving
<1>20. ASSUME NEW t \in Timers, CbAdd(t) PROVE NameInv'
  <2>a. sig.pc = "idle" /\ \A u \in Timers \ {t} : cb[u].pc = "idle"
    BY <1>a, <1>20, <1>b DEF CbAdd, ThreadInv, OneAtATime
  <2>b. /\ cb[t].size = Len(mGpsPosVec) /\ cb[t].place \in Place
        /\ cb[t].i = Found(cb[t].place) /\ cb[t].place = fixes[Len(fixes)]
    BY <1>a, <1>20, <2>a, <1>b DEF CbAdd, TableInv, SizesKnown, CbState, PlaceInv,
       DestFound, LastPlace
  <2>c. LET new == AddPos(mGpsPosVec, cb[t].i, cb[t].size, cb[t].place)
        IN  /\ mGpsPosVec' = new /\ SearchPos(new, Len(new), cb[t].place) < Len(new)
            /\ \A q : Found(q) < Len(mGpsPosVec) =>
                 SearchPos(new, Len(new), q) = Found(q) /\ SearchPos(new, Len(new), q) < Len(new)
    BY <1>a, <1>20, <2>a, <2>b, SearchPosAdded DEF CbAdd, Found
  <2>1. NewFound'
    BY <1>a, <1>20, <2>a, <2>b, <2>c, NameAdded DEF CbAdd
  <2>2. DestHeld'
    BY <1>a, <1>20, <2>a, <2>b, <2>c, <2>1 DEF CbAdd, DestHeld, Found, Saving
  <2> QED
    BY <2>1, <2>2 DEF NameInv
<1>20a. ASSUME NEW t \in Timers, CbDestCode(t) PROVE NameInv'
  BY <1>a, <1>20a, NameFrame DEF CbDestCode, CbState, Saving
<1>21. ASSUME NEW t \in Timers, CbDecide(t) PROVE NameInv'
  BY <1>a, <1>21, NameFrame DEF CbDecide
<1>22. ASSUME NEW t \in Timers, OpenBehaviors(t) PROVE NameInv'
  <2>1. cb'[t].pc \in {"push", "reset"} /\ \A u \in Timers \ {t} : cb'[u] = cb[u]
    BY <1>a, <1>22 DEF OpenBehaviors, CbState
  <2> QED
    BY <1>a, <1>22, <2>1, NameFrame DEF OpenBehaviors, Saving, File
<1>23. ASSUME NEW t \in Timers, PushBehavior(t) PROVE NameInv'
  BY <1>a, <1>23, NameFrame DEF PushBehavior, CbState, Saving
<1>24. ASSUME NEW t \in Timers, WriteBehavior(t) PROVE NameInv'
  <2>a. sig.pc = "idle" /\ \A u \in Timers \ {t} : cb[u].pc = "idle"
    BY <1>a, <1>24, <1>b DEF WriteBehavior, ThreadInv, OneAtATime
  <2>b. mGetFirstGPSSig = 1 /\ mFirstGPS.date = mCurGPS.date /\ mFirstGPS.date \in 1 .. Len(fixes)
    BY <1>a, <1>24, <2>a, <1>b DEF WriteBehavior, ThreadInv, ForOpenTrip, PlaceInv,
       StartFix, Opens, Coding
  <2>c. mLastGPS.date = mFirstGPS.date /\ mLastGPS.date_d = Len(fixes)
    BY <1>a, <1>24, <2>a, <2>b, <1>b DEF WriteBehavior, RecordInv, TripInHand, Searching,
       Saving, FixInv, CallbackIsFiring, CurIsLastFix
  <2>d. /\ mLastGPS.code_s = ToShort(Found(fixes[mLastGPS.date]))
        /\ mLastGPS.code_d = ToShort(Found(fixes[mLastGPS.date_d]))
        /\ mLastGPS.code_s # mLastGPS.code_d /\ Found(fixes[mLastGPS.date]) < Len(mGpsPosVec)
        /\ Found(fixes[mLastGPS.date_d]) < Len(mGpsPosVec)
    BY <1>a, <1>24, <2>a, <2>b, <2>c, <1>b DEF WriteBehavior, PlaceInv, StartFound,
       DestFound, RecordInv, TripInHand, Searching, Saving, NameInv, DestHeld, Opens, Coding
  <2>e. CodesFound(mLastGPS)
    BY <1>a, <2>b, <2>c, <2>d DEF CodesFound
  <2>f. /\ behFile'.recs = Append(behFile.recs, mLastGPS)
        /\ UNCHANGED <<fixes, mGpsPosVec, bootFix, phase>> /\ phase = "run"
    BY <1>a, <1>24, <2>a, <2>b, <2>c, <2>d, <2>e, <1>b DEF WriteBehavior, File,
       ThreadInv, OnlyRunning
  <2>g. \A k \in 1 .. Len(behFile'.recs) :
          \/ behFile'.recs[k] = mLastGPS
          \/ k \in 1 .. Len(behFile.recs) /\ behFile'.recs[k] = behFile.recs[k]
    BY <1>c, <2>f
  <2>h. \A r : CodesFound(r) => CodesFound(r)'
    BY <2>f DEF CodesFound, Found
  <2>1. NewFound'
    BY <2>e, <2>f, <2>g, <2>h DEF NameInv, NewFound, CodesFound, Found
  <2>2. DestHeld'
    BY <1>a, <1>24, <2>a, <2>b, <2>c, <2>d, <2>e, <2>f, <2>g, <2>h, <2>1 DEF
       WriteBehavior, NameInv, DestHeld, Found, Saving, CbState
  <2> QED
    BY <2>1, <2>2 DEF NameInv
<1>25. ASSUME NEW t \in Timers, OpenPositions(t) PROVE NameInv'
  <2>1. cb'[t].pc \in {"writePos", "reset"} /\ \A u \in Timers \ {t} : cb'[u] = cb[u]
    BY <1>a, <1>25 DEF OpenPositions, CbState
  <2> QED
    BY <1>a, <1>25, <2>1, NameFrame DEF OpenPositions, Saving
<1>26. ASSUME NEW t \in Timers, WritePositions(t) PROVE NameInv'
  BY <1>a, <1>26, NameFrame DEF WritePositions, CbState, Saving
<1>27. ASSUME NEW t \in Timers, CbReset(t) PROVE NameInv'
  BY <1>a, <1>27, NameFrame DEF CbReset, CbState, Saving
<1>28. ASSUME NEW t \in Timers, CbReturn(t) PROVE NameInv'
  BY <1>a, <1>28, NameFrame DEF CbReturn, CbState, Saving, CbIdle, File
<1>29. CASE UNCHANGED vars
  BY <1>29, NameFrame DEF vars
<1> QED
  BY <1>1, <1>2, <1>3, <1>4, <1>5, <1>6, <1>6a, <1>6b, <1>6c, <1>7, <1>8,
     <1>8a, <1>8b, <1>9, <1>10, <1>11, <1>12, <1>13, <1>14, <1>15, <1>16,
     <1>17, <1>18, <1>18a, <1>19, <1>20, <1>20a, <1>21, <1>22, <1>23, <1>24,
     <1>25, <1>26, <1>27, <1>28, <1>29 DEF Next, Loader, Handler, Callback

\* A trip recorded since the process started began and ended where and when its
\* record says, as long as the table holds no more places than a short can
\* number.
THEOREM RecordsNameTrips ==
  Serial => (Spec => [](Len(mGpsPosVec) <= ShortMax + 1 => RecordsAreTrips))
PROOF
<1> SUFFICES ASSUME Serial
             PROVE  Spec => [](Len(mGpsPosVec) <= ShortMax + 1 => RecordsAreTrips)
  OBVIOUS
<1>1. SerialInv /\ NameInv => (Len(mGpsPosVec) <= ShortMax + 1 => RecordsAreTrips)
  <2> SUFFICES ASSUME SerialInv, NameInv, Len(mGpsPosVec) <= ShortMax + 1, phase = "run",
                      NEW r \in NewRecs
               PROVE  r.date < r.date_d /\ NamesStart(r) /\ NamesDest(r)
    BY DEF RecordsAreTrips
  <2>1. CodesFound(r)
    BY DEF NewRecs, Recs, NameInv, NewFound
  <2>2. mGpsPosVec \in Seq(GPS_POS) /\ CodeIsIndex
    BY PlaceTypes DEF SerialInv, TableInv
  <2>3. \A p : Found(p) < Len(mGpsPosVec) =>
                 isIdenticalPos(getLatLonByCode(mGpsPosVec, ToShort(Found(p))), p)
    BY <2>2, FoundDecodes DEF Found, CodeIsIndex
  <2> QED
    BY <2>1, <2>3 DEF CodesFound, NamesStart, NamesDest
<1>2. SerialInv /\ PlaceInv /\ [Next]_vars => PlaceInv'
  BY PlaceStep
<1>3. SerialInv /\ PlaceInv /\ NameInv /\ [Next]_vars => NameInv'
  BY NameStep
<1> QED
  BY <1>1, <1>2, <1>3, PlaceInit, NameInit, SerialInvariant, PTL DEF Spec

-----------------------------------------------------------------------------
(* What the recorder inherits from TripLog.                                *)

TLP == INSTANCE TripLog_proofs WITH
         start <- OpenedAt,
         log   <- [k \in 1 .. Len(behFile.recs) |->
                     [from |-> behFile.recs[k].date, to |-> behFile.recs[k].date_d]]

\* The trips on disk share no fix, each begins and ends at different places, and
\* none reaches into the open trip, over any number of starts: proved of TripLog
\* and carried over by the refinement.
THEOREM TripsOnDiskDisjoint == Serial => (Spec => []TL!TripsDisjoint)
PROOF
<1> SUFFICES ASSUME Serial PROVE Spec => []TL!TripsDisjoint
  OBVIOUS
<1>1. Spec => ImplementsTripLog
  BY RecorderImplementsTripLog
<1>2. TLP!Spec => [](TLP!TypeOK /\ TLP!TripsDisjoint)
  BY TLP!TripsAlwaysDisjoint
<1>3. TLP!TripsDisjoint => TL!TripsDisjoint
  BY DEF TLP!TripsDisjoint, TL!TripsDisjoint
<1>4. TL!Init => TLP!Init
  BY DEF TL!Init, TLP!Init
<1>5. [TL!Next]_(TL!vars) => [TLP!Next]_(TLP!vars)
  BY DEF TL!Next, TLP!Next, TL!vars, TLP!vars, TL!Fix, TLP!Fix, TL!Record, TLP!Record,
     TL!Lose, TLP!Lose
<1> QED
  BY <1>1, <1>2, <1>3, <1>4, <1>5, PTL DEF ImplementsTripLog, TL!Spec, TLP!Spec
=============================================================================
