---------------------------- MODULE TripRecorder ----------------------------
(***************************************************************************)
(* How a trip is recorded.  The IPC dispatch thread delivers GPS fixes; the *)
(* first fix opens a trip and every fix pushes back a Poco timer.  When the *)
(* fixes stop, the timer's thread runs lastGPSCallback, which turns the    *)
(* last fix into the trip's destination and appends the trip to two files. *)
(* The next start of the process loads the files again.                    *)
(*                                                                         *)
(* The handler holds mGetDataMutex and the callback does not, so the two   *)
(* share mGpsPosVec, mCurGPS, mFirstGPS, mGetFirstGPSSig and mLastGPSTimer *)
(* without a lock.  Each of them is therefore one action per access to     *)
(* that shared state.  Overlap says whether a fix may be delivered while a *)
(* callback runs (or while the files are being loaded); nothing in the     *)
(* program rules it out, the rhythm of a 1 Hz receiver makes it rare.      *)
(***************************************************************************)
EXTENDS PlaceTable, FiniteSets

CONSTANTS MaxFix,     \* bound: fixes delivered in a behaviour
          MaxBoot,    \* bound: starts of the process
          MaxFail,    \* bound: fopen calls that fail
          Overlap,    \* may the handler and a callback run at the same time?
          CutInSave,  \* may the power go between a record and its positions?
          HeapPtrs,   \* values an uninitialized Timer* may hold
          HeapInts    \* values an uninitialized int may hold

NULL == 0      \* the null Timer*
Wild == -1     \* any other Timer* that points to no timer

ASSUME RecorderAssumption ==
  /\ MaxFix \in Nat /\ MaxBoot \in Nat /\ MaxFail \in Nat
  /\ Overlap \in BOOLEAN /\ CutInSave \in BOOLEAN
  /\ HeapPtrs \subseteq {NULL, Wild}
  /\ HeapInts \subseteq Int

\* A timer is named by the number of the fix whose handler created it.
Timers == 1 .. MaxFix
Stamp  == 0 .. MaxFix

\* Behavior_GPS without count.  date stands for the pair date, time and date_d
\* for date_d, time_d: the number of the fix at which the clock was read.
Behavior == [code_s : Code, code_d : Code, date : Stamp, date_d : Stamp]
NoBehavior == [code_s |-> 0, code_d |-> 0, date |-> 0, date_d |-> 0]

\* A file that fopen(..., "r") cannot open is not made yet.
NoFile == [made |-> FALSE, recs |-> <<>>]

VARIABLES
  phase,           \* "off", "behav", "pos" (loading), "run" or "crash"
  loadIdx,         \* position records read so far by loadDriverBehavior
  sig,             \* the handler: program counter and locals
  cb,              \* per timer, its callback: program counter and locals
  timers,          \* per timer, the state of its Poco::Timer
  mLastGPSTimer,   \* NULL, Wild or the timer last created
  mGetFirstGPSSig, \* 1 while a trip is open
  mCurGPS, mFirstGPS, mLastGPS,
  mCurPos,         \* mCurLat, mCurLon
  mGpsPosVec,      \* the position table
  mInitPosVecSize, \* how much of it the position file holds
  mBehavGpsVec,    \* the trips in memory
  behFile,         \* GAUGE_ARRIVAL_BEHAVIOR_PATH
  posFile,         \* GAUGE_ARRIVAL_BEHAVIOR_GPS_PATH
  fixes,           \* history: where each fix was taken
  boots, fails,    \* how often the process started, how often fopen failed
  bootFix,         \* history: fixes delivered before this start
  snapped          \* history: the last fix some callback has taken over

memory == <<mLastGPSTimer, mGetFirstGPSSig, mCurGPS, mFirstGPS, mLastGPS,
            mCurPos, mGpsPosVec, mInitPosVecSize, mBehavGpsVec>>
trip   == <<mGetFirstGPSSig, mCurGPS, mFirstGPS, mLastGPS, mCurPos>>
table  == <<mGpsPosVec, mInitPosVecSize>>
disk   == <<behFile, posFile>>
env    == <<phase, loadIdx, fixes, boots, fails, bootFix>>
vars   == <<env, sig, cb, timers, memory, disk, snapped>>

SigIdle == [pc |-> "idle", place |-> Zero, i |-> 0, size |-> 0]
CbIdle  == [pc |-> "idle", place |-> Zero, i |-> 0, size |-> 0]
NoTimer == [st |-> "none", on |-> FALSE]

Running  == phase \in {"behav", "pos", "run"}
ActiveCb == {t \in Timers : cb[t].pc # "idle"}
Quiet    == phase = "run" /\ sig.pc = "idle" /\ ActiveCb = {}

Init ==
  /\ phase = "off" /\ loadIdx = 0
  /\ sig = SigIdle
  /\ cb = [t \in Timers |-> CbIdle]
  /\ timers = [t \in Timers |-> NoTimer]
  /\ mLastGPSTimer = NULL /\ mGetFirstGPSSig = 0
  /\ mCurGPS = NoBehavior /\ mFirstGPS = NoBehavior /\ mLastGPS = NoBehavior
  /\ mCurPos = Zero
  /\ mGpsPosVec = <<>> /\ mInitPosVecSize = 0 /\ mBehavGpsVec = <<>>
  /\ behFile = NoFile /\ posFile = NoFile
  /\ fixes = <<>> /\ boots = 0 /\ fails = 0 /\ bootFix = 0 /\ snapped = 0

-----------------------------------------------------------------------------
(* The process: start, load, loss of power.                                *)

\* GetInstance, the constructor and the first half of initialize.  The empty
\* constructor leaves mLastGPSTimer and mInitPosVecSize as the heap has them.
Boot ==
  /\ phase \in {"off", "crash"}
  /\ boots < MaxBoot
  /\ phase' = "behav"
  /\ boots' = boots + 1
  /\ bootFix' = Len(fixes)
  /\ snapped' = Len(fixes)
  /\ mLastGPSTimer' \in HeapPtrs
  /\ mInitPosVecSize' \in HeapInts
  /\ UNCHANGED <<loadIdx, sig, cb, timers, trip, mGpsPosVec, mBehavGpsVec,
                 disk, fixes, fails>>

\* The first loop of loadDriverBehavior.  feof is still false after the last
\* whole record, so the loop runs once more and pushes a zeroed record.
LoadBehaviors ==
  /\ phase = "behav"
  /\ IF behFile.made
     THEN /\ mBehavGpsVec' = Append(mBehavGpsVec \o behFile.recs, NoBehavior)
          /\ phase' = IF posFile.made THEN "pos" ELSE "run"
     ELSE /\ phase' = "run"
          /\ UNCHANGED mBehavGpsVec
  /\ UNCHANGED <<loadIdx, sig, cb, timers, mLastGPSTimer, trip, table, disk,
                 fixes, boots, fails, bootFix, snapped>>

\* One turn of the second loop: a position under the next code, or, once the
\* file is exhausted, the same surplus zeroed record; then the loop ends.
LoadPosition ==
  /\ phase = "pos"
  /\ LET more == loadIdx < Len(posFile.recs)
         pos  == IF more THEN posFile.recs[loadIdx + 1] ELSE Zero
     IN  /\ mGpsPosVec' = Append(mGpsPosVec,
                                 [code |-> ToShort(loadIdx), pos |-> pos])
         /\ loadIdx' = IF more THEN loadIdx + 1 ELSE 0
         /\ IF more
            THEN UNCHANGED <<phase, mInitPosVecSize>>
            ELSE /\ phase' = "run"
                 /\ mInitPosVecSize' = Len(mGpsPosVec')
  /\ UNCHANGED <<sig, cb, timers, mLastGPSTimer, trip, mBehavGpsVec, disk,
                 fixes, boots, fails, bootFix, snapped>>

\* Everything but the files is gone.
Halt(how) ==
  /\ phase' = how
  /\ loadIdx' = 0
  /\ sig' = SigIdle
  /\ cb' = [t \in Timers |-> CbIdle]
  /\ timers' = [t \in Timers |-> NoTimer]
  /\ mLastGPSTimer' = NULL /\ mGetFirstGPSSig' = 0
  /\ mCurGPS' = NoBehavior /\ mFirstGPS' = NoBehavior /\ mLastGPS' = NoBehavior
  /\ mCurPos' = Zero
  /\ mGpsPosVec' = <<>> /\ mInitPosVecSize' = 0 /\ mBehavGpsVec' = <<>>
  /\ UNCHANGED <<disk, fixes, boots, fails, bootFix, snapped>>

\* The head unit loses power, or SIGTERM: deinitialize is empty, so a clean
\* shutdown saves no more than a power cut does.
PowerOff ==
  /\ Running
  /\ \/ CutInSave
     \/ \A t \in Timers : cb[t].pc \notin {"openPos", "writePos"}
  /\ Halt("off")

-----------------------------------------------------------------------------
(* The Poco timers, external: how lastGPSCallback gets to run.              *)

\* Timer::restart(ms) is for a timer whose thread runs.  ms = 0 ends the timer
\* (once a callback in progress has returned), ms > 0 sets a new period and
\* pushes the next call back.
Restarted(t, on) ==
  IF timers[t].st \notin {"armed", "firing"} THEN timers
  ELSE [timers EXCEPT ![t].on = on,
                      ![t].st = IF @ = "armed" /\ ~on THEN "done" ELSE @]

\* The period has elapsed.
TimerFire(t) ==
  /\ Running
  /\ timers[t].st = "armed"
  /\ ~Overlap => Quiet
  /\ timers' = [timers EXCEPT ![t].st = "firing"]
  /\ cb' = [cb EXCEPT ![t].pc = "stop"]
  /\ UNCHANGED <<env, sig, memory, disk, snapped>>

\* The callback has returned: Timer::run goes on while the period is not 0.
CbReturn(t) ==
  /\ cb[t].pc = "ret"
  /\ timers' = [timers EXCEPT ![t].st = IF timers[t].on THEN "armed" ELSE "done"]
  /\ cb' = [cb EXCEPT ![t] = CbIdle]
  /\ UNCHANGED <<env, sig, memory, disk, snapped>>

-----------------------------------------------------------------------------
(* onGPSDataNDRServiceIPCSignal, on the dispatch thread.                    *)

\* A fix at p: parse it, read the clock.
GPSSignal(p) ==
  /\ Running
  /\ ~Overlap => Quiet
  /\ sig.pc = "idle"
  /\ Len(fixes) < MaxFix
  /\ fixes' = Append(fixes, p)
  /\ mCurGPS' = [mCurGPS EXCEPT !.date_d = Len(fixes')]
  /\ sig' = [SigIdle EXCEPT !.pc = "latlon", !.place = p]
  /\ UNCHANGED <<phase, loadIdx, boots, fails, bootFix, cb, timers,
                 mLastGPSTimer, mGetFirstGPSSig, mFirstGPS, mLastGPS, mCurPos,
                 table, mBehavGpsVec, disk, snapped>>

SigSetLatLon ==
  /\ sig.pc = "latlon"
  /\ mCurPos' = sig.place
  /\ sig' = [sig EXCEPT !.pc = "first"]
  /\ UNCHANGED <<env, cb, timers, mLastGPSTimer, mGetFirstGPSSig, mCurGPS,
                 mFirstGPS, mLastGPS, table, mBehavGpsVec, disk, snapped>>

\* The first fix of a trip opens it: the date, the flag, the copy, and later
\* the start code, one by one.
SigFirst ==
  /\ sig.pc = "first"
  /\ sig' = [sig EXCEPT !.pc = IF mGetFirstGPSSig = 0 THEN "date" ELSE "timer"]
  /\ UNCHANGED <<env, cb, timers, memory, disk, snapped>>

\* The clock was read at the top of the handler, for date_d as well.
SigDate ==
  /\ sig.pc = "date"
  /\ mCurGPS' = [mCurGPS EXCEPT !.date = Len(fixes)]
  /\ sig' = [sig EXCEPT !.pc = "open"]
  /\ UNCHANGED <<env, cb, timers, mLastGPSTimer, mGetFirstGPSSig, mFirstGPS,
                 mLastGPS, mCurPos, table, mBehavGpsVec, disk, snapped>>

SigOpen ==
  /\ sig.pc = "open"
  /\ mGetFirstGPSSig' = 1
  /\ sig' = [sig EXCEPT !.pc = "copy"]
  /\ UNCHANGED <<env, cb, timers, mLastGPSTimer, mCurGPS, mFirstGPS, mLastGPS,
                 mCurPos, table, mBehavGpsVec, disk, snapped>>

SigCopy ==
  /\ sig.pc = "copy"
  /\ mFirstGPS' = mCurGPS
  /\ sig' = [sig EXCEPT !.pc = "search"]
  /\ UNCHANGED <<env, cb, timers, mLastGPSTimer, mGetFirstGPSSig, mCurGPS,
                 mLastGPS, mCurPos, table, mBehavGpsVec, disk, snapped>>

SigSearch ==
  /\ sig.pc = "search"
  /\ sig' = [sig EXCEPT !.pc = "add",
                        !.size = Len(mGpsPosVec),
                        !.i = SearchPos(mGpsPosVec, Len(mGpsPosVec), sig.place)]
  /\ UNCHANGED <<env, cb, timers, memory, disk, snapped>>

SigAdd ==
  /\ sig.pc = "add"
  /\ mGpsPosVec' = AddPos(mGpsPosVec, sig.i, sig.size, sig.place)
  /\ sig' = [sig EXCEPT !.pc = "curCode"]
  /\ UNCHANGED <<env, cb, timers, mLastGPSTimer, trip, mInitPosVecSize,
                 mBehavGpsVec, disk, snapped>>

SigCurCode ==
  /\ sig.pc = "curCode"
  /\ mCurGPS' = [mCurGPS EXCEPT !.code_s = ToShort(sig.i)]
  /\ sig' = [sig EXCEPT !.pc = "firstCode"]
  /\ UNCHANGED <<env, cb, timers, mLastGPSTimer, mGetFirstGPSSig, mFirstGPS,
                 mLastGPS, mCurPos, table, mBehavGpsVec, disk, snapped>>

SigFirstCode ==
  /\ sig.pc = "firstCode"
  /\ mFirstGPS' = [mFirstGPS EXCEPT !.code_s = ToShort(sig.i)]
  /\ sig' = [sig EXCEPT !.pc = "timer"]
  /\ UNCHANGED <<env, cb, timers, mLastGPSTimer, mGetFirstGPSSig, mCurGPS,
                 mLastGPS, mCurPos, table, mBehavGpsVec, disk, snapped>>

\* The null test; both branches read mLastGPSTimer again afterwards.
SigTestTimer ==
  /\ sig.pc = "timer"
  /\ sig' = [sig EXCEPT !.pc = IF mLastGPSTimer = NULL THEN "new" ELSE "restart"]
  /\ UNCHANGED <<env, cb, timers, memory, disk, snapped>>

SigNewTimer ==
  /\ sig.pc = "new"
  /\ LET t == Len(fixes)
     IN  /\ mLastGPSTimer' = t
         /\ timers' = [timers EXCEPT ![t] = [st |-> "new", on |-> TRUE]]
  /\ sig' = [sig EXCEPT !.pc = "start"]
  /\ UNCHANGED <<env, cb, trip, table, mBehavGpsVec, disk, snapped>>

\* Mutant: the new timer is not started.
SigNotStarted ==
  /\ sig.pc = "start"
  /\ sig' = SigIdle
  /\ UNCHANGED <<env, cb, timers, memory, disk, snapped>>

SigStartTimer ==
  /\ sig.pc = "start"
  /\ IF mLastGPSTimer \in Timers
     THEN /\ timers' = [timers EXCEPT ![mLastGPSTimer].st = "armed"]
          /\ sig' = SigIdle
          /\ UNCHANGED <<env, cb, memory, disk, snapped>>
     ELSE Halt("crash")

SigRestartTimer ==
  /\ sig.pc = "restart"
  /\ IF mLastGPSTimer \in Timers
     THEN /\ timers' = Restarted(mLastGPSTimer, TRUE)
          /\ sig' = SigIdle
          /\ UNCHANGED <<env, cb, memory, disk, snapped>>
     ELSE Halt("crash")

-----------------------------------------------------------------------------
(* lastGPSCallback, on the thread of timer t.                               *)

\* Mutant: the callback forgets restart(0), so the timer calls back again.
CbStopForgotten(t) ==
  /\ cb[t].pc = "stop"
  /\ phase = "run"
  /\ cb' = [cb EXCEPT ![t].pc = "clear"]
  /\ UNCHANGED <<env, sig, timers, memory, disk, snapped>>

\* GetInstance waits for mGaugeMutex, which the starting thread holds until
\* initialize is over; then the timer is told to end.
CbStop(t) ==
  /\ cb[t].pc = "stop"
  /\ phase = "run"
  /\ IF mLastGPSTimer \in Timers
     THEN /\ timers' = Restarted(mLastGPSTimer, FALSE)
          /\ cb' = [cb EXCEPT ![t].pc = "clear"]
          /\ UNCHANGED <<env, sig, memory, disk, snapped>>
     ELSE Halt("crash")

\* Mutant: the ended timer stays in mLastGPSTimer.
CbClearNothing(t) ==
  /\ cb[t].pc = "clear"
  /\ cb' = [cb EXCEPT ![t].pc = "snap"]
  /\ UNCHANGED <<env, sig, timers, memory, disk, snapped>>

CbClear(t) ==
  /\ cb[t].pc = "clear"
  /\ mLastGPSTimer' = NULL
  /\ cb' = [cb EXCEPT ![t].pc = "snap"]
  /\ UNCHANGED <<env, sig, timers, trip, table, mBehavGpsVec, disk, snapped>>

\* Mutant: the fix the trip began with, not the last one.
CbSnapFirst(t) ==
  /\ cb[t].pc = "snap"
  /\ mLastGPS' = mFirstGPS
  /\ snapped' = mFirstGPS.date_d
  /\ cb' = [cb EXCEPT ![t].pc = "size"]
  /\ UNCHANGED <<env, sig, timers, mLastGPSTimer, mGetFirstGPSSig, mCurGPS,
                 mFirstGPS, mCurPos, table, mBehavGpsVec, disk>>

\* mLastGPS = mCurGPS
CbSnap(t) ==
  /\ cb[t].pc = "snap"
  /\ mLastGPS' = mCurGPS
  /\ snapped' = mCurGPS.date_d
  /\ cb' = [cb EXCEPT ![t].pc = "size"]
  /\ UNCHANGED <<env, sig, timers, mLastGPSTimer, mGetFirstGPSSig, mCurGPS,
                 mFirstGPS, mCurPos, table, mBehavGpsVec, disk>>

CbSize(t) ==
  /\ cb[t].pc = "size"
  /\ cb' = [cb EXCEPT ![t].pc = "startCode", ![t].size = Len(mGpsPosVec)]
  /\ UNCHANGED <<env, sig, timers, memory, disk, snapped>>

CbStartCode(t) ==
  /\ cb[t].pc = "startCode"
  /\ mLastGPS' = [mLastGPS EXCEPT !.code_s = mFirstGPS.code_s]
  /\ cb' = [cb EXCEPT ![t].pc = "search"]
  /\ UNCHANGED <<env, sig, timers, mLastGPSTimer, mGetFirstGPSSig, mCurGPS,
                 mFirstGPS, mCurPos, table, mBehavGpsVec, disk, snapped>>

CbSearch(t) ==
  /\ cb[t].pc = "search"
  /\ cb' = [cb EXCEPT ![t].pc = "add", ![t].place = mCurPos,
                      ![t].i = SearchPos(mGpsPosVec, cb[t].size, mCurPos)]
  /\ UNCHANGED <<env, sig, timers, memory, disk, snapped>>

CbAdd(t) ==
  /\ cb[t].pc = "add"
  /\ mGpsPosVec' = AddPos(mGpsPosVec, cb[t].i, cb[t].size, cb[t].place)
  /\ cb' = [cb EXCEPT ![t].pc = "destCode"]
  /\ UNCHANGED <<env, sig, timers, mLastGPSTimer, trip, mInitPosVecSize,
                 mBehavGpsVec, disk, snapped>>

CbDestCode(t) ==
  /\ cb[t].pc = "destCode"
  /\ mLastGPS' = [mLastGPS EXCEPT !.code_d = ToShort(cb[t].i)]
  /\ cb' = [cb EXCEPT ![t].pc = "decide"]
  /\ UNCHANGED <<env, sig, timers, mLastGPSTimer, mGetFirstGPSSig, mCurGPS,
                 mFirstGPS, mCurPos, table, mBehavGpsVec, disk, snapped>>

\* The car is still where the trip began: nothing to record, trip stays open.
CbDecide(t) ==
  /\ cb[t].pc = "decide"
  /\ cb' = [cb EXCEPT ![t].pc = IF mLastGPS.code_s = mLastGPS.code_d
                                THEN "ret" ELSE "openBeh"]
  /\ UNCHANGED <<env, sig, timers, memory, disk, snapped>>

\* fopen(path, "a+") creates the file; when it fails, saveDriverBehavior
\* returns and the callback goes on.
OpenBehaviors(t) ==
  /\ cb[t].pc = "openBeh"
  /\ \/ /\ behFile' = [behFile EXCEPT !.made = TRUE]
        /\ cb' = [cb EXCEPT ![t].pc = "push"]
        /\ UNCHANGED fails
     \/ /\ fails < MaxFail
        /\ fails' = fails + 1
        /\ cb' = [cb EXCEPT ![t].pc = "reset"]
        /\ UNCHANGED behFile
  /\ UNCHANGED <<phase, loadIdx, fixes, boots, bootFix, sig, timers, memory,
                 posFile, snapped>>

\* Mutant: mCurGPS, which has no destination code, goes to memory.
PushCurrent(t) ==
  /\ cb[t].pc = "push"
  /\ mBehavGpsVec' = Append(mBehavGpsVec, mCurGPS)
  /\ cb' = [cb EXCEPT ![t].pc = "writeBeh"]
  /\ UNCHANGED <<env, sig, timers, mLastGPSTimer, trip, table, disk, snapped>>

\* The trip goes to memory ...
PushBehavior(t) ==
  /\ cb[t].pc = "push"
  /\ mBehavGpsVec' = Append(mBehavGpsVec, mLastGPS)
  /\ cb' = [cb EXCEPT ![t].pc = "writeBeh"]
  /\ UNCHANGED <<env, sig, timers, mLastGPSTimer, trip, table, disk, snapped>>

\* ... and, when fclose flushes, to the file.
WriteBehavior(t) ==
  /\ cb[t].pc = "writeBeh"
  /\ behFile' = [behFile EXCEPT !.recs = Append(@, mLastGPS)]
  /\ cb' = [cb EXCEPT ![t].pc = "openPos"]
  /\ UNCHANGED <<env, sig, timers, memory, posFile, snapped>>

OpenPositions(t) ==
  /\ cb[t].pc = "openPos"
  /\ \/ /\ posFile' = [posFile EXCEPT !.made = TRUE]
        /\ cb' = [cb EXCEPT ![t].pc = "writePos"]
        /\ UNCHANGED fails
     \/ /\ fails < MaxFail
        /\ fails' = fails + 1
        /\ cb' = [cb EXCEPT ![t].pc = "reset"]
        /\ UNCHANGED posFile
  /\ UNCHANGED <<phase, loadIdx, fixes, boots, bootFix, sig, timers, memory,
                 behFile, snapped>>

\* The positions from mInitPosVecSize on.  The comparison with size() is
\* unsigned: a negative mInitPosVecSize is past the end.
WritePositions(t) ==
  /\ cb[t].pc = "writePos"
  /\ IF mInitPosVecSize \in 0 .. Len(mGpsPosVec)
     THEN /\ posFile' = [posFile EXCEPT !.recs =
                @ \o [k \in 1 .. Len(mGpsPosVec) - mInitPosVecSize |->
                        mGpsPosVec[mInitPosVecSize + k].pos]]
          /\ mInitPosVecSize' = Len(mGpsPosVec)
     ELSE UNCHANGED <<posFile, mInitPosVecSize>>
  /\ cb' = [cb EXCEPT ![t].pc = "reset"]
  /\ UNCHANGED <<env, sig, timers, mLastGPSTimer, trip, mGpsPosVec,
                 mBehavGpsVec, behFile, snapped>>

\* Mutant: the trip stays open.
CbResetForgotten(t) ==
  /\ cb[t].pc = "reset"
  /\ cb' = [cb EXCEPT ![t].pc = "ret"]
  /\ UNCHANGED <<env, sig, timers, memory, disk, snapped>>

\* The trip is over; the next fix opens another.
CbReset(t) ==
  /\ cb[t].pc = "reset"
  /\ mGetFirstGPSSig' = 0
  /\ cb' = [cb EXCEPT ![t].pc = "ret"]
  /\ UNCHANGED <<env, sig, timers, mLastGPSTimer, mCurGPS, mFirstGPS, mLastGPS,
                 mCurPos, table, mBehavGpsVec, disk, snapped>>

-----------------------------------------------------------------------------
Handler == \/ SigSetLatLon
           \/ SigFirst \/ SigDate \/ SigOpen \/ SigCopy
           \/ SigSearch \/ SigAdd \/ SigCurCode \/ SigFirstCode
           \/ SigTestTimer \/ SigNewTimer \/ SigStartTimer \/ SigRestartTimer

Callback(t) == \/ CbStop(t) \/ CbClear(t) \/ CbSnap(t)
               \/ CbSize(t) \/ CbStartCode(t)
               \/ CbSearch(t) \/ CbAdd(t) \/ CbDestCode(t) \/ CbDecide(t)
               \/ OpenBehaviors(t) \/ PushBehavior(t) \/ WriteBehavior(t)
               \/ OpenPositions(t) \/ WritePositions(t)
               \/ CbReset(t) \/ CbReturn(t)

Loader == LoadBehaviors \/ LoadPosition

Next == \/ Boot \/ PowerOff \/ Loader
        \/ \E p \in Place : GPSSignal(p)
        \/ Handler
        \/ \E t \in Timers : TimerFire(t) \/ Callback(t)

Spec == Init /\ [][Next]_vars

\* Threads that can run do run, and an armed timer fires; fixes, power cuts
\* and starts are up to the environment.
FairSpec == /\ Spec
            /\ WF_vars(Loader)
            /\ WF_vars(Handler)
            /\ \A t \in Timers : WF_vars(TimerFire(t) \/ Callback(t))
-----------------------------------------------------------------------------
(* Properties.                                                             *)

SigState ==
  [pc : {"idle", "latlon", "first", "date", "open", "copy", "search", "add",
         "curCode", "firstCode", "timer", "new", "start", "restart"},
   place : Place, i : Nat, size : Nat]
CbState ==
  [pc : {"idle", "stop", "clear", "snap", "size", "startCode", "search", "add",
         "destCode", "decide", "openBeh", "push", "writeBeh", "openPos",
         "writePos", "reset", "ret"},
   place : Place, i : Nat, size : Nat]
TimerState == [st : {"none", "new", "armed", "firing", "done"}, on : BOOLEAN]
File(R)    == [made : BOOLEAN, recs : Seq(R)]

\* Every variable keeps to the values the C++ types and the code's own use
\* of them allow.
TypeOK ==
  /\ phase \in {"off", "behav", "pos", "run", "crash"}
  /\ loadIdx \in Nat
  /\ sig \in SigState
  /\ cb \in [Timers -> CbState]
  /\ timers \in [Timers -> TimerState]
  /\ mLastGPSTimer \in Timers \cup {NULL, Wild}
  /\ mGetFirstGPSSig \in {0, 1}
  /\ mCurGPS \in Behavior /\ mFirstGPS \in Behavior /\ mLastGPS \in Behavior
  /\ mCurPos \in Place
  /\ mGpsPosVec \in Seq(GPS_POS)
  /\ mInitPosVecSize \in Int
  /\ mBehavGpsVec \in Seq(Behavior)
  /\ behFile \in File(Behavior)
  /\ posFile \in File(Place)
  /\ fixes \in Seq(Place) /\ Len(fixes) <= MaxFix
  /\ boots \in Nat /\ fails \in Nat
  /\ bootFix \in Stamp /\ snapped \in Stamp

\* What the codes of r say when getLatLonByCode decodes them: the places of
\* the fixes at which the trip began and ended.
NamesStart(r) == isIdenticalPos(getLatLonByCode(mGpsPosVec, r.code_s), fixes[r.date])
NamesDest(r) == isIdenticalPos(getLatLonByCode(mGpsPosVec, r.code_d), fixes[r.date_d])

Recs == {behFile.recs[k] : k \in 1 .. Len(behFile.recs)}
NewRecs == {r \in Recs : r.date > bootFix}

\* A trip recorded since the process started really began and ended where and
\* when its record says.
RecordsAreTrips ==
  phase = "run" =>
    \A r \in NewRecs : r.date < r.date_d /\ NamesStart(r) /\ NamesDest(r)

\* The recorded trips follow one another: each begins after the one before
\* it ended, across restarts too, so no fix belongs to two trips.
TripsInOrder ==
  /\ \A k \in 1 .. Len(behFile.recs) : behFile.recs[k].date <= behFile.recs[k].date_d
  /\ \A k \in 1 .. Len(behFile.recs) - 1 :
       behFile.recs[k].date_d < behFile.recs[k + 1].date

\* The same of trips that lead somewhere: "start position code", "destination
\* positon code", and no record of a stay ("avoid setStartPosition NDR data
\* disturb"), whatever the two threads do to each other.
RecordsAreTripsAway ==
  RecordsAreTrips /\ \A r \in Recs : r.code_s # r.code_d

\* The codes on disk name, after any number of restarts, the places they named
\* when they were written.
CodesSurviveRestart ==
  phase = "run" => \A r \in Recs : NamesStart(r) /\ NamesDest(r)

\* An entry's code is its index: what both threads and the loader assume when
\* they use the one for the other.
CodeIsIndex ==
  \A k \in 1 .. Len(mGpsPosVec) : mGpsPosVec[k].code = ToShort(k - 1)

Live(t) == timers[t].st \in {"armed", "firing"}

\* At most one timer can call back, and it is the one mLastGPSTimer names
\* (or is being taken down by its own callback).
OneTimer ==
  \A t \in Timers : Live(t) =>
    /\ mLastGPSTimer = t \/ cb[t].pc \notin {"idle", "stop", "clear"}
    /\ \A u \in Timers : Live(u) => u = t

\* A timer that mLastGPSTimer names, and that the handler will therefore only
\* push back, is one that still calls back; or else some callback is about to
\* clear mLastGPSTimer.
LastTimerCallsBack ==
  Running /\ mLastGPSTimer \in Timers =>
    \/ timers[mLastGPSTimer].st = "armed"
    \/ timers[mLastGPSTimer].st = "new" /\ sig.pc = "start"
    \/ cb[mLastGPSTimer].pc \in {"stop", "clear"}
    \/ \E t \in Timers : cb[t].pc = "clear"

\* No fix is forgotten: as long as the last fix has not been taken over by a
\* callback, a callback that will do so is on its way.
NoFixForgotten ==
  Running /\ snapped < Len(fixes) =>
    \/ sig.pc # "idle"
    \/ \E t \in Timers : timers[t].st = "armed"
    \/ \E t \in Timers : cb[t].pc \in {"stop", "clear", "snap"}

\* Memory and file agree on the recorded trips: mBehavGpsVec holds those of the
\* file, trip for trip, and at most one record more, the zeroed one that the load
\* leaves behind those it has read.
Mirrors(mem, recs) ==
  \/ mem = recs
  \/ /\ Len(mem) = Len(recs) + 1
     /\ \E k \in 1 .. Len(mem) :
          /\ mem[k] = NoBehavior
          /\ \A j \in 1 .. Len(recs) : recs[j] = mem[IF j < k THEN j ELSE j + 1]
MemoryMirrorsDisk ==
  phase \in {"pos", "run"} /\ (\A t \in Timers : cb[t].pc # "writeBeh") =>
    Mirrors(mBehavGpsVec, behFile.recs)

\* The trip log this state stands for.  A trip is open from its first fix,
\* even before the handler has set mGetFirstGPSSig and copied that fix to
\* mFirstGPS, until its record is written or given up.
Closing == \E t \in Timers : cb[t].pc \in {"openPos", "writePos", "reset"}
Opening == \/ sig.pc \in {"latlon", "first"} /\ mGetFirstGPSSig = 0
           \/ sig.pc \in {"date", "open", "copy"}
OpenedAt ==
  IF Closing THEN 0
  ELSE IF Opening THEN Len(fixes)
  ELSE IF mGetFirstGPSSig = 1 THEN mFirstGPS.date
  ELSE 0

TL == INSTANCE TripLog WITH
        start <- OpenedAt,
        log   <- [k \in 1 .. Len(behFile.recs) |->
                    [from |-> behFile.recs[k].date, to |-> behFile.recs[k].date_d]]

\* The recorder implements the abstract trip log: disk contents, open trip and
\* fixes move together as TripLog says, across failures and restarts.
ImplementsTripLog == TL!Spec

\* The last fix is in the end taken over by a callback, unless the process ends:
\* again and again either it is, or the process does not run.
FixTakenOver == []<>(~Running \/ snapped = Len(fixes))
=============================================================================
