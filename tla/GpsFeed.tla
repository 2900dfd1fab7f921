------------------------------- MODULE GpsFeed -------------------------------
(***************************************************************************)
(* How samples get from the IPC dispatch thread to the calculation thread.  *)
(* onGPSDataNDRServiceIPCSignal fills the one mGpsInfo, field by field, and *)
(* sets mGPSDataEvt; calcArrival waits for that event and copies mGpsInfo   *)
(* to mGpsInfoVec.  Both hold mGetDataMutex while they touch mGpsInfo, but  *)
(* calcArrival takes it only after the wait, so signals may be delivered    *)
(* between the wake-up and the copy.  The event is auto-reset: two signals  *)
(* before a wake-up count as one.                                           *)
(*                                                                         *)
(* Signals are numbered; a field holds the number of the signal that wrote  *)
(* it, 0 after the memset.                                                  *)
(***************************************************************************)
EXTENDS Naturals, Sequences

CONSTANT MaxSignal  \* bound: signals delivered

ASSUME FeedAssumption == MaxSignal \in Nat

NoThread == "none"
Threads  == {"dispatch", "calc"}
GPSInfo  == [date : Nat, time : Nat, latitude : Nat, longitude : Nat]

\* What one signal writes.
Sample(n) == [date |-> n, time |-> n, latitude |-> n, longitude |-> n]

VARIABLES
  mGetDataMutex,  \* the thread that holds it, or NoThread
  mGPSDataEvt,    \* is the auto-reset event set?
  mGpsInfo,       \* the latest sample
  mGpsInfoVec,    \* all the samples calcArrival has taken
  dispatch,       \* program counter of the handler
  calc,           \* program counter of calcArrival
  signals         \* how many signals have been delivered

vars == <<mGetDataMutex, mGPSDataEvt, mGpsInfo, mGpsInfoVec, dispatch, calc,
          signals>>

\* connectSvcIpc subscribes before createCalcThread: the handler may run
\* while calc is still "unborn".  The constructor sets none of mGpsInfo.
Init ==
  /\ mGetDataMutex = NoThread /\ mGPSDataEvt = FALSE
  /\ mGpsInfo = Sample(0) /\ mGpsInfoVec = <<>>
  /\ dispatch = "idle" /\ calc = "unborn"
  /\ signals = 0

-----------------------------------------------------------------------------
(* The handler.                                                            *)

\* A signal arrives, the handler takes the lock.
Deliver ==
  /\ dispatch = "idle"
  /\ signals < MaxSignal
  /\ mGetDataMutex = NoThread
  /\ mGetDataMutex' = "dispatch"
  /\ dispatch' = "parse"
  /\ signals' = signals + 1
  /\ UNCHANGED <<mGPSDataEvt, mGpsInfo, mGpsInfoVec, calc>>

\* Another signal's name, or data that is not JSON: return without a trace.
Reject ==
  /\ dispatch = "parse"
  /\ dispatch' = "unlock"
  /\ UNCHANGED <<mGetDataMutex, mGPSDataEvt, mGpsInfo, mGpsInfoVec, calc, signals>>

Clear ==
  /\ dispatch = "parse"
  /\ mGpsInfo' = Sample(0)
  /\ dispatch' = "date"
  /\ UNCHANGED <<mGetDataMutex, mGPSDataEvt, mGpsInfoVec, calc, signals>>

\* The fields in the order they are written, and what follows each.  Mutant:
\* another field after them.
Field == {"date", "time", "latitude", "longitude"}
AfterHeight == [date |-> "time", time |-> "latitude", latitude |-> "longitude",
                longitude |-> "height"]
After == [date |-> "time", time |-> "latitude", latitude |-> "longitude",
          longitude |-> "set"]

WriteField ==
  /\ dispatch \in Field
  /\ mGpsInfo' = [mGpsInfo EXCEPT ![dispatch] = signals]
  /\ dispatch' = After[dispatch]
  /\ UNCHANGED <<mGetDataMutex, mGPSDataEvt, mGpsInfoVec, calc, signals>>

\* Mutant: only a thread that is waiting is woken.
SetEventPulse ==
  /\ dispatch = "set"
  /\ mGPSDataEvt' = (calc = "wait")
  /\ dispatch' = "unlock"
  /\ UNCHANGED <<mGetDataMutex, mGpsInfo, mGpsInfoVec, calc, signals>>

SetEvent ==
  /\ dispatch = "set"
  /\ mGPSDataEvt' = TRUE
  /\ dispatch' = "unlock"
  /\ UNCHANGED <<mGetDataMutex, mGpsInfo, mGpsInfoVec, calc, signals>>

\* The ScopedLock goes out of scope.
Unlock ==
  /\ dispatch = "unlock"
  /\ mGetDataMutex' = NoThread
  /\ dispatch' = "idle"
  /\ UNCHANGED <<mGPSDataEvt, mGpsInfo, mGpsInfoVec, calc, signals>>

-----------------------------------------------------------------------------
(* calcArrival.  mThreadRun is true from before the thread exists until     *)
(* the process ends, so its loop has no other exit.                         *)

createCalcThread ==
  /\ calc = "unborn"
  /\ calc' = "wait"
  /\ UNCHANGED <<mGetDataMutex, mGPSDataEvt, mGpsInfo, mGpsInfoVec, dispatch, signals>>

\* Mutant: an event that stays set.
WakeUpKeepsSet ==
  /\ calc = "wait"
  /\ mGPSDataEvt
  /\ calc' = "lock"
  /\ UNCHANGED <<mGetDataMutex, mGPSDataEvt, mGpsInfo, mGpsInfoVec, dispatch, signals>>

WakeUp ==
  /\ calc = "wait"
  /\ mGPSDataEvt
  /\ mGPSDataEvt' = FALSE
  /\ calc' = "lock"
  /\ UNCHANGED <<mGetDataMutex, mGpsInfo, mGpsInfoVec, dispatch, signals>>

\* Mutant: the copy is made without the lock.
CalcNoLock ==
  /\ calc = "lock"
  /\ calc' = "push"
  /\ UNCHANGED <<mGetDataMutex, mGPSDataEvt, mGpsInfo, mGpsInfoVec, dispatch, signals>>

CalcLock ==
  /\ calc = "lock"
  /\ mGetDataMutex = NoThread
  /\ mGetDataMutex' = "calc"
  /\ calc' = "push"
  /\ UNCHANGED <<mGPSDataEvt, mGpsInfo, mGpsInfoVec, dispatch, signals>>

\* Mutant: push_front.
PushFront ==
  /\ calc = "push"
  /\ mGpsInfoVec' = <<mGpsInfo>> \o mGpsInfoVec
  /\ calc' = "unlock"
  /\ UNCHANGED <<mGetDataMutex, mGPSDataEvt, mGpsInfo, dispatch, signals>>

Push ==
  /\ calc = "push"
  /\ mGpsInfoVec' = Append(mGpsInfoVec, mGpsInfo)
  /\ calc' = "unlock"
  /\ UNCHANGED <<mGetDataMutex, mGPSDataEvt, mGpsInfo, dispatch, signals>>

CalcUnlock ==
  /\ calc = "unlock"
  /\ mGetDataMutex' = NoThread
  /\ calc' = "wait"
  /\ UNCHANGED <<mGPSDataEvt, mGpsInfo, mGpsInfoVec, dispatch, signals>>

-----------------------------------------------------------------------------
Handler == Reject \/ Clear \/ WriteField \/ SetEvent \/ Unlock
calcArrival == createCalcThread \/ WakeUp \/ CalcLock \/ Push \/ CalcUnlock

Next == Deliver \/ Handler \/ calcArrival

Spec == Init /\ [][Next]_vars

\* Both threads run on; when signals come is up to their sender.
FairSpec == Spec /\ WF_vars(Handler) /\ WF_vars(calcArrival)
-----------------------------------------------------------------------------
(* Properties.                                                             *)

TypeOK ==
  /\ mGetDataMutex \in Threads \cup {NoThread}
  /\ mGPSDataEvt \in BOOLEAN
  /\ mGpsInfo \in GPSInfo
  /\ mGpsInfoVec \in Seq(GPSInfo)
  /\ dispatch \in {"idle", "parse", "set", "unlock"} \cup Field
  /\ calc \in {"unborn", "wait", "lock", "push", "unlock"}
  /\ signals \in 0 .. MaxSignal

\* Every sample calcArrival has taken was written by one signal as a whole:
\* no half-written mGpsInfo, no memset one, is ever copied.
NoTornSample ==
  \A k \in 1 .. Len(mGpsInfoVec) :
    \E n \in 1 .. signals : mGpsInfoVec[k] = Sample(n)

\* Samples are taken in the order they were delivered.
SamplesInOrder ==
  \A j, k \in 1 .. Len(mGpsInfoVec) :
    j < k => mGpsInfoVec[j].date <= mGpsInfoVec[k].date

\* A sample may be taken twice, when its signal slips between wake-up and
\* copy, but never three times.
AtMostTwice ==
  \A k \in 1 .. Len(mGpsInfoVec) - 2 :
    mGpsInfoVec[k].date < mGpsInfoVec[k + 2].date

\* A sample that is not overwritten is eventually taken: no wake-up is lost,
\* not even that of a signal that came before the thread existed.
LastSampleTaken ==
  \A n \in 1 .. MaxSignal :
    mGpsInfo = Sample(n) ~>
      \/ mGpsInfo # Sample(n)
      \/ \E k \in 1 .. Len(mGpsInfoVec) : mGpsInfoVec[k] = Sample(n)
=============================================================================
