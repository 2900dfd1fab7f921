-------------------------- MODULE Lifecycle_proofs --------------------------
(***************************************************************************)
(* For any number of fixes, requests and failures: the lock of GetInstance  *)
(* and DeleteInstance keeps two threads out of svcipc's initialize and      *)
(* shutdown, hands out no instance half made, and lets the timers that are  *)
(* late for DeleteInstance create one instance more between them; the       *)
(* library is down when main has ended, and a crash has one of four causes. *)
(***************************************************************************)
EXTENDS Lifecycle, TLAPS

Types ==
  /\ pc \in [Threads -> Step]
  /\ mGaugeMutex \in Threads \cup {None}
  /\ mInstance \in Instances \cup {NULL}
  /\ inst \in [Instances -> {"none", "raw", "ready", "freed"}]

\* The steps of initialize, those that need the instance initialized, and
\* those at which a thread holds mGaugeMutex.
Making   == {"initialize", "connection", "register", "initialize2", "subscribe", "load", "thread"}
Having   == {"got", "unregister", "close", "shutdown", "free"}
Critical == {"new", "deleted"} \cup Making \cup Having

\* The holder of the mutex is alone at these steps.
Alone == \A th \in Threads : pc[th] \in Critical => mGaugeMutex = th

\* What mInstance is at each of them, and when nobody holds the mutex.
AtStep ==
  /\ \A th \in Threads :
       /\ pc[th] \in {"new", "deleted"} => mInstance = NULL
       /\ pc[th] \in Making => mInstance # NULL /\ inst[mInstance] = "raw"
       /\ pc[th] \in Having => mInstance # NULL /\ inst[mInstance] = "ready"
  /\ mGaugeMutex = None /\ mInstance # NULL => inst[mInstance] = "ready"

Single == \A i \in Live : i = mInstance

\* An instance is freed once, and the second never is.
After == {"deleted", "return", "gone"}
Twice ==
  /\ \A i \in Instances : i > 2 => inst[i] = "none"
  /\ \A i \in Instances : i = 2 /\ inst[i] # "none" => inst[i] # "freed" /\ pc[Main] \in After
  /\ \A i \in Instances : inst[i] = "freed" => pc[Main] \in After

IInv == Types /\ Alone /\ AtStep /\ Single /\ Twice

\* The sets of threads and instances, as far as the proofs need them.
LEMMA Names ==
  /\ Main \in Threads /\ Timers \subseteq Threads /\ None \notin Threads
  /\ 1 \in Instances /\ NULL \notin Instances /\ Instances \subseteq Nat
  /\ Main \notin Timers
BY LifecycleAssumption DEF Threads, Timers, Main, None, Instances, NULL

LEMMA InitIInv == Init => IInv
BY Names DEF Init, IInv, Types, Alone, AtStep, Single, Live, Twice, Critical, Making, Having,
   Step, Threads, Main

\* A thread that goes from one step to another, neither of them under the
\* mutex, disturbs nothing.
LEMMA Outside ==
  ASSUME IInv, NEW th \in Threads, NEW to \in Step \ Critical,
         Goto(th, to), UNCHANGED <<mGaugeMutex, mInstance, inst>>,
         th = Main => pc[Main] \notin After
  PROVE  IInv'
BY Names DEF IInv, Types, Alone, AtStep, Single, Live, Twice, Goto, After, Critical, Making, Having

\* Neither does one that goes from step to step under it.
LEMMA Inside ==
  ASSUME IInv, NEW th \in Threads, NEW to \in Step,
         Goto(th, to), UNCHANGED <<mGaugeMutex, mInstance, inst>>,
         \/ pc[th] \in Making /\ to \in Making
         \/ pc[th] \in Having /\ to \in Having
  PROVE  IInv'
BY Names DEF IInv, Types, Alone, AtStep, Single, Live, Twice, Goto, After, Critical, Making, Having

\* Nor does the end of the process.
LEMMA EndIInv == ASSUME IInv, NEW how, End(how) PROVE IInv'
BY Names DEF IInv, Types, Alone, AtStep, Single, Live, Twice, End, After, Critical, Making, Having,
   life, Step

LEMMA LockIInv == ASSUME IInv, NEW th \in Threads, Lock(th) PROVE IInv'
BY Names DEF IInv, Types, Alone, AtStep, Single, Live, Twice, Lock, Goto, After, Critical, Making,
   Having, Step

LEMMA NewIInv == ASSUME IInv, NEW th \in Threads, New(th) PROVE IInv'
<1>1. PICK i \in Instances, p \in HeapPtrs :
        /\ \A j \in Instances : inst[j] = "none" <=> j >= i
        /\ inst' = [inst EXCEPT ![i] = "raw"]
        /\ mInstance' = i
  BY DEF New
<1>2. pc[th] = "new" /\ pc' = [pc EXCEPT ![th] = "initialize"] /\ mGaugeMutex' = mGaugeMutex
      /\ mGaugeMutex = th /\ mInstance = NULL
  BY DEF New, Goto, IInv, Alone, AtStep, Critical
<1>3. \A j \in Instances : inst[j] \in {"none", "freed"}
  BY <1>2, Names DEF IInv, Single, Live, Types
<1>4. i = 1 \/ (i = 2 /\ inst[1] = "freed")
  <2>1. 1 \in Instances /\ i \in Nat /\ i >= 1
    BY Names DEF Instances
  <2>2. CASE inst[1] = "none"
    BY <1>1, <2>1, <2>2
  <2>3. CASE inst[1] = "freed"
    <3>1. i > 1
      BY <1>1, <2>1, <2>3
    <3>2. 2 \in Instances
      BY <3>1, LifecycleAssumption DEF Instances
    <3>3. inst[2] = "none"
      BY <1>3, <3>2 DEF IInv, Twice
    <3>4. i = 2
      BY <1>1, <2>1, <3>1, <3>2, <3>3
    <3> QED BY <2>3, <3>4
  <2> QED BY <1>3, <2>1, <2>2, <2>3
<1>5. th = Main => inst[1] # "freed"
  BY <1>2, Names DEF IInv, Twice, After
<1>6. Types'
  BY <1>1, <1>2, Names DEF IInv, Types, Step
<1>7. Alone' /\ AtStep' /\ Single'
  BY <1>1, <1>2, <1>3, Names DEF IInv, Types, Alone, AtStep, Single, Live, Critical, Making, Having
<1>8. Twice'
  BY <1>1, <1>2, <1>3, <1>4, <1>5, Names DEF IInv, Types, Twice, After
<1> QED BY <1>6, <1>7, <1>8 DEF IInv

LEMMA ConnectIInv == ASSUME IInv, NEW th \in Threads, connectSvcIpc(th) PROVE IInv'
<1>1. PICK to \in Making : pc[th] \in Making /\ Goto(th, to)
  BY DEF connectSvcIpc, subscribeServiceIPCSignal, Making
<1>2. UNCHANGED <<mGaugeMutex, mInstance, inst>> /\ to \in Step
  BY DEF connectSvcIpc, subscribeServiceIPCSignal, life, Making, Step
<1> QED BY <1>1, <1>2, Inside

LEMMA FinishIInv == ASSUME IInv, NEW th \in Threads, Finish(th) PROVE IInv'
<1>1. CASE pc[th] = "load"
  <2>1. Goto(th, "thread") /\ UNCHANGED <<mGaugeMutex, mInstance, inst>>
    BY <1>1 DEF Finish
  <2> QED BY <1>1, <2>1, Inside DEF Making, Step
<1>2. CASE pc[th] = "thread"
  <2>1. /\ inst' = [inst EXCEPT ![mInstance] = "ready"] /\ Goto(th, "got")
        /\ UNCHANGED <<mGaugeMutex, mInstance>>
    BY <1>2 DEF Finish
  <2> QED BY <1>2, <2>1, Names DEF IInv, Types, Alone, AtStep, Single, Live, Twice, Goto, After,
             Critical, Making, Having, Step
<1> QED BY <1>1, <1>2 DEF Finish

LEMMA GotIInv == ASSUME IInv, NEW th \in Threads, Got(th) PROVE IInv'
BY Names DEF IInv, Types, Alone, AtStep, Single, Live, Twice, Got, Goto, After, Critical, Making,
   Having, Step

LEMMA GetIInv == ASSUME IInv, NEW th \in Threads, GetInstance(th) PROVE IInv'
BY LockIInv, NewIInv, ConnectIInv, FinishIInv, GotIInv DEF GetInstance

LEMMA DeleteIInv ==
  ASSUME IInv, DeleteLock \/ disconnectSvcipc \/ Free \/ Deleted
  PROVE  IInv'
<1>1. CASE DeleteLock
  BY <1>1, Names DEF IInv, Types, Alone, AtStep, Single, Live, Twice, DeleteLock, Goto, After,
     Critical, Making, Having, Step
<1>2. CASE disconnectSvcipc
  <2>1. PICK to \in Having : pc[Main] \in Having /\ Goto(Main, to)
    BY <1>2 DEF disconnectSvcipc, Having
  <2>2. UNCHANGED <<mGaugeMutex, mInstance, inst>> /\ to \in Step
    BY <1>2 DEF disconnectSvcipc, life, Having, Step
  <2> QED BY <2>1, <2>2, Inside, Names
<1>3. CASE Free
  BY <1>3, Names DEF IInv, Types, Alone, AtStep, Single, Live, Twice, Free, Goto, After, Critical,
     Making, Having, Step
<1>4. CASE Deleted
  BY <1>4, Names DEF IInv, Types, Alone, AtStep, Single, Live, Twice, Deleted, Goto, After,
     Critical, Making, Having, Step
<1> QED BY <1>1, <1>2, <1>3, <1>4

LEMMA MainIInv == ASSUME IInv, main PROVE IInv'
<1>1. CASE InstallHandler
  <2>1. PICK to \in {"term", "lock"} : pc[Main] \in {"start", "term"} /\ Goto(Main, to)
    BY <1>1 DEF InstallHandler
  <2> QED BY <1>1, <2>1, Outside, Names DEF InstallHandler, life, After, Step, Critical, Making, Having
<1>2. CASE Wait
  BY <1>2, Outside, Names DEF Wait, life, After, Step, Critical, Making, Having
<1>3. CASE Return
  BY <1>3, EndIInv DEF Return
<1> QED BY <1>1, <1>2, <1>3, GetIInv, DeleteIInv, Names DEF main

LEMMA DispatchIInv ==
  ASSUME IInv, Deliver \/ Handle \/ (\E sig \in {"SIGTERM", "SIGINT"} : sigHandler(sig))
  PROVE  IInv'
<1>1. \/ UNCHANGED <<pc, mGaugeMutex, mInstance, inst>>
      \/ \E how \in {"crash", "killed"} : End(how)
  BY DEF Deliver, Handle, onGPSDataNDRServiceIPCSignal, FixTest, FixNew, FixStart, FixRestart,
     FixCrash, onSvcipcRequestCallback, sigHandler, Crash, life
<1>2. CASE UNCHANGED <<pc, mGaugeMutex, mInstance, inst>>
  BY <1>2 DEF IInv, Types, Alone, AtStep, Single, Live, Twice
<1> QED BY <1>1, <1>2, EndIInv

LEMMA TimerIInv ==
  ASSUME IInv, NEW t \in Timers, TimerFire(t) \/ Callback(t)
  PROVE  IInv'
<1>1. t \in Threads /\ t # Main
  BY Names
<1>2. CASE GetInstance(t)
  BY <1>1, <1>2, GetIInv
<1>3. CASE Crash
  BY <1>3, EndIInv DEF Crash
<1>4. CASE \E to \in {"lock", "clear", "save", "off"} :
             Goto(t, to) /\ UNCHANGED <<mGaugeMutex, mInstance, inst>>
  BY <1>1, <1>4, Outside DEF Step, Critical, Making, Having
<1> QED BY <1>2, <1>3, <1>4 DEF TimerFire, Callback, StopTimer, ClearTimer, SaveTrip, life

\* The invariant that the results below rest on.
THEOREM Invariance == Spec => []IInv
<1>1. IInv /\ [Next]_vars => IInv'
  <2>1. CASE UNCHANGED vars
    BY <2>1 DEF IInv, Types, Alone, AtStep, Single, Live, Twice, vars, life
  <2> QED BY <2>1, MainIInv, DispatchIInv, TimerIInv DEF Next
<1> QED BY <1>1, InitIInv, PTL DEF Spec

\* svcipc's initialize and shutdown are never called by two threads at a time.
THEOREM CallsApart == Spec => []LibraryCallsApart
<1>1. IInv => LibraryCallsApart
  BY Names DEF IInv, Alone, Critical, Making, Having, LibraryCallsApart
<1> QED BY <1>1, Invariance, PTL

\* There is one instance at a time, and one re-created at most, for any number of
\* timers.
THEOREM InstanceOnce == Spec => []OneInstance
<1>1. IInv => OneInstance
  BY Names DEF IInv, Single, Live, Twice, OneInstance
<1> QED BY <1>1, Invariance, PTL

\* GetInstance hands out the instance there is, initialized.
THEOREM HandedOut == Spec => HandsOutReady
<1> DEFINE Out == \A th \in Threads : got'[th] # got[th] =>
                    got'[th] = mInstance /\ inst[mInstance] = "ready"
<1>1. IInv /\ [Next]_vars => [Out]_vars
  <2> SUFFICES ASSUME IInv, Next PROVE Out
    OBVIOUS
  <2>1. CASE UNCHANGED got
    BY <2>1
  <2>2. CASE \E th \in Threads : Got(th)
    <3>1. PICK th \in Threads : Got(th)
      BY <2>2
    <3> QED BY <3>1, Names DEF Got, IInv, Types, AtStep, Having
  <2>3. ASSUME NEW th \in Threads, GetInstance(th) PROVE UNCHANGED got \/ Got(th)
    BY <2>3 DEF GetInstance, Lock, New, connectSvcIpc, subscribeServiceIPCSignal, Finish
  <2>4. CASE main
    <3>1. CASE GetInstance(Main)
      BY <3>1, <2>1, <2>2, <2>3, Names
    <3> QED BY <2>1, <2>4, <3>1 DEF main, InstallHandler, Wait, DeleteLock, disconnectSvcipc, Free,
               Deleted, Return, End
  <2>5. CASE Deliver \/ Handle \/ (\E sig \in {"SIGTERM", "SIGINT"} : sigHandler(sig))
    BY <2>1, <2>5 DEF Deliver, Handle, onGPSDataNDRServiceIPCSignal, FixTest, FixNew, FixStart,
       FixRestart, FixCrash, onSvcipcRequestCallback, sigHandler, Crash, End
  <2>6. ASSUME NEW t \in Timers, TimerFire(t) \/ Callback(t) PROVE Out
    <3>1. CASE GetInstance(t)
      BY <3>1, <2>1, <2>2, <2>3, Names
    <3> QED BY <2>1, <2>6, <3>1 DEF TimerFire, Callback, StopTimer, ClearTimer, SaveTrip, Crash, End
  <2> QED BY <2>4, <2>5, <2>6 DEF Next
<1> QED BY <1>1, Invariance, PTL DEF Spec, HandsOutReady

-----------------------------------------------------------------------------
(* The rest of the invariant: types, who knows which instance, main's way    *)
(* out and the causes of a crash.                                            *)

\* The part of TypeOK that Types leaves out, and what a callback under way needs.
Present == mInstance # NULL => inst[mInstance] \in {"raw", "ready"}
Lib  == [up : BOOLEAN, open : SUBSET Instances, reg : Instances \cup {NULL},
         sub : SUBSET Instances, drains : BOOLEAN]
Disp == [pc : {"idle", "fix", "new", "start", "restart", "request", "gone"},
         inst : Instances \cup {NULL}, method : Methods]
Others ==
  /\ ended \in {"no", "killed", "exit", "crash"}
  /\ caught \subseteq {"SIGTERM", "SIGINT"}
  /\ terminated \in BOOLEAN /\ gExitService \in BOOLEAN
  /\ got \in [Threads -> Instances \cup {NULL}]
  /\ mLastGPSTimer \in [Instances -> Timers \cup {NULL, Wild}]
  /\ calc \subseteq Instances
  /\ timer \in [Timers -> {"none", "armed", "firing", "stopped", "done"}]
  /\ lib \in Lib /\ disp \in Disp
  /\ fixes \in 0 .. MaxFix /\ reqs \in 0 .. MaxReq
  /\ answers \in 0 .. reqs /\ fails \in Nat /\ revived \in BOOLEAN /\ overtaken \in BOOLEAN
AtFix == {"fix", "new", "start", "restart"}
Pending ==
  /\ disp.pc \in AtFix => fixes \in Timers /\ disp.inst \in Instances
  /\ disp.pc = "request" => answers < reqs

\* Whoever has an instance has one that was created; an instance that was not has
\* no timer, and one is created only when those before are freed.
Known ==
  /\ \A i \in lib.sub : inst[i] # "none"
  /\ disp.pc \in AtFix => inst[disp.inst] # "none"
  /\ disp.pc = "new" => mLastGPSTimer[disp.inst] # Wild
  /\ \A th \in Threads : pc[th] \in {"use", "clear", "save"} =>
       got[th] \in Instances /\ inst[got[th]] # "none"
  /\ \A th \in Threads : pc[th] = "clear" => mLastGPSTimer[got[th]] # Wild
  /\ \A i \in Instances : inst[i] = "none" => mLastGPSTimer[i] = NULL
  /\ \A i, j \in Instances : j < i /\ inst[i] # "none" => inst[j] = "freed"

\* Main on its way out, which no one can disturb but by a second instance.
Down == ~lib.up /\ lib.reg = NULL /\ lib.sub = {}
AtEnd ==
  /\ pc[Main] \in {"wait", "delete"} => mInstance # NULL
  /\ pc[Main] \in {"deleted", "return"} => inst[1] = "freed"
  /\ /\ pc[Main] \in {"free", "deleted", "return"} \/ ended = "exit"
     /\ \A i \in Instances : i > 1 => inst[i] = "none"
     => Down
  /\ ended # "no" => disp.pc = "gone" /\ \A th \in Threads : pc[th] = "gone"

\* As long as none of the causes is there, the first instance is the only one, it
\* points to the one timer that is to fire or is calling back, and to no timer
\* once that has stopped itself; and the handler finds it as it was at its test.
Quiet == /\ \A i \in Instances : mLastGPSTimer[i] # Wild /\ inst[i] # "freed"
         /\ ~revived /\ ~overtaken
Calling == {"lock", "new", "got", "use"} \cup Making
OneByOne ==
  /\ \A t \in Timers :
       /\ timer[t] \in {"armed", "firing"} => mLastGPSTimer[1] = t
       /\ timer[t] = "firing"  <=> pc[t] \in Calling
       /\ timer[t] = "stopped" <=> pc[t] \in {"clear", "save"}
       /\ pc[t] = "clear" => mLastGPSTimer[1] = t
       /\ t > fixes => timer[t] = "none"
  /\ disp.pc \in {"fix", "new", "start"} => timer[fixes] = "none"
  /\ disp.pc = "new" => mLastGPSTimer[1] = NULL
  /\ disp.pc = "start" => mLastGPSTimer[1] = fixes
  /\ disp.pc = "restart" => mLastGPSTimer[1] \in Timers
InTurn  == Quiet => ended # "crash" /\ (ended = "no" => OneByOne)
KInv == IInv /\ Present /\ Others /\ Pending /\ Known /\ AtEnd /\ InTurn

\* What the calls of the library leave in it.
LEMMA Connected ==
  ASSUME KInv, NEW th \in Threads, connectSvcIpc(th)
  PROVE  /\ lib' \in Lib /\ fails' \in Nat
         /\ \A i \in lib'.sub : i \in lib.sub \/ i = mInstance
         /\ pc[th] \in Making /\ mInstance \in Instances /\ inst[mInstance] = "raw"
         /\ UNCHANGED <<sys, got, life, work, tim>>
         /\ \E to \in Making : Goto(th, to)
<1>1. /\ pc[th] \in Making /\ UNCHANGED <<sys, got, life, work, tim>>
      /\ \E to \in Making : Goto(th, to)
  BY DEF connectSvcIpc, subscribeServiceIPCSignal, Making
<1>2. mInstance \in Instances /\ inst[mInstance] = "raw"
  BY <1>1 DEF KInv, IInv, Types, AtStep
<1>3. lib \in Lib /\ fails \in Nat
  BY DEF KInv, Others
<1>4. \/ lib' = lib
      \/ lib' = [lib EXCEPT !.up = TRUE]
      \/ lib' = [lib EXCEPT !.open = @ \cup {mInstance}]
      \/ lib' = [lib EXCEPT !.reg = mInstance]
      \/ lib' = [lib EXCEPT !.sub = @ \cup {mInstance}]
  BY DEF connectSvcIpc, subscribeServiceIPCSignal, Call
<1>5. fails' \in Nat
  BY <1>3 DEF connectSvcIpc, subscribeServiceIPCSignal, Call
<1>6. lib' \in Lib
  <2>1. \A S \in SUBSET Instances : S \cup {mInstance} \in SUBSET Instances
    BY <1>2
  <2>2. CASE lib' = [lib EXCEPT !.open = @ \cup {mInstance}]
    BY <1>3, <2>1, <2>2 DEF Lib
  <2>3. CASE lib' = [lib EXCEPT !.sub = @ \cup {mInstance}]
    BY <1>3, <2>1, <2>3 DEF Lib
  <2> QED BY <1>2, <1>3, <1>4, <2>2, <2>3 DEF Lib
<1>7. \A i \in lib'.sub : i \in lib.sub \/ i = mInstance
  BY <1>3, <1>4 DEF Lib
<1> QED BY <1>1, <1>2, <1>5, <1>6, <1>7

LEMMA Disconnected ==
  ASSUME KInv, disconnectSvcipc
  PROVE  /\ lib' \in Lib /\ fails' \in Nat
         /\ lib'.sub \subseteq lib.sub
         /\ UNCHANGED <<sys, got, life, work, tim>>
         /\ \/ Goto(Main, "free") /\ Down'
            \/ \E to \in {"close", "shutdown"} : Goto(Main, to)
<1>1. lib \in Lib /\ fails \in Nat
  BY DEF KInv, Others
<1>2. CASE pc[Main] = "shutdown"
  <2>1. lib' = [lib EXCEPT !.up = FALSE, !.open = {}, !.reg = NULL, !.sub = {}]
    BY <1>2 DEF disconnectSvcipc
  <2> QED BY <1>1, <1>2, <2>1 DEF disconnectSvcipc, Lib, Down
<1>3. CASE pc[Main] # "shutdown"
  <2>1. \/ lib' = lib
        \/ lib' = [lib EXCEPT !.reg = NULL]
        \/ lib' = [lib EXCEPT !.open = @ \ {mInstance}]
    BY <1>3 DEF disconnectSvcipc, Call
  <2>2. lib' \in Lib
    BY <1>1, <2>1 DEF Lib
  <2>4. lib'.sub = lib.sub
    BY <1>1, <2>1 DEF Lib
  <2>3. fails' \in Nat
    BY <1>1, <1>3 DEF disconnectSvcipc, Call
  <2>5. \E to \in {"close", "shutdown"} : Goto(Main, to)
    BY <1>3 DEF disconnectSvcipc
  <2>6. UNCHANGED <<sys, got, life, work, tim>>
    BY DEF disconnectSvcipc
  <2> QED BY <2>2, <2>3, <2>4, <2>5, <2>6
<1> QED BY <1>2, <1>3

\* The end of the process.
LEMMA Ended ==
  ASSUME KInv, NEW how, End(how)
  PROVE  /\ disp' \in Disp /\ disp'.pc = "gone" /\ disp'.inst = disp.inst
         /\ ended' = how /\ \A th \in Threads : pc'[th] = "gone"
         /\ UNCHANGED <<caught, terminated, gExitService, got, life, ipc, fixes, reqs, answers, tim>>
BY DEF KInv, Others, Disp, End

\* The dispatch thread, between two callbacks.
LEMMA Idle == DispIdle \in Disp /\ DispIdle.pc = "idle"
BY DEF DispIdle, Disp, Methods

\* The handler: it comes to its end, or goes on with the same instance, and sets
\* mLastGPSTimer to nothing but its new timer.
LEMMA Fixed ==
  ASSUME KInv, onGPSDataNDRServiceIPCSignal, ~Crash
  PROVE  /\ disp.pc \in AtFix /\ disp.inst \in Instances /\ fixes \in Timers
         /\ inst[disp.inst] # "none"
         /\ disp' \in Disp /\ disp'.pc # "fix"
         /\ disp'.pc \in AtFix => disp'.inst = disp.inst
         /\ disp'.pc \in AtFix \cup {"idle"}
         /\ UNCHANGED <<sys, pc, got, life, ipc, fixes, reqs, answers, overtaken>>
         /\ \/ mLastGPSTimer' = mLastGPSTimer
            \/ mLastGPSTimer' = [mLastGPSTimer EXCEPT ![disp.inst] = fixes]
         /\ timer' \in [Timers -> {"none", "armed", "firing", "stopped", "done"}]
         /\ revived' \in BOOLEAN
         /\ disp'.pc = "new" => mLastGPSTimer'[disp.inst] = NULL
<1>1. /\ disp.pc \in AtFix /\ disp.inst \in Instances /\ fixes \in Timers
      /\ inst[disp.inst] # "none" /\ disp \in Disp
  BY DEF KInv, Others, Pending, Known, AtFix, onGPSDataNDRServiceIPCSignal, FixTest, FixNew,
     FixStart, FixRestart, FixCrash
<1>2. CASE FixTest
  BY <1>1, <1>2 DEF KInv, Others, FixTest, tim, Disp, AtFix
<1>3. CASE FixNew
  BY <1>1, <1>3 DEF KInv, Others, FixNew, Disp, AtFix
<1>4. CASE FixStart
  BY <1>1, <1>4, Idle DEF KInv, Others, FixStart, AtFix
<1>5. CASE FixRestart
  BY <1>1, <1>5, Idle DEF KInv, Others, FixRestart, AtFix
<1> QED BY <1>2, <1>3, <1>4, <1>5 DEF onGPSDataNDRServiceIPCSignal, FixCrash

\* mInstance never dangles: it is set to an instance that is being made, and reset
\* before it is freed.
LEMMA PresentStep == ASSUME KInv, IInv', [Next]_vars PROVE Present'
<1> USE DEF sys, life, ipc, work, tim, AtFix
<1>1. CASE InstallHandler
  BY <1>1, Names DEF KInv, Present, IInv, Types, AtStep, Single, Live, Making, Having,
     InstallHandler, Goto
<1>2. CASE Wait
  BY <1>2, Names DEF KInv, Present, IInv, Types, AtStep, Single, Live, Making, Having, Wait,
     Goto
<1>3. CASE Return
  BY <1>3, Names DEF KInv, Present, IInv, Types, AtStep, Single, Live, Making, Having,
     Return, End
<1>4. CASE DeleteLock
  BY <1>4, Names DEF KInv, Present, IInv, Types, AtStep, Single, Live, Making, Having,
     DeleteLock, Goto
<1>5. CASE disconnectSvcipc
  BY <1>5, Names DEF KInv, Present, IInv, Types, AtStep, Single, Live, Making, Having,
     disconnectSvcipc, Call, Goto
<1>6. CASE Free
  BY <1>6, Names DEF KInv, Present, IInv, Types, AtStep, Single, Live, Making, Having, Free,
     Goto
<1>7. CASE Deleted
  BY <1>7, Names DEF KInv, Present, IInv, Types, AtStep, Single, Live, Making, Having,
     Deleted, Goto
<1>8. ASSUME NEW sig \in {"SIGTERM", "SIGINT"}, sigHandler(sig) PROVE Present'
  BY <1>8, Names DEF KInv, Present, IInv, Types, AtStep, Single, Live, Making, Having,
     sigHandler, End
<1>9. CASE Deliver
  BY <1>9, Names DEF KInv, Present, IInv, Types, AtStep, Single, Live, Making, Having,
     Deliver
<1>10. CASE onGPSDataNDRServiceIPCSignal
  BY <1>10, Fixed DEF KInv, Present, Crash, End
<1>11. CASE onSvcipcRequestCallback
  BY <1>11, Names DEF KInv, Present, IInv, Types, AtStep, Single, Live, Making, Having,
     onSvcipcRequestCallback, DispIdle
<1>12. ASSUME NEW th \in Threads, Lock(th) PROVE Present'
  BY <1>12, Names DEF KInv, Present, IInv, Types, AtStep, Single, Live, Making, Having,
     Lock, Goto
<1>13. ASSUME NEW th \in Threads, New(th) PROVE Present'
  BY <1>13, Names DEF KInv, Present, IInv, Types, AtStep, Single, Live, Making, Having, New,
     Goto
<1>14. ASSUME NEW th \in Threads, connectSvcIpc(th) PROVE Present'
  BY <1>14, Names DEF KInv, Present, IInv, Types, AtStep, Single, Live, Making, Having,
     connectSvcIpc, subscribeServiceIPCSignal, Call, Goto
<1>15. ASSUME NEW th \in Threads, Finish(th) PROVE Present'
  BY <1>15, Names DEF KInv, Present, IInv, Types, AtStep, Single, Live, Making, Having,
     Finish, Goto
<1>16. ASSUME NEW th \in Threads, Got(th) PROVE Present'
  BY <1>16, Names DEF KInv, Present, IInv, Types, AtStep, Single, Live, Making, Having, Got,
     Goto
<1>17. ASSUME NEW t \in Timers, TimerFire(t) PROVE Present'
  BY <1>17, Names DEF KInv, Present, IInv, Types, AtStep, Single, Live, Making, Having,
     TimerFire, Goto
<1>18. ASSUME NEW t \in Timers, StopTimer(t) PROVE Present'
  BY <1>18, Names DEF KInv, Present, IInv, Types, AtStep, Single, Live, Making, Having,
     StopTimer, Goto, Crash, End
<1>19. ASSUME NEW t \in Timers, ClearTimer(t) PROVE Present'
  BY <1>19, Names DEF KInv, Present, IInv, Types, AtStep, Single, Live, Making, Having,
     ClearTimer, Goto, Crash, End
<1>20. ASSUME NEW t \in Timers, SaveTrip(t) PROVE Present'
  BY <1>20, Names DEF KInv, Present, IInv, Types, AtStep, Single, Live, Making, Having,
     SaveTrip, Goto, Crash, End
<1>21. CASE UNCHANGED vars
  BY <1>21 DEF KInv, Present, IInv, Types, AtStep, Single, Live, Making, Having, vars
<1> QED
  BY <1>1, <1>2, <1>3, <1>4, <1>5, <1>6, <1>7, <1>8, <1>9, <1>10, <1>11, <1>12, <1>13,
     <1>14, <1>15, <1>16, <1>17, <1>18, <1>19, <1>20, <1>21, Names DEF Next, main,
     GetInstance, Handle, Callback

\* The other types.
LEMMA TypedStep == ASSUME KInv, IInv', [Next]_vars PROVE (Others /\ Pending)'
<1> USE DEF KInv, sys, life, ipc, work, tim, AtFix
<1>1. CASE InstallHandler
  BY <1>1, Names DEF Others, Pending, InstallHandler
<1>2. CASE Wait
  BY <1>2, Names DEF Others, Pending, Wait
<1>3. CASE Return
  BY <1>3, Ended DEF Others, Pending, Return
<1>4. CASE DeleteLock
  BY <1>4, Names DEF Others, Pending, DeleteLock
<1>5. CASE disconnectSvcipc
  BY <1>5, Disconnected DEF Others, Pending
<1>6. CASE Free
  BY <1>6, Names DEF Others, Pending, Free
<1>7. CASE Deleted
  BY <1>7, Names DEF Others, Pending, Deleted
<1>8. ASSUME NEW sig \in {"SIGTERM", "SIGINT"}, sigHandler(sig) PROVE (Others /\ Pending)'
  BY <1>8, Ended DEF Others, Pending, sigHandler
<1>9. CASE Deliver
  <2>1. disp' \in Disp /\ (disp'.pc \in AtFix => disp'.inst \in Instances)
    BY <1>9, Names DEF Others, Deliver, Disp, Lib, Methods, AtFix
  <2>2. disp'.pc \in AtFix => fixes' \in Timers
    BY <1>9, <2>1, Names, LifecycleAssumption DEF Others, Deliver, Timers, Disp, AtFix
  <2>3. disp'.pc = "request" => answers < reqs'
    BY <1>9, <2>1, <2>2, Names DEF Others, Deliver
  <2>4. fixes' \in 0 .. MaxFix /\ reqs' \in 0 .. MaxReq /\ answers \in 0 .. reqs'
    BY <1>9, <2>1, <2>2, <2>3, Names, LifecycleAssumption DEF Others, Deliver
  <2> QED
    BY <1>9, <2>1, <2>2, <2>3, <2>4 DEF Others, Pending, Deliver
<1>10. CASE onGPSDataNDRServiceIPCSignal
  <2>1. CASE Crash
    BY <1>10, Names, <2>1, Ended DEF Others, Pending, Crash
  <2>2. CASE ~Crash
    <3>1. mLastGPSTimer' \in [Instances -> Timers \cup {NULL, Wild}]
      BY <1>10, <2>2, Fixed DEF Others
    <3>2. disp'.pc # "request"
      BY <1>10, <2>2, Fixed DEF AtFix
    <3> QED BY <1>10, <2>2, <3>1, <3>2, Fixed DEF Others, Pending
  <2> QED
    BY <2>1, <2>2
<1>11. CASE onSvcipcRequestCallback
  BY <1>11, Idle DEF Others, Pending, onSvcipcRequestCallback
<1>12. ASSUME NEW th \in Threads, Lock(th) PROVE (Others /\ Pending)'
  BY <1>12, Names DEF Others, Pending, Lock
<1>13. ASSUME NEW th \in Threads, New(th) PROVE (Others /\ Pending)'
  <2>1. mLastGPSTimer' \in [Instances -> Timers \cup {NULL, Wild}]
    BY <1>13, Names, LifecycleAssumption DEF Others, New
  <2> QED
    BY <1>13, <2>1 DEF Others, Pending, New
<1>14. ASSUME NEW th \in Threads, connectSvcIpc(th) PROVE (Others /\ Pending)'
  BY <1>14, Connected DEF Others, Pending
<1>15. ASSUME NEW th \in Threads, Finish(th) PROVE (Others /\ Pending)'
  <2>1. pc[th] = "thread" => mInstance \in Instances
    BY DEF IInv, Types, AtStep, Making
  <2>2. calc' \subseteq Instances
    BY <1>15, <2>1 DEF Others, Finish
  <2>3. fails' \in Nat
    BY <1>15 DEF Others, Finish
  <2> QED
    BY <1>15, <2>2, <2>3 DEF Others, Pending, Finish
<1>16. ASSUME NEW th \in Threads, Got(th) PROVE (Others /\ Pending)'
  BY <1>16, Names DEF Others, Pending, IInv, Types, Got
<1>17. ASSUME NEW t \in Timers, TimerFire(t) PROVE (Others /\ Pending)'
  BY <1>17, Names DEF Others, Pending, TimerFire
<1>18. ASSUME NEW t \in Timers, StopTimer(t) PROVE (Others /\ Pending)'
  <2>1. CASE Crash
    BY <1>18, Names, <2>1, Ended DEF Others, Pending, Crash
  <2> QED
    BY <1>18, <2>1, Names DEF Others, Pending, StopTimer
<1>19. ASSUME NEW t \in Timers, ClearTimer(t) PROVE (Others /\ Pending)'
  <2>1. CASE Crash
    BY <1>19, Names, <2>1, Ended DEF Others, Pending, Crash
  <2> QED
    BY <1>19, <2>1, Names DEF Others, Pending, ClearTimer
<1>20. ASSUME NEW t \in Timers, SaveTrip(t) PROVE (Others /\ Pending)'
  <2>1. CASE Crash
    BY <1>20, Names, <2>1, Ended DEF Others, Pending, Crash
  <2> QED
    BY <1>20, <2>1, Names DEF Others, Pending, SaveTrip
<1>21. CASE UNCHANGED vars
  BY <1>21 DEF Others, Pending, vars
<1> QED
  BY <1>1, <1>2, <1>3, <1>4, <1>5, <1>6, <1>7, <1>8, <1>9, <1>10, <1>11, <1>12, <1>13,
     <1>14, <1>15, <1>16, <1>17, <1>18, <1>19, <1>20, <1>21, Names DEF Next, main,
     GetInstance, Handle, Callback

\* No one comes to an instance that was not created.
LEMMA KnownStep == ASSUME KInv, IInv', [Next]_vars PROVE Known'
<1> USE DEF sys, life, ipc, work, tim, AtFix
<1>1. CASE InstallHandler
  BY <1>1, Names DEF KInv, Others, Pending, Known, IInv, Types, AtStep, Single, Live,
     Making, Having, InstallHandler, Goto
<1>2. CASE Wait
  BY <1>2, Names DEF KInv, Others, Pending, Known, IInv, Types, AtStep, Single, Live,
     Making, Having, Wait, Goto
<1>3. CASE Return
  BY <1>3, Ended DEF KInv, Others, Pending, Known, IInv, Types, AtStep, Single, Live,
     Making, Having, Return
<1>4. CASE DeleteLock
  BY <1>4, Names DEF KInv, Others, Pending, Known, IInv, Types, AtStep, Single, Live,
     Making, Having, DeleteLock, Goto
<1>5. CASE disconnectSvcipc
  BY <1>5, Disconnected, Names DEF KInv, Others, Pending, Known, IInv, Types, AtStep,
     Single, Live, Making, Having, Goto
<1>6. CASE Free
  BY <1>6, Names DEF KInv, Others, Pending, Known, IInv, Types, AtStep, Single, Live,
     Making, Having, Free, Goto
<1>7. CASE Deleted
  BY <1>7, Names DEF KInv, Others, Pending, Known, IInv, Types, AtStep, Single, Live,
     Making, Having, Deleted, Goto
<1>8. ASSUME NEW sig \in {"SIGTERM", "SIGINT"}, sigHandler(sig) PROVE Known'
  BY <1>8, Ended DEF KInv, Others, Pending, Known, IInv, Types, AtStep, Single, Live,
     Making, Having, sigHandler
<1>9. CASE Deliver
  <2>1. disp'.pc \in AtFix => inst[disp'.inst] # "none"
    BY <1>9, Names DEF KInv, Others, Known, Deliver, Disp, Lib, AtFix
  <2> QED
    BY <1>9, <2>1 DEF KInv, Others, Pending, Known, IInv, Types, AtStep, Single, Live,
       Making, Having, Deliver
<1>10. CASE onGPSDataNDRServiceIPCSignal
  <2>1. CASE Crash
    BY <1>10, Names, <2>1, Ended DEF KInv, Others, Pending, Known, IInv, Types, AtStep,
       Single, Live, Making, Having, Crash
  <2>2. CASE ~Crash
    <3>1. \A i \in Instances : \/ mLastGPSTimer'[i] = mLastGPSTimer[i]
                               \/ i = disp.inst /\ mLastGPSTimer'[i] # Wild
      <4>1. /\ disp.inst \in Instances /\ fixes # Wild
            /\ mLastGPSTimer \in [Instances -> Timers \cup {NULL, Wild}]
        BY <1>10, <2>2, Fixed DEF KInv, Others, Timers, Wild
      <4>2. \/ mLastGPSTimer' = mLastGPSTimer
            \/ mLastGPSTimer' = [mLastGPSTimer EXCEPT ![disp.inst] = fixes]
        BY <1>10, <2>2, Fixed
      <4> QED BY <4>1, <4>2
    <3>2. disp'.pc = "new" => mLastGPSTimer'[disp'.inst] # Wild
      <4>1. disp'.pc = "new" => disp'.inst = disp.inst /\ mLastGPSTimer'[disp.inst] = NULL
        BY <1>10, <2>2, Fixed
      <4> QED BY <4>1 DEF NULL, Wild
    <3> QED BY <1>10, <2>2, <3>1, <3>2, Fixed DEF KInv, Known
  <2> QED
    BY <2>1, <2>2
<1>11. CASE onSvcipcRequestCallback
  BY <1>11, Idle DEF KInv, Others, Pending, Known, IInv, Types, AtStep, Single, Live,
     Making, Having, onSvcipcRequestCallback
<1>12. ASSUME NEW th \in Threads, Lock(th) PROVE Known'
  BY <1>12, Names DEF KInv, Others, Pending, Known, IInv, Types, AtStep, Single, Live,
     Making, Having, Lock, Goto
<1>13. ASSUME NEW th \in Threads, New(th) PROVE Known'
  BY <1>13, Names DEF KInv, Others, Pending, Known, IInv, Types, AtStep, Single, Live,
     Making, Having, New, Goto
<1>14. ASSUME NEW th \in Threads, connectSvcIpc(th) PROVE Known'
  BY <1>14, Connected, Names DEF KInv, Others, Pending, Known, IInv, Types, AtStep, Single,
     Live, Making, Having, Goto
<1>15. ASSUME NEW th \in Threads, Finish(th) PROVE Known'
  <2>1. \/ UNCHANGED inst
         \/ /\ mInstance \in Instances /\ inst[mInstance] = "raw"
            /\ inst' = [inst EXCEPT ![mInstance] = "ready"]
    BY <1>15, Names DEF KInv, IInv, Types, AtStep, Making, Finish
  <2>2. \A i \in Instances : (inst'[i] = "none") = (inst[i] = "none")
    BY <2>1 DEF KInv, IInv, Types
  <2>3. \A i \in Instances : (inst'[i] = "freed") = (inst[i] = "freed")
    BY <2>1 DEF KInv, IInv, Types
  <2>4. \A u \in Threads : pc'[u] \in {"use", "clear", "save"} => pc'[u] = pc[u]
    BY <1>15 DEF KInv, IInv, Types, Finish, Goto
  <2>5. UNCHANGED <<got, lib, disp, mLastGPSTimer>> /\ lib.sub \subseteq Instances
        /\ (disp.pc \in AtFix => disp.inst \in Instances)
    BY <1>15 DEF Finish, KInv, Others, Lib, Pending
  <2> QED
    BY <2>2, <2>3, <2>4, <2>5 DEF KInv, Known
<1>16. ASSUME NEW th \in Threads, Got(th) PROVE Known'
  BY <1>16, Names DEF KInv, Others, Pending, Known, IInv, Types, AtStep, Single, Live,
     Making, Having, Got, Goto
<1>17. ASSUME NEW t \in Timers, TimerFire(t) PROVE Known'
  BY <1>17, Names DEF KInv, Others, Pending, Known, IInv, Types, AtStep, Single, Live,
     Making, Having, TimerFire, Goto
<1>18. ASSUME NEW t \in Timers, StopTimer(t) PROVE Known'
  <2>1. CASE Crash
    BY <1>18, Names, <2>1, Ended DEF KInv, Others, Pending, Known, IInv, Types, AtStep,
       Single, Live, Making, Having, Crash
  <2> QED
    BY <1>18, <2>1, Names DEF KInv, Others, Pending, Known, IInv, Types, AtStep, Single,
       Live, Making, Having, StopTimer, Goto, Timers, Wild, NULL
<1>19. ASSUME NEW t \in Timers, ClearTimer(t) PROVE Known'
  <2>1. CASE Crash
    BY <1>19, Names, <2>1, Ended DEF KInv, Others, Pending, Known, IInv, Types, AtStep,
       Single, Live, Making, Having, Crash
  <2>2. CASE ~Crash
    <3>1. /\ mLastGPSTimer' = [mLastGPSTimer EXCEPT ![got[t]] = NULL] /\ pc' = [pc EXCEPT ![t] = "save"]
          /\ UNCHANGED <<got, inst, lib, disp>> /\ pc[t] = "clear"
      BY <1>19, <2>2 DEF ClearTimer, Goto
    <3>2. \A i \in Instances : mLastGPSTimer'[i] = mLastGPSTimer[i] \/ mLastGPSTimer'[i] = NULL
      BY <3>1 DEF KInv, Others
    <3>3. \A u \in Threads : pc'[u] \in {"use", "clear", "save"} =>
            got[u] \in Instances /\ inst[got[u]] # "none" /\ (pc'[u] = "clear" => pc[u] = "clear")
      BY <3>1, Names DEF KInv, Known, IInv, Types
    <3>4. disp.pc = "new" => disp.inst \in Instances
      BY DEF KInv, Pending
    <3> QED BY <3>1, <3>2, <3>3, <3>4 DEF KInv, Known, NULL, Wild
  <2> QED
    BY <2>1, <2>2
<1>20. ASSUME NEW t \in Timers, SaveTrip(t) PROVE Known'
  <2>1. CASE Crash
    BY <1>20, Names, <2>1, Ended DEF KInv, Others, Pending, Known, IInv, Types, AtStep,
       Single, Live, Making, Having, Crash
  <2> QED
    BY <1>20, <2>1, Names DEF KInv, Others, Pending, Known, IInv, Types, AtStep, Single,
       Live, Making, Having, SaveTrip, Goto
<1>21. CASE UNCHANGED vars
  BY <1>21 DEF KInv, Others, Pending, Known, IInv, Types, AtStep, Single, Live, Making,
     Having, vars
<1> QED
  BY <1>1, <1>2, <1>3, <1>4, <1>5, <1>6, <1>7, <1>8, <1>9, <1>10, <1>11, <1>12, <1>13,
     <1>14, <1>15, <1>16, <1>17, <1>18, <1>19, <1>20, <1>21, Names DEF Next, main,
     GetInstance, Handle, Callback

\* On main's way out the library stays down, unless GetInstance creates a second
\* instance; and when the process has ended, nothing moves.
LEMMA AtEndStep == ASSUME KInv, IInv', [Next]_vars PROVE AtEnd'
<1> USE DEF sys, life, ipc, work, tim, AtFix
<1>1. CASE InstallHandler
  BY <1>1, Names DEF KInv, Others, AtEnd, Down, IInv, Types, Alone, AtStep, Single, Twice,
     Live, Critical, Making, Having, InstallHandler, Goto
<1>2. CASE Wait
  BY <1>2, Names DEF KInv, Others, AtEnd, Down, IInv, Types, Alone, AtStep, Single, Twice,
     Live, Critical, Making, Having, Wait, Goto
<1>3. CASE Return
  BY <1>3, Ended, Names DEF KInv, Others, AtEnd, Down, IInv, Types, Alone, AtStep, Single,
     Twice, Live, Critical, Making, Having, Return
<1>4. CASE DeleteLock
  BY <1>4, Names DEF KInv, Others, AtEnd, Down, IInv, Types, Alone, AtStep, Single, Twice,
     Live, Critical, Making, Having, DeleteLock, Goto
<1>5. CASE disconnectSvcipc
  <2>1. ended = "no" /\ pc[Main] \in Having
    BY <1>5, Names DEF KInv, AtEnd, disconnectSvcipc, Having
  <2>2. \/ Goto(Main, "free") /\ Down'
        \/ \E to \in {"close", "shutdown"} : Goto(Main, to)
    BY <1>5, <2>1, Names, Disconnected
  <2>3. UNCHANGED <<ended, disp, inst, mInstance>>
    BY <1>5, <2>1, <2>2, Names, Disconnected
  <2> QED
    BY <1>5, <2>1, <2>2, <2>3, Names DEF KInv, AtEnd, IInv, Types, Goto
<1>6. CASE Free
  <2>1. mInstance = 1
    BY <1>6, Names DEF KInv, IInv, Types, AtStep, Twice, Having, Free, After, Instances,
       NULL
  <2>2. ended = "no" /\ (\A th \in Threads : pc'[th] = "gone" => pc[th] = "gone")
    BY <1>6, <2>1, Names DEF KInv, AtEnd, IInv, Types, Free, Goto
  <2>3. inst'[1] = "freed" /\ pc'[Main] = "deleted"
    BY <1>6, <2>1, <2>2, Names DEF KInv, IInv, Types, Free, Goto
  <2>4. \A i \in Instances : i > 1 => inst'[i] = inst[i]
    BY <1>6, <2>1, <2>2, <2>3, Names DEF KInv, IInv, Types, Free, Goto
  <2> QED
    BY <1>6, <2>1, <2>2, <2>3, <2>4, Names DEF KInv, AtEnd, Down, Free
<1>7. CASE Deleted
  BY <1>7, Names DEF KInv, Others, AtEnd, Down, IInv, Types, Alone, AtStep, Single, Twice,
     Live, Critical, Making, Having, Deleted, Goto
<1>8. ASSUME NEW sig \in {"SIGTERM", "SIGINT"}, sigHandler(sig) PROVE AtEnd'
  BY <1>8, Ended, Names DEF KInv, Others, AtEnd, Down, IInv, Types, Alone, AtStep, Single,
     Twice, Live, Critical, Making, Having, sigHandler
<1>9. CASE Deliver
  BY <1>9, Names DEF KInv, Others, AtEnd, Down, IInv, Types, Alone, AtStep, Single, Twice,
     Live, Critical, Making, Having, Deliver
<1>10. CASE onGPSDataNDRServiceIPCSignal
  <2>1. CASE Crash
    BY <1>10, Names, <2>1, Ended DEF KInv, AtEnd, Crash
  <2> QED
    BY <1>10, <2>1, Fixed, Names DEF KInv, AtEnd, Down
<1>11. CASE onSvcipcRequestCallback
  BY <1>11, Names DEF KInv, Others, AtEnd, Down, IInv, Types, Alone, AtStep, Single, Twice,
     Live, Critical, Making, Having, onSvcipcRequestCallback, DispIdle
<1>12. ASSUME NEW th \in Threads, Lock(th) PROVE AtEnd'
  BY <1>12, Names DEF KInv, Others, AtEnd, Down, IInv, Types, Alone, AtStep, Single, Twice,
     Live, Critical, Making, Having, Lock, Goto
<1>13. ASSUME NEW th \in Threads, New(th) PROVE AtEnd'
  BY <1>13, Names DEF KInv, Others, AtEnd, Down, IInv, Types, Alone, AtStep, Single, Twice,
     Live, Critical, Making, Having, New, Goto
<1>14. ASSUME NEW th \in Threads, connectSvcIpc(th) PROVE AtEnd'
  <2>1. ended = "no"
    BY <1>14, Names, Connected DEF KInv, AtEnd, Making
  <2>2. \E to \in Making : Goto(th, to)
    BY <1>14, <2>1, Names, Connected
  <2>3. pc'[Main] \in {"wait", "delete", "free", "deleted", "return"} => pc[Main] = pc'[Main] /\ th # Main
    BY <1>14, <2>1, <2>2, Names DEF KInv, IInv, Types, Goto, Making
  <2>4. pc'[Main] \notin {"free", "deleted"}
    BY <1>14, <2>1, <2>2, <2>3, Names, Connected DEF KInv, IInv, Alone, Critical, Having
  <2>5. pc'[Main] = "return" => mInstance > 1 /\ mInstance \in Instances /\ inst[mInstance] # "none"
    BY <1>14, <2>1, <2>2, <2>3, <2>4, Names, Connected DEF KInv, AtEnd, Instances
  <2>6. UNCHANGED <<ended, disp, inst, mInstance>>
    BY <1>14, <2>1, <2>2, <2>3, <2>4, <2>5, Names, Connected
  <2> QED
    BY <1>14, <2>1, <2>2, <2>3, <2>4, <2>5, <2>6, Names DEF KInv, AtEnd
<1>15. ASSUME NEW th \in Threads, Finish(th) PROVE AtEnd'
  BY <1>15, Names DEF KInv, Others, AtEnd, Down, IInv, Types, Alone, AtStep, Single, Twice,
     Live, Critical, Making, Having, Finish, Goto
<1>16. ASSUME NEW th \in Threads, Got(th) PROVE AtEnd'
  BY <1>16, Names DEF KInv, Others, AtEnd, Down, IInv, Types, Alone, AtStep, Single, Twice,
     Live, Critical, Making, Having, Got, Goto
<1>17. ASSUME NEW t \in Timers, TimerFire(t) PROVE AtEnd'
  BY <1>17, Names DEF KInv, Others, AtEnd, Down, IInv, Types, Alone, AtStep, Single, Twice,
     Live, Critical, Making, Having, TimerFire, Goto
<1>18. ASSUME NEW t \in Timers, StopTimer(t) PROVE AtEnd'
  <2>1. CASE Crash
    BY <1>18, Names, <2>1, Ended DEF KInv, AtEnd, Crash
  <2> QED
    BY <1>18, <2>1, Names DEF KInv, AtEnd, Down, StopTimer, Goto, IInv, Types
<1>19. ASSUME NEW t \in Timers, ClearTimer(t) PROVE AtEnd'
  <2>1. CASE Crash
    BY <1>19, Names, <2>1, Ended DEF KInv, AtEnd, Crash
  <2> QED
    BY <1>19, <2>1, Names DEF KInv, AtEnd, Down, ClearTimer, Goto, IInv, Types
<1>20. ASSUME NEW t \in Timers, SaveTrip(t) PROVE AtEnd'
  <2>1. CASE Crash
    BY <1>20, Names, <2>1, Ended DEF KInv, AtEnd, Crash
  <2> QED
    BY <1>20, <2>1, Names DEF KInv, AtEnd, Down, SaveTrip, Goto, IInv, Types
<1>21. CASE UNCHANGED vars
  BY <1>21 DEF KInv, Others, AtEnd, Down, IInv, Types, Alone, AtStep, Single, Twice, Live,
     Critical, Making, Having, vars
<1> QED
  BY <1>1, <1>2, <1>3, <1>4, <1>5, <1>6, <1>7, <1>8, <1>9, <1>10, <1>11, <1>12, <1>13,
     <1>14, <1>15, <1>16, <1>17, <1>18, <1>19, <1>20, <1>21, Names DEF Next, main,
     GetInstance, Handle, Callback

\* Without a cause no callback finds mLastGPSTimer NULL, nor does a fix find a
\* pointer it cannot use.
LEMMA InTurnStep == ASSUME KInv, IInv', [Next]_vars PROVE InTurn'
<1> USE DEF sys, life, ipc, work, tim, AtFix
<1>1. CASE InstallHandler
  BY <1>1, Names DEF KInv, Others, Pending, Known, AtEnd, InTurn, Quiet, OneByOne, Calling,
     Making, IInv, Types, InstallHandler, Goto
<1>2. CASE Wait
  BY <1>2, Names DEF KInv, Others, Pending, Known, AtEnd, InTurn, Quiet, OneByOne, Calling,
     Making, IInv, Types, Wait, Goto
<1>3. CASE Return
  BY <1>3, Ended DEF KInv, Others, Pending, Known, AtEnd, InTurn, Quiet, OneByOne, Calling,
     Making, IInv, Types, Return
<1>4. CASE DeleteLock
  BY <1>4, Names DEF KInv, Others, Pending, Known, AtEnd, InTurn, Quiet, OneByOne, Calling,
     Making, IInv, Types, DeleteLock, Goto
<1>5. CASE disconnectSvcipc
  BY <1>5, Disconnected, Names DEF KInv, Others, Pending, Known, AtEnd, InTurn, Quiet,
     OneByOne, Calling, Making, IInv, Types, Goto
<1>6. CASE Free
  <2>1. mInstance \in Instances /\ inst \in [Instances -> {"none", "raw", "ready", "freed"}]
    BY <1>6, Names DEF KInv, IInv, Types, AtStep, Having, Free
  <2>2. inst'[mInstance] = "freed"
    BY <1>6, <2>1 DEF Free
  <2> QED
    BY <2>1, <2>2 DEF InTurn, Quiet
<1>7. CASE Deleted
  BY <1>7, Names DEF KInv, Others, Pending, Known, AtEnd, InTurn, Quiet, OneByOne, Calling,
     Making, IInv, Types, Deleted, Goto
<1>8. ASSUME NEW sig \in {"SIGTERM", "SIGINT"}, sigHandler(sig) PROVE InTurn'
  BY <1>8, Ended DEF KInv, Others, Pending, Known, AtEnd, InTurn, Quiet, OneByOne, Calling,
     Making, IInv, Types, sigHandler
<1>9. CASE Deliver
  <2>1. UNCHANGED <<ended, pc, timer, mLastGPSTimer, inst, revived, overtaken>>
    BY <1>9 DEF Deliver
  <2>2. fixes \in Nat /\ fixes' \in {fixes, fixes + 1} /\ disp'.pc \in {"fix", "request"}
        /\ (disp'.pc = "fix" => fixes' = fixes + 1 /\ fixes' \in Timers)
    BY <1>9, LifecycleAssumption DEF Deliver, KInv, Others, Timers
  <2> QED
    BY <2>1, <2>2, Names DEF KInv, InTurn, Quiet, OneByOne, Timers
<1>10. CASE onGPSDataNDRServiceIPCSignal
  <2> SUFFICES ASSUME Quiet' PROVE ended' # "crash" /\ (ended' = "no" => OneByOne')
    BY DEF InTurn
  <2> DEFINE p == mLastGPSTimer[disp.inst]
  <2>1. /\ disp.inst \in Instances /\ fixes \in Timers /\ inst[disp.inst] # "none"
        /\ disp.pc \in AtFix /\ ended = "no"
    BY <1>10 DEF KInv, Pending, Known, AtEnd, AtFix, onGPSDataNDRServiceIPCSignal, FixTest,
       FixNew, FixStart, FixRestart, FixCrash
  <2>2. inst' = inst /\ (FixNew \/ mLastGPSTimer' = mLastGPSTimer)
        /\ \A i \in Instances : i # disp.inst => mLastGPSTimer'[i] = mLastGPSTimer[i]
    BY <1>10, <2>1 DEF KInv, Others, onGPSDataNDRServiceIPCSignal, FixTest, FixNew, FixStart,
       FixRestart, FixCrash, Crash, End
  <2>3. ~revived /\ ~overtaken
    <3>1. \/ UNCHANGED <<revived, overtaken>>
          \/ revived' = (revived \/ timer[p] = "stopped") /\ overtaken' = overtaken
      BY <1>10 DEF onGPSDataNDRServiceIPCSignal, FixTest, FixNew, FixStart, FixRestart, FixCrash,
         Crash, End
    <3>2. revived \in BOOLEAN /\ overtaken \in BOOLEAN
      BY DEF KInv, Others
    <3> QED BY <3>1, <3>2 DEF Quiet
  <2>4. \A i \in Instances : inst[i] # "freed" /\ (i # disp.inst => mLastGPSTimer[i] # Wild)
    BY <2>2 DEF Quiet
  <2>5. disp.inst = 1
    BY <2>1, <2>4, Names DEF KInv, Known, Instances
  <2>6. Quiet
    <3>1. FixNew => p # Wild
      BY DEF KInv, Known, FixNew
    <3> QED BY <2>1, <2>2, <2>3, <2>4, <3>1 DEF Quiet
  <2>7. OneByOne /\ p \in Timers \cup {NULL}
    BY <2>1, <2>6 DEF KInv, Others, InTurn, Quiet
  <2>8. CASE FixTest
    BY <2>1, <2>5, <2>7, <2>8 DEF FixTest, KInv, Others, Disp, OneByOne, NULL, tim
  <2>9. CASE FixNew
    <3>1. \A t \in Timers : timer[t] \notin {"armed", "firing"} /\ pc[t] # "clear"
      BY <2>7, <2>9 DEF FixNew, OneByOne, NULL, Timers
    <3>2. mLastGPSTimer'[1] = fixes
      BY <2>1, <2>5, <2>9 DEF FixNew, KInv, Others
    <3> QED BY <2>1, <2>7, <2>9, <3>1, <3>2 DEF FixNew, KInv, Others, Disp, OneByOne
  <2>10. CASE FixStart
    <3>1. \A t \in Timers : timer[t] \notin {"armed", "firing"} \/ t = fixes
      BY <2>7, <2>10 DEF FixStart, OneByOne
    <3>2. p = fixes /\ timer[fixes] = "none"
      BY <2>5, <2>7, <2>10 DEF FixStart, OneByOne
    <3>3. \A t \in Timers : timer'[t] = IF t = fixes THEN "armed" ELSE timer[t]
      BY <2>10, <3>2 DEF FixStart, KInv, Others
    <3> QED BY <2>1, <2>5, <2>7, <2>10, <3>1, <3>2, <3>3, Idle DEF FixStart, OneByOne, Timers
  <2>11. CASE FixRestart
    <3>1. timer[p] # "stopped"
      BY <2>11 DEF FixRestart, Quiet
    <3>2. timer' = timer
      BY <2>11, <3>1 DEF FixRestart, KInv, Others
    <3> QED BY <2>1, <2>7, <2>11, <3>2, Idle DEF FixRestart, OneByOne
  <2>12. ~FixCrash
    BY <2>1, <2>4, <2>5, <2>7 DEF FixCrash, OneByOne
  <2> QED
    BY <1>10, <2>8, <2>9, <2>10, <2>11, <2>12 DEF onGPSDataNDRServiceIPCSignal
<1>11. CASE onSvcipcRequestCallback
  BY <1>11, Names DEF KInv, Others, Pending, Known, AtEnd, InTurn, Quiet, OneByOne, Calling,
     Making, IInv, Types, onSvcipcRequestCallback, DispIdle
<1>12. ASSUME NEW th \in Threads, Lock(th) PROVE InTurn'
  BY <1>12, Names DEF KInv, Others, Pending, Known, AtEnd, InTurn, Quiet, OneByOne, Calling,
     Making, IInv, Types, Lock, Goto
<1>13. ASSUME NEW th \in Threads, New(th) PROVE InTurn'
  <2> SUFFICES ASSUME Quiet' PROVE InTurn'
    BY DEF InTurn
  <2>1. PICK i \in Instances, p \in HeapPtrs :
          /\ \A j \in Instances : inst[j] = "none" <=> j >= i
          /\ inst' = [inst EXCEPT ![i] = "raw"]
          /\ mLastGPSTimer' = [mLastGPSTimer EXCEPT ![i] = p]
    BY <1>13 DEF New
  <2>2. mLastGPSTimer[i] = NULL
    BY <2>1, Names DEF KInv, Known
  <2>3. mLastGPSTimer' = mLastGPSTimer
    BY <2>1, <2>2, LifecycleAssumption DEF KInv, Others, Quiet
  <2>4. \A j \in Instances : inst[j] # "freed"
    <3>1. inst[i] = "none"
      BY <2>1, Names
    <3> QED BY <2>1, <3>1 DEF KInv, IInv, Types, Quiet
  <2>5. Quiet
    BY <2>3, <2>4, <1>13 DEF Quiet, New
  <2>6. \A t \in Timers : pc'[t] \in Calling <=> pc[t] \in Calling
    BY <1>13, Names DEF KInv, IInv, Types, New, Goto, Calling, Making
  <2>7. \A t \in Timers, s \in {"clear", "save"} : pc'[t] = s <=> pc[t] = s
    BY <1>13, Names DEF KInv, IInv, Types, New, Goto
  <2> QED
    BY <1>13, <2>3, <2>5, <2>6, <2>7 DEF KInv, InTurn, OneByOne, New
<1>14. ASSUME NEW th \in Threads, connectSvcIpc(th) PROVE InTurn'
  BY <1>14, Connected, Names DEF KInv, Others, Pending, Known, AtEnd, InTurn, Quiet,
     OneByOne, Calling, Making, IInv, Types, Goto
<1>15. ASSUME NEW th \in Threads, Finish(th) PROVE InTurn'
  <2> SUFFICES ASSUME Quiet' PROVE InTurn'
    BY DEF InTurn
  <2>1. pc[th] = "thread" => mInstance \in Instances /\ inst[mInstance] = "raw"
    BY DEF KInv, IInv, Types, AtStep, Making
  <2>2. \A i \in Instances : inst[i] # "freed"
    BY <1>15, <2>1 DEF KInv, IInv, Types, Quiet, Finish
  <2>3. Quiet
    BY <1>15, <2>2 DEF Quiet, Finish
  <2>4. \A t \in Timers : pc'[t] \in Calling <=> pc[t] \in Calling
    BY <1>15, Names DEF KInv, IInv, Types, Finish, Goto, Calling, Making
  <2>5. \A t \in Timers, s \in {"clear", "save"} : pc'[t] = s <=> pc[t] = s
    BY <1>15, Names DEF KInv, IInv, Types, Finish, Goto
  <2> QED
    BY <1>15, <2>3, <2>4, <2>5 DEF KInv, InTurn, OneByOne, Finish
<1>16. ASSUME NEW th \in Threads, Got(th) PROVE InTurn'
  BY <1>16, Names DEF KInv, Others, Pending, Known, AtEnd, InTurn, Quiet, OneByOne, Calling,
     Making, IInv, Types, Got, Goto
<1>17. ASSUME NEW t \in Timers, TimerFire(t) PROVE InTurn'
  BY <1>17, Names DEF KInv, Others, Pending, Known, AtEnd, InTurn, Quiet, OneByOne, Calling,
     Making, IInv, Types, TimerFire, Goto
<1>18. ASSUME NEW t \in Timers, StopTimer(t) PROVE InTurn'
  <2> SUFFICES ASSUME Quiet' PROVE InTurn'
    BY DEF InTurn
  <2>1. Quiet
    BY <1>18 DEF StopTimer, Crash, End, Quiet
  <2>2. pc[t] = "use" /\ ended = "no" /\ got[t] \in Instances /\ inst[got[t]] # "none"
    BY <1>18, Names DEF KInv, AtEnd, Known, StopTimer
  <2>3. got[t] = 1 /\ inst[1] # "freed"
    BY <2>1, <2>2, Names DEF KInv, Known, Quiet, Instances
  <2>4. OneByOne
    BY <2>1, <2>2 DEF KInv, InTurn
  <2>5. timer[t] = "firing" /\ mLastGPSTimer[1] = t
    BY <2>2, <2>4 DEF OneByOne, Calling
  <2>6. /\ timer' = [timer EXCEPT ![t] = "stopped"] /\ pc' = [pc EXCEPT ![t] = "clear"]
        /\ UNCHANGED <<sys, mLastGPSTimer, disp, fixes>>
    BY <1>18, <2>3, <2>5 DEF StopTimer, Goto, NULL, Timers
  <2>7. OneByOne'
    BY <2>2, <2>4, <2>5, <2>6, Names DEF KInv, Others, IInv, Types, OneByOne, Calling,
       Making
  <2> QED
    BY <2>1, <2>2, <2>6, <2>7 DEF InTurn
<1>19. ASSUME NEW t \in Timers, ClearTimer(t) PROVE InTurn'
  <2> SUFFICES ASSUME Quiet' PROVE InTurn'
    BY DEF InTurn
  <2>1. /\ pc[t] = "clear" /\ ended = "no" /\ got[t] \in Instances /\ inst[got[t]] # "none"
        /\ mLastGPSTimer[got[t]] # Wild
    BY <1>19, Names DEF KInv, AtEnd, Known, ClearTimer
  <2>2. \A i \in Instances : inst[i] # "freed" /\ (i # got[t] => mLastGPSTimer[i] # Wild)
    BY <1>19 DEF KInv, Others, ClearTimer, Crash, End, Quiet
  <2>3. Quiet
    <3>1. \/ UNCHANGED <<revived, overtaken>>
          \/ /\ revived' = revived
             /\ overtaken' = (\/ overtaken
                              \/ disp.pc \in {"start", "restart"} /\ disp.inst = got[t])
      BY <1>19 DEF ClearTimer, Crash, End
    <3>2. revived \in BOOLEAN /\ overtaken \in BOOLEAN
      BY DEF KInv, Others
    <3>3. ~revived /\ ~overtaken
      BY <3>1, <3>2 DEF Quiet
    <3> QED BY <2>1, <2>2, <3>3 DEF Quiet
  <2>4. got[t] = 1 /\ OneByOne
    BY <2>1, <2>2, <2>3, Names DEF KInv, Known, InTurn, Instances
  <2>5. /\ mLastGPSTimer' = [mLastGPSTimer EXCEPT ![1] = NULL] /\ pc' = [pc EXCEPT ![t] = "save"]
        /\ UNCHANGED <<sys, timer, disp, fixes>>
        /\ ~(disp.pc \in {"start", "restart"} /\ disp.inst = 1)
    BY <1>19, <2>1, <2>2, <2>4 DEF ClearTimer, Goto, Quiet
  <2>6. disp.pc \in AtFix => disp.inst = 1
    BY <2>2, Names DEF KInv, Pending, Known, Instances
  <2>7. OneByOne'
    BY <2>1, <2>4, <2>5, <2>6, Names DEF KInv, Others, IInv, Types, OneByOne, Calling, Making, AtFix
  <2> QED
    BY <2>1, <2>5, <2>7 DEF InTurn
<1>20. ASSUME NEW t \in Timers, SaveTrip(t) PROVE InTurn'
  BY <1>20, Names DEF KInv, Others, Pending, Known, AtEnd, InTurn, Quiet, OneByOne, Calling,
     Making, IInv, Types, SaveTrip, Goto, Crash, End
<1>21. CASE UNCHANGED vars
  BY <1>21 DEF KInv, Others, Pending, Known, AtEnd, InTurn, Quiet, OneByOne, Calling,
     Making, IInv, Types, vars
<1> QED
  BY <1>1, <1>2, <1>3, <1>4, <1>5, <1>6, <1>7, <1>8, <1>9, <1>10, <1>11, <1>12, <1>13,
     <1>14, <1>15, <1>16, <1>17, <1>18, <1>19, <1>20, <1>21, Names DEF Next, main,
     GetInstance, Handle, Callback

LEMMA InitKInv == Init => KInv
<1> SUFFICES ASSUME Init PROVE KInv
  OBVIOUS
<1>1. Present /\ Others /\ Pending
  <2>1. lib \in Lib /\ disp \in Disp /\ disp.pc = "idle"
    <3>1. PICK d \in BOOLEAN :
            lib = [up |-> FALSE, open |-> {}, reg |-> NULL, sub |-> {}, drains |-> d]
      BY DEF Init
    <3>2. lib \in Lib
      BY <3>1 DEF Lib
    <3> QED BY <3>2, Idle DEF Init
  <2>2. mLastGPSTimer \in [Instances -> Timers \cup {NULL, Wild}]
    BY DEF Init
  <2>3. got \in [Threads -> Instances \cup {NULL}]
    BY DEF Init
  <2>4. 0 \in 0 .. MaxFix /\ 0 \in 0 .. MaxReq /\ 0 \in 0 .. 0
    BY LifecycleAssumption
  <2>5. Present /\ Pending
    BY <2>1 DEF Init, Present, Pending, AtFix
  <2>6. timer \in [Timers -> {"none", "armed", "firing", "stopped", "done"}]
    BY DEF Init
  <2> QED BY <2>1, <2>2, <2>3, <2>4, <2>5, <2>6 DEF Init, Others
<1>2. Known
  BY Names DEF Init, Known, DispIdle, AtFix
<1>3. AtEnd
  BY Names DEF Init, AtEnd
<1>4. OneByOne
  BY Names DEF Init, OneByOne, DispIdle, Calling, Making
<1>5. InTurn
  BY <1>4 DEF Init, InTurn
<1> QED BY <1>1, <1>2, <1>3, <1>5, InitIInv DEF KInv

LEMMA KInvariance == Spec => []KInv
<1>1. KInv /\ IInv' /\ [Next]_vars => KInv'
  BY PresentStep, TypedStep, KnownStep, AtEndStep, InTurnStep DEF KInv
<1> QED BY <1>1, InitKInv, Invariance, PTL DEF Spec

\* Every thread is at one of its steps, every pointer is one GetInstance or a fix
\* has set, and mInstance never dangles.
THEOREM LifecycleTypes == Spec => []TypeOK
<1>1. KInv => TypeOK
  BY DEF KInv, IInv, Types, Present, Others, Lib, Disp, TypeOK
<1> QED BY <1>1, KInvariance, PTL

\* At the end of main svcipc is shut down, for any number of failed calls, unless
\* a timer's callback has created the instance again.
THEOREM LibraryDown == Spec => []LibraryDownAtExit
<1>1. KInv => LibraryDownAtExit
  BY DEF KInv, AtEnd, Down, LibraryDownAtExit
<1> QED BY <1>1, KInvariance, PTL

\* A crash has one of the four causes: as long as there is none, the one armed timer
\* is the one mLastGPSTimer points to, for the callback and for the handler.
THEOREM CrashesHaveCauses == Spec => []CrashCauses
<1>1. KInv => CrashCauses
  BY DEF KInv, InTurn, Quiet, CrashCauses
<1> QED BY <1>1, KInvariance, PTL
=============================================================================
