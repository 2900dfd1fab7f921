------------------------------ MODULE Lifecycle ------------------------------
(***************************************************************************)
(* The process from main to its end: the singleton behind GetInstance and   *)
(* DeleteInstance, the connection to svcipc, the exit signal, and the       *)
(* threads that work on the instance: the svcipc dispatch thread with its   *)
(* fixes and requests, the calculation thread, and the Poco timers, whose   *)
(* lastGPSCallback calls GetInstance, also when main has already called     *)
(* DeleteInstance.  What a trip is, and each single access to it, is in     *)
(* TripRecorder; here a fix and a callback are as long as they use the      *)
(* instance and its timer.                                                  *)
(***************************************************************************)
EXTENDS Integers

CONSTANTS MaxFix,   \* bound: fixes delivered
          MaxReq,   \* bound: requests delivered
          MaxFail,  \* bound: svcipc calls that fail
          HeapPtrs  \* values an uninitialized Timer* may hold

NULL == 0      \* the null pointer
Wild == -1     \* any other pointer that points to nothing

ASSUME LifecycleAssumption ==
  /\ MaxFix \in Nat /\ MaxReq \in Nat /\ MaxFail \in Nat
  /\ HeapPtrs \subseteq {NULL, Wild}

Timers    == 1 .. MaxFix          \* named by the fix that created it
Main      == 0
Threads   == {Main} \cup Timers   \* the threads that call GetInstance
None      == -1
Instances == 1 .. MaxFix + 1      \* numbered as they are created
Methods   == {"gaugeDestinationAndArriveTime", "predictDestinationAtStart", "other"}

VARIABLES
  ended,         \* "no", "killed", "exit" or "crash"
  caught,        \* the signals whose handler is installed
  terminated,
  gExitService,  \* is the event set?
  pc,            \* where each thread is
  got,           \* the pointer GetInstance returned to it
  mGaugeMutex,   \* the thread that holds it
  mInstance,
  inst,          \* per instance, "none", "raw", "ready" or "freed"
  mLastGPSTimer, \* per instance
  calc,          \* the instances with a calculation thread
  timer,         \* per timer: "none", "armed", "firing", "stopped" or "done"
  lib,           \* svcipc: up; connections open; instance registered, or
                 \* NULL; instances subscribed; drains: does shutdown wait
                 \* for a callback under way? (no comment says)
  disp,          \* the dispatch thread: callback, its instance, the method
  fixes, reqs, answers, fails,
  revived,       \* history: was a timer that its callback stopped told to go on?
  overtaken      \* history: was mLastGPSTimer reset after the handler's test of it?

sys  == <<ended, caught, terminated, gExitService>>
life == <<mGaugeMutex, mInstance, inst, calc>>
ipc  == <<lib, fails>>
work == <<disp, fixes, reqs, answers>>
tim  == <<timer, mLastGPSTimer, revived, overtaken>>
vars == <<sys, pc, got, life, ipc, work, tim>>

DispIdle == [pc |-> "idle", inst |-> NULL, method |-> "other"]

Init ==
  /\ ended = "no" /\ caught = {} /\ terminated = FALSE /\ gExitService = FALSE
  /\ pc = [th \in Threads |-> IF th = Main THEN "start" ELSE "off"]
  /\ got = [th \in Threads |-> NULL]
  /\ mGaugeMutex = None /\ mInstance = NULL
  /\ inst = [i \in Instances |-> "none"]
  /\ mLastGPSTimer = [i \in Instances |-> NULL]
  /\ calc = {}
  /\ timer = [t \in Timers |-> "none"]
  /\ lib \in {[up |-> FALSE, open |-> {}, reg |-> NULL, sub |-> {}, drains |-> d] :
                d \in BOOLEAN}
  /\ disp = DispIdle
  /\ fixes = 0 /\ reqs = 0 /\ answers = 0 /\ fails = 0
  /\ revived = FALSE /\ overtaken = FALSE

Goto(th, to) == pc' = [pc EXCEPT ![th] = to]

\* The process ends, and every thread with it where it is.
End(how) ==
  /\ ended' = how
  /\ pc' = [th \in Threads |-> "gone"]
  /\ disp' = [disp EXCEPT !.pc = "gone"]
  /\ UNCHANGED <<caught, terminated, gExitService, got, life, ipc, fixes, reqs, answers, tim>>

\* A read or write through a dangling or wild pointer.
Crash == End("crash")

-----------------------------------------------------------------------------
(* main and the signals.                                                   *)

\* The two calls of signal().
InstallHandler ==
  /\ pc[Main] \in {"start", "term"}
  /\ caught' = caught \cup {IF pc[Main] = "start" THEN "SIGTERM" ELSE "SIGINT"}
  /\ Goto(Main, IF pc[Main] = "start" THEN "term" ELSE "lock")
  /\ UNCHANGED <<ended, terminated, gExitService, got, life, ipc, work, tim>>

\* A signal from outside: sigHandler, or the end while none is installed.
sigHandler(sig) ==
  /\ ended = "no"
  /\ \/ /\ sig \in caught
        /\ terminated' = TRUE /\ gExitService' = TRUE
        /\ UNCHANGED <<ended, caught, pc, got, life, ipc, work, tim>>
     \/ sig \notin caught /\ End("killed")

\* gExitService.wait(): an event set before is kept, and reset by the wait.
Wait ==
  /\ pc[Main] = "wait"
  /\ gExitService
  /\ gExitService' = FALSE
  /\ Goto(Main, "delete")
  /\ UNCHANGED <<ended, caught, terminated, got, life, ipc, work, tim>>

Return == pc[Main] = "return" /\ End("exit")

-----------------------------------------------------------------------------
(* GetInstance, by main or by a timer's thread.                             *)

\* Mutant: no ScopedLock.
LockNothing(th) ==
  /\ pc[th] = "lock"
  /\ mGaugeMutex' = th
  /\ Goto(th, IF mInstance = NULL THEN "new" ELSE "got")
  /\ UNCHANGED <<sys, got, mInstance, inst, calc, ipc, work, tim>>

Lock(th) ==
  /\ pc[th] = "lock"
  /\ mGaugeMutex = None
  /\ mGaugeMutex' = th
  /\ Goto(th, IF mInstance = NULL THEN "new" ELSE "got")
  /\ UNCHANGED <<sys, got, mInstance, inst, calc, ipc, work, tim>>

\* new GaugeArrival: the empty constructor leaves mLastGPSTimer as it finds it.
New(th) ==
  /\ pc[th] = "new"
  /\ \E i \in Instances, p \in HeapPtrs :
       /\ \A j \in Instances : inst[j] = "none" <=> j >= i
       /\ inst' = [inst EXCEPT ![i] = "raw"]
       /\ mInstance' = i
       /\ mLastGPSTimer' = [mLastGPSTimer EXCEPT ![i] = p]
  /\ Goto(th, "initialize")
  /\ UNCHANGED <<sys, got, mGaugeMutex, calc, ipc, work, timer, revived, overtaken>>

\* A call of the library that works as said, or fails and changes nothing;
\* failures are printed and otherwise ignored.
Call(works, done) ==
  \/ works /\ lib' = done /\ UNCHANGED fails
  \/ /\ works => fails < MaxFail
     /\ fails' = IF works THEN fails + 1 ELSE fails
     /\ UNCHANGED lib

\* The library is initialized once more, then the fixes are subscribed to.
subscribeServiceIPCSignal(th) ==
  /\ \/ /\ pc[th] = "initialize2"
        /\ Call(TRUE, [lib EXCEPT !.up = TRUE])
        /\ Goto(th, "subscribe")
     \/ /\ pc[th] = "subscribe"
        /\ Call(mInstance \in lib.open, [lib EXCEPT !.sub = @ \cup {mInstance}])
        /\ Goto(th, "load")
  /\ UNCHANGED <<sys, got, life, work, tim>>

\* A call of the library a step.
connectSvcIpc(th) ==
  \/ /\ \/ /\ pc[th] = "initialize"
           /\ Call(TRUE, [lib EXCEPT !.up = TRUE])
           /\ Goto(th, "connection")
        \/ /\ pc[th] = "connection"
           /\ Call(lib.up, [lib EXCEPT !.open = @ \cup {mInstance}])
           /\ Goto(th, "register")
        \/ /\ pc[th] = "register"
           /\ Call(mInstance \in lib.open, [lib EXCEPT !.reg = mInstance])
           /\ Goto(th, "initialize2")
     /\ UNCHANGED <<sys, got, life, work, tim>>
  \/ subscribeServiceIPCSignal(th)

\* loadDriverBehavior, mThreadRun, and createCalcThread, which may fail.
Finish(th) ==
  /\ \/ /\ pc[th] = "load"
        /\ Goto(th, "thread")
        /\ UNCHANGED <<calc, inst, fails>>
     \/ /\ pc[th] = "thread"
        /\ \/ calc' = calc \cup {mInstance} /\ UNCHANGED fails
           \/ fails < MaxFail /\ fails' = fails + 1 /\ UNCHANGED calc
        /\ inst' = [inst EXCEPT ![mInstance] = "ready"]
        /\ Goto(th, "got")
  /\ UNCHANGED <<sys, got, mGaugeMutex, mInstance, lib, work, tim>>

\* GetInstance returns.
Got(th) ==
  /\ pc[th] = "got"
  /\ got' = [got EXCEPT ![th] = mInstance]
  /\ mGaugeMutex' = None
  /\ Goto(th, IF th = Main THEN "wait" ELSE "use")
  /\ UNCHANGED <<sys, mInstance, inst, calc, ipc, work, tim>>

GetInstance(th) == Lock(th) \/ New(th) \/ connectSvcIpc(th) \/ Finish(th) \/ Got(th)

-----------------------------------------------------------------------------
(* DeleteInstance, by main.                                                *)

DeleteLock ==
  /\ pc[Main] = "delete"
  /\ mGaugeMutex = None
  /\ mGaugeMutex' = Main
  /\ Goto(Main, IF mInstance = NULL THEN "deleted" ELSE "unregister")
  /\ UNCHANGED <<sys, got, mInstance, inst, calc, ipc, work, tim>>

\* Mutant: the library is not shut down.
NoShutdown ==
  /\ \/ /\ pc[Main] = "unregister"
        /\ lib' = [lib EXCEPT !.reg = NULL]
        /\ Goto(Main, "close")
     \/ /\ pc[Main] = "close"
        /\ lib' = [lib EXCEPT !.open = @ \ {mInstance}]
        /\ Goto(Main, "free")
  /\ UNCHANGED <<sys, got, life, fails, work, tim>>

\* disconnectSvcipc: nothing unsubscribes mSubHnd, so fixes may come in until
\* SVCIPC_shutdown frees what the library has.
disconnectSvcipc ==
  /\ \/ /\ pc[Main] = "unregister"
        /\ Call(lib.reg = mInstance, [lib EXCEPT !.reg = NULL])
        /\ Goto(Main, "close")
     \/ /\ pc[Main] = "close"
        /\ Call(mInstance \in lib.open, [lib EXCEPT !.open = @ \ {mInstance}])
        /\ Goto(Main, "shutdown")
     \/ /\ pc[Main] = "shutdown"
        /\ lib.drains => disp.pc = "idle"
        /\ lib' = [lib EXCEPT !.up = FALSE, !.open = {}, !.reg = NULL, !.sub = {}]
        /\ Goto(Main, "free")
        /\ UNCHANGED fails
  /\ UNCHANGED <<sys, got, life, work, tim>>

\* Mutant: mInstance is not reset.
FreeOnly ==
  /\ pc[Main] = "free"
  /\ inst' = [inst EXCEPT ![mInstance] = "freed"]
  /\ Goto(Main, "deleted")
  /\ UNCHANGED <<sys, got, mGaugeMutex, mInstance, calc, ipc, work, tim>>

\* deinitialize is empty; delete, and no thread of the instance is ended.
Free ==
  /\ pc[Main] = "free"
  /\ inst' = [inst EXCEPT ![mInstance] = "freed"]
  /\ mInstance' = NULL
  /\ Goto(Main, "deleted")
  /\ UNCHANGED <<sys, got, mGaugeMutex, calc, ipc, work, tim>>

Deleted ==
  /\ pc[Main] = "deleted"
  /\ mGaugeMutex' = None
  /\ Goto(Main, "return")
  /\ UNCHANGED <<sys, got, mInstance, inst, calc, ipc, work, tim>>

main == \/ InstallHandler \/ GetInstance(Main) \/ Wait \/ DeleteLock \/ disconnectSvcipc
        \/ Free \/ Deleted \/ Return

-----------------------------------------------------------------------------
(* The dispatch thread.                                                    *)

\* A fix or a request for an instance the library has as token.
Deliver ==
  /\ disp.pc = "idle"
  /\ \/ /\ fixes < MaxFix
        /\ fixes' = fixes + 1
        /\ \E i \in lib.sub : disp' = [pc |-> "fix", inst |-> i, method |-> "other"]
        /\ UNCHANGED reqs
     \/ /\ reqs < MaxReq /\ lib.reg # NULL
        /\ reqs' = reqs + 1
        /\ \E m \in Methods : disp' = [pc |-> "request", inst |-> lib.reg, method |-> m]
        /\ UNCHANGED fixes
  /\ UNCHANGED <<sys, pc, got, life, ipc, answers, tim>>

\* Mutant: the instance is asked for instead of taken from the token.
FixByGetInstance ==
  /\ disp.pc = "fix"
  /\ mGaugeMutex = None
  /\ disp' = DispIdle
  /\ UNCHANGED <<sys, pc, got, life, ipc, fixes, reqs, answers, tim>>

\* Mutant: no null test.
FixTestNothing ==
  /\ disp.pc = "fix"
  /\ disp' = [disp EXCEPT !.pc = "restart"]
  /\ UNCHANGED <<sys, pc, got, life, ipc, fixes, reqs, answers, tim>>

\* onGPSDataNDRServiceIPCSignal as far as the timer goes: the null test ...
FixTest ==
  /\ disp.pc = "fix"
  /\ disp' = [disp EXCEPT !.pc = IF mLastGPSTimer[disp.inst] = NULL THEN "new" ELSE "restart"]
  /\ UNCHANGED <<sys, pc, got, life, ipc, fixes, reqs, answers, tim>>

\* ... then a timer is created ...
FixNew ==
  /\ disp.pc = "new"
  /\ mLastGPSTimer' = [mLastGPSTimer EXCEPT ![disp.inst] = fixes]
  /\ disp' = [disp EXCEPT !.pc = "start"]
  /\ UNCHANGED <<sys, pc, got, life, ipc, fixes, reqs, answers, timer, revived, overtaken>>

\* ... and, the pointer read again, started; ...
FixStart ==
  /\ disp.pc = "start"
  /\ mLastGPSTimer[disp.inst] \in Timers
  /\ timer' = [timer EXCEPT ![mLastGPSTimer[disp.inst]] = "armed"]
  /\ disp' = DispIdle
  /\ UNCHANGED <<sys, pc, got, life, ipc, fixes, reqs, answers, mLastGPSTimer, revived,
                 overtaken>>

\* ... or the one there is, the pointer read again, is pushed back.
FixRestart ==
  /\ disp.pc = "restart"
  /\ LET p == mLastGPSTimer[disp.inst]
     IN  /\ p \in Timers
         /\ timer' = [timer EXCEPT ![p] = IF @ = "stopped" THEN "firing" ELSE @]
         /\ revived' = (revived \/ timer[p] = "stopped")
  /\ disp' = DispIdle
  /\ UNCHANGED <<sys, pc, got, life, ipc, fixes, reqs, answers, mLastGPSTimer, overtaken>>

\* The pointer is followed wherever it points, and on freed memory anything may
\* come of every step.
FixCrash ==
  /\ \/ disp.pc \in {"start", "restart"} /\ mLastGPSTimer[disp.inst] \notin Timers
     \/ disp.pc \in {"fix", "new", "start", "restart"} /\ inst[disp.inst] = "freed"
  /\ Crash

onGPSDataNDRServiceIPCSignal == FixTest \/ FixNew \/ FixStart \/ FixRestart \/ FixCrash

\* Only one method is answered; for the other one an empty function is called.
onSvcipcRequestCallback ==
  /\ disp.pc = "request"
  /\ answers' = IF disp.method = "predictDestinationAtStart" THEN answers + 1 ELSE answers
  /\ disp' = DispIdle
  /\ UNCHANGED <<sys, pc, got, life, ipc, fixes, reqs, tim>>

Handle == onGPSDataNDRServiceIPCSignal \/ onSvcipcRequestCallback

-----------------------------------------------------------------------------
(* The timers.                                                             *)

\* lastGPSCallback begins with GetInstance.
TimerFire(t) ==
  /\ timer[t] = "armed" /\ pc[t] = "off"
  /\ timer' = [timer EXCEPT ![t] = "firing"]
  /\ Goto(t, "lock")
  /\ UNCHANGED <<sys, got, life, ipc, work, mLastGPSTimer, revived, overtaken>>

\* mLastGPSTimer->restart(0).  Freed memory may still hold what it held, or not.
StopTimer(t) ==
  /\ pc[t] = "use"
  /\ LET p == IF got[t] = NULL THEN NULL ELSE mLastGPSTimer[got[t]]
     IN  \/ /\ p \in Timers
            /\ timer' = [timer EXCEPT ![p] = CASE @ = "firing" -> "stopped"
                                               [] @ = "armed"  -> "done"
                                               [] OTHER        -> @]
            /\ Goto(t, "clear")
            /\ UNCHANGED <<sys, got, life, ipc, work, mLastGPSTimer, revived, overtaken>>
         \/ p \notin Timers /\ Crash
         \/ p \in Timers /\ inst[got[t]] = "freed" /\ Crash

\* mLastGPSTimer = NULL, when a fix may have told the timer to go on, or be about
\* to.
ClearTimer(t) ==
  /\ pc[t] = "clear"
  /\ \/ /\ mLastGPSTimer' = [mLastGPSTimer EXCEPT ![got[t]] = NULL]
        /\ overtaken' = (\/ overtaken
                         \/ disp.pc \in {"start", "restart"} /\ disp.inst = got[t])
        /\ Goto(t, "save")
        /\ UNCHANGED <<sys, got, life, ipc, work, timer, revived>>
     \/ inst[got[t]] = "freed" /\ Crash

\* The rest of the callback, up to saveDriverBehavior; a timer that was not
\* told to end calls again.
SaveTrip(t) ==
  /\ pc[t] = "save"
  /\ \/ /\ timer' = [timer EXCEPT ![t] = IF @ = "stopped" THEN "done" ELSE "armed"]
        /\ Goto(t, "off")
        /\ UNCHANGED <<sys, got, life, ipc, work, mLastGPSTimer, revived, overtaken>>
     \/ inst[got[t]] = "freed" /\ Crash

Callback(t) == GetInstance(t) \/ StopTimer(t) \/ ClearTimer(t) \/ SaveTrip(t)

-----------------------------------------------------------------------------
Next == \/ main
        \/ \E sig \in {"SIGTERM", "SIGINT"} : sigHandler(sig)
        \/ Deliver \/ Handle
        \/ \E t \in Timers : TimerFire(t) \/ Callback(t)

Spec == Init /\ [][Next]_vars

\* Threads that can run do run; signals, fixes, requests and the timers' ends are
\* up to the environment.
FairSpec == /\ Spec
            /\ WF_vars(main)
            /\ WF_vars(Handle)
            /\ \A t \in Timers : WF_vars(Callback(t))
-----------------------------------------------------------------------------
(* Properties.                                                             *)

Step == {"start", "term", "off", "lock", "new", "initialize", "connection", "register",
         "initialize2", "subscribe", "load", "thread", "got", "wait", "delete",
         "unregister", "close", "shutdown", "free", "deleted", "return", "use",
         "clear", "save", "gone"}

\* Every thread is at one of its steps, and mInstance never dangles.
TypeOK ==
  /\ ended \in {"no", "killed", "exit", "crash"}
  /\ caught \subseteq {"SIGTERM", "SIGINT"}
  /\ terminated \in BOOLEAN /\ gExitService \in BOOLEAN
  /\ pc \in [Threads -> Step]
  /\ got \in [Threads -> Instances \cup {NULL}]
  /\ mGaugeMutex \in Threads \cup {None}
  /\ mInstance \in Instances \cup {NULL}
  /\ inst \in [Instances -> {"none", "raw", "ready", "freed"}]
  /\ mInstance # NULL => inst[mInstance] \in {"raw", "ready"}
  /\ mLastGPSTimer \in [Instances -> Timers \cup {NULL, Wild}]
  /\ calc \subseteq Instances
  /\ timer \in [Timers -> {"none", "armed", "firing", "stopped", "done"}]
  /\ lib \in [up : BOOLEAN, open : SUBSET Instances, reg : Instances \cup {NULL},
              sub : SUBSET Instances, drains : BOOLEAN]
  /\ disp \in [pc : {"idle", "fix", "new", "start", "restart", "request", "gone"},
               inst : Instances \cup {NULL}, method : Methods]
  /\ fixes \in 0 .. MaxFix /\ reqs \in 0 .. MaxReq
  /\ answers \in 0 .. reqs /\ fails \in Nat /\ revived \in BOOLEAN /\ overtaken \in BOOLEAN

Live == {i \in Instances : inst[i] \in {"raw", "ready"}}

\* Never two instances at a time, and after main's DeleteInstance one more at
\* most, however many timers call GetInstance then.
OneInstance ==
  /\ \A i, j \in Live : i = j
  /\ \A i \in Instances : i > 2 => inst[i] = "none"

\* SVCIPC_initialize and SVCIPC_shutdown, which are not thread-safe, are never
\* called by two threads at a time ("ThreadSafe: No").
LibraryCallsApart ==
  \A s, u \in Threads :
    /\ pc[s] \in {"initialize", "initialize2", "shutdown"}
    /\ pc[u] \in {"initialize", "initialize2", "shutdown"}
    => s = u

\* GetInstance hands out an instance that is there and whose initialize is over,
\* although mInstance is set before initialize and callbacks come in during it.
HandsOutReady ==
  [][\A th \in Threads : got'[th] # got[th] => got'[th] = mInstance /\ inst[mInstance] = "ready"]_vars

\* The library is shut down when the process exits, unless a timer's callback has
\* created the instance again.
LibraryDownAtExit ==
  ended = "exit" /\ (\A i \in Instances : i > 1 => inst[i] = "none") =>
    ~lib.up /\ lib.reg = NULL /\ lib.sub = {}

\* What a crash takes: what the heap left in mLastGPSTimer; a thread that is late
\* for DeleteInstance; a fix that comes between a callback's restart(0) and its reset
\* of mLastGPSTimer, so that the timer calls back once more; or that reset between the
\* handler's test of mLastGPSTimer and its use of it.
CrashCauses ==
  ended = "crash" =>
    \/ \E i \in Instances : mLastGPSTimer[i] = Wild \/ inst[i] = "freed"
    \/ revived \/ overtaken

\* Once a signal is handled the process ends, even if it came before main waits
\* for it, while a timer's thread is in GetInstance, or a fix is handled.
SignalEndsProcess == terminated ~> ended # "no"
=============================================================================
