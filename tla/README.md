# GaugeArrival in TLA+

GaugeArrival is a head-unit service that learns where a driver goes. It listens
to GPS fixes on an IPC bus, cuts them into trips, stores each trip as a pair of
position codes with dates and times in two files, and counts trips by weekday,
hour, day of the month and day of the year so that a destination can be
predicted. It also keeps a history of GPS traces. This directory holds a TLA+
model of it, the configurations that check the model with TLC, and proofs that
TLAPS checks.

## 1. The system

All of the program is `src/GaugeArrival.cpp` and `.hpp`, with `Utils`,
`JsonHandler` and `main`: some 1,900 lines. Everything below `src/include` and
`src/lib` is third-party. Poco (Timer, Event, Mutex), pthread, svcipc, jsoncpp
and the C library are linked to, and are modelled from how the program uses them.

| component | state | operations | interacts through |
|---|---|---|---|
| Trip recording | `mCurGPS`, `mFirstGPS`, `mLastGPS`, `mGetFirstGPSSig`, `mLastGPSTimer`, `mCurLat/Lon`, `mBehavGpsVec`, `mInitPosVecSize`, two files | `onGPSDataNDRServiceIPCSignal`, `lastGPSCallback`, `loadDriverBehavior`, `saveDriverBehavior` | signals on the IPC dispatch thread, callbacks on one thread per Poco timer, the members above (the handler holds `mGetDataMutex`, the callback does not) |
| Position table | `mGpsPosVec` | search, add, `getLatLonByCode` | both threads, the loader, the prediction |
| GPS sample feed | `mGpsInfo`, `mGpsInfoVec`, `mGPSDataEvt`, `mGetDataMutex` | the handler's first half, `calcArrival` | mutex and auto-reset event between dispatch and calculation thread |
| Prediction drawers | `mBehavWeek`, `mBehavHour`, `mBehavDatePerMon`, `mBehavDatePerYear` | `putInDrawer` | called by load and save with an index from Utils |
| Destination prediction | `mGpsRetLst`, `mStCntMap`, `mStartLat/Lon` | `predictDestinationAtStart`, `getDestAndRate`, `getDestRateFromDraw`, `getArriveTime`, `printResult` | a request on the dispatch thread reads what the timer's thread saves |
| Calendar arithmetic | none | `CaculateWeekDay`, `getIdxOfDate`, `getDateByDiffDay`, the packing macros | called by load, save and prediction |
| GPS trace history | `mGpsData`, `mCurRow/Col/Idx`, `mNewTrack`, 10 x 10 files | `loadGPSTrace`, `getGPSTraceRow`, `compareTrace`, `saveGPSTrace` | the handler, calcArrival and the timer's thread share the indices |
| Lifecycle | `mInstance`, `gExitService`, `gTerminated`, threads | `main`, `sigHandler`, `GetInstance`, `DeleteInstance`, `initialize`, `deinitialize` | singleton under a recursive mutex, exit event |
| IPC service | registration, connection and subscription handles | `connectSvcIpc`, `subscribeServiceIPCSignal`, `disconnectSvcipc`, `onSvcipcRequestCallback` | the dispatch thread calls handlers on the instance it was given |
| JSON validation | none | `ParseJsonString`, `ValidateJson*` | called by the prediction |

Several calls are commented out in this commit: those of the trace history (lines
146, 266, 536 and 670) and that of the prediction (618). The functions behind
them are compiled and complete, and the models have the calls in place.

What is hard in it:

* **Interleaving.** Trip recording is shared by the handler and the callbacks of
  one or more timers without a common lock. The pointer `mLastGPSTimer` is
  tested, read again, ended, cleared and replaced by different threads. A request
  reads counter and drawers while a trip is being put in them, and overwrites
  members the open trip is saved from.
* **Restarts.** The only durable state are append-only files, written one after
  the other, and a grid of files that is shifted by renames; `deinitialize` is
  empty, so a clean exit is worth no more than a power cut. `loadDriverBehavior`
  reads one record past each file.
* **Start and end.** Fixes come in from the subscription on, before the files are
  loaded, and until after the instance is deleted; a timer that calls
  `GetInstance` then makes it anew.
* **Events.** An auto-reset event coalesces signals; the wake-up and the copy of
  a sample are two steps.
* **Numbers.** Codes are C++ shorts; drawer indices and dates of arrival come from
  integer calendar arithmetic done by hand.

What makes each component correct: a record names the places and times of the
trip it stands for; trips follow one another; no stay is recorded; there is
always a timer for the last fix; a code names one place; samples
arrive whole, in order and the last one surely; every trip is counted once;
predictions are trips that were made, of rates that sum to no more than 1; the
newest trace survives an interruption; one instance, handed out ready; a signal
ends the process. Not all of this is true of the code: section 3 has what holds, and
under which condition, beside the runs that show what does not. `PROJECT.json` lists the hazards line by line with the
properties that watch each.

## 2. Modules

    PlaceTable --- TripRecorder --- MCTripRecorder
        |              |   \__ INSTANCE TripLog (refinement)
        |              |
        |       TripRecorder_proofs -- INSTANCE TripLog_proofs -- TripLog
        |  PlaceTable_proofs __/
        |                  \___________________________________
        |                                                       \
    PlaceTable, Utils, Drawers, JsonHandler --- Predictor --- Predictor_proofs
                                                    \___ MCPredictor
    Utils --- Calendar --- MCCalendar, Calendar_proofs
    GpsFeed --- MCGpsFeed, GpsFeed_proofs
    GpsTrace --- MCGpsTrace, GpsTrace_proofs
    Lifecycle --- MCLifecycle, Lifecycle_proofs

**PlaceTable** holds the pure operators on the position table. A coordinate pair
is a member of `Place`; "closer than `MAX_DIFF_LAT_LON`" is the relation `Near`,
assumed reflexive and symmetric and not transitive, which is what the sum of two
absolute differences gives. A code is an integer of `-ShortMax-1 .. ShortMax`,
`ToShort` the wrapping conversion.

**TripRecorder** is the core. Its variables carry the names of the members; two
records `sig` and `cb[t]` are the program counters and locals of the handler and
of the callback of timer `t`; `behFile` and `posFile` are the files.

| code | actions |
|---|---|
| `GetInstance`, constructor, `initialize` | `Boot` |
| `loadDriverBehavior` | `LoadBehaviors`, `LoadPosition` (one turn of its loop) |
| power cut; SIGTERM with an empty `deinitialize` | `PowerOff` |
| `onGPSDataNDRServiceIPCSignal` | `GPSSignal`, `SigSetLatLon`, `SigFirst`, for the first of a trip `SigDate`, `SigOpen`, `SigCopy`, `SigSearch`, `SigAdd`, `SigCurCode`, `SigFirstCode`, and then `SigTestTimer`, `SigNewTimer`, `SigStartTimer` or `SigRestartTimer` |
| Poco timer thread | `TimerFire`, `CbReturn`, `Restarted` (external) |
| `lastGPSCallback` | `CbStop`, `CbClear`, `CbSnap`, `CbSize`, `CbStartCode`, `CbSearch`, `CbAdd`, `CbDestCode`, `CbDecide`, `CbReset` |
| `saveDriverBehavior` | `OpenBehaviors`, `PushBehavior`, `WriteBehavior`, `OpenPositions`, `WritePositions` |

Each action is one access to shared state, so TLC tries every order of them. What
is taken as one access: the copy of a struct, one search of the vector, the
`push_back` that may follow it, a date with its time, and a test of a member with
the branch it decides. Splitting those would add torn structs and vectors, which are
undefined behaviour no property here survives. A clock reading is the number of the fix at which it was
made; `date` stands for `date` and `time`, `date_d` for `date_d` and `time_d`.
Following a pointer that points to no timer is the phase `crash`, from which the
process may be started again. `fixes`, `bootFix` and `snapped` are history
variables; nothing in the code's actions depends on them but the numbering of
fixes and timers.

`Overlap` separates two questions. With `Overlap = FALSE` a signal is delivered,
and a timer fires, only while no handler or callback is under way: the rhythm a
1 Hz receiver and a fast disk usually give. With `Overlap = TRUE` everything the
code allows may happen. That there is always a timer for the last fix holds with
overlap and is proved so. What the records say, the order of trips, the codes of
the table and the number of timers are right only without it. `TripOverlap` shows
what becomes of the records with it. Its shortest trace is a fix between the
callback's copy of `mCurGPS` (115) and its reading of `mCurLat/Lon` (121), but there are more
ways to get there: a callback between lines 242 and 265 of the handler, two callbacks that
share `mLastGPS`, two pushes into the table under the size both have read, by handler
and callback or by one of them and the loader. `CutInSave` says whether power
may go between a record and its positions (922 and 926): such a cut alone leaves
codes on disk without positions, and `TripCodesAfterRestart` is without it, so that
the run shows what the load does.

**TripLog** is the abstract specification: fixes come, a trip opens, is recorded
from its first to the last fix if those are apart, or is lost. `TL` in
TripRecorder maps the recorder's state to it, `ImplementsTripLog` says that every
behaviour of the recorder is one of it, through failing `fopen`s and restarts.

**GpsFeed** is the same handler seen from the sample: `mGpsInfo` is written field
by field under `mGetDataMutex`, `mGPSDataEvt` is set, `calcArrival` wakes, locks
and copies. A field holds the number of the signal that wrote it.

**Drawers** is `putInDrawer` on one drawer, with its search by `code_s` alone, its
count, and the move to the front.

**Predictor** composes table, calendar, drawers and JSON checks: one thread saves
trips while another answers a request, over a restart.

| code | actions and operators |
|---|---|
| start, `loadDriverBehavior` with its surplus turn | `Restart`, `Loaded` |
| first and last fix of a trip | `FirstFix`, `LastFix` |
| `saveDriverBehavior`: counter, one array, files | `SaveCount`, `SavePut` (four times), `SaveWrite` |
| `predictDestinationAtStart` with its JSON checks | `predictDestinationAtStart` |
| `getDestAndRate`: one array read | `ReadDrawer`, over `getDestRateFromDraw`, `ArrivalDates` |
| `getDestAndRate`: rates, list of three | `Rate`, over `Weighted`, `Listed`, `Ranked` |
| `printResult` | `printResult` |

The four arrays lie one after the other in the object, so drawers are numbered
through and the index -1 of the zeroed record lands where it does in memory: in
the last vector of the array before. `mStCntMap.find(...)` is compared with NULL;
what is counted and read is therefore the one pair behind `end()`, `endCount`,
whose first value is the heap's. Rates are kept as whole numbers over a common
denominator (weights in twentieths, the counter in `asker.total`); the counter, which
the code reads anew for every candidate, is read once. `getArriveTime` has no return
statement: its result, which decides whether the date of a prediction goes through
`getDateByDiffDay`, is a choice (`ArrivalDates`). The time it computes is overwritten
by the caller and is not modelled.

**Utils**, **Calendar**. Utils has the arithmetic and the packing of dates and
times as its source does them; Calendar beside it a machine that only steps from
one day to the next.

**JsonHandler** has a message as a record of members with a kind and a value, and
the six validations, which differ in the kind alone, as one operator that returns
whether they pass and what they store. The program calls the one for doubles.

**GpsTrace** has the grid of files as a function on rows and columns.

| code | actions |
|---|---|
| start, `loadGPSTrace` (column index not reset between rows) | `Restart` |
| fix, `getGPSTraceRow` at the first of a trip | `Signal` |
| `calcArrival`, `compareTrace` | `calcArrival` |
| end of a trip, `mNewTrack` tested | `SaveBegin` |
| `saveGPSTrace` | `SaveRemoveLast`, `SaveShiftRow` (one row a step), `SaveShiftColumns`, `SaveOpen`, `SaveWrite` |

`Restart` may come between any two of them and stands for a power cut as well.
Each file carries the number of the save that wrote it, for the properties only.

**Lifecycle** runs from `main` to the end of the process. `pc[th]` is where a
thread is, for main and for every timer's thread; `inst[i]` whether instance `i`
is being made, ready or freed; `lib` what svcipc has been told.

| code | actions |
|---|---|
| `main`, `sigHandler` | `InstallHandler`, `Wait`, `Return`, `sigHandler` |
| `GetInstance`, `initialize` | `Lock`, `New`, `connectSvcIpc`, `subscribeServiceIPCSignal`, `Finish`, `Got` |
| `DeleteInstance`, `disconnectSvcipc` | `DeleteLock`, `disconnectSvcipc`, `Free`, `Deleted` |
| dispatch thread | `Deliver`, `Handle` over `onGPSDataNDRServiceIPCSignal` (`FixTest`, `FixNew`, `FixStart`, `FixRestart`, `FixCrash`: each read of `mLastGPSTimer` is a step) and `onSvcipcRequestCallback` |
| timer threads, `lastGPSCallback` | `TimerFire`, `StopTimer`, `ClearTimer`, `SaveTrip` |

Using a freed instance is a choice: it goes well, or the process crashes. Whether
`SVCIPC_shutdown` waits for a callback under way the header does not say, so
`lib.drains` is chosen at the start and both are explored.

## 3. Runs

| run | question | result |
|---|---|---|
| `TripSerial` | one callback after the other, two starts, one failing `fopen`, four fixes among four places, three of them apart: are records, order, codes, timers and files right, and is TripLog implemented? | holds, 641,000 states |
| `TripThreads` | three fixes in every interleaving, any pointer on the heap, codes of one bit, fairness: is the last fix ever left without a callback, and does it get its callback? | never, and yes; 1.9 million states, some three minutes |
| `GpsFeed` | are samples whole, in order, at most twice, the last one surely taken? | yes |
| `Calendar` | weekday and day index against stepping days | right |
| `Predict` | trips saved while a request is answered, over a restart: is every trip counted once in every drawer, what leads a drawer, what is predicted, what is missed, what are the rates, for which start? | as stated below, 1.1 million states |
| `Trace` | saves, cuts and failing opens over three starts: what is left of the traces? | as stated below, 3.7 million states |
| `Lifecycle` | signals, fixes, requests and timers from main to exit: one instance, handed out ready, library calls apart, library down at exit, a signal ends the process, the causes of a crash | holds, 703,000 states |
| `TripCodesAfterRestart` | do codes on disk keep their meaning over restarts ("start position code", "destination positon code")? | no: the load pushes a zeroed position that no save writes, and from the third start on the codes saved in the second are off; there is no power cut in a save here |
| `TripOverlap` | when fixes come during callbacks and loads: do records name the places and times of a trip ("start position code", "destination positon code"), and are trips that end where they began kept out ("avoid setStartPosition NDR data disturb")? | no: a fix between lines 115 and 121 is the shortest of several ways |
| `DrawersFrequent` | "big count stay on front", "count descendent"? | no: only the first entry of a start is ever counted up |
| `TraceOffTrack` | is the place compareTrace has found on a trace ("close to the point of historical track")? | no: a rescan stores the loop's counter as the column, whatever column it scanned |
| `TraceRotate` | "move each file name to rear, if last one reach max size, delete the last"? | no: each rename replaces the row the next one moves |

Some passing properties pin down what the code does where that is not what one
would expect, so that a change of it is noticed:

* `FirstDestinationLeads`: the destination that leads a start's entries is the
  first ever driven to, however often the others were.
* `PredictsRecordedTrips`: predictions are recorded trips from the start asked
  for whose day or hour speaks for the request, but also the zeroed record of the
  load.
* `StartKeptUnlessAsked` and `AskedStartFound` each have a condition: no request since
  the trip began, and both coordinates in the message as doubles. Without the first
  `StartKeptUnlessAsked` fails, because a request's start is stored over that of the open
  trip (1045); without the second the prediction is for the start asked for before.
* `GridIsOneTrace`: the grid comes down to one column on disk and one trace in
  memory.
* `NewestTraceKept`: one interrupted save does not lose the last trace that was
  written new, a second one may. Rewriting a known trace counts neither for nor
  against it: see section 4.
* `FirstTraceByLuck`: as long as the heap leaves `mNewTrack` FALSE no trace is ever
  saved.
* `CrashCauses`: an uninitialized `mLastGPSTimer`; a thread that is late for
  `DeleteInstance`; a fix that tells a timer to go on after its callback has told it
  to end, so that it calls back once more and follows NULL; and a callback that sets
  `mLastGPSTimer` to NULL between the handler's test of it and its use. TripRecorder
  has all but the second as the phase `crash`. The property says there is no fifth.

**Bounds.** `MaxFix`, `MaxBoot` and `MaxFail` bound fixes, starts and failing
calls; they are in the guards of the actions that count. In `TripSerial` four
fixes make two trips, or a trip, a stay and a reopened one, or a trip on each
side of a restart; of the four places three lie apart, so that the table gets
three codes, and one is near two others, so that nearness is not transitive. In
`TripThreads` three fixes give two timers with callbacks under way at once and a
handler between them, and only with three can a callback end the timer of another;
`ShortMax = 0`, codes -1 and 0, makes two places wrap already.

The runs that end in a violation have the bounds their counterexample takes.
`TripOverlap` may take two starts, four fixes and three places apart, to leave all the ways
listed in section 2 open. `TripCodesAfterRestart` needs four fixes (a trip in each of
two starts) and a third start to read the codes; nothing fails in it and memory starts from zero.
`TraceOffTrack` has the bounds of `Trace`, `TraceRotate` fewer samples, no cuts and no failing calls, and
`DrawersFrequent` a third trip instead of a request.

In `GpsFeed` five signals coalesce, duplicate and queue around two wake-ups. In
`Calendar` 800 days from three epochs pass a leap year, a common one and both kinds
of century.

In `Predict` two trips, a request and two starts with two clock readings (a Friday
the 31st before midnight and the next Friday after it) make drawers that share a
trip and drawers that do not, a load of saved trips, and a request at every point
of a save; `PerDrawer = 2` instead of 5, so that a drawer can be full. The three
messages are malformed, half valid, and valid. In `Trace` a 3 x 3 grid has a first,
a middle and a last row; five samples make up to two trips with a comparison in
between, three starts load what two saves left, and of the three positions the
outer two are apart. `Lifecycle` has three fixes and so three timers, of which one
may be firing, one armed and one made by a second instance; one request, and one
failing call of svcipc.

Deadlock checking is off because every environment may simply stop: signals run
out, and the bounded counters too.

**Fairness.** In TripRecorder the loader, the handler, each timer and its callback
are weakly fair: a thread that can take a step eventually does, since nothing in
the code blocks it for ever, and a started Poco timer whose period is not 0
fires. Signals, power cuts and starts have none. In `GpsFeed` handler and
calculation thread are weakly fair; both take the mutex, but a weak condition
suffices because signals are finitely many, so the mutex stays free in the end.
`FixTakenOver` says that again and again the process is down or has called back for
the last fix; fixes run out in the model (`MaxFix`), whereas while they keep coming the
timer is pushed back for ever, as intended. In Lifecycle main, the handler and the
callbacks are weakly fair, signals, fixes, requests and the firing of timers are
not: `SignalEndsProcess` starts from a signal that has been handled.

## 4. Proofs

Nothing is assumed but the assumptions on the constants (`PlaceAssumption`,
`RecorderAssumption`, `FeedAssumption`, `LifecycleAssumption`, `TraceAssumption`,
`CalendarAssumption`, `PredictorAssumption`): the theorems hold for every set of places, every width of a
code, every size of the grid and every bound.

**With any overlap and any heap.**

* `TypeCorrect` (TripRecorder_proofs). `TypeOK` is inductive once joined with "a
  handler under way has a fix", which names the timer that `SigNewTimer` makes.
* `NoFixEverForgotten` and `LastTimerAlwaysCallsBack` (TripRecorder_proofs).
  `NoFixForgotten` alone is not inductive, because a callback's
  `mLastGPSTimer->restart(0)` may end another's timer, and because the handler
  only pushes a timer back. `FixInv` adds that a callback is under way exactly
  while its timer is in it; that `mCurGPS` carries the last fix as soon as there
  is a timer; that `mLastGPSTimer`, when not null, names a timer that is armed, is
  being started, is in its callback, or is about to be cleared; and that the
  number of the fix in hand names no timer yet.

**Under `Serial`**, which is `Overlap = FALSE` and a heap that leaves
`mLastGPSTimer` NULL (the second half of TripRecorder_proofs). `SerialInv` is `FixInv` with four parts:

* `ThreadInv`: one thread at a time; a timer that can still be restarted is the one
  `mLastGPSTimer` names; a timer whose callback has passed `restart(0)` will not
  go on; a timer or callback at work means an open trip. It gives `OneTimerOnly`.
* `TableInv`: code is index, and loader, handler and callback add to a table that
  is as long as they take it to be. It gives `CodesAreIndices`.
* `RecordInv`: order on disk, that the open trip begins after every trip on disk
  has ended, and that what a callback holds is the open trip and no stay. It gives
  `DiskInOrder`.
* `MirrorInv`: memory and file agree but while a callback is between push and
  write, where the memory has the record in hand as well; and while the loader is
  in the files it has read what they hold. It gives `MemoryIsDisk`.

`RecorderImplementsTripLog` is the refinement. Every step maps to a step of TripLog
or to none, and the one step that takes an argument is `WriteBehavior`: the
callback has compared two codes, TripLog's `Record` asks for two places. `PlaceInv`
closes the gap: both codes are `ToShort` of the index at which the search finds
the place of the first and of the last fix, and stay so while the table grows
(`SearchPosStays`, `SearchPosAdded` in PlaceTable_proofs); so different codes mean
different places, and this is true however short a code is. `TripsOnDiskDisjoint`
then carries `TripsAlwaysDisjoint`, proved of TripLog alone, over to the files.

`RecordsNameTrips` goes the other way, from codes to places, and needs the table to
fit the codes, which its statement says: `NameInv` keeps that the codes of every
record written since the start are where its places are found, and
`FoundDecodes` that `getLatLonByCode` returns a place near them.

**The sample feed** (GpsFeed_proofs): `SamplesAreWhole`, `SamplesStayInOrder`,
`NeverThrice`,
`FeedTypes`. `FeedInv` says who holds the mutex, how far the handler has
written, that what calcArrival was woken for is written, that no copy is younger
than `mGpsInfo`, and `Budget`: each copy of the present sample has used up one of
its two wake-ups.

**Lifecycle** (Lifecycle_proofs): `HandedOut`, `CallsApart`, `InstanceOnce`, for any
number of timers, fixes, requests and failing calls. The invariant `IInv` says that
whoever is between lock and unlock holds the mutex (`Alone`), what `mInstance` is
at each of those steps (`AtStep`), that at most one instance is alive (`Single`),
and that one is freed only by main's one call of `DeleteInstance`, so that there
is never a third (`Twice`).

`LifecycleTypes`, `LibraryDown` and `CrashesHaveCauses` rest on `KInv`, which adds to
`IInv` who may know which instance (`Known`), what the library is left in once main
has disconnected and no second instance is there (`AtEnd`), and `InTurn`: as long as
no cause of a crash has come, the timer the instance points to is the one that is to
fire or is calling back, there is no other, and the handler finds in the pointer what
its test has told it.

**The grid of traces** (GpsTrace_proofs), for grids of any size: `TraceTypes`,
`GridComesToOneTrace`, `TracesByLuck`, `NewestOutlivesOneFault`.
`TraceInv` has a part for each. That the grid comes to one trace needs that no file
lies beyond the first column (`FirstColumnFiles`), which every rename keeps because
the columns it moves are empty. `NewestOutlivesOneFault` has to say where the trace
is: without a fault in row 0 (`InFront`), or in row 1 once a new save has moved row
0, which is what memory holds and what that save writes (`Behind`); and after one
fault anywhere (`Somewhere`), until the next new save. This proof found the property as first stated to be false: with five
starts a save that rewrites a known trace in a row the shift has emptied was called
the newest, and the next new one replaced it. TLC confirms it at larger bounds than
those of `Trace`; `newest` now is the last trace written new to row 0, and the
comments say so.

Three definitions of this module are loops with a state: where `loadGPSTrace`
begins each row, the cells it reads, and `Columns`, the loop of `compareTrace`. They
are recursive functions over an interval, which to the prover are chosen ones:
`Iteration` shows once that an iteration over an interval exists, by the least
length for which there would be none (`LeastExists`). What is proved about a loop is
then an invariant of its iterations (`ColumnsStand`), again by the least that breaks
it.

**The calendar** (Calendar_proofs): `WeekdayAlwaysCorrect`, `DayIndexAlwaysCorrect`, for
every year from 1 on and any number of days. `CalendarInv` is both properties and
that today is a day of the calendar. The step is one lemma for each kind of
midnight: within a month, to the next month, to the next year. The loop that adds
up the days of the months is unfolded the same way, with the thirteen sums as the
witness (`SumsAreSummed`). `CalendarAssumption` asks that the weekday of the days to
start from is what the program makes it; TLC evaluates it for the three epochs.

**Prediction** (Predictor_proofs), for any messages, places and clock readings and any
number of trips, requests and starts: `PredictorTypes`, `AskedStartNamed`,
`StartCodeKept`, `PredictionsAreRecorded`, `TripsAreCounted`, `FirstSeenLeads`,
`RatesStayTogether`, `MissedForSpace`.

* `Types` is `TypeOK` with what makes it inductive: the entries of the drawers carry
  times of the day (`Kept`), the records carry readings of the clock or zeros
  (`Trips`), and drawers are read only for a reading. Loading, collecting
  and weighing are loops, unfolded as those of GpsTrace are: `Loop` gives an
  iteration, `Upward` goes along it.
* `Starts` says where the search finds the place of a request, of the open trip and of
  the record in hand (`Named`), and that codes are positions. It is kept whatever
  the two threads add to the table between; `NamedDecodes` then needs that the
  positions fit a short, which both statements say. Past that a code wraps and names
  another place.
* `Sourced` follows the records (those on file, the zeroed one of a load, the one in
  hand) to the drawers they fill, the candidates read there and the results made of
  them: each has a record behind it with the same codes and time. That the record
  speaks for the request is `DrawerSpeaks`: the indices of the four arrays lie
  apart for every day of the calendar, and those of the zeroed record are Monday's,
  midnight's, and the last of two arrays before.
* `Tallied` says of each drawer what has been put in it: of the records known (those of
  the load, those saved since, and the one in hand as far as its four puts are done)
  the entries of a start and destination count those with these codes (`Sums`), and
  the first entry of a start is that of its first record (`Leads`). A put adds one to
  one sum (`TallyPut`); it goes to a drawer that has not had the record yet, because
  the four arrays have no drawer in common (`DrawersDiffer`); a write turns the record
  in hand into the last on file (`TallyWritten`); and a load puts the records of the
  file in turn (`TallyLoaded`).
* `Room` compares drawers and candidates with the counter: a drawer counts no more than
  was counted since the start, and one less where the record in hand is still to be
  put, which is why a put while candidates are read does no harm. The weights come to
  20 twentieths (`SharedWeighted`), the list drops candidates but adds none
  (`RatedListed`), and sorting only reorders it (`RatedRanked`).
* `Reached` follows an answer as its list grows. Of each array already read, either
  the drawer is crowded (it has more entries of the start than are taken), or all
  destinations of the records on file when the request came in are among its
  candidates (`Served`): a tally has an entry for each record (`TallyHas`), and all
  entries of the start are taken unless there are more (`AllTaken`). When the list
  is done it has its three, or the destination of every candidate (`AllListed`,
  `AllRanked`). A put in between can crowd a drawer but never empties one
  (`CrowdedPut`). A record that speaks for the request shares a drawer with it
  (`SpeakingShares`, the converse of `DrawerSpeaks`).
* Sums of a property are folds over sets, chosen functions again: `TotalFacts` gives
  what is needed of them, `CountsTotal` and `RatesTotal` say that they are the sums of
  the properties.
* `PredictorAssumption` says of a clock that it shows a day of the calendar and a time
  of the day, of a message that a double in it is a coordinate, and of an arrival
  that it is a time of the day.

Only model-checked: liveness (`FixTakenOver`, `LastSampleTaken`,
`SignalEndsProcess`), which is out of the prover's reach, and what the runs that
end in a violation refute. Every invariant and every action property of the passing
runs is proved.

## 5. Not modelled

* Tracing macros and build files have no behaviour. The vendored headers under
  `src/include`, which are more than nine tenths of the lines of the repository
  (curl, Poco, jsoncpp, svcipc and others), are declarations of libraries whose
  source is not there. The program's own code is what the map covers.
* `CreateStyledJsonStream`, which nothing calls, only formats;
  `gaugeDestinationAndArriveTime` and `deinitialize` are empty.
* `mGpsInfoVec` is never emptied and timers are never deleted: memory grows for
  ever. The models bound both by the number of signals.
* A record is written whole or not at all: `fwrite` buffers it and `fclose` flushes
  it. Torn records, the byte layout and allocation failure are left out, as are
  the wording of log lines and the printed time of a sample, which shows hour,
  month and second.
* `Poco::Event` is atomic. The signal handler calls `set`, which takes a mutex main
  may hold inside `wait`; that mutex is not in the repository.
* Modelled as the code has it, but without a run that shows the harm: "same code_s
  put together as a cluster" (new entries go to the end of a drawer); "diff day is 1"
  (`getDateByDiffDay` returns the date it is given, so `PredictsRecordedTrips` does not ask for
  the date of a prediction past midnight); power cuts between the two files;
  `mInitPosVecSize` from the heap, as long as there is no position file; a table of more places
  than a short has codes; a request that overwrites the start of an open trip. `PROJECT.json` has each of them
  as a hazard, with its line.
* What a rate ought to be, when the one counter behind `mStCntMap.end()` counts every
  start's trips on top of what the heap holds, and what a request without a usable
  coordinate ought to get, no comment says; the modules do what the code does and no
  property judges it.
* The time that `getArriveTime` computes, since nothing reads it.

## 6. Plan

1. Trip recording and Predictor as one composition: a request that adds to the
   position table between a callback's search and push.
2. GpsTrace: an abstract history of which the grid keeps a part, to state by
   refinement what `NewestTraceKept` states by counting faults.
