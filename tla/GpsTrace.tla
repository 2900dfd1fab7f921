------------------------------ MODULE GpsTrace ------------------------------
(***************************************************************************)
(* The history of GPS traces.  A start of the process reads trace files     *)
(* into mGpsData; the first fix of a trip is looked up among their starts   *)
(* (getGPSTraceRow), calcArrival follows the trace with every sample        *)
(* (compareTrace), and at the end of a trip the timer's thread moves the    *)
(* files and writes the samples to a new one (saveGPSTrace).  Power may go  *)
(* between any two of its calls of remove, rename, fopen and fclose.        *)
(*                                                                         *)
(* The four calls are commented out in GaugeArrival.cpp; the module is of   *)
(* the program with them in place (lines 146, 266, 536 and 670).            *)
(*                                                                         *)
(* Positions lie on a line, at whole distances.                             *)
(***************************************************************************)
EXTENDS Integers, Sequences, FiniteSetsExt

CONSTANTS Rows, Cols,  \* the file grid, 10 x 10 in the program
          Position,    \* bound: where a sample may be taken
          MaxDiff,     \* MAX_DIFF_LAT_LON
          MaxSample,   \* bound: samples
          MaxBoot,     \* bound: starts of the process
          MaxFail,     \* bound: fopen calls that fail
          Cuts,        \* may power go in the middle of a save?
          HeapBools    \* values an uninitialized bool may hold

ASSUME TraceAssumption ==
  /\ Rows \in Nat \ {0, 1} /\ Cols \in Nat \ {0, 1}
  /\ Position \subseteq Int
  /\ MaxDiff \in Nat /\ MaxSample \in Nat /\ MaxBoot \in Nat /\ MaxFail \in Nat
  /\ Cuts \in BOOLEAN /\ HeapBools \subseteq BOOLEAN

Row  == 0 .. Rows - 1
Col  == 0 .. Cols - 1
Cell == Row \X Col

\* A GPSInfo; a zeroed one has an empty date.
GPSInfo == [pos : Int, dated : BOOLEAN]
Sample(p) == [pos |-> p, dated |-> TRUE]
ZeroInfo  == [pos |-> 0, dated |-> FALSE]

\* A file; id tells which save wrote it, 0 while it is not whole.
NoFile == [made |-> FALSE, recs |-> <<>>, id |-> 0]

VARIABLES
  file,          \* GAUGE_ARRIVAL_GPS_TRACE_PATH, by row and column
  mGpsData,      \* the traces read at the start
  mGpsInfo,      \* the last sample
  mGpsInfoVec,   \* the samples since the start
  mCurRow, mCurCol, mCurIdx, \* where on which trace the car is; -1: unknown
  mNewTrack,     \* is this trip on no known trace?
  mGetFirstGPSSig,
  mGPSDataEvt,   \* a sample waits for calcArrival
  saver,         \* saveGPSTrace: step, row in hand, len; is it a new start?
  boots, samples, fails,
  saves,         \* history: saves begun
  newest,        \* history: the last new trace that is whole and in row 0
  kept,          \* history: whole saves whose file was not rewritten on purpose
  faults,        \* history: saves since then that were cut, failed or, new,
                 \* went to another row
  lucky          \* history: has mNewTrack once been TRUE from the start?

drive == <<mGpsInfo, mGpsInfoVec, mGetFirstGPSSig, mGPSDataEvt, samples>>
place == <<mCurRow, mCurCol, mCurIdx>>
past  == <<saves, newest, kept, faults, lucky>>
vars  == <<file, mGpsData, drive, place, mNewTrack, saver, boots, fails, past>>

SaverIdle == [pc |-> "idle", row |-> 0, len |-> 0, fresh |-> FALSE]

-----------------------------------------------------------------------------
(* Start.                                                                  *)

\* Mutant: j starts from 0 in every row.
StartColumnReset(f) == [i \in 0 .. Rows |-> 0]

\* The column loadGPSTrace's inner loop begins row i at: j is not reset, so it
\* goes on where a file was missing in the row before.
StartColumn(f) ==
  LET start[i \in 0 .. Rows] ==
        IF i = 0 THEN 0
        ELSE Min({j \in start[i - 1] .. Cols :
                    j < Cols => ~f[<<i - 1, j>>].made})
  IN  start

\* The cells it reads: from there up to the first missing file.
CellsRead(f) ==
  {c \in Cell : \A j \in StartColumn(f)[c[1]] .. c[2] : f[<<c[1], j>>].made}
    \ {c \in Cell : c[2] < StartColumn(f)[c[1]]}

\* Each file, and the zeroed record that feof lets the loop read past its end.
loadGPSTrace(f) ==
  [c \in Cell |-> IF c \in CellsRead(f) THEN Append(f[c].recs, ZeroInfo) ELSE <<>>]

Init ==
  /\ file = [c \in Cell |-> NoFile]
  /\ mGpsData = loadGPSTrace(file)
  /\ mGpsInfo = ZeroInfo /\ mGpsInfoVec = <<>>
  /\ mCurRow = -1 /\ mCurCol = -1 /\ mCurIdx = 0
  /\ mNewTrack \in HeapBools
  /\ mGetFirstGPSSig = 0 /\ mGPSDataEvt = FALSE
  /\ saver = SaverIdle
  /\ boots = 1 /\ samples = 0 /\ fails = 0
  /\ saves = 0 /\ newest = 0 /\ kept = {} /\ faults = 0 /\ lucky = mNewTrack

\* The process ends, with power or without, and starts again.  The constructor
\* leaves mNewTrack as the heap has it.
Restart ==
  /\ boots < MaxBoot
  /\ saver.pc # "idle" => Cuts
  /\ boots' = boots + 1
  /\ faults' = IF saver.pc = "idle" THEN faults ELSE faults + 1
  /\ mGpsData' = loadGPSTrace(file)
  /\ mGpsInfo' = ZeroInfo /\ mGpsInfoVec' = <<>>
  /\ mCurRow' = -1 /\ mCurCol' = -1 /\ mCurIdx' = 0
  /\ mNewTrack' \in HeapBools
  /\ mGetFirstGPSSig' = 0 /\ mGPSDataEvt' = FALSE
  /\ saver' = SaverIdle
  /\ lucky' = (lucky \/ mNewTrack')
  /\ UNCHANGED <<file, samples, fails, saves, newest, kept>>

-----------------------------------------------------------------------------
(* The drive.                                                              *)

Distance(a, b) == IF a > b THEN a - b ELSE b - a

isIdenticalPos(le, ri) == Distance(le.pos, ri.pos) < MaxDiff

\* The rows whose trace starts at info.
Starts(info) ==
  {i \in Row : /\ mGpsData[<<i, 0>>] # <<>>
               /\ mGpsData[<<i, 0>>][1].dated
               /\ isIdenticalPos(info, mGpsData[<<i, 0>>][1])}
getGPSTraceRow(info) == IF Starts(info) = {} THEN mCurRow ELSE Min(Starts(info))

\* A signal at p, the first of a trip or a later one.
Signal(p) ==
  /\ samples < MaxSample
  /\ samples' = samples + 1
  /\ mGpsInfo' = Sample(p)
  /\ mGetFirstGPSSig' = 1
  /\ mCurRow' = IF mGetFirstGPSSig = 0 THEN getGPSTraceRow(Sample(p)) ELSE mCurRow
  /\ mGPSDataEvt' = TRUE
  /\ UNCHANGED <<file, mGpsData, mGpsInfoVec, mCurCol, mCurIdx, mNewTrack, saver,
                 boots, fails, past>>

\* Mutant: a scan that is given up leaves the index unknown, as row and column.
ScanForgets(trace, idx, p) ==
  LET far == {i \in idx + 1 .. Len(trace) - 1 : Distance(trace[i + 1].pos, p) > MaxDiff}
  IN  IF far = {} THEN [hit |-> FALSE, idx |-> idx] ELSE [hit |-> FALSE, idx |-> -1]

\* One scan of a trace from index idx (counted from 0) for a point closer to p
\* than that one, given up, and begun anew next time, at a point too far away.
Scan(trace, idx, p) ==
  LET diff(i) == Distance(trace[i + 1].pos, p)
      stops   == {i \in idx + 1 .. Len(trace) - 1 :
                    diff(i) < diff(idx) \/ diff(i) > MaxDiff}
      i       == Min(stops)
  IN  IF stops = {} THEN [hit |-> FALSE, idx |-> idx]
      ELSE IF diff(i) < diff(idx) THEN [hit |-> TRUE, idx |-> i]
      ELSE [hit |-> FALSE, idx |-> 0]

\* The loop over the columns from mCurCol, or from 0 while it is unknown.  In the
\* first case the same column is scanned each time, in the second the loop ends
\* at a column without a trace.  end is where j stands afterwards.
FirstColumn == IF mCurCol = -1 THEN 0 ELSE mCurCol

Column(a, j) ==
  LET trace == mGpsData[<<mCurRow, IF mCurCol = -1 THEN j ELSE mCurCol>>]
      s     == Scan(trace, a.idx, mGpsInfo.pos)
  IN  IF a.done THEN a
      ELSE IF mCurCol = -1 /\ trace = <<>> THEN [a EXCEPT !.done = TRUE, !.end = j]
      ELSE [done |-> s.hit, idx |-> s.idx, col |-> IF s.hit THEN j ELSE a.col,
            end |-> j + 1]

Columns ==
  LET at[j \in FirstColumn .. Cols] ==
        IF j = FirstColumn
        THEN [done |-> FALSE, idx |-> mCurIdx, col |-> mCurCol, end |-> FirstColumn]
        ELSE Column(at[j - 1], j - 1)
  IN  at[Cols]

\* calcArrival takes the sample: push_back and, on a known trace, compareTrace.
calcArrival ==
  /\ mGPSDataEvt
  /\ mGPSDataEvt' = FALSE
  /\ mGpsInfoVec' = Append(mGpsInfoVec, mGpsInfo)
  /\ IF ~mNewTrack /\ mCurRow # -1
     THEN /\ mCurIdx' = Columns.idx
          /\ mCurCol' = Columns.col
          /\ mNewTrack' = (Columns.end = Cols)
     ELSE UNCHANGED <<mCurIdx, mCurCol, mNewTrack>>
  /\ UNCHANGED <<file, mGpsData, mGpsInfo, mGetFirstGPSSig, samples, mCurRow,
                 saver, boots, fails, past>>

-----------------------------------------------------------------------------
(* The end of a trip: saveGPSTrace, on the timer's thread.                  *)

\* Mutant: known or new, the trip is saved.
SaveBeginAlways ==
  /\ mGetFirstGPSSig = 1 /\ saver.pc = "idle"
  /\ mGetFirstGPSSig' = 0
  /\ saver' = [SaverIdle EXCEPT
                    !.pc = IF mCurRow = -1 THEN "remove" ELSE "columns",
                    !.fresh = (mCurRow = -1)]
  /\ saves' = saves + 1
  /\ UNCHANGED <<file, mGpsData, mGpsInfo, mGpsInfoVec, mGPSDataEvt, samples,
                 place, mNewTrack, boots, fails, newest, kept,
                 faults, lucky>>

\* lastGPSCallback has saved the trip; a trip on a known trace is not kept.
SaveBegin ==
  /\ mGetFirstGPSSig = 1 /\ saver.pc = "idle"
  /\ mGetFirstGPSSig' = 0
  /\ IF mNewTrack
     THEN /\ saver' = [SaverIdle EXCEPT
                    !.pc = IF mCurRow = -1 THEN "remove" ELSE "columns",
                    !.fresh = (mCurRow = -1)]
          /\ saves' = saves + 1
     ELSE UNCHANGED <<saver, saves>>
  /\ UNCHANGED <<file, mGpsData, mGpsInfo, mGpsInfoVec, mGPSDataEvt, samples,
                 place, mNewTrack, boots, fails, newest, kept,
                 faults, lucky>>

Saving == <<mGpsData, drive, mNewTrack, boots, saves, lucky>>

\* The columns of row i up to the first without a trace in memory.
RowCells(i) == {c \in Cell : c[1] = i /\ \A j \in 0 .. c[2] : mGpsData[<<i, j>>] # <<>>}

Removed(f, cells) == [c \in Cell |-> IF c \in cells THEN NoFile ELSE f[c]]

\* rename, of the cells of a set to those behind them in direction d; what is
\* not there is not renamed, what is there is replaced.
Renamed(f, cells, d) ==
  LET there == {c \in cells : f[c].made}
      Back(c) == <<c[1] - d[1], c[2] - d[2]>>
  IN  [c \in Cell |-> IF Back(c) \in there THEN f[Back(c)]
                      ELSE IF c \in there THEN NoFile ELSE f[c]]

SaveRemoveLast ==
  /\ saver.pc = "remove"
  /\ file' = Removed(file, RowCells(Rows - 1))
  /\ saver' = [saver EXCEPT !.pc = "rows"]
  /\ UNCHANGED <<Saving, place, fails, newest, kept, faults>>

\* Mutant: the row is moved to where it came from.
SaveShiftRowBack ==
  /\ saver.pc = "rows"
  /\ file' = Removed(file, RowCells(saver.row))
  /\ IF saver.row < Rows - 2
     THEN saver' = [saver EXCEPT !.row = @ + 1] /\ UNCHANGED mCurRow
     ELSE saver' = [saver EXCEPT !.pc = "open"] /\ mCurRow' = 0
  /\ UNCHANGED <<Saving, mCurCol, mCurIdx, fails, newest, kept, faults>>

\* Row by row from the first, the files move one row down; then the new trace
\* is to be row 0.
SaveShiftRow ==
  /\ saver.pc = "rows"
  /\ file' = Renamed(file, RowCells(saver.row), <<1, 0>>)
  /\ IF saver.row < Rows - 2
     THEN saver' = [saver EXCEPT !.row = @ + 1] /\ UNCHANGED mCurRow
     ELSE saver' = [saver EXCEPT !.pc = "open"] /\ mCurRow' = 0
  /\ UNCHANGED <<Saving, mCurCol, mCurIdx, fails, newest, kept, faults>>

\* On a known trace: the columns from 1 to mCurCol move one to the right, or the
\* last is removed.
SaveShiftColumns ==
  /\ saver.pc = "columns"
  /\ file' = IF mCurCol = -1 THEN file
             ELSE IF mCurCol = Cols - 1 THEN Removed(file, {<<mCurRow, mCurCol>>})
             ELSE Renamed(file, {mCurRow} \X (1 .. mCurCol), <<0, 1>>)
  /\ saver' = [saver EXCEPT !.pc = "open"]
  /\ UNCHANGED <<Saving, place, fails, newest, kept, faults>>

\* Opening cell c for writing, from which only a save on a known trace means to
\* take what it holds.
Truncate(c) ==
  /\ file' = [file EXCEPT ![c] = [made |-> TRUE, recs |-> <<>>, id |-> 0]]
  /\ kept' = IF saver.fresh THEN kept ELSE kept \ {file[c].id}
  /\ saver' = [saver EXCEPT !.pc = "write", !.row = mCurRow, !.len = Len(mGpsInfoVec)]
  /\ UNCHANGED <<fails, newest, faults>>

\* fopen(..., "w") truncates what is in the first column of the row, or fails.
SaveOpen ==
  /\ saver.pc = "open"
  /\ \/ Truncate(<<mCurRow, 0>>)
     \/ /\ fails < MaxFail
        /\ fails' = fails + 1
        /\ faults' = faults + 1
        /\ saver' = SaverIdle
        /\ UNCHANGED <<file, newest, kept>>
  /\ UNCHANGED <<Saving, place>>

\* The samples as they were counted at the opening, up to fclose.
SaveWrite ==
  /\ saver.pc = "write"
  /\ file' = [file EXCEPT ![<<saver.row, 0>>] =
               [made |-> TRUE, recs |-> SubSeq(mGpsInfoVec, 1, saver.len), id |-> saves]]
  /\ kept' = kept \cup {saves}
  /\ IF saver.fresh /\ saver.row = 0 THEN newest' = saves /\ faults' = 0
     ELSE UNCHANGED newest /\ faults' = IF saver.fresh THEN faults + 1 ELSE faults
  /\ saver' = SaverIdle
  /\ UNCHANGED <<Saving, place, fails>>

-----------------------------------------------------------------------------
saveGPSTrace == SaveRemoveLast \/ SaveShiftRow \/ SaveShiftColumns \/ SaveOpen \/ SaveWrite

Next == Restart \/ (\E p \in Position : Signal(p)) \/ calcArrival \/ SaveBegin \/ saveGPSTrace

Spec == Init /\ [][Next]_vars
-----------------------------------------------------------------------------
(* Properties.                                                             *)

File == [made : BOOLEAN, recs : Seq(GPSInfo), id : Nat]

\* Samples in files and memory, a place on a trace or -1, and saves at one of
\* their steps.
TypeOK ==
  /\ file \in [Cell -> File] /\ mGpsData \in [Cell -> Seq(GPSInfo)]
  /\ mGpsInfo \in GPSInfo /\ mGpsInfoVec \in Seq(GPSInfo)
  /\ mCurRow \in Row \cup {-1} /\ mCurCol \in Col \cup {-1} /\ mCurIdx \in Nat
  /\ mNewTrack \in BOOLEAN /\ mGPSDataEvt \in BOOLEAN /\ mGetFirstGPSSig \in {0, 1}
  /\ saver.pc \in {"idle", "remove", "rows", "columns", "open", "write"}
  /\ saver.row \in Row /\ saver.len \in Nat
  /\ lucky \in BOOLEAN

\* The grid comes down to one column on disk and one trace in memory: the shift
\* of the columns leaves out column 0, and the load goes on in every row where
\* the one before ended.
GridIsOneTrace ==
  /\ \A c \in Cell : file[c].made => c[2] = 0
  /\ Cardinality({c \in Cell : mGpsData[c] # <<>>}) <= 1

\* The last new trace that came whole to row 0 outlives one power cut or failing
\* open at any point of a later save, and any number of saves that rewrite other
\* rows; a second fault may lose it, and so may a save that rewrites its row.
NewestTraceKept ==
  saver.pc = "idle" /\ faults <= 1 /\ newest \in kept => \E c \in Cell : file[c].id = newest

\* Traces come about only by what the heap left in mNewTrack: as long as it was
\* FALSE at every start, no file is ever made.
FirstTraceByLuck == (\E c \in Cell : file[c].made) => lucky

\* "Move each file name to rear, if last one reach max size, delete the last":
\* of the traces not rewritten on purpose, as many of the latest as there are
\* rows stay.
HistoryKept ==
  saver.pc = "idle" =>
    \A n \in kept : Cardinality({m \in kept : m > n}) < Rows => \E c \in Cell : file[c].id = n

\* While the car follows a known trace, its place is a "point of historical
\* track": the row and column that compareTrace has set name a trace that has
\* a point at the index.
PlaceIsOnTrack ==
  mCurRow # -1 /\ mCurCol # -1 /\ ~mNewTrack =>
    mCurIdx < Len(mGpsData[<<mCurRow, mCurCol>>])
=============================================================================
