------------------------------- MODULE Drawers -------------------------------
(***************************************************************************)
(* One drawer: the trips of one weekday, hour, day of the month or day of   *)
(* the year, counted by start and destination for the prediction.  The     *)
(* state of the drawers is in Predictor; here is what one call of           *)
(* putInDrawer makes of one of them.                                        *)
(***************************************************************************)
EXTENDS Integers, FiniteSetsExt, SequencesExt

\* Mutant: the count of the saved record, which is 0, is kept.
NewUncounted(b) == [b EXCEPT !.count = 0]
New(b) == [b EXCEPT !.count = 1]

\* The entry the search loop stops at: it looks at code_s alone.
FirstOf(vec, b) == Min({j \in 1 .. Len(vec) : vec[j].code_s = b.code_s})

\* "big count stay on front": the place, before j, an entry just counted moves
\* to.  The loop looks at entries j-1, j-2, ... but never at the first.
FrontPlace(vec, j) ==
  LET stops == {k \in 0 .. j - 1 : \/ k <= 1
                                   \/ vec[k].code_s # vec[j].code_s
                                   \/ vec[k].count > vec[j].count}
  IN  Max(stops) + 1

\* Mutants: without the else of the inner test, and with a new destination put
\* before its start's entries.
putKnownOnly(vec, b) ==
  IF \A j \in 1 .. Len(vec) : vec[j].code_s # b.code_s
  THEN Append(vec, New(b))
  ELSE LET j == FirstOf(vec, b)
       IN  IF vec[j].code_d = b.code_d THEN [vec EXCEPT ![j].count = @ + 1] ELSE vec
putInFront(vec, b) ==
  IF \A j \in 1 .. Len(vec) : vec[j].code_s # b.code_s
  THEN Append(vec, New(b))
  ELSE LET j == FirstOf(vec, b)
       IN  IF vec[j].code_d = b.code_d THEN [vec EXCEPT ![j].count = @ + 1]
           ELSE InsertAt(vec, j, New(b))

putInDrawer(vec, b) ==
  IF \A j \in 1 .. Len(vec) : vec[j].code_s # b.code_s
  THEN Append(vec, New(b))
  ELSE LET j       == FirstOf(vec, b)
           counted == [vec EXCEPT ![j].count = @ + 1]
       IN  IF vec[j].code_d = b.code_d
           THEN InsertAt(RemoveAt(counted, j), FrontPlace(counted, j), counted[j])
           ELSE Append(vec, New(b))
=============================================================================
