----------------------------- MODULE PlaceTable -----------------------------
(***************************************************************************)
(* The position table mGpsPosVec: the places a car has started from or     *)
(* stopped at, each with the code (a C++ short) that trip records use to   *)
(* name it.  Only pure operators live here; the threads that read and      *)
(* extend the table are in TripRecorder.                                   *)
(*                                                                         *)
(* A coordinate pair is a member of Place.  The program calls two pairs    *)
(* the same place when |dlat| + |dlon| < MAX_DIFF_LAT_LON; all the table   *)
(* uses of that test is that it is reflexive and symmetric.  It is not     *)
(* transitive, and nothing below assumes that it is.                       *)
(***************************************************************************)
EXTENDS Integers, Sequences

CONSTANTS Place,     \* the coordinate pairs a fix may report
          Near,      \* the pairs of places closer than MAX_DIFF_LAT_LON
          Zero,      \* latitude 0.0, longitude 0.0: what a zeroed GPS_POS holds
          ShortMax   \* the largest C++ short, 32767 in the program

ASSUME PlaceAssumption ==
  /\ Zero \in Place
  /\ Near \subseteq Place \X Place
  /\ \A p \in Place : <<p, p>> \in Near
  /\ \A p, q \in Place : <<p, q>> \in Near => <<q, p>> \in Near
  /\ ShortMax \in Nat

Code == -ShortMax - 1 .. ShortMax

\* One entry of mGpsPosVec.
GPS_POS == [code : Code, pos : Place]

isIdenticalPos(p, q) == <<p, q>> \in Near

\* Mutant: an index stored as it is.
ToShortWide(n) == n

\* The conversion of an index to the short that stores it.
ToShort(n) ==
  IF n \in Code
  THEN n
  ELSE ((n + ShortMax + 1) % (2 * (ShortMax + 1))) - (ShortMax + 1)

\* The indices, counted from 0 as in the code, of the entries among the first
\* size of vec that are near p.
Hits(vec, size, p) == {i \in 0 .. size - 1 : isIdenticalPos(vec[i + 1].pos, p)}

\* Where the search loop stops: the first hit, or size when there is none.
SearchPos(vec, size, p) ==
  LET hits == Hits(vec, size, p)
  IN  IF hits = {} THEN size
      ELSE CHOOSE i \in hits : \A j \in hits : i <= j

\* Mutants: a new entry whose code is left as the zeroed GPS_POS has it, and
\* one whose code counts from 1.
AddPosNoCode(vec, i, size, p) ==
  IF i = size THEN Append(vec, [code |-> 0, pos |-> p]) ELSE vec
AddPosFromOne(vec, i, size, p) ==
  IF i = size THEN Append(vec, [code |-> ToShort(i + 1), pos |-> p]) ELSE vec

\* What follows the loop: a search that ran to its end adds the place, under
\* the index it believes to be the next free one.
AddPos(vec, i, size, p) ==
  IF i = size THEN Append(vec, [code |-> ToShort(i), pos |-> p]) ELSE vec

\* The place a code stands for: the first entry that carries it.  Without one
\* the loop leaves the last entry it read in pos, or the zeroed pos.
getLatLonByCode(vec, code) ==
  LET hits == {i \in 1 .. Len(vec) : vec[i].code = code}
  IN  IF hits # {} THEN vec[CHOOSE i \in hits : \A j \in hits : i <= j].pos
      ELSE IF vec = <<>> THEN Zero ELSE vec[Len(vec)].pos
=============================================================================
