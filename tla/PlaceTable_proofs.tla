------------------------- MODULE PlaceTable_proofs -------------------------
(***************************************************************************)
(* What the operators of PlaceTable return, for every table and every set   *)
(* of places.                                                              *)
(***************************************************************************)
EXTENDS PlaceTable, TLAPS, WellFoundedInduction

\* Every set of naturals has a least member.
LEMMA LeastExists ==
  ASSUME NEW T \in SUBSET Nat, T # {}
  PROVE  \E m \in T : \A k \in T : m <= k
PROOF
<1> DEFINE R == {ss \in Nat \X Nat : ss[1] < ss[2]}
<1>1. OpToRel(<, Nat) = R
  BY Zenon DEF OpToRel
<1>2. IsWellFoundedOn(R, Nat)
  BY <1>1, NatLessThanWellFounded, Zenon
<1>3. \A a, b \in Nat : a < b => <<a, b>> \in R
  OBVIOUS
<1> HIDE DEF R
<1>4. PICK m \in T : \A k \in T : ~(<<k, m>> \in R)
  BY <1>2, WFMin
<1>5. ASSUME NEW k \in T PROVE m <= k
  <2>1. m \in Nat /\ k \in Nat
    OBVIOUS
  <2>2. ~(k < m)
    BY <1>3, <1>4, <2>1, Zenon
  <2> QED
    BY <2>1, <2>2
<1> QED
  BY <1>5

\* The search stops at a position of the vector or, having found none, at size.
LEMMA SearchPosBounds ==
  ASSUME NEW vec, NEW size \in Nat, NEW p
  PROVE  SearchPos(vec, size, p) \in 0 .. size
PROOF
<1> DEFINE hits == Hits(vec, size, p)
<1>1. hits \in SUBSET Nat /\ hits \subseteq 0 .. size - 1
  BY DEF Hits
<1>2. hits # {} => \E i \in hits : \A j \in hits : i <= j
  BY <1>1, LeastExists
<1> HIDE DEF hits
<1>3. CASE hits = {}
  BY <1>3 DEF SearchPos, hits
<1>4. CASE hits # {}
  <2>1. (CHOOSE i \in hits : \A j \in hits : i <= j) \in hits
    BY <1>2, <1>4
  <2> QED
    BY <1>1, <1>4, <2>1 DEF SearchPos, hits
<1> QED
  BY <1>3, <1>4

\* Whatever index is stored in a short, a short is what is stored.
LEMMA ToShortType ==
  ASSUME NEW n \in Int
  PROVE  ToShort(n) \in Code
PROOF
<1>1. ShortMax \in Nat
  BY PlaceAssumption
<1> DEFINE w == 2 * (ShortMax + 1)
<1>2. w \in Nat \ {0}
  BY <1>1
<1>3. (n + ShortMax + 1) % w \in 0 .. w - 1
  BY <1>1, <1>2
<1> QED
  BY <1>1, <1>2, <1>3 DEF ToShort, Code

\* Adding a place to a position table leaves a position table.
LEMMA AddPosType ==
  ASSUME NEW vec \in Seq(GPS_POS), NEW i \in Nat, NEW size \in Nat, NEW p \in Place
  PROVE  AddPos(vec, i, size, p) \in Seq(GPS_POS)
PROOF
<1>1. [code |-> ToShort(i), pos |-> p] \in GPS_POS
  BY ToShortType DEF GPS_POS
<1> QED
  BY <1>1 DEF AddPos

\* The search stops at the first entry near p, or at size when there is none.
LEMMA SearchPosIs ==
  ASSUME NEW vec, NEW size \in Nat, NEW p
  PROVE  /\ SearchPos(vec, size, p) < size =>
              isIdenticalPos(vec[SearchPos(vec, size, p) + 1].pos, p)
         /\ \A k \in 0 .. SearchPos(vec, size, p) - 1 : ~isIdenticalPos(vec[k + 1].pos, p)
PROOF
<1> DEFINE hits == Hits(vec, size, p)
           Near_(k) == isIdenticalPos(vec[k + 1].pos, p)
<1>1. \A k : k \in hits <=> k \in 0 .. size - 1 /\ Near_(k)
  BY DEF Hits
<1>2. hits \in SUBSET Nat
  BY <1>1
<1>3. hits # {} => \E i \in hits : \A j \in hits : i <= j
  BY <1>2, LeastExists
<1> HIDE DEF hits, Near_
<1>4. CASE hits = {}
  <2>1. SearchPos(vec, size, p) = size
    BY <1>4 DEF SearchPos, hits
  <2>2. \A k \in 0 .. size - 1 : ~Near_(k)
    BY <1>1, <1>4
  <2> QED
    BY <2>1, <2>2 DEF Near_
<1>5. CASE hits # {}
  <2> DEFINE r == SearchPos(vec, size, p)
  <2>1. r = CHOOSE i \in hits : \A j \in hits : i <= j
    BY <1>5 DEF SearchPos, hits
  <2>2. r \in hits /\ \A j \in hits : r <= j
    BY <1>3, <1>5, <2>1
  <2> HIDE DEF r
  <2>3. Near_(r) /\ r \in 0 .. size - 1
    BY <1>1, <2>2
  <2>4. \A k \in 0 .. r - 1 : ~Near_(k)
    BY <1>1, <2>2, <2>3
  <2> QED
    BY <2>3, <2>4 DEF Near_, r
<1> QED
  BY <1>4, <1>5

\* Only one position is the first entry near p.
LEMMA SearchPosUnique ==
  ASSUME NEW vec, NEW size \in Nat, NEW p, NEW r \in 0 .. size,
         r < size => isIdenticalPos(vec[r + 1].pos, p),
         \A k \in 0 .. r - 1 : ~isIdenticalPos(vec[k + 1].pos, p)
  PROVE  SearchPos(vec, size, p) = r
PROOF
<1> DEFINE s == SearchPos(vec, size, p)
<1>1. s \in 0 .. size
  BY SearchPosBounds
<1>2. /\ s < size => isIdenticalPos(vec[s + 1].pos, p)
      /\ \A k \in 0 .. s - 1 : ~isIdenticalPos(vec[k + 1].pos, p)
  BY SearchPosIs
<1> HIDE DEF s
<1>3. ~(s < r)
  BY <1>1, <1>2
<1>4. ~(r < s)
  BY <1>1, <1>2
<1> QED
  BY <1>1, <1>3, <1>4 DEF s

\* A place the search finds is found at the same position in a longer table.
LEMMA SearchPosStays ==
  ASSUME NEW vec \in Seq(GPS_POS), NEW e \in GPS_POS, NEW q,
         SearchPos(vec, Len(vec), q) < Len(vec)
  PROVE  SearchPos(Append(vec, e), Len(Append(vec, e)), q) = SearchPos(vec, Len(vec), q)
PROOF
<1> DEFINE r == SearchPos(vec, Len(vec), q)
           new == Append(vec, e)
<1>1. Len(vec) \in Nat
  OBVIOUS
<1>2. /\ r \in 0 .. Len(vec) /\ isIdenticalPos(vec[r + 1].pos, q)
      /\ \A k \in 0 .. r - 1 : ~isIdenticalPos(vec[k + 1].pos, q)
  BY <1>1, SearchPosBounds, SearchPosIs
<1>3. Len(new) = Len(vec) + 1 /\ \A k \in 1 .. Len(vec) : new[k] = vec[k]
  OBVIOUS
<1>4. r < Len(vec)
  OBVIOUS
<1> HIDE DEF r, new
<1>5. r \in 0 .. Len(new) /\ isIdenticalPos(new[r + 1].pos, q)
  BY <1>1, <1>2, <1>3, <1>4
<1>6. \A k \in 0 .. r - 1 : ~isIdenticalPos(new[k + 1].pos, q)
  BY <1>1, <1>2, <1>3, <1>4
<1>7. SearchPos(new, Len(new), q) = r
  <2>1. Len(new) \in Nat
    BY <1>1, <1>3
  <2> QED
    BY <1>5, <1>6, <2>1, SearchPosUnique, Zenon
<1> QED
  BY <1>7, Zenon DEF r, new

\* What a search followed by AddPos leaves: the place is found where the search
\* stopped, and whatever was found before is found where it was.
LEMMA SearchPosAdded ==
  ASSUME NEW vec \in Seq(GPS_POS), NEW p \in Place
  PROVE  LET i   == SearchPos(vec, Len(vec), p)
             new == AddPos(vec, i, Len(vec), p)
         IN  /\ i < Len(new) /\ SearchPos(new, Len(new), p) = i
             /\ \A q : SearchPos(vec, Len(vec), q) < Len(vec) =>
                  /\ SearchPos(new, Len(new), q) = SearchPos(vec, Len(vec), q)
                  /\ SearchPos(new, Len(new), q) < Len(new)
PROOF
<1> DEFINE i   == SearchPos(vec, Len(vec), p)
           new == AddPos(vec, i, Len(vec), p)
           e   == [code |-> ToShort(i), pos |-> p]
<1>1. Len(vec) \in Nat
  OBVIOUS
<1>2. i \in 0 .. Len(vec) /\ \A k \in 0 .. i - 1 : ~isIdenticalPos(vec[k + 1].pos, p)
  BY <1>1, SearchPosBounds, SearchPosIs
<1>3. CASE i # Len(vec)
  <2>1. new = vec /\ i < Len(vec)
    BY <1>1, <1>2, <1>3 DEF AddPos
  <2> QED
    BY <2>1
<1>4. CASE i = Len(vec)
  <2>1. new = Append(vec, e)
    BY <1>4 DEF AddPos
  <2>2. e \in GPS_POS /\ e.pos = p
    BY <1>1, <1>4, ToShortType DEF GPS_POS
  <2> HIDE DEF e
  <2>3. /\ Len(Append(vec, e)) = Len(vec) + 1 /\ Append(vec, e)[Len(vec) + 1] = e
        /\ \A k \in 1 .. Len(vec) : Append(vec, e)[k] = vec[k]
    BY <2>2
  <2>4. \A q : SearchPos(vec, Len(vec), q) < Len(vec) =>
          /\ SearchPos(new, Len(new), q) = SearchPos(vec, Len(vec), q)
          /\ SearchPos(new, Len(new), q) < Len(new)
    <3>1. \A q : SearchPos(vec, Len(vec), q) < Len(vec) =>
            SearchPos(Append(vec, e), Len(Append(vec, e)), q) = SearchPos(vec, Len(vec), q)
      BY <2>2, SearchPosStays
    <3>2. \A q : SearchPos(vec, Len(vec), q) \in Int
      BY <1>1, SearchPosBounds
    <3>3. Len(Append(vec, e)) = Len(vec) + 1
      BY <2>3
    <3>4. ASSUME NEW q, SearchPos(vec, Len(vec), q) < Len(vec)
          PROVE  /\ SearchPos(Append(vec, e), Len(Append(vec, e)), q) = SearchPos(vec, Len(vec), q)
                 /\ SearchPos(Append(vec, e), Len(Append(vec, e)), q) < Len(Append(vec, e))
      BY <1>1, <3>1, <3>2, <3>3, <3>4
    <3> HIDE DEF i, new
    <3> QED
      BY <2>1, <3>4
  <2>5. i < Len(Append(vec, e)) /\ i \in 0 .. Len(Append(vec, e))
    BY <1>1, <1>4, <2>3
  <2>6. isIdenticalPos(Append(vec, e)[i + 1].pos, p)
    BY <1>4, <2>2, <2>3, PlaceAssumption DEF isIdenticalPos
  <2>7. \A k \in 0 .. i - 1 : ~isIdenticalPos(Append(vec, e)[k + 1].pos, p)
    BY <1>1, <1>2, <1>4, <2>3
  <2>8. SearchPos(Append(vec, e), Len(Append(vec, e)), p) = i
    <3> HIDE DEF i
    <3>1. Len(Append(vec, e)) \in Nat
      BY <1>1, <2>3
    <3> QED
      BY <2>5, <2>6, <2>7, <3>1, SearchPosUnique
  <2> QED
    BY <2>1, <2>4, <2>5, <2>8
<1> QED
  BY <1>3, <1>4

\* A place that the search finds is what its code decodes to, up to the
\* distance allowed, in a table whose codes are indices that fit a short.
LEMMA FoundDecodes ==
  ASSUME NEW vec \in Seq(GPS_POS), Len(vec) <= ShortMax + 1,
         \A k \in 1 .. Len(vec) : vec[k].code = ToShort(k - 1),
         NEW p, SearchPos(vec, Len(vec), p) < Len(vec)
  PROVE  isIdenticalPos(getLatLonByCode(vec, ToShort(SearchPos(vec, Len(vec), p))), p)
PROOF
<1> DEFINE i    == SearchPos(vec, Len(vec), p)
           hits == {k \in 1 .. Len(vec) : vec[k].code = ToShort(i)}
<1>1. Len(vec) \in Nat /\ ShortMax \in Nat
  BY PlaceAssumption
<1>2. i \in 0 .. Len(vec) - 1 /\ isIdenticalPos(vec[i + 1].pos, p)
  BY <1>1, SearchPosIs, SearchPosBounds
<1>3. \A n \in 0 .. ShortMax : ToShort(n) = n
  BY <1>1 DEF ToShort, Code
<1> HIDE DEF i
<1>4. hits = {i + 1}
  BY <1>1, <1>2, <1>3
<1>5. (CHOOSE k \in hits : \A j \in hits : k <= j) = i + 1
  BY <1>2, <1>4
<1>6. getLatLonByCode(vec, ToShort(i)) = vec[i + 1].pos
  BY <1>4, <1>5 DEF getLatLonByCode
<1> QED
  BY <1>2, <1>6 DEF i
=============================================================================
