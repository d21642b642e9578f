--------------------------- MODULE ManifestProofs ---------------------------
(***************************************************************************)
(* The manifest keeps its table the inverse of its vector, and so          *)
(* implements the abstract index, for every set of digests and data.       *)
(***************************************************************************)
EXTENDS Manifest, TLAPS

Inv == TypeOK /\ IndexConsistent

LEMMA InitInv == Init => Inv
  BY DEF Init, Inv, TypeOK, IndexConsistent

\* loadWallpaper on a known digest leaves every digest in its slot.
LEMMA ReplaceKeepsInv ==
  ASSUME Inv, NEW h \in Hash, NEW d \in Data, ReplaceInSlot(h, d)
  PROVE  Inv'
<1> DEFINE k == byHash[h] + 1
           w == [hash |-> h, data |-> d]
<1>1. k \in 1..Len(wallpapers) /\ wallpapers[k].hash = h
  BY DEF Inv, TypeOK, IndexConsistent, ReplaceInSlot
<1>2. w \in Wallpaper
  BY DEF Wallpaper
<1>3. wallpapers' = [wallpapers EXCEPT ![k] = w] /\ byHash' = byHash
  BY DEF ReplaceInSlot
<1> HIDE DEF k, w
<1>4. /\ wallpapers' \in Seq(Wallpaper)
      /\ Len(wallpapers') = Len(wallpapers)
      /\ DOMAIN wallpapers' = DOMAIN wallpapers
  BY <1>1, <1>2, <1>3 DEF Inv, TypeOK
<1>5. \A i \in DOMAIN wallpapers' : wallpapers'[i].hash = wallpapers[i].hash
  BY <1>1, <1>3, <1>4 DEF w, Inv, TypeOK
<1>6. TypeOK'
  BY <1>3, <1>4 DEF Inv, TypeOK
<1>7. IndexConsistent'
  BY <1>3, <1>4, <1>5 DEF Inv, TypeOK, IndexConsistent
<1> QED BY <1>6, <1>7 DEF Inv

\* loadWallpaper on a new digest gives it the slot after the last.
LEMMA PushKeepsInv ==
  ASSUME Inv, NEW h \in Hash, NEW d \in Data, PushBack(h, d)
  PROVE  Inv'
<1> DEFINE w == [hash |-> h, data |-> d]
           n == Len(wallpapers)
<1>1. w \in Wallpaper /\ w.hash = h
  BY DEF Wallpaper
<1>2. /\ wallpapers' = Append(wallpapers, w)
      /\ h \notin DOMAIN byHash
      /\ byHash' = [g \in DOMAIN byHash \union {h} |-> IF g = h THEN n ELSE byHash[g]]
  BY DEF PushBack
<1> HIDE DEF w
<1>3. /\ wallpapers' \in Seq(Wallpaper)
      /\ Len(wallpapers') = n + 1
      /\ DOMAIN wallpapers' = 1..(n + 1)
      /\ DOMAIN wallpapers = 1..n
      /\ n \in Nat
      /\ \A i \in 1..n : wallpapers'[i] = wallpapers[i]
      /\ wallpapers'[n + 1] = w
  BY <1>1, <1>2 DEF Inv, TypeOK
<1>4. TypeOK'
  BY <1>2, <1>3 DEF Inv, TypeOK
<1>5. ASSUME NEW i \in DOMAIN wallpapers'
      PROVE  /\ wallpapers'[i].hash \in DOMAIN byHash'
             /\ byHash'[wallpapers'[i].hash] = i - 1
  <2>1. CASE i = n + 1
    BY <1>1, <1>2, <1>3, <2>1
  <2>2. CASE i \in 1..n
    BY <1>2, <1>3, <2>2 DEF Inv, IndexConsistent
  <2> QED BY <1>3, <2>1, <2>2
<1>6. ASSUME NEW g \in DOMAIN byHash'
      PROVE  /\ byHash'[g] < Len(wallpapers')
             /\ wallpapers'[byHash'[g] + 1].hash = g
  <2>1. CASE g = h
    BY <1>1, <1>2, <1>3, <2>1
  <2>2. CASE g # h
    <3>1. /\ g \in DOMAIN byHash
          /\ byHash'[g] = byHash[g]
      BY <1>2, <2>2
    <3>2. byHash[g] \in Nat /\ byHash[g] < n /\ wallpapers[byHash[g] + 1].hash = g
      BY <3>1 DEF Inv, TypeOK, IndexConsistent
    <3> QED BY <1>3, <3>1, <3>2
  <2> QED BY <2>1, <2>2
<1>7. IndexConsistent'
  BY <1>5, <1>6 DEF IndexConsistent
<1> QED BY <1>4, <1>7 DEF Inv

\* What deleteWallpaper leaves behind under the invariant: every slot but the
\* freed one keeps its wallpaper, and the freed one, unless it was the last,
\* holds the wallpaper that was last.
LEMMA DeleteSlots ==
  ASSUME Inv, NEW h \in Hash, DeleteWallpaper(h)
  PROVE  LET k == byHash[h] + 1
             n == Len(wallpapers)
         IN /\ n \in Nat /\ k \in 1..n
            /\ wallpapers \in Seq(Wallpaper)
            /\ wallpapers[k].hash = h
            /\ wallpapers' \in Seq(Wallpaper)
            /\ Len(wallpapers') = n - 1
            /\ \A i \in 1..(n - 1) :
                 wallpapers'[i] = wallpapers[IF i = k THEN n ELSE i]
            /\ byHash' = [g \in DOMAIN byHash \ {h} |->
                            IF g = wallpapers[n].hash THEN k - 1 ELSE byHash[g]]
<1> DEFINE k == byHash[h] + 1
           n == Len(wallpapers)
           moved == [wallpapers EXCEPT ![k] = wallpapers[n]]
<1>1. /\ wallpapers \in Seq(Wallpaper) /\ n \in Nat /\ k \in 1..n
      /\ wallpapers[k].hash = h
      /\ byHash[h] \in Nat /\ byHash[h] < n
  BY DEF Inv, TypeOK, IndexConsistent, DeleteWallpaper
<1>2. /\ wallpapers' = SubSeq(moved, 1, n - 1)
      /\ byHash' = [g \in DOMAIN byHash \ {h} |->
                      IF g = wallpapers[n].hash THEN k - 1 ELSE byHash[g]]
  BY <1>1 DEF DeleteWallpaper
<1> HIDE DEF k
<1>3. /\ moved \in Seq(Wallpaper)
      /\ Len(moved) = n
      /\ \A i \in 1..n : moved[i] = wallpapers[IF i = k THEN n ELSE i]
  <2>1. wallpapers[n] \in Wallpaper
    BY <1>1
  <2> QED BY <1>1, <2>1
<1> HIDE DEF moved
<1>4. /\ wallpapers' \in Seq(Wallpaper)
      /\ Len(wallpapers') = n - 1
      /\ \A i \in 1..(n - 1) : wallpapers'[i] = moved[i]
  BY <1>1, <1>2, <1>3
<1> QED BY <1>1, <1>2, <1>3, <1>4 DEF k

LEMMA DeleteKeepsInv ==
  ASSUME Inv, NEW h \in Hash, DeleteWallpaper(h)
  PROVE  Inv'
<1> DEFINE k == byHash[h] + 1
           n == Len(wallpapers)
<1>1. /\ n \in Nat /\ k \in 1..n
      /\ wallpapers \in Seq(Wallpaper)
      /\ wallpapers[k].hash = h
      /\ wallpapers' \in Seq(Wallpaper)
      /\ Len(wallpapers') = n - 1
      /\ \A i \in 1..(n - 1) :
           wallpapers'[i] = wallpapers[IF i = k THEN n ELSE i]
      /\ byHash' = [g \in DOMAIN byHash \ {h} |->
                      IF g = wallpapers[n].hash THEN k - 1 ELSE byHash[g]]
  BY DeleteSlots
<1>2. /\ \A i \in 1..n : /\ wallpapers[i].hash \in DOMAIN byHash
                         /\ byHash[wallpapers[i].hash] = i - 1
      /\ \A g \in DOMAIN byHash : /\ byHash[g] \in Nat
                                  /\ byHash[g] < n
                                  /\ wallpapers[byHash[g] + 1].hash = g
  BY <1>1 DEF Inv, TypeOK, IndexConsistent
<1>3. /\ h \in DOMAIN byHash /\ DOMAIN byHash \subseteq Hash
      /\ byHash[h] = k - 1
  BY <1>1, <1>2 DEF DeleteWallpaper, Inv, TypeOK
<1>4. DOMAIN wallpapers' = 1..(n - 1) /\ DOMAIN byHash' = DOMAIN byHash \ {h}
  BY <1>1
<1> HIDE DEF k, n
<1>5. TypeOK'
  BY <1>1, <1>2, <1>3 DEF TypeOK
<1>6. ASSUME NEW i \in DOMAIN wallpapers'
      PROVE  /\ wallpapers'[i].hash \in DOMAIN byHash'
             /\ byHash'[wallpapers'[i].hash] = i - 1
  <2> DEFINE j == IF i = k THEN n ELSE i
  <2>1. i \in 1..(n - 1) /\ j \in 1..n /\ j # k /\ wallpapers'[i] = wallpapers[j]
    BY <1>1, <1>4
  <2>2. wallpapers[j].hash \in DOMAIN byHash /\ byHash[wallpapers[j].hash] = j - 1
    BY <1>2, <2>1
  <2>3. wallpapers[j].hash \in DOMAIN byHash'
    BY <1>1, <1>3, <1>4, <2>1, <2>2
  <2>4. CASE i = k
    BY <1>1, <2>1, <2>3, <2>4
  <2>5. CASE i # k
    <3>1. i # n /\ byHash[wallpapers[i].hash] = i - 1
      BY <1>1, <2>1, <2>2, <2>5
    <3>2. byHash[wallpapers[n].hash] = n - 1
      <4>1. n \in 1..n
        BY <1>1
      <4> QED BY <1>2, <4>1
    <3>3. wallpapers[n].hash # wallpapers[i].hash
      BY <1>1, <2>1, <3>1, <3>2
    <3> QED BY <1>1, <2>1, <2>2, <2>3, <2>5, <3>3
  <2> QED BY <2>4, <2>5
<1>7. ASSUME NEW g \in DOMAIN byHash'
      PROVE  /\ byHash'[g] < Len(wallpapers')
             /\ wallpapers'[byHash'[g] + 1].hash = g
  <2>1. g \in DOMAIN byHash /\ g # h
    BY <1>4
  <2>2. byHash[g] \in Nat /\ byHash[g] < n /\ wallpapers[byHash[g] + 1].hash = g
    BY <1>2, <2>1
  <2>3. byHash[g] # k - 1
    BY <1>1, <2>1, <2>2
  <2>4. CASE g = wallpapers[n].hash
    <3>1. byHash[g] = n - 1 /\ byHash'[g] = k - 1
      BY <1>1, <1>2, <1>4, <2>4
    <3>2. k \in 1..(n - 1)
      BY <1>1, <2>3, <3>1
    <3> QED BY <1>1, <2>4, <3>1, <3>2
  <2>5. CASE g # wallpapers[n].hash
    <3>1. byHash'[g] = byHash[g] /\ byHash[g] # n - 1
      BY <1>1, <1>4, <2>2, <2>5
    <3>2. byHash[g] + 1 \in 1..(n - 1) /\ byHash[g] + 1 # k
      BY <1>1, <2>2, <2>3, <3>1
    <3> QED BY <1>1, <2>2, <3>1, <3>2
  <2> QED BY <2>4, <2>5
<1>8. IndexConsistent'
  BY <1>6, <1>7 DEF IndexConsistent
<1> QED BY <1>5, <1>8 DEF Inv

LEMMA EditKeepsInv ==
  ASSUME Inv, NEW h \in Hash, NEW d \in Data, EditFirst(h, d)
  PROVE  Inv'
<1>1. PICK i \in DOMAIN wallpapers :
        /\ wallpapers' = [wallpapers EXCEPT ![i].data = d]
        /\ byHash' = byHash
  BY DEF EditFirst
<1>2. wallpapers \in Seq(Wallpaper) /\ wallpapers[i] \in Wallpaper
  BY <1>1 DEF Inv, TypeOK
<1> DEFINE w == [wallpapers[i] EXCEPT !.data = d]
<1>3. w \in Wallpaper /\ w.hash = wallpapers[i].hash
  BY <1>2 DEF Wallpaper
<1>4. wallpapers' = [wallpapers EXCEPT ![i] = w]
  BY <1>1
<1> HIDE DEF w
<1>5. /\ wallpapers' \in Seq(Wallpaper)
      /\ Len(wallpapers') = Len(wallpapers)
      /\ DOMAIN wallpapers' = DOMAIN wallpapers
      /\ \A j \in DOMAIN wallpapers : wallpapers'[j].hash = wallpapers[j].hash
  BY <1>2, <1>3, <1>4
<1>6. TypeOK'
  BY <1>1, <1>5 DEF Inv, TypeOK
<1>7. IndexConsistent'
  BY <1>1, <1>5 DEF Inv, TypeOK, IndexConsistent
<1> QED BY <1>6, <1>7 DEF Inv

LEMMA StepKeepsInv == Inv /\ [Next]_vars => Inv'
<1> SUFFICES ASSUME Inv, [Next]_vars
             PROVE  Inv'
  OBVIOUS
<1>1. CASE Next
  <2>1. PICK h \in Hash : \/ DeleteWallpaper(h)
                          \/ \E d \in Data : LoadWallpaper(h, d) \/ EditFirst(h, d)
    BY <1>1 DEF Next
  <2>2. CASE DeleteWallpaper(h)
    BY <2>2, DeleteKeepsInv
  <2>3. ASSUME NEW d \in Data, LoadWallpaper(h, d)
        PROVE  Inv'
    BY <2>3, ReplaceKeepsInv, PushKeepsInv DEF LoadWallpaper
  <2>4. ASSUME NEW d \in Data, EditFirst(h, d)
        PROVE  Inv'
    BY <2>4, EditKeepsInv
  <2> QED BY <2>1, <2>2, <2>3, <2>4
<1>2. CASE UNCHANGED vars
  BY <1>2 DEF vars, Inv, TypeOK, IndexConsistent
<1> QED BY <1>1, <1>2

\* The vector and the table keep their types: in particular no slot computed by
\* a push or a swap is below zero, so no std::size_t wraps.
THEOREM TypeCorrect == Spec => []TypeOK
<1>1. Inv => TypeOK
  BY DEF Inv
<1> QED BY InitInv, StepKeepsInv, <1>1, PTL DEF Spec

\* After any history of loads, deletes and edits the byHash table is the inverse
\* of the wallpaper vector.
THEOREM TableInvertsVector == Spec => []IndexConsistent
<1>1. Inv => IndexConsistent
  BY DEF Inv
<1> QED BY InitInv, StepKeepsInv, <1>1, PTL DEF Spec

LEMMA InvMakesFindExact == Inv => FindExact
<1> SUFFICES ASSUME Inv, NEW h \in Hash
             PROVE  Find(h) = {w \in Held : w.hash = h}
  BY DEF FindExact
<1>1. CASE h \in DOMAIN byHash
  <2> DEFINE k == byHash[h] + 1
  <2>1. k \in DOMAIN wallpapers /\ wallpapers[k].hash = h /\ Find(h) = {wallpapers[k]}
    BY <1>1 DEF Inv, TypeOK, IndexConsistent, Find
  <2>2. ASSUME NEW i \in DOMAIN wallpapers, wallpapers[i].hash = h
        PROVE  i = k
    BY <2>2 DEF Inv, TypeOK, IndexConsistent
  <2> HIDE DEF k
  <2> QED BY <2>1, <2>2 DEF Held
<1>2. CASE h \notin DOMAIN byHash
  BY <1>2 DEF Inv, IndexConsistent, Find, Held
<1> QED BY <1>1, <1>2

\* Manifest::find answers for the digest it is asked about, and finds it whenever
\* some slot of the vector holds it.
THEOREM FindIsExact == Spec => []FindExact
  BY InitInv, StepKeepsInv, InvMakesFindExact, PTL DEF Spec

-----------------------------------------------------------------------------
(* The manifest implements the abstract index.                             *)

\* What a delete forgets: exactly the wallpaper with the digest.
LEMMA DeleteDrops ==
  ASSUME Inv, NEW h \in Hash, DeleteWallpaper(h)
  PROVE  Index!Drop(h)
<1> DEFINE k == byHash[h] + 1
           n == Len(wallpapers)
<1>1. /\ n \in Nat /\ k \in 1..n
      /\ wallpapers \in Seq(Wallpaper)
      /\ wallpapers[k].hash = h
      /\ wallpapers' \in Seq(Wallpaper)
      /\ Len(wallpapers') = n - 1
      /\ \A i \in 1..(n - 1) :
           wallpapers'[i] = wallpapers[IF i = k THEN n ELSE i]
  BY DeleteSlots
<1>2. \A i \in 1..n : wallpapers[i].hash = h => i = k
  BY <1>1 DEF Inv, TypeOK, IndexConsistent
<1> HIDE DEF k, n
<1>3. DOMAIN wallpapers = 1..n /\ DOMAIN wallpapers' = 1..(n - 1)
  BY <1>1 DEF n
<1>4. ASSUME NEW w \in Held'
      PROVE  w \in Held /\ w.hash # h
  <2>1. PICK i \in 1..(n - 1) : w = wallpapers'[i]
    BY <1>3 DEF Held
  <2> DEFINE j == IF i = k THEN n ELSE i
  <2>2. j \in 1..n /\ j # k /\ w = wallpapers[j]
    BY <1>1, <2>1
  <2> QED BY <1>2, <1>3, <2>2 DEF Held
<1>5. ASSUME NEW w \in Held, w.hash # h
      PROVE  w \in Held'
  <2>1. PICK j \in 1..n : w = wallpapers[j]
    BY <1>3 DEF Held
  <2>2. j # k
    BY <1>1, <1>5, <2>1
  <2> DEFINE i == IF j = n THEN k ELSE j
  <2>3. i \in 1..(n - 1) /\ (IF i = k THEN n ELSE i) = j
    BY <1>1, <2>1, <2>2
  <2>4. w = wallpapers'[i]
    BY <1>1, <2>1, <2>3
  <2> QED BY <1>3, <2>3, <2>4 DEF Held
<1> QED BY <1>4, <1>5 DEF Index!Drop, Index!Without

\* What a load and an edit put: the wallpaper under its digest, in place of the
\* one tracked before.
LEMMA ReplacePuts ==
  ASSUME Inv, NEW k \in DOMAIN wallpapers, NEW w \in Wallpaper,
         wallpapers[k].hash = w.hash,
         wallpapers' = [wallpapers EXCEPT ![k] = w]
  PROVE  Index!Put(w)
<1>1. \A i \in DOMAIN wallpapers : wallpapers[i].hash = w.hash => i = k
  BY DEF Inv, TypeOK, IndexConsistent
<1>2. /\ DOMAIN wallpapers' = DOMAIN wallpapers
      /\ wallpapers'[k] = w
      /\ \A i \in DOMAIN wallpapers : i # k => wallpapers'[i] = wallpapers[i]
  BY DEF Inv, TypeOK
<1>3. Held' = {v \in Held : v.hash # w.hash} \union {w}
  BY <1>1, <1>2 DEF Held
<1> QED BY <1>3 DEF Index!Put, Index!Without

LEMMA PushPuts ==
  ASSUME Inv, NEW h \in Hash, NEW d \in Data, PushBack(h, d)
  PROVE  Index!Put([hash |-> h, data |-> d])
<1> DEFINE w == [hash |-> h, data |-> d]
           n == Len(wallpapers)
<1>1. \A i \in DOMAIN wallpapers : wallpapers[i].hash # h
  BY DEF Inv, IndexConsistent, PushBack
<1>2. /\ n \in Nat /\ DOMAIN wallpapers = 1..n
      /\ DOMAIN wallpapers' = 1..(n + 1)
      /\ \A i \in 1..n : wallpapers'[i] = wallpapers[i]
      /\ wallpapers'[n + 1] = w
  BY DEF Inv, TypeOK, PushBack, Wallpaper
<1> HIDE DEF w, n
<1>3. Held' = Held \union {w}
  BY <1>2 DEF Held
<1>4. \A v \in Held : v.hash # h
  BY <1>1 DEF Held
<1>5. w.hash = h
  BY DEF w
<1> QED BY <1>3, <1>4, <1>5 DEF Index!Put, Index!Without, w

LEMMA LoadPuts ==
  ASSUME Inv, NEW h \in Hash, NEW d \in Data, LoadWallpaper(h, d)
  PROVE  Index!Put([hash |-> h, data |-> d])
<1> DEFINE w == [hash |-> h, data |-> d]
           k == byHash[h] + 1
<1>1. w \in Wallpaper /\ w.hash = h
  BY DEF Wallpaper
<1>2. CASE PushBack(h, d)
  BY <1>2, PushPuts
<1>3. CASE ReplaceInSlot(h, d)
  <2>1. /\ k \in DOMAIN wallpapers /\ wallpapers[k].hash = h
        /\ wallpapers' = [wallpapers EXCEPT ![k] = w]
    BY <1>3 DEF ReplaceInSlot, Inv, TypeOK, IndexConsistent
  <2> HIDE DEF k, w
  <2>2. Index!Put(w)
    BY <1>1, <2>1, ReplacePuts
  <2> QED BY <2>2 DEF w
<1> QED BY <1>2, <1>3 DEF LoadWallpaper

LEMMA EditPuts ==
  ASSUME Inv, NEW h \in Hash, NEW d \in Data, EditFirst(h, d)
  PROVE  Index!Put([hash |-> h, data |-> d])
<1> DEFINE w == [hash |-> h, data |-> d]
<1>1. w \in Wallpaper /\ w.hash = h
  BY DEF Wallpaper
<1>2. PICK k \in DOMAIN wallpapers :
        wallpapers[k].hash = h /\ wallpapers' = [wallpapers EXCEPT ![k].data = d]
  BY DEF EditFirst
<1>3. wallpapers[k] \in Wallpaper
  BY DEF Inv, TypeOK
<1>4. wallpapers' = [wallpapers EXCEPT ![k] = w]
  <2>1. [wallpapers[k] EXCEPT !.data = d] = w
    BY <1>2, <1>3 DEF Wallpaper
  <2> QED BY <1>2, <2>1
<1> HIDE DEF w
<1>5. Index!Put(w)
  BY <1>1, <1>2, <1>4, ReplacePuts
<1> QED BY <1>5 DEF w

LEMMA CallsAreTheirOwn == Inv => EachCall
  BY DeleteDrops, LoadPuts, EditPuts DEF EachCall

LEMMA StepRefines == Inv /\ [Next]_vars => [Index!Next]_Held
<1> SUFFICES ASSUME Inv, [Next]_vars
             PROVE  Index!Next \/ Held' = Held
  OBVIOUS
<1>1. CASE Next
  <2>1. PICK h \in Hash : \/ DeleteWallpaper(h)
                          \/ \E d \in Data : LoadWallpaper(h, d) \/ EditFirst(h, d)
    BY <1>1 DEF Next
  <2>2. CASE DeleteWallpaper(h)
    BY <2>2, DeleteDrops DEF Index!Next
  <2>3. ASSUME NEW d \in Data, LoadWallpaper(h, d) \/ EditFirst(h, d)
        PROVE  Index!Next
    <3> DEFINE w == [hash |-> h, data |-> d]
    <3>1. w \in Index!Wallpaper
      BY DEF Index!Wallpaper
    <3>2. Index!Put(w)
      BY <2>3, LoadPuts, EditPuts
    <3> HIDE DEF w
    <3> QED BY <3>1, <3>2 DEF Index!Next
  <2> QED BY <2>1, <2>2, <2>3
<1>2. CASE UNCHANGED vars
  BY <1>2 DEF vars, Held
<1> QED BY <1>1, <1>2

\* Seen as a set, the vector with its table behaves as the abstract index: every
\* delete drops the digest it is called for, and every load and edit puts the
\* wallpaper it is called with, leaving all the others as they were.
THEOREM ManifestImplementsIndex == Spec => ImplementsIndex
<1>1. Init => Index!Init
  BY DEF Init, Index!Init, Held
<1> QED BY InitInv, StepKeepsInv, StepRefines, CallsAreTheirOwn, <1>1, PTL
        DEF Spec, ImplementsIndex, Index!Spec
=============================================================================
