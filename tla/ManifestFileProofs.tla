------------------------- MODULE ManifestFileProofs -------------------------
(***************************************************************************)
(* The format of the manifest file, for any manifest: what save writes is  *)
(* read back as it was, and a file cut short after any field is refused.   *)
(* A reader over a file that was cut is at the field a reader of the whole *)
(* file would be at, or it has thrown and stays so.                        *)
(***************************************************************************)
EXTENDS ManifestFile, ManifestProofs, FiniteSetTheorems

-----------------------------------------------------------------------------
(* Where a reader is.                                                      *)

\* The fields w are in the file F after the first o.
Holds(F, o, w) ==
  /\ o + Len(w) <= Len(F)
  /\ \A i \in 1..Len(w) : F[o + i] = w[i]

\* The reader r of the first n fields of F has got v and is after the first o fields;
\* it has thrown when there are not that many.
Bytes(F, n) == SubSeq(F, 1, n)

Thrown(F, n, r) ==
  \E offset, got : r = Reader(Bytes(F, n), offset, FALSE, got)

After(F, n, r, o, v) ==
  /\ o <= n => r = Reader(Bytes(F, n), o, TRUE, v)
  /\ o > n => Thrown(F, n, r)

LEMMA ConcatLength ==
  ASSUME NEW V, NEW u \in Seq(V), NEW w \in Seq(V)
  PROVE  u \o w \in Seq(V) /\ Len(u \o w) = Len(u) + Len(w)
  OBVIOUS

LEMMA HoldsBoth ==
  ASSUME NEW V, NEW F \in Seq(V), NEW o \in Nat, NEW u \in Seq(V), NEW w \in Seq(V),
         Holds(F, o, u \o w)
  PROVE  Holds(F, o, u) /\ Holds(F, o + Len(u), w)
<1>1. Len(u \o w) = Len(u) + Len(w) /\ Len(u) \in Nat /\ Len(w) \in Nat
  OBVIOUS
<1>2. \A i \in 1..Len(u) : (u \o w)[i] = u[i]
  OBVIOUS
<1>3. ASSUME NEW i \in 1..Len(w)
      PROVE  F[(o + Len(u)) + i] = w[i]
  <2>1. (u \o w)[Len(u) + i] = w[i] /\ Len(u) + i \in 1..Len(u \o w)
    BY <1>1
  <2>2. F[o + (Len(u) + i)] = w[i]
    BY <2>1 DEF Holds
  <2>3. o + (Len(u) + i) = (o + Len(u)) + i
    BY <1>1
  <2> QED BY <2>2, <2>3
<1>4. o + Len(u) <= Len(F) /\ (o + Len(u)) + Len(w) <= Len(F) /\ 1..Len(u) \subseteq 1..Len(u \o w)
  BY <1>1 DEF Holds
<1> QED BY <1>1, <1>2, <1>3, <1>4 DEF Holds

LEMMA CutBytes ==
  ASSUME NEW V, NEW F \in Seq(V), NEW n \in 0..Len(F)
  PROVE  /\ Bytes(F, n) \in Seq(V)
         /\ Len(Bytes(F, n)) = n
         /\ \A i \in 1..n : Bytes(F, n)[i] = F[i]
  BY DEF Bytes

LEMMA NextFields ==
  ASSUME NEW V, NEW b \in Seq(V), NEW o \in Nat, NEW k \in Nat, o + k <= Len(b)
  PROVE  /\ SubSeq(b, o + 1, o + k) \in Seq(V)
         /\ Len(SubSeq(b, o + 1, o + k)) = k
         /\ \A i \in 1..k : SubSeq(b, o + 1, o + k)[i] = b[o + i]
<1>1. Len(SubSeq(b, o + 1, o + k)) = k
  OBVIOUS
<1>2. SubSeq(b, o + 1, o + k) \in Seq(V)
  OBVIOUS
<1>3. ASSUME NEW i \in 1..k
      PROVE  SubSeq(b, o + 1, o + k)[i] = b[o + i]
  OBVIOUS
<1> QED BY <1>1, <1>2, <1>3

\* A reader that has thrown gets nothing more.
LEMMA ThrownStays ==
  ASSUME NEW F, NEW n, NEW r, Thrown(F, n, r), NEW size
  PROVE  Thrown(F, n, ReadRaw(r, size)) /\ ReadRaw(r, size).got = <<0>>
<1>1. PICK offset, got : r = Reader(Bytes(F, n), offset, FALSE, got)
  BY DEF Thrown
<1>2. r.ok = FALSE /\ r.buffer = Bytes(F, n) /\ r.offset = offset
  BY <1>1 DEF Reader
<1>3. ReadRaw(r, size) = Reader(Bytes(F, n), offset, FALSE, <<0>>)
  BY <1>2 DEF ReadRaw
<1>4. ReadRaw(r, size).got = <<0>>
  BY <1>3 DEF Reader
<1> QED BY <1>3, <1>4, Zenon DEF Thrown

\* readRaw reads the next fields, or throws when they are not all there.
LEMMA RawAfter ==
  ASSUME NEW V, NEW F \in Seq(V), NEW n \in 0..Len(F), NEW o \in Nat, NEW w \in Seq(V),
         Holds(F, o, w),
         NEW r, NEW x, After(F, n, r, o, x), NEW size \in Nat, o <= n => size = Len(w)
  PROVE  /\ After(F, n, ReadRaw(r, size), o + Len(w), w)
         /\ o + Len(w) > n => ReadRaw(r, size).got = <<0>>
<1> DEFINE b == Bytes(F, n)
           k == Len(w)
           s == SubSeq(b, o + 1, o + k)
<1>1. Len(F) \in Nat /\ Len(w) \in Nat /\ n \in Nat
  OBVIOUS
<1>2. b \in Seq(V) /\ Len(b) = n /\ \A i \in 1..n : b[i] = F[i]
  BY CutBytes
<1> HIDE DEF b
<1>3. CASE o > n
  <2>1. Thrown(F, n, ReadRaw(r, size)) /\ ReadRaw(r, size).got = <<0>>
    BY <1>3, ThrownStays DEF After
  <2>2. ~(o + Len(w) <= n)
    BY <1>1, <1>3
  <2> QED BY <2>1, <2>2 DEF After
<1>4. CASE o <= n
  <2>1. r = Reader(b, o, TRUE, x) /\ size = Len(w)
    BY <1>4 DEF After, b
  <2>2. r.buffer = b /\ r.offset = o /\ r.ok = TRUE
    BY <2>1 DEF Reader
  <2>3. CASE o + Len(w) <= n
    <3>1. s = w
      <4>1. s \in Seq(V) /\ Len(s) = Len(w) /\ \A i \in 1..Len(w) : s[i] = b[o + i]
        <5>1. b \in Seq(V) /\ Len(w) \in Nat /\ o + Len(w) <= Len(b)
          BY <1>1, <1>2, <2>3
        <5> HIDE DEF k
        <5>2. /\ SubSeq(b, o + 1, o + k) \in Seq(V)
              /\ Len(SubSeq(b, o + 1, o + k)) = k
              /\ \A i \in 1..k : SubSeq(b, o + 1, o + k)[i] = b[o + i]
          <6>1. k \in Nat /\ o + k <= Len(b)
            BY <5>1 DEF k
          <6> QED BY <5>1, <6>1, NextFields, Zenon
        <5> QED BY <5>2 DEF s, k
      <4> HIDE DEF s
      <4>2. ASSUME NEW i \in 1..Len(w)
            PROVE  s[i] = w[i]
        <5>1. o + i \in 1..n
          BY <1>1, <2>3
        <5>2. b[o + i] = w[i]
          BY <1>2, <5>1 DEF Holds
        <5> QED BY <4>1, <5>2
      <4>3. s = [i \in 1..Len(w) |-> s[i]] /\ w = [i \in 1..Len(w) |-> w[i]]
        BY <4>1
      <4> QED BY <4>2, <4>3, Zenon
    <3>2. ReadRaw(r, size) = Reader(b, o + Len(w), TRUE, s)
      BY <1>2, <2>1, <2>2, <2>3 DEF ReadRaw
    <3>3. ~(o + Len(w) > n)
      BY <1>1, <2>3
    <3> HIDE DEF s
    <3> QED BY <2>3, <3>1, <3>2, <3>3 DEF After, b
  <2>4. CASE o + Len(w) > n
    <3>1. ~(r.offset + size <= Len(r.buffer))
      <4>1. size = Len(w)
        BY <1>4
      <4> QED BY <1>1, <1>2, <2>2, <2>4, <4>1
    <3>2. ReadRaw(r, size) = Reader(b, o, FALSE, <<0>>)
      BY <2>2, <3>1 DEF ReadRaw
    <3>3. ReadRaw(r, size).got = <<0>>
      BY <3>2 DEF Reader
    <3>4. Thrown(F, n, ReadRaw(r, size))
      BY <3>2, Zenon DEF Thrown, b
    <3>5. ~(o + Len(w) <= n)
      BY <1>1, <2>4
    <3> QED BY <3>3, <3>4, <3>5 DEF After
  <2> QED BY <1>1, <2>3, <2>4
<1> QED BY <1>1, <1>3, <1>4

LEMMA PodAfter ==
  ASSUME NEW V, NEW F \in Seq(V), NEW n \in 0..Len(F), NEW o \in Nat, NEW v \in V,
         Holds(F, o, <<v>>), NEW r, NEW x, After(F, n, r, o, x)
  PROVE  /\ After(F, n, ReadPod(r), o + 1, <<v>>)
         /\ o + 1 > n => ReadPod(r).got = <<0>>
<1> DEFINE w == <<v>>
           size == 1
<1>1. w \in Seq(V) /\ Len(w) = 1
  OBVIOUS
<1>2. Holds(F, o, w) /\ size \in Nat /\ (o <= n => size = Len(w))
  BY <1>1
<1> HIDE DEF w, size
<1>3. /\ After(F, n, ReadRaw(r, size), o + Len(w), w)
      /\ o + Len(w) > n => ReadRaw(r, size).got = <<0>>
  BY <1>1, <1>2, RawAfter, Zenon
<1>4. o + Len(w) = o + 1
  BY <1>1
<1>5. \A e : e = o + Len(w) => /\ After(F, n, ReadRaw(r, size), e, w)
                               /\ e > n => ReadRaw(r, size).got = <<0>>
  BY <1>3
<1>6. /\ After(F, n, ReadRaw(r, size), o + 1, w)
      /\ o + 1 > n => ReadRaw(r, size).got = <<0>>
  BY <1>4, <1>5, Zenon
<1> QED BY <1>6 DEF ReadPod, w, size

\* The value a reader that has not thrown makes of what it got.
LEMMA GotAfter ==
  ASSUME NEW F, NEW n, NEW o, NEW r, NEW x, After(F, n, r, o, x), NEW v, NEW w,
         o <= n => v = w
  PROVE  After(F, n, Got(r, v), o, w)
<1>1. ASSUME o <= n
      PROVE  Got(r, v) = Reader(Bytes(F, n), o, TRUE, w)
  <2>1. r = Reader(Bytes(F, n), o, TRUE, x) /\ v = w
    BY <1>1 DEF After
  <2>2. r.buffer = Bytes(F, n) /\ r.offset = o /\ r.ok = TRUE
    BY <2>1 DEF Reader
  <2> QED BY <2>1, <2>2 DEF Got
<1>2. ASSUME o > n
      PROVE  Thrown(F, n, Got(r, v))
  <2>1. PICK offset, got : r = Reader(Bytes(F, n), offset, FALSE, got)
    BY <1>2 DEF After, Thrown
  <2>2. Got(r, v) = Reader(Bytes(F, n), offset, FALSE, v)
    BY <2>1 DEF Got, Reader
  <2> QED BY <2>2 DEF Thrown
<1> QED BY <1>1, <1>2 DEF After

-----------------------------------------------------------------------------
(* Strings, optionals and wallpapers.                                      *)

\* The value of a pod, or the 0 of a reader that threw.
LEMMA PodValue ==
  ASSUME NEW V, NEW F \in Seq(V), NEW n \in 0..Len(F), NEW o \in Nat, NEW v \in V,
         Holds(F, o, <<v>>), NEW r, NEW x, After(F, n, r, o, x)
  PROVE  /\ o + 1 <= n => ReadPod(r).got = <<v>> /\ ReadPod(r).got[1] = v
         /\ o + 1 > n => ReadPod(r).got[1] = 0
<1>1. /\ After(F, n, ReadPod(r), o + 1, <<v>>)
      /\ o + 1 > n => ReadPod(r).got = <<0>>
  BY PodAfter
<1>2. CASE o + 1 <= n
  <2>1. ReadPod(r) = Reader(Bytes(F, n), o + 1, TRUE, <<v>>)
    BY <1>1, <1>2 DEF After
  <2>2. ReadPod(r).got = <<v>>
    BY <2>1 DEF Reader
  <2> QED BY <1>2, <2>2
<1>3. CASE o + 1 > n
  <2>1. ~(o + 1 <= n)
    BY <1>3
  <2> QED BY <1>1, <1>3, <2>1
<1> QED BY <1>2, <1>3

LEMMA PodRead ==
  ASSUME NEW V, NEW F \in Seq(V), NEW n \in 0..Len(F), NEW o \in Nat, NEW v \in V,
         Holds(F, o, <<v>>), NEW r, NEW x, After(F, n, r, o, x), NEW e, e = o + 1
  PROVE  /\ After(F, n, ReadPod(r), e, <<v>>)
         /\ e <= n => ReadPod(r).got = <<v>> /\ ReadPod(r).got[1] = v
         /\ e > n => ReadPod(r).got[1] = 0
  BY PodAfter, PodValue

LEMMA StringAfter ==
  ASSUME NEW V, Nat \subseteq V, NEW F \in Seq(V), NEW n \in 0..Len(F), NEW o \in Nat,
         NEW s \in Seq(V), Holds(F, o, WriteString(s)), NEW r, NEW x, After(F, n, r, o, x)
  PROVE  After(F, n, ReadString(r), o + Len(WriteString(s)), s)
<1> DEFINE k == Len(s)
           size == ReadPod(r)
           got == size.got[1]
<1>1. k \in Nat /\ k \in V /\ <<k>> \in Seq(V) /\ Len(<<k>>) = 1
  OBVIOUS
<1>2. Holds(F, o, <<k>>) /\ Holds(F, o + 1, s)
  BY <1>1, HoldsBoth DEF WriteString
<1>3. After(F, n, size, o + 1, <<k>>) /\ (o + 1 <= n => got = k) /\ (o + 1 > n => got = 0)
  BY <1>1, <1>2, PodAfter, PodValue
<1>4. got \in Nat /\ (o + 1 <= n => got = Len(s)) /\ o + 1 \in Nat
  BY <1>1, <1>3
<1> HIDE DEF size, got
<1>5. After(F, n, ReadRaw(size, got), (o + 1) + Len(s), s)
  BY <1>2, <1>3, <1>4, RawAfter, Zenon
<1>6. o + Len(WriteString(s)) = (o + 1) + Len(s)
  BY <1>1 DEF WriteString
<1> QED BY <1>5, <1>6 DEF ReadString, size, got

\* The tag of an optional, and what a reader makes of it.
LEMMA TagValue ==
  ASSUME NEW V, Nat \subseteq V, NEW F \in Seq(V), NEW n \in 0..Len(F), NEW o \in Nat,
         NEW tag \in {0, 1}, Holds(F, o, <<tag>>), NEW r, NEW x, After(F, n, r, o, x)
  PROVE  /\ After(F, n, ReadPod(r), o + 1, <<tag>>)
         /\ ReadPod(r).got = <<0>> <=> (o + 1 > n \/ tag = 0)
<1>1. tag \in V
  OBVIOUS
<1>2. /\ After(F, n, ReadPod(r), o + 1, <<tag>>)
      /\ o + 1 > n => ReadPod(r).got = <<0>>
      /\ o + 1 <= n => ReadPod(r).got = <<tag>>
  BY <1>1, PodAfter, PodValue
<1>3. <<tag>> = <<0>> <=> tag = 0
  OBVIOUS
<1>4. o + 1 > n \/ o + 1 <= n
  OBVIOUS
<1> QED BY <1>2, <1>3, <1>4

\* Past the end any value will do.
LEMMA AfterEnd ==
  ASSUME NEW F, NEW n \in Nat, NEW o \in Nat, NEW e \in Nat, o > n, e >= o,
         NEW r, NEW x, After(F, n, r, o, x), NEW v
  PROVE  After(F, n, r, e, v)
<1>1. e > n /\ ~(e <= n)
  OBVIOUS
<1> QED BY <1>1 DEF After

LEMMA OptionalStringAfter ==
  ASSUME NEW V, Nat \subseteq V, NEW F \in Seq(V), NEW n \in 0..Len(F), NEW o \in Nat,
         NEW s \in Seq(V) \union {None}, Holds(F, o, WriteOptionalString(s)),
         NEW r, NEW x, After(F, n, r, o, x)
  PROVE  After(F, n, ReadOptionalString(r), o + Len(WriteOptionalString(s)), s)
<1> DEFINE present == ReadPod(r)
<1>1. n \in Nat
  OBVIOUS
<1>2. CASE s = None
  <2>1. Holds(F, o, <<0>>) /\ o + Len(WriteOptionalString(s)) = o + 1
    BY <1>2 DEF WriteOptionalString
  <2>2. After(F, n, present, o + 1, <<0>>) /\ present.got = <<0>>
    BY <2>1, TagValue
  <2>3. After(F, n, Got(present, None), o + 1, s)
    BY <1>2, <2>2, GotAfter
  <2> QED BY <2>1, <2>2, <2>3 DEF ReadOptionalString
<1>3. CASE s # None
  <2> DEFINE w == WriteString(s)
  <2>1. s \in Seq(V) /\ w \in Seq(V)
    <3>1. s \in Seq(V)
      BY <1>3
    <3>2. Len(s) \in V /\ <<Len(s)>> \in Seq(V)
      BY <3>1
    <3> QED BY <3>1, <3>2 DEF WriteString
  <2>2. WriteOptionalString(s) = <<1>> \o w /\ <<1>> \in Seq(V) /\ Len(<<1>>) = 1
    BY <1>3 DEF WriteOptionalString
  <2> HIDE DEF w
  <2>3. Holds(F, o, <<1>>) /\ Holds(F, o + 1, w)
    BY <2>1, <2>2, HoldsBoth
  <2>4. o + Len(WriteOptionalString(s)) = (o + 1) + Len(w) /\ Len(w) \in Nat
    BY <2>1, <2>2
  <2>5. After(F, n, present, o + 1, <<1>>) /\ (present.got = <<0>> <=> o + 1 > n)
    BY <2>3, TagValue
  <2> HIDE DEF present
  <2>6. CASE present.got = <<0>>
    <3>1. After(F, n, Got(present, None), o + 1, None)
      BY <2>5, <2>6, GotAfter, <1>1
    <3>2. After(F, n, Got(present, None), (o + 1) + Len(w), s)
      BY <1>1, <2>4, <2>5, <2>6, <3>1, AfterEnd
    <3> QED BY <2>4, <2>6, <3>2 DEF ReadOptionalString, present
  <2>7. CASE present.got # <<0>>
    <3>1. o + 1 \in Nat /\ Holds(F, o + 1, WriteString(s))
      BY <2>3 DEF w
    <3>2. After(F, n, ReadString(present), (o + 1) + Len(WriteString(s)), s)
      BY <2>1, <2>5, <3>1, StringAfter, Zenon
    <3> QED BY <2>4, <2>7, <3>2 DEF ReadOptionalString, present, w
  <2> QED BY <2>6, <2>7
<1> QED BY <1>2, <1>3

\* What save writes of lastShown.
Shown(at) == IF at = None THEN <<0>> ELSE <<1, at>>

LEMMA LastShownAfter ==
  ASSUME NEW V, Nat \subseteq V, NEW F \in Seq(V), NEW n \in 0..Len(F), NEW o \in Nat,
         NEW l \in V \union {None}, Holds(F, o, Shown(l)),
         NEW r, NEW x, After(F, n, r, o, x)
  PROVE  After(F, n, ReadLastShown(r), o + Len(Shown(l)), l)
<1> DEFINE tag == ReadPod(r)
           at  == ReadPod(tag)
<1>1. n \in Nat
  OBVIOUS
<1>2. CASE l = None
  <2>1. Holds(F, o, <<0>>) /\ o + Len(Shown(l)) = o + 1
    BY <1>2 DEF Shown
  <2>2. After(F, n, tag, o + 1, <<0>>) /\ tag.got = <<0>>
    BY <2>1, TagValue
  <2>3. After(F, n, Got(tag, None), o + 1, l)
    BY <1>2, <2>2, GotAfter
  <2> QED BY <2>1, <2>2, <2>3 DEF ReadLastShown
<1>3. CASE l # None
  <2>1. l \in V /\ <<l>> \in Seq(V) /\ <<1>> \in Seq(V) /\ Len(<<1>>) = 1
    BY <1>3
  <2>2. Shown(l) = <<1>> \o <<l>> /\ o + Len(Shown(l)) = (o + 1) + 1
    BY <1>3 DEF Shown
  <2>3. Holds(F, o, <<1>>) /\ Holds(F, o + 1, <<l>>)
    BY <2>1, <2>2, HoldsBoth
  <2>4. After(F, n, tag, o + 1, <<1>>) /\ (tag.got = <<0>> <=> o + 1 > n)
    BY <2>3, TagValue
  <2> HIDE DEF tag
  <2>5. CASE tag.got = <<0>>
    <3>1. After(F, n, Got(tag, None), o + 1, None)
      BY <2>4, GotAfter
    <3>2. After(F, n, Got(tag, None), (o + 1) + 1, l)
      BY <1>1, <2>4, <2>5, <3>1, AfterEnd
    <3> QED BY <2>2, <2>5, <3>2 DEF ReadLastShown, tag
  <2>6. CASE tag.got # <<0>>
    <3>1. o + 1 \in Nat
      OBVIOUS
    <3>2. /\ After(F, n, at, (o + 1) + 1, <<l>>)
          /\ (o + 1) + 1 <= n => at.got[1] = l
      BY <2>1, <2>3, <2>4, <3>1, PodRead
    <3> HIDE DEF at
    <3>4. After(F, n, Got(at, at.got[1]), (o + 1) + 1, l)
      BY <3>2, GotAfter
    <3> QED BY <2>2, <2>6, <3>4 DEF ReadLastShown, tag, at
  <2> QED BY <2>5, <2>6
<1> QED BY <1>2, <1>3

\* The fields of a wallpaper that save writes.
Fields(V) == [absPath : Seq(V), hash : V, createdAt : V, visibility : V,
              lastShown : V \union {None}]

LEMMA WriteWallpaperType ==
  ASSUME NEW V, Nat \subseteq V, NEW w \in Fields(V)
  PROVE  /\ WriteWallpaper(w) \in Seq(V)
         /\ WriteString(w.absPath) \in Seq(V)
         /\ <<w.hash, w.createdAt, w.visibility>> \in Seq(V)
         /\ Shown(w.lastShown) \in Seq(V)
         /\ WriteWallpaper(w) = (WriteString(w.absPath) \o <<w.hash, w.createdAt, w.visibility>>)
                                  \o Shown(w.lastShown)
<1>1. w.absPath \in Seq(V) /\ w.hash \in V /\ w.createdAt \in V /\ w.visibility \in V
      /\ w.lastShown \in V \union {None}
  BY DEF Fields
<1>2. WriteString(w.absPath) \in Seq(V)
  <2>1. Len(w.absPath) \in V
    BY <1>1
  <2> QED BY <1>1, <2>1 DEF WriteString
<1>3. <<w.hash, w.createdAt, w.visibility>> \in Seq(V)
  BY <1>1
<1>4. Shown(w.lastShown) \in Seq(V)
  BY <1>1 DEF Shown
<1>5. WriteWallpaper(w) = (WriteString(w.absPath) \o <<w.hash, w.createdAt, w.visibility>>)
                            \o Shown(w.lastShown)
  BY DEF WriteWallpaper, Shown
<1> QED BY <1>2, <1>3, <1>4, <1>5

LEMMA WallpaperAfter ==
  ASSUME NEW V, Nat \subseteq V, NEW F \in Seq(V), NEW n \in 0..Len(F), NEW o \in Nat,
         NEW w \in Fields(V), Holds(F, o, WriteWallpaper(w)),
         NEW r, NEW x, After(F, n, r, o, x)
  PROVE  After(F, n, ReadWallpaper(r), o + Len(WriteWallpaper(w)), w)
<1> DEFINE p == WriteString(w.absPath)
           m == <<w.hash, w.createdAt, w.visibility>>
           l == Shown(w.lastShown)
           o1 == o + Len(p)
           o2 == o1 + 1
           o3 == o2 + 1
           o4 == o3 + 1
           e  == o4 + Len(l)
           path    == ReadString(r)
           hash    == ReadPod(path)
           created == ReadPod(hash)
           vis     == ReadPod(created)
           shown   == ReadLastShown(vis)
           all     == [absPath |-> path.got, hash |-> hash.got[1], createdAt |-> created.got[1],
                       visibility |-> vis.got[1], lastShown |-> shown.got]
<1>1. w.absPath \in Seq(V) /\ w.hash \in V /\ w.createdAt \in V /\ w.visibility \in V
      /\ w.lastShown \in V \union {None}
  BY DEF Fields
<1>2. /\ p \in Seq(V) /\ m \in Seq(V) /\ l \in Seq(V)
      /\ WriteWallpaper(w) = (p \o m) \o l
  BY WriteWallpaperType
<1>3. m = (<<w.hash>> \o <<w.createdAt>>) \o <<w.visibility>>
  OBVIOUS
<1>4. Len(m) = 3
  OBVIOUS
<1> HIDE DEF p, l, m
<1>5. /\ p \o m \in Seq(V)
      /\ Len(p \o m) = Len(p) + 3 /\ Len(p) \in Nat /\ Len(l) \in Nat
      /\ Len((p \o m) \o l) = (Len(p) + 3) + Len(l)
  <2>1. p \o m \in Seq(V) /\ Len(p \o m) = Len(p) + Len(m)
    BY <1>2, ConcatLength, Zenon
  <2>2. Len((p \o m) \o l) = Len(p \o m) + Len(l)
    BY <1>2, <2>1, ConcatLength, Zenon
  <2>3. Len(p) \in Nat /\ Len(l) \in Nat
    BY <1>2
  <2> QED BY <1>4, <2>1, <2>2, <2>3
<1>6. Holds(F, o, p \o m) /\ Holds(F, o + Len(p \o m), l)
  BY <1>2, <1>5, HoldsBoth, Zenon
<1>7. Holds(F, o, p) /\ Holds(F, o1, m)
  BY <1>2, <1>6, HoldsBoth, Zenon
<1>8. /\ o1 \in Nat /\ o2 \in Nat /\ o3 \in Nat /\ o4 \in Nat /\ e \in Nat
      /\ o4 = o + Len(p \o m) /\ e = o + Len(WriteWallpaper(w))
      /\ o1 < o2 /\ o2 < o3 /\ o3 < o4 /\ o4 <= e
  BY <1>2, <1>5
<1>9. Holds(F, o1, <<w.hash>>) /\ Holds(F, o2, <<w.createdAt>>) /\ Holds(F, o3, <<w.visibility>>)
  <2>1. o1 + 3 <= Len(F) /\ F[o1 + 1] = w.hash /\ F[o1 + 2] = w.createdAt /\ F[o1 + 3] = w.visibility
    BY <1>4, <1>7 DEF Holds, m
  <2>2. o1 + 2 = o2 + 1 /\ o1 + 3 = o3 + 1
    BY <1>8
  <2>3. \A q \in Nat : \A v : q + 1 <= Len(F) /\ F[q + 1] = v => Holds(F, q, <<v>>)
    BY DEF Holds
  <2>4. o1 + 1 <= Len(F) /\ o2 + 1 <= Len(F) /\ o3 + 1 <= Len(F)
    BY <1>8, <2>1
  <2> HIDE DEF o1, o2, o3
  <2> QED BY <1>8, <2>1, <2>2, <2>3, <2>4
<1> HIDE DEF o1
<1>10. After(F, n, path, o1, w.absPath)
  BY <1>1, <1>7, StringAfter, Zenon DEF p, o1
<1> HIDE DEF path, o2
<1>11. After(F, n, hash, o2, <<w.hash>>) /\ (o2 <= n => hash.got[1] = w.hash)
  <2>1. w.hash \in V /\ o1 \in Nat /\ Holds(F, o1, <<w.hash>>)
    BY <1>1, <1>8, <1>9, Zenon
  <2> QED BY <1>10, <2>1, PodRead DEF o2
<1> HIDE DEF hash, o3
<1>12. After(F, n, created, o3, <<w.createdAt>>) /\ (o3 <= n => created.got[1] = w.createdAt)
  <2>1. w.createdAt \in V /\ o2 \in Nat /\ Holds(F, o2, <<w.createdAt>>)
    BY <1>1, <1>8, <1>9, Zenon
  <2> QED BY <1>11, <2>1, PodRead DEF o3
<1> HIDE DEF created, o4
<1>13. After(F, n, vis, o4, <<w.visibility>>) /\ (o4 <= n => vis.got[1] = w.visibility)
  <2>1. w.visibility \in V /\ o3 \in Nat /\ Holds(F, o3, <<w.visibility>>)
    BY <1>1, <1>8, <1>9, Zenon
  <2> QED BY <1>12, <2>1, PodRead DEF o4
<1> HIDE DEF vis, e
<1>14. After(F, n, shown, e, w.lastShown)
  <2>1. Holds(F, o4, Shown(w.lastShown))
    BY <1>6, <1>8 DEF l
  <2> QED BY <1>1, <1>8, <1>13, <2>1, LastShownAfter, Zenon DEF e, l
<1> HIDE DEF shown
<1>15. ASSUME e <= n
       PROVE  all = w
  <2>1. o1 <= n /\ o2 <= n /\ o3 <= n /\ o4 <= n
    BY <1>8, <1>15
  <2>2. path.got = w.absPath
    BY <1>10, <2>1 DEF After, Reader
  <2>3. hash.got[1] = w.hash /\ created.got[1] = w.createdAt /\ vis.got[1] = w.visibility
    BY <1>11, <1>12, <1>13, <2>1
  <2>4. shown.got = w.lastShown
    BY <1>14, <1>15 DEF After, Reader
  <2>5. w = [absPath |-> w.absPath, hash |-> w.hash, createdAt |-> w.createdAt,
             visibility |-> w.visibility, lastShown |-> w.lastShown]
    BY DEF Fields
  <2> QED BY <2>2, <2>3, <2>4, <2>5
<1> HIDE DEF all
<1>16. After(F, n, Got(shown, all), e, w)
  BY <1>14, <1>15, GotAfter, Zenon
<1> QED BY <1>8, <1>16 DEF ReadWallpaper, all, shown, vis, created, hash, path

-----------------------------------------------------------------------------
(* The loops over the vector.                                              *)

LEMMA LeastNumber ==
  ASSUME NEW B \in SUBSET Nat, B # {}
  PROVE  \E k \in B : \A j \in B : k <= j
<1>1. IsWellFoundedOn(OpToRel(<, Nat), Nat)
  BY NatLessThanWellFounded
<1>2. PICK k \in B : \A j \in B : <<j, k>> \notin OpToRel(<, Nat)
  BY <1>1, WFMin, Zenon
<1>3. \A j \in B : ~(j < k)
  BY <1>2 DEF OpToRel
<1> QED BY <1>3

\* What is written after i wallpapers.
WritesUpTo(ws, k, f) ==
  f = [i \in 0..k |-> IF i = 0 THEN << >> ELSE f[i - 1] \o WriteWallpaper(ws[i])]

LEMMA WritingExists ==
  ASSUME NEW ws, NEW N \in Nat
  PROVE  \E f : WritesUpTo(ws, N, f)
<1> SUFFICES ASSUME ~ \E f : WritesUpTo(ws, N, f) PROVE FALSE
  OBVIOUS
<1> DEFINE B == {k \in Nat : ~ \E f : WritesUpTo(ws, k, f)}
<1>1. PICK k \in B : \A j \in B : k <= j
  <2>1. B \in SUBSET Nat /\ B # {}
    OBVIOUS
  <2> HIDE DEF B
  <2> QED BY <2>1, LeastNumber
<1>2. k # 0
  <2>1. WritesUpTo(ws, 0, [i \in 0..0 |-> << >>])
    BY DEF WritesUpTo
  <2> QED BY <2>1
<1>3. PICK g : WritesUpTo(ws, k - 1, g)
  BY <1>1, <1>2
<1> DEFINE f == [i \in 0..k |-> IF i = k THEN g[k - 1] \o WriteWallpaper(ws[k]) ELSE g[i]]
<1>4. \A i \in 0..(k - 1) : f[i] = g[i]
  BY <1>1, <1>2
<1>5. \A i \in 0..(k - 1) : g[i] = IF i = 0 THEN << >> ELSE g[i - 1] \o WriteWallpaper(ws[i])
  BY <1>3 DEF WritesUpTo
<1>6. ASSUME NEW i \in 0..k
      PROVE  f[i] = IF i = 0 THEN << >> ELSE f[i - 1] \o WriteWallpaper(ws[i])
  <2>1. CASE i = k
    <3>1. f[i] = g[k - 1] \o WriteWallpaper(ws[k]) /\ f[i - 1] = g[k - 1]
      BY <1>1, <1>2, <1>4, <2>1
    <3> HIDE DEF f
    <3> QED BY <1>2, <2>1, <3>1
  <2>2. CASE i # k
    <3>1. i \in 0..(k - 1) /\ (i # 0 => i - 1 \in 0..(k - 1))
      BY <1>1, <1>2, <2>2
    <3>2. f[i] = g[i] /\ (i # 0 => f[i - 1] = g[i - 1])
      BY <1>4, <3>1
    <3> HIDE DEF f
    <3> QED BY <1>5, <3>1, <3>2
  <2> QED BY <2>1, <2>2
<1>7. f = [i \in 0..k |-> f[i]]
  OBVIOUS
<1> HIDE DEF f
<1>8. WritesUpTo(ws, k, f)
  BY <1>6, <1>7, Zenon DEF WritesUpTo
<1> QED BY <1>1, <1>8

\* What is read after i wallpapers.
ReadsUpTo(r, k, f) ==
  f = [i \in 0..k |->
         IF i = 0 THEN Got(r, << >>)
         ELSE Got(ReadWallpaper(f[i - 1]),
                  Load(f[i - 1].got, ReadWallpaper(f[i - 1]).got))]

LEMMA ReadingExists ==
  ASSUME NEW r, NEW N \in Nat
  PROVE  \E f : ReadsUpTo(r, N, f)
<1> SUFFICES ASSUME ~ \E f : ReadsUpTo(r, N, f) PROVE FALSE
  OBVIOUS
<1> DEFINE B == {k \in Nat : ~ \E f : ReadsUpTo(r, k, f)}
           More(s) == Got(ReadWallpaper(s), Load(s.got, ReadWallpaper(s).got))
<1>1. PICK k \in B : \A j \in B : k <= j
  <2>1. B \in SUBSET Nat /\ B # {}
    OBVIOUS
  <2> HIDE DEF B
  <2> QED BY <2>1, LeastNumber
<1>2. k # 0
  <2>1. ReadsUpTo(r, 0, [i \in 0..0 |-> Got(r, << >>)])
    BY DEF ReadsUpTo
  <2> QED BY <2>1
<1>3. PICK g : ReadsUpTo(r, k - 1, g)
  BY <1>1, <1>2
<1>4. \A i \in 0..(k - 1) : g[i] = IF i = 0 THEN Got(r, << >>) ELSE More(g[i - 1])
  BY <1>3 DEF ReadsUpTo
<1> HIDE DEF More
<1> DEFINE f == [i \in 0..k |-> IF i = k THEN More(g[k - 1]) ELSE g[i]]
<1>5. \A i \in 0..(k - 1) : f[i] = g[i]
  BY <1>1, <1>2
<1>6. ASSUME NEW i \in 0..k
      PROVE  f[i] = IF i = 0 THEN Got(r, << >>) ELSE More(f[i - 1])
  <2>1. CASE i = k
    <3>1. f[i] = More(g[k - 1]) /\ f[i - 1] = g[k - 1]
      BY <1>1, <1>2, <1>5, <2>1
    <3> HIDE DEF f
    <3> QED BY <1>2, <2>1, <3>1
  <2>2. CASE i # k
    <3>1. i \in 0..(k - 1) /\ (i # 0 => i - 1 \in 0..(k - 1))
      BY <1>1, <1>2, <2>2
    <3>2. f[i] = g[i] /\ (i # 0 => f[i - 1] = g[i - 1])
      BY <1>5, <3>1
    <3> HIDE DEF f
    <3> QED BY <1>4, <3>1, <3>2
  <2> QED BY <2>1, <2>2
<1>7. f = [i \in 0..k |-> f[i]]
  OBVIOUS
<1> HIDE DEF f
<1>8. ReadsUpTo(r, k, f)
  BY <1>6, <1>7, Zenon DEF ReadsUpTo, More
<1> QED BY <1>1, <1>8

\* Both loops are what a loop is: a value for every i, made of the one before.
LEMMA WritingLoop ==
  ASSUME NEW ws, Len(ws) \in Nat
  PROVE  \E f : WritesUpTo(ws, Len(ws), f) /\ WriteWallpapers(ws) = f[Len(ws)]
<1> DEFINE f == CHOOSE f : WritesUpTo(ws, Len(ws), f)
<1>1. WritesUpTo(ws, Len(ws), f)
  BY WritingExists, Zenon
<1>2. WriteWallpapers(ws) = f[Len(ws)]
  BY Zenon DEF WriteWallpapers, WritesUpTo
<1> QED BY <1>1, <1>2

LEMMA ReadingLoop ==
  ASSUME NEW r, NEW count \in Nat
  PROVE  \E f : ReadsUpTo(r, count, f) /\ ReadWallpapers(r, count) = f[count]
<1> DEFINE f == CHOOSE f : ReadsUpTo(r, count, f)
<1>1. ReadsUpTo(r, count, f)
  BY ReadingExists, Zenon
<1>2. ReadWallpapers(r, count) = f[count]
  BY Zenon DEF ReadWallpapers, ReadsUpTo
<1> QED BY <1>1, <1>2

\* Each wallpaper is written after the ones before it.
LEMMA WritingSteps ==
  ASSUME NEW V, Nat \subseteq V, NEW ws \in Seq(Fields(V)), NEW f, WritesUpTo(ws, Len(ws), f)
  PROVE  /\ f[0] = << >>
         /\ \A i \in 1..Len(ws) : f[i] = f[i - 1] \o WriteWallpaper(ws[i])
         /\ \A i \in 0..Len(ws) : f[i] \in Seq(V)
<1>1. \A i \in 0..Len(ws) : f[i] = IF i = 0 THEN << >> ELSE f[i - 1] \o WriteWallpaper(ws[i])
  BY DEF WritesUpTo
<1>2. f[0] = << >> /\ \A i \in 1..Len(ws) : f[i] = f[i - 1] \o WriteWallpaper(ws[i])
  <2>1. Len(ws) \in Nat /\ 0 \in 0..Len(ws)
    OBVIOUS
  <2>2. f[0] = << >>
    BY <1>1, <2>1, Zenon
  <2>3. ASSUME NEW i \in 1..Len(ws)
        PROVE  f[i] = f[i - 1] \o WriteWallpaper(ws[i])
    <3>1. i \in 0..Len(ws) /\ i # 0
      BY <2>1
    <3> QED BY <1>1, <3>1, Zenon
  <2> QED BY <2>2, <2>3
<1>3. ASSUME NEW i \in 1..Len(ws)
      PROVE  WriteWallpaper(ws[i]) \in Seq(V)
  <2>1. ws[i] \in Fields(V)
    OBVIOUS
  <2> QED BY <2>1, WriteWallpaperType, Zenon
<1> DEFINE B == {i \in 0..Len(ws) : f[i] \notin Seq(V)}
<1>4. B = {}
  <2> SUFFICES ASSUME B # {} PROVE FALSE
    OBVIOUS
  <2>1. PICK k \in B : \A j \in B : k <= j
    <3>1. B \in SUBSET Nat /\ B # {}
      OBVIOUS
    <3> HIDE DEF B
    <3> QED BY <3>1, LeastNumber
  <2>2. k # 0
    <3>1. << >> \in Seq(V)
      OBVIOUS
    <3> QED BY <1>2, <2>1, <3>1
  <2>3. k \in 1..Len(ws) /\ k - 1 \in 0..Len(ws) /\ k - 1 \notin B
    BY <2>1, <2>2
  <2>4. f[k - 1] \in Seq(V) /\ WriteWallpaper(ws[k]) \in Seq(V)
    BY <1>3, <2>3
  <2>5. f[k] \in Seq(V)
    BY <1>2, <2>3, <2>4, ConcatLength
  <2> QED BY <2>1, <2>5
<1> QED BY <1>2, <1>4

\* What was written after i wallpapers, and the next one, are in the file.
LEMMA WritingHeld ==
  ASSUME NEW V, Nat \subseteq V, NEW F \in Seq(V), NEW o \in Nat, NEW ws \in Seq(Fields(V)),
         NEW f, WritesUpTo(ws, Len(ws), f), Holds(F, o, f[Len(ws)])
  PROVE  /\ \A i \in 0..Len(ws) : Holds(F, o, f[i])
         /\ \A i \in 1..Len(ws) : Holds(F, o + Len(f[i - 1]), WriteWallpaper(ws[i]))
<1> DEFINE N == Len(ws)
           B == {j \in 0..N : ~Holds(F, o, f[N - j])}
<1>1. N \in Nat
  OBVIOUS
<1>2. /\ \A i \in 1..N : f[i] = f[i - 1] \o WriteWallpaper(ws[i])
      /\ \A i \in 0..N : f[i] \in Seq(V)
  BY WritingSteps
<1>3. ASSUME NEW i \in 1..N, Holds(F, o, f[i])
      PROVE  Holds(F, o, f[i - 1]) /\ Holds(F, o + Len(f[i - 1]), WriteWallpaper(ws[i]))
  <2>1. f[i - 1] \in Seq(V)
    <3>1. i - 1 \in 0..N
      BY <1>1
    <3> QED BY <1>2, <3>1
  <2>2. WriteWallpaper(ws[i]) \in Seq(V)
    <3>1. ws[i] \in Fields(V)
      OBVIOUS
    <3> QED BY <3>1, WriteWallpaperType, Zenon
  <2>3. Holds(F, o, f[i - 1] \o WriteWallpaper(ws[i]))
    BY <1>2, <1>3, Zenon
  <2> QED BY <2>1, <2>2, <2>3, HoldsBoth, Zenon
<1>4. B = {}
  <2> SUFFICES ASSUME B # {} PROVE FALSE
    OBVIOUS
  <2>1. PICK k \in B : \A j \in B : k <= j
    <3>1. B \in SUBSET Nat /\ B # {}
      OBVIOUS
    <3> HIDE DEF B
    <3> QED BY <3>1, LeastNumber
  <2>2. k # 0
    <3>1. N - 0 = N
      BY <1>1
    <3> QED BY <2>1, <3>1
  <2>3. k \in 1..N /\ k - 1 \in 0..N /\ ~(k <= k - 1) /\ N - k + 1 \in 1..N
        /\ N - (k - 1) = N - k + 1 /\ N - k = (N - k + 1) - 1
    BY <1>1, <2>1, <2>2
  <2>4. Holds(F, o, f[N - k + 1])
    <3>1. k - 1 \notin B
      BY <2>1, <2>3
    <3> QED BY <2>3, <3>1
  <2>5. Holds(F, o, f[N - k])
    <3> DEFINE i == N - k + 1
    <3>1. i \in 1..N /\ Holds(F, o, f[i]) /\ N - k = i - 1
      BY <2>3, <2>4
    <3> HIDE DEF i
    <3>2. Holds(F, o, f[i - 1])
      BY <1>3, <3>1, Zenon
    <3> QED BY <3>1, <3>2
  <2> QED BY <2>1, <2>5
<1>5. ASSUME NEW i \in 0..N
      PROVE  Holds(F, o, f[i])
  <2>1. N - i \in 0..N /\ N - (N - i) = i
    BY <1>1
  <2>2. N - i \notin B
    BY <1>4
  <2> HIDE DEF N
  <2> QED BY <2>1, <2>2
<1>6. \A i \in 1..N : Holds(F, o + Len(f[i - 1]), WriteWallpaper(ws[i]))
  <2> TAKE i \in 1..N
  <2>1. Holds(F, o, f[i])
    <3>1. i \in 0..N
      BY <1>1
    <3> QED BY <1>5, <3>1
  <2> QED BY <1>3, <2>1, Zenon
<1> QED BY <1>5, <1>6

\* No digest occurs twice.
Distinct(ws) == \A i, j \in DOMAIN ws : ws[i].hash = ws[j].hash => i = j

\* The wallpapers are read one after another, until the reader throws; each gets a
\* slot of its own.
LEMMA WallpapersAfter ==
  ASSUME NEW V, Nat \subseteq V, NEW F \in Seq(V), NEW n \in 0..Len(F), NEW o \in Nat,
         NEW ws \in Seq(Fields(V)), Distinct(ws), Holds(F, o, WriteWallpapers(ws)),
         NEW r, NEW x, After(F, n, r, o, x),
         NEW count, o <= n => count = Len(ws), o > n => count = 0
  PROVE  After(F, n, ReadWallpapers(r, count), o + Len(WriteWallpapers(ws)), ws)
<1> DEFINE N == Len(ws)
<1>1. N \in Nat /\ n \in Nat /\ count \in Nat
  OBVIOUS
<1>2. PICK f : WritesUpTo(ws, N, f) /\ WriteWallpapers(ws) = f[N]
  BY <1>1, WritingLoop
<1>3. PICK g : ReadsUpTo(r, count, g) /\ ReadWallpapers(r, count) = g[count]
  BY <1>1, ReadingLoop
<1>4. /\ f[0] = << >>
      /\ \A i \in 1..N : f[i] = f[i - 1] \o WriteWallpaper(ws[i])
      /\ \A i \in 0..N : f[i] \in Seq(V)
  BY <1>2, WritingSteps
<1>5. \A i \in 1..N : Holds(F, o + Len(f[i - 1]), WriteWallpaper(ws[i]))
  <2>1. Holds(F, o, f[N])
    BY <1>2
  <2> QED BY <1>2, <2>1, WritingHeld, Zenon
<1>6. g[0] = Got(r, << >>)
  <2>1. 0 \in 0..count
    BY <1>1
  <2> QED BY <1>3, <2>1 DEF ReadsUpTo
<1>7. \A i \in 1..count : g[i] = Got(ReadWallpaper(g[i - 1]),
                                     Load(g[i - 1].got, ReadWallpaper(g[i - 1]).got))
  <2> TAKE i \in 1..count
  <2>1. i \in 0..count /\ i # 0
    BY <1>1
  <2> QED BY <1>3, <2>1, Zenon DEF ReadsUpTo
<1>8. CASE o > n
  <2>1. ~(o <= n) /\ count = 0
    BY <1>1, <1>8
  <2>2. After(F, n, g[0], o, << >>)
    BY <1>6, GotAfter
  <2>3. o + Len(f[N]) \in Nat /\ o + Len(f[N]) >= o
    <3>1. Len(f[N]) \in Nat
      <4>1. f[N] \in Seq(V)
        BY <1>1, <1>4
      <4> QED BY <4>1
    <3> QED BY <3>1
  <2>4. After(F, n, g[0], o + Len(f[N]), ws)
    BY <1>1, <1>8, <2>2, <2>3, AfterEnd, Zenon
  <2> QED BY <1>2, <1>3, <2>1, <2>4
<1>9. CASE o <= n
  <2>1. count = N
    BY <1>9
  <2> DEFINE P(i) == After(F, n, g[i], o + Len(f[i]), SubSeq(ws, 1, i))
             B == {i \in 0..N : ~P(i)}
  <2>2. P(0)
    <3>1. SubSeq(ws, 1, 0) = << >> /\ o + Len(f[0]) = o
      BY <1>4
    <3>2. After(F, n, g[0], o, << >>)
      BY <1>6, GotAfter
    <3> QED BY <3>1, <3>2
  <2>3. ASSUME NEW i \in 1..N, P(i - 1)
        PROVE  P(i)
    <3> DEFINE q == o + Len(f[i - 1])
               w == ws[i]
               e == q + Len(WriteWallpaper(w))
               s == g[i - 1]
               y == SubSeq(ws, 1, i - 1)
               next == ReadWallpaper(s)
    <3>1. f[i - 1] \in Seq(V) /\ q \in Nat
      <4>1. i - 1 \in 0..N
        BY <1>1
      <4>2. f[i - 1] \in Seq(V)
        BY <1>4, <4>1
      <4> QED BY <4>2
    <3>2. w \in Fields(V)
      OBVIOUS
    <3>3. WriteWallpaper(w) \in Seq(V)
      BY <3>2, WriteWallpaperType, Zenon
    <3>4. e = o + Len(f[i]) /\ e \in Nat /\ e >= q
      <4>1. f[i] = f[i - 1] \o WriteWallpaper(w)
        BY <1>4
      <4>2. Len(f[i]) = Len(f[i - 1]) + Len(WriteWallpaper(w))
        BY <3>1, <3>3, <4>1, ConcatLength
      <4>3. Len(f[i - 1]) \in Nat /\ Len(WriteWallpaper(w)) \in Nat
        BY <3>1, <3>3
      <4> HIDE DEF w
      <4> QED BY <4>2, <4>3
    <3>5. Holds(F, q, WriteWallpaper(w)) /\ After(F, n, s, q, y)
      BY <1>5, <2>3, Zenon
    <3>6. SubSeq(ws, 1, i) = Append(y, w)
      BY <1>1
    <3>7. Load(y, w) = Append(y, w)
      <4>1. DOMAIN y = 1..(i - 1) /\ \A j \in 1..(i - 1) : y[j] = ws[j] /\ j \in DOMAIN ws /\ j # i
        BY <1>1
      <4>2. i \in DOMAIN ws
        OBVIOUS
      <4> HIDE DEF y
      <4>3. ~ \E j \in DOMAIN y : y[j].hash = w.hash
        BY <4>1, <4>2 DEF Distinct
      <4> QED BY <4>3 DEF Load
    <3>8. g[i] = Got(next, Load(s.got, next.got))
      BY <1>7, <2>1, Zenon
    <3> HIDE DEF q, w, s, y
    <3>9. After(F, n, next, e, w)
      BY <3>1, <3>2, <3>5, WallpaperAfter, Zenon
    <3> HIDE DEF e, next
    <3>10. ASSUME e <= n
           PROVE  Load(s.got, next.got) = Append(y, w)
      <4>1. q <= n
        BY <1>1, <3>1, <3>4, <3>10
      <4>2. s.got = y
        BY <3>5, <4>1 DEF After, Reader
      <4>3. next.got = w
        BY <3>9, <3>10 DEF After, Reader
      <4> QED BY <3>7, <4>2, <4>3
    <3>11. After(F, n, Got(next, Load(s.got, next.got)), e, Append(y, w))
      BY <3>9, <3>10, GotAfter, Zenon
    <3> QED BY <3>4, <3>6, <3>8, <3>11
  <2> HIDE DEF P
  <2>4. B = {}
    <3> SUFFICES ASSUME B # {} PROVE FALSE
      OBVIOUS
    <3>1. PICK k \in B : \A j \in B : k <= j
      <4>1. B \in SUBSET Nat /\ B # {}
        OBVIOUS
      <4> HIDE DEF B
      <4> QED BY <4>1, LeastNumber
    <3>2. k # 0
      BY <2>2, <3>1
    <3>3. k \in 1..N /\ k - 1 \in 0..N /\ ~(k <= k - 1)
      BY <1>1, <3>1, <3>2
    <3>4. P(k - 1)
      BY <3>1, <3>3
    <3>5. P(k)
      BY <2>3, <3>3, <3>4, Zenon
    <3> QED BY <3>1, <3>5
  <2>5. P(N)
    <3>1. N \in 0..N
      BY <1>1
    <3> QED BY <2>4, <3>1
  <2>6. SubSeq(ws, 1, N) = ws
    OBVIOUS
  <2> QED BY <1>2, <1>3, <2>1, <2>5, <2>6 DEF P
<1> QED BY <1>1, <1>8, <1>9

-----------------------------------------------------------------------------
(* The whole file.                                                         *)

\* The manifests save is called with, whose fields are in V.
Manifests(V) == [stateMode      : V,
                 publicCurrent  : Seq(V) \union {None},
                 privateCurrent : Seq(V) \union {None},
                 wallpapers     : {ws \in Seq(Fields(V)) : Distinct(ws)}]

LEMMA WriteOptionalStringType ==
  ASSUME NEW V, Nat \subseteq V, NEW s \in Seq(V) \union {None}
  PROVE  WriteOptionalString(s) \in Seq(V)
<1>1. CASE s = None
  BY <1>1 DEF WriteOptionalString
<1>2. CASE s # None
  <2>1. s \in Seq(V) /\ Len(s) \in V /\ 1 \in V
    BY <1>2
  <2>2. WriteString(s) \in Seq(V) /\ <<1>> \in Seq(V)
    BY <2>1 DEF WriteString
  <2> QED BY <1>2, <2>2 DEF WriteOptionalString
<1> QED BY <1>1, <1>2

LEMMA WriteWallpapersType ==
  ASSUME NEW V, Nat \subseteq V, NEW ws \in Seq(Fields(V))
  PROVE  WriteWallpapers(ws) \in Seq(V)
<1>1. Len(ws) \in Nat /\ Len(ws) \in 0..Len(ws)
  OBVIOUS
<1>2. PICK f : WritesUpTo(ws, Len(ws), f) /\ WriteWallpapers(ws) = f[Len(ws)]
  BY <1>1, WritingLoop
<1>3. \A i \in 0..Len(ws) : f[i] \in Seq(V)
  BY <1>2, WritingSteps
<1> QED BY <1>1, <1>2, <1>3

\* Where the parts of a manifest are in its file.
Parts(m, F, o1, o2) ==
  /\ 3 <= o1 /\ o1 <= o2
  /\ Len(F) = (o2 + 1) + Len(WriteWallpapers(m.wallpapers))
  /\ Holds(F, 0, <<Magic>>) /\ Holds(F, 1, <<Version1>>) /\ Holds(F, 2, <<m.stateMode>>)
  /\ Holds(F, 3, WriteOptionalString(m.publicCurrent))
  /\ o1 = 3 + Len(WriteOptionalString(m.publicCurrent))
  /\ Holds(F, o1, WriteOptionalString(m.privateCurrent))
  /\ o2 = o1 + Len(WriteOptionalString(m.privateCurrent))
  /\ Holds(F, o2, <<Len(m.wallpapers)>>)
  /\ Holds(F, o2 + 1, WriteWallpapers(m.wallpapers))

LEMMA WrittenParts ==
  ASSUME NEW V, Nat \subseteq V, NEW m \in Manifests(V)
  PROVE  /\ Written(m) \in Seq(V)
         /\ \E o1, o2 \in Nat : Parts(m, Written(m), o1, o2)
<1> DEFINE F == Written(m)
           o1 == 3 + Len(WriteOptionalString(m.publicCurrent))
           o2 == o1 + Len(WriteOptionalString(m.privateCurrent))
           h == <<Magic, Version1, m.stateMode>>
           p == WriteOptionalString(m.publicCurrent)
           q == WriteOptionalString(m.privateCurrent)
           c == <<Len(m.wallpapers)>>
           w == WriteWallpapers(m.wallpapers)
<1>1. /\ m.stateMode \in V /\ m.wallpapers \in Seq(Fields(V))
      /\ m.publicCurrent \in Seq(V) \union {None} /\ m.privateCurrent \in Seq(V) \union {None}
  BY DEF Manifests
<1>2. h \in Seq(V) /\ Len(h) = 3 /\ h[1] = Magic /\ h[2] = Version1 /\ h[3] = m.stateMode
  BY <1>1 DEF Magic, Version1
<1>3. p \in Seq(V) /\ q \in Seq(V)
  BY <1>1, WriteOptionalStringType, Zenon
<1>4. w \in Seq(V)
  BY <1>1, WriteWallpapersType, Zenon
<1>5. c \in Seq(V) /\ Len(c) = 1
  BY <1>1
<1>6. F = (((h \o p) \o q) \o c) \o w
  BY DEF Written
<1>7. o1 = 3 + Len(p) /\ o2 = o1 + Len(q)
  OBVIOUS
<1> HIDE DEF h, p, q, c, w, F, o1, o2
<1>8. Len(p) \in Nat /\ Len(q) \in Nat /\ Len(w) \in Nat
  BY <1>3, <1>4
<1>9. h \o p \in Seq(V) /\ Len(h \o p) = o1
  BY <1>2, <1>3, <1>7, ConcatLength
<1>10. (h \o p) \o q \in Seq(V) /\ Len((h \o p) \o q) = o2
  <2>1. (h \o p) \o q \in Seq(V) /\ Len((h \o p) \o q) = Len(h \o p) + Len(q)
    BY <1>3, <1>9, ConcatLength, Zenon
  <2> QED BY <1>7, <1>9, <2>1
<1>11. ((h \o p) \o q) \o c \in Seq(V) /\ Len(((h \o p) \o q) \o c) = o2 + 1
  <2>1. /\ ((h \o p) \o q) \o c \in Seq(V)
        /\ Len(((h \o p) \o q) \o c) = Len((h \o p) \o q) + Len(c)
    BY <1>5, <1>10, ConcatLength, Zenon
  <2> QED BY <1>5, <1>10, <2>1
<1>12. F \in Seq(V) /\ Len(F) = (o2 + 1) + Len(w)
  <2>1. F \in Seq(V) /\ Len(F) = Len(((h \o p) \o q) \o c) + Len(w)
    BY <1>4, <1>6, <1>11, ConcatLength, Zenon
  <2> QED BY <1>11, <2>1
<1>13. o1 \in Nat /\ o2 \in Nat /\ 3 <= o1 /\ o1 <= o2 /\ o2 + 1 <= Len(F)
  BY <1>7, <1>8, <1>12
<1>14. Holds(F, 0, F)
  BY <1>12 DEF Holds
<1>15. 0 \in Nat /\ 0 + o2 = o2 /\ 0 + o1 = o1 /\ 0 + (o2 + 1) = o2 + 1 /\ 0 + 3 = 3
  BY <1>13
<1>16. Holds(F, 0, ((h \o p) \o q) \o c) /\ Holds(F, o2 + 1, w)
  <2>1. Holds(F, 0, (((h \o p) \o q) \o c) \o w)
    BY <1>6, <1>14, Zenon
  <2>2. /\ Holds(F, 0, ((h \o p) \o q) \o c)
        /\ Holds(F, 0 + Len(((h \o p) \o q) \o c), w)
    BY <1>4, <1>11, <1>12, <1>15, <2>1, HoldsBoth, Zenon
  <2> QED BY <1>11, <1>15, <2>2
<1>17. Holds(F, 0, (h \o p) \o q) /\ Holds(F, o2, c)
  <2>1. Holds(F, 0, (h \o p) \o q) /\ Holds(F, 0 + Len((h \o p) \o q), c)
    BY <1>5, <1>10, <1>12, <1>15, <1>16, HoldsBoth, Zenon
  <2> QED BY <1>10, <1>15, <2>1
<1>18. Holds(F, 0, h \o p) /\ Holds(F, o1, q)
  <2>1. Holds(F, 0, h \o p) /\ Holds(F, 0 + Len(h \o p), q)
    BY <1>3, <1>9, <1>12, <1>15, <1>17, HoldsBoth, Zenon
  <2> QED BY <1>9, <1>15, <2>1
<1>19. Holds(F, 0, h) /\ Holds(F, 3, p)
  <2>1. Holds(F, 0, h) /\ Holds(F, 0 + Len(h), p)
    BY <1>2, <1>3, <1>12, <1>15, <1>18, HoldsBoth, Zenon
  <2> QED BY <1>2, <1>15, <2>1
<1>20. Holds(F, 0, <<Magic>>) /\ Holds(F, 1, <<Version1>>) /\ Holds(F, 2, <<m.stateMode>>)
  <2>1. F[1] = Magic /\ F[2] = Version1 /\ F[3] = m.stateMode /\ 3 <= Len(F)
    BY <1>2, <1>12, <1>19 DEF Holds
  <2>2. \A j \in Nat : \A v : j + 1 <= Len(F) /\ F[j + 1] = v => Holds(F, j, <<v>>)
    BY DEF Holds
  <2>3. 0 + 1 = 1 /\ 1 + 1 = 2 /\ 2 + 1 = 3 /\ 1 <= Len(F) /\ 2 <= Len(F)
    BY <1>12, <2>1
  <2> QED BY <2>1, <2>2, <2>3
<1>21. Parts(m, F, o1, o2)
  BY <1>7, <1>12, <1>13, <1>16, <1>17, <1>18, <1>19, <1>20, Zenon DEF Parts, p, q, c, w
<1> QED BY <1>12, <1>13, <1>21 DEF F

\* What load makes of the first n fields of such a file.
LEMMA PartsRead ==
  ASSUME NEW V, Nat \subseteq V, NEW m \in Manifests(V), NEW F \in Seq(V),
         NEW o1 \in Nat, NEW o2 \in Nat, Parts(m, F, o1, o2), NEW n \in 0..Len(F)
  PROVE  /\ n = Len(F) => Parsed(SubSeq(F, 1, n)) = m
         /\ n # Len(F) => Parsed(SubSeq(F, 1, n)) = None
<1> DEFINE b == Bytes(F, n)
           p0 == 0
           p1 == p0 + 1
           p2 == p1 + 1
           p3 == p2 + 1
           p4 == o2 + 1
           e  == p4 + Len(WriteWallpapers(m.wallpapers))
           N  == Len(m.wallpapers)
           start   == Reader(b, 0, TRUE, <<0>>)
           magic   == ReadPod(start)
           version == ReadPod(magic)
           mode    == ReadPod(version)
           public  == ReadOptionalString(mode)
           private == ReadOptionalString(public)
           count   == ReadPod(private)
           all     == ReadWallpapers(count, count.got[1])
           made    == [stateMode |-> mode.got[1], publicCurrent |-> public.got,
                       privateCurrent |-> private.got, wallpapers |-> all.got]
<1>1. /\ m.stateMode \in V /\ m.wallpapers \in Seq(Fields(V)) /\ Distinct(m.wallpapers)
      /\ m.publicCurrent \in Seq(V) \union {None} /\ m.privateCurrent \in Seq(V) \union {None}
  BY DEF Manifests
<1>2. Parsed(SubSeq(F, 1, n)) = IF all.ok /\ magic.got = <<Magic>> /\ version.got = <<Version1>>
                                THEN made ELSE None
  BY DEF Parsed, Bytes
<1> HIDE DEF made, all, start, b
<1>3. /\ p0 \in Nat /\ p1 \in Nat /\ p2 \in Nat /\ p3 \in Nat /\ p4 \in Nat /\ n \in Nat
      /\ p0 < p1 /\ p1 < p2 /\ p2 < p3 /\ p3 <= o1 /\ o1 <= o2 /\ o2 < p4 /\ p4 <= e
      /\ e = Len(F) /\ p0 <= n /\ ~(p0 > n)
  <2>1. 3 <= o1 /\ o1 <= o2 /\ Len(F) = e
    BY DEF Parts
  <2>2. Len(WriteWallpapers(m.wallpapers)) \in Nat
    <3>1. WriteWallpapers(m.wallpapers) \in Seq(V)
      BY <1>1, WriteWallpapersType, Zenon
    <3> QED BY <3>1
  <2> QED BY <2>1, <2>2
<1>4. /\ Magic \in V /\ Version1 \in V /\ N \in V /\ N \in Nat
      /\ Holds(F, p0, <<Magic>>) /\ Holds(F, p1, <<Version1>>) /\ Holds(F, p2, <<m.stateMode>>)
      /\ Holds(F, p3, WriteOptionalString(m.publicCurrent))
      /\ Holds(F, o1, WriteOptionalString(m.privateCurrent))
      /\ Holds(F, o2, <<N>>)
      /\ Holds(F, p4, WriteWallpapers(m.wallpapers))
  <2>1. Magic \in V /\ Version1 \in V /\ N \in V /\ N \in Nat
    BY <1>1 DEF Magic, Version1
  <2>2. p0 = 0 /\ p1 = 1 /\ p2 = 2 /\ p3 = 3
    OBVIOUS
  <2> HIDE DEF p0, p1, p2, p3
  <2> QED BY <2>1, <2>2 DEF Parts
<1>5. /\ p1 = p0 + 1 /\ p2 = p1 + 1 /\ p3 = p2 + 1 /\ p4 = o2 + 1
      /\ o1 = p3 + Len(WriteOptionalString(m.publicCurrent))
      /\ o2 = o1 + Len(WriteOptionalString(m.privateCurrent))
      /\ e = p4 + Len(WriteWallpapers(m.wallpapers))
  BY DEF Parts
<1> HIDE DEF N, magic, version, mode, public, private, count, e, p0, p1, p2, p3, p4
<1>6. After(F, n, start, p0, <<0>>)
  <2>1. start = Reader(Bytes(F, n), p0, TRUE, <<0>>)
    BY DEF start, b, p0
  <2> QED BY <1>3, <2>1 DEF After
<1>7. After(F, n, magic, p1, <<Magic>>) /\ (p1 <= n => magic.got = <<Magic>>)
  <2>1. Magic \in V /\ p0 \in Nat /\ Holds(F, p0, <<Magic>>)
    BY <1>3, <1>4, Zenon
  <2> QED BY <1>6, <2>1, PodRead DEF magic, p1
<1>8. After(F, n, version, p2, <<Version1>>) /\ (p2 <= n => version.got = <<Version1>>)
  <2>1. Version1 \in V /\ p1 \in Nat /\ Holds(F, p1, <<Version1>>)
    BY <1>3, <1>4, Zenon
  <2> QED BY <1>7, <2>1, PodRead DEF version, p2
<1>9. After(F, n, mode, p3, <<m.stateMode>>) /\ (p3 <= n => mode.got[1] = m.stateMode)
  <2>1. m.stateMode \in V /\ p2 \in Nat /\ Holds(F, p2, <<m.stateMode>>)
    BY <1>1, <1>3, <1>4, Zenon
  <2> DEFINE v == m.stateMode
  <2>2. v \in V /\ Holds(F, p2, <<v>>)
    BY <2>1
  <2> HIDE DEF v
  <2>3. After(F, n, mode, p3, <<v>>) /\ (p3 <= n => mode.got[1] = v)
    BY <1>8, <2>1, <2>2, PodRead DEF mode, p3
  <2> QED BY <2>3 DEF v
<1>10. After(F, n, public, o1, m.publicCurrent)
  <2>1. After(F, n, public, p3 + Len(WriteOptionalString(m.publicCurrent)), m.publicCurrent)
    BY <1>1, <1>3, <1>4, <1>9, OptionalStringAfter, Zenon DEF public
  <2> QED BY <1>5, <2>1
<1>11. After(F, n, private, o2, m.privateCurrent)
  <2>1. After(F, n, private, o1 + Len(WriteOptionalString(m.privateCurrent)), m.privateCurrent)
    BY <1>1, <1>3, <1>4, <1>10, OptionalStringAfter, Zenon DEF private
  <2> QED BY <1>5, <2>1
<1>12. /\ After(F, n, count, p4, <<N>>)
       /\ p4 <= n => count.got[1] = N
       /\ p4 > n => count.got[1] = 0
  <2>1. N \in V /\ o2 \in Nat /\ Holds(F, o2, <<N>>)
    BY <1>3, <1>4, Zenon
  <2> QED BY <1>11, <2>1, PodRead DEF count, p4
<1>13. After(F, n, all, e, m.wallpapers)
  <2>1. (p4 <= n => count.got[1] = Len(m.wallpapers)) /\ (p4 > n => count.got[1] = 0)
    BY <1>12 DEF N
  <2> QED BY <1>1, <1>3, <1>4, <1>12, <2>1, WallpapersAfter, Zenon DEF all, e
<1>14. CASE n = Len(F)
  <2>1. e <= n /\ o2 <= n /\ o1 <= n /\ p1 <= n /\ p2 <= n /\ p3 <= n
    BY <1>3, <1>14
  <2>2. all.ok = TRUE /\ all.got = m.wallpapers
    BY <1>13, <2>1 DEF After, Reader
  <2>3. public.got = m.publicCurrent
    BY <1>10, <2>1 DEF After, Reader
  <2>4. private.got = m.privateCurrent
    BY <1>11, <2>1 DEF After, Reader
  <2>5. m = [stateMode |-> m.stateMode, publicCurrent |-> m.publicCurrent,
             privateCurrent |-> m.privateCurrent, wallpapers |-> m.wallpapers]
    BY DEF Manifests
  <2>6. made = m
    BY <1>9, <2>1, <2>2, <2>3, <2>4, <2>5 DEF made
  <2>7. all.ok /\ magic.got = <<Magic>> /\ version.got = <<Version1>>
    BY <1>7, <1>8, <2>1, <2>2
  <2> QED BY <1>2, <1>14, <2>6, <2>7, Zenon
<1>15. CASE n # Len(F)
  <2>1. e > n
    BY <1>3, <1>15
  <2>2. PICK offset, got : all = Reader(Bytes(F, n), offset, FALSE, got)
    BY <1>13, <2>1 DEF After, Thrown
  <2>3. all.ok = FALSE
    BY <2>2 DEF Reader
  <2> QED BY <1>2, <1>15, <2>3
<1> QED BY <1>14, <1>15

LEMMA CutFile ==
  ASSUME NEW V, Nat \subseteq V, NEW m \in Manifests(V), NEW n \in 0..Len(Written(m))
  PROVE  /\ n = Len(Written(m)) => Parsed(SubSeq(Written(m), 1, n)) = m
         /\ n # Len(Written(m)) => Parsed(SubSeq(Written(m), 1, n)) = None
<1>1. Written(m) \in Seq(V)
  BY WrittenParts, Zenon
<1>2. PICK o1, o2 \in Nat : Parts(m, Written(m), o1, o2)
  BY WrittenParts, Zenon
<1> QED BY <1>1, <1>2, PartsRead, Zenon

\* The format of store.hpp is one ManifestStore may be given: whatever numbers
\* and characters V a manifest is made of, what save writes is not empty and load
\* reads it back as the same manifest.  With V the naturals these are the three
\* facts that ManifestStore assumes of Encode and Decode.
THEOREM FormatReadBack ==
  ASSUME NEW V, Nat \subseteq V, NEW m \in Manifests(V)
  PROVE  Written(m) \in Seq(V) /\ Written(m) # << >> /\ Parsed(Written(m)) = m
<1> DEFINE F == Written(m)
<1>1. F \in Seq(V)
  BY WrittenParts, Zenon
<1>2. PICK o1, o2 \in Nat : Parts(m, F, o1, o2)
  BY WrittenParts, Zenon
<1>3. Len(F) \in 0..Len(F)
  <2> HIDE DEF F
  <2> QED BY <1>1
<1>4. Parsed(SubSeq(F, 1, Len(F))) = m
  BY <1>3, CutFile, Zenon
<1>5. Len(F) # 0
  <2>1. Holds(F, 0, <<Magic>>)
    BY <1>2, Zenon DEF Parts
  <2> HIDE DEF F
  <2> QED BY <1>1, <2>1 DEF Holds
<1> HIDE DEF F
<1>6. SubSeq(F, 1, Len(F)) = F /\ F # << >>
  BY <1>1, <1>5
<1>7. F \in Seq(V) /\ F # << >> /\ Parsed(F) = m
  BY <1>1, <1>4, <1>6
<1> QED BY <1>7 DEF F

-----------------------------------------------------------------------------
(* The file of any state the manifest reaches.                             *)

\* Every number and character that save may be asked to write.
Value == ((Nat \union Char) \union Hash) \union {d[f] : d \in Data, f \in Field}

LEMMA SeqGrows ==
  ASSUME NEW A, NEW B, A \subseteq B, NEW s \in Seq(A)
  PROVE  s \in Seq(B)
  OBVIOUS

LEMMA SavedIsManifest ==
  ASSUME TypeOK, IndexConsistent, NEW public \in Current, NEW private \in Current
  PROVE  Saved(public, private) \in Manifests(Value)
<1>1. Nat \subseteq Value /\ Char \subseteq Value /\ Hash \subseteq Value
      /\ \A d \in Data, f \in Field : d[f] \in Value
  BY DEF Value
<1> HIDE DEF Value
<1>2. ASSUME NEW s \in Current
      PROVE  s \in Seq(Value) \union {None}
  <2>1. s \in Seq(Char) \/ s = None
    BY DataAssumption
  <2> QED BY <1>1, <2>1, SeqGrows
<1> DEFINE row(i) == [f \in Field \union {"hash"} |->
                        IF f = "hash" THEN wallpapers[i].hash ELSE wallpapers[i].data[f]]
           rows == [i \in DOMAIN wallpapers |-> row(i)]
<1>3. ASSUME NEW i \in DOMAIN wallpapers
      PROVE  row(i) \in Fields(Value)
  <2> DEFINE w == wallpapers[i]
             d == w.data
  <2>1. w.hash \in Hash /\ d \in Data
    <3>1. wallpapers \in Seq(Wallpaper)
      BY Zenon DEF TypeOK
    <3>2. w \in Wallpaper
      BY <3>1
    <3> HIDE DEF w
    <3> QED BY <3>2 DEF Wallpaper
  <2>2. DOMAIN d = Field /\ d.absPath \in Seq(Char)
    BY <2>1, DataAssumption
  <2>3. d.absPath \in Seq(Value)
    BY <1>1, <2>2, SeqGrows
  <2>4. w.hash \in Value
    BY <1>1, <2>1
  <2>5. d.createdAt \in Value /\ d.visibility \in Value /\ d.lastShown \in Value
    BY <1>1, <2>1 DEF Field
  <2> HIDE DEF w
  <2>6. row(i) = [absPath |-> d.absPath, hash |-> w.hash, createdAt |-> d.createdAt,
                  visibility |-> d.visibility, lastShown |-> d.lastShown]
    BY DEF Field, w
  <2> HIDE DEF row, d
  <2> QED BY <2>3, <2>4, <2>5, <2>6 DEF Fields
<1>4. rows \in Seq(Fields(Value))
  <2>1. DOMAIN wallpapers = 1..Len(wallpapers) /\ Len(wallpapers) \in Nat
    BY DEF TypeOK
  <2> HIDE DEF row
  <2> QED BY <1>3, <2>1
<1>5. Distinct(rows)
  <2>1. \A i \in DOMAIN rows : i \in DOMAIN wallpapers /\ rows[i].hash = wallpapers[i].hash
    BY DEF Field
  <2>2. \A i \in DOMAIN wallpapers : i \in Int
    BY DEF TypeOK
  <2>3. \A i, j \in DOMAIN wallpapers : wallpapers[i].hash = wallpapers[j].hash => i = j
    BY <2>2 DEF IndexConsistent
  <2> HIDE DEF rows
  <2> QED BY <2>1, <2>3 DEF Distinct
<1>6. Saved(public, private) = [stateMode |-> 0, publicCurrent |-> public,
                                privateCurrent |-> private, wallpapers |-> rows]
  BY DEF Saved
<1> HIDE DEF rows
<1>7. 0 \in Value
  BY <1>1
<1> QED BY <1>2, <1>4, <1>5, <1>6, <1>7 DEF Manifests

LEMMA FilesReadBack == TypeOK /\ IndexConsistent => CutShortDetected
<1> SUFFICES ASSUME TypeOK, IndexConsistent, NEW public \in Current, NEW private \in Current,
                    NEW n \in 0..Len(Written(Saved(public, private)))
             PROVE  Parsed(SubSeq(Written(Saved(public, private)), 1, n)) =
                      IF n = Len(Written(Saved(public, private)))
                      THEN Saved(public, private) ELSE None
  BY DEF CutShortDetected
<1> DEFINE m == Saved(public, private)
<1>1. m \in Manifests(Value)
  BY SavedIsManifest
<1>2. Nat \subseteq Value
  BY DEF Value
<1>3. n \in 0..Len(Written(m))
  OBVIOUS
<1> HIDE DEF m
<1>4. /\ n = Len(Written(m)) => Parsed(SubSeq(Written(m), 1, n)) = m
      /\ n # Len(Written(m)) => Parsed(SubSeq(Written(m), 1, n)) = None
  BY <1>1, <1>2, <1>3, CutFile, Zenon
<1> QED BY <1>4 DEF m

\* In every state of the manifest, the file save would write is read back as the
\* manifest it was made of, and the same file cut short after any field, by a full
\* device or a crash, is refused by load.
THEOREM CutShortRefused == Spec => []CutShortDetected
  BY TypeCorrect, TableInvertsVector, FilesReadBack, PTL
=============================================================================
