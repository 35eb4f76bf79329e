----------------------------- MODULE HeapProofs -----------------------------
(***************************************************************************)
(* Proofs about Heap, for any sizes of headers, pages and requests: the    *)
(* lists, the counters and the clients' pointers are sound after any       *)
(* sequence of calls, and the heap implements the abstract allocator.      *)
(***************************************************************************)
EXTENDS Heap, SequenceTheorems, FiniteSetTheorems, WellFoundedInduction, TLAPS

-----------------------------------------------------------------------------
(* Linking a block and unlinking one, as operations on a sequence.         *)

\* A sequence without one of its elements.
LEMMA RemoveAtProperties ==
    ASSUME NEW S, NEW s \in Seq(S), NEW i \in 1 .. Len(s)
    PROVE  /\ RemoveAt(s, i) \in Seq(S)
           /\ Len(RemoveAt(s, i)) = Len(s) - 1
           /\ \A j \in 1 .. Len(s) - 1 : RemoveAt(s, i)[j] = IF j < i THEN s[j] ELSE s[j + 1]
<1> DEFINE u == SubSeq(s, 1, i - 1)  v == SubSeq(s, i + 1, Len(s))
<1>0. Len(s) \in Nat /\ \A j \in 1 .. Len(s) : s[j] \in S
  BY LenProperties, ElementOfSeq
<1>1. u \in Seq(S) /\ Len(u) = i - 1 /\ \A j \in 1 .. i - 1 : u[j] = s[j]
  <2>1. \A j \in 1 .. i - 1 : s[j] \in S
    BY <1>0
  <2> QED
    BY <1>0, <2>1, SubSeqProperties
<1>2. v \in Seq(S) /\ Len(v) = Len(s) - i /\ \A j \in 1 .. Len(s) - i : v[j] = s[i + j]
  <2>1. \A j \in i + 1 .. Len(s) : s[j] \in S
    BY <1>0
  <2>2. /\ v \in Seq(S)
        /\ Len(v) = IF i + 1 <= Len(s) THEN Len(s) - (i + 1) + 1 ELSE 0
        /\ \A j \in 1 .. Len(s) - (i + 1) + 1 : v[j] = s[(i + 1) + j - 1]
    BY <1>0, <2>1, SubSeqProperties
  <2> QED
    BY <1>0, <2>2
<1> HIDE DEF u, v
<1>3. /\ u \o v \in Seq(S) /\ Len(u \o v) = Len(u) + Len(v)
      /\ \A j \in 1 .. Len(u) + Len(v) : (u \o v)[j] = IF j <= Len(u) THEN u[j] ELSE v[j - Len(u)]
  BY <1>1, <1>2, ConcatProperties
<1>4. ASSUME NEW j \in 1 .. Len(s) - 1
      PROVE  (u \o v)[j] = IF j < i THEN s[j] ELSE s[j + 1]
  <2>1. CASE j < i
    BY <1>0, <1>1, <1>2, <1>3, <2>1
  <2>2. CASE ~(j < i)
    <3>1. (u \o v)[j] = v[j - (i - 1)] /\ j - (i - 1) \in 1 .. Len(s) - i
      BY <1>0, <1>1, <1>2, <1>3, <2>2
    <3>2. v[j - (i - 1)] = s[i + (j - (i - 1))] /\ i + (j - (i - 1)) = j + 1
      BY <1>0, <1>2, <3>1
    <3> QED
      BY <2>2, <3>1, <3>2
  <2> QED
    BY <2>1, <2>2
<1>5. RemoveAt(s, i) = u \o v
  BY DEF RemoveAt, u, v
<1>6. Len(u \o v) = Len(s) - 1
  BY <1>0, <1>1, <1>2, <1>3
<1> QED
  BY <1>3, <1>4, <1>5, <1>6

\* A sequence with one more element.
LEMMA InsertAtProperties ==
    ASSUME NEW S, NEW s \in Seq(S), NEW i \in 1 .. Len(s) + 1, NEW e \in S
    PROVE  /\ InsertAt(s, i, e) \in Seq(S)
           /\ Len(InsertAt(s, i, e)) = Len(s) + 1
           /\ \A j \in 1 .. Len(s) + 1 :
                InsertAt(s, i, e)[j] = IF j < i THEN s[j] ELSE IF j = i THEN e ELSE s[j - 1]
<1> DEFINE u == SubSeq(s, 1, i - 1)  v == SubSeq(s, i, Len(s))  x == u \o <<e>>
<1>0. Len(s) \in Nat /\ \A j \in 1 .. Len(s) : s[j] \in S
  BY LenProperties, ElementOfSeq
<1>1. u \in Seq(S) /\ Len(u) = i - 1 /\ \A j \in 1 .. i - 1 : u[j] = s[j]
  <2>1. \A j \in 1 .. i - 1 : s[j] \in S
    BY <1>0
  <2> QED
    BY <1>0, <2>1, SubSeqProperties
<1>2. v \in Seq(S) /\ Len(v) = Len(s) - i + 1 /\ \A j \in 1 .. Len(s) - i + 1 : v[j] = s[i + j - 1]
  <2>1. \A j \in i .. Len(s) : s[j] \in S
    BY <1>0
  <2>2. /\ v \in Seq(S)
        /\ Len(v) = IF i <= Len(s) THEN Len(s) - i + 1 ELSE 0
        /\ \A j \in 1 .. Len(s) - i + 1 : v[j] = s[i + j - 1]
    BY <1>0, <2>1, SubSeqProperties
  <2> QED
    BY <1>0, <2>2
<1> HIDE DEF u, v
<1>3. /\ x \in Seq(S) /\ Len(x) = i
      /\ \A j \in 1 .. i - 1 : x[j] = s[j]
      /\ x[i] = e
  <2> DEFINE t == <<e>>
  <2>1. t \in Seq(S) /\ Len(t) = 1 /\ t[1] = e
    OBVIOUS
  <2>0. x = u \o t
    OBVIOUS
  <2> HIDE DEF t
  <2>2. /\ u \o t \in Seq(S) /\ Len(u \o t) = Len(u) + Len(t)
        /\ \A j \in 1 .. Len(u) + Len(t) : (u \o t)[j] = IF j <= Len(u) THEN u[j] ELSE t[j - Len(u)]
    BY <1>1, <2>1, ConcatProperties
  <2> HIDE DEF x
  <2> QED
    BY <1>0, <1>1, <2>0, <2>1, <2>2
<1> HIDE DEF x
<1>4. /\ x \o v \in Seq(S) /\ Len(x \o v) = Len(x) + Len(v)
      /\ \A j \in 1 .. Len(x) + Len(v) : (x \o v)[j] = IF j <= Len(x) THEN x[j] ELSE v[j - Len(x)]
  BY <1>2, <1>3, ConcatProperties
<1>5. ASSUME NEW j \in 1 .. Len(s) + 1
      PROVE  (x \o v)[j] = IF j < i THEN s[j] ELSE IF j = i THEN e ELSE s[j - 1]
  <2>1. CASE j <= i
    BY <1>0, <1>2, <1>3, <1>4, <2>1
  <2>2. CASE ~(j <= i)
    <3>1. (x \o v)[j] = v[j - i] /\ j - i \in 1 .. Len(s) - i + 1
      BY <1>0, <1>2, <1>3, <1>4, <2>2
    <3>2. v[j - i] = s[i + (j - i) - 1] /\ i + (j - i) - 1 = j - 1
      BY <1>0, <1>2, <3>1
    <3> QED
      BY <2>2, <3>1, <3>2
  <2> QED
    BY <1>0, <2>1, <2>2
<1>6. InsertAt(s, i, e) = x \o v
  BY DEF InsertAt, u, v, x
<1>7. Len(x \o v) = Len(s) + 1
  BY <1>0, <1>2, <1>3, <1>4
<1> QED
  BY <1>4, <1>5, <1>6, <1>7

\* A set of natural numbers has a least one.
LEMMA LeastExists ==
    ASSUME NEW T, T \subseteq Nat, T # {}
    PROVE  \E x \in T : \A y \in T : x <= y
<1>1. \E x \in T : \A y \in T : <<y, x>> \notin OpToRel(<, Nat)
  BY NatLessThanWellFounded, WFMin
<1>2. \A x, y \in Nat : <<y, x>> \notin OpToRel(<, Nat) => x <= y
  BY DEF OpToRel
<1> QED
  BY <1>1, <1>2

-----------------------------------------------------------------------------
(* What each list is like.  Address order is stated for every two blocks   *)
(* and not only for neighbours, which makes it survive an unlinking.       *)

MinorRec == [at : Nat, size : Nat, req : Nat]
MajorRec == [base : Nat, size : Nat, usage : Int, minors : Seq(MinorRec)]

\* A minor lies inside its major, and has room for the aligned request.
Inside(n, m) ==
    /\ m.base + Major <= n.at
    /\ n.at + Minor + n.size <= m.base + m.size
    /\ n.req + Alignment + AlignInfo <= n.size

Before(n, o) == n.at + Minor + n.size <= o.at

Placed(m) ==
    /\ Major <= m.size
    /\ \A k \in 1 .. Len(m.minors) : Inside(m.minors[k], m)
    /\ \A k, l \in 1 .. Len(m.minors) : k < l => Before(m.minors[k], m.minors[l])

Whole(m) == Placed(m) /\ m.usage = Cardinality(Taken(m))

Layout(ms, end) ==
    /\ ms \in Seq(MajorRec)
    /\ \A i \in 1 .. Len(ms) :
         /\ Whole(ms[i]) /\ ms[i].minors # << >>
         /\ HeapStart <= ms[i].base /\ ms[i].base + ms[i].size <= end
    /\ \A i, j \in 1 .. Len(ms) : i < j => ms[i].base + ms[i].size <= ms[j].base

-----------------------------------------------------------------------------
(* Counting bytes.                                                         *)

LEMMA Constants ==
    /\ HeapStart \in Nat /\ Major \in Nat /\ Minor \in Nat /\ Alignment \in Nat
    /\ AlignInfo \in Nat /\ PageSize \in Nat /\ PageCount \in Nat /\ HeapLimit \in Nat
    /\ HeapStart > 0 /\ Major > 0 /\ Minor > 0 /\ Alignment > 0 /\ AlignInfo > 0
    /\ PageSize > 0 /\ PageCount > 0 /\ Sizes \subseteq Nat
  BY HeapAssumption

LEMMA BytesCount ==
    ASSUME NEW from \in Nat, NEW size \in Nat
    PROVE  /\ IsFiniteSet(Bytes(from, size))
           /\ Cardinality(Bytes(from, size)) = size
<1>1. /\ IsFiniteSet(from .. from + size - 1)
      /\ Cardinality(from .. from + size - 1)
           = IF from > from + size - 1 THEN 0 ELSE from + size - 1 - from + 1
  BY FS_Interval
<1> QED
  BY <1>1 DEF Bytes

\* Counting a run of bytes on top of others.
LEMMA BytesAdded ==
    ASSUME NEW S, IsFiniteSet(S), NEW from \in Nat, NEW size \in Nat,
           \A x \in S : x \notin Bytes(from, size)
    PROVE  /\ IsFiniteSet(S \cup Bytes(from, size))
           /\ Cardinality(S \cup Bytes(from, size)) = Cardinality(S) + size
<1>1. S \cap Bytes(from, size) = {}
  OBVIOUS
<1>2. Cardinality(S) \in Nat /\ Cardinality(S \cap Bytes(from, size)) = 0
  BY <1>1, FS_CardinalityType, FS_EmptySet
<1>3. /\ IsFiniteSet(S \cup Bytes(from, size))
      /\ Cardinality(S \cup Bytes(from, size))
           = Cardinality(S) + Cardinality(Bytes(from, size)) - Cardinality(S \cap Bytes(from, size))
  BY BytesCount, FS_Union
<1>4. Cardinality(Bytes(from, size)) = size
  BY BytesCount
<1> QED
  BY <1>2, <1>3, <1>4

\* Bytes below an address are finitely many.
LEMMA BoundedFinite ==
    ASSUME NEW S, NEW end \in Nat, \A x \in S : x \in Nat /\ x <= end
    PROVE  IsFiniteSet(S)
  BY FS_BoundedSetOfNaturals

LEMMA TakenFinite ==
    ASSUME NEW m \in MajorRec, Placed(m)
    PROVE  IsFiniteSet(Taken(m))
<1>1. \A n \in MinorsOf(m) : n \in MinorRec /\ Inside(n, m)
  BY LenProperties, ElementOfSeq DEF MinorsOf, Placed, MajorRec
<1>2. ASSUME NEW x \in Taken(m) PROVE x \in Nat /\ x <= m.base + m.size
  <2>1. CASE x \in Bytes(m.base, Major)
    BY <2>1, Constants DEF Bytes, MajorRec, Placed
  <2>2. ASSUME NEW n \in MinorsOf(m), x \in Bytes(n.at, Minor + n.size)
        PROVE  x \in Nat /\ x <= m.base + m.size
    <3>1. n.at \in Nat /\ n.size \in Nat /\ m.base \in Nat /\ m.size \in Nat /\ Minor \in Nat
      BY <1>1, Constants DEF MajorRec, MinorRec
    <3>2. n.at + Minor + n.size <= m.base + m.size
      BY <1>1 DEF Inside
    <3>3. x \in n.at .. n.at + (Minor + n.size) - 1
      BY <2>2 DEF Bytes
    <3> QED
      BY <3>1, <3>2, <3>3
  <2> QED
    BY <2>1, <2>2 DEF Taken
<1>3. m.base + m.size \in Nat
  BY DEF MajorRec
<1> QED
  BY <1>2, <1>3, BoundedFinite

-----------------------------------------------------------------------------
(* Linking a minor into a gap of its major, and unlinking one.             *)

LEMMA MinorTypes ==
    ASSUME NEW m \in MajorRec
    PROVE  /\ Len(m.minors) \in Nat /\ DOMAIN m.minors = 1 .. Len(m.minors)
           /\ \A k \in 1 .. Len(m.minors) : m.minors[k] \in MinorRec
           /\ MinorsOf(m) = {m.minors[k] : k \in 1 .. Len(m.minors)}
           /\ m.minors = << >> <=> Len(m.minors) = 0
<1>1. m.minors \in Seq(MinorRec)
  BY DEF MajorRec
<1> QED
  BY <1>1, LenProperties, ElementOfSeq, EmptySeq DEF MinorsOf

\* A gap lies in the major, after the minors before it and before the rest.
LEMMA GapFacts ==
    ASSUME NEW m \in MajorRec, Placed(m), NEW k \in 0 .. Len(m.minors)
    PROVE  /\ GapStart(m, k) \in Nat /\ GapEnd(m, k) \in Nat
           /\ m.base + Major <= GapStart(m, k) /\ GapStart(m, k) <= GapEnd(m, k)
           /\ GapEnd(m, k) <= m.base + m.size
           /\ \A l \in 1 .. Len(m.minors) :
                /\ l <= k => m.minors[l].at + Minor + m.minors[l].size <= GapStart(m, k)
                /\ l > k => GapEnd(m, k) <= m.minors[l].at
<1> DEFINE s == m.minors
<1>1. /\ Len(s) \in Nat /\ m.base \in Nat /\ m.size \in Nat
      /\ \A l \in 1 .. Len(s) : s[l].at \in Nat /\ s[l].size \in Nat
      /\ Minor \in Nat /\ Major \in Nat /\ Major <= m.size
  BY MinorTypes, Constants DEF MajorRec, MinorRec, Placed
<1>2. /\ \A l \in 1 .. Len(s) : /\ m.base + Major <= s[l].at
                                /\ s[l].at + Minor + s[l].size <= m.base + m.size
      /\ \A l, j \in 1 .. Len(s) : l < j => s[l].at + Minor + s[l].size <= s[j].at
  BY DEF Placed, Inside, Before
<1>3. /\ GapStart(m, k) = IF k = 0 THEN m.base + Major ELSE s[k].at + Minor + s[k].size
      /\ GapEnd(m, k) = IF k = Len(s) THEN m.base + m.size ELSE s[k + 1].at
  BY DEF GapStart, GapEnd
<1> HIDE DEF s
<1>4. k \in Nat /\ k <= Len(s) /\ (k # 0 => k \in 1 .. Len(s))
      /\ (k # Len(s) => k + 1 \in 1 .. Len(s))
  BY <1>1 DEF s
<1>5. /\ GapStart(m, k) \in Nat /\ GapEnd(m, k) \in Nat
      /\ m.base + Major <= GapStart(m, k) /\ GapEnd(m, k) <= m.base + m.size
  <2>1. GapStart(m, k) \in Nat /\ m.base + Major <= GapStart(m, k)
    <3>1. CASE k = 0
      BY <1>1, <1>3, <3>1
    <3>2. CASE k # 0
      <4>1. s[k].at \in Nat /\ s[k].size \in Nat /\ m.base + Major <= s[k].at
        BY <1>1, <1>2, <1>4, <3>2
      <4>2. GapStart(m, k) = s[k].at + Minor + s[k].size
        BY <1>3, <3>2
      <4>3. \A a, z \in Nat : /\ a + Minor + z \in Nat
                              /\ m.base + Major <= a => m.base + Major <= a + Minor + z
        BY <1>1
      <4> QED
        BY <4>1, <4>2, <4>3
    <3> QED
      BY <3>1, <3>2
  <2>2. GapEnd(m, k) \in Nat /\ GapEnd(m, k) <= m.base + m.size
    <3>1. CASE k = Len(s)
      BY <1>1, <1>3, <3>1
    <3>2. CASE k # Len(s)
      <4>1. /\ s[k + 1].at \in Nat /\ s[k + 1].size \in Nat
            /\ s[k + 1].at + Minor + s[k + 1].size <= m.base + m.size
        BY <1>1, <1>2, <1>4, <3>2
      <4>2. GapEnd(m, k) = s[k + 1].at
        BY <1>3, <3>2
      <4>3. m.base \in Nat /\ Minor \in Nat /\ m.size \in Nat
        BY <1>1
      <4> QED
        BY <4>1, <4>2, <4>3
    <3> QED
      BY <3>1, <3>2
  <2> QED
    BY <2>1, <2>2
<1>6. GapStart(m, k) <= GapEnd(m, k)
  <2>1. CASE k = 0 \/ k = Len(s)
    BY <1>1, <1>2, <1>3, <1>4, <2>1
  <2>2. CASE k # 0 /\ k # Len(s)
    BY <1>1, <1>2, <1>3, <1>4, <2>2
  <2> QED
    BY <2>1, <2>2
<1>7. ASSUME NEW l \in 1 .. Len(s)
      PROVE  /\ l <= k => s[l].at + Minor + s[l].size <= GapStart(m, k)
             /\ l > k => GapEnd(m, k) <= s[l].at
  <2>1. CASE l < k
    <3>1. GapStart(m, k) = s[k].at + Minor + s[k].size /\ k \in 1 .. Len(s)
      BY <1>1, <1>3, <1>4, <2>1
    <3>2. s[l].at + Minor + s[l].size <= s[k].at
      BY <1>2, <2>1, <3>1
    <3>3. /\ s[l].at \in Nat /\ s[l].size \in Nat /\ s[k].at \in Nat /\ s[k].size \in Nat
          /\ Minor \in Nat /\ ~(l > k)
      BY <1>1, <1>4, <2>1, <3>1
    <3>4. \A a, z, b, y \in Nat : a + Minor + z <= b => a + Minor + z <= b + Minor + y
      BY <1>1
    <3>5. s[l].at + Minor + s[l].size <= GapStart(m, k)
      BY <3>1, <3>2, <3>3, <3>4
    <3> QED
      BY <3>3, <3>5
  <2>2. CASE l = k
    BY <1>1, <1>3, <1>4, <2>2
  <2>3. CASE l > k
    <3>1. GapEnd(m, k) = s[k + 1].at /\ k + 1 \in 1 .. Len(s)
      BY <1>1, <1>3, <1>4, <2>3
    <3>2. CASE l = k + 1
      BY <1>4, <1>5, <3>1, <3>2
    <3>3. CASE l > k + 1
      <4>1. s[k + 1].at + Minor + s[k + 1].size <= s[l].at
        BY <1>2, <3>1, <3>3
      <4> QED
        BY SMTT(30), <1>1, <1>4, <3>1, <3>3, <4>1
    <3> QED
      BY <1>4, <2>3, <3>2, <3>3
  <2> QED
    BY <1>4, <2>1, <2>2, <2>3
<1> QED
  BY <1>5, <1>6, <1>7 DEF s

\* The minor that WithMinor links into the k-th gap is apart from the others.
LEMMA NewMinorApart ==
    ASSUME NEW m \in MajorRec, Placed(m), NEW size \in Nat, NEW req \in Nat,
           NEW k \in Gaps(m, size), size = req + Alignment + AlignInfo,
           NEW n, n = [at |-> GapStart(m, k), size |-> size, req |-> req]
    PROVE  /\ n \in MinorRec /\ Inside(n, m)
           /\ \A l \in 1 .. Len(m.minors) : /\ l <= k => Before(m.minors[l], n)
                                            /\ l > k => Before(n, m.minors[l])
<1>1. k \in 0 .. Len(m.minors) /\ GapEnd(m, k) - GapStart(m, k) >= size + Minor
  BY DEF Gaps
<1>2. /\ GapStart(m, k) \in Nat /\ GapEnd(m, k) \in Nat
      /\ m.base + Major <= GapStart(m, k) /\ GapEnd(m, k) <= m.base + m.size
      /\ \A l \in 1 .. Len(m.minors) :
           /\ l <= k => m.minors[l].at + Minor + m.minors[l].size <= GapStart(m, k)
           /\ l > k => GapEnd(m, k) <= m.minors[l].at
  BY <1>1, GapFacts
<1>3. m.base + m.size \in Nat /\ Minor \in Nat /\ Len(m.minors) \in Nat
      /\ \A l \in 1 .. Len(m.minors) : m.minors[l].at \in Nat
  <2>1. m.base + m.size \in Nat
    BY DEF MajorRec
  <2>2. Len(m.minors) \in Nat /\ \A l \in 1 .. Len(m.minors) : m.minors[l] \in MinorRec
    BY MinorTypes
  <2>3. \A o \in MinorRec : o.at \in Nat
    BY DEF MinorRec
  <2>4. \A l \in 1 .. Len(m.minors) : m.minors[l].at \in Nat
    BY <2>2, <2>3
  <2> QED BY <2>1, <2>2, <2>4, Constants
<1>4. \A e \in Nat : GapEnd(m, k) <= e => GapStart(m, k) + Minor + size <= e
  BY <1>1, <1>2, <1>3
<1>5. n \in MinorRec /\ n.at = GapStart(m, k) /\ n.size = size /\ n.req = req
  BY <1>2 DEF MinorRec
<1>6. req + Alignment + AlignInfo <= size
  BY Constants
<1>7. Inside(n, m)
  BY <1>2, <1>3, <1>4, <1>5, <1>6 DEF Inside
<1>8. ASSUME NEW l \in 1 .. Len(m.minors), l <= k PROVE Before(m.minors[l], n)
  BY <1>2, <1>5, <1>8 DEF Before
<1>9. ASSUME NEW l \in 1 .. Len(m.minors), l > k PROVE Before(n, m.minors[l])
  BY <1>2, <1>3, <1>4, <1>5, <1>9 DEF Before
<1> QED
  BY <1>5, <1>7, <1>8, <1>9

\* Two minors one of which ends before the other have no byte in common.
LEMMA ApartBytes ==
    ASSUME NEW n \in MinorRec, NEW o \in MinorRec, Before(n, o) \/ Before(o, n)
    PROVE  \A x \in Bytes(n.at, Minor + n.size) : x \notin Bytes(o.at, Minor + o.size)
<1>1. \A a, b, c, d \in Nat :
        a + Minor + b <= c \/ c + Minor + d <= a
          => \A x \in a .. a + (Minor + b) - 1 : x \notin c .. c + (Minor + d) - 1
  BY Constants
<1>2. n.at \in Nat /\ n.size \in Nat /\ o.at \in Nat /\ o.size \in Nat
  BY DEF MinorRec
<1> QED
  BY <1>1, <1>2 DEF Before, Bytes

\* The header's bytes are not a minor's.
LEMMA HeaderBytes ==
    ASSUME NEW m \in MajorRec, NEW n \in MinorRec, Inside(n, m)
    PROVE  \A x \in Bytes(m.base, Major) : x \notin Bytes(n.at, Minor + n.size)
<1>1. \A a, b, c \in Nat :
        a + Major <= b => \A x \in a .. a + Major - 1 : x \notin b .. b + (Minor + c) - 1
  BY Constants
<1>2. n.at \in Nat /\ n.size \in Nat /\ m.base \in Nat
  BY DEF MinorRec, MajorRec
<1> QED
  BY <1>1, <1>2 DEF Inside, Bytes

LEMMA MinorInserted ==
    ASSUME NEW s \in Seq(MinorRec), NEW n \in MinorRec, NEW k \in 0 .. Len(s)
    PROVE  /\ InsertAt(s, k + 1, n) \in Seq(MinorRec)
           /\ Len(InsertAt(s, k + 1, n)) = Len(s) + 1
           /\ \A j \in 1 .. Len(s) + 1 :
                InsertAt(s, k + 1, n)[j]
                  = IF j < k + 1 THEN s[j] ELSE IF j = k + 1 THEN n ELSE s[j - 1]
<1>1. PICK i : i = k + 1
  OBVIOUS
<1>2. Len(s) \in Nat /\ i \in 1 .. Len(s) + 1
  BY <1>1, LenProperties
<1>3. /\ InsertAt(s, i, n) \in Seq(MinorRec) /\ Len(InsertAt(s, i, n)) = Len(s) + 1
      /\ \A j \in 1 .. Len(s) + 1 :
           InsertAt(s, i, n)[j] = IF j < i THEN s[j] ELSE IF j = i THEN n ELSE s[j - 1]
  BY <1>2, InsertAtProperties
<1> QED
  BY <1>1, <1>3

LEMMA NotBeforeItself == \A n \in MinorRec : ~Before(n, n)
<1>1. \A a, b \in Nat : ~(a + Minor + b <= a)
  BY Constants
<1> QED
  BY <1>1 DEF MinorRec, Before

Linked(m, k, n) ==
    [m EXCEPT !.usage = @ + n.size + Minor, !.minors = InsertAt(@, k + 1, n)]

\* Linking the minor into the list keeps the list in address order, adds
\* just this minor and counts its bytes.
LEMMA MinorLinked ==
    ASSUME NEW m \in MajorRec, Whole(m), NEW size \in Nat, NEW req \in Nat,
           NEW k \in Gaps(m, size), size = req + Alignment + AlignInfo,
           NEW n, n = [at |-> GapStart(m, k), size |-> size, req |-> req],
           NEW w, w = Linked(m, k, n)
    PROVE  /\ w \in MajorRec /\ Whole(w) /\ w.minors # << >>
           /\ w.base = m.base /\ w.size = m.size
           /\ MinorsOf(w) = MinorsOf(m) \cup {n} /\ n \notin MinorsOf(m)
           /\ n \in MinorRec
<1> DEFINE s == m.minors  t == InsertAt(s, k + 1, n)
<1>0. k \in 0 .. Len(s) /\ Len(s) \in Nat /\ s \in Seq(MinorRec) /\ Placed(m)
  BY MinorTypes DEF Gaps, Whole, MajorRec
<1>1. /\ n \in MinorRec /\ Inside(n, m)
      /\ \A l \in 1 .. Len(s) : (l <= k => Before(s[l], n)) /\ (l > k => Before(n, s[l]))
  BY <1>0, NewMinorApart
<1>2. /\ t \in Seq(MinorRec) /\ Len(t) = Len(s) + 1
      /\ \A j \in 1 .. Len(s) + 1 :
           t[j] = IF j < k + 1 THEN s[j] ELSE IF j = k + 1 THEN n ELSE s[j - 1]
  BY ZenonT(60), <1>0, <1>1, MinorInserted
<1>u. w = [m EXCEPT !.usage = @ + size + Minor, !.minors = t]
  BY DEF Linked
<1> HIDE DEF t
<1>3. /\ w.minors = t /\ w.base = m.base /\ w.size = m.size
      /\ w.usage = m.usage + size + Minor
      /\ w \in MajorRec
  <2>1. m.usage + size + Minor \in Int
    BY Constants DEF MajorRec
  <2> QED
    BY <1>2, <1>u, <2>1 DEF MajorRec
<1>4. Placed(w)
  <2>1. \A l \in 1 .. Len(s) : Inside(s[l], m)
    BY <1>0 DEF Placed
  <2>2. ASSUME NEW j \in 1 .. Len(t) PROVE Inside(t[j], m)
    <3>1. j < k + 1 => j \in 1 .. Len(s)
      BY <1>0, <1>2
    <3>2. j > k + 1 => j - 1 \in 1 .. Len(s)
      BY <1>0, <1>2
    <3> QED
      BY <1>0, <1>1, <1>2, <2>1, <3>1, <3>2
  <2>3. \A l, j \in 1 .. Len(s) : l < j => Before(s[l], s[j])
    BY <1>0 DEF Placed
  <2>4. ASSUME NEW j \in 1 .. Len(t), NEW l \in 1 .. Len(t), j < l PROVE Before(t[j], t[l])
    <3>1. CASE l < k + 1
      <4>1. t[j] = s[j] /\ t[l] = s[l] /\ j \in 1 .. Len(s) /\ l \in 1 .. Len(s)
        BY <1>0, <1>2, <2>4, <3>1
      <4> QED
        BY <2>3, <2>4, <4>1
    <3>2. CASE l = k + 1
      BY <1>0, <1>1, <1>2, <2>4, <3>2
    <3>3. CASE l > k + 1
      <4>1. t[l] = s[l - 1] /\ l - 1 \in 1 .. Len(s) /\ l - 1 > k
        BY <1>0, <1>2, <3>3
      <4>2. CASE j < k + 1
        <5>1. t[j] = s[j] /\ j \in 1 .. Len(s) /\ j < l - 1
          BY <1>0, <1>2, <4>1, <4>2
        <5> QED
          BY <2>3, <4>1, <5>1
      <4>3. CASE j = k + 1
        BY <1>0, <1>1, <1>2, <4>1, <4>3
      <4>4. CASE j > k + 1
        <5>1. t[j] = s[j - 1] /\ j - 1 \in 1 .. Len(s) /\ j - 1 < l - 1
          BY <1>0, <1>2, <2>4, <4>1, <4>4
        <5> QED
          BY <2>3, <4>1, <5>1
      <4> QED
        BY <1>0, <4>2, <4>3, <4>4
    <3> QED
      BY <1>0, <3>1, <3>2, <3>3
  <2> QED
    BY <1>0, <1>3, <2>2, <2>4 DEF Placed, Inside
<1>5. MinorsOf(w) = MinorsOf(m) \cup {n}
  <2>1. MinorsOf(w) = {t[j] : j \in 1 .. Len(s) + 1} /\ MinorsOf(m) = {s[j] : j \in 1 .. Len(s)}
    BY SMTT(30), <1>2, <1>3, MinorTypes
  <2>2. ASSUME NEW j \in 1 .. Len(s) + 1 PROVE t[j] \in {s[l] : l \in 1 .. Len(s)} \cup {n}
    <3>1. j < k + 1 => j \in 1 .. Len(s)
      BY <1>0
    <3>2. j > k + 1 => j - 1 \in 1 .. Len(s)
      BY <1>0
    <3>3. CASE j < k + 1
      BY <1>2, <3>1, <3>3
    <3>4. CASE j = k + 1
      BY <1>0, <1>2, <3>4
    <3>5. CASE j > k + 1
      <4>1. t[j] = s[j - 1]
        BY <1>0, <1>2, <3>5
      <4> QED
        BY <3>2, <3>5, <4>1
    <3> QED
      BY <1>0, <3>3, <3>4, <3>5
  <2>3. n = t[k + 1] /\ k + 1 \in 1 .. Len(s) + 1
    BY <1>0, <1>2
  <2>4. ASSUME NEW l \in 1 .. Len(s) PROVE s[l] \in {t[j] : j \in 1 .. Len(s) + 1}
    <3>1. CASE l < k + 1
      BY <1>0, <1>2, <3>1
    <3>2. CASE ~(l < k + 1)
      <4>1. l + 1 \in 1 .. Len(s) + 1 /\ ~(l + 1 < k + 1) /\ l + 1 # k + 1 /\ (l + 1) - 1 = l
        BY <1>0, <3>2
      <4>2. t[l + 1] = s[(l + 1) - 1]
        BY <1>2, <4>1
      <4> QED
        BY <4>1, <4>2
    <3> QED
      BY <3>1, <3>2
  <2> QED
    BY <2>1, <2>2, <2>3, <2>4
<1>6. w.usage = Cardinality(Taken(w))
  <2>1. Taken(w) = Taken(m) \cup Bytes(n.at, Minor + n.size)
    BY <1>3, <1>5 DEF Taken
  <2>2. ASSUME NEW x \in Taken(m) PROVE x \notin Bytes(n.at, Minor + n.size)
    <3>1. CASE x \in Bytes(m.base, Major)
      BY <1>1, <3>1, HeaderBytes
    <3>2. ASSUME NEW l \in 1 .. Len(s), x \in Bytes(s[l].at, Minor + s[l].size)
          PROVE  x \notin Bytes(n.at, Minor + n.size)
      <4>1. s[l] \in MinorRec /\ (Before(s[l], n) \/ Before(n, s[l]))
        BY <1>0, <1>1, ElementOfSeq
      <4> QED
        BY <1>1, <3>2, <4>1, ApartBytes
    <3> QED
      BY <3>1, <3>2, MinorTypes DEF Taken
  <2>3. n.at \in Nat /\ Minor + n.size \in Nat /\ n.size = size
    BY <1>1, Constants DEF MinorRec
  <2>4. Cardinality(Taken(w)) = Cardinality(Taken(m)) + (Minor + n.size)
    BY <1>0, <2>1, <2>2, <2>3, TakenFinite, BytesAdded
  <2>5. m.usage = Cardinality(Taken(m)) /\ m.usage \in Int
    BY DEF Whole, MajorRec
  <2> QED
    BY <1>3, <2>3, <2>4, <2>5, Constants
<1>7. w.minors # << >>
  BY <1>0, <1>2, <1>3, MinorTypes
<1>8. n \notin MinorsOf(m)
  <2>1. ASSUME NEW l \in 1 .. Len(s) PROVE s[l] # n
    BY <1>0, <1>1, NotBeforeItself
  <2> QED
    BY <2>1, MinorTypes
<1> QED
  BY <1>1, <1>3, <1>4, <1>5, <1>6, <1>7, <1>8 DEF Whole

\* Any two minors of a list are apart.
LEMMA MinorsOrdered ==
    ASSUME NEW m \in MajorRec, Placed(m),
           NEW j \in 1 .. Len(m.minors), NEW l \in 1 .. Len(m.minors), j # l
    PROVE  /\ Before(m.minors[j], m.minors[l]) \/ Before(m.minors[l], m.minors[j])
           /\ m.minors[j] # m.minors[l]
<1>1. j < l \/ l < j
  BY MinorTypes
<1>2. Before(m.minors[j], m.minors[l]) \/ Before(m.minors[l], m.minors[j])
  BY <1>1 DEF Placed
<1> QED
  BY <1>2, NotBeforeItself, MinorTypes

LEMMA MinorRemoved ==
    ASSUME NEW s \in Seq(MinorRec), NEW k \in 1 .. Len(s)
    PROVE  /\ RemoveAt(s, k) \in Seq(MinorRec)
           /\ Len(RemoveAt(s, k)) = Len(s) - 1
           /\ \A j \in 1 .. Len(s) - 1 :
                RemoveAt(s, k)[j] = IF j < k THEN s[j] ELSE s[j + 1]
  BY RemoveAtProperties

\* Unlinking a minor takes just this one out, and its bytes off the count.
LEMMA MinorUnlinked ==
    ASSUME NEW m \in MajorRec, Whole(m), NEW k \in 1 .. Len(m.minors),
           NEW n, n = m.minors[k],
           NEW w, w = WithoutMinor(m, k)
    PROVE  /\ w \in MajorRec /\ Whole(w) /\ Len(w.minors) = Len(m.minors) - 1
           /\ w.base = m.base /\ w.size = m.size
           /\ MinorsOf(w) = MinorsOf(m) \ {n}
<1> DEFINE s == m.minors  t == RemoveAt(s, k)
<1>0. Len(s) \in Nat /\ s \in Seq(MinorRec) /\ Placed(m) /\ n \in MinorRec /\ n = s[k]
  BY MinorTypes DEF Whole, MajorRec
<1>1. /\ t \in Seq(MinorRec) /\ Len(t) = Len(s) - 1
      /\ \A j \in 1 .. Len(s) - 1 : t[j] = IF j < k THEN s[j] ELSE s[j + 1]
  BY <1>0, MinorRemoved
<1>2. w = [m EXCEPT !.usage = @ - (n.size + Minor), !.minors = t]
  BY DEF WithoutMinor
<1> HIDE DEF t
<1>3. /\ w.minors = t /\ w.base = m.base /\ w.size = m.size
      /\ w.usage = m.usage - (n.size + Minor)
      /\ w \in MajorRec
  <2>1. n.size \in Nat
    BY <1>0 DEF MinorRec
  <2>2. m.usage - (n.size + Minor) \in Int
    BY <2>1, Constants DEF MajorRec
  <2> QED
    BY <1>1, <1>2, <2>2 DEF MajorRec
<1>4. \A j \in 1 .. Len(t) : \E l \in 1 .. Len(s) :
        l # k /\ t[j] = s[l] /\ l = IF j < k THEN j ELSE j + 1
  BY <1>0, <1>1
<1>5. Placed(w)
  <2>1. \A j \in 1 .. Len(t) : Inside(t[j], m)
    BY <1>0, <1>4 DEF Placed
  <2>2. ASSUME NEW j \in 1 .. Len(t), NEW l \in 1 .. Len(t), j < l PROVE Before(t[j], t[l])
    <3>1. PICK a \in 1 .. Len(s) : t[j] = s[a] /\ a = IF j < k THEN j ELSE j + 1
      BY <1>4
    <3>2. PICK b \in 1 .. Len(s) : t[l] = s[b] /\ b = IF l < k THEN l ELSE l + 1
      BY <1>4
    <3>3. a < b
      BY <1>0, <1>1, <2>2, <3>1, <3>2
    <3> QED
      BY <1>0, <3>1, <3>2, <3>3 DEF Placed
  <2> QED
    BY <1>0, <1>3, <2>1, <2>2 DEF Placed, Inside
<1>6. MinorsOf(w) = MinorsOf(m) \ {n}
  <2>1. MinorsOf(w) = {t[j] : j \in 1 .. Len(t)} /\ MinorsOf(m) = {s[j] : j \in 1 .. Len(s)}
    BY <1>1, <1>3, MinorTypes
  <2>2. \A l \in 1 .. Len(s) : l # k => s[l] # n
    BY <1>0, MinorsOrdered
  <2>3. \A j \in 1 .. Len(t) : t[j] \in {s[l] : l \in 1 .. Len(s)} /\ t[j] # n
    BY <1>4, <2>2
  <2>4. ASSUME NEW l \in 1 .. Len(s), l # k PROVE s[l] \in {t[j] : j \in 1 .. Len(t)}
    <3>1. CASE l < k
      BY SMTT(30), <1>0, <1>1, <3>1
    <3>2. CASE l > k
      <4>1. l - 1 \in 1 .. Len(s) - 1 /\ ~(l - 1 < k) /\ (l - 1) + 1 = l
        BY <1>0, <3>2
      <4>2. t[l - 1] = s[(l - 1) + 1]
        BY <1>1, <4>1
      <4> QED
        BY <1>1, <4>1, <4>2
    <3> QED
      BY <1>0, <2>4, <3>1, <3>2
  <2> QED
    BY <1>0, <2>1, <2>2, <2>3, <2>4
<1>7. w.usage = Cardinality(Taken(w))
  <2>1. n \in MinorsOf(m)
    BY <1>0, MinorTypes
  <2>2. Taken(m) = Taken(w) \cup Bytes(n.at, Minor + n.size)
    BY <1>3, <1>6, <2>1 DEF Taken
  <2>3. ASSUME NEW x \in Taken(w) PROVE x \notin Bytes(n.at, Minor + n.size)
    <3>1. CASE x \in Bytes(m.base, Major)
      <4>1. Inside(n, m)
        BY <1>0 DEF Placed
      <4> QED
        BY <1>0, <3>1, <4>1, HeaderBytes
    <3>2. ASSUME NEW l \in 1 .. Len(s), l # k, x \in Bytes(s[l].at, Minor + s[l].size)
          PROVE  x \notin Bytes(n.at, Minor + n.size)
      <4>1. s[l] \in MinorRec /\ (Before(s[l], n) \/ Before(n, s[l]))
        BY <1>0, <3>2, MinorsOrdered, ElementOfSeq
      <4> QED
        BY <1>0, <3>2, <4>1, ApartBytes
    <3>3. \A o \in MinorsOf(w) : \E l \in 1 .. Len(s) : l # k /\ o = s[l]
      <4>1. MinorsOf(w) = {t[j] : j \in 1 .. Len(t)}
        BY <1>1, <1>3, MinorTypes
      <4> QED
        BY <1>4, <4>1
    <3> QED
      BY <1>3, <3>1, <3>2, <3>3 DEF Taken
  <2>4. n.at \in Nat /\ Minor + n.size \in Nat /\ n.size \in Nat
    <3>1. n.at \in Nat /\ n.size \in Nat
      BY <1>0 DEF MinorRec
    <3> QED
      BY <3>1, Constants
  <2>5. IsFiniteSet(Taken(w)) /\ Cardinality(Taken(w)) \in Nat
    BY <1>3, <1>5, TakenFinite, FS_CardinalityType
  <2>6. Cardinality(Taken(m)) = Cardinality(Taken(w)) + (Minor + n.size)
    <3> DEFINE S == Taken(w)  f == n.at  z == Minor + n.size
    <3>1. IsFiniteSet(S) /\ (\A x \in S : x \notin Bytes(f, z)) /\ f \in Nat /\ z \in Nat
      BY <2>3, <2>4, <2>5
    <3>2. Taken(m) = S \cup Bytes(f, z)
      BY <2>2
    <3> HIDE DEF S, f, z
    <3>3. Cardinality(S \cup Bytes(f, z)) = Cardinality(S) + z
      BY <3>1, BytesAdded
    <3> QED
      BY <3>2, <3>3 DEF S, z
  <2>7. m.usage = Cardinality(Taken(m))
    BY DEF Whole
  <2> QED
    BY <1>3, <2>4, <2>5, <2>6, <2>7, Constants
<1> QED
  BY <1>1, <1>3, <1>5, <1>6, <1>7 DEF Whole

-----------------------------------------------------------------------------
(* The list of majors when one is changed in place, appended or unlinked.  *)

AllMinors(ms) == UNION {MinorsOf(ms[i]) : i \in DOMAIN ms}

AllBytes(ms) == UNION {Bytes(ms[i].base, ms[i].size) : i \in DOMAIN ms}

LEMMA LayoutTypes ==
    ASSUME NEW ms, NEW end, Layout(ms, end)
    PROVE  /\ Len(ms) \in Nat /\ DOMAIN ms = 1 .. Len(ms)
           /\ \A i \in 1 .. Len(ms) : ms[i] \in MajorRec
           /\ AllMinors(ms) = UNION {MinorsOf(ms[i]) : i \in 1 .. Len(ms)}
           /\ AllBytes(ms) = UNION {Bytes(ms[i].base, ms[i].size) : i \in 1 .. Len(ms)}
<1>1. ms \in Seq(MajorRec)
  BY DEF Layout
<1> QED
  BY <1>1, LenProperties, ElementOfSeq DEF AllMinors, AllBytes

LEMMA SameBytes ==
    ASSUME NEW ms, NEW r, NEW end, Layout(ms, end), Layout(r, end), Len(r) = Len(ms),
           \A j \in 1 .. Len(ms) : r[j].base = ms[j].base /\ r[j].size = ms[j].size
    PROVE  AllBytes(r) = AllBytes(ms)
<1>1. AllBytes(r) = UNION {Bytes(r[j].base, r[j].size) : j \in 1 .. Len(r)}
  BY LayoutTypes
<1>2. AllBytes(ms) = UNION {Bytes(ms[j].base, ms[j].size) : j \in 1 .. Len(ms)}
  BY LayoutTypes
<1> QED
  BY <1>1, <1>2

Replaced(ms, i, w) == [ms EXCEPT ![i] = w]

LEMMA LayoutReplace ==
    ASSUME NEW ms, NEW end, Layout(ms, end), NEW i \in 1 .. Len(ms),
           NEW w \in MajorRec, Whole(w), w.minors # << >>,
           w.base = ms[i].base, w.size = ms[i].size,
           NEW r, r = Replaced(ms, i, w)
    PROVE  /\ Layout(r, end) /\ Len(r) = Len(ms)
           /\ AllBytes(r) = AllBytes(ms)
           /\ \A j \in 1 .. Len(ms) : r[j] = IF j = i THEN w ELSE ms[j]
<1>1. r \in Seq(MajorRec) /\ Len(r) = Len(ms)
  BY ExceptSeq DEF Layout, Replaced
<1>2. \A j \in 1 .. Len(ms) : r[j] = IF j = i THEN w ELSE ms[j]
  BY LayoutTypes DEF Replaced
<1>3. \A j \in 1 .. Len(ms) : r[j].base = ms[j].base /\ r[j].size = ms[j].size
  BY <1>2
<1>4. Layout(r, end)
  BY <1>1, <1>2, <1>3 DEF Layout
<1>5. AllBytes(r) = AllBytes(ms)
  BY <1>1, <1>3, <1>4, SameBytes
<1> QED
  BY <1>1, <1>2, <1>4, <1>5

LEMMA LayoutAppend ==
    ASSUME NEW ms, NEW end \in Nat, Layout(ms, end), HeapStart <= end,
           NEW w \in MajorRec, Whole(w), w.minors # << >>, w.base = end,
           NEW r \in Seq(MajorRec), Len(r) = Len(ms) + 1,
           \A j \in 1 .. Len(ms) : r[j] = ms[j],
           r[Len(ms) + 1] = w
    PROVE  /\ Layout(r, end + w.size)
           /\ AllMinors(r) = AllMinors(ms) \cup MinorsOf(w)
           /\ AllBytes(r) = AllBytes(ms) \cup Bytes(w.base, w.size)
<1>1. /\ r \in Seq(MajorRec) /\ Len(r) = Len(ms) + 1
      /\ \A j \in 1 .. Len(ms) : r[j] = ms[j]
      /\ r[Len(ms) + 1] = w
  OBVIOUS
<1>2. Len(ms) \in Nat /\ w.size \in Nat /\ \A j \in 1 .. Len(ms) : ms[j] \in MajorRec
  BY LayoutTypes DEF MajorRec
<1>3. ASSUME NEW j \in 1 .. Len(ms) + 1 PROVE j \in 1 .. Len(ms) \/ j = Len(ms) + 1
  BY <1>2
<1>4. ASSUME NEW j \in 1 .. Len(r)
      PROVE  /\ Whole(r[j]) /\ r[j].minors # << >>
             /\ HeapStart <= r[j].base /\ r[j].base + r[j].size <= end + w.size
  <2>1. CASE j \in 1 .. Len(ms)
    <3>1. /\ r[j] = ms[j] /\ ms[j].base \in Nat /\ ms[j].size \in Nat
          /\ ms[j].base + ms[j].size <= end /\ HeapStart <= ms[j].base
          /\ Whole(ms[j]) /\ ms[j].minors # << >>
      BY <1>1, <1>2, <2>1 DEF Layout, MajorRec
    <3>2. \A a, b \in Nat : a + b <= end => a + b <= end + w.size
      BY <1>2
    <3> QED
      BY <3>1, <3>2
  <2>2. CASE j = Len(ms) + 1
    BY <1>1, <1>2, <2>2
  <2> QED
    BY <1>1, <1>3, <2>1, <2>2
<1>5. ASSUME NEW i \in 1 .. Len(r), NEW j \in 1 .. Len(r), i < j
      PROVE  r[i].base + r[i].size <= r[j].base
  <2>1. i \in 1 .. Len(ms)
    BY <1>1, <1>2, <1>5
  <2>2. CASE j \in 1 .. Len(ms)
    BY <1>1, <1>5, <2>1, <2>2 DEF Layout
  <2>3. CASE j = Len(ms) + 1
    BY <1>1, <2>1, <2>3 DEF Layout
  <2> QED
    BY <1>1, <1>3, <2>2, <2>3
<1>6. Layout(r, end + w.size)
  BY <1>1, <1>4, <1>5 DEF Layout
<1>7. /\ AllMinors(r) = UNION {MinorsOf(r[i]) : i \in 1 .. Len(ms) + 1}
      /\ AllBytes(r) = UNION {Bytes(r[i].base, r[i].size) : i \in 1 .. Len(ms) + 1}
      /\ AllMinors(ms) = UNION {MinorsOf(ms[i]) : i \in 1 .. Len(ms)}
      /\ AllBytes(ms) = UNION {Bytes(ms[i].base, ms[i].size) : i \in 1 .. Len(ms)}
  <2>1. /\ AllMinors(r) = UNION {MinorsOf(r[i]) : i \in 1 .. Len(r)}
        /\ AllBytes(r) = UNION {Bytes(r[i].base, r[i].size) : i \in 1 .. Len(r)}
    BY <1>6, LayoutTypes
  <2> QED
    BY <1>1, <2>1, LayoutTypes
<1>8. Len(ms) + 1 \in 1 .. Len(ms) + 1 /\ \A j \in 1 .. Len(ms) : j \in 1 .. Len(ms) + 1
  BY <1>2
<1>9. AllMinors(r) = AllMinors(ms) \cup MinorsOf(w)
  BY <1>1, <1>3, <1>7, <1>8
<1>10. AllBytes(r) = AllBytes(ms) \cup Bytes(w.base, w.size)
  BY <1>1, <1>3, <1>7, <1>8
<1> QED
  BY <1>6, <1>9, <1>10

LEMMA MajorRemoved ==
    ASSUME NEW s \in Seq(MajorRec), NEW k \in 1 .. Len(s)
    PROVE  /\ RemoveAt(s, k) \in Seq(MajorRec)
           /\ Len(RemoveAt(s, k)) = Len(s) - 1
           /\ \A j \in 1 .. Len(s) - 1 :
                RemoveAt(s, k)[j] = IF j < k THEN s[j] ELSE s[j + 1]
  BY RemoveAtProperties

LEMMA LayoutRemove ==
    ASSUME NEW ms, NEW end, Layout(ms, end), NEW i \in 1 .. Len(ms),
           NEW r, r = RemoveAt(ms, i)
    PROVE  /\ Layout(r, end)
           /\ \A j \in 1 .. Len(r) : \E l \in 1 .. Len(ms) : l # i /\ r[j] = ms[l]
           /\ \A l \in 1 .. Len(ms) : l # i => \E j \in 1 .. Len(r) : r[j] = ms[l]
<1>0. Len(ms) \in Nat /\ ms \in Seq(MajorRec)
  BY LayoutTypes DEF Layout
<1>1. /\ r \in Seq(MajorRec) /\ Len(r) = Len(ms) - 1
      /\ \A j \in 1 .. Len(ms) - 1 : r[j] = IF j < i THEN ms[j] ELSE ms[j + 1]
  BY <1>0, MajorRemoved
<1>2. \A j \in 1 .. Len(r) : \E l \in 1 .. Len(ms) :
        l # i /\ r[j] = ms[l] /\ l = IF j < i THEN j ELSE j + 1
  BY <1>0, <1>1
<1>3. ASSUME NEW l \in 1 .. Len(ms), l # i PROVE \E j \in 1 .. Len(r) : r[j] = ms[l]
  <2>1. CASE l < i
    BY <1>0, <1>1, <2>1
  <2>2. CASE l > i
    <3>1. l - 1 \in 1 .. Len(ms) - 1 /\ ~(l - 1 < i) /\ (l - 1) + 1 = l
      BY <1>0, <2>2
    <3>2. r[l - 1] = ms[(l - 1) + 1]
      BY <1>1, <3>1
    <3> QED
      BY <1>1, <3>1, <3>2
  <2> QED
    BY <1>0, <1>3, <2>1, <2>2
<1>4. \A j \in 1 .. Len(r) :
        /\ Whole(r[j]) /\ r[j].minors # << >>
        /\ HeapStart <= r[j].base /\ r[j].base + r[j].size <= end
  BY <1>2 DEF Layout
<1>5. ASSUME NEW j \in 1 .. Len(r), NEW l \in 1 .. Len(r), j < l
      PROVE  r[j].base + r[j].size <= r[l].base
  <2>1. PICK a \in 1 .. Len(ms) : r[j] = ms[a] /\ a = IF j < i THEN j ELSE j + 1
    BY <1>2
  <2>2. PICK b \in 1 .. Len(ms) : r[l] = ms[b] /\ b = IF l < i THEN l ELSE l + 1
    BY <1>2
  <2>3. a < b
    BY <1>0, <1>1, <1>5, <2>1, <2>2
  <2> QED
    BY <2>1, <2>2, <2>3 DEF Layout
<1>6. Layout(r, end)
  BY <1>1, <1>4, <1>5 DEF Layout
<1> QED
  BY <1>2, <1>3, <1>6

LEMMA InsideApart ==
    ASSUME NEW m \in MajorRec, NEW o \in MajorRec, m.base + m.size <= o.base,
           NEW x \in MinorRec, NEW y \in MinorRec, Inside(x, m), Inside(y, o)
    PROVE  Before(x, y)
<1>1. \A a, b, c, d, e, f \in Nat :
        a + Minor + b <= c + d /\ c + d <= e /\ e + Major <= f => a + Minor + b <= f
  BY Constants
<1>2. m.base \in Nat /\ m.size \in Nat /\ o.base \in Nat
  BY DEF MajorRec
<1>3. x.at \in Nat /\ x.size \in Nat /\ y.at \in Nat
  BY DEF MinorRec
<1>4. x.at + Minor + x.size <= m.base + m.size /\ o.base + Major <= y.at
  BY DEF Inside
<1> QED
  BY <1>1, <1>2, <1>3, <1>4 DEF Before

\* Two minors of different majors are apart, because the majors are.
LEMMA AllApart ==
    ASSUME NEW ms, NEW end, Layout(ms, end),
           NEW i \in 1 .. Len(ms), NEW j \in 1 .. Len(ms), i # j,
           NEW x \in MinorsOf(ms[i]), NEW y \in MinorsOf(ms[j])
    PROVE  Before(x, y) \/ Before(y, x)
<1>1. /\ ms[i] \in MajorRec /\ ms[j] \in MajorRec /\ Placed(ms[i]) /\ Placed(ms[j])
      /\ i < j \/ j < i
  BY LayoutTypes DEF Layout, Whole
<1>2. x \in MinorRec /\ y \in MinorRec /\ Inside(x, ms[i]) /\ Inside(y, ms[j])
  BY SMTT(30), <1>1, MinorTypes DEF Placed
<1>3. /\ ms[i].base + ms[i].size <= ms[j].base \/ ms[j].base + ms[j].size <= ms[i].base
  BY <1>1 DEF Layout
<1> QED
  BY <1>1, <1>2, <1>3, InsideApart

\* Any two minors of the heap are apart.
LEMMA MinorsApart ==
    ASSUME NEW ms, NEW end, Layout(ms, end), NEW x \in AllMinors(ms), NEW y \in AllMinors(ms)
    PROVE  x \in MinorRec /\ (x = y \/ Before(x, y) \/ Before(y, x))
<1>1. PICK i \in 1 .. Len(ms) : x \in MinorsOf(ms[i])
  BY LayoutTypes
<1>2. PICK j \in 1 .. Len(ms) : y \in MinorsOf(ms[j])
  BY LayoutTypes
<1>3. ms[i] \in MajorRec /\ Placed(ms[i])
  BY LayoutTypes DEF Layout, Whole
<1>4. PICK k \in 1 .. Len(ms[i].minors) : x = ms[i].minors[k]
  BY <1>1, <1>3, MinorTypes
<1>5. x \in MinorRec
  BY <1>3, <1>4, MinorTypes
<1>6. CASE i = j
  <2>1. PICK l \in 1 .. Len(ms[i].minors) : y = ms[i].minors[l]
    BY <1>2, <1>3, <1>6, MinorTypes
  <2> QED
    BY <1>3, <1>4, <1>5, <2>1, MinorsOrdered
<1>7. CASE i # j
  BY <1>1, <1>2, <1>5, <1>7, AllApart
<1> QED
  BY <1>6, <1>7

\* A major that gains a minor gives the heap one, and a new one.
LEMMA MinorAdded ==
    ASSUME NEW ms, NEW end, Layout(ms, end), NEW i \in 1 .. Len(ms),
           NEW r, Layout(r, end), Len(r) = Len(ms), NEW w,
           \A j \in 1 .. Len(ms) : r[j] = IF j = i THEN w ELSE ms[j],
           NEW n \in MinorRec, MinorsOf(w) = MinorsOf(ms[i]) \cup {n}, n \notin MinorsOf(ms[i])
    PROVE  AllMinors(r) = AllMinors(ms) \cup {n} /\ n \notin AllMinors(ms)
<1>1. AllMinors(r) = UNION {MinorsOf(r[j]) : j \in 1 .. Len(ms)}
  BY LayoutTypes
<1>2. AllMinors(ms) = UNION {MinorsOf(ms[j]) : j \in 1 .. Len(ms)}
  BY LayoutTypes
<1>3. ASSUME NEW j \in 1 .. Len(ms), j # i PROVE n \notin MinorsOf(ms[j])
  <2>1. SUFFICES ASSUME n \in MinorsOf(r[j]) PROVE FALSE
    BY <1>3
  <2>2. n \in MinorsOf(r[i])
    OBVIOUS
  <2> QED
    BY <1>3, <2>1, <2>2, AllApart, NotBeforeItself
<1> QED
  BY <1>1, <1>2, <1>3

\* The minors of r are those of ms without n.
Drops(ms, r, n) == AllMinors(r) = AllMinors(ms) \ {n} /\ n \in AllMinors(ms)

\* A major that loses a minor takes it from the heap.
LEMMA MinorDropped ==
    ASSUME NEW ms, NEW end, Layout(ms, end), NEW i \in 1 .. Len(ms),
           NEW r, Layout(r, end), Len(r) = Len(ms), NEW w,
           \A j \in 1 .. Len(ms) : r[j] = IF j = i THEN w ELSE ms[j],
           NEW n \in MinorsOf(ms[i]), MinorsOf(w) = MinorsOf(ms[i]) \ {n}
    PROVE  Drops(ms, r, n)
<1>1. AllMinors(r) = UNION {MinorsOf(r[j]) : j \in 1 .. Len(ms)}
  BY LayoutTypes
<1>2. AllMinors(ms) = UNION {MinorsOf(ms[j]) : j \in 1 .. Len(ms)}
  BY LayoutTypes
<1>3. n \in MinorRec
  BY <1>2, MinorsApart
<1>4. \A j \in 1 .. Len(ms) : j # i => n \notin MinorsOf(ms[j])
  BY <1>3, AllApart, NotBeforeItself
<1>5. AllMinors(r) = AllMinors(ms) \ {n} /\ n \in AllMinors(ms)
  BY <1>1, <1>2, <1>4
<1> QED
  BY <1>5 DEF Drops

\* Two majors have no byte in common.
LEMMA MajorBytesApart ==
    ASSUME NEW m \in MajorRec, NEW o \in MajorRec,
           m.base + m.size <= o.base \/ o.base + o.size <= m.base
    PROVE  \A x \in Bytes(m.base, m.size) : x \notin Bytes(o.base, o.size)
<1>1. \A a, b, c, d \in Nat :
        a + b <= c \/ c + d <= a => \A x \in a .. a + b - 1 : x \notin c .. c + d - 1
  OBVIOUS
<1>2. m.base \in Nat /\ m.size \in Nat /\ o.base \in Nat /\ o.size \in Nat
  BY DEF MajorRec
<1> QED
  BY <1>1, <1>2 DEF Bytes

\* The bytes of the majors end at heap_end.
LEMMA AllBytesBounded ==
    ASSUME NEW ms, NEW end \in Nat, Layout(ms, end)
    PROVE  /\ \A x \in AllBytes(ms) : x \in Nat /\ x < end
           /\ IsFiniteSet(AllBytes(ms))
<1>1. ASSUME NEW x \in AllBytes(ms) PROVE x \in Nat /\ x < end
  <2>1. PICK i \in 1 .. Len(ms) : x \in Bytes(ms[i].base, ms[i].size)
    BY LayoutTypes
  <2>2. ms[i] \in MajorRec /\ ms[i].base + ms[i].size <= end
    BY LayoutTypes DEF Layout
  <2>3. \A a, b \in Nat : a + b <= end => \A y \in a .. a + b - 1 : y \in Nat /\ y < end
    OBVIOUS
  <2>4. ms[i].base \in Nat /\ ms[i].size \in Nat
    BY <2>2 DEF MajorRec
  <2> QED
    BY <2>1, <2>2, <2>3, <2>4 DEF Bytes
<1>2. \A x \in AllBytes(ms) : x \in Nat /\ x <= end
  BY <1>1
<1> QED
  BY <1>1, <1>2, BoundedFinite

BytesDrop(ms, r, size) == Cardinality(AllBytes(r)) = Cardinality(AllBytes(ms)) - size

\* Unlinking a major with one minor takes that minor and the major's bytes.
LEMMA MajorDropped ==
    ASSUME NEW ms, NEW end \in Nat, Layout(ms, end), NEW i \in 1 .. Len(ms),
           NEW r, Layout(r, end),
           \A j \in 1 .. Len(r) : \E l \in 1 .. Len(ms) : l # i /\ r[j] = ms[l],
           \A l \in 1 .. Len(ms) : l # i => \E j \in 1 .. Len(r) : r[j] = ms[l],
           NEW n, MinorsOf(ms[i]) = {n}
    PROVE  Drops(ms, r, n) /\ BytesDrop(ms, r, ms[i].size)
<1>2. /\ AllMinors(r) = UNION {MinorsOf(r[j]) : j \in 1 .. Len(r)}
      /\ AllBytes(r) = UNION {Bytes(r[j].base, r[j].size) : j \in 1 .. Len(r)}
  BY LayoutTypes
<1>3. /\ AllMinors(ms) = UNION {MinorsOf(ms[j]) : j \in 1 .. Len(ms)}
      /\ AllBytes(ms) = UNION {Bytes(ms[j].base, ms[j].size) : j \in 1 .. Len(ms)}
      /\ \A j \in 1 .. Len(ms) : ms[j] \in MajorRec
      /\ Len(ms) \in Nat
  BY LayoutTypes
<1>4. n \in MinorRec
  BY <1>3, MinorsApart
<1>5. \A j \in 1 .. Len(ms) : j # i => n \notin MinorsOf(ms[j])
  BY <1>4, AllApart, NotBeforeItself
<1>6. AllMinors(r) = AllMinors(ms) \ {n} /\ n \in AllMinors(ms)
  <2>1. n \in AllMinors(ms)
    BY <1>3
  <2>2. ASSUME NEW x \in AllMinors(r) PROVE x \in AllMinors(ms) \ {n}
    BY <1>2, <1>3, <1>5
  <2>3. ASSUME NEW x \in AllMinors(ms), x # n PROVE x \in AllMinors(r)
    <3>1. PICK l \in 1 .. Len(ms) : x \in MinorsOf(ms[l])
      BY <1>3
    <3>2. PICK j \in 1 .. Len(r) : r[j] = ms[l]
      BY <2>3, <3>1
    <3> QED
      BY <1>2, <3>1, <3>2
  <2> QED
    BY <2>1, <2>2, <2>3
<1>7. AllBytes(ms) = AllBytes(r) \cup Bytes(ms[i].base, ms[i].size)
  BY ZenonT(60), <1>2, <1>3
<1>8. ASSUME NEW x \in AllBytes(r) PROVE x \notin Bytes(ms[i].base, ms[i].size)
  <2>1. PICK l \in 1 .. Len(ms) : l # i /\ x \in Bytes(ms[l].base, ms[l].size)
    BY <1>2
  <2>2. l < i \/ i < l
    BY <1>3, <2>1
  <2>3. ms[l].base + ms[l].size <= ms[i].base \/ ms[i].base + ms[i].size <= ms[l].base
    BY <2>2 DEF Layout
  <2> QED
    BY <1>3, <2>1, <2>3, MajorBytesApart
<1>9. IsFiniteSet(AllBytes(r)) /\ ms[i].base \in Nat /\ ms[i].size \in Nat
  BY <1>3, AllBytesBounded DEF MajorRec
<1>10. Cardinality(AllBytes(ms)) = Cardinality(AllBytes(r)) + ms[i].size
  BY ZenonT(60), <1>7, <1>8, <1>9, BytesAdded
<1>11. Cardinality(AllBytes(r)) \in Nat
  BY <1>9, FS_CardinalityType
<1> QED
  BY <1>6, <1>9, <1>10, <1>11 DEF Drops, BytesDrop

-----------------------------------------------------------------------------
(* The bytes clients hold.                                                 *)

PayloadsOf(T) == {Bytes(n.at + Minor, n.size) : n \in T}

LEMMA UnionAdd ==
    ASSUME NEW A, NEW b
    PROVE  UNION (A \cup {b}) = (UNION A) \cup b
  OBVIOUS

LEMMA PayloadInMinor ==
    ASSUME NEW n \in MinorRec
    PROVE  \A x \in Bytes(n.at + Minor, n.size) : x \in Bytes(n.at, Minor + n.size)
<1>1. \A a, b \in Nat : \A x \in (a + Minor) .. (a + Minor + b - 1) : x \in a .. a + (Minor + b) - 1
  BY Constants
<1>2. n.at \in Nat /\ n.size \in Nat
  BY DEF MinorRec
<1> QED
  BY <1>1, <1>2 DEF Bytes

\* A minor apart from the others adds its own bytes to theirs.
LEMMA PayloadAdded ==
    ASSUME NEW T, T \subseteq MinorRec, IsFiniteSet(UNION PayloadsOf(T)), NEW n \in MinorRec,
           \A o \in T : Before(n, o) \/ Before(o, n)
    PROVE  /\ \A c \in PayloadsOf(T) : Bytes(n.at + Minor, n.size) \cap c = {}
           /\ PayloadsOf(T \cup {n}) = PayloadsOf(T) \cup {Bytes(n.at + Minor, n.size)}
           /\ Cardinality(UNION PayloadsOf(T \cup {n})) = Cardinality(UNION PayloadsOf(T)) + n.size
           /\ n.size \in Nat /\ Cardinality(UNION PayloadsOf(T)) \in Nat
<1>1. \A o \in T : \A x \in Bytes(o.at + Minor, o.size) : x \notin Bytes(n.at + Minor, n.size)
  BY PayloadInMinor, ApartBytes
<1>2. PayloadsOf(T \cup {n}) = PayloadsOf(T) \cup {Bytes(n.at + Minor, n.size)}
  BY DEF PayloadsOf
<1>3. UNION PayloadsOf(T \cup {n}) = (UNION PayloadsOf(T)) \cup Bytes(n.at + Minor, n.size)
  BY <1>2, UnionAdd
<1>4. \A x \in UNION PayloadsOf(T) : x \notin Bytes(n.at + Minor, n.size)
  BY <1>1 DEF PayloadsOf
<1>5. n.at + Minor \in Nat /\ n.size \in Nat
  BY Constants DEF MinorRec
<1>6. \A c \in PayloadsOf(T) : Bytes(n.at + Minor, n.size) \cap c = {}
  BY <1>4
<1>7. Cardinality(UNION PayloadsOf(T \cup {n})) = Cardinality(UNION PayloadsOf(T)) + n.size
  <2> DEFINE S == UNION PayloadsOf(T)  f == n.at + Minor  z == n.size
  <2>1. IsFiniteSet(S) /\ (\A x \in S : x \notin Bytes(f, z)) /\ f \in Nat /\ z \in Nat
    BY <1>4, <1>5
  <2>2. UNION PayloadsOf(T \cup {n}) = S \cup Bytes(f, z)
    BY <1>3
  <2> HIDE DEF S, f, z
  <2>3. Cardinality(S \cup Bytes(f, z)) = Cardinality(S) + z
    BY <2>1, BytesAdded
  <2> QED
    BY <2>2, <2>3 DEF S, z
<1> QED
  BY <1>2, <1>5, <1>6, <1>7, FS_CardinalityType

\* The clients' bytes lie in the heap, and are finitely many.
LEMMA PayloadsBounded ==
    ASSUME NEW ms, NEW end \in Nat, Layout(ms, end)
    PROVE  /\ \A c \in PayloadsOf(AllMinors(ms)) : c \subseteq HeapStart .. end - 1
           /\ \A T \in SUBSET AllMinors(ms) : IsFiniteSet(UNION PayloadsOf(T))
           /\ AllMinors(ms) \subseteq MinorRec
<1>1. ASSUME NEW n \in AllMinors(ms)
      PROVE  n \in MinorRec /\ Bytes(n.at + Minor, n.size) \subseteq HeapStart .. end - 1
  <2>1. PICK i \in 1 .. Len(ms) : n \in MinorsOf(ms[i])
    BY LayoutTypes
  <2>2. /\ ms[i] \in MajorRec /\ Placed(ms[i]) /\ HeapStart <= ms[i].base
        /\ ms[i].base + ms[i].size <= end
    BY LayoutTypes DEF Layout, Whole
  <2>3. n \in MinorRec /\ Inside(n, ms[i])
    BY <2>1, <2>2, MinorTypes DEF Placed
  <2>4. \A a, b, c, d \in Nat :
          /\ HeapStart <= c /\ c + Major <= a /\ a + Minor + b <= c + d /\ c + d <= end
          => (a + Minor) .. (a + Minor + b - 1) \subseteq HeapStart .. end - 1
    BY Constants
  <2>5. n.at \in Nat /\ n.size \in Nat
    BY <2>3 DEF MinorRec
  <2>6. ms[i].base \in Nat /\ ms[i].size \in Nat
    BY <2>2 DEF MajorRec
  <2> QED
    BY <2>2, <2>3, <2>4, <2>5, <2>6 DEF Bytes, Inside
<1>2. ASSUME NEW T \in SUBSET AllMinors(ms) PROVE IsFiniteSet(UNION PayloadsOf(T))
  <2>1. \A x \in UNION PayloadsOf(T) : x \in HeapStart .. end - 1
    BY <1>1 DEF PayloadsOf
  <2>2. \A x \in HeapStart .. end - 1 : x \in Nat /\ x <= end
    BY Constants
  <2> QED
    BY <2>1, <2>2, BoundedFinite
<1> QED
  BY <1>1, <1>2 DEF PayloadsOf

-----------------------------------------------------------------------------
(* The inductive invariant: besides what HeapSound says, that the lists    *)
(* are in address order throughout, that a client's pointer is the one     *)
(* malloc computed for its block, and that what realloc is about to free   *)
(* is still held.                                                          *)

HeapInv ==
    /\ heapEnd \in Nat /\ HeapStart <= heapEnd
    /\ heapEnd = HeapStart \/ heapEnd <= HeapLimit
    /\ Layout(majors, heapEnd)
    /\ bestBet \in Nat /\ BestBetLive
    /\ allocated = Cardinality(AllBytes(majors))
    /\ inuse = Cardinality(UNION PayloadsOf(AllMinors(majors)))
    /\ live = {Pointer(n.at, n.req) : n \in AllMinors(majors)}
    /\ moving \subseteq live

LEMMA HeapInit == Init => HeapInv
<1> SUFFICES ASSUME Init PROVE HeapInv
  OBVIOUS
<1>1. majors = << >> /\ heapEnd = HeapStart /\ bestBet = 0 /\ allocated = 0 /\ inuse = 0
      /\ live = {} /\ moving = {}
  BY DEF Init
<1>2. Len(majors) = 0 /\ majors \in Seq(MajorRec) /\ DOMAIN majors = {}
  BY <1>1
<1>3. Layout(majors, heapEnd)
  BY <1>2 DEF Layout
<1>4. AllMinors(majors) = {} /\ AllBytes(majors) = {}
  BY <1>2 DEF AllMinors, AllBytes
<1>5. UNION PayloadsOf(AllMinors(majors)) = {}
  BY <1>4 DEF PayloadsOf
<1>6. /\ allocated = Cardinality(AllBytes(majors))
      /\ inuse = Cardinality(UNION PayloadsOf(AllMinors(majors)))
  BY <1>1, <1>4, <1>5, FS_EmptySet
<1>7. live = {Pointer(n.at, n.req) : n \in AllMinors(majors)}
  BY <1>1, <1>4
<1> QED
  BY <1>1, <1>3, <1>6, <1>7, Constants DEF HeapInv, BestBetLive

-----------------------------------------------------------------------------
(* What malloc looks at.                                                   *)

LEMMA IndexFound ==
    ASSUME HeapInv, bestBet # 0
    PROVE  Index(bestBet) \in 1 .. Len(majors) /\ majors[Index(bestBet)].base = bestBet
<1>1. DOMAIN majors = 1 .. Len(majors)
  BY LayoutTypes DEF HeapInv
<1>2. \E i \in DOMAIN majors : majors[i].base = bestBet
  BY DEF HeapInv, BestBetLive
<1> QED
  BY <1>1, <1>2 DEF Index

\* The search visits majors of the list, and every one of them.
LEMMA VisitsAll ==
    ASSUME HeapInv, NEW size
    PROVE  /\ DOMAIN VisitOrder(size) \subseteq Nat
           /\ \A v \in DOMAIN VisitOrder(size) : VisitOrder(size)[v] \in 1 .. Len(majors)
           /\ \A i \in 1 .. Len(majors) : \E v \in DOMAIN VisitOrder(size) : VisitOrder(size)[v] = i
           /\ VisitOrder(size) \in Seq(Nat)
<1> DEFINE n    == Len(majors)
           skip == Index(bestBet) - 1
           all  == [i \in 1 .. n |-> i]
           rest == [i \in 1 .. n - skip |-> i + skip]
<1>1. n \in Nat
  BY LayoutTypes DEF HeapInv
<1>2. all \in Seq(Nat) /\ Len(all) = n /\ DOMAIN all = 1 .. n /\ \A i \in 1 .. n : all[i] = i
  BY <1>1
<1>3. CASE bestBet # 0 /\ BestFree > size + Minor
  <2>1. skip \in Nat /\ skip < n
    BY <1>1, <1>3, IndexFound
  <2>2. rest \in Seq(Nat) /\ Len(rest) = n - skip /\ \A i \in 1 .. n - skip : rest[i] = i + skip
    BY <1>1, <2>1
  <2> HIDE DEF all, rest, n, skip
  <2>3. /\ rest \o all \in Seq(Nat) /\ Len(rest \o all) = Len(rest) + Len(all)
        /\ \A i \in 1 .. Len(rest) + Len(all) :
             (rest \o all)[i] = IF i <= Len(rest) THEN rest[i] ELSE all[i - Len(rest)]
    BY ZenonT(60), <1>2, <2>2, ConcatProperties
  <2>4. DOMAIN (rest \o all) = 1 .. (n - skip) + n
    BY <1>2, <2>2, <2>3, LenProperties
  <2>5. ASSUME NEW v \in 1 .. (n - skip) + n PROVE (rest \o all)[v] \in 1 .. n
    <3>1. CASE v <= n - skip
      BY <1>1, <1>2, <2>1, <2>2, <2>3, <3>1
    <3>2. CASE ~(v <= n - skip)
      <4>1. v - (n - skip) \in 1 .. n
        BY <1>1, <2>1, <3>2
      <4> QED
        BY <1>2, <2>2, <2>3, <3>2, <4>1
    <3> QED
      BY <3>1, <3>2
  <2>6. ASSUME NEW i \in 1 .. n PROVE \E v \in 1 .. (n - skip) + n : (rest \o all)[v] = i
    <3>1. (n - skip) + i \in 1 .. (n - skip) + n /\ ~((n - skip) + i <= n - skip)
          /\ ((n - skip) + i) - (n - skip) = i
      BY <1>1, <2>1
    <3>2. (rest \o all)[(n - skip) + i] = all[((n - skip) + i) - (n - skip)]
      BY <1>2, <2>2, <2>3, <3>1
    <3> QED
      BY <1>2, <3>1, <3>2
  <2>7. VisitOrder(size) = rest \o all
    BY <1>3 DEF VisitOrder, n, skip, all, rest
  <2>8. 1 .. (n - skip) + n \subseteq Nat
    BY <1>1, <2>1
  <2> QED
    BY <2>3, <2>4, <2>5, <2>6, <2>7, <2>8 DEF n
<1>4. CASE ~(bestBet # 0 /\ BestFree > size + Minor)
  <2>1. VisitOrder(size) = all
    BY <1>4 DEF VisitOrder
  <2> QED
    BY <1>1, <1>2, <2>1
<1> QED
  BY <1>3, <1>4

\* The best bet stays what it was or is one of the majors looked at.
LEMMA Remembered ==
    ASSUME NEW ms
    PROVE  Remember(ms) = bestBet \/ \E i \in DOMAIN ms : Remember(ms) = ms[i].base
  BY DEF Remember

LEMMA Division ==
    ASSUME NEW a \in Nat, NEW b \in Nat, b > 0
    PROVE  /\ a % b \in Nat /\ a % b < b /\ a \div b \in Nat
           /\ a = b * (a \div b) + (a % b)
<1>1. a % b \in Nat /\ a % b < b
  OBVIOUS
<1>2. a \div b \in Nat
  OBVIOUS
<1>3. a = b * (a \div b) + (a % b)
  OBVIOUS
<1> QED
  BY <1>1, <1>2, <1>3

\* allocate_new_page asks for enough pages for the two headers and the block.
LEMMA PagesEnough ==
    ASSUME NEW size \in Nat
    PROVE  /\ Pages(size) * PageSize \in Nat
           /\ size + Major + Minor <= Pages(size) * PageSize
<1> DEFINE st == size + Major + Minor
           q == st \div PageSize
           need == q + (IF st % PageSize = 0 THEN 0 ELSE 1)
<1>1. st \in Nat /\ PageSize \in Nat /\ PageSize > 0 /\ PageCount \in Nat
  BY Constants
<1>2. Pages(size) = IF need < PageCount THEN PageCount ELSE need
  BY DEF Pages
<1> HIDE DEF st
<1>3. q \in Nat /\ st % PageSize \in Nat /\ st % PageSize < PageSize
      /\ st = PageSize * q + (st % PageSize)
  BY <1>1, Division
<1> HIDE DEF q
<1>4. need \in Nat /\ st <= need * PageSize
  BY <1>1, <1>3
<1> HIDE DEF need
<1>5. Pages(size) \in Nat /\ need <= Pages(size)
  BY <1>1, <1>2, <1>4
<1>6. \A a, b, c \in Nat : a <= b => a * c <= b * c
  OBVIOUS
<1>7. \A a, b \in Nat : a * b \in Nat
  OBVIOUS
<1>8. st <= Pages(size) * PageSize
  BY <1>1, <1>4, <1>5, <1>6, <1>7
<1> QED
  BY <1>1, <1>5, <1>7, <1>8 DEF st

-----------------------------------------------------------------------------
(* malloc.                                                                 *)

\* A step that makes n a minor of the heap and hands its pointer out.
Gained(n) ==
    /\ n \in MinorRec /\ n \notin AllMinors(majors)
    /\ AllMinors(majors') = AllMinors(majors) \cup {n}
    /\ heapEnd' \in Nat /\ heapEnd <= heapEnd'
    /\ heapEnd' = heapEnd \/ heapEnd' <= HeapLimit
    /\ Layout(majors', heapEnd')
    /\ bestBet' \in Nat /\ BestBetLive'
    /\ allocated' = Cardinality(AllBytes(majors'))
    /\ live' = live \cup {Pointer(n.at, n.req)}
    /\ n.size = n.req + Alignment + AlignInfo

\* The first gap is a gap.
LEMMA FirstGapFound ==
    ASSUME NEW m \in MajorRec, NEW size, Gaps(m, size) # {}
    PROVE  FirstGap(m, size) \in Gaps(m, size)
<1>1. Gaps(m, size) \subseteq Nat
  BY MinorTypes DEF Gaps
<1>2. \E i \in Gaps(m, size) : \A j \in Gaps(m, size) : i <= j
  BY <1>1, LeastExists
<1> QED
  BY <1>2 DEF FirstGap

\* The best bet, when it is one of the majors before or after the step.
LEMMA BetKept ==
    ASSUME HeapInv, NEW ms, bestBet' = Remember(ms),
           majors' \in Seq(MajorRec),
           \A i \in 1 .. Len(majors) : \E j \in 1 .. Len(majors') : majors'[j].base = majors[i].base,
           \A x \in DOMAIN ms : \E j \in 1 .. Len(majors') : majors'[j].base = ms[x].base
    PROVE  bestBet' \in Nat /\ BestBetLive'
<1>1. DOMAIN majors' = 1 .. Len(majors') /\ DOMAIN majors = 1 .. Len(majors)
      /\ \A j \in 1 .. Len(majors') : majors'[j] \in MajorRec
  BY LayoutTypes, LenProperties, ElementOfSeq DEF HeapInv
<1>2. CASE bestBet' = bestBet
  BY <1>1, <1>2 DEF HeapInv, BestBetLive
<1>3. CASE \E i \in DOMAIN ms : bestBet' = ms[i].base
  <2>1. PICK j \in 1 .. Len(majors') : majors'[j].base = bestBet'
    BY <1>3
  <2> QED
    BY <1>1, <2>1 DEF BestBetLive, MajorRec
<1> QED
  BY <1>2, <1>3, Remembered

LEMMA MallocExistingGains ==
    ASSUME HeapInv, NEW req \in Nat, NEW size, size = req + Alignment + AlignInfo,
           MallocExisting(req, size)
    PROVE  \E n : Gained(n) /\ n.req = req /\ UNCHANGED heapEnd
<1> DEFINE order == VisitOrder(size)
           Fit   == {v \in DOMAIN order : Fits(majors[order[v]], size)}
           v     == CHOOSE x \in Fit : \A y \in Fit : x <= y
           i     == order[v]
           m     == majors[i]
           k     == FirstGap(m, size)
           n     == [at |-> GapStart(m, k), size |-> size, req |-> req]
           w     == WithMinor(m, size, req)
<1>1. /\ Fit # {}
      /\ majors' = [majors EXCEPT ![i] = w]
      /\ bestBet' = Remember([x \in 1 .. v |-> majors[order[x]]])
      /\ live' = live \cup {Pointer(GapStart(m, k), req)}
      /\ UNCHANGED <<heapEnd, allocated>>
  BY DEF MallocExisting
<1>2. /\ DOMAIN order \subseteq Nat /\ DOMAIN order = 1 .. Len(order) /\ Len(order) \in Nat
      /\ \A x \in DOMAIN order : order[x] \in 1 .. Len(majors)
  BY VisitsAll, LenProperties
<1>3. v \in Fit
  <2>1. Fit \subseteq Nat
    BY <1>2
  <2> QED
    BY <1>1, <2>1, LeastExists
<1>4. i \in 1 .. Len(majors) /\ m \in MajorRec /\ Whole(m) /\ size \in Nat
  <2>1. i \in 1 .. Len(majors)
    BY <1>2, <1>3
  <2>2. Layout(majors, heapEnd)
    BY DEF HeapInv
  <2> QED
    BY <2>1, <2>2, LayoutTypes, Constants DEF Layout
<1>5. k \in Gaps(m, size)
  BY <1>3, <1>4, FirstGapFound DEF Fits
<1>6. w = Linked(m, k, n) /\ majors' = Replaced(majors, i, w)
  BY <1>1 DEF WithMinor, Linked, Replaced
<1>7. \A x \in 1 .. v : x \in DOMAIN order
  BY <1>2, <1>3
<1> HIDE DEF order, Fit, v, i, m, k, n, w
<1>n. n = [at |-> GapStart(m, k), size |-> size, req |-> req]
  BY DEF n
<1>8. /\ w \in MajorRec /\ Whole(w) /\ w.minors # << >>
      /\ w.base = m.base /\ w.size = m.size
      /\ MinorsOf(w) = MinorsOf(m) \cup {n} /\ n \notin MinorsOf(m)
      /\ n \in MinorRec
  BY <1>4, <1>5, <1>6, <1>n, MinorLinked
<1>9. /\ Layout(majors', heapEnd) /\ Len(majors') = Len(majors)
      /\ AllBytes(majors') = AllBytes(majors)
      /\ \A j \in 1 .. Len(majors) : majors'[j] = IF j = i THEN w ELSE majors[j]
  <2>1. Layout(majors, heapEnd) /\ m = majors[i]
    BY DEF HeapInv, m
  <2> QED
    BY <1>4, <1>6, <1>8, <2>1, LayoutReplace
<1>10. AllMinors(majors') = AllMinors(majors) \cup {n} /\ n \notin AllMinors(majors)
  <2>1. Layout(majors, heapEnd) /\ m = majors[i]
    BY DEF HeapInv, m
  <2>2. MinorsOf(w) = MinorsOf(majors[i]) \cup {n} /\ n \notin MinorsOf(majors[i])
    BY <1>8, <2>1
  <2>3. /\ Layout(majors', heapEnd) /\ Len(majors') = Len(majors) /\ n \in MinorRec
        /\ \A j \in 1 .. Len(majors) : majors'[j] = IF j = i THEN w ELSE majors[j]
        /\ i \in 1 .. Len(majors)
    BY <1>4, <1>8, <1>9
  <2> QED
    BY <2>1, <2>2, <2>3, MinorAdded
<1>11. bestBet' \in Nat /\ BestBetLive'
  <2>1. \A j \in 1 .. Len(majors) : majors'[j].base = majors[j].base
    BY <1>8, <1>9 DEF m
  <2>2. PICK ms : ms = [x \in 1 .. v |-> majors[order[x]]]
    OBVIOUS
  <2>3. \A x \in DOMAIN ms : ms[x] = majors[order[x]] /\ order[x] \in 1 .. Len(majors)
    BY <1>2, <1>7, <2>2
  <2>4. \A x \in DOMAIN ms : \E j \in 1 .. Len(majors') : majors'[j].base = ms[x].base
    BY <1>9, <2>1, <2>3
  <2>5. majors' \in Seq(MajorRec)
    BY <1>9 DEF Layout
  <2>6. \A x \in 1 .. Len(majors) :
          \E j \in 1 .. Len(majors') : majors'[j].base = majors[x].base
    BY <1>9, <2>1
  <2>7. bestBet' = Remember(ms)
    BY <1>1, <2>2
  <2> QED
    BY <2>4, <2>5, <2>6, <2>7, BetKept
<1>12. allocated' = Cardinality(AllBytes(majors'))
  BY <1>1, <1>9 DEF HeapInv
<1>13. n.at = GapStart(m, k) /\ n.req = req /\ n.size = size
  BY <1>n
<1>14. heapEnd' \in Nat /\ heapEnd' = heapEnd /\ heapEnd <= heapEnd'
  BY <1>1 DEF HeapInv
<1> QED
  BY <1>1, <1>8, <1>9, <1>10, <1>11, <1>12, <1>13, <1>14 DEF Gained

\* The major that allocate_new_page returns is in order, and has a gap for
\* the block it was made for.
LEMMA NewMajorWhole ==
    ASSUME NEW size \in Nat, heapEnd \in Nat, NEW m, m = NewMajor(size)
    PROVE  /\ m \in MajorRec /\ Whole(m) /\ m.base = heapEnd
           /\ MinorsOf(m) = {} /\ Gaps(m, size) # {}
<1> DEFINE z == Pages(size) * PageSize
<1>0. z \in Nat /\ size + Major + Minor <= z
  BY PagesEnough
<1>1. m = [base |-> heapEnd, size |-> z, usage |-> Major, minors |-> << >>]
  BY DEF NewMajor
<1> HIDE DEF z
<1>2. /\ m.base = heapEnd /\ m.size = z /\ m.usage = Major /\ m.minors = << >>
      /\ Len(m.minors) = 0 /\ DOMAIN m.minors = {}
  BY <1>1
<1>3. m \in MajorRec
  BY <1>0, <1>1, Constants DEF MajorRec
<1>4. MinorsOf(m) = {}
  BY <1>2 DEF MinorsOf
<1>5. Placed(m)
  BY <1>0, <1>2, Constants DEF Placed
<1>6. m.usage = Cardinality(Taken(m))
  <2>1. Taken(m) = Bytes(m.base, Major)
    BY <1>4 DEF Taken
  <2> QED
    BY <1>2, <2>1, BytesCount, Constants
<1>7. 0 \in Gaps(m, size)
  <2>1. GapStart(m, 0) = heapEnd + Major /\ GapEnd(m, 0) = heapEnd + z
    BY <1>2 DEF GapStart, GapEnd
  <2>2. (heapEnd + z) - (heapEnd + Major) >= size + Minor
    BY <1>0, Constants
  <2>3. 0 \in 0 .. Len(m.minors)
    BY <1>2
  <2> QED
    BY <2>1, <2>2, <2>3 DEF Gaps
<1> QED
  BY <1>2, <1>3, <1>4, <1>5, <1>6, <1>7 DEF Whole

LEMMA MallocNewGains ==
    ASSUME HeapInv, NEW req \in Nat, NEW size, size = req + Alignment + AlignInfo,
           MallocNew(req, size)
    PROVE  \E n : Gained(n) /\ n.req = req
<1> DEFINE order == VisitOrder(size)
           new   == NewMajor(size)
           seen  == [x \in DOMAIN order |-> majors[order[x]]]
           case1 == majors # <<>> /\ FreeBytes(Last(majors)) < size + Minor
           k     == FirstGap(new, size)
           n     == [at |-> GapStart(new, k), size |-> size, req |-> req]
           w     == WithMinor(new, size, req)
<1>1. /\ heapEnd + new.size <= HeapLimit
      /\ majors' = Append(majors, w)
      /\ bestBet' = Remember(IF case1 THEN seen ELSE Append(seen, new))
      /\ live' = live \cup {Pointer(GapStart(new, k), req)}
      /\ heapEnd' = heapEnd + new.size
      /\ allocated' = allocated + new.size
  BY DEF MallocNew
<1>2. /\ DOMAIN order = 1 .. Len(order) /\ Len(order) \in Nat
      /\ \A x \in DOMAIN order : order[x] \in 1 .. Len(majors)
  BY VisitsAll, LenProperties
<1>3. size \in Nat /\ heapEnd \in Nat /\ HeapStart <= heapEnd /\ Layout(majors, heapEnd)
  BY Constants DEF HeapInv
<1>4. w = Linked(new, k, n)
  BY DEF WithMinor, Linked
<1>s. \A x \in DOMAIN order : majors[order[x]] \in MajorRec
  BY <1>2, <1>3, LayoutTypes
<1>t. seen \in Seq(MajorRec) /\ Len(seen) = Len(order)
      /\ \A x \in 1 .. Len(order) : seen[x] = majors[order[x]]
  BY <1>2, <1>s
<1>n. n = [at |-> GapStart(new, k), size |-> size, req |-> req] /\ new = NewMajor(size)
  OBVIOUS
<1>k. k = FirstGap(new, size)
  OBVIOUS
<1> HIDE DEF order, new, seen, case1, k, n, w
<1>5. /\ new \in MajorRec /\ Whole(new) /\ new.base = heapEnd
      /\ MinorsOf(new) = {} /\ Gaps(new, size) # {}
  BY <1>3, <1>n, NewMajorWhole
<1>6. k \in Gaps(new, size)
  BY <1>5, <1>k, FirstGapFound
<1>8. /\ w \in MajorRec /\ Whole(w) /\ w.minors # << >>
      /\ w.base = new.base /\ w.size = new.size
      /\ MinorsOf(w) = MinorsOf(new) \cup {n}
      /\ n \in MinorRec
  BY <1>3, <1>4, <1>5, <1>6, <1>n, MinorLinked
<1>11. /\ Len(majors') = Len(majors) + 1 /\ Len(majors) \in Nat /\ majors' \in Seq(MajorRec)
       /\ (\A j \in 1 .. Len(majors) : majors'[j] = majors[j]) /\ majors'[Len(majors) + 1] = w
  <2>1. majors \in Seq(MajorRec)
    BY <1>3 DEF Layout
  <2> QED
    BY <1>1, <1>8, <2>1, AppendProperties, LenProperties
<1>9. /\ Layout(majors', heapEnd + w.size)
      /\ AllMinors(majors') = AllMinors(majors) \cup MinorsOf(w)
      /\ AllBytes(majors') = AllBytes(majors) \cup Bytes(w.base, w.size)
  <2>1. /\ w.base = heapEnd /\ heapEnd \in Nat
        /\ HeapStart <= heapEnd /\ Layout(majors, heapEnd)
        /\ w \in MajorRec /\ Whole(w) /\ w.minors # << >>
    BY <1>3, <1>5, <1>8
  <2> QED
    BY <1>11, <2>1, LayoutAppend
<1>10. AllMinors(majors') = AllMinors(majors) \cup {n}
  BY <1>5, <1>8, <1>9
<1>12. n \notin AllMinors(majors)
  <2> SUFFICES ASSUME NEW i \in 1 .. Len(majors), n \in MinorsOf(majors[i]) PROVE FALSE
    BY <1>3, LayoutTypes
  <2>1. i \in 1 .. Len(majors') /\ Len(majors) + 1 \in 1 .. Len(majors') /\ i # Len(majors) + 1
    BY <1>11
  <2>2. n \in MinorsOf(majors'[i]) /\ n \in MinorsOf(majors'[Len(majors) + 1])
    BY <1>8, <1>11
  <2>3. Before(n, n)
    BY <1>9, <2>1, <2>2, AllApart
  <2> QED
    BY <1>8, <2>3, NotBeforeItself
<1>13. new.size \in Nat /\ heapEnd + new.size \in Nat /\ heapEnd <= heapEnd + new.size
  <2>1. new.size \in Nat
    BY <1>5 DEF MajorRec
  <2> QED
    BY <1>3, <2>1
<1>14. allocated' = Cardinality(AllBytes(majors'))
  <2> DEFINE S == AllBytes(majors)
  <2>1. IsFiniteSet(S) /\ \A x \in S : x \in Nat /\ x < heapEnd
    BY <1>3, AllBytesBounded
  <2>2. \A x \in S : x \notin Bytes(heapEnd, new.size)
    BY <1>3, <1>13, <2>1 DEF Bytes
  <2> HIDE DEF S
  <2>3. Cardinality(S \cup Bytes(heapEnd, new.size)) = Cardinality(S) + new.size
    BY <1>3, <1>13, <2>1, <2>2, BytesAdded
  <2>4. AllBytes(majors') = S \cup Bytes(heapEnd, new.size)
    BY <1>5, <1>8, <1>9 DEF S
  <2> QED
    BY <1>1, <2>3, <2>4 DEF HeapInv, S
<1>15. bestBet' \in Nat /\ BestBetLive'
  <2>1. \A j \in 1 .. Len(majors) : majors'[j].base = majors[j].base /\ j \in 1 .. Len(majors')
    BY <1>11
  <2>2. \A x \in 1 .. Len(majors) :
          \E j \in 1 .. Len(majors') : majors'[j].base = majors[x].base
    BY <2>1
  <2>3. \A x \in 1 .. Len(order) : \E j \in 1 .. Len(majors') : majors'[j].base = seen[x].base
    BY <1>2, <1>t, <2>2
  <2>4. DOMAIN seen = 1 .. Len(order)
    BY <1>t, LenProperties
  <2>5. CASE case1
    <3>1. bestBet' = Remember(seen)
      BY <1>1, <2>5
    <3> QED
      BY <1>11, <2>2, <2>3, <2>4, <3>1, BetKept
  <2>6. CASE ~case1
    <3>1. bestBet' = Remember(Append(seen, new))
      BY <1>1, <2>6
    <3>2. /\ DOMAIN Append(seen, new) = 1 .. Len(order) + 1
          /\ (\A x \in 1 .. Len(order) : Append(seen, new)[x] = seen[x])
          /\ Append(seen, new)[Len(order) + 1] = new
      BY <1>5, <1>t, AppendProperties, LenProperties
    <3>3. ASSUME NEW x \in DOMAIN Append(seen, new)
          PROVE  \E j \in 1 .. Len(majors') : majors'[j].base = Append(seen, new)[x].base
      <4>1. CASE x \in 1 .. Len(order)
        BY <2>3, <3>2, <4>1
      <4>2. CASE x = Len(order) + 1
        BY <1>8, <1>11, <3>2, <4>2
      <4> QED
        BY <1>2, <3>2, <4>1, <4>2
    <3> QED
      BY <1>11, <2>2, <3>1, <3>3, BetKept
  <2> QED
    BY <2>5, <2>6
<1>16. n.at = GapStart(new, k) /\ n.req = req /\ n.size = size
  BY <1>n
<1>17. heapEnd' \in Nat /\ heapEnd <= heapEnd' /\ heapEnd' <= HeapLimit /\ Layout(majors', heapEnd')
  BY <1>1, <1>8, <1>9, <1>13
<1> QED
  BY <1>1, <1>8, <1>10, <1>12, <1>14, <1>15, <1>16, <1>17 DEF Gained

\* A step that gains a minor and counts it keeps the invariant.
LEMMA GainKeeps ==
    ASSUME HeapInv, NEW n, Gained(n), inuse' = inuse + n.size, moving' \subseteq live'
    PROVE  HeapInv' /\ PayloadsOf(AllMinors(majors'))
                         = PayloadsOf(AllMinors(majors)) \cup {Bytes(n.at + Minor, n.size)}
           /\ \A c \in PayloadsOf(AllMinors(majors)) : Bytes(n.at + Minor, n.size) \cap c = {}
<1> DEFINE T == AllMinors(majors)
<1>1. Layout(majors, heapEnd) /\ heapEnd \in Nat
  BY DEF HeapInv
<1>2. T \subseteq MinorRec /\ IsFiniteSet(UNION PayloadsOf(T))
  BY <1>1, PayloadsBounded
<1>3. \A o \in T : Before(n, o) \/ Before(o, n)
  <2>1. Layout(majors', heapEnd') /\ n \notin T /\ AllMinors(majors') = T \cup {n}
    BY DEF Gained
  <2> QED
    BY <2>1, MinorsApart
<1>4. n \in MinorRec /\ AllMinors(majors') = T \cup {n}
  BY DEF Gained
<1> HIDE DEF T
<1>5. /\ \A c \in PayloadsOf(T) : Bytes(n.at + Minor, n.size) \cap c = {}
      /\ PayloadsOf(T \cup {n}) = PayloadsOf(T) \cup {Bytes(n.at + Minor, n.size)}
      /\ Cardinality(UNION PayloadsOf(T \cup {n})) = Cardinality(UNION PayloadsOf(T)) + n.size
  BY <1>2, <1>3, <1>4, PayloadAdded
<1>6. inuse' = Cardinality(UNION PayloadsOf(AllMinors(majors')))
  BY <1>4, <1>5 DEF HeapInv, T
<1>7. live' = {Pointer(o.at, o.req) : o \in AllMinors(majors')}
  <2>1. live = {Pointer(o.at, o.req) : o \in T} /\ live' = live \cup {Pointer(n.at, n.req)}
    BY DEF HeapInv, Gained, T
  <2> QED
    BY <1>4, <2>1
<1>8. /\ heapEnd' \in Nat /\ HeapStart <= heapEnd'
      /\ heapEnd' = HeapStart \/ heapEnd' <= HeapLimit
      /\ Layout(majors', heapEnd') /\ bestBet' \in Nat /\ BestBetLive'
      /\ allocated' = Cardinality(AllBytes(majors'))
  BY Constants DEF HeapInv, Gained
<1>9. HeapInv'
  BY <1>6, <1>7, <1>8 DEF HeapInv, AllMinors, AllBytes, PayloadsOf, Layout, Pointer
<1> QED
  BY <1>4, <1>5, <1>9 DEF T

\* malloc in either way.
LEMMA MallocGains ==
    ASSUME HeapInv, NEW req \in Nat, Malloc(req)
    PROVE  \E n : Gained(n) /\ n.req = req /\ inuse' = inuse + n.size
<1>1. PICK size : size = req + Alignment + AlignInfo
  OBVIOUS
<1>2. (MallocExisting(req, size) \/ MallocNew(req, size)) /\ inuse' = inuse + size
  BY <1>1 DEF Malloc
<1>3. PICK n : Gained(n) /\ n.req = req
  BY <1>1, <1>2, MallocExistingGains, MallocNewGains
<1>4. n.size = size
  BY <1>1, <1>3 DEF Gained
<1> QED
  BY <1>2, <1>3, <1>4

-----------------------------------------------------------------------------
(* Pointers and headers.                                                   *)

LEMMA MultipleMod == \A a, b \in Nat : b > 0 => (b * a) % b = 0
  OBVIOUS

\* ALIGN moves a pointer to the next aligned address that leaves room for
\* the offset it stores.
LEMMA AlignFacts ==
    ASSUME NEW q \in Nat
    PROVE  /\ AlignDiff(q) \in Nat /\ AlignInfo <= AlignDiff(q)
           /\ AlignDiff(q) < Alignment + AlignInfo
           /\ (q + AlignDiff(q)) % Alignment = 0
<1> DEFINE a == q + AlignInfo
           r == a % Alignment
           d == a \div Alignment
           e == (Alignment - r) % Alignment
<1>1. Alignment \in Nat /\ Alignment > 0 /\ AlignInfo \in Nat /\ a \in Nat
  BY Constants
<1>2. AlignDiff(q) = AlignInfo + e
  BY DEF AlignDiff
<1>0. q + AlignInfo = a
  OBVIOUS
<1> HIDE DEF a
<1>3. r \in Nat /\ r < Alignment /\ d \in Nat /\ a = Alignment * d + r
  BY <1>1, Division
<1> HIDE DEF r, d
<1>4. CASE r = 0
  <2>1. e = 0
    BY <1>1, <1>4
  <2>2. (Alignment * d) % Alignment = 0
    BY <1>1, <1>3
  <2>3. a = Alignment * d
    BY <1>1, <1>3, <1>4
  <2>4. q + AlignDiff(q) = a
    BY <1>0, <1>1, <1>2, <2>1
  <2>5. (q + AlignDiff(q)) % Alignment = 0
    BY <2>2, <2>3, <2>4
  <2>6. AlignDiff(q) = AlignInfo
    BY <1>1, <1>2, <2>1
  <2> QED
    BY <1>1, <2>5, <2>6
<1>5. CASE r # 0
  <2>0. Alignment - r \in Nat /\ Alignment - r < Alignment
    BY <1>1, <1>3, <1>5
  <2>1. e = Alignment - r
    BY <1>1, <2>0
  <2>2. d + 1 \in Nat /\ Alignment * (d + 1) = Alignment * d + Alignment
    BY <1>1, <1>3
  <2>3. (Alignment * (d + 1)) % Alignment = 0
    BY <1>1, <2>2, MultipleMod
  <2>4. q + AlignDiff(q) = Alignment * (d + 1)
    <3>1. Alignment * d \in Nat
      BY <1>1, <1>3
    <3>2. q + AlignDiff(q) = a + (Alignment - r)
      BY <1>0, <1>1, <1>2, <1>3, <2>1
    <3> QED
      BY <1>1, <1>3, <2>2, <3>1, <3>2
  <2> QED
    BY <1>1, <1>2, <1>3, <2>0, <2>1, <2>3, <2>4
<1> QED
  BY <1>4, <1>5

\* UNALIGN and the step over the header undo what malloc did.
LEMMA PointerFacts ==
    ASSUME NEW at \in Nat, NEW req \in Nat
    PROVE  /\ Header(Pointer(at, req)) = at
           /\ Pointer(at, req).req = req
           /\ Pointer(at, req).p % Alignment = 0
           /\ at + Minor <= Pointer(at, req).p - AlignInfo
           /\ Pointer(at, req).p + req <= at + Minor + (req + Alignment + AlignInfo)
           /\ Pointer(at, req).p \in Nat
           /\ [Pointer(at, req) EXCEPT !.req = @] = Pointer(at, req)
           /\ \A new : [Pointer(at, req) EXCEPT !.req = new] = Pointer(at, new)
<1> DEFINE d == AlignDiff(at + Minor)
<1>1. at + Minor \in Nat /\ Minor \in Nat /\ AlignInfo \in Nat /\ Alignment \in Nat
  BY Constants
<1>2. d \in Nat /\ AlignInfo <= d /\ d < Alignment + AlignInfo /\ (at + Minor + d) % Alignment = 0
  BY <1>1, AlignFacts
<1>3. Pointer(at, req) = [p |-> at + Minor + d, req |-> req, info |-> d]
  BY DEF Pointer
<1> HIDE DEF d
<1>4. Pointer(at, req).p = at + Minor + d /\ Pointer(at, req).info = d /\ Pointer(at, req).req = req
  BY <1>3
<1>5. Header(Pointer(at, req)) = at
  BY <1>1, <1>2, <1>4 DEF Header
<1>6. \A new : [Pointer(at, req) EXCEPT !.req = new] = Pointer(at, new)
  BY <1>3 DEF Pointer, d
<1> QED
  BY <1>1, <1>2, <1>3, <1>4, <1>5, <1>6

\* Two minors at one address are one minor.
LEMMA SameAt ==
    ASSUME NEW ms, NEW end, Layout(ms, end), NEW x \in AllMinors(ms), NEW y \in AllMinors(ms),
           x.at = y.at
    PROVE  x = y
<1>1. x \in MinorRec /\ y \in MinorRec /\ (x = y \/ Before(x, y) \/ Before(y, x))
  BY MinorsApart
<1>2. \A a, b \in Nat : ~(a + Minor + b <= a)
  BY Constants
<1>3. x.at \in Nat /\ x.size \in Nat /\ y.size \in Nat
  BY <1>1 DEF MinorRec
<1> QED
  BY <1>1, <1>2, <1>3 DEF Before

-----------------------------------------------------------------------------
(* free.                                                                   *)

\* A step that takes the minor n out of the heap.
Lost(n) ==
    /\ n \in AllMinors(majors)
    /\ AllMinors(majors') = AllMinors(majors) \ {n}
    /\ heapEnd' = heapEnd /\ Layout(majors', heapEnd)
    /\ bestBet' \in Nat /\ BestBetLive'
    /\ allocated' = Cardinality(AllBytes(majors'))
    /\ inuse' = inuse - n.size

LEMMA FreeMajorLoses ==
    ASSUME HeapInv, NEW i \in 1 .. Len(majors), Len(majors[i].minors) = 1,
           FreeMajor(i, majors[i]), heapEnd' = heapEnd,
           inuse' = inuse - majors[i].minors[1].size
    PROVE  Lost(majors[i].minors[1])
<1> DEFINE m == majors[i]  n == m.minors[1]
<1>1. /\ majors' = RemoveAt(majors, i) /\ allocated' = allocated - m.size
      /\ bestBet' = IF bestBet = m.base THEN 0 ELSE bestBet
  BY DEF FreeMajor
<1>2. Layout(majors, heapEnd) /\ heapEnd \in Nat /\ m \in MajorRec /\ Len(majors) \in Nat
      /\ DOMAIN majors = 1 .. Len(majors)
  BY LayoutTypes DEF HeapInv
<1>3. MinorsOf(m) = {n}
  BY <1>2, MinorTypes
<1>4. /\ Layout(majors', heapEnd)
      /\ \A j \in 1 .. Len(majors') : \E l \in 1 .. Len(majors) : l # i /\ majors'[j] = majors[l]
      /\ \A l \in 1 .. Len(majors) : l # i => \E j \in 1 .. Len(majors') : majors'[j] = majors[l]
  <2>1. majors' = RemoveAt(majors, i) /\ Layout(majors, heapEnd)
    BY <1>1, <1>2
  <2>2. Layout(majors', heapEnd)
    BY <2>1, LayoutRemove
  <2>3. \A j \in 1 .. Len(majors') : \E l \in 1 .. Len(majors) : l # i /\ majors'[j] = majors[l]
    BY <2>1, LayoutRemove
  <2>4. \A l \in 1 .. Len(majors) : l # i => \E j \in 1 .. Len(majors') : majors'[j] = majors[l]
    BY <2>1, LayoutRemove
  <2> QED
    BY <2>2, <2>3, <2>4
<1>5. /\ AllMinors(majors') = AllMinors(majors) \ {n} /\ n \in AllMinors(majors)
      /\ Cardinality(AllBytes(majors')) = Cardinality(AllBytes(majors)) - m.size
  <2>1. Layout(majors, heapEnd) /\ heapEnd \in Nat /\ MinorsOf(majors[i]) = {n} /\ m = majors[i]
    BY <1>2, <1>3
  <2> HIDE DEF n, m
  <2>2. Drops(majors, majors', n)
    BY <1>4, <2>1, MajorDropped
  <2>3. BytesDrop(majors, majors', m.size)
    BY <1>4, <2>1, MajorDropped
  <2> QED
    BY <2>2, <2>3 DEF Drops, BytesDrop
<1>6. allocated' = Cardinality(AllBytes(majors'))
  BY <1>1, <1>5 DEF HeapInv
<1>7. bestBet' \in Nat /\ BestBetLive'
  <2>1. CASE bestBet = m.base
    BY <1>1, <2>1 DEF BestBetLive
  <2>2. CASE bestBet # m.base /\ bestBet # 0
    <3>1. PICK l \in 1 .. Len(majors) : majors[l].base = bestBet
      BY <1>2, <2>2 DEF HeapInv, BestBetLive
    <3>2. PICK j \in 1 .. Len(majors') : majors'[j] = majors[l]
      BY <1>4, <2>2, <3>1
    <3>3. DOMAIN majors' = 1 .. Len(majors')
      BY <1>4, LayoutTypes
    <3> QED
      BY <1>1, <2>2, <3>1, <3>2, <3>3 DEF HeapInv, BestBetLive
  <2>3. CASE bestBet = 0
    BY <1>1, <2>3 DEF BestBetLive
  <2> QED
    BY <2>1, <2>2, <2>3
<1> QED
  BY <1>4, <1>5, <1>6, <1>7 DEF Lost

LEMMA FreeMinorLoses ==
    ASSUME HeapInv, NEW i \in 1 .. Len(majors), NEW k \in 1 .. Len(majors[i].minors),
           Len(majors[i].minors) # 1, FreeMinor(i, k, majors[i]), heapEnd' = heapEnd,
           inuse' = inuse - majors[i].minors[k].size
    PROVE  Lost(majors[i].minors[k])
<1> DEFINE m == majors[i]  n == m.minors[k]  w == WithoutMinor(m, k)
<1>1. /\ majors' = Replaced(majors, i, w) /\ allocated' = allocated
      /\ bestBet' = m.base \/ bestBet' = bestBet
  BY DEF FreeMinor, Replaced
<1>2. Layout(majors, heapEnd) /\ heapEnd \in Nat /\ m \in MajorRec /\ Whole(m)
      /\ DOMAIN majors = 1 .. Len(majors) /\ Len(m.minors) \in Nat
  BY LayoutTypes, MinorTypes DEF HeapInv, Layout
<1>0. m = majors[i] /\ n = m.minors[k] /\ w = WithoutMinor(m, k)
      /\ k \in 1 .. Len(m.minors) /\ Len(m.minors) # 1 /\ inuse' = inuse - n.size
  OBVIOUS
<1> HIDE DEF m, n, w
<1>3. /\ w \in MajorRec /\ Whole(w) /\ Len(w.minors) = Len(m.minors) - 1
      /\ w.base = m.base /\ w.size = m.size
      /\ MinorsOf(w) = MinorsOf(m) \ {n}
  BY <1>0, <1>2, MinorUnlinked
<1>4. w.minors # << >>
  <2>1. Len(w.minors) # 0
    BY <1>0, <1>2, <1>3
  <2> QED
    BY <1>3, <2>1, MinorTypes
<1>5. /\ Layout(majors', heapEnd) /\ Len(majors') = Len(majors)
      /\ AllBytes(majors') = AllBytes(majors)
      /\ \A j \in 1 .. Len(majors) : majors'[j] = IF j = i THEN w ELSE majors[j]
  BY <1>0, <1>1, <1>2, <1>3, <1>4, LayoutReplace
<1>6. n \in MinorsOf(m)
  BY <1>0, <1>2, MinorTypes
<1>7. AllMinors(majors') = AllMinors(majors) \ {n} /\ n \in AllMinors(majors)
  <2>1. n \in MinorsOf(majors[i]) /\ MinorsOf(w) = MinorsOf(majors[i]) \ {n}
    BY <1>0, <1>3, <1>6
  <2>2. Layout(majors, heapEnd)
    BY <1>2
  <2>3. Drops(majors, majors', n)
    BY <1>5, <2>1, <2>2, MinorDropped
  <2> QED
    BY <2>3 DEF Drops
<1>8. allocated' = Cardinality(AllBytes(majors'))
  BY <1>1, <1>5 DEF HeapInv
<1>9. bestBet' \in Nat /\ BestBetLive'
  <2>1. \A j \in 1 .. Len(majors) : majors'[j].base = majors[j].base
    BY <1>0, <1>3, <1>5
  <2>2. DOMAIN majors' = 1 .. Len(majors)
    BY <1>5, LayoutTypes
  <2>3. m.base \in Nat
    BY <1>2 DEF MajorRec
  <2>4. CASE bestBet' = m.base
    BY <1>0, <2>1, <2>2, <2>3, <2>4 DEF BestBetLive
  <2>5. CASE bestBet' = bestBet
    BY <1>2, <2>1, <2>2, <2>5 DEF HeapInv, BestBetLive
  <2> QED
    BY <1>1, <2>4, <2>5
<1> QED
  BY <1>0, <1>5, <1>7, <1>8, <1>9 DEF Lost

\* free takes away the minor whose pointer it is given.
LEMMA FreeLoses ==
    ASSUME HeapInv, NEW b \in live, Free(b)
    PROVE  \E n : Lost(n) /\ b = Pointer(n.at, n.req)
<1>1. PICK i \in DOMAIN majors : \E k \in DOMAIN majors[i].minors :
        /\ majors[i].minors[k].at = Header(b)
        /\ inuse' = inuse - majors[i].minors[k].size
        /\ IF Len(majors[i].minors) = 1
           THEN FreeMajor(i, majors[i])
           ELSE FreeMinor(i, k, majors[i])
        /\ heapEnd' = heapEnd
  BY DEF Free
<1>2. PICK k \in DOMAIN majors[i].minors :
        /\ majors[i].minors[k].at = Header(b)
        /\ inuse' = inuse - majors[i].minors[k].size
        /\ IF Len(majors[i].minors) = 1
           THEN FreeMajor(i, majors[i])
           ELSE FreeMinor(i, k, majors[i])
        /\ heapEnd' = heapEnd
  BY <1>1
<1>3. Layout(majors, heapEnd)
  BY DEF HeapInv
<1>4. i \in 1 .. Len(majors) /\ majors[i] \in MajorRec
  BY <1>3, LayoutTypes
<1>5. k \in 1 .. Len(majors[i].minors)
  BY <1>4, MinorTypes
<1>6. Lost(majors[i].minors[k])
  <2>1. CASE Len(majors[i].minors) = 1
    <3>1. k = 1
      BY <1>5, <2>1
    <3> QED
      BY <1>2, <1>4, <2>1, <3>1, FreeMajorLoses
  <2>2. CASE Len(majors[i].minors) # 1
    BY <1>2, <1>4, <1>5, <2>2, FreeMinorLoses
  <2> QED
    BY <2>1, <2>2
<1>7. PICK o \in AllMinors(majors) : b = Pointer(o.at, o.req)
  BY DEF HeapInv
<1>8. o \in MinorRec /\ o.at \in Nat /\ o.req \in Nat
  BY <1>3, MinorsApart DEF MinorRec
<1>9. majors[i].minors[k].at = o.at
  BY <1>2, <1>7, <1>8, PointerFacts
<1>10. majors[i].minors[k] = o
  BY <1>3, <1>6, <1>9, SameAt DEF Lost
<1> QED
  BY <1>6, <1>7, <1>10

\* A step that loses a minor and its pointer keeps the invariant.
LEMMA LossKeeps ==
    ASSUME HeapInv, NEW n, Lost(n), live' = live \ {Pointer(n.at, n.req)}, moving' \subseteq live'
    PROVE  HeapInv' /\ PayloadsOf(AllMinors(majors'))
                         = PayloadsOf(AllMinors(majors)) \ {Bytes(n.at + Minor, n.size)}
           /\ Bytes(n.at + Minor, n.size) \in PayloadsOf(AllMinors(majors))
<1> DEFINE S == AllMinors(majors)  T == S \ {n}
<1>1. Layout(majors, heapEnd) /\ heapEnd \in Nat /\ n \in S /\ AllMinors(majors') = T
  BY DEF HeapInv, Lost
<1>2. T \subseteq MinorRec /\ IsFiniteSet(UNION PayloadsOf(T)) /\ n \in MinorRec
      /\ S \subseteq MinorRec
  BY <1>1, PayloadsBounded
<1>3. \A o \in T : Before(n, o) \/ Before(o, n)
  BY <1>1, MinorsApart
<1>4. S = T \cup {n}
  BY <1>1
<1> HIDE DEF T
<1>5. /\ \A c \in PayloadsOf(T) : Bytes(n.at + Minor, n.size) \cap c = {}
      /\ PayloadsOf(T \cup {n}) = PayloadsOf(T) \cup {Bytes(n.at + Minor, n.size)}
      /\ Cardinality(UNION PayloadsOf(T \cup {n})) = Cardinality(UNION PayloadsOf(T)) + n.size
      /\ n.size \in Nat /\ Cardinality(UNION PayloadsOf(T)) \in Nat
  BY <1>2, <1>3, PayloadAdded
<1>6. inuse' = Cardinality(UNION PayloadsOf(T))
  <2>1. inuse = Cardinality(UNION PayloadsOf(T \cup {n})) /\ inuse' = inuse - n.size
    BY <1>4 DEF HeapInv, Lost
  <2> QED
    BY <1>5, <2>1
<1>7. live' = {Pointer(o.at, o.req) : o \in T}
  <2>1. live = {Pointer(o.at, o.req) : o \in T \cup {n}}
    BY <1>4 DEF HeapInv
  <2>2. \A o \in S : o.at \in Nat /\ o.req \in Nat
    BY <1>2 DEF MinorRec
  <2>3. ASSUME NEW o \in T PROVE Pointer(o.at, o.req) # Pointer(n.at, n.req)
    <3>1. o \in S /\ o # n
      BY DEF T
    <3>2. o.at # n.at
      BY <1>1, <3>1, SameAt
    <3> QED
      BY <1>1, <2>2, <3>1, <3>2, PointerFacts
  <2> QED
    BY <2>1, <2>3
<1>8. /\ heapEnd' = heapEnd /\ Layout(majors', heapEnd') /\ bestBet' \in Nat /\ BestBetLive'
      /\ allocated' = Cardinality(AllBytes(majors'))
  BY DEF Lost
<1>9. HeapInv'
  <2>1. heapEnd' \in Nat /\ HeapStart <= heapEnd' /\ (heapEnd' = HeapStart \/ heapEnd' <= HeapLimit)
    BY <1>8 DEF HeapInv
  <2> QED
    BY <1>1, <1>6, <1>7, <1>8, <2>1 DEF HeapInv, AllMinors, AllBytes, PayloadsOf, Layout, Pointer
<1>10. Bytes(n.at + Minor, n.size) \notin PayloadsOf(T)
  <2>1. Bytes(n.at + Minor, n.size) # {}
    <3>1. n.at \in Nat /\ n.size \in Nat /\ n.size > 0
      <4>1. PICK i \in 1 .. Len(majors) : n \in MinorsOf(majors[i])
        BY <1>1, LayoutTypes
      <4>2. Inside(n, majors[i])
        BY SMTT(30), <1>1, <4>1, LayoutTypes, MinorTypes DEF Layout, Whole, Placed
      <4>3. n.at \in Nat /\ n.size \in Nat /\ n.req \in Nat
        BY <1>2 DEF MinorRec
      <4> QED
        BY <4>2, <4>3, Constants DEF Inside
    <3>2. n.at + Minor \in (n.at + Minor) .. (n.at + Minor + n.size - 1)
      BY <3>1, Constants
    <3> QED
      BY <3>2 DEF Bytes
  <2> QED
    BY <1>5, <2>1
<1>11. PayloadsOf(S) = PayloadsOf(T) \cup {Bytes(n.at + Minor, n.size)}
  BY <1>4, <1>5
<1>12. PayloadsOf(T) = PayloadsOf(S) \ {Bytes(n.at + Minor, n.size)}
  BY <1>10, <1>11
<1> QED
  BY <1>1, <1>9, <1>11, <1>12

-----------------------------------------------------------------------------
(* realloc in place: only the recorded request of one minor changes.       *)

LEMMA SetReqFacts ==
    ASSUME NEW n \in MinorRec, NEW at, NEW req \in Nat
    PROVE  /\ SetReq(n, at, req) \in MinorRec
           /\ SetReq(n, at, req).at = n.at /\ SetReq(n, at, req).size = n.size
           /\ SetReq(n, at, req).req = IF n.at = at THEN req ELSE n.req
           /\ n.at # at => SetReq(n, at, req) = n
  BY DEF SetReq, MinorRec

LEMMA WithReqWhole ==
    ASSUME NEW m \in MajorRec, Whole(m), NEW at, NEW req \in Nat,
           \A k \in 1 .. Len(m.minors) : m.minors[k].at = at => req <= m.minors[k].req,
           NEW w, w = WithReq(m, at, req)
    PROVE  /\ w \in MajorRec /\ Whole(w) /\ w.base = m.base /\ w.size = m.size
           /\ Len(w.minors) = Len(m.minors)
           /\ MinorsOf(w) = {SetReq(n, at, req) : n \in MinorsOf(m)}
<1> DEFINE s == m.minors  t == [k \in 1 .. Len(s) |-> SetReq(s[k], at, req)]
<1>1. /\ Len(s) \in Nat /\ DOMAIN s = 1 .. Len(s) /\ \A k \in 1 .. Len(s) : s[k] \in MinorRec
      /\ MinorsOf(m) = {s[k] : k \in 1 .. Len(s)}
  BY MinorTypes
<1>2. w = [m EXCEPT !.minors = t]
  BY <1>1 DEF WithReq
<1>3. \A k \in 1 .. Len(s) : SetReq(s[k], at, req) \in MinorRec
  BY <1>1, SetReqFacts
<1>4. t \in Seq(MinorRec) /\ Len(t) = Len(s) /\ \A k \in 1 .. Len(s) : t[k] = SetReq(s[k], at, req)
  BY <1>1, <1>3
<1> HIDE DEF t
<1>5. /\ w \in MajorRec /\ w.minors = t /\ w.base = m.base /\ w.size = m.size
      /\ w.usage = m.usage
  BY <1>2, <1>4 DEF MajorRec
<1>6. \A k \in 1 .. Len(s) : t[k].at = s[k].at /\ t[k].size = s[k].size
  BY <1>1, <1>4, SetReqFacts
<1>7. ASSUME NEW k \in 1 .. Len(s) PROVE Inside(t[k], w)
  <2>1. Inside(s[k], m)
    BY DEF Whole, Placed
  <2>2. t[k].req <= s[k].req /\ t[k].req \in Nat /\ s[k].req \in Nat /\ s[k].size \in Nat
    <3>1. s[k] \in MinorRec /\ t[k].req = IF s[k].at = at THEN req ELSE s[k].req
      BY <1>1, <1>4, SetReqFacts
    <3>2. s[k].req \in Nat /\ s[k].size \in Nat
      BY <3>1 DEF MinorRec
    <3> QED
      BY <3>1, <3>2
  <2>3. \A a, b, c \in Nat : a <= b /\ b + Alignment + AlignInfo <= c => a + Alignment + AlignInfo <= c
    BY Constants
  <2> QED
    BY <1>5, <1>6, <2>1, <2>2, <2>3 DEF Inside
<1>8. Placed(w)
  BY <1>1, <1>4, <1>5, <1>6, <1>7 DEF Whole, Placed, Before
<1>9. MinorsOf(w) = {t[k] : k \in 1 .. Len(s)}
  BY <1>4, <1>5, MinorTypes
<1>10. MinorsOf(w) = {SetReq(n, at, req) : n \in MinorsOf(m)}
  BY <1>1, <1>4, <1>9
<1>11. Taken(w) = Taken(m)
  BY <1>1, <1>5, <1>6, <1>9 DEF Taken
<1> QED
  BY <1>4, <1>5, <1>8, <1>10, <1>11 DEF Whole

LEMMA ReallocInPlaceKeeps ==
    ASSUME HeapInv, NEW b \in live \ moving, NEW req, ReallocInPlace(b, req)
    PROVE  HeapInv' /\ PayloadsOf(AllMinors(majors')) = PayloadsOf(AllMinors(majors))
<1> DEFINE h == Header(b)  S == AllMinors(majors)
<1>1. /\ majors' = [i \in DOMAIN majors |-> WithReq(majors[i], h, req)]
      /\ req \in 1 .. b.req
      /\ live' = (live \ {b}) \cup {[b EXCEPT !.req = req]}
      /\ UNCHANGED <<bestBet, heapEnd, allocated, inuse, moving>>
  BY DEF ReallocInPlace
<1>2. Layout(majors, heapEnd) /\ heapEnd \in Nat
  BY DEF HeapInv
<1>3. PICK o \in S : b = Pointer(o.at, o.req)
  BY DEF HeapInv
<1>4. S \subseteq MinorRec /\ o.at \in Nat /\ o.req \in Nat
  BY <1>2, PayloadsBounded DEF MinorRec
<1>5. h = o.at /\ b.req = o.req
  BY <1>3, <1>4, PointerFacts
<1>6. req \in Nat /\ req <= o.req
  BY <1>1, <1>4, <1>5
<1>7. [b EXCEPT !.req = req] = Pointer(o.at, req)
  BY <1>3, <1>4, PointerFacts
<1>8. \A n \in S : n.at = h => n = o
  BY <1>2, <1>5, SameAt
<1>9. /\ Len(majors) \in Nat /\ DOMAIN majors = 1 .. Len(majors)
      /\ \A i \in 1 .. Len(majors) : majors[i] \in MajorRec /\ Whole(majors[i])
      /\ S = UNION {MinorsOf(majors[i]) : i \in 1 .. Len(majors)}
  BY <1>2, LayoutTypes DEF Layout
<1> HIDE DEF h, S
<1>10. ASSUME NEW i \in 1 .. Len(majors), NEW w, w = WithReq(majors[i], h, req)
       PROVE  /\ w \in MajorRec /\ Whole(w) /\ w.base = majors[i].base /\ w.size = majors[i].size
              /\ Len(w.minors) = Len(majors[i].minors)
              /\ MinorsOf(w) = {SetReq(n, h, req) : n \in MinorsOf(majors[i])}
  <2>1. \A k \in 1 .. Len(majors[i].minors) : majors[i].minors[k] \in MinorsOf(majors[i])
    BY <1>9, MinorTypes
  <2>2. \A k \in 1 .. Len(majors[i].minors) :
          majors[i].minors[k].at = h => req <= majors[i].minors[k].req
    BY <1>6, <1>8, <1>9, <2>1
  <2> QED
    BY <1>6, <1>9, <1>10, <2>2, WithReqWhole
<1>11. /\ majors' \in Seq(MajorRec) /\ Len(majors') = Len(majors)
       /\ \A i \in 1 .. Len(majors) : majors'[i] = WithReq(majors[i], h, req)
  <2>1. \A i \in 1 .. Len(majors) : WithReq(majors[i], h, req) \in MajorRec
    BY <1>10
  <2> QED
    BY <1>1, <1>9, <2>1
<1>12. \A i \in 1 .. Len(majors) :
         /\ majors'[i] \in MajorRec /\ Whole(majors'[i])
         /\ majors'[i].base = majors[i].base /\ majors'[i].size = majors[i].size
         /\ Len(majors'[i].minors) = Len(majors[i].minors)
         /\ MinorsOf(majors'[i]) = {SetReq(n, h, req) : n \in MinorsOf(majors[i])}
  BY <1>10, <1>11
<1>13. \A i \in 1 .. Len(majors) : majors'[i].minors # << >>
  <2>1. \A i \in 1 .. Len(majors) : Len(majors[i].minors) # 0
    BY <1>2, <1>9, MinorTypes DEF Layout
  <2> QED
    BY <1>12, <2>1, MinorTypes
<1>14. Layout(majors', heapEnd)
  BY <1>2, <1>11, <1>12, <1>13 DEF Layout
<1>15. AllMinors(majors') = {SetReq(n, h, req) : n \in S}
  <2>1. AllMinors(majors') = UNION {MinorsOf(majors'[i]) : i \in 1 .. Len(majors)}
    BY <1>11, <1>14, LayoutTypes
  <2>2. ASSUME NEW x \in AllMinors(majors') PROVE x \in {SetReq(n, h, req) : n \in S}
    <3>1. PICK i \in 1 .. Len(majors) : x \in MinorsOf(majors'[i])
      BY <2>1
    <3>2. PICK n \in MinorsOf(majors[i]) : x = SetReq(n, h, req)
      BY SMTT(30), <1>12, <3>1
    <3>3. n \in S
      BY <1>9
    <3> QED
      BY <3>2, <3>3
  <2>3. ASSUME NEW n \in S PROVE SetReq(n, h, req) \in AllMinors(majors')
    <3>1. PICK i \in 1 .. Len(majors) : n \in MinorsOf(majors[i])
      BY <1>9
    <3>2. SetReq(n, h, req) \in MinorsOf(majors'[i])
      BY <1>12, <3>1
    <3> QED
      BY <2>1, <3>2
  <2> QED
    BY <2>2, <2>3
<1>16. AllBytes(majors') = AllBytes(majors)
  BY <1>2, <1>11, <1>12, <1>14, SameBytes
<1>17. PayloadsOf(AllMinors(majors')) = PayloadsOf(S)
  <2>1. \A n \in S : SetReq(n, h, req).at = n.at /\ SetReq(n, h, req).size = n.size
    BY <1>4, <1>6, SetReqFacts
  <2> QED
    BY <1>15, <2>1 DEF PayloadsOf
<1>18. live' = {Pointer(n.at, n.req) : n \in AllMinors(majors')}
  <2>1. live' = {Pointer(SetReq(n, h, req).at, SetReq(n, h, req).req) : n \in S}
    <3>1. \A n \in S : n # o => SetReq(n, h, req) = n /\ Pointer(n.at, n.req) # b
      <4>1. \A n \in S : n \in MinorRec /\ n.at \in Nat /\ n.req \in Nat
        BY <1>4 DEF MinorRec
      <4>2. \A n \in S : n # o => n.at # h
        BY <1>8
      <4>3. \A n \in S : Header(Pointer(n.at, n.req)) = n.at
        BY <4>1, PointerFacts
      <4> QED
        BY <1>6, <4>1, <4>2, <4>3, SetReqFacts DEF h
    <3>2. SetReq(o, h, req).at = o.at /\ SetReq(o, h, req).req = req
      BY <1>4, <1>5, <1>6, SetReqFacts DEF S
    <3>3. live = {Pointer(n.at, n.req) : n \in S}
      BY DEF HeapInv, S
    <3>4. live' = (live \ {b}) \cup {Pointer(o.at, req)}
      BY <1>1, <1>7
    <3>5. o \in S
      BY DEF S
    <3> QED
      BY <1>3, <3>1, <3>2, <3>3, <3>4, <3>5
  <2> QED
    BY <1>15, <2>1
<1>19. bestBet' \in Nat /\ BestBetLive'
  <2>1. DOMAIN majors' = 1 .. Len(majors)
    BY <1>11, <1>14, LayoutTypes
  <2> QED
    BY <1>1, <1>9, <1>12, <2>1 DEF HeapInv, BestBetLive
<1>20. moving' \subseteq live'
  BY <1>1 DEF HeapInv
<1>21. /\ heapEnd' \in Nat /\ HeapStart <= heapEnd'
       /\ heapEnd' = HeapStart \/ heapEnd' <= HeapLimit
       /\ Layout(majors', heapEnd')
       /\ allocated' = Cardinality(AllBytes(majors'))
       /\ inuse' = Cardinality(UNION PayloadsOf(AllMinors(majors')))
  BY <1>1, <1>14, <1>16, <1>17 DEF HeapInv, S
<1>22. HeapInv'
  BY <1>18, <1>19, <1>20, <1>21 DEF HeapInv, AllMinors, AllBytes, PayloadsOf, Layout, Pointer
<1> QED
  BY <1>17, <1>22 DEF S

-----------------------------------------------------------------------------
(* Every step keeps the invariant, and is a step of the abstract allocator *)
(* or none.                                                                *)

LEMMA HeapTerms ==
    /\ Minors = AllMinors(majors) /\ Mapped = AllBytes(majors)
    /\ Payloads = PayloadsOf(AllMinors(majors))
    /\ Payloads' = PayloadsOf(AllMinors(majors'))
  BY DEF Minors, AllMinors, Mapped, AllBytes, Payloads, PayloadsOf

\* The allocator's view of malloc.
LEMMA GainTakes ==
    ASSUME HeapInv, HeapInv', NEW n, Gained(n),
           Payloads' = Payloads \cup {Bytes(n.at + Minor, n.size)},
           \A c \in Payloads : Bytes(n.at + Minor, n.size) \cap c = {}
    PROVE  Abstract!ANext
<1> DEFINE c == Bytes(n.at + Minor, n.size)
<1>1. c \in Payloads'
  OBVIOUS
<1>2. c # {}
  <2>1. n.at \in Nat /\ n.size \in Nat /\ n.size > 0
    <3>1. n \in MinorRec /\ n.size = n.req + Alignment + AlignInfo
      BY DEF Gained
    <3>2. n.at \in Nat /\ n.size \in Nat /\ n.req \in Nat
      BY <3>1 DEF MinorRec
    <3> QED
      BY <3>1, <3>2, Constants
  <2>2. n.at + Minor \in (n.at + Minor) .. (n.at + Minor + n.size - 1)
    BY <2>1, Constants
  <2> QED
    BY <2>2 DEF Bytes
<1>3. heapEnd \in Nat /\ heapEnd' \in Nat /\ heapEnd <= heapEnd'
  BY DEF HeapInv, Gained
<1>0. \A a, x, y \in Nat : x = a \/ x <= y => a .. x - 1 \subseteq a .. y - 1
  OBVIOUS
<1>4. HeapStart .. heapEnd - 1 \subseteq HeapStart .. heapEnd' - 1
  BY <1>0, <1>3, Constants
<1>5. HeapStart .. heapEnd' - 1 \subseteq HeapStart .. HeapLimit - 1
  <2>1. heapEnd' = HeapStart \/ heapEnd' <= HeapLimit
    BY DEF HeapInv
  <2> QED
    BY <1>0, <1>3, <2>1, Constants
<1>6. c \subseteq HeapStart .. heapEnd' - 1
  <2>1. Layout(majors', heapEnd')
    BY DEF Gained
  <2>2. \A d \in PayloadsOf(AllMinors(majors')) : d \subseteq HeapStart .. heapEnd' - 1
    BY <1>3, <2>1, PayloadsBounded
  <2> QED
    BY <1>1, <2>2, HeapTerms
<1> HIDE DEF c
<1>7. Abstract!Take(c)
  BY <1>1, <1>2, <1>4, <1>5, <1>6 DEF Abstract!Take, c
<1> QED
  BY <1>1, <1>7 DEF Abstract!ANext

LEMMA MallocStep ==
    ASSUME HeapInv, NEW req \in Sizes, Malloc(req), moving' \subseteq live \/ moving' = moving
    PROVE  HeapInv' /\ Abstract!ANext
<1>1. PICK n : Gained(n) /\ inuse' = inuse + n.size
  BY MallocGains, Constants
<1>2. live \subseteq live' /\ moving \subseteq live
  BY <1>1 DEF Gained, HeapInv
<1>3. /\ HeapInv'
      /\ PayloadsOf(AllMinors(majors'))
           = PayloadsOf(AllMinors(majors)) \cup {Bytes(n.at + Minor, n.size)}
      /\ \A c \in PayloadsOf(AllMinors(majors)) : Bytes(n.at + Minor, n.size) \cap c = {}
  BY <1>1, <1>2, GainKeeps
<1> QED
  BY <1>1, <1>3, HeapTerms, GainTakes

LEMMA FreeStep ==
    ASSUME HeapInv, NEW b \in live, Free(b), live' = live \ {b}, moving' \subseteq moving \ {b}
    PROVE  HeapInv' /\ Abstract!ANext
<1>1. PICK n : Lost(n) /\ b = Pointer(n.at, n.req)
  BY FreeLoses
<1>2. moving' \subseteq live'
  BY DEF HeapInv
<1>3. /\ HeapInv'
      /\ PayloadsOf(AllMinors(majors'))
           = PayloadsOf(AllMinors(majors)) \ {Bytes(n.at + Minor, n.size)}
      /\ Bytes(n.at + Minor, n.size) \in PayloadsOf(AllMinors(majors))
  BY <1>1, <1>2, LossKeeps
<1>4. PICK c \in Payloads : Payloads' = Payloads \ {c}
  BY <1>3, HeapTerms
<1>5. heapEnd' = heapEnd
  BY <1>1 DEF Lost
<1>6. Abstract!Give(c)
  BY <1>4, <1>5 DEF Abstract!Give
<1> QED
  BY <1>3, <1>4, <1>6 DEF Abstract!ANext

LEMMA HeapStep ==
    ASSUME HeapInv, [Next]_vars
    PROVE  HeapInv' /\ [Abstract!ANext]_(Abstract!avars)
<1>1. ASSUME NEW req \in Sizes, Kmalloc(req)
      PROVE  HeapInv' /\ Abstract!ANext
  BY <1>1, MallocStep DEF Kmalloc
<1>2. ASSUME NEW b \in live \ moving, Kfree(b)
      PROVE  HeapInv' /\ Abstract!ANext
  BY <1>2, FreeStep DEF Kfree
<1>3. ASSUME NEW b \in live \ moving, NEW req \in Sizes, ReallocGrow(b, req)
      PROVE  HeapInv' /\ Abstract!ANext
  BY <1>3, MallocStep DEF ReallocGrow, HeapInv
<1>4. ASSUME NEW b \in moving, ReallocFree(b)
      PROVE  HeapInv' /\ Abstract!ANext
  <2>1. b \in live
    BY DEF HeapInv
  <2> QED
    BY <1>4, <2>1, FreeStep DEF ReallocFree
<1>5. ASSUME NEW b \in live \ moving, NEW req \in Sizes, ReallocInPlace(b, req)
      PROVE  HeapInv' /\ UNCHANGED Abstract!avars
  <2>1. HeapInv' /\ PayloadsOf(AllMinors(majors')) = PayloadsOf(AllMinors(majors))
    BY <1>5, ReallocInPlaceKeeps
  <2>2. heapEnd' = heapEnd
    BY <1>5 DEF ReallocInPlace
  <2> QED
    BY <2>1, <2>2, HeapTerms DEF Abstract!avars
<1>6. CASE UNCHANGED vars
  <2>1. HeapInv'
    BY <1>6 DEF HeapInv, vars, Layout, BestBetLive, AllBytes, AllMinors, PayloadsOf, Pointer
  <2>2. Payloads' = Payloads /\ heapEnd' = heapEnd
    BY <1>6, HeapTerms DEF vars
  <2> QED
    BY <2>1, <2>2 DEF Abstract!avars
<1>7. CASE Next
  BY <1>1, <1>2, <1>3, <1>4, <1>5, <1>7 DEF Next
<1> QED
  BY <1>6, <1>7

-----------------------------------------------------------------------------
(* What the invariant says of the lists, the counters and the pointers.    *)

LEMMA InvListsSound == HeapInv => ListsSound
<1> SUFFICES ASSUME HeapInv PROVE ListsSound
  OBVIOUS
<1>1. /\ Layout(majors, heapEnd) /\ DOMAIN majors = 1 .. Len(majors)
      /\ \A i \in 1 .. Len(majors) : majors[i] \in MajorRec /\ Placed(majors[i])
  BY LayoutTypes DEF HeapInv, Layout, Whole
<1>2. \A i \in 1 .. Len(majors) : \A k \in 0 .. Len(majors[i].minors) :
        GapStart(majors[i], k) <= GapEnd(majors[i], k)
  BY <1>1, GapFacts
<1>3. \A i \in 1 .. Len(majors) : HeapStart <= majors[i].base /\ majors[i].base \in Nat
  BY <1>1 DEF Layout, MajorRec
<1>4. \A a, b \in Nat : a <= b => b >= a
  OBVIOUS
<1>5. \A i \in 1 .. Len(majors) : majors[i].base >= HeapStart
  BY <1>3, <1>4, Constants
<1> QED
  BY <1>1, <1>2, <1>5 DEF ListsSound, Layout

LEMMA InvCountersExact == HeapInv => CountersExact
<1> SUFFICES ASSUME HeapInv PROVE CountersExact
  OBVIOUS
<1>1. \A i \in DOMAIN majors : majors[i].usage = Cardinality(Taken(majors[i]))
  BY LayoutTypes DEF HeapInv, Layout, Whole
<1> QED
  BY <1>1, HeapTerms DEF HeapInv, CountersExact

LEMMA InvPointersFit == HeapInv => PointersFit
<1> SUFFICES ASSUME HeapInv PROVE PointersFit
  OBVIOUS
<1>1. Layout(majors, heapEnd) /\ live = {Pointer(n.at, n.req) : n \in Minors}
  BY HeapTerms DEF HeapInv
<1>2. ASSUME NEW n \in Minors
      PROVE  /\ n.at \in Nat /\ n.req \in Nat /\ n.size \in Nat
             /\ n.req + Alignment + AlignInfo <= n.size
  <2>1. PICK i \in 1 .. Len(majors) : n \in MinorsOf(majors[i])
    BY <1>1, HeapTerms, LayoutTypes
  <2>2. n \in MinorRec /\ Inside(n, majors[i])
    BY <1>1, <2>1, LayoutTypes, MinorTypes DEF Layout, Whole, Placed
  <2> QED
    BY <2>2 DEF MinorRec, Inside
<1>3. ASSUME NEW n \in Minors
      PROVE  LET b == Pointer(n.at, n.req) IN
             /\ Header(b) = n.at /\ b.req = n.req /\ b.p % Alignment = 0
             /\ n.at + Minor <= b.p - AlignInfo
             /\ b.p + b.req <= n.at + Minor + n.size
  <2> DEFINE b == Pointer(n.at, n.req)
  <2>1. /\ Header(b) = n.at /\ b.req = n.req /\ b.p % Alignment = 0
        /\ n.at + Minor <= b.p - AlignInfo /\ b.p \in Nat
        /\ b.p + n.req <= n.at + Minor + (n.req + Alignment + AlignInfo)
    BY <1>2, PointerFacts
  <2>2. \A p, q, a, z \in Nat :
          p + q <= a + Minor + (q + Alignment + AlignInfo) /\ q + Alignment + AlignInfo <= z
            => p + q <= a + Minor + z
    BY Constants
  <2> HIDE DEF b
  <2>3. b.p + b.req <= n.at + Minor + n.size
    BY <1>2, <2>1, <2>2
  <2> QED
    BY <2>1, <2>3 DEF b
<1>4. \A b \in live :
        /\ b.p % Alignment = 0
        /\ \E n \in Minors : /\ n.at = Header(b) /\ n.req = b.req
                             /\ n.at + Minor <= b.p - AlignInfo
                             /\ b.p + b.req <= n.at + Minor + n.size
  BY <1>1, <1>3
<1>5. {n.at : n \in Minors} = {Header(b) : b \in live}
  BY <1>1, <1>3
<1> QED
  BY <1>4, <1>5 DEF PointersFit

\* After any sequence of malloc, free and realloc the lists of mm/heap.c are
\* in address order without overlap, usage, l_allocated and l_inuse count
\* exactly the bytes they stand for, every pointer is aligned and leads back
\* to a block with room for the request, and l_bestBet is a mapped major:
\* for every size of header, page, alignment and request.
THEOREM HeapAlwaysSound == Spec => []HeapSound
<1>1. HeapInv /\ [Next]_vars => HeapInv'
  BY HeapStep
<1>2. HeapInv => HeapSound
  BY InvListsSound, InvCountersExact, InvPointersFit DEF HeapInv, HeapSound
<1> QED
  BY <1>1, <1>2, HeapInit, PTL DEF Spec

\* The heap implements the abstract allocator: malloc takes bytes of the
\* pool that nobody holds, free gives back the bytes of the block it is
\* handed, and a realloc in place is invisible.
THEOREM HeapImplementsAllocator == Spec => ImplementsAllocator
<1>1. HeapInv /\ [Next]_vars => HeapInv'
  BY HeapStep
<1>2. HeapInv /\ [Next]_vars => [Abstract!ANext]_(Abstract!avars)
  BY HeapStep
<1>3. Init => Abstract!AInit
  <2> SUFFICES ASSUME Init PROVE Abstract!AInit
    OBVIOUS
  <2>1. HeapStart .. heapEnd - 1 = {}
    BY Constants DEF Init
  <2>2. Payloads = {}
    BY DEF Init, Payloads, Minors
  <2> QED
    BY <2>1, <2>2 DEF Abstract!AInit
<1> QED
  BY <1>1, <1>2, <1>3, HeapInit, PTL DEF Spec, ImplementsAllocator, Abstract!ASpec

\* Pieces that lie in the pool and do not overlap.
Apart(pool, held) ==
    /\ \A b \in held : b \subseteq pool
    /\ \A b, c \in held : b # c => b \cap c = {}

\* A step of the abstract allocator keeps the pieces inside the pool and
\* apart.
LEMMA AllocatorStep ==
    ASSUME NEW pool, NEW held, NEW pool2, NEW held2, Apart(pool, held),
           \/ pool \subseteq pool2 /\ held2 = held
           \/ \E b : /\ pool \subseteq pool2 /\ b \subseteq pool2
                     /\ \A c \in held : b \cap c = {}
                     /\ held2 = held \cup {b}
           \/ \E b \in held : held2 = held \ {b} /\ pool2 = pool
    PROVE  Apart(pool2, held2)
<1>1. CASE pool \subseteq pool2 /\ held2 = held
  BY <1>1 DEF Apart
<1>2. ASSUME NEW b, pool \subseteq pool2, b \subseteq pool2,
             \A c \in held : b \cap c = {}, held2 = held \cup {b}
      PROVE  Apart(pool2, held2)
  BY <1>2 DEF Apart
<1>3. ASSUME NEW b \in held, held2 = held \ {b}, pool2 = pool
      PROVE  Apart(pool2, held2)
  BY <1>3 DEF Apart
<1> QED
  BY <1>1, <1>2, <1>3

\* No two pointers that malloc or realloc has given out and free not taken
\* back share a byte, and all of their bytes lie below heap_end, whatever
\* sequence of calls led there.
THEOREM HeapPiecesApart == Spec => []Abstract!Sound
<1> DEFINE P == HeapStart .. heapEnd - 1
<1>1. HeapInv /\ [Next]_vars => HeapInv'
  BY HeapStep
<1>2. Abstract!Sound <=> Apart(P, Payloads)
  BY DEF Abstract!Sound, Apart
<1>3. Init => Abstract!Sound
  <2> SUFFICES ASSUME Init PROVE Abstract!Sound
    OBVIOUS
  <2>1. Payloads = {}
    BY DEF Init, Payloads, Minors
  <2> QED BY <1>2, <2>1 DEF Apart
<1>4. HeapInv /\ Abstract!Sound /\ [Next]_vars => Abstract!Sound'
  <2> SUFFICES ASSUME HeapInv, Abstract!Sound, [Next]_vars PROVE Abstract!Sound'
    OBVIOUS
  <2>1. [Abstract!ANext]_(Abstract!avars)
    BY HeapStep
  <2>2. \/ P \subseteq P' /\ Payloads' = Payloads
        \/ \E b : /\ P \subseteq P' /\ b \subseteq P'
                  /\ \A c \in Payloads : b \cap c = {}
                  /\ Payloads' = Payloads \cup {b}
        \/ \E b \in Payloads : Payloads' = Payloads \ {b} /\ P' = P
    BY <2>1 DEF Abstract!ANext, Abstract!Grow, Abstract!Take, Abstract!Give, Abstract!avars
  <2>3. Apart(P, Payloads)
    BY <1>2
  <2>4. Apart(P', Payloads')
    <3> HIDE DEF P
    <3> QED BY <2>2, <2>3, AllocatorStep
  <2>5. Abstract!Sound' <=> Apart(P', Payloads')
    BY DEF Abstract!Sound, Apart
  <2> QED BY <2>4, <2>5
<1> QED
  BY <1>1, <1>3, <1>4, HeapInit, PTL DEF Spec

\* malloc maps new pages only if no major it already has could hold the
\* block, wherever in the list l_bestBet made it start.
THEOREM HeapNeverGrowsNeedlessly == Spec => NoNeedlessMajor
<1> DEFINE Step == \A req \in Sizes :
             (heapEnd' # heapEnd /\ \E b \in live' \ live : b.req = req)
                => \A i \in DOMAIN majors : ~Fits(majors[i], req + Alignment + AlignInfo)
<1>1. HeapInv /\ [Next]_vars => HeapInv'
  BY HeapStep
<1>2. ASSUME HeapInv, NEW r \in Sizes, Malloc(r) PROVE Step
  <2> SUFFICES ASSUME NEW req \in Sizes, heapEnd' # heapEnd,
                      NEW b \in live' \ live, b.req = req
               PROVE  \A i \in DOMAIN majors : ~Fits(majors[i], req + Alignment + AlignInfo)
    OBVIOUS
  <2>1. PICK size : size = r + Alignment + AlignInfo
    OBVIOUS
  <2>2. MallocNew(r, size)
    BY <1>2, <2>1 DEF Malloc, MallocExisting
  <2>3. \A v \in DOMAIN VisitOrder(size) : ~Fits(majors[VisitOrder(size)[v]], size)
    BY <2>2 DEF MallocNew
  <2>4. \E at : live' = live \cup {Pointer(at, r)}
    BY <2>2 DEF MallocNew
  <2>5. req = r
    BY <2>4 DEF Pointer
  <2>6. \A i \in 1 .. Len(majors) : ~Fits(majors[i], size)
    BY <1>2, <2>3, VisitsAll
  <2>7. DOMAIN majors = 1 .. Len(majors)
    BY <1>2, LayoutTypes DEF HeapInv
  <2> QED
    BY <2>1, <2>5, <2>6, <2>7
<1>3. HeapInv /\ [Next]_vars => [Step]_vars
  <2> SUFFICES ASSUME HeapInv, Next PROVE Step
    OBVIOUS
  <2>1. ASSUME NEW b, ReallocFree(b) \/ Kfree(b) \/ \E req : ReallocInPlace(b, req) PROVE Step
    BY <2>1 DEF ReallocFree, Kfree, Free, ReallocInPlace
  <2>2. ASSUME NEW req \in Sizes, Kmalloc(req) \/ \E b : ReallocGrow(b, req) PROVE Malloc(req)
    BY <2>2 DEF Kmalloc, ReallocGrow
  <2> HIDE DEF Step
  <2> QED
    BY <1>2, <2>1, <2>2 DEF Next
<1> QED
  BY <1>1, <1>3, HeapInit, PTL DEF Spec, NoNeedlessMajor
=============================================================================
