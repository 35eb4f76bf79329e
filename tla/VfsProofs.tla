------------------------------ MODULE VfsProofs -----------------------------
(***************************************************************************)
(* Proofs about Vfs, for any names, paths, file systems and contents.      *)
(***************************************************************************)
EXTENDS Vfs, SequenceTheorems, WellFoundedInduction, TLAPS

-----------------------------------------------------------------------------
(* The text of paths: every string made of a path is a string.             *)

\* A set of natural numbers has a least one.
LEMMA LeastExists ==
    ASSUME NEW T, T \subseteq Nat, T # {}
    PROVE  \E x \in T : \A y \in T : x <= y
<1>1. \E x \in T : \A y \in T : <<y, x>> \notin OpToRel(<, Nat)
  BY NatLessThanWellFounded, WFMin
<1>2. \A x, y \in Nat : <<y, x>> \notin OpToRel(<, Nat) => x <= y
  BY DEF OpToRel
<1> QED
  BY <1>1, <1>2

LEMMA MinIn ==
    ASSUME NEW T, T \subseteq Nat, T # {}
    PROVE  Min(T) \in T /\ \A y \in T : Min(T) <= y
  BY LeastExists DEF Min

LEMMA MaxIn ==
    ASSUME NEW n \in Nat, NEW T, T \subseteq 1 .. n, T # {}
    PROVE  Max(T) \in T
<1> DEFINE U == {n - x : x \in T}
<1>1. U \subseteq Nat /\ U # {}
  <2>1. \A x \in T : n - x \in Nat
    OBVIOUS
  <2> QED BY <2>1
<1>2. PICK u \in U : \A v \in U : u <= v
  BY <1>1, LeastExists
<1>3. PICK x \in T : u = n - x
  OBVIOUS
<1>4. \A y \in T : x >= y
  <2> SUFFICES ASSUME NEW y \in T PROVE x >= y
    OBVIOUS
  <2>1. n - y \in U
    OBVIOUS
  <2>2. n - x <= n - y
    BY <1>2, <1>3, <2>1
  <2> QED BY <2>2
<1> QED
  BY <1>4 DEF Max

\* Part of a string is a string.
LEMMA SubText ==
    ASSUME NEW S, NEW s \in Seq(S), NEW m \in Nat \ {0}, NEW n \in Int, n <= Len(s)
    PROVE  SubSeq(s, m, n) \in Seq(S)
<1>1. \A i \in m .. n : s[i] \in S
  BY LenProperties, ElementOfSeq
<1> QED
  BY <1>1, SubSeqProperties

\* Where strspn and strcspn stop.
LEMMA FirstIn ==
    ASSUME NEW n \in Nat, NEW i \in Nat \ {0}, NEW P \in SUBSET (i .. n)
    PROVE  /\ First(P, n + 1) \in P \cup {n + 1}
           /\ First(P, n + 1) <= n => First(P, n + 1) \in P
<1>1. CASE P = {}
  BY <1>1 DEF First
<1>2. CASE P # {}
  <2>0. P \subseteq Nat
    OBVIOUS
  <2>1. Min(P) \in P
    BY <1>2, <2>0, MinIn
  <2> QED BY <1>2, <2>1 DEF First
<1> QED
  BY <1>1, <1>2

\* What is left after a token.
After(s, i) ==
    LET end == StrCspn(s, StrSpn(s, i)) IN IF end <= Len(s) THEN end + 1 ELSE end

TokenFrom(s, g, i) ==
    IF StrSpn(s, i) > Len(s) THEN <<>>
    ELSE <<SubSeq(s, StrSpn(s, i), StrCspn(s, StrSpn(s, i)) - 1)>> \o g[After(s, i)]

IsTokens(s, g) == g = [i \in 1 .. Len(s) + 2 |-> TokenFrom(s, g, i)]

\* strtok_r makes progress.
LEMMA Progress ==
    ASSUME NEW S, NEW s \in Seq(S), NEW i \in 1 .. Len(s) + 2, ~(StrSpn(s, i) > Len(s))
    PROVE  /\ After(s, i) \in i + 1 .. Len(s) + 2
           /\ SubSeq(s, StrSpn(s, i), StrCspn(s, StrSpn(s, i)) - 1) \in Seq(S)
<1>0. Len(s) \in Nat
  BY LenProperties
<1> DEFINE P == {k \in i .. Len(s) : s[k] # Slash}
<1> DEFINE b == StrSpn(s, i)
<1>1. b \in i .. Len(s) /\ s[b] # Slash
  <2>1. b = First(P, Len(s) + 1)
    BY DEF StrSpn
  <2>0. P \in SUBSET (i .. Len(s)) /\ i \in Nat \ {0}
    BY <1>0
  <2>2. First(P, Len(s) + 1) \in P \cup {Len(s) + 1}
    <3> HIDE DEF P
    <3> QED BY <1>0, <2>0, FirstIn
  <2>3. ~(b > Len(s))
    OBVIOUS
  <2>4. b \in P \/ b = Len(s) + 1
    BY <2>1, <2>2
  <2> HIDE DEF b
  <2> QED BY <1>0, <2>3, <2>4
<1> HIDE DEF b
<1> DEFINE R == {k \in b .. Len(s) : s[k] = Slash}
<1> DEFINE e == StrCspn(s, b)
<1>2. e \in b + 1 .. Len(s) + 1
  <2>1. e = First(R, Len(s) + 1)
    BY DEF StrCspn
  <2>0. R \in SUBSET (b .. Len(s)) /\ b \in Nat \ {0}
    BY <1>0, <1>1
  <2>2. First(R, Len(s) + 1) \in R \cup {Len(s) + 1}
    <3> HIDE DEF R
    <3> QED BY <1>0, <2>0, FirstIn
  <2> HIDE DEF e
  <2>3. e \in b .. Len(s) + 1 /\ (e <= Len(s) => s[e] = Slash)
    BY <1>0, <1>1, <2>1, <2>2
  <2> QED BY <1>0, <1>1, <2>3
<1>3. After(s, i) = IF e <= Len(s) THEN e + 1 ELSE e
  BY DEF After, b
<1>4. SubSeq(s, StrSpn(s, i), StrCspn(s, StrSpn(s, i)) - 1) = SubSeq(s, b, e - 1)
  BY DEF b
<1> HIDE DEF e
<1>5. SubSeq(s, b, e - 1) \in Seq(S)
  BY <1>0, <1>1, <1>2, SubText
<1>6. After(s, i) \in i + 1 .. Len(s) + 2
  BY <1>0, <1>1, <1>2, <1>3
<1> QED
  BY <1>4, <1>5, <1>6

\* What a token loop finds depends on what is found after it.
LEMMA TokenLocal ==
    ASSUME NEW S, NEW s \in Seq(S), NEW i \in 1 .. Len(s) + 2, NEW g, NEW h,
           \A j \in i + 1 .. Len(s) + 2 : g[j] = h[j]
    PROVE  TokenFrom(s, g, i) = TokenFrom(s, h, i)
<1>1. CASE StrSpn(s, i) > Len(s)
  BY <1>1 DEF TokenFrom
<1>2. CASE ~(StrSpn(s, i) > Len(s))
  <2>1. g[After(s, i)] = h[After(s, i)]
    BY <1>2, Progress
  <2> QED BY <1>2, <2>1 DEF TokenFrom
<1> QED
  BY <1>1, <1>2

LEMMA TokensExist ==
    ASSUME NEW S, NEW s \in Seq(S)
    PROVE  \E g : IsTokens(s, g)
<1> DEFINE n == Len(s) + 2
<1> DEFINE Good(g, m) == \A i \in m .. n : g[i] = TokenFrom(s, g, i)
<1> DEFINE T == {d \in 0 .. n - 1 : ~ \E g : Good(g, n - d)}
<1>0. Len(s) \in Nat /\ n \in Nat /\ n >= 2
  BY LenProperties
<1>1. T = {}
  <2> SUFFICES ASSUME T # {} PROVE FALSE
    OBVIOUS
  <2>0. T \subseteq Nat
    BY <1>0
  <2>1. PICK d \in T : \A x \in T : d <= x
    <3> HIDE DEF T
    <3> QED BY <2>0, LeastExists
  <2>2. ~ \E g : Good(g, n - d)
    OBVIOUS
  <2> HIDE DEF T
  <2>3. d \in 0 .. n - 1
    BY DEF T
  <2>4. CASE d = 0
    <3> DEFINE g == [i \in {n} |-> TokenFrom(s, <<>>, n)]
    <3>1. \A j \in n + 1 .. Len(s) + 2 : g[j] = <<>>[j]
      BY <1>0
    <3>2. TokenFrom(s, g, n) = TokenFrom(s, <<>>, n)
      BY <1>0, <3>1, TokenLocal
    <3>3. g[n] = TokenFrom(s, <<>>, n)
      OBVIOUS
    <3> HIDE DEF g
    <3>4. Good(g, n - d)
      BY <1>0, <2>4, <3>2, <3>3
    <3> QED BY <2>2, <3>4
  <2>5. CASE d # 0
    <3> DEFINE m == n - d
    <3>1. d - 1 \in 0 .. n - 1 /\ m \in 1 .. n /\ n - (d - 1) = m + 1
      BY <1>0, <2>3, <2>5
    <3>2. d - 1 \notin T
      BY <1>0, <2>1, <2>3
    <3>3. PICK g : Good(g, m + 1)
      BY <3>1, <3>2 DEF T
    <3> DEFINE h == [i \in 1 .. n |-> IF i = m THEN TokenFrom(s, g, m) ELSE g[i]]
    <3> HIDE DEF m, n
    <3>4. \A i \in 1 .. n : h[i] = IF i = m THEN TokenFrom(s, g, m) ELSE g[i]
      OBVIOUS
    <3> HIDE DEF h
    <3>5. ASSUME NEW i \in m .. n PROVE h[i] = TokenFrom(s, h, i)
      <4>1. \A j \in i + 1 .. n : g[j] = h[j]
        BY <1>0, <3>1, <3>4
      <4>2. TokenFrom(s, g, i) = TokenFrom(s, h, i)
        BY <1>0, <3>1, <4>1, TokenLocal DEF n
      <4>3. h[i] = TokenFrom(s, g, i)
        <5>1. CASE i = m
          BY <1>0, <3>1, <3>4, <5>1
        <5>2. CASE i # m
          BY <1>0, <3>1, <3>3, <3>4, <5>2
        <5> QED BY <5>1, <5>2
      <4> QED BY <4>2, <4>3
    <3>6. Good(h, m)
      BY <3>5
    <3> QED BY <2>2, <3>6 DEF m
  <2> QED BY <2>4, <2>5
<1>2. PICK g : Good(g, 1)
  <2>1. n - 1 \in 0 .. n - 1 /\ n - (n - 1) = 1
    BY <1>0
  <2> QED BY <1>1, <2>1
<1> DEFINE h == [i \in 1 .. n |-> g[i]]
<1>3. \A i \in 1 .. n : h[i] = g[i]
  OBVIOUS
<1>4. \A i \in 1 .. n : h[i] = TokenFrom(s, h, i)
  <2> SUFFICES ASSUME NEW i \in 1 .. n PROVE h[i] = TokenFrom(s, h, i)
    OBVIOUS
  <2> HIDE DEF h
  <2>1. \A j \in i + 1 .. n : g[j] = h[j]
    BY <1>0, <1>3
  <2>2. TokenFrom(s, g, i) = TokenFrom(s, h, i)
    BY <1>0, <2>1, TokenLocal
  <2> QED BY <1>2, <1>3, <2>2
<1>5. h = [i \in 1 .. n |-> TokenFrom(s, h, i)]
  BY <1>4
<1> QED
  BY <1>5 DEF IsTokens

\* strtok_r finds a sequence of names.
LEMMA TokensType ==
    ASSUME NEW S, NEW s \in Seq(S)
    PROVE  Tokens(s) \in Seq(Seq(S))
<1>0. Len(s) \in Nat
  BY LenProperties
<1>1. PICK g : g = (CHOOSE x : IsTokens(s, x))
  OBVIOUS
<1>2. Tokens(s) = g[1]
  BY <1>1 DEF Tokens, IsTokens, TokenFrom, After
<1>3. IsTokens(s, g)
  BY <1>1, TokensExist
<1> DEFINE n == Len(s) + 2
<1> DEFINE T == {d \in 0 .. n - 1 : g[n - d] \notin Seq(Seq(S))}
<1>4. \A i \in 1 .. n : g[i] = TokenFrom(s, g, i)
  BY <1>3 DEF IsTokens
<1>5. T = {}
  <2> SUFFICES ASSUME T # {} PROVE FALSE
    OBVIOUS
  <2>0. T \subseteq Nat
    BY <1>0
  <2>1. PICK d \in T : \A x \in T : d <= x
    <3> HIDE DEF T
    <3> QED BY <2>0, LeastExists
  <2> DEFINE i == n - d
  <2>2. i \in 1 .. n /\ g[i] = TokenFrom(s, g, i) /\ g[i] \notin Seq(Seq(S))
    BY <1>0, <1>4
  <2> HIDE DEF T, i
  <2>3. CASE StrSpn(s, i) > Len(s)
    BY <2>2, <2>3 DEF TokenFrom
  <2>4. CASE ~(StrSpn(s, i) > Len(s))
    <3> DEFINE t == SubSeq(s, StrSpn(s, i), StrCspn(s, StrSpn(s, i)) - 1)
    <3> DEFINE a == After(s, i)
    <3>1. a \in i + 1 .. n /\ t \in Seq(S)
      BY <2>2, <2>4, Progress
    <3>2. g[i] = <<t>> \o g[a]
      BY <2>2, <2>4 DEF TokenFrom
    <3> HIDE DEF t, a
    <3>3. g[a] \in Seq(Seq(S))
      <4>2. d \in 0 .. n - 1
        BY DEF T
      <4>1. n - a \in 0 .. n - 1 /\ n - a < d /\ n - (n - a) = a
        BY <1>0, <2>2, <3>1, <4>2 DEF i
      <4>3. n - a \notin T
        BY <1>0, <2>1, <4>1, <4>2
      <4> QED BY <4>1, <4>3 DEF T
    <3>4. <<t>> \in Seq(Seq(S))
      BY <3>1
    <3> QED BY <2>2, <3>2, <3>3, <3>4, ConcatProperties
  <2> QED BY <2>3, <2>4
<1>6. g[1] \in Seq(Seq(S))
  <2>1. n - 1 \in 0 .. n - 1 /\ n - (n - 1) = 1
    BY <1>0
  <2> QED BY <1>5, <2>1
<1> QED
  BY <1>2, <1>6

\* What strdup, dirname and basename return.
LEMMA StrdupType ==
    ASSUME NEW S, NEW s \in Seq(S), Nul \in S, Stray \in S
    PROVE  Strdup(s) \in Seq(S)
<1>0. Len(s) \in Nat /\ \A k \in 1 .. Len(s) : s[k] \in S
  BY LenProperties, ElementOfSeq
<1> DEFINE n == Len(s) + 1
<1> DEFINE d == [k \in 1 .. n |-> Stray]
<1> DEFINE a == Strncpy(d, s, Len(s))
<1>1. a \in [1 .. n -> S]
  BY <1>0 DEF Strncpy
<1>2. a \in Seq(S) /\ Len(a) = n
  <2> HIDE DEF a
  <2>1. n \in Nat
    BY <1>0
  <2> HIDE DEF n
  <2>2. a \in Seq(S)
    BY <1>1, <2>1, SeqDef
  <2> QED BY <1>1, <2>1, <2>2, LenProperties
<1>3. Strdup(s) = CString(a)
  BY DEF Strdup
<1> HIDE DEF a
<1> DEFINE ends == {k \in DOMAIN a : a[k] = Nul}
<1>4. CASE ends = {}
  <2>1. CString(a) = Append(a, Stray)
    BY <1>4 DEF CString
  <2> QED BY <1>2, <1>3, <2>1, AppendProperties
<1>5. CASE ends # {}
  <2>1. CString(a) = SubSeq(a, 1, Min(ends) - 1)
    BY <1>5 DEF CString
  <2>2. ends \subseteq 1 .. n /\ ends \subseteq Nat
    BY <1>0, <1>2, LenProperties
  <2> HIDE DEF ends
  <2>3. Min(ends) \in 1 .. n
    BY <1>5, <2>2, MinIn
  <2>4. SubSeq(a, 1, Min(ends) - 1) \in Seq(S)
    BY <1>0, <1>2, <2>3, SubText
  <2> QED BY <1>3, <2>1, <2>4
<1> QED
  BY <1>4, <1>5

LEMMA LastSlashType ==
    ASSUME NEW S, NEW s \in Seq(S)
    PROVE  LastSlash(s) \in 0 .. Len(s)
<1>0. Len(s) \in Nat /\ DOMAIN s = 1 .. Len(s)
  BY LenProperties
<1> DEFINE at == {k \in DOMAIN s : s[k] = Slash}
<1>1. LastSlash(s) = IF at = {} THEN 0 ELSE Max(at)
  BY DEF LastSlash
<1>2. at \subseteq 1 .. Len(s)
  BY <1>0
<1> HIDE DEF at
<1>3. at # {} => Max(at) \in 1 .. Len(s)
  BY <1>0, <1>2, MaxIn
<1> QED
  BY <1>0, <1>1, <1>3

LEMMA DirnameType ==
    ASSUME NEW S, NEW s \in Seq(S), Nul \in S, Stray \in S, Slash \in S
    PROVE  Dirname(s) \in Seq(S)
<1>1. PICK d : d = Strdup(s)
  OBVIOUS
<1>2. d \in Seq(S)
  BY <1>1, StrdupType
<1>3. Len(d) \in Nat /\ DOMAIN d = 1 .. Len(d)
  BY <1>2, LenProperties
<1> DEFINE kept == {k \in DOMAIN d : d[k] # Slash}
<1>4. StripSlashes(d) = IF kept = {} THEN <<Slash>> ELSE SubSeq(d, 1, Max(kept))
  BY DEF StripSlashes
<1>5. kept \subseteq 1 .. Len(d)
  BY <1>3
<1>6. kept # {} => Max(kept) \in 1 .. Len(d)
  <2> HIDE DEF kept
  <2> QED BY <1>3, <1>5, MaxIn
<1> HIDE DEF kept
<1>7. <<Slash>> \in Seq(S)
  OBVIOUS
<1>8. PICK t : t = StripSlashes(d)
  OBVIOUS
<1>9. t \in Seq(S)
  <2>1. kept # {} => SubSeq(d, 1, Max(kept)) \in Seq(S)
    BY <1>2, <1>3, <1>6, SubText
  <2> QED BY <1>4, <1>7, <1>8, <2>1
<1>10. PICK p : p = LastSlash(t)
  OBVIOUS
<1>11. Dirname(s) = IF t = <<Slash>> \/ p <= 1 THEN <<Slash>> ELSE SubSeq(t, 1, p - 1)
  BY <1>1, <1>8, <1>10 DEF Dirname
<1>12. p \in 0 .. Len(t) /\ Len(t) \in Nat
  BY <1>9, <1>10, LastSlashType, LenProperties
<1>13. SubSeq(t, 1, p - 1) \in Seq(S)
  BY <1>9, <1>12, SubText
<1> QED
  BY <1>7, <1>11, <1>13

LEMMA BasenameType ==
    ASSUME NEW S, NEW s \in Seq(S)
    PROVE  Basename(s) \in Seq(S)
<1>1. LastSlash(s) + 1 \in Nat \ {0} /\ Len(s) \in Nat
  BY LastSlashType, LenProperties
<1> QED
  BY <1>1, SubText DEF Basename

-----------------------------------------------------------------------------
(* The walk.                                                               *)

Char   == {Slash, Nul, Stray} \cup Characters
Modes  == {"dir", "file", "blk"}
Inode  == [sb : Supers, ino : Nat, mode : Modes, size : Nat, mp : Seq(Nat), dev : BOOLEAN]
Entry  == [name : Seq(Char), ino : Nat]
OnDisk == [mode : Modes, size : Nat, data : Seq(Bytes \cup {Junk}), entries : Seq(Entry)]

\* initfs's table: the entries of its directories are inodes of the table,
\* and none is the root.
IsTable(t) ==
    /\ t = [next |-> t.next, nodes |-> t.nodes]
    /\ t.next \in Nat \ {0}
    /\ t.nodes \in [0 .. t.next - 1 -> OnDisk]
    /\ \A n \in 0 .. t.next - 1 : \A k \in DOMAIN t.nodes[n].entries :
         t.nodes[n].entries[k].ino \in 1 .. t.next - 1

Tables(f) ==
    /\ f.disk = [sb \in DOMAIN f.disk |-> f.disk[sb]]
    /\ \A sb \in DOMAIN f.disk : sb \in Supers /\ IsTable(f.disk[sb])

\* Every inode but the roots is in the cache.
Cached(f) ==
    /\ f.cache = [d \in DOMAIN f.cache |-> f.cache[d]]
    /\ \A d \in DOMAIN f.cache : f.cache[d] \in DOMAIN f.inodes
    /\ \A sb \in DOMAIN f.disk : \A n \in 1 .. f.disk[sb].next - 1 :
         [sb |-> sb, ino |-> n] \in DOMAIN f.cache

\* A struct inode stands for an inode of a table, and no other does.
Objects(f) ==
    /\ f.inodes \in Seq(Inode)
    /\ \A i \in DOMAIN f.inodes :
         /\ f.inodes[i].sb \in DOMAIN f.disk
         /\ f.inodes[i].ino \in 0 .. f.disk[f.inodes[i].sb].next - 1
         /\ \A k \in DOMAIN f.inodes[i].mp : f.inodes[i].mp[k] \in DOMAIN f.inodes
    /\ \A i, j \in DOMAIN f.inodes :
         f.inodes[i].sb = f.inodes[j].sb /\ f.inodes[i].ino = f.inodes[j].ino => i = j

Sound(f) ==
    /\ f = [inodes |-> f.inodes, disk |-> f.disk, cache |-> f.cache]
    /\ Tables(f) /\ Cached(f) /\ Objects(f)

Rooted(f) == Root \in DOMAIN f.inodes

\* A walk leaves the file system alone: it never misses the cache.
Found(f, w) ==
    /\ w = [fs |-> f, id |-> w.id, dentry |-> w.dentry]
    /\ w.id = None \/ w.id \in DOMAIN f.inodes
    /\ w.dentry = None \/ w.dentry \in DOMAIN f.cache

LEMMA LookupSound ==
    ASSUME NEW f, Sound(f), NEW i \in DOMAIN f.inodes, NEW name
    PROVE  Lookup(f, i, name) = None \/ Lookup(f, i, name) \in DOMAIN f.cache
<1>1. PICK o : o = f.inodes[i]
  OBVIOUS
<1>2. PICK t : t = f.disk[o.sb]
  OBVIOUS
<1>3. PICK e : e = t.nodes[o.ino].entries
  OBVIOUS
<1>4. o.sb \in DOMAIN f.disk /\ o.ino \in 0 .. t.next - 1
  BY <1>1, <1>2 DEF Sound, Objects
<1>5. IsTable(t)
  BY <1>2, <1>4 DEF Sound, Tables
<1>6. e \in Seq(Entry) /\ \A k \in DOMAIN e : e[k].ino \in 1 .. t.next - 1
  BY <1>3, <1>4, <1>5 DEF IsTable, OnDisk
<1> DEFINE at == {k \in DOMAIN e : e[k].name = name}
<1>7. Lookup(f, i, name) = IF at = {} THEN None ELSE [sb |-> o.sb, ino |-> e[Min(at)].ino]
  BY <1>1, <1>2, <1>3 DEF Lookup, EntriesOf, FirstMatch
<1>8. at \subseteq DOMAIN e /\ at \subseteq Nat
  BY <1>6, LenProperties
<1> HIDE DEF at
<1>9. at # {} => Min(at) \in DOMAIN e
  BY <1>8, MinIn
<1>10. at # {} => [sb |-> o.sb, ino |-> e[Min(at)].ino] \in DOMAIN f.cache
  BY <1>2, <1>4, <1>6, <1>9 DEF Sound, Cached
<1> QED
  BY <1>7, <1>10

LEMMA ResolveSound ==
    ASSUME NEW f, Sound(f), NEW d \in DOMAIN f.cache
    PROVE  /\ ResolveDentry(f, d) = [fs |-> f, id |-> f.cache[d], dentry |-> d]
           /\ f.cache[d] \in DOMAIN f.inodes
  BY DEF ResolveDentry, Sound, Cached

LEMMA MountpointSound ==
    ASSUME NEW f, Sound(f), NEW i \in DOMAIN f.inodes
    PROVE  ResolveMountpoint(f, i) \in DOMAIN f.inodes
<1>1. PICK m : m = f.inodes[i].mp
  OBVIOUS
<1>2. m \in Seq(Nat) /\ \A k \in DOMAIN m : m[k] \in DOMAIN f.inodes
  <2>1. f.inodes[i] \in Inode
    BY ElementOfSeq, LenProperties DEF Sound, Objects
  <2> QED BY <1>1, <2>1 DEF Sound, Objects, Inode
<1>3. m # <<>> => Head(m) = m[1] /\ 1 \in DOMAIN m
  BY <1>2
<1> QED
  BY <1>1, <1>2, <1>3 DEF ResolveMountpoint

LEMMA StepSound ==
    ASSUME NEW f, Sound(f), NEW w, Found(f, w), NEW name
    PROVE  Found(f, WalkStep(w, name))
<1>1. CASE w.id = None
  BY <1>1 DEF WalkStep
<1>2. CASE w.id # None
  <2>1. w.fs = f /\ w.id \in DOMAIN f.inodes
    BY <1>2 DEF Found
  <2>2. PICK d : d = Lookup(f, w.id, name)
    OBVIOUS
  <2>3. WalkStep(w, name) = WalkInto(f, d)
    BY <1>2, <2>1, <2>2 DEF WalkStep
  <2>4. CASE d = None
    BY <2>3, <2>4 DEF WalkInto, NotFound, Found
  <2>5. CASE d # None
    <3>1. d \in DOMAIN f.cache
      BY <2>1, <2>2, <2>5, LookupSound
    <3>2. PICK c : c = f.cache[d]
      OBVIOUS
    <3>3. ResolveDentry(f, d) = [fs |-> f, id |-> c, dentry |-> d] /\ c \in DOMAIN f.inodes
      BY <3>1, <3>2, ResolveSound
    <3>4. WalkInto(f, d) = [fs |-> f, id |-> ResolveMountpoint(f, c), dentry |-> d]
      BY <2>5, <3>3 DEF WalkInto, Enter
    <3>5. ResolveMountpoint(f, c) \in DOMAIN f.inodes
      BY <3>3, MountpointSound
    <3> QED BY <2>3, <3>1, <3>4, <3>5 DEF Found
  <2> QED BY <2>4, <2>5
<1> QED
  BY <1>1, <1>2

\* The inodes that the walk visits.
IsWalk(f, names, g) ==
    g = [k \in 0 .. Len(names) |-> IF k = 0 THEN AtRoot(f) ELSE WalkStep(g[k - 1], names[k])]

LEMMA WalkExists ==
    ASSUME NEW f, NEW S, NEW names \in Seq(S)
    PROVE  \E g : IsWalk(f, names, g)
<1> DEFINE n == Len(names)
<1> DEFINE Next1(g, k) == IF k = 0 THEN AtRoot(f) ELSE WalkStep(g[k - 1], names[k])
<1> DEFINE T == {m \in 0 .. n : ~ \E g : \A k \in 0 .. m : g[k] = Next1(g, k)}
<1>0. n \in Nat
  BY LenProperties
<1>1. T = {}
  <2> SUFFICES ASSUME T # {} PROVE FALSE
    OBVIOUS
  <2>0. T \subseteq Nat
    BY <1>0
  <2>1. PICK m \in T : \A x \in T : m <= x
    <3> HIDE DEF T
    <3> QED BY <2>0, LeastExists
  <2>2. m \in 0 .. n /\ ~ \E g : \A k \in 0 .. m : g[k] = Next1(g, k)
    OBVIOUS
  <2> HIDE DEF n
  <2>4. CASE m = 0
    <3> DEFINE g == [k \in {0} |-> AtRoot(f)]
    <3>1. \A k \in 0 .. m : g[k] = Next1(g, k)
      BY <2>4
    <3> QED BY <2>2, <3>1
  <2>5. CASE m # 0
    <3>1. m - 1 \in 0 .. n /\ m - 1 < m
      BY <1>0, <2>2, <2>5
    <3>2. m - 1 \notin T
      <4> HIDE DEF T
      <4> QED BY <1>0, <2>1, <2>2, <3>1
    <3>3. PICK g : \A k \in 0 .. m - 1 : g[k] = Next1(g, k)
      BY <3>1, <3>2
    <3> HIDE DEF T
    <3> DEFINE h == [k \in 0 .. m |-> IF k = m THEN WalkStep(g[m - 1], names[m]) ELSE g[k]]
    <3>4. \A k \in 0 .. m : h[k] = IF k = m THEN WalkStep(g[m - 1], names[m]) ELSE g[k]
      OBVIOUS
    <3> HIDE DEF h
    <3>5. ASSUME NEW k \in 0 .. m PROVE h[k] = Next1(h, k)
      <4>1. CASE k = 0
        BY <2>2, <2>5, <3>3, <3>4, <4>1
      <4>2. CASE k # 0
        <5>1. k - 1 \in 0 .. m /\ k - 1 # m
          BY <2>2, <4>2
        <5>2. h[k - 1] = g[k - 1]
          BY <3>4, <5>1
        <5>3. CASE k = m
          BY <3>4, <4>2, <5>2, <5>3
        <5>4. CASE k # m
          <6>1. k \in 0 .. m - 1
            BY <2>2, <5>4
          <6> QED BY <3>3, <3>4, <4>2, <5>2, <5>4, <6>1
        <5> QED BY <5>3, <5>4
      <4> QED BY <4>1, <4>2
    <3> QED BY <2>2, <3>5
  <2> QED BY <2>4, <2>5
<1>2. PICK g : \A k \in 0 .. n : g[k] = Next1(g, k)
  BY <1>0, <1>1
<1> DEFINE h == [k \in 0 .. n |-> g[k]]
<1>3. \A k \in 0 .. n : h[k] = g[k] /\ (k # 0 => h[k - 1] = g[k - 1])
  BY <1>0
<1>4. \A k \in 0 .. n : h[k] = Next1(h, k)
  <2> HIDE DEF h
  <2> QED BY <1>2, <1>3
<1>5. h = [k \in 0 .. n |-> Next1(h, k)]
  BY <1>4
<1> QED
  BY <1>5 DEF IsWalk

LEMMA WalkSound ==
    ASSUME NEW f, Sound(f), Rooted(f), NEW S, NEW names \in Seq(S)
    PROVE  Found(f, Walk(f, names))
<1>1. PICK g : g = (CHOOSE x : IsWalk(f, names, x))
  OBVIOUS
<1>2. Walk(f, names) = WalkEnd(g[Len(names)])
  BY <1>1 DEF Walk, IsWalk
<1>3. IsWalk(f, names, g)
  BY <1>1, WalkExists
<1> DEFINE n == Len(names)
<1>0. n \in Nat
  BY LenProperties
<1>4. \A k \in 0 .. n : g[k] = IF k = 0 THEN AtRoot(f) ELSE WalkStep(g[k - 1], names[k])
  BY <1>3 DEF IsWalk
<1> DEFINE T == {k \in 0 .. n : ~Found(f, g[k])}
<1>5. T = {}
  <2> SUFFICES ASSUME T # {} PROVE FALSE
    OBVIOUS
  <2>0. T \subseteq Nat
    BY <1>0
  <2>1. PICK m \in T : \A x \in T : m <= x
    <3> HIDE DEF T
    <3> QED BY <2>0, LeastExists
  <2>2. m \in 0 .. n /\ ~Found(f, g[m])
    OBVIOUS
  <2> HIDE DEF n
  <2>3. CASE m = 0
    BY <1>4, <2>2, <2>3 DEF AtRoot, Found, Rooted
  <2>4. CASE m # 0
    <3>1. m - 1 \in 0 .. n /\ m - 1 < m
      BY <1>0, <2>2, <2>4
    <3>2. m - 1 \notin T
      <4> HIDE DEF T
      <4> QED BY <1>0, <2>1, <2>2, <3>1
    <3>3. Found(f, g[m - 1])
      BY <3>1, <3>2
    <3> QED BY <1>4, <2>2, <2>4, <3>3, StepSound
  <2> QED BY <2>3, <2>4
<1>6. PICK w : w = g[n]
  OBVIOUS
<1>7. Found(f, w)
  BY <1>0, <1>5, <1>6
<1>8. CASE w.dentry = None
  BY <1>2, <1>6, <1>7, <1>8 DEF WalkEnd, NotFound, Found
<1>9. CASE w.dentry # None
  <2>1. w.dentry \in DOMAIN f.cache /\ w.fs = f
    BY <1>7, <1>9 DEF Found
  <2>2. WalkEnd(w) = [fs |-> f, id |-> f.cache[w.dentry], dentry |-> w.dentry]
        /\ f.cache[w.dentry] \in DOMAIN f.inodes
    BY <1>9, <2>1, ResolveSound DEF WalkEnd
  <2> QED BY <1>2, <1>6, <2>1, <2>2 DEF Found
<1> QED
  BY <1>8, <1>9

\* path_resolve, without O_CREAT, changes nothing.
LEMMA PathResolveSound ==
    ASSUME NEW f, Sound(f), Rooted(f), NEW S, NEW str \in Seq(S)
    PROVE  Found(f, PathResolve(f, str))
<1>1. CASE str = <<Slash>>
  BY <1>1 DEF PathResolve, AtRoot, Found, Rooted
<1>2. CASE str # <<Slash>>
  BY <1>2, TokensType, WalkSound DEF PathResolve
<1> QED
  BY <1>1, <1>2

-----------------------------------------------------------------------------
(* What changes a file system: a new inode, or new contents of an old one. *)

Node(f, i) == f.disk[f.inodes[i].sb].nodes[f.inodes[i].ino]

\* A new object, the last one, for a new and empty inode.
Grown(f, g) ==
    /\ Sound(g)
    /\ Len(g.inodes) = Len(f.inodes) + 1
    /\ \A i \in DOMAIN f.inodes :
         /\ g.inodes[i] = f.inodes[i]
         /\ Node(g, i).data = Node(f, i).data /\ Node(g, i).size = Node(f, i).size
    /\ LET n == Len(f.inodes) + 1 IN
         /\ g.inodes[n].size = 0 /\ Node(g, n).data = <<>> /\ Node(g, n).size = 0
         /\ g.disk[g.inodes[n].sb].next = g.inodes[n].ino + 1

\* The fields of an object and of an inode of a table.
LEMMA ObjectType ==
    ASSUME NEW f, Sound(f), NEW i \in DOMAIN f.inodes
    PROVE  /\ f.inodes[i] \in Inode /\ Node(f, i) \in OnDisk
           /\ f.inodes[i].sb \in DOMAIN f.disk /\ f.inodes[i].sb \in Supers
           /\ f.inodes[i].ino \in 0 .. f.disk[f.inodes[i].sb].next - 1
           /\ IsTable(f.disk[f.inodes[i].sb])
<1>1. f.inodes[i] \in Inode
  BY ElementOfSeq, LenProperties DEF Sound, Objects
<1>2. /\ f.inodes[i].sb \in DOMAIN f.disk
      /\ f.inodes[i].ino \in 0 .. f.disk[f.inodes[i].sb].next - 1
  BY DEF Sound, Objects
<1>3. IsTable(f.disk[f.inodes[i].sb]) /\ f.inodes[i].sb \in Supers
  BY <1>2 DEF Sound, Tables
<1>4. Node(f, i) \in OnDisk
  BY <1>2, <1>3 DEF Node, IsTable
<1> QED
  BY <1>1, <1>2, <1>3, <1>4

\* A change of objects and tables that keeps the keys.
LEMMA SoundKept ==
    ASSUME NEW f, Sound(f), NEW objects \in Seq(Inode), DOMAIN objects = DOMAIN f.inodes,
           \A i \in DOMAIN f.inodes :
               /\ objects[i].sb = f.inodes[i].sb /\ objects[i].ino = f.inodes[i].ino
               /\ \A k \in DOMAIN objects[i].mp : objects[i].mp[k] \in DOMAIN f.inodes,
           NEW disk, DOMAIN disk = DOMAIN f.disk, disk = [sb \in DOMAIN disk |-> disk[sb]],
           \A sb \in DOMAIN f.disk : IsTable(disk[sb]) /\ disk[sb].next = f.disk[sb].next
    PROVE  Sound([inodes |-> objects, disk |-> disk, cache |-> f.cache])
<1>0. PICK g : g = [inodes |-> objects, disk |-> disk, cache |-> f.cache]
  OBVIOUS
<1>1. g.inodes = objects /\ g.disk = disk /\ g.cache = f.cache
  BY <1>0
<1>2. Tables(g)
  BY <1>1 DEF Tables, Sound
<1>3. Cached(g)
  BY <1>1 DEF Cached, Sound
<1>4. Objects(g)
  BY <1>1 DEF Objects, Sound
<1> QED
  BY <1>0, <1>1, <1>2, <1>3, <1>4 DEF Sound

\* mount_fs: a new file system.
LEMMA MountedSound ==
    ASSUME NEW f, Sound(f), NEW sb \in Supers, sb \notin DOMAIN f.disk
    PROVE  /\ Grown(f, Mounted(f, sb))
           /\ Mounted(f, sb).inodes[Len(f.inodes) + 1].sb = sb
           /\ Mounted(f, sb).inodes[Len(f.inodes) + 1].ino = 0
<1> DEFINE l == Len(f.inodes) + 1
<1>0. f.inodes \in Seq(Inode) /\ Len(f.inodes) \in Nat /\ DOMAIN f.inodes = 1 .. Len(f.inodes)
  BY LenProperties DEF Sound, Objects
<1>1. PICK g : g = Mounted(f, sb)
  OBVIOUS
<1>2. PICK t : t = [next |-> 1, nodes |-> [ino \in {0} |-> NewRnode("dir")]]
  OBVIOUS
<1>3. PICK o : o = NewInode(sb, 0, "dir")
  OBVIOUS
<1>4. g = [inodes |-> Append(f.inodes, o), disk |-> Put(f.disk, sb, t), cache |-> f.cache]
  <2>1. g = [f EXCEPT !.disk = Put(f.disk, sb, t), !.inodes = Append(f.inodes, o)]
    BY <1>1, <1>2, <1>3 DEF Mounted
  <2>2. f = [inodes |-> f.inodes, disk |-> f.disk, cache |-> f.cache]
    BY DEF Sound
  <2> QED BY <2>1, <2>2
<1>5. o \in Inode /\ o.sb = sb /\ o.ino = 0 /\ o.size = 0 /\ o.mp = <<>>
  BY <1>3 DEF NewInode, Inode, Modes
<1>6. /\ IsTable(t) /\ t.next = 1 /\ t.nodes[0].data = <<>> /\ t.nodes[0].size = 0
  <2>1. NewRnode("dir") \in OnDisk /\ NewRnode("dir").entries = <<>>
        /\ NewRnode("dir").data = <<>> /\ NewRnode("dir").size = 0
    BY DEF NewRnode, OnDisk, Modes
  <2>2. 0 .. 1 - 1 = {0}
    OBVIOUS
  <2>3. t.nodes \in [{0} -> OnDisk] /\ t.nodes[0] = NewRnode("dir")
    BY <1>2, <2>1
  <2> QED BY <1>2, <2>1, <2>2, <2>3 DEF IsTable
<1>7. /\ g.inodes \in Seq(Inode) /\ Len(g.inodes) = l /\ g.inodes[l] = o
      /\ \A i \in DOMAIN f.inodes : g.inodes[i] = f.inodes[i]
      /\ DOMAIN g.inodes = 1 .. l /\ DOMAIN g.inodes = DOMAIN f.inodes \cup {l}
  <2>1. Append(f.inodes, o) \in Seq(Inode) /\ Len(Append(f.inodes, o)) = l
        /\ Append(f.inodes, o)[l] = o
        /\ \A i \in 1 .. Len(f.inodes) : Append(f.inodes, o)[i] = f.inodes[i]
    BY <1>0, <1>5, AppendProperties
  <2>2. DOMAIN Append(f.inodes, o) = 1 .. l
    BY <2>1, LenProperties
  <2> QED BY <1>0, <1>4, <2>1, <2>2
<1>8. /\ DOMAIN g.disk = DOMAIN f.disk \cup {sb} /\ g.disk[sb] = t
      /\ \A s \in DOMAIN f.disk : g.disk[s] = f.disk[s]
      /\ g.disk = [s \in DOMAIN g.disk |-> g.disk[s]] /\ g.cache = f.cache
  BY <1>4 DEF Put
<1>9. Tables(g)
  BY <1>6, <1>8 DEF Sound, Tables
<1>10. Cached(g)
  <2>1. \A d \in DOMAIN g.cache : g.cache[d] \in DOMAIN g.inodes
    BY <1>7, <1>8 DEF Sound, Cached
  <2>2. ASSUME NEW s \in DOMAIN g.disk, NEW n \in 1 .. g.disk[s].next - 1
        PROVE  [sb |-> s, ino |-> n] \in DOMAIN g.cache
    <3>1. CASE s = sb
      BY <1>6, <1>8, <2>2, <3>1
    <3>2. CASE s # sb
      BY <1>8, <2>2, <3>2 DEF Sound, Cached
    <3> QED BY <3>1, <3>2
  <2> QED BY <1>8, <2>1, <2>2 DEF Cached, Sound
<1>11. Objects(g)
  <2>1. ASSUME NEW i \in DOMAIN g.inodes
        PROVE  /\ g.inodes[i].sb \in DOMAIN g.disk
               /\ g.inodes[i].ino \in 0 .. g.disk[g.inodes[i].sb].next - 1
               /\ \A k \in DOMAIN g.inodes[i].mp : g.inodes[i].mp[k] \in DOMAIN g.inodes
    <3>1. CASE i = l
      BY <1>5, <1>6, <1>7, <1>8, <3>1
    <3>2. CASE i # l
      <4>1. i \in DOMAIN f.inodes
        BY <1>7, <3>2
      <4> QED BY <1>7, <1>8, <4>1 DEF Sound, Objects
    <3> QED BY <3>1, <3>2
  <2>2. \A i \in DOMAIN f.inodes : f.inodes[i].sb # sb
    BY DEF Sound, Objects
  <2>3. \A i, j \in DOMAIN g.inodes :
          g.inodes[i].sb = g.inodes[j].sb /\ g.inodes[i].ino = g.inodes[j].ino => i = j
    BY <1>5, <1>7, <2>2 DEF Sound, Objects
  <2> QED BY <1>7, <2>1, <2>3 DEF Objects
<1>12. Sound(g)
  BY <1>4, <1>8, <1>9, <1>10, <1>11 DEF Sound
<1>13. \A i \in DOMAIN f.inodes : Node(g, i) = Node(f, i)
  BY <1>7, <1>8 DEF Node, Sound, Objects
<1>14. /\ g.inodes[l].size = 0 /\ Node(g, l).data = <<>> /\ Node(g, l).size = 0
       /\ g.disk[g.inodes[l].sb].next = g.inodes[l].ino + 1
  BY <1>5, <1>6, <1>7, <1>8 DEF Node
<1>15. Grown(f, g)
  BY <1>7, <1>12, <1>13, <1>14 DEF Grown
<1> QED
  BY <1>1, <1>5, <1>7, <1>15

\* initfs_create and inode_insert_cache: a new inode in a directory.
LEMMA NewEntrySound ==
    ASSUME NEW f, Sound(f), NEW dir \in DOMAIN f.inodes, NEW name \in Seq(Char), NEW mode \in Modes
    PROVE  LET c == NewEntry(InitfsCreate(f, dir, name, mode))
           IN  /\ c = [fs |-> c.fs, id |-> Len(f.inodes) + 1, dentry |-> c.dentry, new |-> TRUE]
               /\ Grown(f, c.fs)
               /\ \E sb \in DOMAIN f.disk : /\ c.fs.inodes[Len(f.inodes) + 1].sb = sb
                                            /\ c.fs.inodes[Len(f.inodes) + 1].ino = f.disk[sb].next
<1> DEFINE l == Len(f.inodes) + 1
<1>0. f.inodes \in Seq(Inode) /\ Len(f.inodes) \in Nat /\ DOMAIN f.inodes = 1 .. Len(f.inodes)
  BY LenProperties DEF Sound, Objects
<1>1. PICK sb : sb = f.inodes[dir].sb
  OBVIOUS
<1>2. PICK at : at = f.inodes[dir].ino
  OBVIOUS
<1>3. PICK t : t = f.disk[sb]
  OBVIOUS
<1>4. PICK n : n = t.next
  OBVIOUS
<1>5. PICK e : e = <<[name |-> name, ino |-> n]>> \o t.nodes[at].entries
  OBVIOUS
<1>6. PICK o : o = NewInode(sb, n, mode)
  OBVIOUS
<1>7. PICK nodes : nodes = Put([t.nodes EXCEPT ![at].entries = e], n, NewRnode(mode))
  OBVIOUS
<1>8. PICK u : u = [next |-> n + 1, nodes |-> nodes]
  OBVIOUS
<1>9. PICK h : h = InitfsCreate(f, dir, name, mode)
  OBVIOUS
<1>10. PICK c : c = NewEntry(h)
  OBVIOUS
<1>11. /\ sb \in DOMAIN f.disk /\ sb \in Supers /\ at \in 0 .. n - 1 /\ n \in Nat \ {0}
       /\ t.nodes \in [0 .. n - 1 -> OnDisk]
       /\ \A m \in 0 .. n - 1 : \A k \in DOMAIN t.nodes[m].entries : t.nodes[m].entries[k].ino \in 1 .. n - 1
  BY <1>1, <1>2, <1>3, <1>4, ObjectType DEF IsTable
<1>12. h = [inodes |-> Append(f.inodes, o), disk |-> [f.disk EXCEPT ![sb] = u], cache |-> f.cache]
  <2>1. h = [f EXCEPT !.disk[sb] = u, !.inodes = Append(f.inodes, o)]
    BY <1>1, <1>2, <1>3, <1>4, <1>5, <1>6, <1>7, <1>8, <1>9 DEF InitfsCreate
  <2>2. f = [inodes |-> f.inodes, disk |-> f.disk, cache |-> f.cache]
    BY DEF Sound
  <2> QED BY <2>1, <2>2
<1>13. o \in Inode /\ o.sb = sb /\ o.ino = n /\ o.size = 0 /\ o.mp = <<>>
  BY <1>6, <1>11 DEF NewInode, Inode
<1>14. /\ h.inodes \in Seq(Inode) /\ Len(h.inodes) = l /\ h.inodes[l] = o
       /\ \A i \in DOMAIN f.inodes : h.inodes[i] = f.inodes[i]
       /\ DOMAIN h.inodes = 1 .. l /\ DOMAIN h.inodes = DOMAIN f.inodes \cup {l}
  <2>1. Append(f.inodes, o) \in Seq(Inode) /\ Len(Append(f.inodes, o)) = l
        /\ Append(f.inodes, o)[l] = o
        /\ \A i \in 1 .. Len(f.inodes) : Append(f.inodes, o)[i] = f.inodes[i]
    BY <1>0, <1>13, AppendProperties
  <2>2. DOMAIN Append(f.inodes, o) = 1 .. l
    BY <2>1, LenProperties
  <2> QED BY <1>0, <1>12, <2>1, <2>2
<1>15. PICK d : d = [sb |-> sb, ino |-> n]
  OBVIOUS
<1>16. /\ c.fs = [h EXCEPT !.cache = Put(f.cache, d, l)]
       /\ c = [fs |-> c.fs, id |-> l, dentry |-> d, new |-> TRUE]
  BY <1>10, <1>12, <1>13, <1>14, <1>15 DEF NewEntry, InsertCache
<1>17. PICK g : g = c.fs
  OBVIOUS
<1>18. /\ g = [inodes |-> h.inodes, disk |-> [f.disk EXCEPT ![sb] = u], cache |-> Put(f.cache, d, l)]
  BY <1>12, <1>16, <1>17
<1>19. /\ DOMAIN g.disk = DOMAIN f.disk /\ g.disk[sb] = u
       /\ \A s \in DOMAIN f.disk \ {sb} : g.disk[s] = f.disk[s]
       /\ g.disk = [s \in DOMAIN g.disk |-> g.disk[s]]
  <2>1. f.disk = [s \in DOMAIN f.disk |-> f.disk[s]]
    BY DEF Sound, Tables
  <2> QED BY <1>11, <1>18, <2>1
<1>20. /\ DOMAIN g.cache = DOMAIN f.cache \cup {d} /\ g.cache[d] = l
       /\ \A x \in DOMAIN f.cache \ {d} : g.cache[x] = f.cache[x]
       /\ g.cache = [x \in DOMAIN g.cache |-> g.cache[x]]
  BY <1>18 DEF Put
<1>21. /\ e \in Seq(Entry) /\ \A k \in DOMAIN e : e[k].ino \in 1 .. n
  <2>1. PICK old : old = t.nodes[at].entries
    OBVIOUS
  <2>2. old \in Seq(Entry) /\ \A k \in DOMAIN old : old[k].ino \in 1 .. n - 1
    BY <1>11, <2>1 DEF OnDisk
  <2>3. PICK x : x = <<[name |-> name, ino |-> n]>>
    OBVIOUS
  <2>4. x \in Seq(Entry) /\ Len(x) = 1 /\ x[1].ino = n
    BY <1>11, <2>3 DEF Entry
  <2>5. /\ x \o old \in Seq(Entry) /\ Len(x \o old) = 1 + Len(old)
        /\ \A i \in 1 .. 1 + Len(old) : (x \o old)[i] = IF i <= 1 THEN x[i] ELSE old[i - 1]
    <3>1. /\ x \o old \in Seq(Entry) /\ Len(x \o old) = Len(x) + Len(old)
          /\ \A i \in 1 .. Len(x) + Len(old) :
               (x \o old)[i] = IF i <= Len(x) THEN x[i] ELSE old[i - Len(x)]
      BY <2>2, <2>4, ConcatProperties
    <3> QED BY <2>4, <3>1
  <2>6. Len(old) \in Nat /\ DOMAIN old = 1 .. Len(old) /\ DOMAIN (x \o old) = 1 .. 1 + Len(old)
    BY <2>2, <2>5, LenProperties
  <2>7. ASSUME NEW k \in DOMAIN (x \o old) PROVE (x \o old)[k].ino \in 1 .. n
    <3>1. CASE k = 1
      BY <1>11, <2>4, <2>5, <2>6, <3>1
    <3>2. CASE k # 1
      <4>1. k - 1 \in DOMAIN old /\ (x \o old)[k] = old[k - 1]
        BY <2>5, <2>6, <3>2
      <4> QED BY <1>11, <2>2, <4>1
    <3> QED BY <3>1, <3>2
  <2> QED BY <1>5, <2>1, <2>3, <2>5, <2>7
<1>22. /\ nodes \in [0 .. n -> OnDisk] /\ nodes[n].data = <<>> /\ nodes[n].size = 0
       /\ nodes[n].entries = <<>>
       /\ nodes[at].entries = e /\ nodes[at].data = t.nodes[at].data
       /\ nodes[at].size = t.nodes[at].size
       /\ \A m \in (0 .. n - 1) \ {at} : nodes[m] = t.nodes[m]
  <2>1. PICK r : r = NewRnode(mode)
    OBVIOUS
  <2>2. r \in OnDisk /\ r.entries = <<>> /\ r.data = <<>> /\ r.size = 0
    BY <2>1 DEF NewRnode, OnDisk
  <2>3. PICK v : v = [t.nodes EXCEPT ![at].entries = e]
    OBVIOUS
  <2>4. t.nodes[at] \in OnDisk
    BY <1>11
  <2>5. PICK q : q = [t.nodes[at] EXCEPT !.entries = e]
    OBVIOUS
  <2>6. q \in OnDisk /\ q.entries = e /\ q.data = t.nodes[at].data /\ q.size = t.nodes[at].size
    BY <1>21, <2>4, <2>5 DEF OnDisk
  <2>7. v = [t.nodes EXCEPT ![at] = q]
    BY <2>3, <2>5
  <2>8. v \in [0 .. n - 1 -> OnDisk] /\ v[at] = q /\ \A m \in (0 .. n - 1) \ {at} : v[m] = t.nodes[m]
    BY <1>11, <2>6, <2>7
  <2>9. nodes = [k \in {n} \cup 0 .. n - 1 |-> IF k = n THEN r ELSE v[k]]
    BY <1>7, <2>1, <2>3, <2>8 DEF Put
  <2>10. {n} \cup 0 .. n - 1 = 0 .. n /\ n \notin 0 .. n - 1
    BY <1>11
  <2>11. nodes \in [0 .. n -> OnDisk] /\ nodes[n] = r /\ \A m \in 0 .. n - 1 : nodes[m] = v[m]
    BY <2>2, <2>8, <2>9, <2>10
  <2> QED BY <1>11, <2>2, <2>6, <2>8, <2>11
<1>23. IsTable(u) /\ u.next = n + 1
  <2>1. (n + 1) - 1 = n /\ n + 1 \in Nat \ {0}
    BY <1>11
  <2>2. ASSUME NEW m \in 0 .. n, NEW k \in DOMAIN nodes[m].entries
        PROVE  nodes[m].entries[k].ino \in 1 .. n
    <3>1. CASE m = n
      BY <1>22, <2>2, <3>1
    <3>2. CASE m = at
      BY <1>21, <1>22, <2>2, <3>2
    <3>3. CASE m # n /\ m # at
      <4>1. m \in (0 .. n - 1) \ {at} /\ nodes[m] = t.nodes[m]
        BY <1>11, <1>22, <3>3
      <4>2. t.nodes[m].entries[k].ino \in 1 .. n - 1
        BY <1>11, <2>2, <4>1
      <4> QED BY <1>11, <4>1, <4>2
    <3> QED BY <3>1, <3>2, <3>3
  <2> QED BY <1>8, <1>22, <2>1, <2>2 DEF IsTable
<1>24. Tables(g)
  <2>1. \A s \in DOMAIN g.disk : s \in Supers /\ IsTable(g.disk[s])
    BY <1>11, <1>19, <1>23 DEF Sound, Tables
  <2> QED BY <1>19, <2>1 DEF Tables
<1>25. Cached(g)
  <2>1. ASSUME NEW x \in DOMAIN g.cache PROVE g.cache[x] \in DOMAIN g.inodes
    BY <1>0, <1>14, <1>18, <1>20 DEF Sound, Cached
  <2>2. ASSUME NEW s \in DOMAIN g.disk, NEW m \in 1 .. g.disk[s].next - 1
        PROVE  [sb |-> s, ino |-> m] \in DOMAIN g.cache
    <3>1. CASE s = sb /\ m = n
      BY <1>15, <1>20, <3>1
    <3>2. CASE s = sb /\ m # n
      <4>1. m \in 1 .. f.disk[s].next - 1 /\ s \in DOMAIN f.disk
        BY <1>3, <1>4, <1>11, <1>19, <1>23, <3>2
      <4> QED BY <1>20, <4>1 DEF Sound, Cached
    <3>3. CASE s # sb
      BY <1>19, <1>20, <3>3 DEF Sound, Cached
    <3> QED BY <3>1, <3>2, <3>3
  <2> QED BY <1>20, <2>1, <2>2 DEF Cached
<1>26. \A i \in DOMAIN f.inodes : f.inodes[i].sb = sb => f.inodes[i].ino # n
  BY <1>3, <1>4, <1>11 DEF Sound, Objects
<1>27. Objects(g)
  <2>0. g.inodes = h.inodes
    BY <1>18
  <2>1. ASSUME NEW i \in DOMAIN g.inodes
        PROVE  /\ g.inodes[i].sb \in DOMAIN g.disk
               /\ g.inodes[i].ino \in 0 .. g.disk[g.inodes[i].sb].next - 1
               /\ \A k \in DOMAIN g.inodes[i].mp : g.inodes[i].mp[k] \in DOMAIN g.inodes
    <3>1. CASE i = l
      <4>1. g.inodes[i] = o /\ o.sb = sb /\ o.ino = n /\ o.mp = <<>>
        BY <1>13, <1>14, <2>0, <3>1
      <4>2. sb \in DOMAIN g.disk /\ g.disk[sb].next = n + 1
        BY <1>11, <1>19, <1>23
      <4>3. n \in 0 .. (n + 1) - 1
        BY <1>11
      <4> QED BY <4>1, <4>2, <4>3
    <3>2. CASE i # l
      <4>1. i \in DOMAIN f.inodes /\ g.inodes[i] = f.inodes[i]
        BY <1>14, <2>0, <3>2
      <4>2. /\ f.inodes[i].sb \in DOMAIN f.disk
            /\ f.inodes[i].ino \in 0 .. f.disk[f.inodes[i].sb].next - 1
            /\ \A k \in DOMAIN f.inodes[i].mp : f.inodes[i].mp[k] \in DOMAIN f.inodes
        BY <4>1 DEF Sound, Objects
      <4>3. CASE f.inodes[i].sb = sb
        <5>1. g.inodes[i].ino \in 0 .. n - 1
          BY <1>3, <1>4, <4>1, <4>2, <4>3
        <5>2. g.disk[g.inodes[i].sb].next - 1 = n
          BY <1>11, <1>19, <1>23, <4>1, <4>3
        <5>3. g.inodes[i].ino \in 0 .. g.disk[g.inodes[i].sb].next - 1
          BY <1>11, <5>1, <5>2
        <5>4. \A k \in DOMAIN g.inodes[i].mp : g.inodes[i].mp[k] \in DOMAIN g.inodes
          BY <1>14, <2>0, <4>1, <4>2
        <5> QED BY <1>11, <1>19, <4>1, <4>3, <5>3, <5>4
      <4>4. CASE f.inodes[i].sb # sb
        BY <1>14, <1>19, <2>0, <4>1, <4>2, <4>4
      <4> QED BY <4>3, <4>4
    <3> QED BY <3>1, <3>2
  <2>2. \A i, j \in DOMAIN g.inodes :
          g.inodes[i].sb = g.inodes[j].sb /\ g.inodes[i].ino = g.inodes[j].ino => i = j
    <3>1. /\ g.inodes[l].sb = sb /\ g.inodes[l].ino = n
          /\ \A i \in DOMAIN f.inodes : g.inodes[i] = f.inodes[i]
          /\ DOMAIN g.inodes = DOMAIN f.inodes \cup {l}
      BY <1>13, <1>14, <2>0
    <3>2. \A i, j \in DOMAIN f.inodes :
            f.inodes[i].sb = f.inodes[j].sb /\ f.inodes[i].ino = f.inodes[j].ino => i = j
      BY DEF Sound, Objects
    <3> QED BY <1>26, <3>1, <3>2
  <2> QED BY <1>14, <2>0, <2>1, <2>2 DEF Objects
<1>28. Sound(g)
  BY <1>18, <1>24, <1>25, <1>27 DEF Sound
<1>29. ASSUME NEW i \in DOMAIN f.inodes
       PROVE  Node(g, i).data = Node(f, i).data /\ Node(g, i).size = Node(f, i).size
  <2>0. g.inodes[i] = f.inodes[i]
    BY <1>14, <1>18
  <2>1. CASE f.inodes[i].sb = sb
    <3>1. f.inodes[i].ino \in 0 .. n - 1
      BY <1>3, <1>4, <2>1 DEF Sound, Objects
    <3>2. u.nodes = nodes
      BY <1>8
    <3>3. Node(g, i) = nodes[f.inodes[i].ino] /\ Node(f, i) = t.nodes[f.inodes[i].ino]
      BY <1>3, <1>19, <2>0, <2>1, <3>2 DEF Node
    <3> QED BY <1>22, <3>1, <3>3
  <2>2. CASE f.inodes[i].sb # sb
    BY <1>19, <2>0, <2>2 DEF Node, Sound, Objects
  <2> QED BY <2>1, <2>2
<1>30. /\ g.inodes[l].size = 0 /\ Node(g, l).data = <<>> /\ Node(g, l).size = 0
       /\ g.disk[g.inodes[l].sb].next = g.inodes[l].ino + 1
  <2>1. u.nodes = nodes
    BY <1>8
  <2> QED BY <1>13, <1>14, <1>18, <1>19, <1>22, <1>23, <2>1 DEF Node
<1>31. Grown(f, g)
  BY <1>14, <1>18, <1>28, <1>29, <1>30 DEF Grown
<1>32. g.inodes[l].sb = sb /\ g.inodes[l].ino = f.disk[sb].next
  BY <1>3, <1>4, <1>13, <1>14, <1>18
<1> QED
  BY <1>9, <1>10, <1>11, <1>16, <1>17, <1>31, <1>32

\* What path_resolve with O_CREAT returns: an inode it found or did not
\* find, or a new one.
Outcome(f, c) ==
    /\ c = [fs |-> c.fs, id |-> c.id, dentry |-> c.dentry, new |-> c.new]
    /\ \/ c.new = FALSE /\ c.fs = f /\ (c.id = None \/ c.id \in DOMAIN f.inodes)
       \/ /\ c.new = TRUE /\ Grown(f, c.fs) /\ c.id = Len(f.inodes) + 1
          /\ \E sb \in DOMAIN f.disk : /\ c.fs.inodes[c.id].sb = sb
                                       /\ c.fs.inodes[c.id].ino = f.disk[sb].next

LEMMA PathCreateSound ==
    ASSUME NEW f, Sound(f), Rooted(f), NEW str \in Seq(Char), str # <<>>, NEW mode \in Modes
    PROVE  Outcome(f, PathCreate(f, str, mode))
<1>1. CASE str = <<Slash>>
  <2>1. PathCreate(f, str, mode) = [fs |-> f, id |-> Root, dentry |-> None, new |-> FALSE]
    BY <1>1 DEF PathCreate, Opened, AtRoot
  <2> QED BY <2>1 DEF Outcome, Rooted
<1>2. CASE str # <<Slash>>
  <2>1. PICK s : s = PastRoot(str)
    OBVIOUS
  <2>2. s \in Seq(Char)
    BY <2>1, HeadTailProperties DEF PastRoot
  <2>3. PICK name : name = Basename(s)
    OBVIOUS
  <2>4. PICK dir : dir = PathResolve(f, Dirname(s))
    OBVIOUS
  <2>5. name \in Seq(Char) /\ Dirname(s) \in Seq(Char)
    BY <2>2, <2>3, BasenameType, DirnameType DEF Char
  <2>6. Found(f, dir)
    BY <2>4, <2>5, PathResolveSound
  <2>7. PICK c : c = PathCreate(f, str, mode)
    OBVIOUS
  <2>8. c = CreateIn(dir, name, mode)
    BY <1>2, <2>1, <2>3, <2>4, <2>7 DEF PathCreate
  <2>9. dir.fs = f
    BY <2>6 DEF Found
  <2>10. CASE dir.id = None \/ f.inodes[dir.id].mode # "dir"
    <3>1. c = [fs |-> f, id |-> None, dentry |-> None, new |-> FALSE]
      BY <2>8, <2>9, <2>10 DEF CreateIn, Opened, NotFound
    <3> QED BY <2>7, <3>1 DEF Outcome
  <2>11. CASE ~(dir.id = None \/ f.inodes[dir.id].mode # "dir")
    <3>1. dir.id \in DOMAIN f.inodes
      BY <2>6, <2>11 DEF Found
    <3>2. PICK old : old = Lookup(f, dir.id, name)
      OBVIOUS
    <3>3. c = CreateAt(dir, old, name, mode)
      BY <2>8, <2>9, <2>11, <3>2 DEF CreateIn
    <3>4. CASE old = None
      <4>1. c = NewEntry(InitfsCreate(f, dir.id, name, mode))
        BY <2>9, <3>3, <3>4 DEF CreateAt
      <4>2. /\ c = [fs |-> c.fs, id |-> Len(f.inodes) + 1, dentry |-> c.dentry, new |-> TRUE]
            /\ Grown(f, c.fs)
            /\ \E sb \in DOMAIN f.disk : /\ c.fs.inodes[Len(f.inodes) + 1].sb = sb
                                         /\ c.fs.inodes[Len(f.inodes) + 1].ino = f.disk[sb].next
        BY <2>5, <3>1, <4>1, NewEntrySound
      <4>3. c.id = Len(f.inodes) + 1 /\ c.new = TRUE
        BY <4>2
      <4> QED BY <2>7, <4>2, <4>3 DEF Outcome
    <3>5. CASE old # None
      <4>1. old \in DOMAIN f.cache
        BY <3>1, <3>2, <3>5, LookupSound
      <4>2. /\ ResolveDentry(f, old) = [fs |-> f, id |-> f.cache[old], dentry |-> old]
            /\ f.cache[old] \in DOMAIN f.inodes
        BY <4>1, ResolveSound
      <4>3. c = [fs |-> f, id |-> f.cache[old], dentry |-> None, new |-> FALSE]
        BY <2>9, <3>3, <3>5, <4>2 DEF CreateAt, Opened
      <4> QED BY <2>7, <4>2, <4>3 DEF Outcome
    <3> QED BY <3>4, <3>5
  <2> QED BY <2>10, <2>11
<1> QED
  BY <1>1, <1>2

-----------------------------------------------------------------------------
(* The invariant.                                                          *)

\* The contents of every inode that has an object, if files are only
\* appended to.
Kept(f, w) ==
    \A i \in DOMAIN f.inodes :
        LET k == <<f.inodes[i].sb, f.inodes[i].ino>> IN
        /\ k \in DOMAIN w
        /\ ~Overwrites => /\ Node(f, i).data = w[k]
                          /\ Node(f, i).size = Len(w[k])
                          /\ f.inodes[i].size = Len(w[k])

FileOn(f) == [inode : DOMAIN f.inodes, off : Nat]

VfsInv ==
    /\ Sound(fs) /\ Rooted(fs)
    /\ files \in Seq(FileOn(fs))
    /\ written = [k \in DOMAIN written |-> written[k]] /\ Kept(fs, written)
    /\ ~Overwrites => overrun # "write"

LEMMA GrownKept ==
    ASSUME NEW f, NEW g, NEW w, Sound(f), Grown(f, g), Kept(f, w)
    PROVE  LET n == Len(f.inodes) + 1
               k == <<g.inodes[n].sb, g.inodes[n].ino>>
           IN  /\ Kept(g, Put(w, k, <<>>))
               /\ DOMAIN g.inodes = DOMAIN f.inodes \cup {n} /\ n \notin DOMAIN f.inodes
<1> DEFINE n == Len(f.inodes) + 1
<1> DEFINE k == <<g.inodes[n].sb, g.inodes[n].ino>>
<1>1. Len(f.inodes) \in Nat /\ DOMAIN f.inodes = 1 .. Len(f.inodes)
  BY LenProperties DEF Sound, Objects
<1>2. /\ Sound(g) /\ Len(g.inodes) = n
      /\ \A i \in DOMAIN f.inodes :
           /\ g.inodes[i] = f.inodes[i]
           /\ Node(g, i).data = Node(f, i).data /\ Node(g, i).size = Node(f, i).size
      /\ g.inodes[n].size = 0 /\ Node(g, n).data = <<>> /\ Node(g, n).size = 0
  BY DEF Grown
<1>3. DOMAIN g.inodes = 1 .. n
  BY <1>2, LenProperties DEF Sound, Objects
<1>4. DOMAIN g.inodes = DOMAIN f.inodes \cup {n} /\ n \notin DOMAIN f.inodes
  BY <1>1, <1>3
<1>5. PICK v : v = Put(w, k, <<>>)
  OBVIOUS
<1>6. k \in DOMAIN v /\ v[k] = <<>> /\ \A x \in DOMAIN w \ {k} : x \in DOMAIN v /\ v[x] = w[x]
  BY <1>5 DEF Put
<1>7. ASSUME NEW i \in DOMAIN g.inodes, i # n
      PROVE  <<g.inodes[i].sb, g.inodes[i].ino>> # k
  BY <1>2, <1>4, <1>7 DEF Sound, Objects
<1>8. ASSUME NEW i \in DOMAIN g.inodes
      PROVE  LET x == <<g.inodes[i].sb, g.inodes[i].ino>> IN
             /\ x \in DOMAIN v
             /\ ~Overwrites => /\ Node(g, i).data = v[x] /\ Node(g, i).size = Len(v[x])
                               /\ g.inodes[i].size = Len(v[x])
  <2>1. CASE i = n
    <3>1. Len(v[k]) = 0
      BY <1>6
    <3> QED BY <1>2, <1>6, <2>1, <3>1
  <2>2. CASE i # n
    <3> DEFINE x == <<g.inodes[i].sb, g.inodes[i].ino>>
    <3>1. i \in DOMAIN f.inodes /\ g.inodes[i] = f.inodes[i]
      BY <1>2, <1>4, <2>2
    <3>2. /\ x \in DOMAIN w
          /\ ~Overwrites => /\ Node(f, i).data = w[x] /\ Node(f, i).size = Len(w[x])
                            /\ f.inodes[i].size = Len(w[x])
      BY <3>1 DEF Kept
    <3>3. x # k
      BY <1>7, <2>2
    <3> HIDE DEF k
    <3>4. x \in DOMAIN v /\ v[x] = w[x]
      BY <1>6, <3>2, <3>3
    <3> QED BY <1>2, <3>1, <3>2, <3>4
  <2> QED BY <2>1, <2>2
<1> QED
  BY <1>4, <1>5, <1>8 DEF Kept

\* A struct inode is changed, but stands for the same inode.
LEMMA Retouched ==
    ASSUME NEW f, NEW i \in DOMAIN f.inodes, NEW o \in Inode, Sound(f),
           o.sb = f.inodes[i].sb, o.ino = f.inodes[i].ino, o.size = f.inodes[i].size,
           \A k \in DOMAIN o.mp : o.mp[k] \in DOMAIN f.inodes,
           NEW g, g = [inodes |-> [f.inodes EXCEPT ![i] = o], disk |-> f.disk, cache |-> f.cache]
    PROVE  /\ Sound(g) /\ DOMAIN g.inodes = DOMAIN f.inodes
           /\ \A j \in DOMAIN f.inodes : /\ g.inodes[j].sb = f.inodes[j].sb
                                         /\ g.inodes[j].ino = f.inodes[j].ino
                                         /\ g.inodes[j].size = f.inodes[j].size
                                         /\ Node(g, j) = Node(f, j)
           /\ \A w : Kept(f, w) => Kept(g, w)
<1>1. f.inodes \in Seq(Inode)
  BY DEF Sound, Objects
<1>2. /\ g.inodes \in Seq(Inode) /\ DOMAIN g.inodes = DOMAIN f.inodes
      /\ \A j \in DOMAIN f.inodes : g.inodes[j] = IF j = i THEN o ELSE f.inodes[j]
  <2>1. [f.inodes EXCEPT ![i] = o] \in Seq(Inode)
    BY <1>1, ExceptSeq, LenProperties
  <2>2. f.inodes \in [DOMAIN f.inodes -> Inode]
    BY <1>1, LenProperties, ElementOfSeq
  <2> QED BY <2>1, <2>2
<1>3. \A j \in DOMAIN f.inodes : /\ g.inodes[j].sb = f.inodes[j].sb
                                 /\ g.inodes[j].ino = f.inodes[j].ino
                                 /\ g.inodes[j].size = f.inodes[j].size
                                 /\ \A k \in DOMAIN g.inodes[j].mp : g.inodes[j].mp[k] \in DOMAIN f.inodes
  BY <1>2 DEF Sound, Objects
<1>4. \A j \in DOMAIN f.inodes : Node(g, j) = Node(f, j)
  BY <1>3 DEF Node
<1>5. Sound(g)
  <2>1. PICK a : a = [f.inodes EXCEPT ![i] = o]
    OBVIOUS
  <2>2. g = [inodes |-> a, disk |-> f.disk, cache |-> f.cache] /\ g.inodes = a
    BY <2>1
  <2>3. f.disk = [sb \in DOMAIN f.disk |-> f.disk[sb]]
        /\ \A sb \in DOMAIN f.disk : IsTable(f.disk[sb])
    BY DEF Sound, Tables
  <2>4. a \in Seq(Inode) /\ DOMAIN a = DOMAIN f.inodes
    BY <1>2, <2>2
  <2>5. \A j \in DOMAIN f.inodes :
          /\ a[j].sb = f.inodes[j].sb /\ a[j].ino = f.inodes[j].ino
          /\ \A k \in DOMAIN a[j].mp : a[j].mp[k] \in DOMAIN f.inodes
    BY <1>3, <2>2
  <2>6. Sound([inodes |-> a, disk |-> f.disk, cache |-> f.cache])
    BY <2>3, <2>4, <2>5, SoundKept
  <2> QED BY <2>2, <2>6
<1>6. ASSUME NEW w, Kept(f, w) PROVE Kept(g, w)
  <2>1. SUFFICES ASSUME NEW j \in DOMAIN f.inodes
                 PROVE  LET k == <<g.inodes[j].sb, g.inodes[j].ino>> IN
                        /\ k \in DOMAIN w
                        /\ ~Overwrites => /\ Node(g, j).data = w[k]
                                          /\ Node(g, j).size = Len(w[k])
                                          /\ g.inodes[j].size = Len(w[k])
    BY <1>2 DEF Kept
  <2>2. PICK k : k = <<f.inodes[j].sb, f.inodes[j].ino>>
    OBVIOUS
  <2>3. <<g.inodes[j].sb, g.inodes[j].ino>> = k
    BY <1>3, <2>2
  <2>4. /\ k \in DOMAIN w
        /\ ~Overwrites => /\ Node(f, j).data = w[k] /\ Node(f, j).size = Len(w[k])
                          /\ f.inodes[j].size = Len(w[k])
    BY <1>6, <2>2 DEF Kept
  <2>5. Node(g, j) = Node(f, j) /\ g.inodes[j].size = f.inodes[j].size
    BY <1>3, <1>4
  <2> QED BY <2>3, <2>4, <2>5
<1> QED
  BY <1>2, <1>3, <1>4, <1>5, <1>6

-----------------------------------------------------------------------------
(* The steps.                                                              *)

\* An open file stays one when objects are added.
LEMMA FilesKept ==
    ASSUME NEW f, NEW g, NEW s \in Seq(FileOn(f)), DOMAIN f.inodes \subseteq DOMAIN g.inodes
    PROVE  s \in Seq(FileOn(g))
<1>1. \A k \in 1 .. Len(s) : s[k] \in FileOn(g)
  <2>1. FileOn(f) \subseteq FileOn(g)
    BY DEF FileOn
  <2>2. \A k \in 1 .. Len(s) : s[k] \in FileOn(f)
    BY ElementOfSeq
  <2> QED BY <2>1, <2>2
<1>2. Len(s) \in Nat /\ DOMAIN s = 1 .. Len(s)
  BY LenProperties
<1>3. s = [k \in 1 .. Len(s) |-> s[k]]
  BY <1>2, SeqDef
<1>4. s \in [1 .. Len(s) -> FileOn(g)]
  BY <1>1, <1>3
<1> QED
  BY <1>2, <1>4, SeqDef

\* The path strings callers use.
LEMMA PathType ==
    ASSUME NEW p \in Paths
    PROVE  p \in Seq(Char) /\ p # <<>>
<1>1. p \in Seq({Slash} \cup Characters) /\ p # <<>>
  BY VfsAssumption
<1>2. \A k \in 1 .. Len(p) : p[k] \in Char
  BY <1>1, ElementOfSeq DEF Char
<1>3. Len(p) \in Nat /\ p = [k \in 1 .. Len(p) |-> p[k]]
  BY <1>1, LenProperties, SeqDef
<1>4. p \in [1 .. Len(p) -> Char]
  BY <1>2, <1>3
<1> QED
  BY <1>1, <1>3, <1>4, SeqDef

\* What Created leaves, given what it was created in.
LEMMA NameCopiesAre ==
    ASSUME NEW str, NEW isNew
    PROVE  "write" \notin NameCopies(str, isNew)
  BY DEF NameCopies

LEMMA CreatedStep ==
    ASSUME NEW str, NEW c, VfsInv, Created(str, c), Sound(c.fs), Rooted(c.fs),
           files' \in Seq(FileOn(c.fs)),
           \/ c.new = FALSE /\ Kept(c.fs, written)
           \/ /\ c.new = TRUE /\ c.id \in DOMAIN c.fs.inodes
              /\ Kept(c.fs, Put(written, <<c.fs.inodes[c.id].sb, c.fs.inodes[c.id].ino>>, <<>>))
              /\ c.fs.disk[c.fs.inodes[c.id].sb].next = c.fs.inodes[c.id].ino + 1
    PROVE  VfsInv'
<1>1. fs' = c.fs
  BY DEF Created
<1>2. Sound(fs') /\ Rooted(fs') /\ files' \in Seq(FileOn(fs'))
  BY <1>1
<1>3. CASE c.new = FALSE
  <2>1. written' = written /\ overrun' \in NameCopies(str, c.new)
    BY <1>3 DEF Created
  <2>2. Kept(fs', written')
    BY <1>1, <1>3, <2>1
  <2>3. overrun' # "write"
    BY <2>1, NameCopiesAre
  <2>4. written' = [k \in DOMAIN written' |-> written'[k]]
    BY <2>1 DEF VfsInv
  <2> QED BY <1>2, <2>2, <2>3, <2>4 DEF VfsInv
<1>4. CASE c.new = TRUE
  <2>1. PICK o : o = c.fs.inodes[c.id]
    OBVIOUS
  <2>2. /\ written' = Put(written, <<o.sb, o.ino>>, <<>>)
        /\ overrun' = "table" \/ overrun' \in NameCopies(str, c.new)
    BY <1>4, <2>1 DEF Created
  <2>3. Kept(fs', written')
    BY <1>1, <1>4, <2>1, <2>2
  <2>4. written' = [k \in DOMAIN written' |-> written'[k]]
    BY <2>2 DEF Put
  <2>5. overrun' # "write"
    BY <2>2, NameCopiesAre
  <2> QED BY <1>2, <2>3, <2>4, <2>5 DEF VfsInv
<1> QED
  BY <1>3, <1>4

\* The same facts for what path_resolve with O_CREAT returns.
LEMMA OutcomeKept ==
    ASSUME NEW c, VfsInv, Outcome(fs, c)
    PROVE  /\ Sound(c.fs) /\ Rooted(c.fs) /\ DOMAIN fs.inodes \subseteq DOMAIN c.fs.inodes
           /\ c.id = None \/ c.id \in DOMAIN c.fs.inodes
           /\ \/ c.new = FALSE /\ Kept(c.fs, written)
              \/ /\ c.new = TRUE /\ c.id \in DOMAIN c.fs.inodes
                 /\ Kept(c.fs, Put(written, <<c.fs.inodes[c.id].sb, c.fs.inodes[c.id].ino>>, <<>>))
                 /\ c.fs.disk[c.fs.inodes[c.id].sb].next = c.fs.inodes[c.id].ino + 1
<1>1. Sound(fs) /\ Rooted(fs) /\ Kept(fs, written)
  BY DEF VfsInv
<1>2. CASE c.new = FALSE
  BY <1>1, <1>2 DEF Outcome
<1>3. CASE c.new = TRUE
  <2>1. Grown(fs, c.fs) /\ c.id = Len(fs.inodes) + 1
    BY <1>3 DEF Outcome
  <2>2. /\ Kept(c.fs, Put(written, <<c.fs.inodes[c.id].sb, c.fs.inodes[c.id].ino>>, <<>>))
        /\ DOMAIN c.fs.inodes = DOMAIN fs.inodes \cup {c.id}
    BY <1>1, <2>1, GrownKept
  <2>3. Sound(c.fs) /\ c.fs.disk[c.fs.inodes[c.id].sb].next = c.fs.inodes[c.id].ino + 1
    BY <2>1 DEF Grown
  <2> QED BY <1>1, <1>3, <2>2, <2>3 DEF Rooted
<1> QED
  BY <1>2, <1>3 DEF Outcome

LEMMA OpenCreateStep ==
    ASSUME VfsInv, NEW p \in Paths, NEW mode \in {"dir", "file"}, FileOpenCreate(p, mode)
    PROVE  VfsInv'
<1>1. PICK c : c = PathCreate(fs, p, mode)
  OBVIOUS
<1>2. FileOpened(c) /\ Created(p, c)
  BY <1>1 DEF FileOpenCreate, OpenCreated
<1>3. mode \in Modes /\ p \in Seq(Char) /\ p # <<>>
  BY PathType DEF Modes
<1>4. Outcome(fs, c)
  BY <1>1, <1>3, PathCreateSound DEF VfsInv
<1>5. /\ Sound(c.fs) /\ Rooted(c.fs) /\ DOMAIN fs.inodes \subseteq DOMAIN c.fs.inodes
      /\ c.id = None \/ c.id \in DOMAIN c.fs.inodes
      /\ \/ c.new = FALSE /\ Kept(c.fs, written)
         \/ /\ c.new = TRUE /\ c.id \in DOMAIN c.fs.inodes
            /\ Kept(c.fs, Put(written, <<c.fs.inodes[c.id].sb, c.fs.inodes[c.id].ino>>, <<>>))
            /\ c.fs.disk[c.fs.inodes[c.id].sb].next = c.fs.inodes[c.id].ino + 1
  BY <1>4, OutcomeKept
<1>6. files \in Seq(FileOn(c.fs))
  BY <1>5, FilesKept DEF VfsInv
<1>7. files' \in Seq(FileOn(c.fs))
  <2>1. CASE c.id = None \/ c.dentry = None
    BY <1>2, <1>6, <2>1 DEF FileOpened
  <2>2. CASE ~(c.id = None \/ c.dentry = None)
    <3>1. [inode |-> c.id, off |-> 0] \in FileOn(c.fs)
      BY <1>5, <2>2 DEF FileOn
    <3>2. files' = Append(files, [inode |-> c.id, off |-> 0])
      BY <1>2, <2>2 DEF FileOpened
    <3> QED BY <1>6, <3>1, <3>2, AppendProperties
  <2> QED BY <2>1, <2>2
<1> QED
  BY <1>2, <1>5, <1>7, CreatedStep

LEMMA OpenStep ==
    ASSUME VfsInv, NEW p \in Paths, FileOpen(p)
    PROVE  VfsInv'
<1>1. PICK r : r = PathResolve(fs, p)
  OBVIOUS
<1>2. /\ FileOpened(r) /\ fs' = r.fs
      /\ overrun' \in NameCopies(p, FALSE) /\ written' = written
  BY <1>1 DEF FileOpen, OpenFound
<1>3. Found(fs, r)
  BY <1>1, PathType, PathResolveSound DEF VfsInv
<1>4. fs' = fs /\ (r.id = None \/ r.id \in DOMAIN fs.inodes)
  BY <1>2, <1>3 DEF Found
<1>5. files' \in Seq(FileOn(fs'))
  <2>1. CASE r.id = None \/ r.dentry = None
    BY <1>2, <1>4, <2>1 DEF FileOpened, VfsInv
  <2>2. CASE ~(r.id = None \/ r.dentry = None)
    <3>1. [inode |-> r.id, off |-> 0] \in FileOn(fs)
      BY <1>4, <2>2 DEF FileOn
    <3>2. files' = Append(files, [inode |-> r.id, off |-> 0])
      BY <1>2, <2>2 DEF FileOpened
    <3>3. files' \in Seq(FileOn(fs))
      BY <3>1, <3>2, AppendProperties DEF VfsInv
    <3> QED BY <1>4, <3>3
  <2> QED BY <2>1, <2>2
<1>6. Sound(fs') /\ Rooted(fs') /\ Kept(fs', written') /\ written' = [k \in DOMAIN written' |-> written'[k]]
  BY <1>2, <1>4 DEF VfsInv
<1>7. overrun' # "write"
  BY <1>2, NameCopiesAre
<1> QED
  BY <1>5, <1>6, <1>7 DEF VfsInv

\* mknod and block_mount_inode.
LEMMA MknodStep ==
    ASSUME VfsInv, NEW p \in Paths, Mknod(p)
    PROVE  VfsInv'
<1>1. PICK c : c = PathCreate(fs, p, "blk")
  OBVIOUS
<1>2. PICK d : d = [c EXCEPT !.fs.inodes[c.id].mode = "blk", !.fs.inodes[c.id].dev = TRUE]
  OBVIOUS
<1>3. c.id # None /\ Created(p, d) /\ files' = files
  BY <1>1, <1>2 DEF Mknod, MakeDevice
<1>4. "blk" \in Modes /\ p \in Seq(Char) /\ p # <<>>
  BY PathType DEF Modes
<1>5. Outcome(fs, c)
  BY <1>1, <1>4, PathCreateSound DEF VfsInv
<1>6. /\ Sound(c.fs) /\ Rooted(c.fs) /\ DOMAIN fs.inodes \subseteq DOMAIN c.fs.inodes
      /\ c.id = None \/ c.id \in DOMAIN c.fs.inodes
      /\ \/ c.new = FALSE /\ Kept(c.fs, written)
         \/ /\ c.new = TRUE /\ c.id \in DOMAIN c.fs.inodes
            /\ Kept(c.fs, Put(written, <<c.fs.inodes[c.id].sb, c.fs.inodes[c.id].ino>>, <<>>))
            /\ c.fs.disk[c.fs.inodes[c.id].sb].next = c.fs.inodes[c.id].ino + 1
  BY <1>5, OutcomeKept
<1>7. PICK f : f = c.fs
  OBVIOUS
<1>8. PICK i : i = c.id
  OBVIOUS
<1>9. i \in DOMAIN f.inodes /\ Sound(f) /\ f.inodes[i] \in Inode
  BY <1>3, <1>6, <1>7, <1>8, ObjectType
<1>10. PICK o : o = [f.inodes[i] EXCEPT !.mode = "blk", !.dev = TRUE]
  OBVIOUS
<1>11. /\ o \in Inode /\ o.sb = f.inodes[i].sb /\ o.ino = f.inodes[i].ino
       /\ o.size = f.inodes[i].size /\ o.mp = f.inodes[i].mp
  BY <1>9, <1>10 DEF Inode, Modes
<1>12. PICK g : g = [inodes |-> [f.inodes EXCEPT ![i] = o], disk |-> f.disk, cache |-> f.cache]
  OBVIOUS
<1>13. d = [fs |-> g, id |-> i, dentry |-> c.dentry, new |-> c.new]
  <2>1. c = [fs |-> f, id |-> i, dentry |-> c.dentry, new |-> c.new]
    BY <1>5, <1>7, <1>8 DEF Outcome
  <2>2. f = [inodes |-> f.inodes, disk |-> f.disk, cache |-> f.cache]
    BY <1>9 DEF Sound
  <2>3. PICK a : a = [f.inodes[i] EXCEPT !.mode = "blk"]
    OBVIOUS
  <2>4. PICK h : h = [inodes |-> [f.inodes EXCEPT ![i] = a], disk |-> f.disk, cache |-> f.cache]
    OBVIOUS
  <2>5. [c EXCEPT !.fs.inodes[i].mode = "blk"] = [fs |-> h, id |-> i, dentry |-> c.dentry, new |-> c.new]
    <3>1. [f EXCEPT !.inodes[i].mode = "blk"] = h
      BY <2>2, <2>3, <2>4
    <3> QED BY <2>1, <3>1
  <2>6. PICK e : e = [fs |-> h, id |-> i, dentry |-> c.dentry, new |-> c.new]
    OBVIOUS
  <2>7. d = [e EXCEPT !.fs.inodes[i].dev = TRUE]
    BY <1>2, <1>8, <2>5, <2>6
  <2>8. h.inodes[i] = a /\ o = [a EXCEPT !.dev = TRUE]
    BY <1>9, <1>10, <2>3, <2>4
  <2>9. [h.inodes EXCEPT ![i].dev = TRUE] = [f.inodes EXCEPT ![i] = o]
    <3>1. [h.inodes EXCEPT ![i].dev = TRUE] = [h.inodes EXCEPT ![i] = o]
      BY <2>8
    <3>2. h.inodes = [f.inodes EXCEPT ![i] = a]
      BY <2>4
    <3> QED BY <3>1, <3>2
  <2>10. [h EXCEPT !.inodes[i].dev = TRUE] = g
    BY <1>12, <2>4, <2>9
  <2> QED BY <2>6, <2>7, <2>10
<1>14. \A k \in DOMAIN o.mp : o.mp[k] \in DOMAIN f.inodes
  BY <1>9, <1>11 DEF Sound, Objects
<1>15. /\ Sound(g) /\ DOMAIN g.inodes = DOMAIN f.inodes
       /\ g.inodes[i].sb = f.inodes[i].sb /\ g.inodes[i].ino = f.inodes[i].ino
       /\ \A w : Kept(f, w) => Kept(g, w)
  BY <1>9, <1>11, <1>12, <1>14, Retouched
<1>16. g.disk = f.disk
  BY <1>12
<1>17. Rooted(g) /\ files' \in Seq(FileOn(g))
  <2>1. DOMAIN fs.inodes \subseteq DOMAIN g.inodes
    BY <1>6, <1>7, <1>15
  <2> QED BY <1>3, <2>1, FilesKept DEF VfsInv, Rooted
<1>18. /\ d.fs = g /\ d.id = i /\ d.new = c.new
  BY <1>13
<1>19. \/ d.new = FALSE /\ Kept(d.fs, written)
       \/ /\ d.new = TRUE /\ d.id \in DOMAIN d.fs.inodes
          /\ Kept(d.fs, Put(written, <<d.fs.inodes[d.id].sb, d.fs.inodes[d.id].ino>>, <<>>))
          /\ d.fs.disk[d.fs.inodes[d.id].sb].next = d.fs.inodes[d.id].ino + 1
  <2>1. CASE c.new = FALSE
    BY <1>6, <1>7, <1>15, <1>18, <2>1
  <2>2. CASE c.new = TRUE
    <3>1. PICK w : w = Put(written, <<f.inodes[i].sb, f.inodes[i].ino>>, <<>>)
      OBVIOUS
    <3>2. Kept(f, w) /\ f.disk[f.inodes[i].sb].next = f.inodes[i].ino + 1
      BY <1>6, <1>7, <1>8, <2>2, <3>1
    <3>3. Kept(g, w)
      BY <1>15, <3>2
    <3>4. Put(written, <<g.inodes[i].sb, g.inodes[i].ino>>, <<>>) = w
      BY <1>15, <3>1
    <3> QED BY <1>9, <1>15, <1>16, <1>18, <2>2, <3>2, <3>3, <3>4
  <2> QED BY <1>6, <2>1, <2>2
<1> QED
  BY <1>3, <1>15, <1>17, <1>18, <1>19, CreatedStep

\* mount_fs.
LEMMA MountStep ==
    ASSUME VfsInv, NEW p \in Paths, NEW sb \in Supers, MountFs(p, sb)
    PROVE  VfsInv'
<1>1. PICK f : f = Mounted(fs, sb)
  OBVIOUS
<1>2. PICK r : r = PathResolve(f, p)
  OBVIOUS
<1>3. PICK n : n = Len(fs.inodes) + 1
  OBVIOUS
<1>4. /\ sb \notin DOMAIN fs.disk /\ r.id # None /\ fs' = MountOn(r, n)
      /\ written' = Put(written, <<sb, 0>>, <<>>) /\ files' = files
      /\ overrun' \in NameCopies(p, FALSE)
  BY <1>1, <1>2, <1>3 DEF MountFs, MountFound
<1>5. /\ Grown(fs, f) /\ f.inodes[n].sb = sb /\ f.inodes[n].ino = 0
  BY <1>1, <1>3, <1>4, MountedSound DEF VfsInv
<1>6. /\ Kept(f, written') /\ DOMAIN f.inodes = DOMAIN fs.inodes \cup {n}
  <2>1. /\ Kept(f, Put(written, <<f.inodes[n].sb, f.inodes[n].ino>>, <<>>))
        /\ DOMAIN f.inodes = DOMAIN fs.inodes \cup {n}
    BY <1>3, <1>5, GrownKept DEF VfsInv
  <2> QED BY <1>4, <1>5, <2>1
<1>7. Sound(f) /\ Rooted(f)
  BY <1>5, <1>6 DEF Grown, Rooted, VfsInv
<1>8. Found(f, r)
  BY <1>2, <1>7, PathType, PathResolveSound
<1>9. r.fs = f /\ r.id \in DOMAIN f.inodes
  BY <1>4, <1>8 DEF Found
<1>10. PICK i : i = r.id
  OBVIOUS
<1>11. PICK m : m = <<n>> \o f.inodes[i].mp
  OBVIOUS
<1>12. f.inodes[i] \in Inode /\ f.inodes[i].mp \in Seq(Nat)
       /\ \A k \in DOMAIN f.inodes[i].mp : f.inodes[i].mp[k] \in DOMAIN f.inodes
  <2>1. f.inodes[i] \in Inode
    BY <1>7, <1>9, <1>10, ObjectType
  <2> QED BY <1>7, <1>9, <1>10, <2>1 DEF Inode, Sound, Objects
<1>13. m \in Seq(Nat) /\ \A k \in DOMAIN m : m[k] \in DOMAIN f.inodes
  <2>1. PICK old : old = f.inodes[i].mp
    OBVIOUS
  <2>2. n \in Nat /\ n \in DOMAIN f.inodes
    <3>1. Len(fs.inodes) \in Nat
      BY LenProperties DEF VfsInv, Sound, Objects
    <3> QED BY <1>3, <1>6, <3>1
  <2>3. <<n>> \in Seq(Nat) /\ Len(<<n>>) = 1 /\ <<n>>[1] = n
    BY <2>2
  <2>4. /\ <<n>> \o old \in Seq(Nat) /\ Len(<<n>> \o old) = 1 + Len(old)
        /\ \A k \in 1 .. 1 + Len(old) : (<<n>> \o old)[k] = IF k <= 1 THEN <<n>>[k] ELSE old[k - 1]
    <3>1. PICK x : x = <<n>>
      OBVIOUS
    <3>2. x \in Seq(Nat) /\ Len(x) = 1
      BY <2>3, <3>1
    <3>3. /\ x \o old \in Seq(Nat) /\ Len(x \o old) = Len(x) + Len(old)
          /\ \A k \in 1 .. Len(x) + Len(old) :
               (x \o old)[k] = IF k <= Len(x) THEN x[k] ELSE old[k - Len(x)]
      BY <1>12, <2>1, <3>2, ConcatProperties
    <3> QED BY <3>1, <3>2, <3>3
  <2>5. Len(old) \in Nat /\ DOMAIN old = 1 .. Len(old) /\ DOMAIN m = 1 .. 1 + Len(old)
    BY <1>11, <1>12, <2>1, <2>4, LenProperties
  <2>6. ASSUME NEW k \in DOMAIN m PROVE m[k] \in DOMAIN f.inodes
    <3>1. CASE k = 1
      BY <1>11, <2>1, <2>2, <2>3, <2>4, <2>5, <3>1
    <3>2. CASE k # 1
      <4>1. k - 1 \in DOMAIN old /\ m[k] = old[k - 1]
        BY <1>11, <2>1, <2>4, <2>5, <3>2
      <4> QED BY <1>12, <2>1, <4>1
    <3> QED BY <3>1, <3>2
  <2> QED BY <1>11, <2>1, <2>4, <2>6
<1>14. PICK o : o = [f.inodes[i] EXCEPT !.mp = m]
  OBVIOUS
<1>15. /\ o \in Inode /\ o.sb = f.inodes[i].sb /\ o.ino = f.inodes[i].ino
       /\ o.size = f.inodes[i].size /\ o.mp = m
  BY <1>12, <1>13, <1>14 DEF Inode
<1>16. PICK g : g = [inodes |-> [f.inodes EXCEPT ![i] = o], disk |-> f.disk, cache |-> f.cache]
  OBVIOUS
<1>17. fs' = g
  <2>1. fs' = [f EXCEPT !.inodes[i].mp = m]
    BY <1>4, <1>9, <1>10, <1>11 DEF MountOn
  <2>2. f = [inodes |-> f.inodes, disk |-> f.disk, cache |-> f.cache]
    BY <1>7 DEF Sound
  <2>3. [f.inodes EXCEPT ![i].mp = m] = [f.inodes EXCEPT ![i] = o]
    BY <1>14
  <2> QED BY <1>16, <2>1, <2>2, <2>3
<1>18. Sound(g) /\ DOMAIN g.inodes = DOMAIN f.inodes /\ Kept(g, written')
  <2>1. i \in DOMAIN f.inodes /\ o \in Inode /\ Sound(f)
    BY <1>7, <1>9, <1>10, <1>15
  <2>2. \A k \in DOMAIN o.mp : o.mp[k] \in DOMAIN f.inodes
    BY <1>13, <1>15
  <2>3. o.sb = f.inodes[i].sb /\ o.ino = f.inodes[i].ino /\ o.size = f.inodes[i].size
    BY <1>15
  <2>4. /\ Sound(g) /\ DOMAIN g.inodes = DOMAIN f.inodes
        /\ \A w : Kept(f, w) => Kept(g, w)
    BY <1>16, <2>1, <2>2, <2>3, Retouched
  <2> QED BY <1>6, <2>4
<1>19. Rooted(g) /\ files' \in Seq(FileOn(g))
  <2>1. DOMAIN fs.inodes \subseteq DOMAIN g.inodes
    BY <1>6, <1>18
  <2> QED BY <1>4, <2>1, FilesKept DEF VfsInv, Rooted
<1>20. written' = [k \in DOMAIN written' |-> written'[k]]
  BY <1>4 DEF Put
<1>21. overrun' # "write"
  BY <1>4, NameCopiesAre
<1> QED
  BY <1>17, <1>18, <1>19, <1>20, <1>21 DEF VfsInv

\* Advance moves the offset of one file, and never back.
LEMMA AdvanceType ==
    ASSUME NEW f, files \in Seq(FileOn(f)), NEW h \in DOMAIN files, NEW n \in Int, Advance(h, n)
    PROVE  /\ files' \in Seq(FileOn(f)) /\ DOMAIN files' = DOMAIN files
           /\ files'[h].inode = files[h].inode
           /\ files'[h].off = files[h].off + (IF n > 0 THEN n ELSE 0)
<1>1. files[h] \in FileOn(f) /\ files \in [DOMAIN files -> FileOn(f)]
  BY LenProperties, ElementOfSeq
<1>2. PICK off : off = IF n > 0 THEN files[h].off + n ELSE files[h].off
  OBVIOUS
<1>3. files[h].off \in Nat /\ off \in Nat /\ off = files[h].off + (IF n > 0 THEN n ELSE 0)
  BY <1>1, <1>2 DEF FileOn
<1>4. PICK e : e = [files[h] EXCEPT !.off = off]
  OBVIOUS
<1>5. e \in FileOn(f) /\ e.inode = files[h].inode /\ e.off = off
  BY <1>1, <1>3, <1>4 DEF FileOn
<1>6. files' = [files EXCEPT ![h] = e]
  BY <1>2, <1>4 DEF Advance
<1>7. files' \in Seq(FileOn(f))
  BY <1>5, <1>6, ExceptSeq, LenProperties
<1> QED
  BY <1>1, <1>3, <1>5, <1>6, <1>7

\* file_read and file_pread.
LEMMA ReadStep ==
    ASSUME VfsInv, NEW h \in DOMAIN files, NEW n \in Reads, NEW advance \in BOOLEAN,
           FileRead(h, n, advance)
    PROVE  VfsInv'
<1>1. PICK i : i = files[h].inode
  OBVIOUS
<1>2. PICK off : off = files[h].off
  OBVIOUS
<1>3. PICK size : size = Node(fs, i).size
  OBVIOUS
<1>4. PICK c : c = IF n + off > size THEN size - off ELSE n + off
  OBVIOUS
<1>5. PICK a : a = IF advance THEN c ELSE 0
  OBVIOUS
<1>6. Rnode(i) = Node(fs, i)
  BY DEF Rnode, Node
<1>7. /\ overrun' \in {"no", "read"}
      /\ Advance(h, a) /\ fs' = fs /\ written' = written
  BY <1>1, <1>2, <1>3, <1>4, <1>5, <1>6 DEF FileRead, ReadCount
<1>8. i \in DOMAIN fs.inodes /\ off \in Nat
  <2>1. files[h] \in FileOn(fs)
    BY LenProperties, ElementOfSeq DEF VfsInv
  <2> QED BY <1>1, <1>2, <2>1 DEF FileOn
<1>9. size \in Nat
  BY <1>3, <1>8, ObjectType DEF VfsInv, OnDisk
<1>10. n \in Nat \ {0}
  BY VfsAssumption
<1>11. c \in Int /\ a \in Int
  BY <1>4, <1>5, <1>8, <1>9, <1>10
<1>12. files' \in Seq(FileOn(fs))
  BY <1>7, <1>11, AdvanceType DEF VfsInv
<1>13. Sound(fs') /\ Rooted(fs') /\ Kept(fs', written') /\ files' \in Seq(FileOn(fs'))
       /\ written' = [k \in DOMAIN written' |-> written'[k]]
  BY <1>7, <1>12 DEF VfsInv
<1>14. overrun' # "write"
  BY <1>7
<1> QED
  BY <1>13, <1>14 DEF VfsInv

\* What initfs_write leaves is an inode again.
LEMMA WriteType ==
    ASSUME NEW r \in OnDisk, NEW buf \in Writes, NEW off \in Nat
    PROVE  LET q == InitfsWrite(r, buf, off) IN
           /\ q \in OnDisk /\ q.entries = r.entries /\ q.size = r.size + Len(buf)
           /\ q.data = [k \in 1 .. off + Len(buf) |->
                          IF k > off THEN buf[k - off] ELSE IF k <= r.size THEN At(r.data, k) ELSE Junk]
<1>1. PICK q : q = InitfsWrite(r, buf, off)
  OBVIOUS
<1>2. PICK n : n = off + Len(buf)
  OBVIOUS
<1>3. PICK d : d = [k \in 1 .. n |->
                      IF k > off THEN buf[k - off] ELSE IF k <= r.size THEN At(r.data, k) ELSE Junk]
  OBVIOUS
<1>4. buf \in Seq(Bytes) /\ Len(buf) \in Nat
  BY VfsAssumption, LenProperties
<1>5. n \in Nat
  BY <1>2, <1>4
<1>6. ASSUME NEW k \in 1 .. n PROVE d[k] \in Bytes \cup {Junk}
  <2>1. CASE k > off
    <3>1. k - off \in 1 .. Len(buf)
      BY <1>2, <1>4, <2>1
    <3>2. buf[k - off] \in Bytes
      BY <1>4, <3>1, ElementOfSeq
    <3> QED BY <1>3, <2>1, <3>2
  <2>2. CASE ~(k > off) /\ k <= r.size
    <3>1. r.data \in Seq(Bytes \cup {Junk})
      BY DEF OnDisk
    <3>2. At(r.data, k) \in Bytes \cup {Junk}
      BY <3>1, LenProperties, ElementOfSeq DEF At
    <3> QED BY <1>3, <2>2, <3>2
  <2>3. CASE ~(k > off) /\ ~(k <= r.size)
    BY <1>3, <2>3
  <2> QED BY <2>1, <2>2, <2>3
<1>7. d \in Seq(Bytes \cup {Junk})
  <2>1. d \in [1 .. n -> Bytes \cup {Junk}]
    BY <1>3, <1>6
  <2> QED BY <1>5, <2>1, SeqDef
<1>8. q = [r EXCEPT !.data = d, !.size = r.size + Len(buf)]
  BY <1>1, <1>2, <1>3 DEF InitfsWrite, WriteTotal
<1>9. q \in OnDisk /\ q.entries = r.entries /\ q.size = r.size + Len(buf) /\ q.data = d
  <2>1. PICK z : z = r.size + Len(buf)
    OBVIOUS
  <2>2. z \in Nat
    BY <1>4, <2>1 DEF OnDisk
  <2>3. q = [r EXCEPT !.data = d, !.size = z]
    BY <1>8, <2>1
  <2>4. q \in OnDisk /\ q.entries = r.entries /\ q.size = z /\ q.data = d
    BY <1>7, <2>2, <2>3 DEF OnDisk
  <2> QED BY <2>1, <2>4
<1> QED
  BY <1>1, <1>2, <1>3, <1>9

\* An append leaves in initfs what the file should hold.
LEMMA AppendRight ==
    ASSUME NEW S, NEW w \in Seq(S), NEW buf \in Writes
    PROVE  LET new == Overwritten(w, buf, Len(w)) IN
           /\ Len(new) = Len(w) + Len(buf)
           /\ new = [k \in 1 .. Len(w) + Len(buf) |->
                       IF k > Len(w) THEN buf[k - Len(w)] ELSE IF k <= Len(w) THEN At(w, k) ELSE Junk]
<1>1. Len(w) \in Nat /\ Len(buf) \in Nat /\ Len(w) + Len(buf) \in Nat
  BY VfsAssumption, LenProperties
<1>2. PICK n : n = Len(w) + Len(buf)
  OBVIOUS
<1>3. (IF Len(w) + Len(buf) > Len(w) THEN Len(w) + Len(buf) ELSE Len(w)) = n
  BY <1>1, <1>2
<1>4. PICK new : new = Overwritten(w, buf, Len(w))
  OBVIOUS
<1>5. new = [k \in 1 .. n |-> IF k \in Len(w) + 1 .. n THEN buf[k - Len(w)] ELSE At(w, k)]
  BY <1>2, <1>3, <1>4 DEF Overwritten
<1>6. \A k \in 1 .. n : /\ k \in Len(w) + 1 .. n <=> k > Len(w)
                        /\ ~(k > Len(w)) => k <= Len(w)
  BY <1>1, <1>2
<1>7. new = [k \in 1 .. n |-> IF k > Len(w) THEN buf[k - Len(w)]
                              ELSE IF k <= Len(w) THEN At(w, k) ELSE Junk]
  BY <1>5, <1>6
<1>8. Len(new) = n
  <2>1. n \in Nat /\ DOMAIN new = 1 .. n
    BY <1>1, <1>2, <1>7
  <2>2. PICK T : T = {new[k] : k \in 1 .. n}
    OBVIOUS
  <2>3. new \in [1 .. n -> T]
    BY <1>7, <2>2
  <2>4. new \in Seq(T)
    BY <2>1, <2>3, SeqDef
  <2> QED BY <2>1, <2>4, LenProperties
<1> QED
  BY <1>2, <1>4, <1>7, <1>8

\* file_write and file_pwrite.
LEMMA WriteStep ==
    ASSUME VfsInv, NEW h \in DOMAIN files, NEW buf \in Writes, NEW advance \in BOOLEAN,
           FileWrite(h, buf, advance)
    PROVE  VfsInv'
<1>1. PICK i : i = files[h].inode
  OBVIOUS
<1>2. PICK o : o = fs.inodes[i]
  OBVIOUS
<1>3. PICK off : off = files[h].off
  OBVIOUS
<1>4. PICK r : r = Node(fs, i)
  OBVIOUS
<1>5. PICK q : q = InitfsWrite(r, buf, off)
  OBVIOUS
<1>6. PICK key : key = <<o.sb, o.ino>>
  OBVIOUS
<1>7. PICK w : w = written[key]
  OBVIOUS
<1>8. Sound(fs) /\ Kept(fs, written) /\ files \in Seq(FileOn(fs))
  BY DEF VfsInv
<1>9. i \in DOMAIN fs.inodes /\ off \in Nat
  <2>1. files[h] \in FileOn(fs)
    BY <1>8, LenProperties, ElementOfSeq
  <2> QED BY <1>1, <1>3, <2>1 DEF FileOn
<1>10. /\ o \in Inode /\ r \in OnDisk /\ o.sb \in DOMAIN fs.disk /\ o.sb \in Supers
       /\ o.ino \in 0 .. fs.disk[o.sb].next - 1 /\ IsTable(fs.disk[o.sb])
  BY <1>2, <1>4, <1>8, <1>9, ObjectType
<1>11. Len(buf) \in Nat
  BY VfsAssumption, LenProperties
<1>12. PICK t : t = fs.disk[o.sb]
  OBVIOUS
<1>13. PICK nodes : nodes = [t.nodes EXCEPT ![o.ino] = q]
  OBVIOUS
<1>14. PICK u : u = [next |-> t.next, nodes |-> nodes]
  OBVIOUS
<1>15. PICK p : p = [o EXCEPT !.size = o.size + Len(buf)]
  OBVIOUS
<1>16. PICK g : g = [inodes |-> [fs.inodes EXCEPT ![i] = p],
                     disk |-> [fs.disk EXCEPT ![o.sb] = u], cache |-> fs.cache]
  OBVIOUS
<1>17. r = t.nodes[o.ino]
  BY <1>2, <1>4, <1>12 DEF Node
<1>18. fs' = g
  <2>1. fs' = [fs EXCEPT !.disk[o.sb].nodes[o.ino] = q, !.inodes[i].size = o.size + Len(buf)]
    BY <1>1, <1>2, <1>3, <1>5, <1>12, <1>17 DEF FileWrite
  <2>2. fs = [inodes |-> fs.inodes, disk |-> fs.disk, cache |-> fs.cache]
    BY <1>8 DEF Sound
  <2>3. t = [next |-> t.next, nodes |-> t.nodes]
    BY <1>10, <1>12 DEF IsTable
  <2>4. [t EXCEPT !.nodes[o.ino] = q] = u
    BY <1>13, <1>14, <2>3
  <2>5. [fs.disk EXCEPT ![o.sb].nodes[o.ino] = q] = [fs.disk EXCEPT ![o.sb] = u]
    BY <1>12, <2>4
  <2>6. [fs.inodes EXCEPT ![i].size = o.size + Len(buf)] = [fs.inodes EXCEPT ![i] = p]
    BY <1>2, <1>15
  <2>7. PICK a : a = [inodes |-> fs.inodes, disk |-> [fs.disk EXCEPT ![o.sb] = u], cache |-> fs.cache]
    OBVIOUS
  <2>8. [fs EXCEPT !.disk[o.sb].nodes[o.ino] = q] = a
    BY <2>2, <2>5, <2>7
  <2>9. [a EXCEPT !.inodes[i].size = o.size + Len(buf)] = g
    BY <1>16, <2>6, <2>7
  <2>10. fs' = [a EXCEPT !.inodes[i].size = o.size + Len(buf)]
    BY <2>1, <2>8
  <2> QED BY <2>9, <2>10
<1>19. /\ q \in OnDisk /\ q.entries = r.entries /\ q.size = r.size + Len(buf)
       /\ q.data = [k \in 1 .. off + Len(buf) |->
                      IF k > off THEN buf[k - off] ELSE IF k <= r.size THEN At(r.data, k) ELSE Junk]
  BY <1>5, <1>9, <1>10, WriteType
<1>20. /\ nodes \in [0 .. t.next - 1 -> OnDisk] /\ nodes[o.ino] = q
       /\ \A n \in (0 .. t.next - 1) \ {o.ino} : nodes[n] = t.nodes[n]
  BY <1>10, <1>12, <1>13, <1>19 DEF IsTable
<1>21. IsTable(u) /\ u.next = t.next /\ u.nodes = nodes
  <2>1. ASSUME NEW n \in 0 .. t.next - 1, NEW k \in DOMAIN nodes[n].entries
        PROVE  nodes[n].entries[k].ino \in 1 .. t.next - 1
    <3>1. nodes[n].entries = t.nodes[n].entries
      BY <1>17, <1>19, <1>20
    <3> QED BY <1>10, <1>12, <2>1, <3>1 DEF IsTable
  <2>2. u = [next |-> u.next, nodes |-> u.nodes] /\ u.next = t.next /\ u.nodes = nodes
    BY <1>14
  <2>3. t.next \in Nat \ {0}
    BY <1>10, <1>12 DEF IsTable
  <2> QED BY <1>20, <2>1, <2>2, <2>3 DEF IsTable
<1>22. /\ p \in Inode /\ p.sb = o.sb /\ p.ino = o.ino /\ p.size = o.size + Len(buf) /\ p.mp = o.mp
  <2>1. PICK z : z = o.size + Len(buf)
    OBVIOUS
  <2>2. z \in Nat
    BY <1>10, <1>11, <2>1 DEF Inode
  <2>3. p = [o EXCEPT !.size = z]
    BY <1>15, <2>1
  <2>4. p \in Inode /\ p.sb = o.sb /\ p.ino = o.ino /\ p.size = z /\ p.mp = o.mp
    BY <1>10, <2>2, <2>3 DEF Inode
  <2> QED BY <2>1, <2>4
<1>23. /\ g.inodes \in Seq(Inode) /\ DOMAIN g.inodes = DOMAIN fs.inodes
       /\ g.inodes[i] = p /\ \A j \in DOMAIN fs.inodes \ {i} : g.inodes[j] = fs.inodes[j]
  <2>1. fs.inodes \in Seq(Inode)
    BY <1>8 DEF Sound, Objects
  <2>2. [fs.inodes EXCEPT ![i] = p] \in Seq(Inode)
    BY <1>9, <1>22, <2>1, ExceptSeq, LenProperties
  <2>3. fs.inodes \in [DOMAIN fs.inodes -> Inode]
    BY <2>1, LenProperties, ElementOfSeq
  <2> QED BY <1>9, <1>16, <2>2, <2>3
<1>24. /\ DOMAIN g.disk = DOMAIN fs.disk /\ g.disk[o.sb] = u
       /\ \A sb \in DOMAIN fs.disk \ {o.sb} : g.disk[sb] = fs.disk[sb]
       /\ g.disk = [sb \in DOMAIN g.disk |-> g.disk[sb]]
  <2>1. fs.disk = [sb \in DOMAIN fs.disk |-> fs.disk[sb]]
    BY <1>8 DEF Sound, Tables
  <2> QED BY <1>10, <1>16, <2>1
<1>25. Sound(g)
  <2>1. \A j \in DOMAIN fs.inodes :
          /\ g.inodes[j].sb = fs.inodes[j].sb /\ g.inodes[j].ino = fs.inodes[j].ino
          /\ \A k \in DOMAIN g.inodes[j].mp : g.inodes[j].mp[k] \in DOMAIN fs.inodes
    BY <1>2, <1>8, <1>22, <1>23 DEF Sound, Objects
  <2>2. \A sb \in DOMAIN fs.disk : IsTable(g.disk[sb]) /\ g.disk[sb].next = fs.disk[sb].next
    BY <1>8, <1>12, <1>21, <1>24 DEF Sound, Tables
  <2>3. g = [inodes |-> g.inodes, disk |-> g.disk, cache |-> fs.cache]
    BY <1>16
  <2>4. Sound([inodes |-> g.inodes, disk |-> g.disk, cache |-> fs.cache])
    BY <1>8, <1>23, <1>24, <2>1, <2>2, SoundKept
  <2> QED BY <2>3, <2>4
<1>26. /\ key \in DOMAIN written
       /\ ~Overwrites => r.data = w /\ r.size = Len(w) /\ o.size = Len(w)
  BY <1>2, <1>4, <1>6, <1>7, <1>8, <1>9 DEF Kept
<1>27. PICK new : new = Overwritten(w, buf, off)
  OBVIOUS
<1>28. written' = [written EXCEPT ![key] = new] /\ (~Overwrites => off = Len(w))
  BY <1>1, <1>2, <1>3, <1>6, <1>7, <1>27 DEF FileWrite, Key
<1>29. /\ DOMAIN written' = DOMAIN written /\ written'[key] = new
       /\ \A k \in DOMAIN written \ {key} : written'[k] = written[k]
       /\ written' = [k \in DOMAIN written' |-> written'[k]]
  BY <1>26, <1>28 DEF VfsInv
<1>30. ~Overwrites => q.data = new /\ q.size = Len(new) /\ p.size = Len(new)
  <2>1. SUFFICES ASSUME ~Overwrites PROVE q.data = new /\ q.size = Len(new) /\ p.size = Len(new)
    OBVIOUS
  <2>2. w \in Seq(Bytes \cup {Junk}) /\ off = Len(w) /\ r.data = w /\ r.size = Len(w) /\ o.size = Len(w)
    BY <1>10, <1>26, <1>28, <2>1 DEF OnDisk
  <2>3. /\ Len(new) = Len(w) + Len(buf)
        /\ new = [k \in 1 .. Len(w) + Len(buf) |->
                    IF k > Len(w) THEN buf[k - Len(w)] ELSE IF k <= Len(w) THEN At(w, k) ELSE Junk]
    BY <1>27, <2>2, AppendRight
  <2> QED BY <1>19, <1>22, <2>2, <2>3
<1>31. Node(g, i) = q
  BY <1>20, <1>21, <1>22, <1>23, <1>24 DEF Node
<1>32. ASSUME NEW j \in DOMAIN fs.inodes, j # i
       PROVE  /\ Node(g, j) = Node(fs, j) /\ g.inodes[j] = fs.inodes[j]
              /\ <<fs.inodes[j].sb, fs.inodes[j].ino>> # key
  <2>1. g.inodes[j] = fs.inodes[j]
    BY <1>23, <1>32
  <2>2. ~(fs.inodes[j].sb = o.sb /\ fs.inodes[j].ino = o.ino)
    BY <1>2, <1>8, <1>9, <1>32 DEF Sound, Objects
  <2>3. /\ fs.inodes[j].sb \in DOMAIN fs.disk
        /\ fs.inodes[j].ino \in 0 .. fs.disk[fs.inodes[j].sb].next - 1
    BY <1>8 DEF Sound, Objects
  <2>4. CASE fs.inodes[j].sb = o.sb
    <3>1. fs.inodes[j].ino \in (0 .. t.next - 1) \ {o.ino}
      BY <1>12, <2>2, <2>3, <2>4
    <3>2. PICK n : n = fs.inodes[j].ino
      OBVIOUS
    <3>3. Node(g, j) = nodes[n] /\ Node(fs, j) = t.nodes[n]
      BY <1>12, <1>21, <1>24, <2>1, <2>4, <3>2 DEF Node
    <3>4. nodes[n] = t.nodes[n]
      BY <1>20, <3>1, <3>2
    <3>5. <<fs.inodes[j].sb, fs.inodes[j].ino>> # key
      BY <1>6, <2>2
    <3> QED BY <2>1, <3>3, <3>4, <3>5
  <2>5. CASE fs.inodes[j].sb # o.sb
    BY <1>6, <1>24, <2>1, <2>3, <2>5 DEF Node
  <2> QED BY <2>4, <2>5
<1>33. Kept(g, written')
  <2>1. SUFFICES ASSUME NEW j \in DOMAIN fs.inodes
                 PROVE  LET k == <<g.inodes[j].sb, g.inodes[j].ino>> IN
                        /\ k \in DOMAIN written'
                        /\ ~Overwrites => /\ Node(g, j).data = written'[k]
                                          /\ Node(g, j).size = Len(written'[k])
                                          /\ g.inodes[j].size = Len(written'[k])
    BY <1>23 DEF Kept
  <2>2. PICK k : k = <<g.inodes[j].sb, g.inodes[j].ino>>
    OBVIOUS
  <2>3. CASE j = i
    <3>1. k = key
      BY <1>6, <1>22, <1>23, <2>2, <2>3
    <3> QED BY <1>23, <1>26, <1>29, <1>30, <1>31, <2>2, <2>3, <3>1
  <2>4. CASE j # i
    <3>1. Node(g, j) = Node(fs, j) /\ g.inodes[j] = fs.inodes[j] /\ k # key
      BY <1>32, <2>2, <2>4
    <3>2. /\ k \in DOMAIN written
          /\ ~Overwrites => /\ Node(fs, j).data = written[k] /\ Node(fs, j).size = Len(written[k])
                            /\ fs.inodes[j].size = Len(written[k])
      BY <1>8, <2>2, <3>1 DEF Kept
    <3>3. k \in DOMAIN written' /\ written'[k] = written[k]
      BY <1>29, <3>1, <3>2
    <3> QED BY <2>2, <3>1, <3>2, <3>3
  <2> QED BY <2>3, <2>4
<1>34. ~Overwrites => overrun' # "write"
  <2>1. SUFFICES ASSUME ~Overwrites PROVE overrun' # "write"
    OBVIOUS
  <2>2. off = Len(w) /\ r.size = Len(w)
    BY <1>26, <1>28, <2>1
  <2>3. ~(r.size > off + Len(buf)) /\ ~(off + Len(buf) > off + Len(buf))
    BY <1>9, <1>11, <2>2
  <2>4. Rnode(i) = r
    BY <1>4 DEF Rnode, Node
  <2>5. overrun' = IF \/ r.data # <<>> /\ r.size > off + Len(buf)
                      \/ off + Len(buf) > off + Len(buf)
                   THEN "write" ELSE "no"
    BY <1>1, <1>3, <2>4 DEF FileWrite, WriteTotal
  <2> QED BY <2>3, <2>5
<1>35. files' \in Seq(FileOn(g))
  <2>1. PICK a : a = IF advance THEN Len(buf) ELSE 0
    OBVIOUS
  <2>2. Advance(h, a)
    BY <2>1 DEF FileWrite
  <2>3. a \in Int
    BY <1>11, <2>1
  <2>4. files' \in Seq(FileOn(fs))
    BY <1>8, <2>2, <2>3, AdvanceType
  <2> QED BY <1>23, <2>4, FilesKept
<1>36. Rooted(g)
  BY <1>23 DEF Rooted, VfsInv
<1> QED
  BY <1>18, <1>25, <1>29, <1>33, <1>34, <1>35, <1>36 DEF VfsInv

\* rootfs_init: the root file system, and /dev in it.
LEMMA InitSound ==
    Init => VfsInv
<1>1. SUFFICES ASSUME Init PROVE VfsInv
  OBVIOUS
<1>2. PICK e : e = [inodes |-> <<>>, disk |-> <<>>, cache |-> <<>>]
  OBVIOUS
<1>3. PICK f : f = Mounted(e, RootSb)
  OBVIOUS
<1>4. PICK str : str = <<Slash>> \o Dev
  OBVIOUS
<1>5. PICK c : c = PathCreate(f, str, "dir")
  OBVIOUS
<1>6. /\ fs = c.fs /\ files = <<>> /\ overrun = "no"
      /\ written = [k \in {<<RootSb, 0>>, <<RootSb, 1>>} |-> <<>>]
  BY <1>1, <1>2, <1>3, <1>4, <1>5 DEF Init
<1>7. /\ e.inodes \in Seq(Inode) /\ DOMAIN e.inodes = {} /\ Len(e.inodes) = 0
      /\ DOMAIN e.disk = {} /\ DOMAIN e.cache = {}
      /\ e.disk = [x \in DOMAIN e.disk |-> e.disk[x]]
      /\ e.cache = [x \in DOMAIN e.cache |-> e.cache[x]]
  BY <1>2
<1>8. Sound(e)
  <2>1. Tables(e) /\ Cached(e)
    BY <1>7 DEF Tables, Cached
  <2>2. Objects(e)
    BY <1>7 DEF Objects
  <2> QED BY <1>2, <2>1, <2>2 DEF Sound
<1>9. /\ Grown(e, f) /\ f.inodes[1].sb = RootSb /\ f.inodes[1].ino = 0
  <2>1. Len(e.inodes) + 1 = 1 /\ RootSb \in Supers /\ RootSb \notin DOMAIN e.disk
    BY <1>7, VfsAssumption
  <2> QED BY <1>3, <1>8, <2>1, MountedSound
<1>10. PICK v : v = written
  OBVIOUS
<1>11. /\ Put(v, <<RootSb, 0>>, <<>>) = v
       /\ Put(v, <<RootSb, 1>>, <<>>) = v
       /\ v = [k \in DOMAIN v |-> v[k]]
  <2>1. PICK a : a = <<RootSb, 0>>
    OBVIOUS
  <2>2. PICK b : b = <<RootSb, 1>>
    OBVIOUS
  <2>3. v = [k \in {a, b} |-> <<>>]
    BY <1>6, <1>10, <2>1, <2>2
  <2>4. {a} \cup DOMAIN v = DOMAIN v /\ {b} \cup DOMAIN v = DOMAIN v /\ DOMAIN v = {a, b}
    BY <2>3
  <2>5. Put(v, a, <<>>) = v /\ Put(v, b, <<>>) = v /\ v = [k \in DOMAIN v |-> v[k]]
    BY <2>3, <2>4 DEF Put
  <2> QED BY <2>1, <2>2, <2>5
<1>12. Kept(f, v) /\ DOMAIN f.inodes = {1}
  <2>1. Kept(e, v)
    BY <1>7 DEF Kept
  <2>2. Len(e.inodes) + 1 = 1
    BY <1>7
  <2>3. /\ Kept(f, Put(v, <<f.inodes[1].sb, f.inodes[1].ino>>, <<>>))
        /\ DOMAIN f.inodes = DOMAIN e.inodes \cup {1}
    BY <1>8, <1>9, <2>1, <2>2, GrownKept
  <2> QED BY <1>7, <1>9, <1>11, <2>3
<1>13. Sound(f) /\ Rooted(f) /\ Len(f.inodes) = 1
  <2>1. Sound(f) /\ Len(f.inodes) = Len(e.inodes) + 1
    BY <1>9 DEF Grown
  <2> QED BY <1>7, <1>12, <2>1 DEF Rooted, Root
<1>14. DOMAIN f.disk = {RootSb} /\ f.disk[RootSb].next = 1
  <2>1. PICK t : t = [next |-> 1, nodes |-> [ino \in {0} |-> NewRnode("dir")]]
    OBVIOUS
  <2>2. f.disk = Put(e.disk, RootSb, t)
    BY <1>2, <1>3, <2>1 DEF Mounted
  <2> QED BY <1>7, <2>1, <2>2 DEF Put
<1>15. str \in Seq(Char) /\ str # <<>>
  <2>1. Dev \in Seq(Characters)
    BY VfsAssumption
  <2>2. \A k \in 1 .. Len(Dev) : Dev[k] \in Char
    BY <2>1, ElementOfSeq DEF Char
  <2>3. Len(Dev) \in Nat /\ Dev = [k \in 1 .. Len(Dev) |-> Dev[k]]
    BY <2>1, LenProperties, SeqDef
  <2>4. Dev \in [1 .. Len(Dev) -> Char]
    BY <2>2, <2>3
  <2>5. Dev \in Seq(Char)
    BY <2>3, <2>4, SeqDef
  <2>6. PICK x : x = <<Slash>>
    OBVIOUS
  <2>7. x \in Seq(Char) /\ Len(x) = 1
    <3>1. Slash \in Char
      BY DEF Char
    <3>2. <<Slash>> \in Seq(Char)
      BY <3>1
    <3>3. Len(<<Slash>>) = 1
      OBVIOUS
    <3> QED BY <2>6, <3>2, <3>3
  <2>8. x \o Dev \in Seq(Char) /\ Len(x \o Dev) = 1 + Len(Dev)
    <3>1. x \in Seq(Char)
      BY <2>7
    <3>2. x \o Dev \in Seq(Char) /\ Len(x \o Dev) = Len(x) + Len(Dev)
      BY <2>5, <3>1, ConcatProperties
    <3> QED BY <2>7, <3>2
  <2>9. Len(x \o Dev) # 0
    BY <2>3, <2>8
  <2>10. Len(<<>>) = 0
    OBVIOUS
  <2> QED BY <1>4, <2>6, <2>8, <2>9, <2>10
<1>16. Outcome(f, c)
  BY <1>5, <1>13, <1>15, PathCreateSound DEF Modes
<1>17. Sound(c.fs) /\ Rooted(c.fs) /\ Kept(c.fs, v)
  <2>1. CASE c.new = FALSE
    BY <1>12, <1>13, <1>16, <2>1 DEF Outcome
  <2>2. CASE c.new = TRUE
    <3>1. Grown(f, c.fs) /\ c.id = 2 /\ c.fs.inodes[2].sb = RootSb /\ c.fs.inodes[2].ino = 1
      BY <1>13, <1>14, <1>16, <2>2 DEF Outcome
    <3>2. /\ Kept(c.fs, Put(v, <<c.fs.inodes[2].sb, c.fs.inodes[2].ino>>, <<>>))
          /\ DOMAIN c.fs.inodes = DOMAIN f.inodes \cup {2}
      <4>1. Len(f.inodes) + 1 = 2
        BY <1>13
      <4> QED BY <1>12, <1>13, <3>1, <4>1, GrownKept
    <3>3. Kept(c.fs, v)
      BY <1>11, <3>1, <3>2
    <3>4. Sound(c.fs)
      BY <3>1 DEF Grown
    <3>5. Rooted(c.fs)
      BY <1>12, <3>2 DEF Rooted, Root
    <3> QED BY <3>3, <3>4, <3>5
  <2> QED BY <1>16, <2>1, <2>2 DEF Outcome
<1>18. files \in Seq(FileOn(fs)) /\ overrun # "write"
  BY <1>6
<1> QED
  BY <1>6, <1>10, <1>11, <1>17, <1>18 DEF VfsInv

LEMMA NextSound ==
    VfsInv /\ [Next]_vars => VfsInv'
<1>1. SUFFICES ASSUME VfsInv, [Next]_vars PROVE VfsInv'
  OBVIOUS
<1>2. ASSUME NEW p \in Paths, FileOpen(p) PROVE VfsInv'
  BY <1>1, <1>2, OpenStep
<1>3. ASSUME NEW p \in Paths, Mknod(p) PROVE VfsInv'
  BY <1>1, <1>3, MknodStep
<1>4. ASSUME NEW p \in Paths, NEW mode \in {"dir", "file"}, FileOpenCreate(p, mode) PROVE VfsInv'
  BY <1>1, <1>4, OpenCreateStep
<1>5. ASSUME NEW p \in Paths, NEW sb \in Supers, MountFs(p, sb) PROVE VfsInv'
  BY <1>1, <1>5, MountStep
<1>6. ASSUME NEW h \in DOMAIN files, NEW advance \in BOOLEAN, NEW n \in Reads, FileRead(h, n, advance)
      PROVE  VfsInv'
  BY <1>1, <1>6, ReadStep
<1>7. ASSUME NEW h \in DOMAIN files, NEW advance \in BOOLEAN, NEW buf \in Writes,
             FileWrite(h, buf, advance)
      PROVE  VfsInv'
  BY <1>1, <1>7, WriteStep
<1>8. CASE UNCHANGED vars
  BY <1>1, <1>8 DEF vars, VfsInv
<1> QED
  BY <1>1, <1>2, <1>3, <1>4, <1>5, <1>6, <1>7, <1>8 DEF Next

LEMMA InvariantHolds ==
    Spec => []VfsInv
  BY InitSound, NextSound, PTL DEF Spec

-----------------------------------------------------------------------------
(* The theorems.                                                           *)

\* There is never a second struct inode for an inode of initfs: the walk of
\* path_resolve never misses the cache that inode_insert_cache fills, so
\* inode_resolve_dentry never makes one.  This holds for every set of names and
\* paths up to the first copy outside its memory: a name of DENTRY_NAME_MAX - 1
\* characters or more, which would change d_ino, ends the behaviour.
THEOREM OneObjectAlways ==
    Spec => []OneObjectPerInode
<1>1. VfsInv => OneObjectPerInode
  BY DEF VfsInv, Sound, Objects, OneObjectPerInode
<1> QED
  BY <1>1, InvariantHolds, PTL

\* While files are only appended to, initfs_write keeps every file's bytes and
\* both copies of its size right, and stays inside the buffer it allocated.
\* (A full table, a name that does not fit and a read from inside a file may
\* still overrun theirs.)
THEOREM ContentsAlwaysKept ==
    Spec => []ContentsKept
<1>1. ASSUME VfsInv PROVE ContentsKept
  <2>1. SUFFICES ASSUME ~Overwrites, NEW i \in DOMAIN fs.inodes
                 PROVE  LET w == written[Key(i)] IN
                        /\ Rnode(i).data = w /\ Rnode(i).size = Len(w)
                        /\ fs.inodes[i].size = Len(w)
    BY <1>1 DEF ContentsKept, VfsInv
  <2>2. Kept(fs, written)
    BY <1>1 DEF VfsInv
  <2> QED BY <2>1, <2>2 DEF Kept, Key, Rnode, Node
<1> QED
  BY <1>1, InvariantHolds, PTL

\* While files are only appended to, what initfs_read returns from the start
\* of a file, or up to its end, is what was written there.
THEOREM ReadsAlwaysRight ==
    Spec => []ReadRight
<1>1. ASSUME VfsInv PROVE ReadRight
  <2>1. SUFFICES ASSUME ~Overwrites, NEW h \in DOMAIN files, NEW n \in Reads
                 PROVE  LET off == files[h].off
                            w   == written[Key(files[h].inode)]
                            e   == IF off + n > Len(w) THEN Len(w) ELSE off + n
                        IN  off <= Len(w) /\ (off = 0 \/ off + n > Len(w)) =>
                              InitfsRead(Rnode(files[h].inode), n, off) = SubSeq(w, off + 1, e)
    BY DEF ReadRight
  <2>2. PICK i : i = files[h].inode
    OBVIOUS
  <2>3. PICK off : off = files[h].off
    OBVIOUS
  <2>4. PICK r : r = Rnode(i)
    OBVIOUS
  <2>5. PICK w : w = written[Key(i)]
    OBVIOUS
  <2>6. i \in DOMAIN fs.inodes /\ off \in Nat
    <3>1. files[h] \in FileOn(fs)
      BY <1>1, LenProperties, ElementOfSeq DEF VfsInv
    <3> QED BY <2>2, <2>3, <3>1 DEF FileOn
  <2>7. r.data = w /\ r.size = Len(w) /\ r \in OnDisk
    <3>1. r = Node(fs, i)
      BY <2>4 DEF Rnode, Node
    <3>2. Sound(fs) /\ Kept(fs, written)
      BY <1>1 DEF VfsInv
    <3> QED BY <2>1, <2>5, <2>6, <3>1, <3>2, ObjectType DEF Kept, Key
  <2>8. w \in Seq(Bytes \cup {Junk}) /\ Len(w) \in Nat /\ DOMAIN w = 1 .. Len(w)
    BY <2>7, LenProperties DEF OnDisk
  <2>9. n \in Nat \ {0}
    BY VfsAssumption
  <2>10. PICK e : e = IF off + n > Len(w) THEN Len(w) ELSE off + n
    OBVIOUS
  <2>11. SUFFICES ASSUME off <= Len(w), off = 0 \/ off + n > Len(w)
                  PROVE  InitfsRead(r, n, off) = SubSeq(w, off + 1, e)
    BY <2>2, <2>3, <2>4, <2>5, <2>10
  <2>12. e \in Nat /\ e <= Len(w) /\ off <= e /\ ReadCount(r, n, off) = e - off
    BY <2>6, <2>7, <2>8, <2>9, <2>10, <2>11 DEF ReadCount
  <2>13. PICK s : s = SubSeq(w, off + 1, e)
    OBVIOUS
  <2>14. /\ s \in Seq(Bytes \cup {Junk}) /\ Len(s) = e - off
         /\ \A k \in 1 .. e - off : s[k] = w[off + k]
    <3>1. \A k \in off + 1 .. e : w[k] \in Bytes \cup {Junk}
      BY <2>6, <2>8, <2>12, ElementOfSeq
    <3>2. off + 1 \in Int /\ e \in Int /\ e - (off + 1) + 1 = e - off
      BY <2>6, <2>12
    <3>3. /\ s \in Seq(Bytes \cup {Junk})
          /\ Len(s) = IF off + 1 <= e THEN e - (off + 1) + 1 ELSE 0
          /\ \A k \in 1 .. e - (off + 1) + 1 : s[k] = w[off + 1 + k - 1]
      BY <2>13, <3>1, <3>2, SubSeqProperties
    <3>4. \A k \in 1 .. e - off : off + 1 + k - 1 = off + k
      BY <2>6, <2>12
    <3>5. (IF off + 1 <= e THEN e - (off + 1) + 1 ELSE 0) = e - off
      BY <2>6, <2>12
    <3> QED BY <3>2, <3>3, <3>4, <3>5
  <2>15. s = [k \in 1 .. e - off |-> s[k]]
    BY <2>14, LenProperties, SeqDef
  <2>16. InitfsRead(r, n, off) = [k \in 1 .. e - off |-> w[off + k]]
    <3>1. \A k \in 1 .. e - off : off + k \in DOMAIN w
      BY <2>6, <2>8, <2>12
    <3> QED BY <2>7, <2>12, <3>1 DEF InitfsRead, At
  <2> QED BY <2>13, <2>14, <2>15, <2>16
<1> QED
  BY <1>1, InvariantHolds, PTL
=============================================================================
