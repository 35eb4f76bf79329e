---------------------------- MODULE PagingProofs ----------------------------
(***************************************************************************)
(* Page tables are edited without a fault, the recursive entry is always   *)
(* put back, every page leads where it was mapped and no table leaks: for  *)
(* any size of table, any pool, any kernel image and any clients.          *)
(*                                                                         *)
(* The invariant gives every frame in use as a table a level, 1 for        *)
(* final_pml4 up to 4 for a page table, such that each link of a table     *)
(* goes one level down and no two links meet (Tree).  At(m, p, k) is the   *)
(* table a path reaches at level k.  In the middle of an edit one table of *)
(* the path may still be empty, or about to be released: Current.  With    *)
(* the recursive entry at final_pml4, an access through it is At           *)
(* (TableIsAt), so an edit stores a leaf, adds an empty table or removes   *)
(* one, and each of these keeps the tree and every other walk.             *)
(*                                                                         *)
(* All of it is under ~oom.  After physical_alloc has failed, map.c links  *)
(* frame 0 as a table at whatever level it was, the same frame at several  *)
(* levels at once, and a walk may take the frame of a client's page for a  *)
(* table.  Nothing remains true of such tables.                            *)
(***************************************************************************)
EXTENDS Paging, SequenceTheorems, FiniteSetTheorems, WellFoundedInduction, TLAPS

\* A set of natural numbers has a least one.
LEMMA LeastExists ==
    ASSUME NEW T, T \subseteq Nat, T # {}
    PROVE  \E x \in T : \A y \in T : x <= y
<1>1. \E x \in T : \A y \in T : <<y, x>> \notin OpToRel(<, Nat)
  BY NatLessThanWellFounded, WFMin
<1>2. \A x, y \in Nat : <<y, x>> \notin OpToRel(<, Nat) => x <= y
  BY DEF OpToRel
<1> QED
  BY <1>1, <1>2

-----------------------------------------------------------------------------
(* The indices of a page number.                                           *)

\* Quotient and remainder are determined by what they add up to.
LEMMA DivUnique ==
    ASSUME NEW a \in Nat, NEW b \in Nat \ {0}, NEW q \in Nat, NEW r \in 0 .. b - 1,
           a = b * q + r
    PROVE  a \div b = q /\ a % b = r
  BY SMT

\* What a quotient and a remainder are.
LEMMA DivMod ==
    ASSUME NEW a \in Nat, NEW b \in Nat \ {0}
    PROVE  /\ a \div b \in Nat /\ a % b \in 0 .. b - 1
           /\ a = (b * (a \div b)) + (a % b)
  BY SMT

\* Page numbers of the address space, and the number with given indices.
Pages == {v \in Nat : v < N * N * N * N}
Number(a, b, c, d) == a * (N * N * N) + b * (N * N) + c * N + d

\* The strides of the four levels are numbers, and bound what an index adds.
LEMMA Powers ==
    /\ N \in Nat /\ N >= 4 /\ N * N \in Nat \ {0} /\ N * N * N \in Nat \ {0}
    /\ N * N * N * N \in Nat
    /\ \A a \in Nat : a * N \in Nat /\ a * (N * N) \in Nat /\ a * (N * N * N) \in Nat
    /\ \A a \in Index : a \in Nat /\ a * N <= (N - 1) * N
                        /\ a * (N * N) <= (N - 1) * (N * N)
                        /\ a * (N * N * N) <= (N - 1) * (N * N * N)
<1>1. N \in Nat /\ N >= 4
  BY PagingAssumption
<1>2. N * N \in Nat \ {0}
  BY <1>1, SMT
<1>3. N * N * N \in Nat \ {0}
  BY <1>1, <1>2, SMT
<1>4. N * N * N * N \in Nat
  BY <1>1, <1>3, SMT
<1>5. \A a, b \in Nat : a * b \in Nat
  BY SMT
<1>6. \A a, b, c \in Nat : a <= b => a * c <= b * c
  BY SMT
<1>7. \A a \in Index : a \in Nat /\ a <= N - 1
  BY <1>1 DEF Index
<1>8. N - 1 \in Nat
  BY <1>1
<1> QED
  BY <1>1, <1>2, <1>3, <1>4, <1>5, <1>6, <1>7, <1>8

\* The four indices of the page with given indices are those indices.
LEMMA PathOfNumber ==
    ASSUME NEW a \in Index, NEW b \in Index, NEW c \in Index, NEW d \in Index
    PROVE  /\ Number(a, b, c, d) \in Nat
           /\ Path(Number(a, b, c, d)) = <<a, b, c, d>>
<1> DEFINE v  == Number(a, b, c, d)
           N2 == N * N
           N3 == N * N * N
<1>0. /\ a \in Nat /\ b \in Nat /\ c \in Nat /\ d \in Nat /\ N \in Nat \ {0}
      /\ a < N /\ b < N /\ c < N /\ d < N
      /\ b \in 0 .. N - 1 /\ c \in 0 .. N - 1 /\ d \in 0 .. N - 1
  BY PagingAssumption DEF Index
<1>1. /\ N2 \in Nat \ {0} /\ N3 \in Nat \ {0} /\ N2 = N * N /\ N3 = N * N2
  BY Powers, SMT
<1>2. /\ a * N3 \in Nat /\ b * N2 \in Nat /\ c * N \in Nat
      /\ b * N2 <= (N - 1) * N2 /\ c * N <= (N - 1) * N
  BY Powers, <1>0
<1>3. (N - 1) * N2 = N3 - N2 /\ (N - 1) * N = N2 - N
  BY <1>0, <1>1, SMT
<1>4. v = a * N3 + b * N2 + c * N + d
  BY DEF Number
<1> HIDE DEF N2, N3, v
<1>5. v \in Nat
  BY <1>0, <1>2, <1>4
<1>6. v \div N3 = a
  <2> DEFINE r == b * N2 + c * N + d
  <2>1. r \in 0 .. N3 - 1
    BY <1>0, <1>1, <1>2, <1>3
  <2>2. v = N3 * a + r
    BY <1>0, <1>1, <1>2, <1>4
  <2> HIDE DEF r
  <2> QED BY <2>1, <2>2, <1>0, <1>1, <1>5, DivUnique
<1>7. v \div N2 = a * N + b
  <2> DEFINE q == a * N + b
             r == c * N + d
  <2>1. r \in 0 .. N2 - 1
    BY <1>0, <1>1, <1>2, <1>3
  <2>2. q \in Nat
    BY <1>0, Powers
  <2>3. a * N3 = N2 * (a * N) /\ b * N2 = N2 * b
    BY <1>0, <1>1
  <2>4. N2 * q = N2 * (a * N) + N2 * b
    BY <1>0, <1>1
  <2>5. v = N2 * q + r
    BY <1>0, <1>1, <1>2, <1>4, <2>3, <2>4
  <2> HIDE DEF q, r
  <2>6. v \div N2 = q
    BY <2>1, <2>2, <2>5, <1>1, <1>5, DivUnique
  <2> QED BY <2>6 DEF q
<1>8. v \div N = a * N2 + b * N + c /\ v % N = d
  <2> DEFINE q == a * N2 + b * N + c
  <2>1. q \in Nat
    BY <1>0, <1>1, Powers DEF N2
  <2>2. a * N3 = N * (a * N2) /\ b * N2 = N * (b * N)
    BY <1>0, <1>1
  <2>3. N * q = N * (a * N2) + N * (b * N) + N * c
    BY <1>0, <1>1
  <2>4. v = N * q + d
    BY <1>0, <1>1, <1>2, <1>4, <2>2, <2>3
  <2> HIDE DEF q
  <2>5. v \div N = q /\ v % N = d
    BY <2>1, <2>4, <1>0, <1>5, DivUnique
  <2> QED BY <2>5 DEF q
<1>9. a % N = a
  BY <1>0, DivUnique, a = N * 0 + a
<1>10. (a * N + b) % N = b
  <2> DEFINE x == a * N + b
  <2>1. x \in Nat /\ x = N * a + b
    BY <1>0, Powers
  <2> HIDE DEF x
  <2>2. x % N = b
    BY <2>1, <1>0, DivUnique
  <2> QED BY <2>2 DEF x
<1>11. (a * N2 + b * N + c) % N = c
  <2> DEFINE x == a * N2 + b * N + c
             q == a * N + b
  <2>1. x \in Nat /\ q \in Nat
    BY <1>0, Powers DEF N2
  <2>2. a * N2 = N * (a * N)
    BY <1>0, <1>1
  <2>3. N * q = N * (a * N) + N * b
    BY <1>0
  <2>4. x = N * q + c
    BY <1>0, <1>1, <2>2, <2>3
  <2> HIDE DEF x, q
  <2>5. x % N = c
    BY <2>1, <2>4, <1>0, DivUnique
  <2> QED BY <2>5 DEF x
<1>12. Path(v) = <<a, b, c, d>>
  BY <1>6, <1>7, <1>8, <1>9, <1>10, <1>11 DEF Path, N2, N3
<1> QED
  BY <1>5, <1>12 DEF v

\* Every page of the address space has four indices.
LEMMA NumberOfPath ==
    ASSUME NEW v \in Pages
    PROVE  \E a, b, c, d \in Index : v = Number(a, b, c, d)
<1> DEFINE x1 == v \div N
           x2 == x1 \div N
           x3 == x2 \div N
<1>0. N \in Nat \ {0} /\ N >= 4 /\ v \in Nat
  BY PagingAssumption DEF Pages
<1>1. x1 \in Nat /\ v % N \in Index /\ v = (N * x1) + (v % N)
  BY <1>0, DivMod DEF Index
<1>2. x2 \in Nat /\ x1 % N \in Index /\ x1 = (N * x2) + (x1 % N)
  BY <1>0, <1>1, DivMod DEF Index
<1>3. x3 \in Nat /\ x2 % N \in Index /\ x2 = (N * x3) + (x2 % N)
  BY <1>0, <1>2, DivMod DEF Index
<1>4. PICK d \in Index : v = (N * x1) + d
  BY <1>1
<1>5. PICK c \in Index : x1 = (N * x2) + c
  BY <1>2
<1>6. PICK b \in Index : x2 = (N * x3) + b
  BY <1>3
<1>7. x1 \in Nat /\ x2 \in Nat /\ x3 \in Nat
  BY <1>1, <1>2, <1>3
<1> HIDE DEF x1, x2, x3
<1>8. b \in Nat /\ c \in Nat /\ d \in Nat
  BY <1>0 DEF Index
<1>9. v = N * (N * (N * x3)) + N * (N * b) + N * c + d
  <2>1. N * x1 = N * (N * x2) + N * c
    BY <1>0, <1>5, <1>7, <1>8
  <2>2. N * x2 = N * (N * x3) + N * b
    BY <1>0, <1>6, <1>7, <1>8
  <2>3. N * (N * x2) = N * (N * (N * x3)) + N * (N * b)
    BY <1>0, <2>2, <1>7, <1>8
  <2> QED BY <1>4, <2>1, <2>3, <1>0, <1>7, <1>8
<1>10. x3 < N
  <2>1. v < N * N * N * N
    BY DEF Pages
  <2>2. SUFFICES ASSUME x3 >= N PROVE FALSE
    BY <1>0, <1>7
  <2>3. \A p, q, r \in Nat : p <= q => r * p <= r * q
    BY SMT
  <2>4. N * N <= N * x3
    BY <2>2, <2>3, <1>0, <1>7
  <2>5. N * (N * N) <= N * (N * x3)
    BY <2>4, <2>3, <1>0, <1>7
  <2>6. N * (N * (N * N)) <= N * (N * (N * x3))
    BY <2>5, <2>3, <1>0, <1>7
  <2>7. N * (N * (N * N)) = N * N * N * N
    BY <1>0
  <2>8. N * (N * b) \in Nat /\ N * c \in Nat /\ N * (N * (N * x3)) \in Nat
    BY <1>0, <1>7, <1>8
  <2>9. N * N * N * N \in Nat
    BY Powers
  <2> QED BY <2>1, <2>6, <2>7, <2>8, <2>9, <1>9, <1>8, <1>0
<1>11. N * (N * (N * x3)) = x3 * (N * N * N) /\ N * (N * b) = b * (N * N) /\ N * c = c * N
  BY <1>0, <1>7, <1>8
<1>12. v = Number(x3, b, c, d)
  BY <1>9, <1>11 DEF Number
<1> QED
  BY <1>7, <1>10, <1>12, <1>0 DEF Index
\* Paths through the tables, other than the recursive one.
IsPath(p) == /\ p[1] \in Index /\ p[2] \in Index /\ p[3] \in Index /\ p[4] \in Index
             /\ p[1] # Recursive

KernelRange == VmaBase .. VmaBase + N - 1

\* A page and its path determine each other.
LEMMA PathForm ==
    ASSUME NEW v \in Pages
    PROVE  \E a, b, c, d \in Index : v = Number(a, b, c, d) /\ Path(v) = <<a, b, c, d>>
<1>1. PICK a, b, c, d \in Index : v = Number(a, b, c, d)
  BY NumberOfPath
<1>2. Path(v) = <<a, b, c, d>>
  BY <1>1, PathOfNumber
<1> QED
  BY <1>1, <1>2

\* Two pages with the same indices are the same page.
LEMMA PathInjective ==
    ASSUME NEW v \in Pages, NEW w \in Pages, Path(v) = Path(w)
    PROVE  v = w
<1>1. PICK a, b, c, d \in Index : v = Number(a, b, c, d) /\ Path(v) = <<a, b, c, d>>
  BY PathForm
<1>2. PICK a2, b2, c2, d2 \in Index : w = Number(a2, b2, c2, d2) /\ Path(w) = <<a2, b2, c2, d2>>
  BY PathForm
<1>3. <<a, b, c, d>> = <<a2, b2, c2, d2>>
  BY <1>1, <1>2
<1>4. a = a2 /\ b = b2 /\ c = c2 /\ d = d2
  BY <1>3
<1> QED
  BY <1>1, <1>2, <1>4

\* The kernel's pages share one page table.
LEMMA KernelPath ==
    ASSUME NEW v \in KernelRange
    PROVE  /\ v \in Pages /\ v - VmaBase \in Index /\ v \in Nat
           /\ Path(v) = <<N - 1, N - 2, 0, v - VmaBase>>
<1> DEFINE d == v - VmaBase
<1>1. N \in Nat /\ N >= 4
  BY PagingAssumption
<1>2. N - 1 \in Index /\ N - 2 \in Index /\ 0 \in Index
  BY <1>1 DEF Index
<1>3. (N - 1) * N * N * N = (N - 1) * (N * N * N) /\ (N - 2) * N * N = (N - 2) * (N * N)
  BY <1>1
<1>4. VmaBase = (N - 1) * (N * N * N) + (N - 2) * (N * N)
  BY <1>3 DEF VmaBase
<1>5. (N - 1) * (N * N * N) \in Nat /\ (N - 2) * (N * N) \in Nat
  BY Powers, <1>1
<1>6. VmaBase \in Nat /\ d \in Index /\ v \in Nat /\ v = VmaBase + d
  BY <1>1, <1>4, <1>5 DEF KernelRange, Index
<1>7. v = Number(N - 1, N - 2, 0, d)
  BY <1>1, <1>4, <1>5, <1>6 DEF Number, Index
<1>8. Path(v) = <<N - 1, N - 2, 0, d>>
  BY <1>2, <1>6, <1>7, PathOfNumber
<1>9. v \in Pages
  <2>1. (N - 1) * (N * N * N) = N * N * N * N - N * N * N
    BY <1>1
  <2>2. (N - 2) * (N * N) = N * N * N - (N * N + N * N)
    BY <1>1
  <2>3. N * N >= N /\ N * N \in Nat
    BY <1>1
  <2>4. d < N /\ d \in Nat
    BY <1>1, <1>6 DEF Index
  <2> QED BY <1>1, <1>4, <1>6, <2>1, <2>2, <2>3, <2>4, Powers DEF Pages
<1> QED
  BY <1>6, <1>8, <1>9

\* A client's page is a page of the address space, and not the kernel's.
LEMMA ClientPath ==
    ASSUME NEW v \in ClientPages
    PROVE  v \in Pages /\ v \notin KernelRange /\ IsPath(Path(v))
<1>1. v \in Nat
  <2>1. PICK s \in MapStarts : v \in s .. s + MaxPages - 1
    BY DEF ClientPages
  <2> QED BY <2>1, ClientAssumption
<1>2. v \in Pages /\ v \notin KernelRange
  BY <1>1, ClientAssumption DEF Pages, KernelRange
<1>3. PICK a, b, c, d \in Index : v = Number(a, b, c, d)
  BY <1>2, NumberOfPath
<1>4. Path(v) = <<a, b, c, d>>
  BY <1>3, PathOfNumber
<1>5. a = (v \div (N * N * N)) % N
  BY <1>4 DEF Path
<1>6. v \div (N * N * N) \in Nat /\ v \div (N * N * N) < N
  <2> DEFINE N3 == N * N * N
             q  == v \div N3
  <2>1. N3 \in Nat \ {0} /\ N \in Nat
    BY Powers
  <2>2. q \in Nat /\ v % N3 \in 0 .. N3 - 1 /\ v = (N3 * q) + (v % N3)
    BY <2>1, <1>1, DivMod
  <2>3. v < N3 * N
    BY <1>2, <2>1 DEF Pages
  <2>4. PICK r \in 0 .. N3 - 1 : v = (N3 * q) + r
    BY <2>2
  <2>5. q \in Nat
    BY <2>2
  <2> HIDE DEF N3, q
  <2>6. \A x, y, z \in Nat : x <= y => z * x <= z * y
    BY SMT
  <2>7. q >= N => N3 * N <= N3 * q
    BY <2>1, <2>5, <2>6
  <2>8. N3 * N \in Nat /\ N3 * q \in Nat
    BY <2>1, <2>5
  <2>9. q < N
    BY <1>1, <2>1, <2>3, <2>4, <2>5, <2>7, <2>8
  <2> QED BY <2>5, <2>9 DEF q, N3
<1>7. \A q \in Nat : q < N => q % N = q
  <2> TAKE q \in Nat
  <2> HAVE q < N
  <2>1. N \in Nat \ {0} /\ q \in 0 .. N - 1 /\ q = N * 0 + q
    BY Powers
  <2> QED BY <2>1, DivUnique
<1>8. a # Recursive
  BY <1>5, <1>6, <1>7, ClientAssumption
<1> QED
  BY <1>2, <1>4, <1>8 DEF IsPath

\* The pages the model maps: they have proper paths, all different.
LEMMA VirtualPaths ==
    /\ Virtual \subseteq Pages
    /\ \A v \in Virtual : IsPath(Path(v))
    /\ \A v, w \in Virtual : Path(v) = Path(w) => v = w
    /\ Window \in KernelRange /\ VgaPage \in KernelRange
    /\ Window \in Virtual /\ VgaPage \in Virtual /\ Window # VgaPage
    /\ Path(Window) = <<N - 1, N - 2, 0, 1>> /\ Path(VgaPage) = <<N - 1, N - 2, 0, 0>>
    /\ \A v \in Virtual : v \notin ClientPages => v \in KernelRange
<1>1. N \in Nat /\ N >= 4 /\ KernelPages \in Nat /\ 1 <= KernelPages /\ KernelPages <= N - 2
  BY PagingAssumption
<1>2. VmaBase \in Nat
  <2>1. (N - 1) * N * N * N \in Nat /\ (N - 2) * N * N \in Nat
    BY <1>1
  <2> QED BY <2>1 DEF VmaBase
<1>3. \A v \in VgaPage .. KernelStart + KernelPages - 1 : v \in KernelRange
  BY <1>1, <1>2 DEF VgaPage, KernelStart, KernelRange
<1>4. \A v \in KernelRange : v \in Pages /\ IsPath(Path(v))
  <2> TAKE v \in KernelRange
  <2>1. v \in Pages /\ v - VmaBase \in Index /\ Path(v) = <<N - 1, N - 2, 0, v - VmaBase>>
    BY KernelPath
  <2>2. N - 1 \in Index /\ N - 2 \in Index /\ 0 \in Index /\ N - 1 # N - 2
    BY <1>1 DEF Index
  <2> QED BY <2>1, <2>2 DEF IsPath, Recursive
<1>5. Window \in KernelRange /\ VgaPage \in KernelRange /\ Window # VgaPage
  BY <1>1, <1>2 DEF KernelRange, Window, VgaPage, KernelStart
<1>6. Window \in Virtual /\ VgaPage \in Virtual
  BY <1>1, <1>2 DEF Virtual, Window, VgaPage, KernelStart
<1>7. Path(Window) = <<N - 1, N - 2, 0, Window - VmaBase>> /\ Path(VgaPage) = <<N - 1, N - 2, 0, VgaPage - VmaBase>>
  BY <1>5, KernelPath
<1>8. Window - VmaBase = 1 /\ VgaPage - VmaBase = 0
  BY <1>2 DEF Window, VgaPage, KernelStart
<1>9. \A v \in Virtual : v \in ClientPages \/ v \in KernelRange
  BY <1>3 DEF Virtual
<1>10. \A v \in Virtual : v \in Pages /\ IsPath(Path(v))
  BY <1>4, <1>9, ClientPath
<1> QED
  BY <1>5, <1>6, <1>7, <1>8, <1>9, <1>10, PathInjective
-----------------------------------------------------------------------------
(* The tables as a tree.                                                   *)

\* An entry of a table above the last level that points at a table.  The
\* function lev gives a table its level: 1 for final_pml4, 2, 3 or 4 for a
\* frame taken from the pool, and 0 for everything else.
IsLink(m, lev, f, i) ==
    /\ f \in Tables /\ i \in Index
    /\ lev[f] \in 1 .. 3
    /\ m[f][i] # Absent
    /\ f = FinalPml4 => i # Recursive

Memory == [Tables -> [Index -> Int]]

Levels(fr, lev) ==
    /\ lev \in [Tables -> 0 .. 4]
    /\ \A f \in Tables : lev[f] = 1 <=> f = FinalPml4
    /\ \A f \in Tables : lev[f] \in 2 .. 4 <=> f \in Pool /\ f \notin fr

LinksDescend(m, lev) ==
    \A f \in Tables, i \in Index : IsLink(m, lev, f, i) =>
        m[f][i] \in Tables /\ lev[m[f][i]] = lev[f] + 1

LinksApart(m, lev) ==
    \A f, g \in Tables, i, j \in Index :
        IsLink(m, lev, f, i) /\ IsLink(m, lev, g, j) /\ m[f][i] = m[g][j] => f = g /\ i = j

LinkedTables(m, lev) ==
    \A g \in Tables : lev[g] \in 2 .. 4 =>
        \E f \in Tables, i \in Index : IsLink(m, lev, f, i) /\ m[f][i] = g

Tree(m, fr, lev) ==
    /\ m \in Memory
    /\ Levels(fr, lev)
    /\ LinksDescend(m, lev)
    /\ LinksApart(m, lev)
    /\ LinkedTables(m, lev)

\* The table of level k on a path from final_pml4, and at level 5 the page.
At(m, p, k) ==
    IF k = 1 THEN FinalPml4
    ELSE IF k = 2 THEN Entry(m, FinalPml4, p[1])
    ELSE IF k = 3 THEN Entry(m, Entry(m, FinalPml4, p[1]), p[2])
    ELSE IF k = 4 THEN Entry(m, Entry(m, Entry(m, FinalPml4, p[1]), p[2]), p[3])
    ELSE Walk(m, FinalPml4, p)

\* The fixed tables are distinct, outside the pool and none is Absent.
LEMMA TableFacts ==
    /\ Tables \subseteq Nat /\ Absent \notin Tables /\ Absent \in Int
    /\ FinalPml4 \in Tables /\ BootPml4 \in Tables /\ BootPdpt \in Tables
    /\ BootPd \in Tables /\ BootPt \in Tables /\ 0 \in Tables /\ ProcessPml4 \in Tables
    /\ FinalPml4 \notin Pool /\ BootPml4 \notin Pool /\ BootPdpt \notin Pool
    /\ BootPd \notin Pool /\ BootPt \notin Pool /\ ProcessPml4 \notin Pool
    /\ Pool \subseteq Tables /\ 0 \notin Pool
    /\ FinalPml4 \notin {BootPml4, BootPdpt, BootPd, BootPt}
    /\ ProcessPml4 \notin {FinalPml4, BootPml4, BootPdpt, BootPd, BootPt}
    /\ BootPml4 \notin {BootPdpt, BootPd, BootPt} /\ BootPdpt \notin {BootPd, BootPt} /\ BootPd # BootPt
<1>1. /\ Fixed[1] = BootPml4 /\ Fixed[2] = BootPdpt /\ Fixed[3] = BootPd
      /\ Fixed[4] = BootPt /\ Fixed[5] = FinalPml4 /\ Fixed[6] = ProcessPml4
  BY DEF Fixed
<1>2. /\ BootPml4 \in Nat /\ BootPdpt \in Nat /\ BootPd \in Nat /\ BootPt \in Nat /\ FinalPml4 \in Nat
      /\ ProcessPml4 \in Nat /\ ProcessPml4 \notin Pool
      /\ FinalPml4 \notin Pool /\ BootPml4 \notin Pool /\ BootPdpt \notin Pool
      /\ BootPd \notin Pool /\ BootPt \notin Pool
  BY <1>1, PagingAssumption
<1>3. /\ FinalPml4 \notin {BootPml4, BootPdpt, BootPd, BootPt}
      /\ ProcessPml4 \notin {FinalPml4, BootPml4, BootPdpt, BootPd, BootPt}
      /\ BootPml4 \notin {BootPdpt, BootPd, BootPt} /\ BootPdpt \notin {BootPd, BootPt} /\ BootPd # BootPt
  BY <1>1, PagingAssumption
<1>4. Pool \subseteq Nat /\ 0 \notin Pool
  BY PagingAssumption
<1>5. Tables \subseteq Nat
  BY <1>2, <1>4 DEF Tables
<1> QED
  BY <1>2, <1>3, <1>4, <1>5 DEF Tables, Absent

\* The indices the code names are indices of a table.
LEMMA IndexFacts ==
    /\ 0 \in Index /\ 1 \in Index /\ N - 1 \in Index /\ N - 2 \in Index
    /\ Recursive \in Index /\ Recursive # N - 1 /\ Index \subseteq Nat
  BY PagingAssumption DEF Index, Recursive

\* A path descends one entry at a time.
LEMMA AtSteps ==
    ASSUME NEW m, NEW p
    PROVE  /\ At(m, p, 1) = FinalPml4
           /\ At(m, p, 2) = Entry(m, At(m, p, 1), p[1])
           /\ At(m, p, 3) = Entry(m, At(m, p, 2), p[2])
           /\ At(m, p, 4) = Entry(m, At(m, p, 3), p[3])
           /\ At(m, p, 5) = Entry(m, At(m, p, 4), p[4])
           /\ At(m, p, 5) = Walk(m, FinalPml4, p)
  BY DEF At, Walk

\* One level of a walk.
LEMMA AtStep ==
    ASSUME NEW m, NEW p, NEW k \in 1 .. 4
    PROVE  At(m, p, k + 1) = Entry(m, At(m, p, k), p[k])
<1>1. k = 1 \/ k = 2 \/ k = 3 \/ k = 4
  OBVIOUS
<1>2. 1 + 1 = 2 /\ 2 + 1 = 3 /\ 3 + 1 = 4 /\ 4 + 1 = 5
  OBVIOUS
<1> QED
  BY <1>1, <1>2, AtSteps

\* Nothing is reached below what is missing.
LEMMA AtAbove ==
    ASSUME NEW m, NEW p, NEW k \in 1 .. 4, At(m, p, k + 1) # Absent
    PROVE  At(m, p, k) \in Tables /\ m[At(m, p, k)][p[k]] = At(m, p, k + 1)
  BY AtStep DEF Entry

\* The parts of a path are indices.
LEMMA PathIndex ==
    ASSUME NEW p, IsPath(p), NEW k \in 1 .. 4
    PROVE  p[k] \in Index /\ (k = 1 => p[k] # Recursive)
<1>1. k = 1 \/ k = 2 \/ k = 3 \/ k = 4
  OBVIOUS
<1> QED
  BY <1>1 DEF IsPath

\* A path through a tree meets a table of each level.
LEMMA AtTable ==
    ASSUME NEW m, NEW fr, NEW lev, Tree(m, fr, lev), NEW p, IsPath(p), NEW k \in 1 .. 4,
           At(m, p, k) # Absent
    PROVE  At(m, p, k) \in Tables /\ lev[At(m, p, k)] = k
<1>1. At(m, p, 1) \in Tables /\ lev[At(m, p, 1)] = 1
  BY AtSteps, TableFacts DEF Tree, Levels
<1>2. ASSUME NEW j \in 1 .. 3, At(m, p, j) # Absent => At(m, p, j) \in Tables /\ lev[At(m, p, j)] = j,
             At(m, p, j + 1) # Absent
      PROVE  At(m, p, j + 1) \in Tables /\ lev[At(m, p, j + 1)] = j + 1
  <2>1. At(m, p, j) \in Tables /\ m[At(m, p, j)][p[j]] = At(m, p, j + 1)
    BY <1>2, AtAbove
  <2>2. lev[At(m, p, j)] = j
    BY <1>2, <2>1, TableFacts
  <2>3. p[j] \in Index /\ (j = 1 => p[j] # Recursive)
    BY PathIndex
  <2>4. At(m, p, j) = FinalPml4 => j = 1
    BY <2>1, <2>2 DEF Tree, Levels
  <2>5. IsLink(m, lev, At(m, p, j), p[j])
    BY <1>2, <2>1, <2>2, <2>3, <2>4 DEF IsLink
  <2> QED BY <2>1, <2>2, <2>3, <2>5 DEF Tree, LinksDescend
<1>3. At(m, p, 2) # Absent => At(m, p, 2) \in Tables /\ lev[At(m, p, 2)] = 2
  BY <1>1, <1>2, 1 + 1 = 2
<1>4. At(m, p, 3) # Absent => At(m, p, 3) \in Tables /\ lev[At(m, p, 3)] = 3
  BY <1>2, <1>3, 2 + 1 = 3
<1>5. At(m, p, 4) # Absent => At(m, p, 4) \in Tables /\ lev[At(m, p, 4)] = 4
  BY <1>2, <1>4, 3 + 1 = 4
<1>6. k = 1 \/ k = 2 \/ k = 3 \/ k = 4
  OBVIOUS
<1> QED
  BY <1>1, <1>3, <1>4, <1>5, <1>6

\* The entries it descends through are links.
LEMMA AtLink ==
    ASSUME NEW m, NEW fr, NEW lev, Tree(m, fr, lev), NEW p, IsPath(p), NEW k \in 1 .. 3,
           At(m, p, k + 1) # Absent
    PROVE  IsLink(m, lev, At(m, p, k), p[k]) /\ m[At(m, p, k)][p[k]] = At(m, p, k + 1)
<1>1. At(m, p, k) \in Tables /\ m[At(m, p, k)][p[k]] = At(m, p, k + 1)
  BY AtAbove
<1>2. lev[At(m, p, k)] = k
  BY <1>1, AtTable, TableFacts
<1>3. p[k] \in Index /\ (k = 1 => p[k] # Recursive)
  BY PathIndex
<1>4. At(m, p, k) = FinalPml4 => k = 1
  BY <1>1, <1>2 DEF Tree, Levels
<1> QED
  BY <1>1, <1>2, <1>3, <1>4 DEF IsLink

\* Paths that meet at a table took the same entry into it.
LEMMA AtMeet ==
    ASSUME NEW m, NEW fr, NEW lev, Tree(m, fr, lev), NEW p, IsPath(p), NEW q, IsPath(q),
           NEW k \in 1 .. 3, At(m, p, k + 1) = At(m, q, k + 1), At(m, p, k + 1) # Absent
    PROVE  At(m, p, k) = At(m, q, k) /\ p[k] = q[k]
<1>1. IsLink(m, lev, At(m, p, k), p[k]) /\ m[At(m, p, k)][p[k]] = At(m, p, k + 1)
  BY AtLink
<1>2. IsLink(m, lev, At(m, q, k), q[k]) /\ m[At(m, q, k)][q[k]] = At(m, q, k + 1)
  BY AtLink
<1>3. m[At(m, p, k)][p[k]] = m[At(m, q, k)][q[k]]
  BY <1>1, <1>2
<1> QED
  BY <1>1, <1>2, <1>3 DEF Tree, LinksApart, IsLink

\* Paths that reach the same page table agree down to it.
LEMMA AtApart ==
    ASSUME NEW m, NEW fr, NEW lev, Tree(m, fr, lev), NEW p, IsPath(p), NEW q, IsPath(q),
           At(m, p, 4) = At(m, q, 4), At(m, p, 4) # Absent
    PROVE  p[1] = q[1] /\ p[2] = q[2] /\ p[3] = q[3]
<1>1. 1 + 1 = 2 /\ 2 + 1 = 3 /\ 3 + 1 = 4
  OBVIOUS
<1>2. At(m, p, 3) = At(m, q, 3) /\ p[3] = q[3]
  BY <1>1, AtMeet, 3 \in 1 .. 3
<1>3. At(m, p, 3) # Absent
  BY <1>1, AtAbove, 3 \in 1 .. 4, TableFacts
<1>4. At(m, p, 2) = At(m, q, 2) /\ p[2] = q[2]
  BY <1>1, <1>2, <1>3, AtMeet, 2 \in 1 .. 3
<1>5. At(m, p, 2) # Absent
  BY <1>1, <1>3, AtAbove, 2 \in 1 .. 4, TableFacts
<1>6. p[1] = q[1]
  BY <1>1, <1>4, <1>5, AtMeet, 1 \in 1 .. 3
<1> QED
  BY <1>2, <1>4, <1>6

-----------------------------------------------------------------------------
(* What a store does to the tree: into a page table or a table outside the *)
(* tree, of a new table, and of Absent over an empty one.                  *)

Stored(m2, m, f, i, e) ==
    /\ m2 \in Memory
    /\ \A g \in Tables, j \in Index : m2[g][j] = IF g = f /\ j = i THEN e ELSE m[g][j]

\* SetEntry changes one entry.
LEMMA SetEntryStored ==
    ASSUME NEW m \in Memory, NEW f \in Tables, NEW i \in Index, NEW e \in Int
    PROVE  Stored(SetEntry(m, f, i, e), m, f, i, e)
  BY DEF SetEntry, Stored, Memory

\* A store in a page table, or in a frame outside the tree, keeps the tree.
LEMMA StoreLeafTree ==
    ASSUME NEW m, NEW fr, NEW lev, Tree(m, fr, lev), NEW f \in Tables, lev[f] \in {0, 4},
           NEW i, NEW e, NEW m2, Stored(m2, m, f, i, e)
    PROVE  Tree(m2, fr, lev)
<1>1. \A g \in Tables, j \in Index : lev[g] \in 1 .. 3 => m2[g][j] = m[g][j]
  BY DEF Stored
<1>2. \A g \in Tables, j \in Index : IsLink(m2, lev, g, j) <=> IsLink(m, lev, g, j)
  BY <1>1 DEF IsLink
<1>3. \A g \in Tables, j \in Index : IsLink(m2, lev, g, j) => m2[g][j] = m[g][j]
  BY <1>1 DEF IsLink
<1>4. LinksDescend(m2, lev)
  BY <1>2, <1>3 DEF LinksDescend, Tree
<1>5. LinksApart(m2, lev)
  BY <1>2, <1>3 DEF LinksApart, Tree
<1>6. LinkedTables(m2, lev)
  BY <1>2, <1>3 DEF LinkedTables, Tree
<1> QED
  BY <1>4, <1>5, <1>6 DEF Tree, Stored

\* It changes the last step of the one walk that ends in that entry.
LEMMA StoreLeafAt ==
    ASSUME NEW m, NEW fr, NEW lev, Tree(m, fr, lev), NEW f \in Tables, lev[f] \in {0, 4},
           NEW i, NEW e, NEW m2, Stored(m2, m, f, i, e), NEW p, IsPath(p)
    PROVE  /\ \A k \in 1 .. 4 : At(m2, p, k) = At(m, p, k)
           /\ At(m2, p, 5) = IF At(m, p, 4) = f /\ p[4] = i THEN e ELSE At(m, p, 5)
<1>1. At(m2, p, 1) = At(m, p, 1)
  BY AtSteps
<1>2. ASSUME NEW k \in 1 .. 3, At(m2, p, k) = At(m, p, k)
      PROVE  At(m2, p, k + 1) = At(m, p, k + 1)
  <2>1. At(m, p, k) # Absent => At(m, p, k) \in Tables /\ lev[At(m, p, k)] = k
    BY AtTable
  <2>2. p[k] \in Index
    BY PathIndex
  <2>3. Entry(m2, At(m, p, k), p[k]) = Entry(m, At(m, p, k), p[k])
    <3>1. CASE At(m, p, k) = Absent
      BY <3>1, TableFacts DEF Entry
    <3>2. CASE At(m, p, k) # Absent
      <4>1. At(m, p, k) \in Tables /\ At(m, p, k) # f
        BY <2>1, <3>2
      <4> QED BY <4>1, <2>2 DEF Entry, Stored
    <3> QED BY <3>1, <3>2
  <2> QED BY <1>2, <2>3, AtStep
<1>3. At(m2, p, 2) = At(m, p, 2)
  BY <1>1, <1>2, 1 + 1 = 2
<1>4. At(m2, p, 3) = At(m, p, 3)
  BY <1>3, <1>2, 2 + 1 = 3
<1>5. At(m2, p, 4) = At(m, p, 4)
  BY <1>4, <1>2, 3 + 1 = 4
<1>6. \A k \in 1 .. 4 : At(m2, p, k) = At(m, p, k)
  <2> TAKE k \in 1 .. 4
  <2>1. k = 1 \/ k = 2 \/ k = 3 \/ k = 4
    OBVIOUS
  <2> QED BY <2>1, <1>1, <1>3, <1>4, <1>5
<1>7. p[4] \in Index
  BY DEF IsPath
<1>8. At(m2, p, 5) = Entry(m2, At(m, p, 4), p[4]) /\ At(m, p, 5) = Entry(m, At(m, p, 4), p[4])
  BY AtSteps, <1>5
<1>9. At(m2, p, 5) = IF At(m, p, 4) = f /\ p[4] = i THEN e ELSE At(m, p, 5)
  BY <1>7, <1>8 DEF Entry, Stored
<1> QED
  BY <1>6, <1>9

\* A free frame, cleared, becomes the table that entry i of t points at.
Grown(m2, m, t, i, f) ==
    /\ m2 \in Memory
    /\ \A g \in Tables, j \in Index :
          m2[g][j] = IF g = f THEN Absent ELSE IF g = t /\ j = i THEN f ELSE m[g][j]

\* A new table under an absent entry keeps the tree.
LEMMA GrowTree ==
    ASSUME NEW m, NEW fr, NEW lev, Tree(m, fr, lev), NEW t \in Tables, NEW i \in Index,
           lev[t] \in 1 .. 3, t = FinalPml4 => i # Recursive, m[t][i] = Absent,
           NEW f \in Pool, f \in fr, NEW m2, Grown(m2, m, t, i, f)
    PROVE  Tree(m2, fr \ {f}, [lev EXCEPT ![f] = lev[t] + 1])
<1> DEFINE lev2 == [lev EXCEPT ![f] = lev[t] + 1]
<1>1. f \in Tables /\ f # FinalPml4 /\ f # Absent
  BY TableFacts
<1>2. lev[f] = 0 /\ t # f
  BY <1>1 DEF Tree, Levels
<1>3. lev2 \in [Tables -> 0 .. 4] /\ lev2[f] = lev[t] + 1
      /\ \A g \in Tables : g # f => lev2[g] = lev[g]
  BY <1>1 DEF Tree, Levels
<1> HIDE DEF lev2
<1>4. Levels(fr \ {f}, lev2)
  BY <1>1, <1>2, <1>3 DEF Levels, Tree
<1>5. \A g \in Tables, j \in Index :
         IsLink(m2, lev2, g, j) <=> IsLink(m, lev, g, j) \/ (g = t /\ j = i)
  BY <1>1, <1>2, <1>3 DEF IsLink, Grown
<1>6. m2[t][i] = f
  BY <1>2 DEF Grown
<1>7. \A g \in Tables, j \in Index :
         IsLink(m, lev, g, j) => m2[g][j] = m[g][j] /\ m[g][j] # f /\ g # f /\ m[g][j] \in Tables
                                 /\ lev[m[g][j]] = lev[g] + 1
  <2> TAKE g \in Tables, j \in Index
  <2> HAVE IsLink(m, lev, g, j)
  <2>1. g # f /\ ~(g = t /\ j = i)
    BY <1>2 DEF IsLink
  <2>2. m[g][j] \in Tables /\ lev[m[g][j]] = lev[g] + 1
    BY DEF Tree, LinksDescend
  <2>3. m[g][j] # f
    BY <2>2, <1>2 DEF IsLink
  <2> QED BY <2>1, <2>2, <2>3 DEF Grown
<1>8. LinksDescend(m2, lev2)
  <2> SUFFICES ASSUME NEW g \in Tables, NEW j \in Index, IsLink(m2, lev2, g, j)
               PROVE  m2[g][j] \in Tables /\ lev2[m2[g][j]] = lev2[g] + 1
    BY DEF LinksDescend
  <2>1. CASE IsLink(m, lev, g, j)
    BY <2>1, <1>7, <1>3
  <2>2. CASE g = t /\ j = i
    BY <2>2, <1>6, <1>1, <1>2, <1>3
  <2> QED BY <2>1, <2>2, <1>5
<1>9. LinksApart(m2, lev2)
  <2> SUFFICES ASSUME NEW g \in Tables, NEW h \in Tables, NEW j \in Index, NEW l \in Index,
                      IsLink(m2, lev2, g, j), IsLink(m2, lev2, h, l), m2[g][j] = m2[h][l]
               PROVE  g = h /\ j = l
    BY DEF LinksApart
  <2>1. CASE IsLink(m, lev, g, j) /\ IsLink(m, lev, h, l)
    BY <2>1, <1>7 DEF Tree, LinksApart
  <2>2. CASE IsLink(m, lev, g, j) /\ h = t /\ l = i
    BY <2>2, <1>6, <1>7
  <2>3. CASE g = t /\ j = i /\ IsLink(m, lev, h, l)
    BY <2>3, <1>6, <1>7
  <2> QED BY <2>1, <2>2, <2>3, <1>5
<1>10. LinkedTables(m2, lev2)
  <2> SUFFICES ASSUME NEW g \in Tables, lev2[g] \in 2 .. 4
               PROVE  \E h \in Tables, j \in Index : IsLink(m2, lev2, h, j) /\ m2[h][j] = g
    BY DEF LinkedTables
  <2>1. CASE g = f
    BY <2>1, <1>5, <1>6
  <2>2. CASE g # f
    <3>1. PICK h \in Tables, j \in Index : IsLink(m, lev, h, j) /\ m[h][j] = g
      BY <2>2, <1>3 DEF Tree, LinkedTables
    <3> QED BY <3>1, <1>5, <1>7
  <2> QED BY <2>1, <2>2
<1> QED
  BY <1>4, <1>8, <1>9, <1>10 DEF Tree, Grown, lev2

\* It is reached by the walks that stopped at that entry, and no page
\* changes its translation.
LEMMA GrowAt ==
    ASSUME NEW m, NEW fr, NEW lev, Tree(m, fr, lev), NEW t \in Tables, NEW i \in Index,
           lev[t] \in 1 .. 3, m[t][i] = Absent,
           NEW f \in Pool, f \in fr, NEW m2, Grown(m2, m, t, i, f), NEW p, IsPath(p)
    PROVE  /\ \A k \in 1 .. 4 : At(m, p, k) # Absent => At(m2, p, k) = At(m, p, k)
           /\ At(m2, p, 5) = At(m, p, 5)
<1> DEFINE C(k) == \/ At(m2, p, k) = At(m, p, k)
                   \/ At(m2, p, k) = f /\ At(m, p, k) = Absent
<1>0. f \in Tables /\ f # FinalPml4 /\ f # Absent /\ lev[f] = 0
  BY TableFacts DEF Tree, Levels
<1>1. C(1)
  BY AtSteps
<1>2. ASSUME NEW k \in 1 .. 4, C(k)
      PROVE  C(k + 1) /\ (k = 4 => At(m2, p, k + 1) = At(m, p, k + 1))
  <2>1. At(m, p, k) # Absent => At(m, p, k) \in Tables /\ lev[At(m, p, k)] = k
    BY AtTable
  <2>2. p[k] \in Index
    BY PathIndex
  <2>3. At(m2, p, k + 1) = Entry(m2, At(m2, p, k), p[k]) /\ At(m, p, k + 1) = Entry(m, At(m, p, k), p[k])
    BY AtStep
  <2>4. CASE At(m2, p, k) = f /\ At(m, p, k) = Absent
    BY <2>2, <2>3, <2>4, <1>0, TableFacts DEF Entry, Grown
  <2>5. CASE At(m2, p, k) = At(m, p, k) /\ At(m, p, k) = Absent
    BY <2>3, <2>5, TableFacts DEF Entry
  <2>6. CASE At(m2, p, k) = At(m, p, k) /\ At(m, p, k) # Absent
    <3>1. At(m, p, k) \in Tables /\ At(m, p, k) # f /\ (k = 4 => At(m, p, k) # t)
      BY <2>1, <2>6, <1>0
    <3>2. At(m2, p, k + 1) = m2[At(m, p, k)][p[k]] /\ At(m, p, k + 1) = m[At(m, p, k)][p[k]]
      BY <2>3, <2>6, <3>1 DEF Entry
    <3> QED BY <2>2, <3>1, <3>2 DEF Grown
  <2> QED BY <1>2, <2>4, <2>5, <2>6
<1>3. C(2)
  BY <1>1, <1>2, 1 + 1 = 2, 1 \in 1 .. 4
<1>4. C(3)
  BY <1>3, <1>2, 2 + 1 = 3, 2 \in 1 .. 4
<1>5. C(4)
  BY <1>4, <1>2, 3 + 1 = 4, 3 \in 1 .. 4
<1>6. At(m2, p, 5) = At(m, p, 5)
  BY <1>5, <1>2, 4 + 1 = 5, 4 \in 1 .. 4
<1>7. ASSUME NEW k \in 1 .. 4, At(m, p, k) # Absent
      PROVE  At(m2, p, k) = At(m, p, k)
  <2>1. k = 1 \/ k = 2 \/ k = 3 \/ k = 4
    OBVIOUS
  <2> QED BY <2>1, <1>1, <1>3, <1>4, <1>5, <1>7
<1> QED
  BY <1>6, <1>7

\* The entry of an empty table is cleared and the table becomes free.
LEMMA PruneTree ==
    ASSUME NEW m, NEW fr, NEW lev, Tree(m, fr, lev), NEW t, NEW i, IsLink(m, lev, t, i),
           NEW f, f = m[t][i], \A j \in Index : m[f][j] = Absent,
           NEW m2, Stored(m2, m, t, i, Absent)
    PROVE  Tree(m2, fr \cup {f}, [lev EXCEPT ![f] = 0]) /\ f \in Pool \ fr
<1> DEFINE lev2 == [lev EXCEPT ![f] = 0]
<1>1. t \in Tables /\ i \in Index /\ lev[t] \in 1 .. 3
  BY DEF IsLink
<1>2. f \in Tables /\ lev[f] = lev[t] + 1
  BY <1>1 DEF Tree, LinksDescend
<1>3. f \in Pool \ fr /\ f # FinalPml4 /\ t # f
  BY <1>1, <1>2 DEF Tree, Levels
<1>4. lev2 \in [Tables -> 0 .. 4] /\ lev2[f] = 0 /\ \A g \in Tables : g # f => lev2[g] = lev[g]
  BY <1>2 DEF Tree, Levels
<1> HIDE DEF lev2
<1>5. Levels(fr \cup {f}, lev2)
  BY <1>2, <1>3, <1>4 DEF Levels, Tree
<1>6. \A g \in Tables, j \in Index :
         IsLink(m2, lev2, g, j) <=> IsLink(m, lev, g, j) /\ ~(g = t /\ j = i)
  <2> TAKE g \in Tables, j \in Index
  <2>1. CASE g = f
    <3>1. ~IsLink(m, lev, g, j)
      BY <2>1 DEF IsLink
    <3>2. ~IsLink(m2, lev2, g, j)
      BY <2>1, <1>4 DEF IsLink
    <3> QED BY <3>1, <3>2
  <2>2. CASE g # f /\ ~(g = t /\ j = i)
    <3>1. m2[g][j] = m[g][j] /\ lev2[g] = lev[g]
      BY <2>2, <1>4 DEF Stored
    <3> QED BY <2>2, <3>1 DEF IsLink
  <2>3. CASE g = t /\ j = i
    <3>1. m2[g][j] = Absent
      BY <2>3 DEF Stored
    <3> QED BY <2>3, <3>1 DEF IsLink
  <2> QED BY <2>1, <2>2, <2>3
<1>7. \A g \in Tables, j \in Index :
         IsLink(m2, lev2, g, j) => m2[g][j] = m[g][j] /\ m[g][j] # f /\ g # f /\ m[g][j] \in Tables
                                   /\ lev[m[g][j]] = lev[g] + 1
  <2> TAKE g \in Tables, j \in Index
  <2> HAVE IsLink(m2, lev2, g, j)
  <2>1. IsLink(m, lev, g, j) /\ ~(g = t /\ j = i)
    BY <1>6
  <2>2. m[g][j] # f
    BY <2>1, <1>1 DEF Tree, LinksApart
  <2>3. g # f
    BY <2>1 DEF IsLink
  <2>4. m2[g][j] = m[g][j]
    BY <2>1 DEF Stored
  <2> QED BY <2>1, <2>2, <2>3, <2>4 DEF Tree, LinksDescend
<1>8. LinksDescend(m2, lev2)
  BY <1>4, <1>7 DEF LinksDescend
<1>9. LinksApart(m2, lev2)
  <2> SUFFICES ASSUME NEW g \in Tables, NEW h \in Tables, NEW j \in Index, NEW l \in Index,
                      IsLink(m2, lev2, g, j), IsLink(m2, lev2, h, l), m2[g][j] = m2[h][l]
               PROVE  g = h /\ j = l
    BY DEF LinksApart
  <2>1. IsLink(m, lev, g, j) /\ IsLink(m, lev, h, l) /\ m[g][j] = m[h][l]
    BY <1>6, <1>7
  <2> QED BY <2>1 DEF Tree, LinksApart
<1>10. LinkedTables(m2, lev2)
  <2> SUFFICES ASSUME NEW g \in Tables, lev2[g] \in 2 .. 4
               PROVE  \E h \in Tables, j \in Index : IsLink(m2, lev2, h, j) /\ m2[h][j] = g
    BY DEF LinkedTables
  <2>1. g # f /\ lev[g] \in 2 .. 4
    BY <1>4
  <2>2. PICK h \in Tables, j \in Index : IsLink(m, lev, h, j) /\ m[h][j] = g
    BY <2>1 DEF Tree, LinkedTables
  <2>3. ~(h = t /\ j = i)
    BY <2>1, <2>2
  <2> QED BY <2>2, <2>3, <1>6, <1>7
<1> QED
  BY <1>3, <1>5, <1>8, <1>9, <1>10 DEF Tree, Stored, lev2

\* Removing an empty table changes no translation.
LEMMA PruneAt ==
    ASSUME NEW m, NEW fr, NEW lev, Tree(m, fr, lev), NEW t, NEW i, IsLink(m, lev, t, i),
           NEW f, f = m[t][i], \A j \in Index : m[f][j] = Absent,
           NEW m2, Stored(m2, m, t, i, Absent), NEW p, IsPath(p)
    PROVE  /\ \A k \in 1 .. 4 : At(m, p, k) # f => At(m2, p, k) = At(m, p, k)
           /\ At(m2, p, 5) = At(m, p, 5)
<1> DEFINE C(k) == \/ At(m2, p, k) = At(m, p, k)
                   \/ At(m2, p, k) = Absent /\ At(m, p, k) = f
<1>0. t \in Tables /\ i \in Index /\ lev[t] \in 1 .. 3 /\ f \in Tables /\ lev[f] = lev[t] + 1
  BY DEF IsLink, Tree, LinksDescend
<1>1. C(1)
  BY AtSteps
<1>2. ASSUME NEW k \in 1 .. 4, C(k)
      PROVE  C(k + 1) /\ (k = 4 => At(m2, p, k + 1) = At(m, p, k + 1))
  <2>1. At(m, p, k) # Absent => At(m, p, k) \in Tables /\ lev[At(m, p, k)] = k
    BY AtTable
  <2>2. p[k] \in Index
    BY PathIndex
  <2>3. At(m2, p, k + 1) = Entry(m2, At(m2, p, k), p[k]) /\ At(m, p, k + 1) = Entry(m, At(m, p, k), p[k])
    BY AtStep
  <2>4. CASE At(m2, p, k) = Absent /\ At(m, p, k) = f
    BY <2>2, <2>3, <2>4, <1>0, TableFacts DEF Entry
  <2>5. CASE At(m2, p, k) = At(m, p, k) /\ At(m, p, k) = Absent
    BY <2>3, <2>5, TableFacts DEF Entry
  <2>6. CASE At(m2, p, k) = At(m, p, k) /\ At(m, p, k) # Absent
    <3>1. At(m, p, k) \in Tables /\ (k = 4 => At(m, p, k) # t)
      BY <2>1, <2>6, <1>0
    <3>2. At(m2, p, k + 1) = m2[At(m, p, k)][p[k]] /\ At(m, p, k + 1) = m[At(m, p, k)][p[k]]
      BY <2>3, <2>6, <3>1 DEF Entry
    <3> QED BY <2>2, <3>1, <3>2 DEF Stored
  <2> QED BY <1>2, <2>4, <2>5, <2>6
<1>3. C(2)
  BY <1>1, <1>2, 1 + 1 = 2, 1 \in 1 .. 4
<1>4. C(3)
  BY <1>3, <1>2, 2 + 1 = 3, 2 \in 1 .. 4
<1>5. C(4)
  BY <1>4, <1>2, 3 + 1 = 4, 3 \in 1 .. 4
<1>6. At(m2, p, 5) = At(m, p, 5)
  BY <1>5, <1>2, 4 + 1 = 5, 4 \in 1 .. 4
<1>7. ASSUME NEW k \in 1 .. 4, At(m, p, k) # f
      PROVE  At(m2, p, k) = At(m, p, k)
  <2>1. k = 1 \/ k = 2 \/ k = 3 \/ k = 4
    OBVIOUS
  <2> QED BY <2>1, <1>1, <1>3, <1>4, <1>5, <1>7
<1> QED
  BY <1>6, <1>7

-----------------------------------------------------------------------------
(* The stores of map.c and unmap.c, as edits of the tree.                  *)

\* The boot tables as bootstrap32.asm built them, and a process's PML4, in
\* which nothing is mapped.
BootTables(m) ==
    /\ m[BootPml4][N - 1] = BootPdpt /\ m[BootPdpt][N - 2] = BootPd /\ m[BootPd][0] = BootPt
    /\ \A i \in Index : i # 1 => m[BootPt][i] = i
    /\ \A i \in Index : i # Recursive => m[ProcessPml4][i] = Absent

\* A table is empty when all of its entries are absent.
LEMMA EmptyTableEntries ==
    ASSUME NEW m \in Memory, NEW f \in Tables
    PROVE  m[f] = EmptyTable <=> \A j \in Index : m[f][j] = Absent
<1>1. m[f] \in [Index -> Int]
  BY DEF Memory
<1> QED
  BY <1>1 DEF EmptyTable

\* The tables a store does not touch.
LEMMA StoredRow ==
    ASSUME NEW m \in Memory, NEW m2, NEW f, NEW i, NEW e, Stored(m2, m, f, i, e),
           NEW g \in Tables, g # f
    PROVE  m2[g] = m[g]
<1>1. m[g] \in [Index -> Int] /\ m2[g] \in [Index -> Int]
  BY DEF Stored, Memory
<1>2. \A j \in Index : m2[g][j] = m[g][j]
  BY DEF Stored
<1> QED
  BY <1>1, <1>2

\* The boot tables are read apart from the recursive entry and the window.
LEMMA BootTablesKept ==
    ASSUME NEW m, BootTables(m), NEW m2,
           \A g \in Tables, j \in Index : ~(g \in {BootPml4, FinalPml4} /\ j = Recursive) => m2[g][j] = m[g][j]
    PROVE  BootTables(m2)
<1>0. N - 1 \in Index /\ N - 1 # Recursive /\ BootPml4 \in Tables
  BY TableFacts, IndexFacts
<1>1. m2[BootPml4][N - 1] = BootPdpt
  BY <1>0 DEF BootTables
<1>2. m2[BootPdpt][N - 2] = BootPd
  BY TableFacts, IndexFacts DEF BootTables
<1>3. m2[BootPd][0] = BootPt
  BY TableFacts, IndexFacts DEF BootTables
<1>4. \A i \in Index : i # 1 => m2[BootPt][i] = i
  BY TableFacts, IndexFacts DEF BootTables
<1>5. \A i \in Index : i # Recursive => m2[ProcessPml4][i] = Absent
  BY TableFacts, IndexFacts DEF BootTables
<1> QED
  BY <1>1, <1>2, <1>3, <1>4, <1>5 DEF BootTables

\* Where the frames of the pool and the fixed tables stand in a tree.
LEMMA LevelFacts ==
    ASSUME NEW m, NEW fr, NEW lev, Tree(m, fr, lev)
    PROVE  /\ lev[BootPml4] = 0 /\ lev[BootPdpt] = 0 /\ lev[BootPd] = 0 /\ lev[BootPt] = 0
           /\ lev[ProcessPml4] = 0
           /\ lev[FinalPml4] = 1 /\ m \in Memory
           /\ \A f \in Tables : lev[f] \in 2 .. 4 => f \in Pool \ fr
           /\ \A f \in Pool \ fr : f \in Tables /\ lev[f] \in 2 .. 4
           /\ \A f \in fr : f \in Pool => lev[f] = 0
<1>1. \A f \in Tables : lev[f] \in 0 .. 4
  BY DEF Tree, Levels
<1>2. /\ \A f \in Tables : lev[f] = 1 <=> f = FinalPml4
      /\ \A f \in Tables : lev[f] \in 2 .. 4 <=> f \in Pool /\ f \notin fr
  BY DEF Tree, Levels
<1>3. \A f \in Tables : (f # FinalPml4 /\ (f \notin Pool \/ f \in fr)) => lev[f] = 0
  <2> TAKE f \in Tables
  <2> HAVE f # FinalPml4 /\ (f \notin Pool \/ f \in fr)
  <2>1. lev[f] \in 0 .. 4 /\ lev[f] # 1 /\ lev[f] \notin 2 .. 4
    BY <1>1, <1>2
  <2> QED BY <2>1
<1>4. /\ lev[BootPml4] = 0 /\ lev[BootPdpt] = 0 /\ lev[BootPd] = 0 /\ lev[BootPt] = 0
      /\ lev[ProcessPml4] = 0
  BY <1>3, TableFacts
<1>5. lev[FinalPml4] = 1 /\ m \in Memory
  BY <1>2, TableFacts DEF Tree
<1>6. \A f \in fr : f \in Pool => lev[f] = 0
  BY <1>3, TableFacts
<1>7. /\ \A f \in Tables : lev[f] \in 2 .. 4 => f \in Pool \ fr
      /\ \A f \in Pool \ fr : f \in Tables /\ lev[f] \in 2 .. 4
  BY <1>2, TableFacts
<1> QED
  BY <1>4, <1>5, <1>6, <1>7

\* The page that a path leads to, unless a page of the same table is stored.
LEMMA SamePage ==
    ASSUME NEW m, NEW fr, NEW lev, Tree(m, fr, lev), NEW v \in Virtual, NEW w \in Virtual,
           At(m, Path(w), 4) = At(m, Path(v), 4), At(m, Path(v), 4) # Absent,
           Path(w)[4] = Path(v)[4]
    PROVE  w = v
<1>1. IsPath(Path(v)) /\ IsPath(Path(w))
  BY VirtualPaths
<1>2. Path(w)[1] = Path(v)[1] /\ Path(w)[2] = Path(v)[2] /\ Path(w)[3] = Path(v)[3]
  BY <1>1, AtApart
<1>3. Path(w) = <<Path(w)[1], Path(w)[2], Path(w)[3], Path(w)[4]>>
  BY DEF Path
<1>4. Path(v) = <<Path(v)[1], Path(v)[2], Path(v)[3], Path(v)[4]>>
  BY DEF Path
<1>5. Path(w) = Path(v)
  BY <1>2, <1>3, <1>4
<1> QED
  BY <1>5, VirtualPaths

\* What a store in the last entry of v's path leaves behind.
LeafStored(m2, m, fr, lev, v, t, e) ==
    /\ Tree(m2, fr, lev) /\ t \in Pool \ fr
    /\ \A w \in Virtual, k \in 1 .. 4 : At(m2, Path(w), k) = At(m, Path(w), k)
    /\ \A w \in Virtual : At(m2, Path(w), 5) = IF w = v THEN e ELSE At(m, Path(w), 5)
    /\ \A f \in Tables : f # t => m2[f] = m[f]
    /\ m2[t][Path(v)[4]] = e

\* Storing a page.
LEMMA LeafStore ==
    ASSUME NEW m, NEW fr, NEW lev, Tree(m, fr, lev), NEW v \in Virtual, NEW e \in Int,
           NEW t, t = At(m, Path(v), 4), t # Absent,
           NEW m2, Stored(m2, m, t, Path(v)[4], e)
    PROVE  LeafStored(m2, m, fr, lev, v, t, e)
<1>1. IsPath(Path(v)) /\ Path(v)[4] \in Index
  BY VirtualPaths DEF IsPath
<1>2. t \in Tables /\ lev[t] = 4
  BY <1>1, AtTable, 4 \in 1 .. 4
<1>3. t \in Pool \ fr /\ m \in Memory
  BY <1>2, LevelFacts
<1>4. Tree(m2, fr, lev)
  BY <1>2, StoreLeafTree
<1>5. ASSUME NEW w \in Virtual
      PROVE  /\ \A k \in 1 .. 4 : At(m2, Path(w), k) = At(m, Path(w), k)
             /\ At(m2, Path(w), 5) = IF w = v THEN e ELSE At(m, Path(w), 5)
  <2>1. IsPath(Path(w))
    BY VirtualPaths
  <2>2. /\ \A k \in 1 .. 4 : At(m2, Path(w), k) = At(m, Path(w), k)
        /\ At(m2, Path(w), 5) = IF At(m, Path(w), 4) = t /\ Path(w)[4] = Path(v)[4] THEN e ELSE At(m, Path(w), 5)
    BY <1>2, <2>1, StoreLeafAt
  <2>3. (At(m, Path(w), 4) = t /\ Path(w)[4] = Path(v)[4]) => w = v
    BY SamePage
  <2>4. w = v => (At(m, Path(w), 4) = t /\ Path(w)[4] = Path(v)[4])
    OBVIOUS
  <2> QED BY <2>2, <2>3, <2>4
<1>6. \A f \in Tables : f # t => m2[f] = m[f]
  BY <1>3, StoredRow
<1>7. m2[t][Path(v)[4]] = e
  BY <1>1, <1>2 DEF Stored
<1> QED
  BY <1>3, <1>4, <1>5, <1>6, <1>7 DEF LeafStored

\* Storing into a table that is not in the tree.
LEMMA OutsideStore ==
    ASSUME NEW m, NEW fr, NEW lev, Tree(m, fr, lev), NEW t \in Tables, lev[t] = 0,
           NEW i, NEW e, NEW m2, Stored(m2, m, t, i, e)
    PROVE  /\ Tree(m2, fr, lev)
           /\ \A w \in Virtual, k \in 1 .. 5 : At(m2, Path(w), k) = At(m, Path(w), k)
           /\ \A f \in Tables : f # t => m2[f] = m[f]
<1>1. Tree(m2, fr, lev)
  BY StoreLeafTree
<1>2. ASSUME NEW w \in Virtual, NEW k \in 1 .. 5
      PROVE  At(m2, Path(w), k) = At(m, Path(w), k)
  <2>1. IsPath(Path(w))
    BY VirtualPaths
  <2>2. /\ \A j \in 1 .. 4 : At(m2, Path(w), j) = At(m, Path(w), j)
        /\ At(m2, Path(w), 5) = IF At(m, Path(w), 4) = t /\ Path(w)[4] = i THEN e ELSE At(m, Path(w), 5)
    BY <2>1, StoreLeafAt
  <2>3. At(m, Path(w), 4) # t
    BY <2>1, AtTable, 4 \in 1 .. 4, TableFacts
  <2>4. k \in 1 .. 4 \/ k = 5
    OBVIOUS
  <2> QED BY <2>2, <2>3, <2>4
<1>3. \A f \in Tables : f # t => m2[f] = m[f]
  BY LevelFacts, StoredRow
<1> QED
  BY <1>1, <1>2, <1>3

\* What setting a recursive entry leaves behind.
FractalTurned(m2, m, fr, lev, kn, e) ==
    /\ Tree(m2, fr, lev)
    /\ \A w \in Virtual, k \in 1 .. 5 : At(m2, Path(w), k) = At(m, Path(w), k)
    /\ \A f \in Pool : m2[f] = m[f]
    /\ BootTables(m2)
    /\ m2[kn][Recursive] = e
    /\ kn # FinalPml4 => m2[FinalPml4] = m[FinalPml4]

\* Turning the recursive entry of the running PML4, to whatever PML4: no page
\* and no table of the tree is reached through it.
LEMMA FractalStore ==
    ASSUME NEW m, NEW fr, NEW lev, Tree(m, fr, lev), NEW kn \in {BootPml4, FinalPml4},
           NEW e \in Int, BootTables(m),
           NEW m2, m2 = SetEntry(m, kn, Recursive, e)
    PROVE  FractalTurned(m2, m, fr, lev, kn, e)
<1>1. m \in Memory /\ kn \in Tables /\ Recursive \in Index
  BY TableFacts, IndexFacts DEF Tree
<1>2. Stored(m2, m, kn, Recursive, e)
  BY <1>1, SetEntryStored
<1>3. \A f \in Tables : f # kn => m2[f] = m[f]
  BY <1>1, <1>2, StoredRow
<1>4. m2[kn][Recursive] = e /\ m2 \in Memory
  BY <1>1, <1>2 DEF Stored
<1>5. BootTables(m2)
  <2>1. \A g \in Tables, j \in Index : ~(g \in {BootPml4, FinalPml4} /\ j = Recursive) => m2[g][j] = m[g][j]
    BY <1>2 DEF Stored
  <2> QED BY <2>1, BootTablesKept
<1>6. \A f \in Pool : m2[f] = m[f]
  BY <1>3, TableFacts
<1>7. Tree(m2, fr, lev) /\ \A w \in Virtual, k \in 1 .. 5 : At(m2, Path(w), k) = At(m, Path(w), k)
  <2>1. CASE kn = FinalPml4
    <3>1. \A g \in Tables, j \in Index : (g = FinalPml4 => j # Recursive) => m2[g][j] = m[g][j]
      BY <1>2, <2>1 DEF Stored
    <3>2. \A g \in Tables, j \in Index : IsLink(m2, lev, g, j) <=> IsLink(m, lev, g, j)
      BY <3>1 DEF IsLink
    <3>3. \A g \in Tables, j \in Index : IsLink(m2, lev, g, j) => m2[g][j] = m[g][j]
      BY <3>1 DEF IsLink
    <3>4. LinksDescend(m2, lev)
      BY <3>2, <3>3 DEF LinksDescend, Tree
    <3>5. LinksApart(m2, lev)
      BY <3>2, <3>3 DEF LinksApart, Tree
    <3>6. LinkedTables(m2, lev)
      BY <3>2, <3>3 DEF LinkedTables, Tree
    <3>7. Tree(m2, fr, lev)
      BY <1>4, <3>4, <3>5, <3>6 DEF Tree
    <3>8. ASSUME NEW w \in Virtual PROVE \A k \in 1 .. 5 : At(m2, Path(w), k) = At(m, Path(w), k)
      <4>1. IsPath(Path(w)) /\ Path(w)[1] # Recursive
        BY VirtualPaths DEF IsPath
      <4>2. ASSUME NEW j \in 1 .. 4, At(m2, Path(w), j) = At(m, Path(w), j)
            PROVE  At(m2, Path(w), j + 1) = At(m, Path(w), j + 1)
        <5>1. PICK t : t = At(m, Path(w), j)
          OBVIOUS
        <5>2. Path(w)[j] \in Index
          BY <4>1, PathIndex
        <5>3. t = FinalPml4 => Path(w)[j] # Recursive
          <6>1. t # Absent => lev[t] = j
            BY <4>1, <5>1, AtTable
          <6>2. lev[FinalPml4] = 1 /\ FinalPml4 # Absent
            BY LevelFacts, TableFacts
          <6> QED BY <4>1, <6>1, <6>2
        <5>4. At(m2, Path(w), j + 1) = Entry(m2, t, Path(w)[j]) /\ At(m, Path(w), j + 1) = Entry(m, t, Path(w)[j])
          BY <4>2, <5>1, AtStep
        <5>5. Entry(m2, t, Path(w)[j]) = Entry(m, t, Path(w)[j])
          BY <3>1, <5>2, <5>3 DEF Entry
        <5> QED BY <5>4, <5>5
      <4>3. At(m2, Path(w), 1) = At(m, Path(w), 1)
        BY AtSteps
      <4>4. At(m2, Path(w), 2) = At(m, Path(w), 2)
        BY <4>2, <4>3, 1 + 1 = 2, 1 \in 1 .. 4
      <4>5. At(m2, Path(w), 3) = At(m, Path(w), 3)
        BY <4>2, <4>4, 2 + 1 = 3, 2 \in 1 .. 4
      <4>6. At(m2, Path(w), 4) = At(m, Path(w), 4)
        BY <4>2, <4>5, 3 + 1 = 4, 3 \in 1 .. 4
      <4>7. At(m2, Path(w), 5) = At(m, Path(w), 5)
        BY <4>2, <4>6, 4 + 1 = 5, 4 \in 1 .. 4
      <4>8. \A k \in 1 .. 5 : k = 1 \/ k = 2 \/ k = 3 \/ k = 4 \/ k = 5
        OBVIOUS
      <4> QED BY <4>3, <4>4, <4>5, <4>6, <4>7, <4>8
    <3> QED BY <3>7, <3>8
  <2>2. CASE kn = BootPml4
    <3>1. lev[kn] = 0
      BY <2>2, LevelFacts
    <3> QED BY <1>1, <1>2, <3>1, OutsideStore
  <2> QED BY <2>1, <2>2
<1> QED
  BY <1>3, <1>4, <1>5, <1>6, <1>7, TableFacts DEF FractalTurned

\* The fractal mapping turned to final_pml4 shows its tables.
LEMMA TableIsAt ==
    ASSUME NEW m, kernel \in Tables, m[kernel][Recursive] = FinalPml4,
           m[FinalPml4][Recursive] = FinalPml4, NEW v, NEW k \in 1 .. 4
    PROVE  Table(m, v, k) = At(m, Path(v), k)
<1> DEFINE a == TableAddress(v, k)
           p == Path(v)
<1>1. FinalPml4 \in Tables
  BY TableFacts
<1>2. Entry(m, kernel, Recursive) = FinalPml4 /\ Entry(m, FinalPml4, Recursive) = FinalPml4
  BY <1>1 DEF Entry
<1>3. \A j \in 1 .. 4 : a[j] = IF j + k <= 5 THEN Recursive ELSE p[j + k - 5]
  BY DEF TableAddress
<1>4. Table(m, v, k) = Entry(m, Entry(m, Entry(m, Entry(m, kernel, a[1]), a[2]), a[3]), a[4])
  BY DEF Table, Walk
<1> HIDE DEF a, p
<1>5. CASE k = 1
  <2>1. a[1] = Recursive /\ a[2] = Recursive /\ a[3] = Recursive /\ a[4] = Recursive
    BY <1>3, <1>5
  <2> QED BY <1>2, <1>4, <1>5, <2>1 DEF At
<1>6. CASE k = 2
  <2>1. a[1] = Recursive /\ a[2] = Recursive /\ a[3] = Recursive /\ a[4] = p[1]
    BY <1>3, <1>6
  <2> QED BY <1>2, <1>4, <1>6, <2>1 DEF At, p
<1>7. CASE k = 3
  <2>1. a[1] = Recursive /\ a[2] = Recursive /\ a[3] = p[1] /\ a[4] = p[2]
    BY <1>3, <1>7
  <2> QED BY <1>2, <1>4, <1>7, <2>1 DEF At, p
<1>8. CASE k = 4
  <2>1. a[1] = Recursive /\ a[2] = p[1] /\ a[3] = p[2] /\ a[4] = p[3]
    BY <1>3, <1>8
  <2> QED BY <1>2, <1>4, <1>8, <2>1 DEF At, p
<1>9. k = 1 \/ k = 2 \/ k = 3 \/ k = 4
  OBVIOUS
<1> QED
  BY <1>5, <1>6, <1>7, <1>8, <1>9

\* While the boot tables are running the window is a page of boot_pt.
LEMMA BootWindow ==
    ASSUME NEW m, kernel = BootPml4, m[BootPml4][Recursive] = BootPml4, BootTables(m)
    PROVE  Table(m, Window, 4) = BootPt
<1> DEFINE a == TableAddress(Window, 4)
           p == Path(Window)
<1>1. p[1] = N - 1 /\ p[2] = N - 2 /\ p[3] = 0
  BY VirtualPaths
<1> HIDE DEF p
<1>2. \A j \in 1 .. 4 : a[j] = IF j + 4 <= 5 THEN Recursive ELSE p[j + 4 - 5]
  BY DEF TableAddress, p
<1>3. Table(m, Window, 4) = Entry(m, Entry(m, Entry(m, Entry(m, kernel, a[1]), a[2]), a[3]), a[4])
  BY DEF Table, Walk
<1> HIDE DEF a
<1>4. a[1] = Recursive /\ a[2] = p[1] /\ a[3] = p[2] /\ a[4] = p[3]
  BY <1>2
<1> QED
  BY <1>1, <1>3, <1>4, TableFacts DEF Entry, BootTables

\* The table the window is in.
WindowTable(m) == IF kernel = FinalPml4 THEN At(m, Path(Window), 4) ELSE BootPt

\* MapWindow stores one entry, the window's, whatever the fractal mapping is.
LEMMA MapWindowStores ==
    ASSUME NEW m \in Memory, kernel \in {BootPml4, FinalPml4},
           m[FinalPml4][Recursive] = FinalPml4, BootTables(m),
           m[kernel][Recursive] \in Int,
           kernel = FinalPml4 => At(m, Path(Window), 4) \in Tables, NEW f \in Int
    PROVE  Stored(MapWindow(m, f), m, WindowTable(m), 1, f)
<1> DEFINE m1 == SetEntry(m, kernel, Recursive, kernel)
           t  == Table(m1, Window, 4)
           m2 == SetEntry(m1, t, Path(Window)[4], f)
           m3 == SetEntry(m2, kernel, Recursive, m[kernel][Recursive])
<1>0. /\ kernel \in Tables /\ Recursive \in Index /\ 1 \in Index /\ kernel \in Int /\ Path(Window)[4] = 1
      /\ Recursive # 1
  <2>1. kernel \in Tables /\ kernel \in Int
    BY TableFacts
  <2>2. Path(Window)[4] = 1
    BY VirtualPaths
  <2>3. Recursive \in Index /\ 1 \in Index /\ Recursive # 1
    BY IndexFacts, PagingAssumption DEF Recursive
  <2> QED BY <2>1, <2>2, <2>3
<1>1. Stored(m1, m, kernel, Recursive, kernel) /\ m1 \in Memory
  BY <1>0, SetEntryStored DEF Stored
<1>2. MapWindow(m, f) = m3
  BY DEF MapWindow
<1>3. t = WindowTable(m) /\ t \in Tables
  <2>1. CASE kernel = FinalPml4
    <3>1. m1 = m
      BY <2>1, TableFacts, IndexFacts DEF SetEntry, Memory
    <3> HIDE DEF m1
    <3>2. Table(m1, Window, 4) = At(m, Path(Window), 4)
      BY <3>1, <2>1, <1>0, TableIsAt, 4 \in 1 .. 4
    <3> QED BY <2>1, <3>2 DEF WindowTable
  <2>2. CASE kernel = BootPml4
    <3>1. m1[BootPml4][Recursive] = BootPml4
      BY <2>2, <1>0, <1>1 DEF Stored
    <3>2. BootTables(m1)
      <4>1. \A g \in Tables, j \in Index : ~(g \in {BootPml4, FinalPml4} /\ j = Recursive) => m1[g][j] = m[g][j]
        BY <2>2, <1>1 DEF Stored
      <4> HIDE DEF m1
      <4> QED BY <4>1, BootTablesKept
    <3> HIDE DEF m1
    <3>3. Table(m1, Window, 4) = BootPt
      BY <2>2, <3>1, <3>2, BootWindow
    <3> QED BY <2>2, <3>3, TableFacts DEF WindowTable
  <2> QED BY <2>1, <2>2
<1> HIDE DEF m1, t
<1>4. Stored(m2, m1, t, 1, f) /\ m2 \in Memory
  <2>1. Stored(m2, m1, t, Path(Window)[4], f)
    BY <1>0, <1>1, <1>3, SetEntryStored
  <2> HIDE DEF m2
  <2> QED BY <1>0, <2>1 DEF Stored
<1> HIDE DEF m2
<1>5. Stored(m3, m2, kernel, Recursive, m[kernel][Recursive]) /\ m3 \in Memory
  <2>1. Stored(m3, m2, kernel, Recursive, m[kernel][Recursive])
    BY <1>0, <1>4, SetEntryStored
  <2> HIDE DEF m3
  <2> QED BY <2>1 DEF Stored
<1> HIDE DEF m3
<1>6. \A g \in Tables, j \in Index : m3[g][j] = IF g = t /\ j = 1 THEN f ELSE m[g][j]
  <2> TAKE g \in Tables, j \in Index
  <2>1. m1[g][j] = IF g = kernel /\ j = Recursive THEN kernel ELSE m[g][j]
    BY <1>1 DEF Stored
  <2>2. m2[g][j] = IF g = t /\ j = 1 THEN f ELSE m1[g][j]
    BY <1>4 DEF Stored
  <2>3. m3[g][j] = IF g = kernel /\ j = Recursive THEN m[kernel][Recursive] ELSE m2[g][j]
    BY <1>5 DEF Stored
  <2> QED BY <2>1, <2>2, <2>3, <1>0
<1> QED
  BY <1>2, <1>3, <1>5, <1>6 DEF Stored

\* Mapping the window keeps the tree, and every other page.
LEMMA WindowStore ==
    ASSUME NEW m, NEW fr, NEW lev, Tree(m, fr, lev), kernel \in {BootPml4, FinalPml4},
           m[FinalPml4][Recursive] = FinalPml4, BootTables(m), m[kernel][Recursive] \in Int,
           kernel = FinalPml4 => At(m, Path(VgaPage), 5) # Absent,
           NEW f \in Nat, NEW m2, m2 = MapWindow(m, f)
    PROVE  /\ Tree(m2, fr, lev)
           /\ \A w \in Virtual, k \in 1 .. 4 : At(m2, Path(w), k) = At(m, Path(w), k)
           /\ \A w \in Virtual : w # Window => At(m2, Path(w), 5) = At(m, Path(w), 5)
           /\ \A g \in Pool : m2[g] = EmptyTable <=> m[g] = EmptyTable
           /\ \A g \in Tables, j \in Index : m[g][j] # m2[g][j] => lev[g] \in {0, 4}
           /\ BootTables(m2)
           /\ m2[FinalPml4][Recursive] = FinalPml4 /\ m2[kernel][Recursive] = m[kernel][Recursive]
<1>0. m \in Memory /\ f \in Int /\ f # Absent /\ Window \in Virtual /\ VgaPage \in Virtual /\ 1 \in Index
  BY VirtualPaths, IndexFacts DEF Tree, Absent
<1>1. CASE kernel = FinalPml4
  <2> DEFINE t == At(m, Path(Window), 4)
  <2>1. At(m, Path(VgaPage), 4) = t /\ Path(VgaPage)[4] = 0 /\ Path(Window)[4] = 1
    BY VirtualPaths DEF At
  <2>2. t \in Tables /\ t # Absent /\ m[t][0] # Absent
    BY <1>1, <2>1, AtAbove, 4 \in 1 .. 4, 4 + 1 = 5, TableFacts
  <2>3. Stored(m2, m, t, Path(Window)[4], f)
    BY <1>0, <1>1, <2>1, <2>2, MapWindowStores DEF WindowTable
  <2>4. t = At(m, Path(Window), 4)
    OBVIOUS
  <2> HIDE DEF t
  <2>5. /\ Tree(m2, fr, lev) /\ t \in Pool \ fr
        /\ \A w \in Virtual, k \in 1 .. 4 : At(m2, Path(w), k) = At(m, Path(w), k)
        /\ \A w \in Virtual : At(m2, Path(w), 5) = IF w = Window THEN f ELSE At(m, Path(w), 5)
        /\ \A g \in Tables : g # t => m2[g] = m[g]
        /\ m2[t][Path(Window)[4]] = f
    <3>1. LeafStored(m2, m, fr, lev, Window, t, f)
      BY <1>0, <2>2, <2>3, <2>4, LeafStore
    <3> QED BY <3>1 DEF LeafStored
  <2>6. \A g \in Pool : m2[g] = EmptyTable <=> m[g] = EmptyTable
    <3>1. m2[t][1] # Absent /\ m[t][0] # Absent
      BY <1>0, <2>1, <2>2, <2>5
    <3>2. m2[t] # EmptyTable /\ m[t] # EmptyTable
      BY <3>1, IndexFacts DEF EmptyTable
    <3> QED BY <2>5, <3>2, TableFacts
  <2>7. lev[t] = 4
    BY <2>2, <2>4, VirtualPaths, AtTable, 4 \in 1 .. 4
  <2>8. \A g \in Tables, j \in Index : m[g][j] # m2[g][j] => lev[g] \in {0, 4}
    BY <2>5, <2>7
  <2>9. BootTables(m2)
    BY <2>5, TableFacts DEF BootTables
  <2> QED BY <1>1, <2>5, <2>6, <2>8, <2>9, TableFacts
<1>2. CASE kernel = BootPml4
  <2>1. Stored(m2, m, BootPt, 1, f)
    BY <1>0, <1>2, TableFacts, MapWindowStores DEF WindowTable
  <2>2. lev[BootPt] = 0 /\ BootPt \in Tables
    BY LevelFacts, TableFacts
  <2>3. /\ Tree(m2, fr, lev)
        /\ \A w \in Virtual, k \in 1 .. 5 : At(m2, Path(w), k) = At(m, Path(w), k)
        /\ \A g \in Tables : g # BootPt => m2[g] = m[g]
    BY <2>1, <2>2, OutsideStore
  <2>4. \A j \in Index : j # 1 => m2[BootPt][j] = m[BootPt][j]
    BY <2>1, <2>2 DEF Stored
  <2>5. BootTables(m2)
    BY <2>3, <2>4, TableFacts DEF BootTables
  <2>6. \A g \in Tables, j \in Index : m[g][j] # m2[g][j] => lev[g] \in {0, 4}
    BY <2>2, <2>3
  <2>7. \A g \in Pool : m2[g] = m[g]
    BY <2>3, TableFacts
  <2>8. m2[FinalPml4][Recursive] = FinalPml4 /\ m2[kernel][Recursive] = m[kernel][Recursive]
    BY <1>2, <2>3, TableFacts
  <2>9. \A w \in Virtual : At(m2, Path(w), 5) = At(m, Path(w), 5)
    BY <2>3, 5 \in 1 .. 5
  <2>10. \A w \in Virtual, k \in 1 .. 4 : At(m2, Path(w), k) = At(m, Path(w), k)
    <3> TAKE w \in Virtual, k \in 1 .. 4
    <3>1. k \in 1 .. 5
      OBVIOUS
    <3> QED BY <2>3, <3>1
  <2> QED BY <2>3, <2>5, <2>6, <2>7, <2>8, <2>9, <2>10
<1> QED
  BY <1>1, <1>2

\* A store into the table a path reaches leaves the path to it alone.
LEMMA AtPrefix ==
    ASSUME NEW m, NEW fr, NEW lev, Tree(m, fr, lev), NEW p, IsPath(p), NEW k \in 1 .. 3,
           NEW t, t = At(m, p, k), t # Absent, NEW i, NEW e, NEW m2, Stored(m2, m, t, i, e)
    PROVE  At(m2, p, k) = t
<1>1. t \in Tables /\ lev[t] = k
  BY AtTable
<1>2. ASSUME NEW j \in 1 .. 2, j < k, At(m2, p, j) = At(m, p, j)
      PROVE  At(m2, p, j + 1) = At(m, p, j + 1)
  <2>1. At(m, p, j) # Absent => At(m, p, j) \in Tables /\ lev[At(m, p, j)] = j
    BY AtTable
  <2>2. p[j] \in Index
    BY PathIndex
  <2>3. At(m2, p, j + 1) = Entry(m2, At(m, p, j), p[j]) /\ At(m, p, j + 1) = Entry(m, At(m, p, j), p[j])
    BY <1>2, AtStep
  <2>4. At(m, p, j) # t
    BY <1>1, <1>2, <2>1
  <2>5. Entry(m2, At(m, p, j), p[j]) = Entry(m, At(m, p, j), p[j])
    BY <2>2, <2>4 DEF Entry, Stored
  <2> QED BY <2>3, <2>5
<1>3. At(m2, p, 1) = At(m, p, 1)
  BY AtSteps
<1>4. k > 1 => At(m2, p, 2) = At(m, p, 2)
  BY <1>2, <1>3, 1 + 1 = 2, 1 \in 1 .. 2
<1>5. k > 2 => At(m2, p, 3) = At(m, p, 3)
  BY <1>2, <1>4, 2 + 1 = 3, 2 \in 1 .. 2
<1>6. k = 1 \/ k = 2 \/ k = 3
  OBVIOUS
<1> QED
  BY <1>3, <1>4, <1>5, <1>6

\* The state in which map.c and unmap.c edit the tables.
Editable(m, fr, lev) ==
    /\ Tree(m, fr, lev)
    /\ kernel \in {BootPml4, FinalPml4}
    /\ m[kernel][Recursive] = FinalPml4 /\ m[FinalPml4][Recursive] = FinalPml4
    /\ BootTables(m)
    /\ kernel = FinalPml4 => At(m, Path(VgaPage), 5) # Absent

\* In the middle of an edit an access through the recursive entry reaches
\* the table of the context being edited.
LEMMA EditableTable ==
    ASSUME NEW m, NEW fr, NEW lev, Editable(m, fr, lev), NEW v, NEW k \in 1 .. 4
    PROVE  Table(m, v, k) = At(m, Path(v), k)
  BY TableIsAt, TableFacts DEF Editable

\* What linking a new table f at level k + 1 of v's path leaves behind.
TableAdded(m2, m, fr, v, k, t, f) ==
    /\ \E lev2 : Tree(m2, fr \ {f}, lev2)
    /\ \A w \in Virtual : w # Window => At(m2, Path(w), 5) = At(m, Path(w), 5)
    /\ At(m2, Path(v), k + 1) = f
    /\ \A g \in Pool \ fr : m2[g] = EmptyTable => m[g] = EmptyTable /\ g # t
    /\ BootTables(m2)
    /\ m2[FinalPml4][Recursive] = FinalPml4 /\ m2[kernel][Recursive] = FinalPml4

\* A new table.
LEMMA GrowEdit ==
    ASSUME NEW m, NEW fr, NEW lev, Editable(m, fr, lev), NEW v \in Virtual, NEW k \in 1 .. 3,
           NEW t, t = At(m, Path(v), k), t \in Tables, m[t][Path(v)[k]] = Absent,
           NEW f \in Pool, f \in fr, NEW m2, m2 = Linked(m, t, v, k, f)
    PROVE  TableAdded(m2, m, fr, v, k, t, f)
<1> DEFINE p  == Path(v)
           i  == p[k]
           mw == MapWindow(m, f)
           m1 == SetEntry(mw, t, i, f)
<1>1. IsPath(p) /\ i \in Index /\ (k = 1 => i # Recursive)
  BY VirtualPaths, PathIndex
<1>2. Tree(m, fr, lev) /\ kernel \in {BootPml4, FinalPml4} /\ m[FinalPml4][Recursive] = FinalPml4
      /\ BootTables(m) /\ (kernel = FinalPml4 => At(m, Path(VgaPage), 5) # Absent)
      /\ m[kernel][Recursive] = FinalPml4 /\ kernel \in Tables
  BY TableFacts DEF Editable
<1>3. f \in Nat /\ f \in Int /\ f \in Tables /\ f # Absent /\ FinalPml4 \in Int
  BY TableFacts
<1>4. /\ Tree(mw, fr, lev)
      /\ \A w \in Virtual, j \in 1 .. 4 : At(mw, Path(w), j) = At(m, Path(w), j)
      /\ \A w \in Virtual : w # Window => At(mw, Path(w), 5) = At(m, Path(w), 5)
      /\ \A g \in Pool : mw[g] = EmptyTable <=> m[g] = EmptyTable
      /\ \A g \in Tables, j \in Index : m[g][j] # mw[g][j] => lev[g] \in {0, 4}
      /\ BootTables(mw)
      /\ mw[FinalPml4][Recursive] = FinalPml4 /\ mw[kernel][Recursive] = FinalPml4
  BY <1>2, <1>3, WindowStore
<1>5. t # Absent /\ lev[t] = k /\ (t = FinalPml4 => i # Recursive) /\ t # BootPml4
  <2>1. t # Absent
    BY TableFacts
  <2>2. lev[t] = k
    BY <1>1, <1>2, <2>1, AtTable
  <2>3. t = FinalPml4 => k = 1
    BY <1>2, <2>2, LevelFacts
  <2>4. t # BootPml4
    BY <1>2, <2>2, LevelFacts
  <2> QED BY <2>1, <2>2, <2>3, <2>4, <1>1
<1>6. t = At(mw, p, k)
  <2>1. k \in 1 .. 4
    OBVIOUS
  <2> QED BY <1>4, <2>1
<1>7. mw[t][i] = Absent
  <2>1. lev[t] \notin {0, 4}
    BY <1>5
  <2> QED BY <1>1, <1>4, <2>1
<1>8. mw \in Memory
  BY <1>4 DEF Tree
<1>9. m2 = [m1 EXCEPT ![Table(m1, v, k + 1)] = EmptyTable]
  BY DEF Linked
<1> HIDE DEF mw
<1>10. Stored(m1, mw, t, i, f)
  BY <1>1, <1>3, <1>8, SetEntryStored
<1> HIDE DEF m1
<1>11. m1[kernel][Recursive] = FinalPml4 /\ m1[FinalPml4][Recursive] = FinalPml4
  <2>1. ~(t = FinalPml4 /\ i = Recursive) /\ ~(t = kernel /\ i = Recursive)
    BY <1>2, <1>5
  <2> QED BY <1>2, <1>4, <1>10, <2>1, TableFacts, IndexFacts DEF Stored
<1>12. Table(m1, v, k + 1) = f
  <2>1. k + 1 \in 1 .. 4 /\ k \in 1 .. 4
    OBVIOUS
  <2>2. Table(m1, v, k + 1) = At(m1, p, k + 1)
    BY <1>2, <1>11, <2>1, TableIsAt
  <2>3. At(m1, p, k) = t
    BY <1>1, <1>4, <1>5, <1>6, <1>10, AtPrefix
  <2>4. At(m1, p, k + 1) = Entry(m1, t, i)
    BY <2>1, <2>3, AtStep
  <2>5. m1[t][i] = f
    BY <1>1, <1>10 DEF Stored
  <2> QED BY <2>2, <2>4, <2>5 DEF Entry
<1>13. Grown(m2, mw, t, i, f)
  <2>1. m1 \in Memory
    BY <1>10 DEF Stored
  <2>2. m2 = [m1 EXCEPT ![f] = EmptyTable]
    BY <1>9, <1>12
  <2>3. EmptyTable \in [Index -> Int] /\ \A j \in Index : EmptyTable[j] = Absent
    BY DEF EmptyTable, Absent
  <2>4. m2 \in Memory
    BY <2>1, <2>2, <2>3, <1>3 DEF Memory
  <2>5. \A g \in Tables, j \in Index : m2[g][j] = IF g = f THEN Absent ELSE m1[g][j]
    BY <2>1, <2>2, <2>3, <1>3 DEF Memory
  <2> QED BY <2>4, <2>5, <1>10 DEF Grown, Stored
<1>14. lev[t] \in 1 .. 3
  BY <1>5
<1>15. Tree(m2, fr \ {f}, [lev EXCEPT ![f] = lev[t] + 1])
  BY <1>1, <1>4, <1>5, <1>7, <1>13, <1>14, GrowTree
<1>16. ASSUME NEW w \in Virtual
       PROVE  /\ \A j \in 1 .. 4 : At(mw, Path(w), j) # Absent => At(m2, Path(w), j) = At(mw, Path(w), j)
              /\ At(m2, Path(w), 5) = At(mw, Path(w), 5)
  <2>1. IsPath(Path(w))
    BY VirtualPaths
  <2> QED BY <2>1, <1>1, <1>4, <1>7, <1>13, <1>14, GrowAt
<1>17. At(m2, p, k + 1) = f
  <2>1. k \in 1 .. 4
    OBVIOUS
  <2>2. At(m2, p, k) = t
    BY <2>1, <1>5, <1>6, <1>16
  <2>3. At(m2, p, k + 1) = Entry(m2, t, i)
    BY <2>1, <2>2, AtStep
  <2>4. t # f
    BY <1>3, <1>4, <1>14, LevelFacts
  <2>5. m2[t][i] = f
    BY <1>1, <1>13, <2>4 DEF Grown
  <2> QED BY <2>3, <2>5 DEF Entry
<1>18. \A g \in Pool \ fr : m2[g] = EmptyTable => m[g] = EmptyTable /\ g # t
  <2> TAKE g \in Pool \ fr
  <2> HAVE m2[g] = EmptyTable
  <2>1. g \in Tables /\ g # f
    BY TableFacts
  <2>2. \A j \in Index : m2[g][j] = Absent
    BY DEF EmptyTable
  <2>3. g # t
    BY <1>1, <1>3, <1>13, <2>1, <2>2 DEF Grown
  <2>4. \A j \in Index : mw[g][j] = Absent
    BY <1>13, <2>1, <2>2, <2>3 DEF Grown
  <2>5. mw[g] = EmptyTable
    BY <1>8, <2>1, <2>4, EmptyTableEntries
  <2> QED BY <1>4, <2>3, <2>5
<1>19. /\ BootTables(m2)
       /\ m2[FinalPml4][Recursive] = FinalPml4 /\ m2[kernel][Recursive] = FinalPml4
  <2>1. \A g \in Tables : lev[g] = 0 /\ g # f => \A j \in Index : m2[g][j] = mw[g][j]
    BY <1>5, <1>13 DEF Grown
  <2>2. f \notin {BootPml4, BootPdpt, BootPd, BootPt, FinalPml4, ProcessPml4}
    BY TableFacts
  <2>3. /\ lev[BootPml4] = 0 /\ lev[BootPdpt] = 0 /\ lev[BootPd] = 0 /\ lev[BootPt] = 0
        /\ lev[ProcessPml4] = 0
    BY <1>4, LevelFacts
  <2>4. \A g \in {BootPml4, BootPdpt, BootPd, BootPt, ProcessPml4} : \A j \in Index : m2[g][j] = mw[g][j]
    BY <2>1, <2>2, <2>3, TableFacts
  <2>5. BootTables(m2)
    <3>1. BootTables(mw)
      BY <1>4
    <3>2. \A j \in Index : j # 1 => m2[BootPt][j] = j
      BY <2>4, <3>1 DEF BootTables
    <3>3. \A j \in Index : j # Recursive => m2[ProcessPml4][j] = Absent
      BY <2>4, <3>1 DEF BootTables
    <3>4. m2[BootPml4][N - 1] = BootPdpt /\ m2[BootPdpt][N - 2] = BootPd /\ m2[BootPd][0] = BootPt
      BY <2>4, <3>1, IndexFacts DEF BootTables
    <3> QED BY <3>2, <3>3, <3>4 DEF BootTables
  <2>6. m2[FinalPml4][Recursive] = mw[FinalPml4][Recursive]
    BY <1>5, <1>13, <2>2, TableFacts, IndexFacts DEF Grown
  <2> QED BY <1>2, <1>4, <2>4, <2>5, <2>6, IndexFacts
<1>20. \A w \in Virtual : w # Window => At(m2, Path(w), 5) = At(m, Path(w), 5)
  BY <1>4, <1>16
<1> QED
  BY <1>15, <1>17, <1>18, <1>19, <1>20 DEF TableAdded

\* What releasing the empty table c at level k + 1 of v's path leaves behind.
TableRemoved(m2, m, fr, v, k, t, c) ==
    /\ \E lev2 : Tree(m2, fr \cup {c}, lev2)
    /\ c \in Pool \ fr /\ t \in Tables
    /\ \A w \in Virtual : w # Window => At(m2, Path(w), 5) = At(m, Path(w), 5)
    /\ At(m2, Path(v), k) = t
    /\ \A g \in Pool : m2[g] = EmptyTable => m[g] = EmptyTable \/ g = t
    /\ BootTables(m2)
    /\ m2[FinalPml4][Recursive] = FinalPml4 /\ m2[kernel][Recursive] = FinalPml4

\* An empty table given back.
LEMMA PruneEdit ==
    ASSUME NEW m, NEW fr, NEW lev, Editable(m, fr, lev), NEW v \in Virtual, NEW k \in 1 .. 3,
           NEW t, t = At(m, Path(v), k), NEW c, c = At(m, Path(v), k + 1), c \in Tables,
           m[c] = EmptyTable,
           NEW m2, m2 = SetEntry(MapWindow(m, c), t, Path(v)[k], Absent)
    PROVE  TableRemoved(m2, m, fr, v, k, t, c)
<1> DEFINE p  == Path(v)
           i  == p[k]
           mw == MapWindow(m, c)
<1>1. IsPath(p) /\ i \in Index /\ (k = 1 => i # Recursive)
  BY VirtualPaths, PathIndex
<1>2. Tree(m, fr, lev) /\ kernel \in {BootPml4, FinalPml4} /\ m[FinalPml4][Recursive] = FinalPml4
      /\ BootTables(m) /\ (kernel = FinalPml4 => At(m, Path(VgaPage), 5) # Absent)
      /\ m[kernel][Recursive] = FinalPml4 /\ kernel \in Tables
  BY TableFacts DEF Editable
<1>3. c \in Nat /\ c # Absent /\ k \in 1 .. 4 /\ k + 1 \in 1 .. 4 /\ FinalPml4 \in Int
  BY TableFacts
<1>4. /\ Tree(mw, fr, lev)
      /\ \A w \in Virtual, j \in 1 .. 4 : At(mw, Path(w), j) = At(m, Path(w), j)
      /\ \A w \in Virtual : w # Window => At(mw, Path(w), 5) = At(m, Path(w), 5)
      /\ \A g \in Pool : mw[g] = EmptyTable <=> m[g] = EmptyTable
      /\ BootTables(mw)
      /\ mw[FinalPml4][Recursive] = FinalPml4 /\ mw[kernel][Recursive] = FinalPml4
  BY <1>2, <1>3, WindowStore
<1>5. m2 = SetEntry(mw, t, i, Absent)
  OBVIOUS
<1> HIDE DEF mw
<1>6. At(mw, p, k) = t /\ At(mw, p, k + 1) = c
  BY <1>3, <1>4
<1>7. IsLink(mw, lev, t, i) /\ mw[t][i] = c
  BY <1>1, <1>3, <1>4, <1>6, AtLink
<1>8. t \in Tables /\ mw \in Memory /\ lev[t] \in 1 .. 3
  BY <1>4, <1>7 DEF IsLink, Tree
<1>9. Stored(m2, mw, t, i, Absent)
  BY <1>1, <1>5, <1>8, SetEntryStored, TableFacts
<1>10. c \in Pool \ fr /\ lev[c] = k + 1
  <2>1. lev[c] = k + 1
    BY <1>1, <1>3, <1>4, <1>6, AtTable
  <2> QED BY <2>1, <1>4, LevelFacts
<1>11. \A j \in Index : mw[c][j] = Absent
  BY <1>4, <1>10 DEF EmptyTable
<1>12. Tree(m2, fr \cup {c}, [lev EXCEPT ![c] = 0])
  BY <1>4, <1>7, <1>9, <1>11, PruneTree
<1>13. ASSUME NEW w \in Virtual
       PROVE  /\ \A j \in 1 .. 4 : At(mw, Path(w), j) # c => At(m2, Path(w), j) = At(mw, Path(w), j)
              /\ At(m2, Path(w), 5) = At(mw, Path(w), 5)
  <2>1. IsPath(Path(w))
    BY VirtualPaths
  <2> QED BY <2>1, <1>4, <1>7, <1>9, <1>11, PruneAt
<1>14. lev[t] = k
  BY <1>1, <1>3, <1>4, <1>6, <1>8, AtTable, TableFacts
<1>15. At(m2, p, k) = t
  <2>1. t # c
    BY <1>10, <1>14
  <2> QED BY <2>1, <1>3, <1>6, <1>13
<1>16. \A g \in Tables : g # t => m2[g] = mw[g]
  BY <1>8, <1>9, StoredRow
<1>17. \A g \in Pool : m2[g] = EmptyTable => m[g] = EmptyTable \/ g = t
  BY <1>4, <1>16, TableFacts
<1>18. BootTables(m2)
  <2>1. t \notin {BootPml4, BootPdpt, BootPd, BootPt, ProcessPml4}
    BY <1>4, <1>8, LevelFacts
  <2> QED BY <2>1, <1>4, <1>16, TableFacts DEF BootTables
<1>19. m2[FinalPml4][Recursive] = FinalPml4 /\ m2[kernel][Recursive] = FinalPml4
  <2>1. t = FinalPml4 => i # Recursive
    BY <1>7 DEF IsLink
  <2>2. t # BootPml4
    BY <1>4, <1>8, LevelFacts
  <2>3. ~(t = FinalPml4 /\ i = Recursive) /\ ~(t = kernel /\ i = Recursive)
    BY <1>2, <2>1, <2>2
  <2> QED BY <1>2, <1>4, <1>9, <2>3, TableFacts, IndexFacts DEF Stored
<1>20. \A w \in Virtual : w # Window => At(m2, Path(w), 5) = At(m, Path(w), 5)
  BY <1>4, <1>13
<1> QED
  BY <1>8, <1>10, <1>12, <1>15, <1>17, <1>18, <1>19, <1>20 DEF TableRemoved

-----------------------------------------------------------------------------
(* The inductive invariant.                                                *)

\* The fractal mapping is at the context between SwitchFractal and the
\* return of the call.
Editing(c) == c.pc \in {"tables", "unmapping", "release"}

\* The one table that may be empty in the middle of an edit.
Current(m, c) ==
    IF c.pc = "tables" THEN At(m, Path(c.v), c.level)
    ELSE IF c.pc = "release" THEN At(m, Path(c.v), c.level + 1)
    ELSE Absent

\* The calls that can be in progress.
Calls == [pc : {"map", "tables", "unmap", "unmapping", "release"}, ctx : {FinalPml4, ProcessPml4},
          v : Nat, phys : Nat, left : Nat \ {0}, level : 0 .. 4, saved : Int]

\* What the pages of a call can be: the kernel's image, the screen, or
\* pages of a client.
CallFits(st, c) ==
    /\ st = "image" => /\ c.pc \in {"map", "tables"}
                       /\ c.v \in KernelStart .. KernelStart + KernelPages - 1
                       /\ c.v + c.left = KernelStart + KernelPages
                       /\ c.phys = c.v - VmaBase
    /\ st = "vga" => c.pc \in {"map", "tables"} /\ c.v = VgaPage /\ c.left = 1 /\ c.phys = 0
    /\ st = "up" => /\ c.v \in ClientPages
                    /\ c.pc \in {"map", "tables"} => c.v .. c.v + c.left - 1 \subseteq ClientPages

\* What the recursive entry holds between calls.
Resting == IF strayed THEN ProcessPml4 ELSE kernel

\* What a call has in hand.
CallOK ==
    \/ call = Idle
    \/ /\ call \in Calls /\ stage # "boot"
       /\ call.pc = "tables" => call.level \in 1 .. 4
       /\ call.pc = "release" => call.level \in 0 .. 3
       /\ Editing(call) => call.saved = Resting
       /\ call.ctx = ProcessPml4 => call.pc \in {"unmap", "unmapping"} /\ stage = "up"
       /\ CallFits(stage, call)

\* CR3 changes once, when arch_mm_init is done.
StageOK ==
    /\ stage \in {"boot", "image", "vga", "up"}
    /\ kernel = IF stage = "up" THEN FinalPml4 ELSE BootPml4
    /\ free \subseteq Pool
    /\ expected \in [Virtual -> Int]
    /\ strayed \in BOOLEAN /\ (strayed => stage = "up")

\* Where the recursive entries point.
FractalOK ==
    IF stage = "boot" THEN mem[FinalPml4] = EmptyTable
    ELSE /\ kernel # FinalPml4 => mem[FinalPml4][Recursive] = FinalPml4
         /\ mem[kernel][Recursive] = IF Editing(call) THEN call.ctx ELSE Resting

\* The tables form a tree, and only the one being edited may be empty.
TreeOK ==
    /\ \E lev : Tree(mem, free, lev)
    /\ \A f \in Pool \ free : mem[f] = EmptyTable => f = Current(mem, call)
    /\ call.pc \in {"tables", "release"} => Current(mem, call) \in Tables

\* The pages of the kernel that final_pml4 has already.
Mapped(st, c, v) ==
    /\ st = "image" => v >= KernelStart /\ (c # Idle => v < c.v)
    /\ st = "vga" => v >= KernelStart \/ c = Idle

\* The pages final_pml4 answers for.
Settled(st, c, v) == st # "boot" /\ (v \in KernelRange => Mapped(st, c, v))

\* final_pml4 leads where the calls so far said.
WalksOK ==
    /\ \A v \in Virtual : v # Window /\ Settled(stage, call, v) => At(mem, Path(v), 5) = expected[v]
    /\ \A v \in Virtual : v \in KernelRange => expected[v] = v - VmaBase
    /\ stage = "boot" => \A v \in Virtual : v \notin KernelRange => expected[v] = Absent

Core == CallOK /\ StageOK /\ BootTables(mem) /\ FractalOK /\ TreeOK /\ WalksOK

PagingInv == oom \in BOOLEAN /\ (~oom => Core)

\* No call in progress is Idle.
LEMMA CallFacts ==
    /\ Idle.pc = "idle" /\ ~Editing(Idle) /\ Current(mem, Idle) = Absent
    /\ \A c \in Calls : c # Idle /\ c.pc # "idle"
  BY DEF Idle, Editing, Current, Calls

Advanced(c, pc, d) == [c EXCEPT !.pc = pc, !.v = @ + d, !.phys = @ + d, !.left = @ - 1]

\* A call as a record of its fields.
LEMMA CallRecord ==
    ASSUME NEW c \in Calls
    PROVE  /\ c = [pc |-> c.pc, ctx |-> c.ctx, v |-> c.v, phys |-> c.phys, left |-> c.left,
                   level |-> c.level, saved |-> c.saved]
           /\ c.pc \in {"map", "tables", "unmap", "unmapping", "release"} /\ c.ctx \in {FinalPml4, ProcessPml4}
           /\ c.v \in Nat /\ c.phys \in Nat /\ c.left \in Nat \ {0} /\ c.level \in 0 .. 4
           /\ c.saved \in Int
  BY DEF Calls

\* A call that moves to another level.
LEMMA CallLevel ==
    ASSUME NEW c \in Calls, NEW k \in 0 .. 4, NEW c2, c2 = [c EXCEPT !.level = k]
    PROVE  /\ c2 \in Calls /\ c2.pc = c.pc /\ c2.level = k /\ c2.saved = c.saved
           /\ c2.v = c.v /\ c2.phys = c.phys /\ c2.left = c.left /\ c2.ctx = c.ctx
<1>1. /\ c2.pc = c.pc /\ c2.level = k /\ c2.saved = c.saved /\ c2.ctx = c.ctx
      /\ c2.v = c.v /\ c2.phys = c.phys /\ c2.left = c.left
  BY DEF Calls
<1>2. c2 \in Calls
  BY DEF Calls
<1> QED
  BY <1>1, <1>2

\* The next page of a range.
LEMMA CallNext ==
    ASSUME NEW c \in Calls, c.left # 1, NEW pc \in {"map", "unmap"}, NEW d \in 0 .. 1,
           NEW c2, c2 = Advanced(c, pc, d)
    PROVE  /\ c2 \in Calls /\ c2.pc = pc /\ c2.v = c.v + d /\ c2.phys = c.phys + d
           /\ c2.left = c.left - 1 /\ c2.ctx = c.ctx
<1>1. c.v \in Nat /\ c.phys \in Nat /\ c.left \in Nat \ {0}
  BY DEF Calls
<1>2. c.v + d \in Nat /\ c.phys + d \in Nat /\ c.left - 1 \in Nat \ {0}
  BY <1>1
<1>3. c2.pc = pc /\ c2.v = c.v + d /\ c2.phys = c.phys + d /\ c2.left = c.left - 1 /\ c2.ctx = c.ctx
  BY DEF Calls, Advanced
<1>4. c2 \in Calls
  BY <1>2 DEF Calls, Advanced
<1> QED
  BY <1>3, <1>4

\* The pages of the kernel and those of its clients.
LEMMA KernelFacts ==
    /\ KernelStart = VmaBase + 1 /\ VgaPage = VmaBase /\ Window = KernelStart /\ VmaBase \in Nat
    /\ KernelPages \in Nat /\ KernelPages >= 1 /\ KernelPages <= N - 2 /\ N \in Nat
    /\ \A v \in KernelStart .. KernelStart + KernelPages - 1 : v \in Virtual /\ v \in KernelRange
    /\ ClientPages \subseteq Virtual /\ ClientPages \subseteq Nat
    /\ \A v \in ClientPages : v \notin KernelRange
<1>1. VmaBase \in Nat
  <2>1. N \in Nat /\ N >= 4
    BY PagingAssumption
  <2>2. (N - 1) * N * N * N \in Nat /\ (N - 2) * N * N \in Nat
    BY <2>1
  <2> QED BY <2>2 DEF VmaBase
<1>2. KernelPages \in Nat /\ KernelPages >= 1 /\ KernelPages <= N - 2 /\ N \in Nat
  BY PagingAssumption
<1>3. \A v \in KernelStart .. KernelStart + KernelPages - 1 : v \in Virtual /\ v \in KernelRange
  BY <1>1, <1>2 DEF Virtual, VgaPage, KernelStart, KernelRange
<1>4. ClientPages \subseteq Virtual
  BY DEF Virtual
<1>5. ClientPages \subseteq Nat /\ \A v \in ClientPages : v \notin KernelRange
  BY ClientPath DEF Pages
<1> QED
  BY <1>1, <1>2, <1>3, <1>4, <1>5 DEF KernelStart, VgaPage, Window

\* What holds in the middle of a call.
LEMMA EditFacts ==
    ASSUME Core, call.pc # "idle"
    PROVE  /\ call \in Calls /\ call # Idle /\ stage # "boot" /\ CallFits(stage, call)
           /\ call.v \in Virtual /\ call.phys \in Nat /\ call.ctx \in {FinalPml4, ProcessPml4}
           /\ call.pc \notin {"unmap", "unmapping"} => call.ctx = FinalPml4
           /\ mem \in Memory /\ kernel \in {BootPml4, FinalPml4} /\ kernel \in Tables /\ kernel \in Int
           /\ kernel = FinalPml4 <=> stage = "up"
           /\ call.ctx = ProcessPml4 => stage = "up"
           /\ BootTables(mem) /\ Resting \in Int /\ free \subseteq Pool
           /\ kernel # FinalPml4 => mem[FinalPml4][Recursive] = FinalPml4
           /\ Editing(call) => call.saved = Resting
           /\ Editing(call) /\ call.ctx = FinalPml4 => \E lev : Editable(mem, free, lev)
           /\ \E lev : Tree(mem, free, lev)
<1>1. call \in Calls /\ call # Idle /\ stage # "boot" /\ CallFits(stage, call)
  BY CallFacts DEF Core, CallOK
<1>2. stage \in {"image", "vga", "up"} /\ kernel = (IF stage = "up" THEN FinalPml4 ELSE BootPml4)
  BY <1>1 DEF Core, StageOK
<1>3. kernel \in {BootPml4, FinalPml4} /\ kernel \in Tables /\ kernel \in Int
      /\ (kernel = FinalPml4 <=> stage = "up") /\ Resting \in Int
  BY <1>2, TableFacts DEF Resting
<1>4. BootTables(mem) /\ free \subseteq Pool /\ (kernel # FinalPml4 => mem[FinalPml4][Recursive] = FinalPml4)
  BY <1>1 DEF Core, FractalOK, StageOK
<1>5. PICK lev : Tree(mem, free, lev)
  BY DEF Core, TreeOK
<1>6. mem \in Memory
  BY <1>5 DEF Tree
<1>7. call.v \in Virtual
  BY <1>1, <1>2, KernelFacts, VirtualPaths DEF CallFits
<1>8. call.phys \in Nat /\ call.ctx \in {FinalPml4, ProcessPml4}
  BY <1>1 DEF Calls
<1>9. /\ call.ctx = ProcessPml4 => call.pc \in {"unmap", "unmapping"} /\ stage = "up"
      /\ Editing(call) => call.saved = Resting
  BY <1>1 DEF Core, CallOK
<1>10. ASSUME Editing(call), call.ctx = FinalPml4
       PROVE  Editable(mem, free, lev)
  <2>1. mem[kernel][Recursive] = FinalPml4
    BY <1>1, <1>10 DEF Core, FractalOK
  <2>2. mem[FinalPml4][Recursive] = FinalPml4
    BY <1>4, <2>1
  <2>3. stage = "up" => At(mem, Path(VgaPage), 5) # Absent
    <3> HAVE stage = "up"
    <3>1. Settled(stage, call, VgaPage)
      BY DEF Settled, Mapped
    <3>2. At(mem, Path(VgaPage), 5) = expected[VgaPage] /\ expected[VgaPage] = VgaPage - VmaBase
      BY <3>1, VirtualPaths DEF Core, WalksOK
    <3> QED BY <3>2, KernelFacts DEF Absent
  <2> QED BY <1>3, <1>4, <1>5, <2>1, <2>2, <2>3 DEF Editable
<1> QED
  BY <1>1, <1>3, <1>4, <1>5, <1>6, <1>7, <1>8, <1>9, <1>10

\* A step that changes no page keeps them where they were.
LEMMA WalksKept ==
    ASSUME WalksOK, stage' = stage, expected' = expected,
           \A w \in Virtual : w # Window => At(mem', Path(w), 5) = At(mem, Path(w), 5),
           \A w \in Virtual : w # Window /\ Settled(stage, call', w) => Settled(stage, call, w)
    PROVE  WalksOK'
<1>1. \A w \in Virtual : w # Window /\ Settled(stage, call', w) => At(mem', Path(w), 5) = expected[w]
  BY DEF WalksOK
<1> QED
  BY <1>1 DEF WalksOK

\* Which pages are settled depends on the page the call has come to.
LEMMA SettledSame ==
    ASSUME NEW c \in Calls, NEW c2 \in Calls, c2.v = c.v, NEW st, NEW w, Settled(st, c2, w)
    PROVE  Settled(st, c, w)
  BY CallFacts DEF Settled, Mapped

-----------------------------------------------------------------------------
(* One lemma for each action.                                              *)

\* Turning the fractal mapping to the context keeps the invariant.
LEMMA SwitchFractalStep ==
    ASSUME Core, NEW op, NEW next, SwitchFractal(op, next),
           (op = "map" /\ next = "tables") \/ (op = "unmap" /\ next = "unmapping")
    PROVE  Core'
<1>0. (op = "map" /\ next = "tables") \/ (op = "unmap" /\ next = "unmapping")
  OBVIOUS
<1>1. call.pc = op /\ call.pc # "idle" /\ ~Editing(call)
  BY <1>0 DEF SwitchFractal, Editing
<1>2. /\ call \in Calls /\ call # Idle /\ stage # "boot" /\ CallFits(stage, call)
      /\ call.v \in Virtual /\ call.ctx \in {FinalPml4, ProcessPml4}
      /\ mem \in Memory /\ kernel \in {BootPml4, FinalPml4} /\ kernel \in Tables /\ kernel \in Int
      /\ BootTables(mem) /\ Resting \in Int
      /\ kernel # FinalPml4 => mem[FinalPml4][Recursive] = FinalPml4
      /\ call.pc \notin {"unmap", "unmapping"} => call.ctx = FinalPml4
      /\ call.ctx = ProcessPml4 => stage = "up"
      /\ \E lev : Tree(mem, free, lev)
  BY <1>1, EditFacts
<1>3. PICK lev : Tree(mem, free, lev)
  BY <1>2
<1>4. PICK r \in Int : r = Resting
  BY <1>2
<1>5. PICK ctx \in {FinalPml4, ProcessPml4} : ctx = call.ctx
  BY <1>2
<1>6. mem[kernel][Recursive] = r
  BY <1>1, <1>2, <1>4 DEF Core, FractalOK
<1>7. /\ mem' = SetEntry(mem, kernel, Recursive, ctx)
      /\ UNCHANGED <<free, kernel, stage, expected, oom, strayed>>
      /\ call' = [call EXCEPT !.pc = next, !.level = 1, !.saved = r]
  BY <1>5, <1>6 DEF SwitchFractal
<1>8. call' \in Calls /\ call'.pc = next /\ call'.level = 1 /\ call'.saved = r
      /\ call'.v = call.v /\ call'.phys = call.phys /\ call'.left = call.left /\ call'.ctx = ctx
  <2>1. PICK v \in Nat, phys \in Nat, left \in Nat \ {0},
              pc0 \in {"map", "tables", "unmap", "unmapping", "release"},
              level0 \in 0 .. 4, saved0 \in Int :
           /\ v = call.v /\ phys = call.phys /\ left = call.left
           /\ call = [pc |-> pc0, ctx |-> ctx, v |-> v, phys |-> phys, left |-> left,
                      level |-> level0, saved |-> saved0]
    BY <1>2, <1>5, CallRecord
  <2>2. call = [pc |-> pc0, ctx |-> ctx, v |-> v, phys |-> phys, left |-> left,
                level |-> level0, saved |-> saved0]
    BY <2>1
  <2>3. call' = [pc |-> next, ctx |-> ctx, v |-> v, phys |-> phys, left |-> left,
                 level |-> 1, saved |-> r]
    BY <1>7, <2>2
  <2>4. call'.pc = next /\ call'.level = 1 /\ call'.saved = r
        /\ call'.v = v /\ call'.phys = phys /\ call'.left = left /\ call'.ctx = ctx
    BY <2>3
  <2>5. call' \in Calls
    <3>1. CASE next = "tables"
      BY <2>3, <3>1 DEF Calls
    <3>2. CASE next = "unmapping"
      BY <2>3, <3>2 DEF Calls
    <3> QED BY <3>1, <3>2, <1>0
  <2> QED BY <2>1, <2>4, <2>5
<1>9. /\ Tree(mem', free, lev)
      /\ \A w \in Virtual, k \in 1 .. 5 : At(mem', Path(w), k) = At(mem, Path(w), k)
      /\ \A f \in Pool : mem'[f] = mem[f]
      /\ BootTables(mem')
      /\ mem'[kernel][Recursive] = ctx
      /\ kernel # FinalPml4 => mem'[FinalPml4] = mem[FinalPml4]
  <2>1. ctx \in Int
    BY TableFacts
  <2>2. FractalTurned(mem', mem, free, lev, kernel, ctx)
    BY <1>2, <1>3, <1>7, <2>1, FractalStore
  <2> QED BY <2>2 DEF FractalTurned
<1>10. CallOK'
  <2>1. CallFits(stage, call')
    BY <1>0, <1>1, <1>2, <1>8 DEF CallFits
  <2>2. Resting' = Resting
    BY <1>7 DEF Resting
  <2>3. ctx = ProcessPml4 => next = "unmapping" /\ stage = "up"
    BY <1>0, <1>1, <1>2, <1>5, TableFacts
  <2> QED BY <1>0, <1>2, <1>4, <1>7, <1>8, <2>1, <2>2, <2>3 DEF CallOK
<1>11. StageOK'
  BY <1>7 DEF Core, StageOK
<1>12. FractalOK'
  BY <1>0, <1>2, <1>7, <1>8, <1>9 DEF FractalOK, Editing
<1>13. TreeOK'
  <2>1. Current(mem, call) = Absent
    BY <1>0, <1>1 DEF Current
  <2>2. \A f \in Pool \ free : mem[f] # EmptyTable
    BY <2>1, TableFacts DEF Core, TreeOK
  <2>3. \A f \in Pool \ free' : mem'[f] # EmptyTable
    BY <1>7, <1>9, <2>2
  <2>4. call'.pc \in {"tables", "release"} => Current(mem', call') \in Tables
    BY <1>0, <1>8, AtSteps, TableFacts DEF Current
  <2> QED BY <1>7, <1>9, <2>3, <2>4 DEF TreeOK
<1>14. WalksOK'
  <2>1. \A w \in Virtual : At(mem', Path(w), 5) = At(mem, Path(w), 5)
    BY <1>9, 5 \in 1 .. 5
  <2>2. \A w \in Virtual : Settled(stage, call', w) => Settled(stage, call, w)
    BY <1>2, <1>8, SettledSame
  <2> QED BY <1>7, <2>1, <2>2, WalksKept DEF Core
<1> QED
  BY <1>9, <1>10, <1>11, <1>12, <1>13, <1>14 DEF Core

\* Going down to a table that is there keeps the invariant.
LEMMA TablePresentStep ==
    ASSUME Core, TablePresent
    PROVE  Core'
<1>1. call.pc = "tables" /\ call.level < 4 /\ call.pc # "idle" /\ Editing(call)
      /\ UNCHANGED <<mem, free, kernel, stage, expected, oom, strayed>>
  BY DEF TablePresent, Editing
<1>2. /\ call \in Calls /\ call # Idle /\ stage # "boot" /\ CallFits(stage, call)
      /\ call.v \in Virtual /\ call.saved = Resting /\ call.ctx = FinalPml4
      /\ \E lev : Editable(mem, free, lev)
  BY <1>1, EditFacts, TableFacts
<1>3. PICK lev : Editable(mem, free, lev)
  BY <1>2
<1>4. call.level \in 1 .. 3
  BY <1>1, <1>2 DEF Core, CallOK
<1>5. PICK k \in 1 .. 3 : k = call.level
  BY <1>4
<1>6. PICK v \in Virtual : v = call.v
  BY <1>2
<1>7. Tree(mem, free, lev) /\ IsPath(Path(v)) /\ k \in 1 .. 4 /\ k + 1 \in 1 .. 4
  BY <1>3, VirtualPaths DEF Editable
<1>8. At(mem, Path(v), k + 1) # Absent
  <2>1. Table(mem, v, k) = At(mem, Path(v), k)
    BY <1>3, <1>7, EditableTable
  <2>2. Entry(mem, Table(mem, v, k), Path(v)[k]) # Absent
    BY <1>5, <1>6 DEF TablePresent
  <2> QED BY <1>7, <2>1, <2>2, AtStep
<1>9. At(mem, Path(v), k + 1) \in Tables
  BY <1>7, <1>8, AtTable
<1>10. At(mem, Path(v), k) \in Tables /\ mem[At(mem, Path(v), k)][Path(v)[k]] # Absent /\ Path(v)[k] \in Index
  BY <1>7, <1>8, AtAbove, PathIndex
<1>11. call' = [call EXCEPT !.level = k + 1]
  BY <1>5 DEF TablePresent
<1>12. /\ call' \in Calls /\ call'.pc = call.pc /\ call'.level = k + 1 /\ call'.saved = call.saved
       /\ call'.v = call.v /\ call'.phys = call.phys /\ call'.left = call.left /\ call'.ctx = call.ctx
  <2>1. k + 1 \in 0 .. 4
    OBVIOUS
  <2> QED BY <1>2, <1>11, <2>1, CallLevel
<1>13. CallOK'
  <2>1. CallFits(stage, call')
    BY <1>2, <1>12 DEF CallFits
  <2>2. Resting' = Resting /\ call'.ctx # ProcessPml4
    BY <1>1, <1>2, <1>12, TableFacts DEF Resting
  <2> QED BY <1>1, <1>2, <1>7, <1>12, <2>1, <2>2 DEF CallOK
<1>14. FractalOK'
  BY <1>1, <1>2, <1>12 DEF FractalOK, Editing, Core
<1>15. TreeOK'
  <2>1. Current(mem, call) = At(mem, Path(v), k)
    BY <1>1, <1>5, <1>6 DEF Current
  <2>2. mem[At(mem, Path(v), k)] # EmptyTable
    BY <1>10 DEF EmptyTable
  <2>3. \A f \in Pool \ free : mem[f] # EmptyTable
    BY <2>1, <2>2 DEF Core, TreeOK
  <2>4. Current(mem, call') = At(mem, Path(v), k + 1)
    BY <1>1, <1>6, <1>12 DEF Current
  <2> QED BY <1>1, <1>7, <2>3, <2>4, <1>9 DEF TreeOK
<1>16. WalksOK'
  <2>1. \A w \in Virtual : Settled(stage, call', w) => Settled(stage, call, w)
    BY <1>2, <1>12, SettledSame
  <2> QED BY <1>1, <2>1, WalksKept DEF Core
<1> QED
  BY <1>1, <1>13, <1>14, <1>15, <1>16 DEF Core, StageOK

\* Linking a new table keeps the invariant: the nested edit of the window
\* leaves the recursive entry and the tree as it found them.
LEMMA TableAllocatedStep ==
    ASSUME Core, TableAllocated
    PROVE  Core'
<1>1. call.pc = "tables" /\ call.level < 4 /\ call.pc # "idle" /\ Editing(call) /\ free # {}
      /\ UNCHANGED <<kernel, stage, expected, oom, strayed>>
  BY DEF TableAllocated, Editing
<1>2. /\ call \in Calls /\ call # Idle /\ stage # "boot" /\ CallFits(stage, call)
      /\ call.v \in Virtual /\ call.saved = Resting /\ free \subseteq Pool /\ call.ctx = FinalPml4
      /\ \E lev : Editable(mem, free, lev)
  BY <1>1, EditFacts, TableFacts
<1>3. PICK lev : Editable(mem, free, lev)
  BY <1>2
<1>4. call.level \in 1 .. 3
  BY <1>1, <1>2 DEF Core, CallOK
<1>5. PICK k \in 1 .. 3 : k = call.level
  BY <1>4
<1>6. PICK v \in Virtual : v = call.v
  BY <1>2
<1>7. k \in 1 .. 4 /\ k + 1 \in 1 .. 4 /\ k + 1 \in 0 .. 4
  OBVIOUS
<1>8. PICK t : t = At(mem, Path(v), k)
  OBVIOUS
<1>9. Table(mem, v, k) = t
  BY <1>3, <1>7, <1>8, EditableTable
<1>10. Current(mem, call) = t /\ t \in Tables
  BY <1>1, <1>5, <1>6, <1>8 DEF Current, Core, TreeOK
<1>11. PICK f : f = CHOOSE x \in free : \A y \in free : x <= y
  OBVIOUS
<1>12. f \in free /\ f \in Pool
  <2>1. free \subseteq Nat
    BY <1>2, PagingAssumption
  <2>2. \E x \in free : \A y \in free : x <= y
    BY <1>1, <2>1, LeastExists
  <2> QED BY <1>2, <1>11, <2>2
<1>13. /\ Entry(mem, t, Path(v)[k]) = Absent /\ free' = free \ {f}
       /\ mem' = Linked(mem, t, v, k, f) /\ call' = [call EXCEPT !.level = k + 1]
  BY <1>5, <1>6, <1>9, <1>11 DEF TableAllocated
<1>14. mem[t][Path(v)[k]] = Absent
  BY <1>10, <1>13 DEF Entry
<1>15. /\ \E lev2 : Tree(mem', free \ {f}, lev2)
       /\ \A w \in Virtual : w # Window => At(mem', Path(w), 5) = At(mem, Path(w), 5)
       /\ At(mem', Path(v), k + 1) = f
       /\ \A g \in Pool \ free : mem'[g] = EmptyTable => mem[g] = EmptyTable /\ g # t
       /\ BootTables(mem')
       /\ mem'[FinalPml4][Recursive] = FinalPml4 /\ mem'[kernel][Recursive] = FinalPml4
  <2>1. mem' = Linked(mem, t, v, k, f) /\ t \in Tables
    BY <1>10, <1>13
  <2>2. TableAdded(mem', mem, free, v, k, t, f)
    BY <1>3, <1>8, <1>12, <1>14, <2>1, GrowEdit
  <2> QED BY <2>2 DEF TableAdded
<1>16. /\ call' \in Calls /\ call'.pc = call.pc /\ call'.level = k + 1 /\ call'.saved = call.saved
       /\ call'.v = call.v /\ call'.phys = call.phys /\ call'.left = call.left /\ call'.ctx = call.ctx
  BY <1>2, <1>7, <1>13, CallLevel
<1>17. CallOK'
  <2>1. CallFits(stage, call')
    BY <1>2, <1>16 DEF CallFits
  <2>2. Resting' = Resting /\ call'.ctx # ProcessPml4
    BY <1>1, <1>2, <1>16, TableFacts DEF Resting
  <2> QED BY <1>1, <1>2, <1>7, <1>16, <2>1, <2>2 DEF CallOK
<1>18. FractalOK'
  BY <1>1, <1>2, <1>15, <1>16 DEF FractalOK, Editing
<1>19. TreeOK'
  <2>1. \A g \in Pool \ free' : mem'[g] = EmptyTable => g = f
    <3> TAKE g \in Pool \ free'
    <3> HAVE mem'[g] = EmptyTable
    <3>1. SUFFICES ASSUME g # f PROVE FALSE
      OBVIOUS
    <3>2. g \in Pool \ free
      BY <1>13, <3>1
    <3>3. mem[g] = EmptyTable /\ g # t
      BY <1>15, <3>2
    <3> QED BY <1>10, <3>2, <3>3 DEF Core, TreeOK
  <2>2. Current(mem', call') = f
    BY <1>1, <1>6, <1>15, <1>16 DEF Current
  <2>3. f \in Tables
    BY <1>12, TableFacts
  <2> QED BY <1>13, <1>15, <2>1, <2>2, <2>3 DEF TreeOK
<1>20. WalksOK'
  <2>1. \A w \in Virtual : Settled(stage, call', w) => Settled(stage, call, w)
    BY <1>2, <1>16, SettledSame
  <2> QED BY <1>1, <1>15, <2>1, WalksKept DEF Core
<1>21. StageOK'
  BY <1>1, <1>2, <1>13 DEF Core, StageOK
<1> QED
  BY <1>15, <1>17, <1>18, <1>19, <1>20, <1>21 DEF Core

\* Where NextPage leads to.
LEMMA NextPageCall ==
    ASSUME call \in Calls, NEW again \in {"map", "unmap"}, NEW step \in 0 .. 1,
           NEW c2, c2 = NextPage(again, step)
    PROVE  \/ call.left = 1 /\ c2 = Idle
           \/ /\ call.left # 1 /\ c2 \in Calls /\ c2.pc = again /\ c2.v = call.v + step
              /\ c2.phys = call.phys + step /\ c2.left = call.left - 1 /\ c2.ctx = call.ctx
<1>1. CASE call.left = 1
  BY <1>1 DEF NextPage
<1>2. CASE call.left # 1
  <2>1. c2 = Advanced(call, again, step)
    BY <1>2 DEF NextPage, Advanced
  <2> QED BY <1>2, <2>1, CallNext
<1> QED
  BY <1>1, <1>2

\* Storing the page and restoring the fractal mapping keeps the invariant.
LEMMA MapLeafStep ==
    ASSUME Core, MapLeaf
    PROVE  Core'
<1>1. call.pc = "tables" /\ call.level = 4 /\ call.pc # "idle" /\ Editing(call)
      /\ UNCHANGED <<free, kernel, stage, oom, strayed>>
  BY DEF MapLeaf, Editing
<1>2. /\ call \in Calls /\ call # Idle /\ stage # "boot" /\ CallFits(stage, call)
      /\ call.v \in Virtual /\ call.phys \in Nat /\ call.saved = Resting /\ Resting \in Int
      /\ call.ctx = FinalPml4
      /\ kernel \in {BootPml4, FinalPml4} /\ kernel \in Tables /\ kernel \in Int
      /\ (kernel = FinalPml4 <=> stage = "up")
      /\ \E lev : Editable(mem, free, lev)
  BY <1>1, EditFacts, TableFacts
<1>3. PICK lev : Editable(mem, free, lev)
  BY <1>2
<1>4. PICK v \in Virtual : v = call.v
  BY <1>2
<1>5. PICK e \in Nat : e = call.phys
  BY <1>2
<1>6. PICK t : t = At(mem, Path(v), 4)
  OBVIOUS
<1>7. Table(mem, v, 4) = t
  BY <1>3, <1>6, EditableTable, 4 \in 1 .. 4
<1>8. Current(mem, call) = t /\ t \in Tables /\ t # Absent
  BY <1>1, <1>4, <1>6, TableFacts DEF Current, Core, TreeOK
<1>9. PICK m1 : m1 = SetEntry(mem, t, Path(v)[4], e)
  OBVIOUS
<1>A. PICK r \in Int : r = Resting
  BY <1>2
<1>10. mem' = SetEntry(m1, kernel, Recursive, r) /\ call' = NextPage("map", 1)
       /\ expected' = [expected EXCEPT ![v] = e]
  BY <1>2, <1>4, <1>5, <1>7, <1>9, <1>A DEF MapLeaf
<1>11. Tree(mem, free, lev) /\ mem \in Memory /\ Path(v)[4] \in Index /\ e \in Int /\ e # Absent
       /\ BootTables(mem) /\ mem[FinalPml4][Recursive] = FinalPml4
  BY <1>3, VirtualPaths DEF Editable, Tree, IsPath, Absent
<1>12. Stored(m1, mem, t, Path(v)[4], e)
  BY <1>8, <1>9, <1>11, SetEntryStored
<1>13. /\ Tree(m1, free, lev) /\ t \in Pool \ free
       /\ \A w \in Virtual, k \in 1 .. 4 : At(m1, Path(w), k) = At(mem, Path(w), k)
       /\ \A w \in Virtual : At(m1, Path(w), 5) = IF w = v THEN e ELSE At(mem, Path(w), 5)
       /\ \A f \in Tables : f # t => m1[f] = mem[f]
       /\ m1[t][Path(v)[4]] = e
  <2>1. t # Absent /\ e \in Int /\ Tree(mem, free, lev)
    BY <1>8, <1>11
  <2>2. LeafStored(m1, mem, free, lev, v, t, e)
    BY <1>6, <1>12, <2>1, LeafStore
  <2> QED BY <2>2 DEF LeafStored
<1>14. BootTables(m1) /\ m1[FinalPml4][Recursive] = FinalPml4
  BY <1>11, <1>13, TableFacts DEF BootTables
<1>15. /\ Tree(mem', free, lev)
       /\ \A w \in Virtual, k \in 1 .. 5 : At(mem', Path(w), k) = At(m1, Path(w), k)
       /\ \A f \in Pool : mem'[f] = m1[f]
       /\ BootTables(mem')
       /\ mem'[kernel][Recursive] = r /\ (kernel # FinalPml4 => mem'[FinalPml4] = m1[FinalPml4])
  <2>1. Tree(m1, free, lev) /\ kernel \in {BootPml4, FinalPml4} /\ r \in Int
        /\ mem' = SetEntry(m1, kernel, Recursive, r)
    BY <1>2, <1>10, <1>13
  <2>2. FractalTurned(mem', m1, free, lev, kernel, r)
    BY <1>14, <2>1, FractalStore
  <2> QED BY <2>2 DEF FractalTurned
<1>16. \/ call.left = 1 /\ call' = Idle
       \/ /\ call.left # 1 /\ call' \in Calls /\ call'.pc = "map" /\ call'.v = v + 1
          /\ call'.phys = e + 1 /\ call'.left = call.left - 1 /\ call'.ctx = call.ctx
  <2>1. call \in Calls
    BY <1>2
  <2> QED BY <1>4, <1>5, <1>10, <2>1, NextPageCall
<1>17. call'.pc \in {"idle", "map"} /\ ~Editing(call') /\ Current(mem', call') = Absent
  BY <1>16, CallFacts DEF Editing, Current
<1>18. v \in Nat /\ call.left \in Nat \ {0}
  BY <1>2, <1>4, CallRecord
<1>19. CallOK'
  <2>1. CASE call' = Idle
    BY <2>1 DEF CallOK
  <2>2. CASE call' # Idle
    <3>1. call.left # 1 /\ call' \in Calls /\ call'.pc = "map" /\ call'.v = v + 1
          /\ call'.phys = e + 1 /\ call'.left = call.left - 1 /\ call'.ctx # ProcessPml4
      BY <1>2, TableFacts, <1>16, <2>2
    <3>2. CallFits(stage, call')
      <4>1. stage = "image" => /\ v + 1 \in KernelStart .. KernelStart + KernelPages - 1
                               /\ (v + 1) + (call.left - 1) = KernelStart + KernelPages
                               /\ e + 1 = (v + 1) - VmaBase
        BY <1>2, <1>4, <1>5, <1>18, <3>1, KernelFacts DEF CallFits
      <4>2. stage # "vga"
        BY <1>2, <3>1 DEF CallFits
      <4>3. stage = "up" => /\ v + 1 \in ClientPages
                            /\ (v + 1) .. (v + 1) + (call.left - 1) - 1 \subseteq ClientPages
        <5> HAVE stage = "up"
        <5>1. v .. v + call.left - 1 \subseteq ClientPages
          BY <1>1, <1>2, <1>4 DEF CallFits
        <5>2. v + 1 \in v .. v + call.left - 1
          BY <1>18, <3>1
        <5>3. (v + 1) .. (v + 1) + (call.left - 1) - 1 \subseteq v .. v + call.left - 1
          BY <1>18, <3>1
        <5> QED BY <5>1, <5>2, <5>3
      <4> QED BY <3>1, <4>1, <4>2, <4>3 DEF CallFits
    <3> QED BY <1>1, <1>2, <1>17, <3>1, <3>2 DEF CallOK
  <2> QED BY <2>1, <2>2
<1>20. FractalOK'
  <2>1. Resting' = r
    BY <1>1, <1>A DEF Resting
  <2> QED BY <1>1, <1>2, <1>14, <1>15, <1>17, <2>1 DEF FractalOK
<1>21. TreeOK'
  <2>1. \A f \in Pool \ free : mem'[f] # EmptyTable
    <3> TAKE f \in Pool \ free
    <3>1. CASE f = t
      <4>1. mem'[t][Path(v)[4]] # Absent
        BY <1>11, <1>13, <1>15
      <4> QED BY <1>11, <3>1, <4>1 DEF EmptyTable
    <3>2. CASE f # t
      <4>1. mem'[f] = mem[f]
        BY <1>13, <1>15, <3>2, TableFacts
      <4> QED BY <1>8, <3>2, <4>1 DEF Core, TreeOK
    <3> QED BY <3>1, <3>2
  <2> QED BY <1>1, <1>15, <1>17, <2>1 DEF TreeOK
<1>22. expected \in [Virtual -> Int]
  BY DEF Core, StageOK
<1>23. StageOK'
  BY <1>1, <1>10, <1>11, <1>22 DEF Core, StageOK
<1>24. \A w \in Virtual : At(mem', Path(w), 5) = IF w = v THEN e ELSE At(mem, Path(w), 5)
  BY <1>13, <1>15, 5 \in 1 .. 5
<1>25. \A w \in Virtual : expected'[w] = IF w = v THEN e ELSE expected[w]
  BY <1>10, <1>22
<1>26. v \in KernelRange => e = v - VmaBase
  <2> HAVE v \in KernelRange
  <2>1. stage \in {"image", "vga", "up"}
    BY <1>2 DEF Core, StageOK
  <2>2. stage # "up"
    BY <1>2, <1>4, KernelFacts DEF CallFits
  <2>3. stage = "image" => e = v - VmaBase
    BY <1>2, <1>4, <1>5 DEF CallFits
  <2>4. stage = "vga" => e = 0 /\ v = VmaBase
    BY <1>2, <1>4, <1>5, KernelFacts DEF CallFits
  <2> QED BY <2>1, <2>2, <2>3, <2>4, KernelFacts
<1>27. \A w \in Virtual : w # v /\ Settled(stage, call', w) => Settled(stage, call, w)
  <2> TAKE w \in Virtual
  <2> HAVE w # v /\ Settled(stage, call', w)
  <2>1. stage # "boot"
    BY <1>2
  <2>2. SUFFICES ASSUME w \in KernelRange PROVE Mapped(stage, call, w)
    BY <2>1 DEF Settled
  <2>3. Mapped(stage, call', w) /\ w \in Nat
    BY <2>2, KernelPath DEF Settled
  <2>4. stage = "image" => w >= KernelStart /\ w < v
    <3> HAVE stage = "image"
    <3>1. w >= KernelStart
      BY <2>3 DEF Mapped
    <3>2. v + call.left = KernelStart + KernelPages
      BY <1>2, <1>4 DEF CallFits
    <3>3. CASE call' = Idle
      <4>1. v = KernelStart + KernelPages - 1
        BY <1>16, <1>18, <3>2, <3>3, CallFacts, KernelFacts
      <4>2. w <= KernelStart + KernelPages - 1
        BY <2>2, KernelFacts DEF Virtual, VgaPage
      <4> QED BY <1>18, <2>3, <3>1, <4>1, <4>2, KernelFacts
    <3>4. CASE call' # Idle
      <4>1. w < v + 1
        BY <1>16, <2>3, <3>4 DEF Mapped
      <4> QED BY <1>18, <2>3, <3>1, <4>1
    <3> QED BY <3>3, <3>4
  <2>5. stage = "vga" => w >= KernelStart
    <3> HAVE stage = "vga"
    <3>1. v = VgaPage
      BY <1>2, <1>4 DEF CallFits
    <3>2. w >= VmaBase
      BY <2>2, KernelFacts DEF KernelRange
    <3> QED BY <2>3, <3>1, <3>2, KernelFacts
  <2> QED BY <1>4, <2>4, <2>5 DEF Mapped
<1>28. WalksOK'
  <2>1. \A w \in Virtual : w # Window /\ Settled(stage, call', w) => At(mem', Path(w), 5) = expected'[w]
    BY <1>24, <1>25, <1>27 DEF Core, WalksOK
  <2>2. \A w \in Virtual : w \in KernelRange => expected'[w] = w - VmaBase
    BY <1>25, <1>26 DEF Core, WalksOK
  <2> QED BY <1>1, <1>2, <2>1, <2>2 DEF WalksOK
<1> QED
  BY <1>15, <1>19, <1>20, <1>21, <1>23, <1>28 DEF Core

\* An unmapping happens once the kernel's own tables are up.
LEMMA UnmapFacts ==
    ASSUME Core, call.pc \in {"unmapping", "release"}
    PROVE  /\ stage = "up" /\ kernel = FinalPml4 /\ call.v \in ClientPages
           /\ call.v \in Virtual /\ call.v \notin KernelRange
           /\ \A w : Settled(stage, call', w) => Settled(stage, call, w)
<1>1. call.pc # "idle"
  OBVIOUS
<1>2. CallFits(stage, call) /\ stage # "boot" /\ (kernel = FinalPml4 <=> stage = "up") /\ call.v \in Virtual
  BY <1>1, EditFacts
<1>3. stage \in {"image", "vga", "up"}
  BY <1>2 DEF Core, StageOK
<1>4. stage = "up"
  BY <1>2, <1>3 DEF CallFits
<1>5. call.v \in ClientPages /\ call.v \notin KernelRange
  BY <1>2, <1>4, KernelFacts DEF CallFits
<1>6. \A w : Settled(stage, call', w) => Settled(stage, call, w)
  BY <1>4 DEF Settled, Mapped
<1> QED
  BY <1>2, <1>4, <1>5, <1>6

\* The next round of virtual_unmap.
LEMMA NextUnmap ==
    ASSUME Core, call.pc \in {"unmapping", "release"}, stage' = stage, kernel' = kernel,
           call' = NextPage("unmap", 0)
    PROVE  CallOK' /\ ~Editing(call') /\ call'.pc \notin {"tables", "release"} /\ Current(mem', call') = Absent
<1>1. call.pc # "idle"
  OBVIOUS
<1>2. call \in Calls /\ stage # "boot"
  BY <1>1, EditFacts
<1>3. \/ call.left = 1 /\ call' = Idle
      \/ /\ call.left # 1 /\ call' \in Calls /\ call'.pc = "unmap" /\ call'.v = call.v + 0
         /\ call'.phys = call.phys + 0 /\ call'.left = call.left - 1 /\ call'.ctx = call.ctx
  BY <1>2, NextPageCall
<1>4. stage = "up" /\ call.v \in ClientPages
  BY UnmapFacts
<1>5. ~Editing(call') /\ call'.pc \notin {"tables", "release"} /\ Current(mem', call') = Absent
  BY <1>3, CallFacts DEF Editing, Current
<1>6. CASE call' = Idle
  BY <1>5, <1>6 DEF CallOK
<1>7. CASE call' # Idle
  <2>1. call' \in Calls /\ call'.pc = "unmap" /\ call'.v = call.v
    BY <1>2, <1>3, <1>7, CallRecord
  <2>2. CallFits(stage, call')
    BY <1>4, <2>1 DEF CallFits
  <2> QED BY <1>2, <1>4, <1>5, <2>1, <2>2 DEF CallOK
<1> QED
  BY <1>5, <1>6, <1>7

\* The early returns of arch_virtual_unmap keep the invariant.
LEMMA UnmapMissingStep ==
    ASSUME Core, UnmapMissing
    PROVE  Core'
<1>1. call.pc \in {"unmapping", "release"} /\ call.pc = "unmapping"
      /\ call' = NextPage("unmap", 0) /\ UNCHANGED <<mem, free, kernel, stage, expected, oom>>
      /\ strayed' = (call.ctx # kernel)
  BY DEF UnmapMissing
<1>2. CallOK' /\ ~Editing(call') /\ call'.pc \notin {"tables", "release"}
  BY <1>1, NextUnmap
<1>3. stage = "up" /\ kernel = FinalPml4 /\ \A w : Settled(stage, call', w) => Settled(stage, call, w)
  BY <1>1, UnmapFacts
<1>4. FractalOK'
  <2>1. Editing(call) /\ call.ctx \in {FinalPml4, ProcessPml4}
    BY <1>1, EditFacts DEF Editing
  <2>2. mem[kernel][Recursive] = call.ctx
    BY <1>3, <2>1 DEF FractalOK, Core
  <2>3. Resting' = call.ctx
    BY <1>1, <1>3, <2>1 DEF Resting
  <2> QED BY <1>1, <1>2, <1>3, <2>2, <2>3 DEF FractalOK
<1>5. TreeOK'
  <2>1. Current(mem, call) = Absent
    BY <1>1 DEF Current
  <2>2. \A f \in Pool \ free : mem[f] # EmptyTable
    BY <2>1, TableFacts DEF Core, TreeOK
  <2> QED BY <1>1, <1>2, <2>2 DEF TreeOK, Core
<1>6. WalksOK'
  BY <1>1, <1>3, WalksKept DEF Core
<1> QED
  BY <1>1, <1>2, <1>3, <1>4, <1>5, <1>6 DEF Core, StageOK

\* A page of a context that maps nothing: the walk ends at its PML4.
LEMMA ElsewhereMissing ==
    ASSUME Core, call.pc = "unmapping", call.ctx = ProcessPml4
    PROVE  Entry(mem, Table(mem, call.v, 4), Path(call.v)[4]) = Absent
<1>1. call.pc \in {"unmapping", "release"} /\ Editing(call) /\ call.pc # "idle"
  BY DEF Editing
<1>2. kernel \in Tables /\ stage # "boot" /\ call.v \in Virtual /\ BootTables(mem)
  BY <1>1, EditFacts
<1>3. mem[kernel][Recursive] = ProcessPml4
  BY <1>1, <1>2 DEF Core, FractalOK
<1>4. PICK p : p = Path(call.v)
  OBVIOUS
<1>5. p[1] \in Index /\ p[1] # Recursive
  BY <1>2, <1>4, VirtualPaths DEF IsPath
<1>6. Entry(mem, ProcessPml4, p[1]) = Absent
  BY <1>2, <1>5, TableFacts DEF Entry, BootTables
<1>7. \A i : Entry(mem, Absent, i) = Absent
  BY TableFacts DEF Entry
<1> DEFINE a == TableAddress(call.v, 4)
<1>8. a[1] = Recursive /\ a[2] = p[1]
  BY <1>4 DEF TableAddress
<1>9. Table(mem, call.v, 4) = Entry(mem, Entry(mem, Entry(mem, Entry(mem, kernel, a[1]), a[2]), a[3]), a[4])
  BY DEF Table, Walk
<1> HIDE DEF a
<1>10. Entry(mem, kernel, a[1]) = ProcessPml4
  BY <1>2, <1>3, <1>8 DEF Entry
<1>11. Table(mem, call.v, 4) = Absent
  BY <1>6, <1>7, <1>8, <1>9, <1>10
<1> QED
  BY <1>7, <1>11

\* Clearing the entry of a page keeps the invariant.
LEMMA UnmapLeafStep ==
    ASSUME Core, UnmapLeaf
    PROVE  Core'
<1>1. call.pc \in {"unmapping", "release"} /\ call.pc = "unmapping" /\ call.pc # "idle" /\ Editing(call)
      /\ UNCHANGED <<free, kernel, stage, oom, strayed>>
  BY DEF UnmapLeaf, Editing
<1>2. /\ call \in Calls /\ call # Idle /\ stage # "boot" /\ CallFits(stage, call)
      /\ call.v \in Virtual /\ call.saved = Resting /\ call.ctx = FinalPml4
      /\ \E lev : Editable(mem, free, lev)
  BY <1>1, EditFacts, ElsewhereMissing DEF UnmapLeaf
<1>3. PICK lev : Editable(mem, free, lev)
  BY <1>2
<1>4. PICK v \in Virtual : v = call.v
  BY <1>2
<1>5. PICK t : t = At(mem, Path(v), 4)
  OBVIOUS
<1>6. Table(mem, v, 4) = t
  BY <1>3, <1>5, EditableTable, 4 \in 1 .. 4
<1>7. Entry(mem, t, Path(v)[4]) # Absent /\ mem' = SetEntry(mem, t, Path(v)[4], Absent)
      /\ expected' = [expected EXCEPT ![v] = Absent]
      /\ call' = [call EXCEPT !.pc = "release", !.level = 3]
  BY <1>4, <1>6 DEF UnmapLeaf
<1>8. t \in Tables /\ t # Absent
  BY <1>7, TableFacts DEF Entry
<1>9. Tree(mem, free, lev) /\ mem \in Memory /\ Path(v)[4] \in Index /\ Absent \in Int
      /\ BootTables(mem) /\ mem[FinalPml4][Recursive] = FinalPml4
  BY <1>3, VirtualPaths DEF Editable, Tree, IsPath, Absent
<1>10. Stored(mem', mem, t, Path(v)[4], Absent)
  BY <1>7, <1>8, <1>9, SetEntryStored
<1>11. /\ Tree(mem', free, lev) /\ t \in Pool \ free
       /\ \A w \in Virtual, k \in 1 .. 4 : At(mem', Path(w), k) = At(mem, Path(w), k)
       /\ \A w \in Virtual : At(mem', Path(w), 5) = IF w = v THEN Absent ELSE At(mem, Path(w), 5)
       /\ \A f \in Tables : f # t => mem'[f] = mem[f]
  <2>1. t # Absent /\ Absent \in Int /\ Tree(mem, free, lev)
    BY <1>8, <1>9
  <2>2. LeafStored(mem', mem, free, lev, v, t, Absent)
    BY <1>5, <1>10, <2>1, LeafStore
  <2> QED BY <2>2 DEF LeafStored
<1>12. BootTables(mem') /\ mem'[FinalPml4] = mem[FinalPml4]
  BY <1>9, <1>11, TableFacts DEF BootTables
<1>13. /\ call' \in Calls /\ call'.pc = "release" /\ call'.level = 3 /\ call'.saved = call.saved
       /\ call'.v = call.v /\ call'.ctx = FinalPml4
  <2>1. PICK x \in Nat, phys \in Nat, left \in Nat \ {0}, saved \in Int,
              pc0 \in {"map", "tables", "unmap", "unmapping", "release"}, level0 \in 0 .. 4 :
           /\ x = call.v /\ saved = call.saved
           /\ call = [pc |-> pc0, ctx |-> FinalPml4, v |-> x, phys |-> phys, left |-> left,
                      level |-> level0, saved |-> saved]
    <3>1. call.ctx = FinalPml4
      BY <1>2, CallRecord
    <3> QED BY <1>2, <3>1, CallRecord
  <2>2. call' = [pc |-> "release", ctx |-> FinalPml4, v |-> x, phys |-> phys, left |-> left,
                 level |-> 3, saved |-> saved]
    <3>1. call = [pc |-> pc0, ctx |-> FinalPml4, v |-> x, phys |-> phys, left |-> left,
                  level |-> level0, saved |-> saved]
      BY <2>1
    <3>2. call' = [call EXCEPT !.pc = "release", !.level = 3]
      BY <1>7
    <3> QED BY <3>1, <3>2
  <2>3. call' \in Calls
    BY <2>2 DEF Calls
  <2> QED BY <2>1, <2>2, <2>3
<1>14. stage = "up" /\ kernel = FinalPml4 /\ call.v \in ClientPages /\ v \notin KernelRange
       /\ \A w : Settled(stage, call', w) => Settled(stage, call, w)
  BY <1>1, <1>4, UnmapFacts
<1>15. CallOK'
  <2>1. CallFits(stage, call')
    BY <1>13, <1>14 DEF CallFits
  <2>2. Resting' = Resting /\ call'.ctx # ProcessPml4
    BY <1>1, <1>13, TableFacts DEF Resting
  <2> QED BY <1>1, <1>2, <1>13, <2>1, <2>2 DEF CallOK
<1>16. FractalOK'
  <2>1. mem'[FinalPml4][Recursive] = FinalPml4
    BY <1>9, <1>12
  <2> QED BY <1>1, <1>2, <1>13, <1>14, <2>1 DEF FractalOK, Editing
<1>17. TreeOK'
  <2>1. Current(mem, call) = Absent
    BY <1>1 DEF Current
  <2>2. \A f \in Pool \ free : mem[f] # EmptyTable
    BY <2>1, TableFacts DEF Core, TreeOK
  <2>3. Current(mem', call') = t
    <3>1. Current(mem', call') = At(mem', Path(v), 4)
      BY <1>4, <1>13 DEF Current
    <3> QED BY <3>1, <1>5, <1>11, 4 \in 1 .. 4
  <2>4. \A f \in Pool \ free : mem'[f] = EmptyTable => f = t
    BY <1>11, <2>2, TableFacts
  <2> QED BY <1>1, <1>8, <1>11, <2>3, <2>4 DEF TreeOK
<1>18. expected \in [Virtual -> Int]
  BY DEF Core, StageOK
<1>19. StageOK'
  BY <1>1, <1>7, <1>9, <1>18 DEF Core, StageOK
<1>20. \A w \in Virtual : expected'[w] = IF w = v THEN Absent ELSE expected[w]
  BY <1>7, <1>18
<1>21. WalksOK'
  <2>1. \A w \in Virtual : w # Window /\ Settled(stage, call', w) => At(mem', Path(w), 5) = expected'[w]
    BY <1>11, <1>14, <1>20 DEF Core, WalksOK
  <2>2. \A w \in Virtual : w \in KernelRange => expected'[w] = w - VmaBase
    BY <1>14, <1>20 DEF Core, WalksOK
  <2> QED BY <1>1, <1>2, <2>1, <2>2 DEF WalksOK
<1> QED
  BY <1>12, <1>15, <1>16, <1>17, <1>19, <1>21 DEF Core

\* Releasing an empty table keeps the invariant.
LEMMA ReleaseTableStep ==
    ASSUME Core, ReleaseTable
    PROVE  Core'
<1>1. call.pc \in {"unmapping", "release"} /\ call.pc = "release" /\ call.level > 0
      /\ call.pc # "idle" /\ Editing(call) /\ UNCHANGED <<kernel, stage, expected, oom, strayed>>
  BY DEF ReleaseTable, Editing
<1>2. /\ call \in Calls /\ call # Idle /\ stage # "boot" /\ CallFits(stage, call)
      /\ call.v \in Virtual /\ call.saved = Resting /\ free \subseteq Pool /\ call.ctx = FinalPml4
      /\ \E lev : Editable(mem, free, lev)
  BY <1>1, EditFacts, TableFacts
<1>3. PICK lev : Editable(mem, free, lev)
  BY <1>2
<1>4. call.level \in 1 .. 3
  BY <1>1, <1>2 DEF Core, CallOK
<1>5. PICK k \in 1 .. 3 : k = call.level
  BY <1>4
<1>6. PICK v \in Virtual : v = call.v
  BY <1>2
<1>7. k \in 1 .. 4 /\ k + 1 \in 1 .. 4 /\ k - 1 \in 0 .. 4 /\ k - 1 \in 0 .. 3 /\ (k - 1) + 1 = k
  OBVIOUS
<1>8. PICK t : t = At(mem, Path(v), k)
  OBVIOUS
<1>9. PICK c : c = At(mem, Path(v), k + 1)
  OBVIOUS
<1>10. Table(mem, v, k) = t /\ Table(mem, v, k + 1) = c
  BY <1>3, <1>7, <1>8, <1>9, EditableTable
<1>11. Current(mem, call) = c /\ c \in Tables /\ c # Absent
  BY <1>1, <1>5, <1>6, <1>9, TableFacts DEF Current, Core, TreeOK
<1>12. Entry(mem, t, Path(v)[k]) = c
  BY <1>7, <1>8, <1>9, AtStep
<1>13. IF Releases(c)
       THEN free' = free \cup {c} /\ mem' = SetEntry(MapWindow(mem, c), t, Path(v)[k], Absent)
       ELSE UNCHANGED <<free, mem>>
  BY <1>5, <1>6, <1>10, <1>12 DEF ReleaseTable
<1>14. call' = [call EXCEPT !.level = k - 1]
  BY <1>5 DEF ReleaseTable
<1>15. /\ call' \in Calls /\ call'.pc = call.pc /\ call'.level = k - 1 /\ call'.saved = call.saved
       /\ call'.v = call.v /\ call'.phys = call.phys /\ call'.left = call.left /\ call'.ctx = call.ctx
  BY <1>2, <1>7, <1>14, CallLevel
<1>16. CallOK'
  <2>1. CallFits(stage, call')
    BY <1>2, <1>15 DEF CallFits
  <2>2. Resting' = Resting /\ call'.ctx # ProcessPml4
    BY <1>1, <1>2, <1>15, TableFacts DEF Resting
  <2> QED BY <1>1, <1>2, <1>7, <1>15, <2>1, <2>2 DEF CallOK
<1>17. \A w : Settled(stage, call', w) => Settled(stage, call, w)
  BY <1>1, UnmapFacts
<1>18. CASE Releases(c)
  <2>1. free' = free \cup {c} /\ mem' = SetEntry(MapWindow(mem, c), t, Path(v)[k], Absent)
    BY <1>13, <1>18
  <2>2. mem[c] = EmptyTable
    BY <1>18 DEF Releases, IsEmpty
  <2>3. c \in Tables
    BY <1>11
  <2>4. TableRemoved(mem', mem, free, v, k, t, c)
    BY <1>3, <1>8, <1>9, <2>1, <2>2, <2>3, PruneEdit
  <2>5. /\ \E lev2 : Tree(mem', free', lev2)
        /\ c \in Pool \ free /\ t \in Tables
        /\ \A w \in Virtual : w # Window => At(mem', Path(w), 5) = At(mem, Path(w), 5)
        /\ At(mem', Path(v), k) = t
        /\ \A g \in Pool : mem'[g] = EmptyTable => mem[g] = EmptyTable \/ g = t
        /\ BootTables(mem')
        /\ mem'[FinalPml4][Recursive] = FinalPml4 /\ mem'[kernel][Recursive] = FinalPml4
    BY <2>1, <2>4 DEF TableRemoved
  <2>6. FractalOK'
    BY <1>1, <1>2, <1>15, <2>5 DEF FractalOK, Editing
  <2>7. TreeOK'
    <3>1. Current(mem', call') = t
      BY <1>1, <1>6, <1>7, <1>15, <2>5 DEF Current
    <3>2. \A g \in Pool \ free' : mem'[g] = EmptyTable => g = t
      BY <1>11, <2>1, <2>5 DEF Core, TreeOK
    <3> QED BY <2>5, <3>1, <3>2 DEF TreeOK
  <2>8. WalksOK'
    BY <1>1, <1>17, <2>5, WalksKept DEF Core
  <2>9. StageOK'
    BY <1>1, <1>2, <2>1, <2>5 DEF Core, StageOK
  <2> QED BY <1>16, <2>5, <2>6, <2>7, <2>8, <2>9 DEF Core
<1>19. CASE ~Releases(c)
  <2>1. UNCHANGED <<free, mem>>
    BY <1>13, <1>19
  <2>2. mem[c] # EmptyTable
    BY <1>11, <1>19 DEF Releases, IsEmpty
  <2>3. \A f \in Pool \ free : mem[f] # EmptyTable
    BY <1>11, <2>2 DEF Core, TreeOK
  <2>4. t \in Tables
    BY <1>7, <1>8, <1>9, <1>11, AtAbove
  <2>5. Current(mem', call') = t
    BY <1>1, <1>6, <1>7, <1>8, <1>15, <2>1 DEF Current
  <2>6. TreeOK'
    BY <2>1, <2>3, <2>4, <2>5 DEF Core, TreeOK
  <2>7. FractalOK'
    BY <1>1, <1>2, <1>15, <2>1 DEF FractalOK, Editing, Core
  <2>8. WalksOK'
    BY <1>1, <1>17, <2>1, WalksKept DEF Core
  <2> QED BY <1>1, <1>16, <2>1, <2>6, <2>7, <2>8 DEF Core, StageOK
<1> QED
  BY <1>18, <1>19

\* Returning from arch_virtual_unmap keeps the invariant.
LEMMA UnmapReturnStep ==
    ASSUME Core, UnmapReturn
    PROVE  Core'
<1>1. call.pc \in {"unmapping", "release"} /\ call.pc = "release" /\ call.level = 0 /\ call.pc # "idle"
      /\ Editing(call) /\ call' = NextPage("unmap", 0) /\ UNCHANGED <<free, kernel, stage, expected, oom, strayed>>
  BY DEF UnmapReturn, Editing
<1>2. /\ call.v \in Virtual /\ call.saved = Resting /\ kernel \in {BootPml4, FinalPml4}
      /\ Resting \in Int /\ BootTables(mem)
      /\ stage # "boot" /\ \E lev : Tree(mem, free, lev)
  BY <1>1, EditFacts
<1>3. PICK lev : Tree(mem, free, lev)
  BY <1>2
<1>A. PICK r \in Int : r = Resting
  BY <1>2
<1>4. mem' = SetEntry(mem, kernel, Recursive, r)
  BY <1>2, <1>A DEF UnmapReturn
<1>5. FractalTurned(mem', mem, free, lev, kernel, r)
  BY <1>2, <1>3, <1>4, FractalStore
<1>6. /\ Tree(mem', free, lev)
      /\ \A w \in Virtual, k \in 1 .. 5 : At(mem', Path(w), k) = At(mem, Path(w), k)
      /\ \A f \in Pool : mem'[f] = mem[f]
      /\ BootTables(mem')
      /\ mem'[kernel][Recursive] = r
  BY <1>5 DEF FractalTurned
<1>7. CallOK' /\ ~Editing(call') /\ call'.pc \notin {"tables", "release"}
  BY <1>1, NextUnmap
<1>8. \A w : Settled(stage, call', w) => Settled(stage, call, w)
  BY <1>1, UnmapFacts
<1>9. FractalOK'
  <2>1. kernel = FinalPml4
    BY <1>1, UnmapFacts
  <2>2. Resting' = r
    BY <1>1, <1>A DEF Resting
  <2> QED BY <1>1, <1>2, <1>6, <1>7, <2>1, <2>2 DEF FractalOK
<1>10. TreeOK'
  <2>1. Current(mem, call) = FinalPml4
    BY <1>1, AtSteps, 0 + 1 = 1 DEF Current
  <2>2. \A f \in Pool \ free : mem[f] # EmptyTable
    BY <2>1, TableFacts DEF Core, TreeOK
  <2> QED BY <1>1, <1>6, <1>7, <2>2 DEF TreeOK
<1>11. WalksOK'
  <2>1. \A w \in Virtual : At(mem', Path(w), 5) = At(mem, Path(w), 5)
    BY <1>6, 5 \in 1 .. 5
  <2> QED BY <1>1, <1>8, <2>1, WalksKept DEF Core
<1>12. StageOK'
  BY <1>1 DEF Core, StageOK
<1> QED
  BY <1>6, <1>7, <1>9, <1>10, <1>11, <1>12 DEF Core

-----------------------------------------------------------------------------
(* arch_mm_init and the callers of virtual_map and virtual_unmap.          *)

\* Setting up the recursive entries keeps the invariant.
LEMMA PatchPml4Step ==
    ASSUME Core, PatchPml4
    PROVE  Core'
<1>1. stage = "boot" /\ stage' = "image" /\ UNCHANGED <<free, kernel, expected, oom, strayed>>
      /\ call' = Begin("map", FinalPml4, KernelStart, 1, KernelPages)
      /\ mem' = [mem EXCEPT ![BootPml4] = [@ EXCEPT ![Recursive] = BootPml4, ![0] = Absent],
                            ![FinalPml4] = [EmptyTable EXCEPT ![Recursive] = FinalPml4]]
  BY DEF PatchPml4
<1>2. call = Idle /\ kernel = BootPml4 /\ ~strayed /\ BootTables(mem) /\ mem[FinalPml4] = EmptyTable
  BY <1>1 DEF Core, CallOK, StageOK, FractalOK
<1>3. PICK lev : Tree(mem, free, lev)
  BY DEF Core, TreeOK
<1>4. mem \in Memory
  BY <1>3 DEF Tree
<1>5. /\ mem' \in Memory
      /\ \A g \in Tables : g # BootPml4 /\ g # FinalPml4 => mem'[g] = mem[g]
      /\ \A j \in Index : mem'[FinalPml4][j] = IF j = Recursive THEN FinalPml4 ELSE Absent
      /\ \A j \in Index : mem'[BootPml4][j] = IF j = 0 THEN Absent
                                              ELSE IF j = Recursive THEN BootPml4 ELSE mem[BootPml4][j]
  <2>1. FinalPml4 \in Tables /\ BootPml4 \in Tables /\ FinalPml4 # BootPml4 /\ FinalPml4 \in Int
        /\ BootPml4 \in Int /\ Absent \in Int /\ Recursive \in Index /\ 0 \in Index
    BY TableFacts, IndexFacts
  <2>2. PICK b : b = [mem[BootPml4] EXCEPT ![Recursive] = BootPml4, ![0] = Absent]
    OBVIOUS
  <2>3. PICK n : n = [EmptyTable EXCEPT ![Recursive] = FinalPml4]
    OBVIOUS
  <2>4. mem' = [mem EXCEPT ![BootPml4] = b, ![FinalPml4] = n]
    BY <1>1, <2>2, <2>3
  <2>5. mem[BootPml4] \in [Index -> Int]
    BY <1>4, <2>1 DEF Memory
  <2>6. b \in [Index -> Int] /\ \A j \in Index : b[j] = IF j = 0 THEN Absent
                                  ELSE IF j = Recursive THEN BootPml4 ELSE mem[BootPml4][j]
    BY <2>1, <2>2, <2>5
  <2>7. n \in [Index -> Int] /\ \A j \in Index : n[j] = IF j = Recursive THEN FinalPml4 ELSE Absent
    BY <2>1, <2>3 DEF EmptyTable
  <2>8. mem'[FinalPml4] = n /\ mem'[BootPml4] = b
        /\ \A g \in Tables : g # BootPml4 /\ g # FinalPml4 => mem'[g] = mem[g]
    BY <1>4, <2>1, <2>4 DEF Memory
  <2>9. mem' \in Memory
    BY <1>4, <2>1, <2>4, <2>6, <2>7 DEF Memory
  <2> QED BY <2>6, <2>7, <2>8, <2>9
<1>6. Tree(mem', free, lev)
  <2>1. lev[BootPml4] = 0
    BY <1>3, LevelFacts
  <2>2. \A j \in Index : mem[FinalPml4][j] = Absent
    BY <1>2 DEF EmptyTable
  <2>3. \A g \in Tables, j \in Index :
           (g = FinalPml4 => j # Recursive) /\ lev[g] \in 1 .. 3 => mem'[g][j] = mem[g][j]
    BY <1>5, <2>1, <2>2
  <2>4. \A g \in Tables, j \in Index : IsLink(mem', lev, g, j) <=> IsLink(mem, lev, g, j)
    BY <2>3 DEF IsLink
  <2>5. \A g \in Tables, j \in Index : IsLink(mem', lev, g, j) => mem'[g][j] = mem[g][j]
    BY <2>3 DEF IsLink
  <2>6. LinksDescend(mem', lev)
    BY <1>3, <2>4, <2>5 DEF LinksDescend, Tree
  <2>7. LinksApart(mem', lev)
    BY <1>3, <2>4, <2>5 DEF LinksApart, Tree
  <2>8. LinkedTables(mem', lev)
    BY <1>3, <2>4, <2>5 DEF LinkedTables, Tree
  <2> QED BY <1>3, <1>5, <2>6, <2>7, <2>8 DEF Tree
<1>7. BootTables(mem')
  <2>1. N - 1 # 0 /\ N - 1 # Recursive
    BY PagingAssumption DEF Recursive
  <2>2. \A g \in {BootPdpt, BootPd, BootPt, ProcessPml4} : mem'[g] = mem[g]
    BY <1>5, TableFacts
  <2>3. mem'[BootPml4][N - 1] = mem[BootPml4][N - 1]
    BY <1>5, <2>1, IndexFacts
  <2> QED BY <1>2, <2>2, <2>3 DEF BootTables
<1>8. \A w \in Virtual : At(mem', Path(w), 5) = Absent
  <2> TAKE w \in Virtual
  <2>1. Path(w)[1] \in Index /\ Path(w)[1] # Recursive
    BY VirtualPaths DEF IsPath
  <2>2. At(mem', Path(w), 2) = Absent
    BY <1>5, <2>1, AtSteps, TableFacts DEF Entry
  <2>3. At(mem', Path(w), 3) = Absent
    BY <2>2, AtSteps, TableFacts DEF Entry
  <2>4. At(mem', Path(w), 4) = Absent
    BY <2>3, AtSteps, TableFacts DEF Entry
  <2> QED BY <2>4, AtSteps, TableFacts DEF Entry
<1>9. /\ call' \in Calls /\ call'.pc = "map" /\ call'.v = KernelStart /\ call'.phys = 1
      /\ call'.left = KernelPages /\ call'.ctx = FinalPml4
  <2>1. KernelStart \in Nat /\ KernelPages \in Nat \ {0} /\ Absent \in Int
    BY KernelFacts, TableFacts
  <2> QED BY <1>1, <2>1 DEF Begin, Calls
<1>10. ~Editing(call') /\ Current(mem', call') = Absent /\ call' # Idle
  BY <1>9, CallFacts DEF Editing, Current
<1>11. CallOK'
  <2>1. CallFits("image", call')
    BY <1>9, KernelFacts DEF CallFits
  <2> QED BY <1>1, <1>9, <1>10, <2>1, TableFacts DEF CallOK
<1>12. StageOK'
  BY <1>1, <1>2 DEF Core, StageOK
<1>13. FractalOK'
  <2>1. mem'[FinalPml4][Recursive] = FinalPml4
    BY <1>5, IndexFacts
  <2>2. mem'[BootPml4][Recursive] = BootPml4
    <3>1. Recursive # 0
      BY PagingAssumption DEF Recursive
    <3> QED BY <1>5, <3>1, IndexFacts
  <2> QED BY <1>1, <1>2, <1>10, <2>1, <2>2 DEF FractalOK, Resting
<1>14. TreeOK'
  <2>1. \A f \in Pool \ free : mem[f] # EmptyTable
    BY <1>2, CallFacts, TableFacts DEF Core, TreeOK
  <2>2. \A f \in Pool \ free' : mem'[f] # EmptyTable
    BY <1>1, <1>5, <2>1, TableFacts
  <2> QED BY <1>1, <1>6, <1>9, <2>2 DEF TreeOK
<1>15. WalksOK'
  <2>1. ASSUME NEW w \in Virtual, w # Window, Settled("image", call', w)
        PROVE  At(mem', Path(w), 5) = expected[w]
    <3>1. w \notin KernelRange
      <4>1. SUFFICES ASSUME w \in KernelRange PROVE FALSE
        OBVIOUS
      <4>2. w >= KernelStart /\ w < KernelStart
        BY <1>9, <1>10, <2>1, <4>1 DEF Settled, Mapped
      <4>3. w \in Nat
        BY <4>1, KernelPath
      <4> QED BY <4>2, <4>3, KernelFacts
    <3>2. expected[w] = Absent
      BY <1>1, <3>1 DEF Core, WalksOK
    <3> QED BY <3>2, <1>8
  <2> QED BY <1>1, <2>1 DEF Core, WalksOK
<1> QED
  BY <1>7, <1>11, <1>12, <1>13, <1>14, <1>15 DEF Core

\* A step that starts a call between calls, or changes CR3, and no table.
LEMMA BeginStep ==
    ASSUME Core, call = Idle, UNCHANGED <<mem, free, expected, strayed>>, StageOK',
           stage # "boot", stage' # "boot", CallOK', ~Editing(call'),
           call' = Idle \/ call' \in Calls,
           kernel' = kernel \/ (kernel # FinalPml4 /\ kernel' = FinalPml4),
           \A w \in Virtual : Settled(stage', call', w) => Settled(stage, call, w)
    PROVE  Core'
<1>1. call'.pc \notin {"tables", "release"}
  BY DEF Editing
<1>2. (kernel # FinalPml4 => mem[FinalPml4][Recursive] = FinalPml4) /\ mem[kernel][Recursive] = Resting
  BY CallFacts DEF Core, FractalOK
<1>3. FractalOK'
  <2>1. CASE kernel' = kernel
    BY <1>2, <2>1 DEF FractalOK, Resting
  <2>2. CASE kernel # FinalPml4 /\ kernel' = FinalPml4
    <3>1. ~strayed
      BY <2>2 DEF Core, StageOK
    <3> QED BY <1>2, <2>2, <3>1 DEF FractalOK, Resting
  <2> QED BY <2>1, <2>2
<1>4. TreeOK'
  <2>1. \A f \in Pool \ free : mem[f] # EmptyTable
    BY CallFacts, TableFacts DEF Core, TreeOK
  <2> QED BY <1>1, <2>1 DEF Core, TreeOK
<1>5. WalksOK'
  <2>1. \A w \in Virtual : w # Window /\ Settled(stage', call', w) => At(mem, Path(w), 5) = expected[w]
    BY DEF Core, WalksOK
  <2>2. \A w \in Virtual : w \in KernelRange => expected[w] = w - VmaBase
    BY DEF Core, WalksOK
  <2> QED BY <2>1, <2>2 DEF WalksOK
<1> QED
  BY <1>3, <1>4, <1>5 DEF Core

\* The record of a call that begins.
LEMMA BegunCall ==
    ASSUME NEW op \in {"map", "unmap"}, NEW ctx \in {FinalPml4, ProcessPml4}, NEW v \in Nat, NEW phys \in Nat, NEW n \in Nat \ {0}
    PROVE  /\ Begin(op, ctx, v, phys, n) \in Calls
           /\ Begin(op, ctx, v, phys, n).pc = op
           /\ Begin(op, ctx, v, phys, n).v = v
           /\ Begin(op, ctx, v, phys, n).phys = phys
           /\ Begin(op, ctx, v, phys, n).left = n
           /\ Begin(op, ctx, v, phys, n).ctx = ctx
           /\ ~Editing(Begin(op, ctx, v, phys, n))
<1>1. Begin(op, ctx, v, phys, n) \in Calls
  BY DEF Begin, Calls, Absent
<1>2. /\ Begin(op, ctx, v, phys, n).pc = op
      /\ Begin(op, ctx, v, phys, n).v = v
      /\ Begin(op, ctx, v, phys, n).phys = phys
      /\ Begin(op, ctx, v, phys, n).left = n /\ Begin(op, ctx, v, phys, n).ctx = ctx
  BY DEF Begin
<1>3. ~Editing(Begin(op, ctx, v, phys, n))
  BY <1>2 DEF Editing
<1> QED
  BY <1>1, <1>2, <1>3

\* Mapping the screen keeps the invariant.
LEMMA MapVgaStep ==
    ASSUME Core, MapVga
    PROVE  Core'
<1>1. stage = "image" /\ call = Idle /\ stage' = "vga" /\ UNCHANGED <<mem, free, kernel, expected, oom, strayed>>
      /\ call' = Begin("map", FinalPml4, VgaPage, 0, 1)
  BY DEF MapVga
<1>2. VgaPage \in Nat /\ 0 \in Nat /\ 1 \in Nat \ {0}
  BY KernelFacts
<1>3. call' \in Calls /\ call'.pc = "map" /\ call'.v = VgaPage /\ call'.phys = 0 /\ call'.left = 1
      /\ ~Editing(call') /\ call'.ctx = FinalPml4
  BY <1>1, <1>2, BegunCall
<1>4. CallOK'
  <2>1. CallFits("vga", call')
    BY <1>3 DEF CallFits
  <2> QED BY <1>1, <1>3, <2>1, TableFacts DEF CallOK
<1>5. StageOK'
  BY <1>1 DEF Core, StageOK
<1>6. \A w \in Virtual : Settled(stage', call', w) => Settled(stage, call, w)
  BY <1>1, <1>3, CallFacts DEF Settled, Mapped
<1> QED
  BY <1>1, <1>3, <1>4, <1>5, <1>6, BeginStep

\* The change of CR3 keeps the invariant: final_pml4 leads where the boot
\* tables did.
LEMMA FinalizePagingStep ==
    ASSUME Core, FinalizePaging
    PROVE  Core'
<1>1. stage = "vga" /\ call = Idle /\ stage' = "up" /\ kernel' = FinalPml4 /\ call' = call
      /\ UNCHANGED <<mem, free, expected, oom, strayed>>
  BY DEF FinalizePaging
<1>2. CallOK' /\ ~Editing(call')
  BY <1>1, CallFacts DEF CallOK
<1>3. StageOK'
  BY <1>1 DEF Core, StageOK
<1>4. \A w \in Virtual : Settled(stage', call', w) => Settled(stage, call, w)
  BY <1>1 DEF Settled, Mapped
<1>5. kernel # FinalPml4
  BY <1>1, TableFacts DEF Core, StageOK
<1> QED
  BY <1>1, <1>2, <1>3, <1>4, <1>5, BeginStep

\* A call of virtual_map keeps the invariant.
LEMMA VirtualMapStep ==
    ASSUME Core, NEW v \in MapStarts, NEW n \in 1 .. MaxPages, NEW phys \in DataFrames,
           VirtualMap(v, phys, n)
    PROVE  Core'
<1>1. stage = "up" /\ call = Idle /\ UNCHANGED <<mem, free, kernel, stage, expected, oom, strayed>>
      /\ call' = Begin("map", kernel, v, phys, n)
  BY DEF VirtualMap
<1>2. kernel = FinalPml4
  BY <1>1 DEF Core, StageOK
<1>3. v \in Nat /\ phys \in Nat /\ n \in Nat \ {0} /\ MaxPages \in Nat /\ n <= MaxPages
  BY ClientAssumption
<1>4. call' \in Calls /\ call'.pc = "map" /\ call'.v = v /\ call'.left = n /\ ~Editing(call')
      /\ call'.ctx = FinalPml4
  BY <1>1, <1>2, <1>3, BegunCall
<1>5. CallOK'
  <2>1. v .. v + n - 1 \subseteq v .. v + MaxPages - 1 /\ v \in v .. v + MaxPages - 1
    BY <1>3
  <2>2. v .. v + MaxPages - 1 \subseteq ClientPages
    BY DEF ClientPages
  <2>3. CallFits("up", call')
    BY <1>4, <2>1, <2>2 DEF CallFits
  <2> QED BY <1>1, <1>4, <2>3, TableFacts DEF CallOK
<1>6. StageOK'
  BY <1>1 DEF Core, StageOK
<1>7. \A w \in Virtual : Settled(stage', call', w) => Settled(stage, call, w)
  BY <1>1 DEF Settled, Mapped
<1> QED
  BY <1>1, <1>4, <1>5, <1>6, <1>7, BeginStep

\* A call of virtual_unmap keeps the invariant.
LEMMA VirtualUnmapStep ==
    ASSUME Core, NEW v \in MapStarts, NEW n \in 1 .. MaxPages,
           NEW ctx \in {kernel, ProcessPml4}, VirtualUnmap(ctx, v, n)
    PROVE  Core'
<1>1. stage = "up" /\ call = Idle /\ UNCHANGED <<mem, free, kernel, stage, expected, oom, strayed>>
      /\ call' = Begin("unmap", ctx, v, 0, n)
  BY DEF VirtualUnmap
<1>2. kernel = FinalPml4 /\ ctx \in {FinalPml4, ProcessPml4}
  BY <1>1 DEF Core, StageOK
<1>3. v \in Nat /\ 0 \in Nat /\ n \in Nat \ {0} /\ MaxPages \in Nat /\ n <= MaxPages
  BY ClientAssumption
<1>4. call' \in Calls /\ call'.pc = "unmap" /\ call'.v = v /\ call'.left = n /\ ~Editing(call')
  BY <1>1, <1>2, <1>3, BegunCall
<1>5. CallOK'
  <2>1. v \in v .. v + MaxPages - 1
    BY <1>3
  <2>2. v .. v + MaxPages - 1 \subseteq ClientPages
    BY DEF ClientPages
  <2>3. CallFits("up", call')
    BY <1>4, <2>1, <2>2 DEF CallFits
  <2> QED BY <1>1, <1>4, <2>3 DEF CallOK
<1>6. StageOK'
  BY <1>1 DEF Core, StageOK
<1>7. \A w \in Virtual : Settled(stage', call', w) => Settled(stage, call, w)
  BY <1>1 DEF Settled, Mapped
<1> QED
  BY <1>1, <1>4, <1>5, <1>6, <1>7, BeginStep

-----------------------------------------------------------------------------
(* The invariant.                                                          *)

\* The boot tables satisfy the invariant.
LEMMA PagingInit ==
    ASSUME Init
    PROVE  PagingInv
<1> DEFINE lev == [f \in Tables |-> IF f = FinalPml4 THEN 1 ELSE 0]
<1>1. /\ free = Pool /\ kernel = BootPml4 /\ stage = "boot" /\ call = Idle /\ oom = FALSE
      /\ strayed = FALSE
      /\ expected = [v \in Virtual |-> IF v \in KernelRange THEN v - VmaBase ELSE Absent]
  BY DEF Init, KernelRange
<1>2. /\ mem[BootPml4] = [EmptyTable EXCEPT ![0] = BootPdpt, ![N - 1] = BootPdpt]
      /\ mem[BootPdpt] = [EmptyTable EXCEPT ![0] = BootPd, ![N - 2] = BootPd]
      /\ mem[BootPd] = [EmptyTable EXCEPT ![0] = BootPt]
      /\ mem[BootPt] = [i \in Index |-> i]
      /\ mem[FinalPml4] = EmptyTable
      /\ mem[ProcessPml4] = [EmptyTable EXCEPT ![Recursive] = ProcessPml4]
      /\ \A f \in Tables : f \notin {BootPml4, BootPdpt, BootPd, BootPt, ProcessPml4} => mem[f] = EmptyTable
      /\ mem = [f \in Tables |-> mem[f]]
  BY TableFacts DEF Init
<1>3. EmptyTable \in [Index -> Int] /\ \A i \in Index : EmptyTable[i] = Absent
  BY DEF EmptyTable, Absent
<1>4. /\ BootPml4 \in Int /\ BootPdpt \in Int /\ BootPd \in Int /\ BootPt \in Int
      /\ ProcessPml4 \in Int /\ Recursive \in Index /\ 0 \in Index /\ N - 1 \in Index /\ N - 2 \in Index
  BY TableFacts, IndexFacts
<1>5. /\ mem[BootPml4] \in [Index -> Int] /\ mem[BootPml4][N - 1] = BootPdpt
      /\ mem[BootPdpt] \in [Index -> Int] /\ mem[BootPdpt][N - 2] = BootPd
      /\ mem[BootPd] \in [Index -> Int] /\ mem[BootPd][0] = BootPt
      /\ mem[ProcessPml4] \in [Index -> Int]
      /\ \A i \in Index : i # Recursive => mem[ProcessPml4][i] = Absent
  BY <1>2, <1>3, <1>4
<1>6. mem[BootPt] \in [Index -> Int] /\ \A i \in Index : mem[BootPt][i] = i
  BY <1>2, IndexFacts
<1>7. mem \in Memory
  <2>1. \A f \in Tables : mem[f] \in [Index -> Int]
    BY <1>2, <1>3, <1>5, <1>6
  <2> QED BY <1>2, <2>1 DEF Memory
<1>8. Tree(mem, free, lev)
  <2>1. Levels(free, lev)
    BY <1>1, TableFacts DEF Levels
  <2>2. \A f \in Tables, i \in Index : ~IsLink(mem, lev, f, i)
    BY <1>2, <1>3 DEF IsLink
  <2>3. \A f \in Tables : lev[f] \notin 2 .. 4
    OBVIOUS
  <2> QED BY <1>7, <2>1, <2>2, <2>3 DEF Tree, LinksDescend, LinksApart, LinkedTables
<1>9. BootTables(mem)
  BY <1>5, <1>6 DEF BootTables
<1>10. TreeOK
  BY <1>1, <1>8, CallFacts DEF TreeOK
<1>11. StageOK
  <2>1. \A v \in Virtual : v \in KernelRange => v - VmaBase \in Int
    <3>1. \A v \in KernelRange : v - VmaBase \in Index
      BY KernelPath
    <3>2. \A i \in Index : i \in Int
      BY IndexFacts
    <3> QED BY <3>1, <3>2
  <2>2. expected \in [Virtual -> Int]
    BY <1>1, <2>1, TableFacts
  <2> QED BY <1>1, <2>2 DEF StageOK
<1>12. FractalOK /\ CallOK
  BY <1>1, <1>2 DEF FractalOK, CallOK
<1>13. WalksOK
  BY <1>1 DEF WalksOK, Settled
<1> QED
  BY <1>1, <1>9, <1>10, <1>11, <1>12, <1>13 DEF PagingInv, Core

\* Every step keeps the invariant.
LEMMA PagingStep ==
    ASSUME PagingInv, [Next]_vars
    PROVE  PagingInv'
<1>1. CASE UNCHANGED vars
  <2>1. Core => Core'
    BY <1>1 DEF vars, Core, CallOK, StageOK, FractalOK, TreeOK, WalksOK, Resting
  <2> QED BY <1>1, <2>1 DEF vars, PagingInv
<1>2. CASE TableFailed
  BY <1>2 DEF TableFailed, PagingInv
<1>3. ASSUME Next, ~TableFailed PROVE PagingInv'
  <2>1. oom' = oom
    BY <1>3 DEF Next, SwitchFractal, TablePresent, TableAllocated, MapLeaf, UnmapMissing, UnmapLeaf,
                ReleaseTable, UnmapReturn, PatchPml4, MapVga, FinalizePaging, VirtualMap, VirtualUnmap
  <2>2. SUFFICES ASSUME Core PROVE Core'
    BY <2>1 DEF PagingInv
  <2>3. ASSUME NEW v \in MapStarts, NEW n \in 1 .. MaxPages,
               (\E ctx \in {kernel, ProcessPml4} : VirtualUnmap(ctx, v, n)) \/ \E phys \in DataFrames : VirtualMap(v, phys, n)
        PROVE  Core'
    BY <2>2, <2>3, VirtualMapStep, VirtualUnmapStep
  <2>4. CASE SwitchFractal("map", "tables")
    BY <2>2, <2>4, SwitchFractalStep
  <2>5. CASE SwitchFractal("unmap", "unmapping")
    BY <2>2, <2>5, SwitchFractalStep
  <2> QED
    BY <1>3, <2>2, <2>3, <2>4, <2>5, TablePresentStep, TableAllocatedStep, MapLeafStep, UnmapMissingStep,
       UnmapLeafStep, ReleaseTableStep, UnmapReturnStep, PatchPml4Step, MapVgaStep,
       FinalizePagingStep DEF Next
<1> QED
  BY <1>1, <1>2, <1>3

\* Whatever is mapped and unmapped, and however often physical_alloc and
\* physical_free re-enter the code, the tables stay a tree and the pages where
\* they belong, as long as physical memory lasts.
THEOREM PagingInvariant == Spec => []PagingInv
<1>1. Init => PagingInv
  BY PagingInit
<1>2. PagingInv /\ [Next]_vars => PagingInv'
  BY PagingStep
<1> QED
  BY <1>1, <1>2, PTL DEF Spec

\* Until physical memory runs out, the fractal mapping is back in place
\* whenever virtual_map or virtual_unmap returns, except after an early return
\* of arch_virtual_unmap (unmap.c:83-90) with another context's PML4 in it.
THEOREM FractalAlwaysRestored == Spec => [](~oom => FractalRestored)
<1>1. PagingInv => (~oom => FractalRestored)
  BY CallFacts DEF PagingInv, Core, FractalOK, Resting, FractalRestored
<1> QED
  BY <1>1, PagingInvariant, PTL

\* Until physical memory runs out, the pages of the kernel lead where they
\* should at every step, and all others between calls.
THEOREM PagesTranslate == Spec => [](~oom => Translates)
<1>1. ASSUME PagingInv, ~oom PROVE Translates
  <2>1. Core
    BY <1>1 DEF PagingInv
  <2>2. SUFFICES ASSUME NEW v \in Virtual \ {Window}, Quiet \/ v \in KernelRange
                 PROVE  Walk(mem, kernel, Path(v)) = expected[v]
    BY DEF Translates, KernelRange
  <2>3. CASE stage = "up"
    <3>1. kernel = FinalPml4
      BY <2>1, <2>3 DEF Core, StageOK
    <3>2. Settled(stage, call, v)
      BY <2>3 DEF Settled, Mapped
    <3>3. At(mem, Path(v), 5) = expected[v]
      BY <2>1, <3>2 DEF Core, WalksOK
    <3> QED BY <3>1, <3>3, AtSteps
  <2>4. CASE stage # "up"
    <3>1. kernel = BootPml4 /\ v \in KernelRange /\ BootTables(mem)
      BY <2>1, <2>2, <2>4 DEF Core, StageOK, Quiet
    <3>2. PICK d \in Index : d = v - VmaBase
      BY <3>1, KernelPath
    <3>3. Path(v) = <<N - 1, N - 2, 0, d>>
      BY <3>1, <3>2, KernelPath
    <3>4. d # 1
      BY <3>1, <3>2, KernelPath, KernelFacts
    <3>5. Path(v)[1] = N - 1 /\ Path(v)[2] = N - 2 /\ Path(v)[3] = 0 /\ Path(v)[4] = d
      BY <3>3
    <3>6. Walk(mem, kernel, Path(v)) = d
      BY <3>1, <3>4, <3>5, TableFacts DEF Walk, Entry, BootTables
    <3>7. expected[v] = v - VmaBase
      BY <2>1, <3>1 DEF Core, WalksOK
    <3> QED BY <3>2, <3>6, <3>7
  <2> QED BY <2>3, <2>4
<1> QED
  BY <1>1, PagingInvariant, PTL

-----------------------------------------------------------------------------
(* Counting the tables.                                                    *)

\* Sets in one-to-one correspondence have the same size.
LEMMA SameSize ==
    ASSUME NEW A, NEW B, IsFiniteSet(B), NEW g \in [A -> B],
           \A x, y \in A : g[x] = g[y] => x = y, \A z \in B : \E x \in A : g[x] = z
    PROVE  Cardinality(A) = Cardinality(B)
<1>1. g \in Injection(A, B)
  BY DEF Injection, IsInjective
<1>2. g \in Surjection(A, B)
  BY DEF Surjection
<1> QED
  BY <1>1, <1>2, FS_Injection

TablesOf(lev, k) == {f \in Tables : lev[f] = k}

\* The frames taken from the pool are the tables of levels 2 to 4.
LEMMA LevelSets ==
    ASSUME NEW m, NEW fr, NEW lev, Tree(m, fr, lev)
    PROVE  /\ TablesOf(lev, 2) \cup TablesOf(lev, 3) \cup TablesOf(lev, 4) = Pool \ fr
           /\ \A k \in 2 .. 4 : IsFiniteSet(TablesOf(lev, k))
           /\ Cardinality(Pool \ fr) = Cardinality(TablesOf(lev, 2)) + Cardinality(TablesOf(lev, 3))
                                         + Cardinality(TablesOf(lev, 4))
<1> DEFINE A == TablesOf(lev, 2)
           B == TablesOf(lev, 3)
           C == TablesOf(lev, 4)
<1>1. \A f \in Tables : lev[f] \in 2 .. 4 <=> f \in Pool \ fr
  BY LevelFacts
<1>2. A \cup B \cup C = Pool \ fr
  <2>1. \A f \in Tables : lev[f] \in 2 .. 4 <=> lev[f] = 2 \/ lev[f] = 3 \/ lev[f] = 4
    BY DEF Tree, Levels
  <2> QED BY <1>1, <2>1, TableFacts DEF TablesOf
<1>3. \A k \in 2 .. 4 : IsFiniteSet(TablesOf(lev, k))
  <2> TAKE k \in 2 .. 4
  <2>1. TablesOf(lev, k) \in SUBSET Pool
    BY <1>1 DEF TablesOf
  <2> QED BY <2>1, PagingAssumption, FS_Subset
<1>4. IsFiniteSet(A) /\ IsFiniteSet(B) /\ IsFiniteSet(C)
  BY <1>3, 2 \in 2 .. 4, 3 \in 2 .. 4, 4 \in 2 .. 4
<1>5. A \cap B = {} /\ (A \cup B) \cap C = {}
  BY DEF TablesOf
<1> HIDE DEF A, B, C
<1>6. IsFiniteSet(A \cup B) /\ Cardinality(A \cup B) = Cardinality(A) + Cardinality(B)
  <2>1. Cardinality(A \cup B) = Cardinality(A) + Cardinality(B) - Cardinality(A \cap B)
    BY <1>4, FS_Union
  <2>2. Cardinality(A \cap B) = 0
    BY <1>5, FS_EmptySet
  <2> QED BY <1>4, <2>1, <2>2, FS_Union, FS_CardinalityType
<1>7. Cardinality((A \cup B) \cup C) = Cardinality(A) + Cardinality(B) + Cardinality(C)
  <2>1. Cardinality((A \cup B) \cup C) = Cardinality(A \cup B) + Cardinality(C) - Cardinality((A \cup B) \cap C)
    BY <1>4, <1>6, FS_Union
  <2>2. Cardinality((A \cup B) \cap C) = 0
    BY <1>5, FS_EmptySet
  <2>3. Cardinality(A) \in Nat /\ Cardinality(B) \in Nat /\ Cardinality(C) \in Nat
    BY <1>4, FS_CardinalityType
  <2> QED BY <1>6, <2>1, <2>2, <2>3
<1> QED
  BY <1>2, <1>3, <1>7 DEF A, B, C

\* Below the tables of a level are the tables of the next, one per entry.
LEMMA LevelBelow ==
    ASSUME NEW fr, NEW lev, Tree(mem, fr, lev), NEW k \in 2 .. 3
    PROVE  /\ Below(TablesOf(lev, k)) = TablesOf(lev, k + 1)
           /\ Links(TablesOf(lev, k)) = Cardinality(TablesOf(lev, k + 1))
<1> DEFINE S == TablesOf(lev, k)
           T == TablesOf(lev, k + 1)
           E == {l \in S \X Index : mem[l[1]][l[2]] # Absent}
<1>1. \A f \in S : f \in Tables /\ lev[f] = k /\ lev[f] \in 1 .. 3 /\ f # FinalPml4
  BY LevelFacts DEF TablesOf
<1>2. \A f \in S, i \in Index : mem[f][i] # Absent => IsLink(mem, lev, f, i)
  BY <1>1 DEF IsLink
<1>3. \A f \in S, i \in Index : mem[f][i] # Absent => mem[f][i] \in T
  <2> TAKE f \in S, i \in Index
  <2> HAVE mem[f][i] # Absent
  <2>1. mem[f][i] \in Tables /\ lev[mem[f][i]] = lev[f] + 1
    BY <1>1, <1>2 DEF Tree, LinksDescend
  <2> QED BY <1>1, <2>1 DEF TablesOf
<1>4. \A g \in T : \E f \in S, i \in Index : mem[f][i] = g /\ mem[f][i] # Absent
  <2> TAKE g \in T
  <2>1. g \in Tables /\ lev[g] = k + 1 /\ lev[g] \in 2 .. 4
    BY DEF TablesOf
  <2>2. PICK f \in Tables, i \in Index : IsLink(mem, lev, f, i) /\ mem[f][i] = g
    BY <2>1 DEF Tree, LinkedTables
  <2>3. lev[mem[f][i]] = lev[f] + 1
    BY <2>2 DEF Tree, LinksDescend
  <2>4. lev[f] = k
    BY <2>1, <2>2, <2>3 DEF IsLink
  <2> QED BY <2>2, <2>4 DEF TablesOf, IsLink
<1>5. Below(S) = T
  <2>1. Absent \notin T
    BY TableFacts DEF TablesOf
  <2> HIDE DEF S, T
  <2> QED BY <1>3, <1>4, <2>1 DEF Below
<1>6. Cardinality(E) = Cardinality(T)
  <2> DEFINE g == [l \in E |-> mem[l[1]][l[2]]]
  <2>1. IsFiniteSet(T)
    <3>1. k + 1 \in 2 .. 4
      OBVIOUS
    <3> QED BY <3>1, LevelSets
  <2> HIDE DEF S, T
  <2>2. \A l \in E : /\ l = <<l[1], l[2]>> /\ l[1] \in S /\ l[2] \in Index
                     /\ mem[l[1]][l[2]] # Absent
    OBVIOUS
  <2>3. g \in [E -> T]
    BY <1>3, <2>2
  <2>4. \A x, y \in E : g[x] = g[y] => x = y
    <3> TAKE x, y \in E
    <3> HAVE g[x] = g[y]
    <3>1. mem[x[1]][x[2]] = mem[y[1]][y[2]]
      OBVIOUS
    <3>2. IsLink(mem, lev, x[1], x[2]) /\ IsLink(mem, lev, y[1], y[2])
      BY <1>2, <2>2
    <3>3. x[1] = y[1] /\ x[2] = y[2]
      BY <1>1, <2>2, <3>1, <3>2 DEF Tree, LinksApart
    <3> QED BY <2>2, <3>3
  <2>5. \A z \in T : \E x \in E : g[x] = z
    <3> TAKE z \in T
    <3>1. PICK f \in S, i \in Index : mem[f][i] = z /\ mem[f][i] # Absent
      BY <1>4
    <3>2. <<f, i>> \in E
      BY <3>1
    <3>3. g[<<f, i>>] = z
      BY <3>1, <3>2
    <3> QED BY <3>2, <3>3
  <2> HIDE DEF g, E
  <2> QED BY <2>1, <2>3, <2>4, <2>5, SameSize
<1> QED
  BY <1>5, <1>6 DEF Links

\* Below the PML4 are the tables of level 2, one per entry but the recursive.
LEMMA LevelTwo ==
    ASSUME NEW fr, NEW lev, Tree(mem, fr, lev), kernel = FinalPml4
    PROVE  Pdpts = TablesOf(lev, 2) /\ Cardinality(Pml4Entries) = Cardinality(TablesOf(lev, 2))
<1> DEFINE T == TablesOf(lev, 2)
           g == [i \in Pml4Entries |-> mem[FinalPml4][i]]
<1>1. \A i \in Pml4Entries : i \in Index /\ mem[FinalPml4][i] # Absent /\ IsLink(mem, lev, FinalPml4, i)
  BY LevelFacts, TableFacts DEF Pml4Entries, IsLink
<1>2. \A i \in Pml4Entries : mem[FinalPml4][i] \in T
  <2> TAKE i \in Pml4Entries
  <2>1. mem[FinalPml4][i] \in Tables /\ lev[mem[FinalPml4][i]] = lev[FinalPml4] + 1
    BY <1>1, TableFacts DEF Tree, LinksDescend
  <2> QED BY <2>1, LevelFacts DEF TablesOf
<1>3. \A z \in T : \E i \in Pml4Entries : mem[FinalPml4][i] = z
  <2> TAKE z \in T
  <2>1. z \in Tables /\ lev[z] = 2 /\ lev[z] \in 2 .. 4
    BY DEF TablesOf
  <2>2. PICK f \in Tables, i \in Index : IsLink(mem, lev, f, i) /\ mem[f][i] = z
    BY <2>1 DEF Tree, LinkedTables
  <2>3. lev[mem[f][i]] = lev[f] + 1
    BY <2>2 DEF Tree, LinksDescend
  <2>4. lev[f] = 1
    BY <2>1, <2>2, <2>3 DEF IsLink
  <2>5. f = FinalPml4
    BY <2>4 DEF Tree, Levels
  <2>6. i \in Pml4Entries
    BY <2>2, <2>5 DEF Pml4Entries, IsLink
  <2> QED BY <2>2, <2>5, <2>6
<1>4. Pdpts = T
  BY <1>2, <1>3 DEF Pdpts
<1>5. IsFiniteSet(T)
  BY LevelSets, 2 \in 2 .. 4
<1> HIDE DEF T
<1>6. g \in [Pml4Entries -> T]
  BY <1>2
<1>7. \A x, y \in Pml4Entries : g[x] = g[y] => x = y
  <2> TAKE x, y \in Pml4Entries
  <2> HAVE g[x] = g[y]
  <2>1. mem[FinalPml4][x] = mem[FinalPml4][y]
    OBVIOUS
  <2> QED BY <1>1, <2>1, TableFacts DEF Tree, LinksApart
<1>8. \A z \in T : \E x \in Pml4Entries : g[x] = z
  BY <1>3
<1> HIDE DEF g
<1> QED
  BY <1>4, <1>5, <1>6, <1>7, <1>8, SameSize DEF T

\* Between calls the tables form a tree that holds every frame taken from
\* the pool, with no table empty and none linked twice.
THEOREM TablesAlwaysFormATree == Spec => []TablesFormATree
<1>1. ASSUME PagingInv PROVE TablesFormATree
  <2> SUFFICES ASSUME Quiet
               PROVE  /\ Pdpts \cup Pds \cup Pts = Pool \ free
                      /\ Cardinality(Pdpts \cup Pds \cup Pts)
                           = Cardinality(Pml4Entries) + Links(Pdpts) + Links(Pds)
                      /\ \A f \in Pdpts \cup Pds \cup Pts : mem[f] # EmptyTable
    BY DEF TablesFormATree
  <2>1. Core /\ stage = "up" /\ call = Idle
    BY <1>1 DEF PagingInv, Quiet
  <2>2. kernel = FinalPml4
    BY <2>1 DEF Core, StageOK
  <2>3. PICK lev : Tree(mem, free, lev)
    BY <2>1 DEF Core, TreeOK
  <2>4. Pdpts = TablesOf(lev, 2) /\ Cardinality(Pml4Entries) = Cardinality(TablesOf(lev, 2))
    BY <2>2, <2>3, LevelTwo
  <2>5. Pds = TablesOf(lev, 3) /\ Links(Pdpts) = Cardinality(TablesOf(lev, 3))
    BY <2>3, <2>4, LevelBelow, 2 \in 2 .. 3, 2 + 1 = 3 DEF Pds
  <2>6. Pts = TablesOf(lev, 4) /\ Links(Pds) = Cardinality(TablesOf(lev, 4))
    BY <2>3, <2>5, LevelBelow, 3 \in 2 .. 3, 3 + 1 = 4 DEF Pts
  <2>7. Pdpts \cup Pds \cup Pts = Pool \ free
    BY <2>3, <2>4, <2>5, <2>6, LevelSets
  <2>8. Cardinality(Pool \ free) = Cardinality(Pml4Entries) + Links(Pdpts) + Links(Pds)
    BY <2>3, <2>4, <2>5, <2>6, LevelSets
  <2>9. \A f \in Pool \ free : mem[f] # EmptyTable
    BY <2>1, CallFacts, TableFacts DEF Core, TreeOK
  <2> QED BY <2>7, <2>8, <2>9
<1> QED
  BY <1>1, PagingInvariant, PTL

\* Until physical memory runs out, every table that map.c and unmap.c reach
\* through the fractal mapping is there, and so is the window's.
THEOREM EditsNeverFault == Spec => []NoFault
<1>1. ASSUME PagingInv PROVE NoFault
  <2> SUFFICES ASSUME ~oom, call.pc \in {"tables", "release"}
               PROVE  /\ call.pc = "tables" => Table(mem, call.v, call.level) \in Tables
                      /\ call.pc = "release" => Table(mem, call.v, call.level + 1) \in Tables
                      /\ Table(SetEntry(mem, kernel, Recursive, kernel), Window, 4) \in Tables
    BY DEF NoFault
  <2>1. Core /\ call.pc # "idle" /\ Editing(call)
    BY <1>1 DEF PagingInv, Editing
  <2>2. /\ call \in Calls /\ call # Idle /\ call.v \in Virtual /\ mem \in Memory
        /\ kernel \in {BootPml4, FinalPml4} /\ kernel \in Tables /\ kernel \in Int
        /\ BootTables(mem)
        /\ \E lev : Editable(mem, free, lev)
    BY <2>1, EditFacts, TableFacts
  <2>3. PICK lev : Editable(mem, free, lev)
    BY <2>2
  <2>4. Current(mem, call) \in Tables
    BY <2>1 DEF Core, TreeOK
  <2>5. call.pc = "tables" => Table(mem, call.v, call.level) \in Tables
    <3> HAVE call.pc = "tables"
    <3>1. call.level \in 1 .. 4
      BY <2>1, <2>2 DEF Core, CallOK
    <3>2. PICK k \in 1 .. 4 : k = call.level
      BY <3>1
    <3>3. Table(mem, call.v, k) = At(mem, Path(call.v), k)
      BY <2>3, EditableTable
    <3> QED BY <2>4, <3>2, <3>3 DEF Current
  <2>6. call.pc = "release" => Table(mem, call.v, call.level + 1) \in Tables
    <3> HAVE call.pc = "release"
    <3>1. call.level + 1 \in 1 .. 4
      BY <2>1, <2>2 DEF Core, CallOK
    <3>2. PICK k \in 1 .. 4 : k = call.level + 1
      BY <3>1
    <3>3. Table(mem, call.v, k) = At(mem, Path(call.v), k)
      BY <2>3, EditableTable
    <3> QED BY <2>4, <3>2, <3>3 DEF Current
  <2>7. Table(SetEntry(mem, kernel, Recursive, kernel), Window, 4) \in Tables
    <3> DEFINE m1 == SetEntry(mem, kernel, Recursive, kernel)
    <3>1. Tree(mem, free, lev) /\ mem[FinalPml4][Recursive] = FinalPml4
          /\ (kernel = FinalPml4 => At(mem, Path(VgaPage), 5) # Absent)
      BY <2>3 DEF Editable
    <3>2. FractalTurned(m1, mem, free, lev, kernel, kernel)
      BY <2>2, <3>1, FractalStore
    <3> HIDE DEF m1
    <3>3. /\ \A w \in Virtual, k \in 1 .. 5 : At(m1, Path(w), k) = At(mem, Path(w), k)
          /\ BootTables(m1)
          /\ m1[FinalPml4][Recursive] = FinalPml4 /\ m1[kernel][Recursive] = kernel
      BY <3>1, <3>2 DEF FractalTurned
    <3>4. CASE kernel = FinalPml4
      <4>1. Table(m1, Window, 4) = At(m1, Path(Window), 4)
        BY <2>2, <3>3, <3>4, TableIsAt, 4 \in 1 .. 4
      <4>2. At(m1, Path(Window), 4) = At(mem, Path(VgaPage), 4)
        <5>1. At(m1, Path(Window), 4) = At(mem, Path(Window), 4)
          BY <3>3, VirtualPaths, 4 \in 1 .. 5
        <5>2. At(mem, Path(Window), 4) = At(mem, Path(VgaPage), 4)
          BY VirtualPaths DEF At
        <5> QED BY <5>1, <5>2
      <4>3. At(mem, Path(VgaPage), 4) \in Tables
        BY <3>1, <3>4, AtAbove, 4 \in 1 .. 4, 4 + 1 = 5
      <4> QED BY <4>1, <4>2, <4>3 DEF m1
    <3>5. CASE kernel = BootPml4
      <4>1. Table(m1, Window, 4) = BootPt
        BY <3>3, <3>5, BootWindow
      <4> QED BY <4>1, TableFacts DEF m1
    <3> QED BY <2>2, <3>4, <3>5
  <2> QED BY <2>5, <2>6, <2>7
<1> QED
  BY <1>1, PagingInvariant, PTL
=============================================================================
