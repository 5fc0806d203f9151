---------------------------- MODULE PagingProofs ----------------------------
(***************************************************************************)
(* Proofs about Paging for any number of levels, entries, frames and pages: *)
(* the tables stay a tree, the lookups of the kernel agree with the         *)
(* processor, no stale translation is used, and every step changes at most  *)
(* one page.                                                                *)
(*                                                                         *)
(* The invariant gives every frame that serves as a table its level.        *)
(***************************************************************************)
EXTENDS Paging, WellFoundedInduction, TLAPS

(* A set of naturals that is not empty has a least element. *)
LEMMA LeastElement ==
  ASSUME NEW S \in SUBSET Nat, S # {}
  PROVE  \E m \in S : \A k \in S : m <= k
<1> DEFINE R == OpToRel(<, Nat)
<1>1. IsWellFoundedOn(R, Nat)
  BY NatLessThanWellFounded, Zenon
<1>2. \A k, m \in Nat : k < m => <<k, m>> \in R
  BY DEF OpToRel
<1> HIDE DEF R
<1>3. PICK m \in S : \A k \in S : ~(<<k, m>> \in R)
  BY <1>1, WFMin, Zenon
<1>4. \A k \in S : ~(k < m)
  BY <1>2, <1>3, Zenon
<1> QED
  BY <1>4

(* Induction: a set with 0 in it that has n + 1 when it has n, up to m, has *)
(* everything up to m.                                                      *)
LEMMA InductionUpTo ==
  ASSUME NEW m \in Nat, NEW S, 0 \in S, \A n \in 0 .. (m - 1) : n \in S => n + 1 \in S
  PROVE  0 .. m \subseteq S
<1> DEFINE B == (0 .. m) \ S
<1>1. SUFFICES ASSUME B # {} PROVE FALSE
  OBVIOUS
<1>a. B \in SUBSET Nat
  OBVIOUS
<1> HIDE DEF B
<1>2. PICK n \in B : \A k \in B : n <= k
  BY <1>1, <1>a, LeastElement
<1> USE DEF B
<1>3. n - 1 \in S
  BY <1>2
<1> QED
  BY <1>2, <1>3

(* f starts with a and G[n] takes it from n - 1 to n. *)
Recursive(f, m, a, G) == f[0] = a /\ \A n \in 1 .. m : f[n] = G[n][f[n - 1]]

(* Recursion: there is such an f. *)
LEMMA RecursionUpTo ==
  ASSUME NEW m \in Nat, NEW X, NEW a \in X, NEW G \in [1 .. m -> [X -> X]]
  PROVE  \E f \in [0 .. m -> X] : Recursive(f, m, a, G)
<1> DEFINE F == [0 .. m -> X]
           Upto(f, k) == f[0] = a /\ \A n \in 1 .. k : f[n] = G[n][f[n - 1]]
           S == {k \in 0 .. m : \E f \in F : Upto(f, k)}
<1>1. 0 \in S
  <2>1. [n \in 0 .. m |-> a] \in F /\ Upto([n \in 0 .. m |-> a], 0)
    OBVIOUS
  <2>2. \E f \in F : Upto(f, 0)
    BY <2>1, Zenon
  <2> HIDE DEF F, Upto
  <2> QED
    BY <2>2
<1>2. ASSUME NEW k \in 0 .. (m - 1), k \in S PROVE k + 1 \in S
  <2>1. PICK f \in F : Upto(f, k)
    BY <1>2
  <2> DEFINE g == [f EXCEPT ![k + 1] = G[k + 1][f[k]]]
  <2>2. G[k + 1][f[k]] \in X
    BY <2>1
  <2>3. g \in F /\ g[0] = a
    BY <2>1, <2>2
  <2>4. ASSUME NEW n \in 1 .. (k + 1) PROVE g[n] = G[n][g[n - 1]]
    <3>1. g[n - 1] = f[n - 1]
      OBVIOUS
    <3>2. CASE n = k + 1
      BY <3>1, <3>2
    <3>3. CASE n \in 1 .. k
      <4>1. g[n] = f[n]
        BY <3>3
      <4> QED
        BY <2>1, <3>1, <3>3, <4>1
    <3> QED
      BY <3>2, <3>3
  <2>5. \E h \in F : Upto(h, k + 1)
    BY <2>3, <2>4, Zenon
  <2> HIDE DEF F, Upto
  <2> QED
    BY <2>5
<1>3. m \in S
  <2> HIDE DEF S
  <2>1. 0 .. m \subseteq S
    BY <1>1, <1>2, InductionUpTo, Zenon
  <2> QED
    BY <2>1
<1> QED
  BY <1>3 DEF Recursive


Levels1 == 1 .. Levels

MemType == [Tables -> [Indices -> [present : BOOLEAN, unused_1 : BOOLEAN, page_size : BOOLEAN,
                                    address : AllFrames \union {0}]]]

(* Where lvl is not 0 a frame is a table of that level: its entries refer to *)
(* tables of the level below, and are present if they refer to anything; a  *)
(* huge page is present, and above level 1.                                 *)
Shape(m, lvl) ==
  /\ lvl \in [Tables -> 0 .. Levels]
  /\ lvl[Root] = Levels
  /\ \A t \in Tables, i \in Indices :
       lvl[t] > 0 /\ ~m[t][i].page_size => (m[t][i].present <=> m[t][i].address # 0)
  /\ \A t \in Tables, i \in Indices : lvl[t] > 0 /\ m[t][i].page_size => m[t][i].present /\ lvl[t] > 1
  /\ \A t \in Tables, i \in Indices :
       lvl[t] > 1 /\ m[t][i].present /\ ~m[t][i].page_size =>
         m[t][i].address \in Tables /\ lvl[m[t][i].address] = lvl[t] - 1

(* No table is entered twice. *)
EnteredOnce(m, lvl) ==
  \A t, u \in Tables, i, j \in Indices :
    /\ lvl[t] > 1 /\ m[t][i].present /\ ~m[t][i].page_size
    /\ lvl[u] > 1 /\ m[u][j].present /\ ~m[u][j].page_size
    /\ m[t][i].address = m[u][j].address
    => t = u /\ i = j

(* The top table is one, and not of level 0. *)
LEMMA RootLevel ==
  ASSUME NEW m, NEW lvl, Shape(m, lvl)
  PROVE  Root \in Tables /\ lvl[Root] # 0
BY PagingAssumption DEF Tables, Shape

(* A table of level 1 has no huge pages. *)
LEMMA LastIsSmall ==
  ASSUME NEW m, NEW lvl, Shape(m, lvl), NEW t \in Tables, lvl[t] = 1, NEW i \in Indices
  PROVE  ~m[t][i].page_size
BY DEF Shape
-----------------------------------------------------------------------------
(* Arithmetic of the indices. *)

(* Existence and value of PagesUnder. *)
LEMMA PagesUnderDef ==
  /\ PagesUnder \in [0 .. Levels -> Nat \ {0}]
  /\ PagesUnder[0] = 1
  /\ \A l \in 1 .. Levels : PagesUnder[l] = Fanout * PagesUnder[l - 1]
<1> DEFINE G == [l \in 1 .. Levels |-> [n \in Nat |-> Fanout * n]]
           IsIt(f) == f = [l \in 0 .. Levels |-> IF l = 0 THEN 1 ELSE Fanout * f[l - 1]]
<1>1. G \in [1 .. Levels -> [Nat -> Nat]] /\ Levels \in Nat
  BY PagingAssumption
<1>2. PICK f \in [0 .. Levels -> Nat] : f[0] = 1 /\ \A n \in 1 .. Levels : f[n] = G[n][f[n - 1]]
  <2> HIDE DEF G
  <2>1. \E f \in [0 .. Levels -> Nat] : Recursive(f, Levels, 1, G)
    BY <1>1, RecursionUpTo, Zenon
  <2> QED
    BY <2>1, Zenon DEF Recursive
<1>3. IsIt(f)
  <2>1. ASSUME NEW l \in 0 .. Levels PROVE f[l] = IF l = 0 THEN 1 ELSE Fanout * f[l - 1]
    <3>1. CASE l = 0
      BY <1>2, <3>1
    <3>2. CASE l # 0
      <4>1. l \in 1 .. Levels /\ f[l - 1] \in Nat
        BY <1>1, <1>2, <3>2
      <4> QED
        BY <1>2, <3>2, <4>1, Zenon
    <3> QED
      BY <3>1, <3>2
  <2> QED
    BY <1>2, <2>1
<1>4. IsIt(PagesUnder)
  <2>1. PagesUnder = CHOOSE g : IsIt(g)
    BY DEF PagesUnder
  <2> HIDE DEF IsIt
  <2> QED
    BY <1>3, <2>1
<1>5. /\ PagesUnder[0] = 1
      /\ \A l \in 1 .. Levels : PagesUnder[l] = Fanout * PagesUnder[l - 1]
  BY <1>1, <1>4
<1>6. \A l \in 0 .. Levels : PagesUnder[l] \in Nat \ {0}
  <2> DEFINE S == {l \in 0 .. Levels : PagesUnder[l] \in Nat \ {0}}
  <2>1. 0 \in S
    BY <1>1, <1>5
  <2>2. ASSUME NEW n \in 0 .. (Levels - 1), n \in S PROVE n + 1 \in S
    BY <1>1, <1>5, <2>2, PagingAssumption, SMTT(30), SMTT(60)
  <2>3. 0 .. Levels \subseteq S
    <3> HIDE DEF S
    <3> QED
      BY <1>1, <2>1, <2>2, InductionUpTo, Zenon
  <2> QED
    BY <2>3
<1> QED
  BY <1>4, <1>5, <1>6, Zenon

(* The quotient of a number is what is left of it without the remainder. *)
LEMMA QuotientUnique ==
  ASSUME NEW d \in Nat \ {0}, NEW a \in Nat, NEW c \in 0 .. (d - 1)
  PROVE  (d * a + c) \div d = a
<1> DEFINE n == d * a + c
           q == n \div d
<1>1. n \in Nat /\ d * a \in Nat
  OBVIOUS
<1>2. q \in Int /\ d * q <= n /\ n < d * q + d
  BY <1>1
<1>3. CASE q < a
  <2>1. d * (q + 1) <= d * a
    BY <1>2, <1>3
  <2> QED
    BY <1>2, <2>1
<1>4. CASE q > a
  <2>1. d * (a + 1) <= d * q
    BY <1>2, <1>4
  <2> QED
    BY <1>2, <2>1
<1> QED
  BY <1>2, <1>3, <1>4

(* Dividing twice. *)
LEMMA QuotientOfQuotient ==
  ASSUME NEW v \in Nat, NEW s \in Nat \ {0}, NEW f \in Nat \ {0}
  PROVE  v \div (f * s) = (v \div s) \div f
<1> DEFINE q == v \div s
           r == v % s
           a == q \div f
           b == q % f
<1>1. q \in Nat /\ r \in 0 .. (s - 1) /\ v = s * q + r
  OBVIOUS
<1>2. a \in Nat /\ b \in 0 .. (f - 1) /\ q = f * a + b
  BY <1>1
<1> HIDE DEF q, r, a, b
<1>3. s * b + r \in 0 .. (f * s - 1)
  <2>1. s * b <= s * (f - 1)
    BY <1>2
  <2> QED
    BY <1>1, <1>2, <2>1
<1>4. v = (f * s) * a + (s * b + r)
  BY <1>1, <1>2
<1>5. f * s \in Nat \ {0}
  OBVIOUS
<1>6. v \div (f * s) = a
  BY <1>2, <1>3, <1>4, <1>5, QuotientUnique, Zenon
<1> QED
  BY <1>6 DEF a, q

(* An index is an index. *)
LEMMA IndexType ==
  ASSUME NEW v \in Pages, NEW l \in Levels1
  PROVE  Index(v, l) \in Indices
<1>1. v \in Nat /\ Levels \in Nat /\ Fanout \in Nat \ {0}
  BY PagesUnderDef, PagingAssumption DEF Pages
<1>a. PagesUnder[l - 1] \in Nat \ {0}
  <2>1. l - 1 \in 0 .. Levels
    BY <1>1 DEF Levels1
  <2> QED
    BY <2>1, PagesUnderDef
<1>2. v \div PagesUnder[l - 1] \in Nat
  BY <1>1, <1>a
<1> QED
  BY <1>1, <1>2 DEF Index, Indices

(* The indices of a page determine it. *)
LEMMA SameIndices ==
  ASSUME NEW v \in Pages, NEW w \in Pages, \A l \in Levels1 : Index(v, l) = Index(w, l)
  PROVE  v = w
<1> DEFINE P(l) == PagesUnder[l]
           S == {k \in 0 .. Levels : v \div P(Levels - k) = w \div P(Levels - k)}
<1>1. Levels \in Nat /\ Fanout \in Nat \ {0} /\ v \in Nat /\ w \in Nat
  BY PagesUnderDef, PagingAssumption DEF Pages
<1>2. 0 \in S
  <2>1. P(Levels) \in Nat \ {0} /\ v \in 0 .. (P(Levels) - 1) /\ w \in 0 .. (P(Levels) - 1)
    BY <1>1, PagesUnderDef DEF Pages
  <2> HIDE DEF P
  <2>2. v \div P(Levels) = 0 /\ w \div P(Levels) = 0
    BY <2>1
  <2> QED
    BY <1>1, <2>2
<1>3. ASSUME NEW k \in 0 .. (Levels - 1), k \in S PROVE k + 1 \in S
  <2> DEFINE l == Levels - k
             s == P(l - 1)
             x == v \div s
             y == w \div s
  <2>1. l \in Levels1 /\ Levels - (k + 1) = l - 1
    BY <1>1 DEF Levels1
  <2>2. s \in Nat \ {0} /\ P(l) = Fanout * s
    BY <1>1, <2>1, PagesUnderDef DEF Levels1
  <2>3. v \div P(l) = w \div P(l)
    BY <1>3
  <2>4. x % Fanout = y % Fanout
    BY <2>1 DEF Index
  <2> HIDE DEF P, l, s
  <2>5. x \div Fanout = y \div Fanout
    <3>1. v \div (Fanout * s) = x \div Fanout /\ w \div (Fanout * s) = y \div Fanout
      BY <1>1, <2>2, QuotientOfQuotient, ZenonT(60)
    <3> QED
      BY <2>2, <2>3, <3>1
  <2>6. x \in Nat /\ y \in Nat
    BY <1>1, <2>2
  <2> HIDE DEF x, y
  <2>7. x = Fanout * (x \div Fanout) + (x % Fanout) /\ y = Fanout * (y \div Fanout) + (y % Fanout)
    BY <1>1, <2>6
  <2>8. x = y
    BY <2>4, <2>5, <2>7
  <2> QED
    BY <1>1, <2>1, <2>8 DEF x, y, s
<1>4. Levels \in S
  <2>1. 0 .. Levels \subseteq S
    <3> HIDE DEF S
    <3> QED
      BY <1>1, <1>2, <1>3, InductionUpTo
  <2> QED
    BY <1>1, <2>1
<1> QED
  BY <1>1, <1>4, PagesUnderDef

-----------------------------------------------------------------------------
(* The tables on the way to a page. *)

(* Induction from the top table down. *)
LEMMA FromTheTop ==
  ASSUME NEW S, Levels \in S, \A l \in Below : l + 1 \in S => l \in S
  PROVE  Levels1 \subseteq S
<1> DEFINE T == {k \in 0 .. (Levels - 1) : Levels - k \in S}
<1>1. Levels \in Nat /\ Levels > 1 /\ Levels - 1 \in Nat
  BY PagingAssumption
<1>2. 0 \in T
  BY <1>1
<1>3. ASSUME NEW k \in 0 .. ((Levels - 1) - 1), k \in T PROVE k + 1 \in T
  <2>1. Levels - (k + 1) \in Below /\ (Levels - (k + 1)) + 1 = Levels - k
    BY <1>1 DEF Below
  <2> QED
    BY <1>1, <1>3, <2>1
<1>4. 0 .. (Levels - 1) \subseteq T
  <2> HIDE DEF T
  <2> QED
    BY <1>1, <1>2, <1>3, InductionUpTo
<1>5. ASSUME NEW l \in Levels1 PROVE l \in S
  <2>1. Levels - l \in T /\ Levels - (Levels - l) = l
    BY <1>1, <1>4 DEF Levels1
  <2> QED
    BY <2>1
<1> QED
  BY <1>5

(* One step of the walk stays among the tables, a level down. *)
LEMMA NextTableType ==
  ASSUME NEW m \in MemType, NEW lvl, Shape(m, lvl), NEW v \in Pages,
         NEW l \in 2 .. Levels, NEW t \in Tables, lvl[t] = l
  PROVE  /\ NextTable(m, t, v, l) \in Tables \union {0}
         /\ NextTable(m, t, v, l) # 0 => lvl[NextTable(m, t, v, l)] = l - 1
<1>1. Index(v, l) \in Indices
  BY PagingAssumption, IndexType DEF Levels1
<1> QED
  BY <1>1, PagingAssumption DEF Shape, NextTable, Leads

(* Reached is what its recursion says. *)
LEMMA ReachedDef ==
  ASSUME NEW m \in MemType, NEW lvl, Shape(m, lvl), NEW v \in Pages
  PROVE  Reached(m, v) =
           [l \in 1 .. Levels |->
              IF l = Levels THEN Root ELSE NextTable(m, Reached(m, v)[l + 1], v, l + 1)]
<1> DEFINE X == Tables \union {0}
           N == Levels - 1
           step(n, x) == IF x # 0 /\ lvl[x] = Levels - n + 1
                         THEN NextTable(m, x, v, Levels - n + 1) ELSE 0
           G == [n \in 1 .. N |-> [x \in X |-> step(n, x)]]
           IsIt(f) == f = [l \in 1 .. Levels |->
                             IF l = Levels THEN Root ELSE NextTable(m, f[l + 1], v, l + 1)]
<1>1. Levels \in Nat /\ Levels > 1 /\ N \in Nat /\ Root \in X
  BY PagingAssumption DEF Tables
<1>2. ASSUME NEW n \in 1 .. N, NEW x \in X
      PROVE  step(n, x) \in X /\ (step(n, x) # 0 => lvl[step(n, x)] = Levels - n)
  <2>1. Levels - n + 1 \in 2 .. Levels /\ (Levels - n + 1) - 1 = Levels - n
    BY <1>1
  <2> QED
    BY <1>1, <2>1, NextTableType
<1> HIDE DEF step, X
<1>3. G \in [1 .. N -> [X -> X]]
  BY <1>2
<1>4. PICK f \in [0 .. N -> X] : f[0] = Root /\ \A n \in 1 .. N : f[n] = G[n][f[n - 1]]
  <2> HIDE DEF G, N
  <2>1. \E f \in [0 .. N -> X] : Recursive(f, N, Root, G)
    BY <1>1, <1>3, RecursionUpTo
  <2> QED
    BY <2>1, Zenon DEF Recursive
<1>5. ASSUME NEW n \in 1 .. N PROVE f[n - 1] \in X /\ f[n] = step(n, f[n - 1])
  <2>1. n - 1 \in 0 .. N
    BY <1>1
  <2>2. f[n - 1] \in X
    BY <1>4, <2>1
  <2> QED
    BY <1>4, <2>2, Zenon
<1>6. ASSUME NEW n \in 0 .. N PROVE f[n] # 0 => lvl[f[n]] = Levels - n
  <2>1. CASE n = 0
    BY <1>1, <1>4, <2>1 DEF Shape
  <2>2. CASE n \in 1 .. N
    BY <1>2, <1>5, <2>2
  <2> QED
    BY <1>1, <2>1, <2>2
<1> DEFINE r == [l \in 1 .. Levels |-> f[Levels - l]]
<1>7. ASSUME NEW l \in 1 .. Levels
      PROVE  r[l] = IF l = Levels THEN Root ELSE NextTable(m, r[l + 1], v, l + 1)
  <2>1. CASE l = Levels
    BY <1>1, <1>4, <2>1
  <2>2. CASE l # Levels
    <3> DEFINE n == Levels - l
               x == f[n - 1]
    <3>1. n \in 1 .. N /\ n - 1 \in 0 .. N /\ Levels - n + 1 = l + 1 /\ r[l] = f[n] /\ r[l + 1] = x
      BY <1>1, <2>2
    <3> HIDE DEF n, r, N
    <3>2. f[n] = step(n, x)
      BY <1>5, <3>1
    <3>3. x # 0 => lvl[x] = Levels - n + 1
      <4>1. Levels - (n - 1) = Levels - n + 1
        BY <1>1, <3>1
      <4> QED
        BY <1>6, <3>1, <4>1
    <3>4. step(n, x) = NextTable(m, x, v, l + 1)
      BY <3>1, <3>3 DEF step, NextTable, Leads
    <3> QED
      BY <2>2, <3>1, <3>2, <3>4
  <2> QED
    BY <2>1, <2>2
<1>8. IsIt(r)
  BY <1>7
<1>9. IsIt(Reached(m, v))
  <2>1. Reached(m, v) = CHOOSE g : IsIt(g)
    BY DEF Reached
  <2> HIDE DEF IsIt, r
  <2> QED
    BY <1>8, <2>1
<1> QED
  BY <1>9, Zenon

(* The table that Reached has at level l is one of level l. *)
LEMMA ReachedType ==
  ASSUME NEW m \in MemType, NEW lvl, Shape(m, lvl), NEW v \in Pages
  PROVE  /\ Reached(m, v)[Levels] = Root
         /\ \A l \in Below : Reached(m, v)[l] = NextTable(m, Reached(m, v)[l + 1], v, l + 1)
         /\ \A l \in Levels1 :
              /\ Reached(m, v)[l] \in Tables \union {0}
              /\ Reached(m, v)[l] # 0 => lvl[Reached(m, v)[l]] = l
<1> DEFINE r == Reached(m, v)
           S == {l \in Levels1 : r[l] \in Tables \union {0} /\ (r[l] # 0 => lvl[r[l]] = l)}
<1>1. Levels \in Nat /\ Levels > 1 /\ 0 \notin Tables
  BY PagingAssumption DEF AllFrames
<1>2. r = [l \in 1 .. Levels |-> IF l = Levels THEN Root ELSE NextTable(m, r[l + 1], v, l + 1)]
  BY ReachedDef
<1> HIDE DEF r
<1>3. r[Levels] = Root
  BY <1>1, <1>2
<1>4. \A l \in Below : r[l] = NextTable(m, r[l + 1], v, l + 1)
  <2> SUFFICES ASSUME NEW l \in Below PROVE r[l] = NextTable(m, r[l + 1], v, l + 1)
    OBVIOUS
  <2>1. l \in 1 .. Levels /\ l # Levels
    BY <1>1 DEF Below
  <2> QED
    BY <1>2, <2>1, Zenon
<1>5. Levels \in S
  BY <1>1, <1>3 DEF Shape, Tables, Levels1
<1>6. ASSUME NEW l \in Below, l + 1 \in S PROVE l \in S
  <2>1. l \in Levels1 /\ l + 1 \in 2 .. Levels /\ (l + 1) - 1 = l
    BY <1>1 DEF Below, Levels1
  <2>2. CASE r[l + 1] = 0
    BY <1>4, <2>1, <2>2 DEF NextTable, Leads
  <2>3. CASE r[l + 1] # 0
    BY <1>4, <1>6, <2>1, <2>3, NextTableType
  <2> QED
    BY <2>2, <2>3
<1>7. Levels1 \subseteq S
  <2> HIDE DEF S
  <2> QED
    BY <1>5, <1>6, FromTheTop
<1> QED
  BY <1>3, <1>4, <1>7 DEF r

(* Two memories with the same tables above level 1 have the same walks. *)
LEMMA SameReached ==
  ASSUME NEW m \in MemType, NEW n \in MemType, NEW lvl, Shape(m, lvl), Shape(n, lvl), NEW v \in Pages,
         \A t \in Tables, i \in Indices :
           lvl[t] > 1 => n[t][i] = m[t][i]
  PROVE  \A l \in Levels1 : Reached(n, v)[l] = Reached(m, v)[l]
<1> DEFINE r == Reached(m, v)
           q == Reached(n, v)
           S == {l \in Levels1 : q[l] = r[l]}
<1>1. Levels \in Nat /\ Levels > 1
  BY PagingAssumption
<1>2. Levels \in S
  BY <1>1, ReachedType, SMTT(30), SMTT(60) DEF Levels1
<1>3. ASSUME NEW l \in Below, l + 1 \in S PROVE l \in S
  <2>1. l \in Levels1 /\ l + 1 \in Levels1 /\ l + 1 > 1
    BY <1>1 DEF Below, Levels1
  <2>2. q[l] = NextTable(n, r[l + 1], v, l + 1) /\ r[l] = NextTable(m, r[l + 1], v, l + 1)
    BY <1>3, ReachedType
  <2>3. r[l + 1] # 0 => r[l + 1] \in Tables /\ lvl[r[l + 1]] > 1 /\ Index(v, l + 1) \in Indices
    BY <2>1, ReachedType, IndexType
  <2> QED
    BY <2>1, <2>2, <2>3 DEF NextTable, Leads
<1>4. Levels1 \subseteq S
  <2> HIDE DEF S
  <2> QED
    BY <1>2, <1>3, FromTheTop
<1> QED
  BY <1>4

(* They have the same huge pages as well. *)
LEMMA SameHuge ==
  ASSUME NEW m \in MemType, NEW n \in MemType, NEW lvl, Shape(m, lvl), Shape(n, lvl), NEW v \in Pages,
         \A t \in Tables, i \in Indices :
           lvl[t] > 1 => n[t][i] = m[t][i]
  PROVE  UnderHuge(n, v) <=> UnderHuge(m, v)
<1>1. Levels \in Nat
  BY PagingAssumption
<1>2. ASSUME NEW l \in 2 .. Levels
      PROVE  /\ Reached(n, v)[l] = Reached(m, v)[l]
             /\ Reached(m, v)[l] # 0 => n[Reached(m, v)[l]][Index(v, l)] = m[Reached(m, v)[l]][Index(v, l)]
  <2>1. l \in Levels1 /\ l > 1
    BY <1>1 DEF Levels1
  <2>2. Reached(n, v)[l] = Reached(m, v)[l]
    BY <2>1, SameReached
  <2>3. Reached(m, v)[l] # 0 => Reached(m, v)[l] \in Tables /\ lvl[Reached(m, v)[l]] > 1 /\ Index(v, l) \in Indices
    BY <2>1, ReachedType, IndexType
  <2> QED
    BY <2>2, <2>3
<1> QED
  BY <1>2, Zenon DEF UnderHuge

(* There is no table beyond a huge page. *)
LEMMA HugeIsLast ==
  ASSUME NEW m \in MemType, NEW lvl, Shape(m, lvl), NEW v \in Pages, UnderHuge(m, v)
  PROVE  Reached(m, v)[1] = 0
<1> DEFINE r == Reached(m, v)
<1>1. Levels \in Nat /\ Levels > 1
  BY PagingAssumption
<1>2. PICK k \in 2 .. Levels : r[k] # 0 /\ m[r[k]][Index(v, k)].page_size
  BY Zenon DEF UnderHuge
<1> DEFINE S == {l \in Levels1 : l >= k \/ r[l] = 0}
<1>3. Levels \in S
  BY <1>1 DEF Levels1
<1>4. ASSUME NEW l \in Below, l + 1 \in S PROVE l \in S
  <2>1. l \in Levels1 /\ l \in Nat /\ k \in Nat
    BY <1>1 DEF Below, Levels1
  <2>2. r[l] = NextTable(m, r[l + 1], v, l + 1)
    BY ReachedType
  <2> HIDE DEF r
  <2>3. CASE r[l + 1] = 0
    BY <2>1, <2>2, <2>3 DEF NextTable
  <2>4. CASE l + 1 = k
    BY <1>2, <2>1, <2>2, <2>4 DEF NextTable, Leads
  <2>5. CASE l + 1 > k
    BY <2>1, <2>5
  <2> QED
    BY <1>4, <2>1, <2>3, <2>4, <2>5
<1>5. Levels1 \subseteq S
  <2> HIDE DEF S
  <2> QED
    BY <1>3, <1>4, FromTheTop
<1> QED
  BY <1>1, <1>5 DEF Levels1

(* A table is on the way to pages with the same indices above it only. *)
LEMMA OneWay ==
  ASSUME NEW m \in MemType, NEW lvl, Shape(m, lvl), EnteredOnce(m, lvl),
         NEW v \in Pages, NEW w \in Pages,
         Reached(m, v)[1] # 0, Reached(m, v)[1] = Reached(m, w)[1], Index(v, 1) = Index(w, 1)
  PROVE  v = w

<1> DEFINE r == Reached(m, v)
           q == Reached(m, w)
           S == {k \in 0 .. (Levels - 1) :
                   r[k + 1] # 0 /\ r[k + 1] = q[k + 1] /\ Index(v, k + 1) = Index(w, k + 1)}
<1>1. Levels \in Nat /\ Levels > 1 /\ Levels - 1 \in Nat
  BY PagingAssumption
<1>2. 0 \in S
  BY <1>1
<1>3. ASSUME NEW k \in 0 .. ((Levels - 1) - 1), k \in S PROVE k + 1 \in S
  <2> DEFINE l == k + 1
  <2>1. l \in Below /\ l \in Levels1 /\ l + 1 \in Levels1 /\ l + 1 > 1
    BY <1>1 DEF Below, Levels1
  <2>2. r[l] # 0 /\ r[l] = q[l]
    BY <1>3
  <2>3. r[l] = NextTable(m, r[l + 1], v, l + 1) /\ q[l] = NextTable(m, q[l + 1], w, l + 1)
    BY <2>1, ReachedType
  <2>4. /\ r[l + 1] \in Tables \union {0} /\ (r[l + 1] # 0 => lvl[r[l + 1]] > 1)
        /\ q[l + 1] \in Tables \union {0} /\ (q[l + 1] # 0 => lvl[q[l + 1]] > 1)
    BY <2>1, ReachedType
  <2>5. Index(v, l + 1) \in Indices /\ Index(w, l + 1) \in Indices
    BY <2>1, IndexType
  <2> HIDE DEF l
  <2>6. r[l + 1] # 0 /\ r[l + 1] = q[l + 1] /\ Index(v, l + 1) = Index(w, l + 1)
    <3> DEFINE t == r[l + 1]
               u == q[l + 1]
               i == Index(v, l + 1)
               j == Index(w, l + 1)
    <3>1. t # 0 /\ m[t][i].present /\ ~m[t][i].page_size /\ m[t][i].address = r[l]
      BY <2>2, <2>3 DEF NextTable, Leads
    <3>2. u # 0 /\ m[u][j].present /\ ~m[u][j].page_size /\ m[u][j].address = r[l]
      BY <2>2, <2>3, Zenon DEF NextTable, Leads
    <3>3. t \in Tables /\ u \in Tables /\ lvl[t] > 1 /\ lvl[u] > 1 /\ i \in Indices /\ j \in Indices
      BY <2>4, <2>5, <3>1, <3>2
    <3> HIDE DEF t, u, i, j
    <3>4. t = u /\ i = j
      BY <3>1, <3>2, <3>3 DEF EnteredOnce
    <3> QED
      BY <3>1, <3>4, ZenonT(60) DEF t, u, i, j
  <2> QED
    BY <1>1, <2>6 DEF l
<1>4. 0 .. (Levels - 1) \subseteq S
  <2> HIDE DEF S
  <2> QED
    BY <1>1, <1>2, <1>3, InductionUpTo
<1>5. ASSUME NEW l \in Levels1 PROVE Index(v, l) = Index(w, l)
  <2>1. l - 1 \in S /\ (l - 1) + 1 = l
    BY <1>1, <1>4 DEF Levels1
  <2> QED
    BY <2>1
<1> QED
  BY <1>5, SameIndices

(* Entering a new, empty table changes the way to nothing but itself. *)
LEMMA NewTable ==
  ASSUME NEW m \in MemType, NEW n \in MemType, NEW lvl, NEW lvl2, Shape(m, lvl), Shape(n, lvl2),
         NEW t \in Tables, NEW i \in Indices, NEW f \in Tables,
         lvl[t] > 1, ~m[t][i].present, lvl[f] = 0,
         n[t][i].present, ~n[t][i].page_size, n[t][i].address = f,
         \A u \in Tables, j \in Indices :
           u # f /\ ~(u = t /\ j = i) => n[u][j] = m[u][j],
         \A j \in Indices : n[f][j] = EmptyEntry,
         NEW v \in Pages
  PROVE  \A l \in Levels1 : \/ Reached(n, v)[l] = Reached(m, v)[l]
                            \/ Reached(m, v)[l] = 0 /\ Reached(n, v)[l] = f
<1> DEFINE r == Reached(m, v)
           q == Reached(n, v)
           S == {l \in Levels1 : q[l] = r[l] \/ (r[l] = 0 /\ q[l] = f)}
<1>1. Levels \in Nat /\ Levels > 1 /\ 0 \notin Tables
  BY PagingAssumption DEF AllFrames
<1>2. Levels \in S
  BY <1>1, ReachedType, SMTT(30), SMTT(60) DEF Levels1
<1>3. ASSUME NEW l \in Below, l + 1 \in S PROVE l \in S
  <2>1. l \in Levels1 /\ l + 1 \in Levels1 /\ l + 1 > 1
    BY <1>1 DEF Below, Levels1
  <2>2. q[l] = NextTable(n, q[l + 1], v, l + 1) /\ r[l] = NextTable(m, r[l + 1], v, l + 1)
    BY ReachedType
  <2>3. r[l + 1] \in Tables \union {0} /\ (r[l + 1] # 0 => lvl[r[l + 1]] > 1)
    BY <2>1, ReachedType
  <2>4. Index(v, l + 1) \in Indices
    BY <2>1, IndexType, SMTT(30), SMTT(60)
  <2>5. CASE q[l + 1] = r[l + 1]
    <3>1. CASE r[l + 1] = t /\ Index(v, l + 1) = i
      BY <1>1, <2>1, <2>2, <2>5, <3>1, SMTT(30), SMTT(60) DEF NextTable, Leads
    <3>2. CASE r[l + 1] # 0 /\ ~(r[l + 1] = t /\ Index(v, l + 1) = i)
      BY <2>1, <2>2, <2>3, <2>4, <2>5, <3>2, SMTT(30), SMTT(60) DEF NextTable, Leads
    <3>3. CASE r[l + 1] = 0
      BY <2>1, <2>2, <2>5, <3>3, SMTT(30), SMTT(60) DEF NextTable, Leads
    <3> QED
      BY <1>1, <3>1, <3>2, <3>3, SMTT(30), SMTT(60)
  <2>6. CASE r[l + 1] = 0 /\ q[l + 1] = f
    BY <2>1, <2>2, <2>4, <2>6, SMTT(30), SMTT(60) DEF NextTable, Leads, EmptyEntry
  <2> QED
    BY <1>3, <2>5, <2>6
<1>4. Levels1 \subseteq S
  <2> HIDE DEF S
  <2> QED
    BY <1>2, <1>3, FromTheTop, SMTT(30), SMTT(60)
<1> QED
  BY <1>4

-----------------------------------------------------------------------------
(* The inductive invariant. *)

(* A frame that may be mapped as memory: handed out, and not a table. *)
Data(g, lvl, f) ==
  /\ f \in g \union Devices \union {BootFrame}
  /\ f \in Tables => lvl[f] = 0

(* The call under way stands at a table on the way to its page, and has     *)
(* found the entry there empty once it is past looking.                     *)
CallOK(o, m, g, lvl) ==
  o.pc # "idle" =>
    /\ o.table = Reached(m, o.page)[o.level]
    /\ o.pc # "look" => ~m[o.table][Index(o.page, o.level)].present
    /\ o.pc = "allocate" => o.level > 1
    /\ o.pc = "set" => o.level = 1
    /\ Data(g, lvl, o.frame)
    /\ o.left \in {1, 2}
    /\ o.left = 2 => o.page + 1 \in Pages /\ o.frame + 1 \in Devices

BootLeaf(t, i) == t = BootTables[1] /\ i = Index(BootPage, 1)

Tree(m, g, lvl) ==
  /\ Shape(m, lvl)
  /\ EnteredOnce(m, lvl)
  /\ \A t \in Tables : lvl[t] > 0 => t \in g \union BootRange \union {Root}
  /\ \A t \in Tables, i \in Indices : lvl[t] = 1 /\ m[t][i].present => Data(g, lvl, m[t][i].address)
  /\ \A t \in Tables, i \in Indices :
       lvl[t] = 1 /\ ~BootLeaf(t, i) => (m[t][i].unused_1 <=> m[t][i].present)
  /\ Reached(m, BootPage)[1] = BootTables[1]

(* No translation the processor remembers is out of date. *)
TLBFresh == \A e \in tlb : Physical(mem, e[1]) = e[2]

InvAt(lvl) ==
  /\ TypeOK
  /\ Tree(mem, given, lvl)
  /\ CallOK(op, mem, given, lvl)
  /\ TLBFresh

PagingInv == \E lvl : InvAt(lvl)

EntryType == [present : BOOLEAN, unused_1 : BOOLEAN, page_size : BOOLEAN, address : AllFrames \union {0}]

(* Entry i of table t, and no other, is set to e. *)
LeafSet(m, n, t, i, e) ==
  /\ n[t][i] = e
  /\ \A u \in Tables, j \in Indices : ~(u = t /\ j = i) => n[u][j] = m[u][j]

(* What a table of level 1 may have for an entry. *)
GoodLeaf(g, lvl, t, i, e) ==
  /\ ~e.page_size /\ (e.present <=> e.address # 0)
  /\ e.present => Data(g, lvl, e.address)
  /\ ~BootLeaf(t, i) => (e.unused_1 <=> e.present)

(* One entry of a table of level 1 changes: the tree stays and so do the     *)
(* translations of all pages but the one that uses the entry.               *)
LEMMA LeafChange ==
  ASSUME NEW m \in MemType, NEW n \in MemType, NEW g, NEW lvl, Tree(m, g, lvl),
         NEW t \in Tables, lvl[t] = 1, NEW i \in Indices, NEW e,
         LeafSet(m, n, t, i, e), GoodLeaf(g, lvl, t, i, e)
  PROVE  /\ Tree(n, g, lvl)
         /\ \A v \in Pages, l \in Levels1 : Reached(n, v)[l] = Reached(m, v)[l]
         /\ \A v \in Pages : 
              Physical(n, v) = IF Reached(m, v)[1] = t /\ Index(v, 1) = i
                                  THEN e.address ELSE Physical(m, v)
<1> USE DEF LeafSet, GoodLeaf
<1>3. Shape(m, lvl) /\ EnteredOnce(m, lvl) /\ lvl \in [Tables -> 0 .. Levels] /\ Levels \in Nat
  BY PagingAssumption, SMTT(30), SMTT(60) DEF Tree, Shape
<1>4. \A u \in Tables, j \in Indices : lvl[u] > 1 => n[u][j] = m[u][j]
  BY SMTT(30), SMTT(60)
<1>5. Shape(n, lvl)
  <2>1. \A u \in Tables, j \in Indices :
          lvl[u] > 0 /\ ~n[u][j].page_size => (n[u][j].present <=> n[u][j].address # 0)
    BY <1>3, SMTT(30), SMTT(60) DEF Shape
  <2>2. \A u \in Tables, j \in Indices : lvl[u] > 0 /\ n[u][j].page_size => n[u][j].present /\ lvl[u] > 1
    BY <1>3, SMTT(30), SMTT(60) DEF Shape
  <2> QED
    BY <1>3, <1>4, <2>1, <2>2, SMTT(30), SMTT(60) DEF Shape
<1>6. EnteredOnce(n, lvl)
  BY <1>3, <1>4, SMTT(30), SMTT(60) DEF EnteredOnce
<1>7. \A v \in Pages, l \in Levels1 : Reached(n, v)[l] = Reached(m, v)[l]
  <2>1. \A u \in Tables, j \in Indices : lvl[u] > 1 => n[u][j] = m[u][j]
    BY <1>4, SMTT(30), SMTT(60)
  <2> QED
    BY <1>3, <1>5, <2>1, SameReached, SMTT(30), SMTT(60)
<1>8. 1 \in Levels1 /\ BootPage \in Pages
  BY PagingAssumption, SMTT(30) DEF Levels1
<1>9. Tree(n, g, lvl)
  <2>2. \A u \in Tables, j \in Indices : lvl[u] = 1 /\ n[u][j].present => Data(g, lvl, n[u][j].address)
    BY SMTT(30), SMTT(60) DEF Tree
  <2>3. \A u \in Tables, j \in Indices :
          lvl[u] = 1 /\ ~BootLeaf(u, j) => (n[u][j].unused_1 <=> n[u][j].present)
    BY DEF Tree
  <2>4. Reached(n, BootPage)[1] = BootTables[1]
    BY <1>7, <1>8, ZenonT(60) DEF Tree
  <2> QED
    BY <1>5, <1>6, <2>2, <2>3, <2>4, ZenonT(60) DEF Tree
<1>10. ASSUME NEW v \in Pages
       PROVE  Physical(n, v) = IF Reached(m, v)[1] = t /\ Index(v, 1) = i
                                  THEN e.address ELSE Physical(m, v)
  <2>1. Reached(n, v)[1] = Reached(m, v)[1] /\ Index(v, 1) \in Indices
    BY <1>7, <1>8, IndexType, SMTT(30), SMTT(60)
  <2>2. Reached(m, v)[1] \in Tables \union {0} /\ 0 \notin Tables
    BY <1>3, <1>8, ReachedType, PagingAssumption DEF AllFrames
  <2>3. Small(n, v) = IF Reached(m, v)[1] = t /\ Index(v, 1) = i THEN e.address ELSE Small(m, v)
    BY <2>1, <2>2, SMTT(30), SMTT(60) DEF Small, PresentAddress
  <2>4. UnderHuge(n, v) <=> UnderHuge(m, v)
    BY <1>3, <1>4, <1>5, SameHuge, SMTT(30), SMTT(60)
  <2>5. UnderHuge(m, v) => Reached(m, v)[1] = 0
    BY <1>3, HugeIsLast, SMTT(30), SMTT(60)
  <2> QED
    BY <2>2, <2>3, <2>4, <2>5, SMTT(30), SMTT(60) DEF Physical
<1> QED
  BY <1>7, <1>9, <1>10, SMTT(30), SMTT(60)

(* A frame that has not been handed out is neither table nor data. *)
LEMMA Unused ==
  ASSUME NEW g \in SUBSET RAM, NEW m, NEW lvl, Tree(m, g, lvl), NEW f \in RAM, f \notin g
  PROVE  /\ f \in Tables /\ lvl[f] = 0 /\ f # 0
         /\ \A d : Data(g, lvl, d) => d # f
<1>1. f \in Tables /\ f \notin BootRange \union {Root} /\ f # 0
  BY PagingAssumption DEF Tables, AllFrames
<1>2. f \notin Devices \union {BootFrame}
  BY <1>1, PagingAssumption, SMTT(30), SMTT(60)
<1>3. lvl \in [Tables -> 0 .. Levels] /\ Levels \in Nat
  BY PagingAssumption, SMTT(30), SMTT(60) DEF Tree, Shape
<1>4. lvl[f] = 0
  BY <1>1, <1>3 DEF Tree
<1> QED
  BY <1>1, <1>2, <1>4 DEF Data

(* A frame is handed out and cleared. *)
LEMMA FreshFrame ==
  ASSUME NEW m \in MemType, NEW n \in MemType, NEW g \in SUBSET RAM, NEW h, g \subseteq h,
         NEW lvl, Tree(m, g, lvl), NEW f \in RAM, f \notin g,
         \A u \in Tables : u # f => n[u] = m[u]
  PROVE  /\ Tree(n, h, lvl)
         /\ \A v \in Pages, l \in Levels1 : Reached(n, v)[l] = Reached(m, v)[l]
         /\ \A v \in Pages : Physical(n, v) = Physical(m, v)
<1>2. lvl[f] = 0
  BY Unused, SMTT(30), SMTT(60)
<1>3. Shape(m, lvl) /\ EnteredOnce(m, lvl) /\ lvl \in [Tables -> 0 .. Levels] /\ Levels \in Nat
  BY PagingAssumption, SMTT(30), SMTT(60) DEF Tree, Shape
<1>4. \A u \in Tables : lvl[u] > 0 => n[u] = m[u]
  BY <1>2, SMTT(30), SMTT(60)
<1>5. Shape(n, lvl) /\ EnteredOnce(n, lvl)
  BY <1>3, <1>4, SMTT(30), SMTT(60) DEF Shape, EnteredOnce
<1>6. \A v \in Pages, l \in Levels1 : Reached(n, v)[l] = Reached(m, v)[l]
  <2>1. \A u \in Tables, j \in Indices : lvl[u] > 1 => n[u][j] = m[u][j]
    BY <1>3, <1>4
  <2> QED
    BY <1>3, <1>5, <2>1, SameReached
<1>7. 1 \in Levels1 /\ BootPage \in Pages
  BY PagingAssumption, SMTT(30), SMTT(60) DEF Levels1
<1>8. Tree(n, h, lvl)
  <2>1. \A d : Data(g, lvl, d) => Data(h, lvl, d)
    BY SMTT(30), SMTT(60) DEF Data
  <2>2. \A u \in Tables, j \in Indices : lvl[u] = 1 /\ n[u][j].present => Data(h, lvl, n[u][j].address)
    BY <1>4, <2>1, SMTT(30), SMTT(60) DEF Tree
  <2>3. \A u \in Tables, j \in Indices :
          lvl[u] = 1 /\ ~BootLeaf(u, j) => (n[u][j].unused_1 <=> n[u][j].present)
    BY <1>4, SMTT(30), SMTT(60) DEF Tree
  <2>4. Reached(n, BootPage)[1] = BootTables[1]
    BY <1>6, <1>7, SMTT(30), SMTT(60) DEF Tree
  <2>5. \A u \in Tables : lvl[u] > 0 => u \in h \union BootRange \union {Root}
    BY SMTT(30), SMTT(60) DEF Tree
  <2> QED
    BY <1>5, <2>2, <2>3, <2>4, <2>5, SMTT(30), SMTT(60) DEF Tree
<1>9. ASSUME NEW v \in Pages PROVE Physical(n, v) = Physical(m, v)
  <2>1. /\ Reached(n, v)[1] = Reached(m, v)[1]
        /\ Reached(m, v)[1] \in Tables \union {0}
        /\ Reached(m, v)[1] # 0 => lvl[Reached(m, v)[1]] = 1
    BY <1>3, <1>6, <1>7, ReachedType, SMTT(30), SMTT(60)
  <2>2. UnderHuge(n, v) <=> UnderHuge(m, v)
    <3>1. \A u \in Tables, j \in Indices : lvl[u] > 1 => n[u][j] = m[u][j]
      BY <1>3, <1>4
    <3> QED
      BY <1>3, <1>5, <3>1, SameHuge
  <2> QED
    BY <1>4, <2>1, <2>2, SMTT(30), SMTT(60) DEF Physical, Small, PresentAddress
<1> QED
  BY <1>6, <1>8, <1>9

(* f is cleared and entered into t, and nothing else changes. *)
Entered(m, n, t, i, f) ==
  /\ n[t][i].present /\ ~n[t][i].page_size /\ n[t][i].address = f
  /\ \A u \in Tables, j \in Indices : u # f /\ ~(u = t /\ j = i) => n[u][j] = m[u][j]
  /\ \A j \in Indices : n[f][j] = EmptyEntry

(* The new table is of the level below. *)
Placed(lvl, lvl2, t, f) ==
  /\ lvl2[f] = lvl[t] - 1
  /\ \A u \in Tables : u # f => lvl2[u] = lvl[u]

(* A frame is handed out, cleared, and entered as a table. *)
LEMMA EnterTable ==
  ASSUME NEW m \in MemType, NEW n \in MemType, NEW g \in SUBSET RAM, NEW h, NEW lvl, Tree(m, g, lvl),
         NEW t \in Tables, lvl[t] > 1, NEW i \in Indices,
         ~m[t][i].present, NEW f \in RAM, f \notin g, g \subseteq h, f \in h,
         Entered(m, n, t, i, f),
         NEW lvl2 \in [Tables -> 0 .. Levels], Placed(lvl, lvl2, t, f)
  PROVE  /\ Tree(n, h, lvl2)
         /\ \A v \in Pages, l \in Levels1 :
              Reached(m, v)[l] # 0 => Reached(n, v)[l] = Reached(m, v)[l]
         /\ \A v \in Pages : Physical(n, v) = Physical(m, v)
<1> USE DEF Placed
<1>1. /\ f \in Tables /\ lvl[f] = 0 /\ f # 0
      /\ \A d : Data(g, lvl, d) => d # f
  <2>1. f \in Tables /\ lvl[f] = 0 /\ f # 0
    BY Unused
  <2>2. ASSUME NEW d, Data(g, lvl, d) PROVE d # f
    BY <2>2, Unused, ZenonT(60)
  <2> QED
    BY <2>1, <2>2
<1>3. Shape(m, lvl) /\ EnteredOnce(m, lvl) /\ lvl \in [Tables -> 0 .. Levels] /\ Levels \in Nat
  BY PagingAssumption, ZenonT(60) DEF Tree, Shape
<1>4. /\ n[t][i].present /\ ~n[t][i].page_size /\ n[t][i].address = f
      /\ \A u \in Tables, j \in Indices : u # f /\ ~(u = t /\ j = i) => n[u][j] = m[u][j]
      /\ \A j \in Indices : n[f][j] = EmptyEntry
  BY DEF Entered
<1>6. Shape(n, lvl2)
  <2>1. lvl2[Root] = Levels
    BY <1>4, <1>1, <1>3, SMTT(30), SMTT(60) DEF Shape, Tables
  <2>2. \A u \in Tables, j \in Indices :
          lvl2[u] > 0 /\ ~n[u][j].page_size => (n[u][j].present <=> n[u][j].address # 0)
    BY <1>4, <1>1, <1>3, SMTT(30), SMTT(60) DEF Shape, EmptyEntry
  <2>4. \A u \in Tables, j \in Indices : lvl2[u] > 0 /\ n[u][j].page_size => n[u][j].present /\ lvl2[u] > 1
    BY <1>4, <1>1, <1>3, SMTT(30), SMTT(60) DEF Shape, EmptyEntry
  <2>3. ASSUME NEW u \in Tables, NEW j \in Indices, lvl2[u] > 1, n[u][j].present, ~n[u][j].page_size
        PROVE  n[u][j].address \in Tables /\ lvl2[n[u][j].address] = lvl2[u] - 1
    <3>1. u # f
      BY <1>4, <2>3, SMTT(30), SMTT(60) DEF EmptyEntry
    <3>2. CASE u = t /\ j = i
      BY <1>4, <1>1, <3>1, <3>2, ZenonT(60)
    <3>3. CASE ~(u = t /\ j = i)
      BY <1>4, <1>1, <1>3, <2>3, <3>1, <3>3, SMTT(30), SMTT(60) DEF Shape
    <3> QED
      BY <1>4, <3>2, <3>3, SMTT(30), SMTT(60)
  <2> QED
    BY <1>4, <2>1, <2>2, <2>3, <2>4, ZenonT(60) DEF Shape
<1>7. EnteredOnce(n, lvl2)
  <2> SUFFICES ASSUME NEW u \in Tables, NEW w \in Tables, NEW j \in Indices, NEW k \in Indices,
                      lvl2[u] > 1, n[u][j].present, ~n[u][j].page_size,
                      lvl2[w] > 1, n[w][k].present, ~n[w][k].page_size,
                      n[u][j].address = n[w][k].address
               PROVE  u = w /\ j = k
    BY <1>4 DEF EnteredOnce
  <2>1. u # f /\ w # f /\ lvl[u] > 1 /\ lvl[w] > 1
    <3>1. n[f][j] = EmptyEntry /\ n[f][k] = EmptyEntry
      BY <1>4, Zenon
    <3>2. ~n[f][j].present /\ ~n[f][k].present
      BY <3>1, SMTT(30), SMTT(60) DEF EmptyEntry
    <3>3. u # f /\ w # f
      BY <3>2, Zenon
    <3>4. lvl2[u] = lvl[u] /\ lvl2[w] = lvl[w]
      BY <3>3, ZenonT(60)
    <3> QED
      BY <3>3, <3>4, Zenon
  <2>2. \A x \in Tables, y \in Indices : lvl[x] > 1 /\ m[x][y].present /\ ~m[x][y].page_size => m[x][y].address # f
    BY <1>4, <1>1, <1>3, SMTT(30), SMTT(60) DEF Shape
  <2> QED
    BY <1>4, <1>3, <2>1, <2>2, SMTT(30), SMTT(60) DEF EnteredOnce
<1>8. ASSUME NEW v \in Pages
      PROVE  \A l \in Levels1 : \/ Reached(n, v)[l] = Reached(m, v)[l]
                                \/ Reached(m, v)[l] = 0 /\ Reached(n, v)[l] = f
  BY <1>4, <1>1, <1>3, <1>6, NewTable, SMTT(30), SMTT(60)
<1>9. 1 \in Levels1 /\ BootPage \in Pages /\ BootTables[1] # 0
  BY PagingAssumption, SMTT(30) DEF Levels1, Below, BootRange, AllFrames, Tables
<1>10. Tree(n, h, lvl2)
  <2>1. \A d : Data(g, lvl, d) => Data(h, lvl2, d)
    BY <1>4, <1>1, SMTT(30), SMTT(60) DEF Data
  <2>2. \A u \in Tables, j \in Indices : lvl2[u] = 1 /\ n[u][j].present => Data(h, lvl2, n[u][j].address)
    BY <1>4, <2>1 DEF Tree, EmptyEntry
  <2>3. ASSUME NEW u \in Tables, NEW j \in Indices, lvl2[u] = 1, ~BootLeaf(u, j)
        PROVE  n[u][j].unused_1 <=> n[u][j].present
    <3>1. CASE u = f
      BY <1>4, <3>1, SMTT(20) DEF EmptyEntry
    <3>2. CASE u # f
      <4>1. lvl[u] = 1 /\ n[u][j] = m[u][j]
        <5>1. lvl[u] = 1
          BY <2>3, <3>2, Zenon
        <5>2. u # t
          BY <5>1
        <5> QED
          BY <1>4, <3>2, <5>1, <5>2, Zenon
      <4> QED
        BY <1>4, <2>3, <4>1, Zenon DEF Tree
    <3> QED
      BY <1>4, <3>1, <3>2, ZenonT(60)
  <2>4. Reached(n, BootPage)[1] = BootTables[1]
    <3>1. Reached(m, BootPage)[1] = BootTables[1]
      BY Zenon DEF Tree
    <3>2. \/ Reached(n, BootPage)[1] = Reached(m, BootPage)[1]
          \/ Reached(m, BootPage)[1] = 0
      BY <1>8, <1>9, ZenonT(60)
    <3> QED
      BY <1>9, <3>1, <3>2, Zenon
  <2>5. \A u \in Tables : lvl2[u] > 0 => u \in h \union BootRange \union {Root}
    BY <1>4, SMTT(30), SMTT(60) DEF Tree
  <2> QED
    BY <1>4, <1>6, <1>7, <2>2, <2>3, <2>4, <2>5, ZenonT(60) DEF Tree
<1>11. ASSUME NEW v \in Pages PROVE Small(n, v) = Small(m, v)
  <2>1. /\ Reached(m, v)[1] \in Tables \union {0}
        /\ Reached(m, v)[1] # 0 => lvl[Reached(m, v)[1]] = 1
        /\ Index(v, 1) \in Indices
    BY <1>4, <1>3, <1>9, ReachedType, IndexType, SMTT(30), SMTT(60)
  <2>2. CASE Reached(n, v)[1] = Reached(m, v)[1]
    <3>1. CASE Reached(m, v)[1] = 0
      BY <2>2, <3>1, Zenon DEF Small, PresentAddress
    <3>2. CASE Reached(m, v)[1] # 0
      <4> DEFINE u == Reached(m, v)[1]
                 j == Index(v, 1)
      <4>1. u \in Tables /\ lvl[u] = 1 /\ j \in Indices
        BY <2>1, <3>2, Zenon
      <4> HIDE DEF u, j
      <4>2. u # f /\ u # t
        BY <1>1, <4>1
      <4>3. n[u][j] = m[u][j]
        BY <1>4, <4>1, <4>2, Zenon
      <4> QED
        BY <2>2, <4>3, Zenon DEF Small, PresentAddress, u, j
    <3> QED
      BY <3>1, <3>2, Zenon
  <2>3. CASE Reached(m, v)[1] = 0 /\ Reached(n, v)[1] = f
    <3>1. ~n[f][Index(v, 1)].present
      <4>1. n[f][Index(v, 1)] = EmptyEntry
        BY <1>4, <2>1, Zenon
      <4> QED
        BY <4>1 DEF EmptyEntry
    <3> QED
      BY <2>3, <3>1, ZenonT(60) DEF Small, PresentAddress
  <2> QED
    BY <1>8, <1>9, <2>2, <2>3, ZenonT(60)
<1>12. ASSUME NEW v \in Pages PROVE UnderHuge(n, v) <=> UnderHuge(m, v)
  <2>1. ASSUME NEW l \in 2 .. Levels
        PROVE  (Reached(n, v)[l] # 0 /\ n[Reached(n, v)[l]][Index(v, l)].page_size)
                 <=> (Reached(m, v)[l] # 0 /\ m[Reached(m, v)[l]][Index(v, l)].page_size)
    <3> DEFINE u == Reached(m, v)[l]
               j == Index(v, l)
    <3>1. l \in Levels1
      BY <1>3 DEF Levels1
    <3>2. u \in Tables \union {0} /\ (u # 0 => lvl[u] = l) /\ j \in Indices
      BY <1>3, <3>1, ReachedType, IndexType
    <3>3. \/ Reached(n, v)[l] = u
          \/ u = 0 /\ Reached(n, v)[l] = f
      BY <1>8, <3>1
    <3> HIDE DEF u, j
    <3>4. CASE Reached(n, v)[l] = u
      <4>1. u # 0 => u \in Tables /\ u # f
        BY <1>1, <3>2
      <4>2. CASE u = t /\ j = i
        <5>1. ~m[t][i].page_size
          BY <1>3, <3>2 DEF Shape
        <5> QED
          BY <1>4, <3>4, <4>2, <5>1 DEF u, j
      <4>3. CASE u # 0 /\ ~(u = t /\ j = i)
        <5>1. n[u][j] = m[u][j]
          BY <1>4, <3>2, <4>1, <4>3
        <5> QED
          BY <3>4, <5>1, Zenon DEF u, j
      <4> QED
        BY <3>4, <4>2, <4>3 DEF u
    <3>5. CASE u = 0 /\ Reached(n, v)[l] = f
      <4>1. ~n[f][j].page_size
        BY <1>4, <3>2 DEF EmptyEntry
      <4> QED
        BY <3>5, <4>1, Zenon DEF u, j
    <3> QED
      BY <3>3, <3>4, <3>5
  <2> QED
    BY <2>1, Zenon DEF UnderHuge
<1>13. \A v \in Pages : Physical(n, v) = Physical(m, v)
  BY <1>11, <1>12, Zenon DEF Physical
<1> QED
  BY <1>4, <1>8, <1>10, <1>13, SMTT(30), SMTT(60)

-----------------------------------------------------------------------------
(* The boot loader's tables are a tree with one leaf. *)
BootLevel == [t \in Tables |->
  IF t = Root THEN Levels
  ELSE IF t \in BootRange THEN CHOOSE l \in Below : t = BootTables[l] ELSE 0]

(* What there is to know of the boot loader's tables. *)
LEMMA BootFacts ==
  /\ BootLevel \in [Tables -> 0 .. Levels]
  /\ BootLevel[Root] = Levels
  /\ \A l \in Below : BootTables[l] \in Tables /\ BootTables[l] # Root /\ BootTables[l] \notin RAM
                      /\ BootLevel[BootTables[l]] = l
  /\ \A t \in Tables : BootLevel[t] > 0 => t = Root \/ (BootLevel[t] \in Below /\ t = BootTables[BootLevel[t]])
  /\ Root \in Tables /\ Root \notin RAM
  /\ Levels \in Nat /\ Levels > 1
<1>1. Levels \in Nat /\ Levels > 1 /\ Root \in Tables /\ Root \notin RAM \union BootRange
  BY PagingAssumption DEF Tables
<1>2. ASSUME NEW l \in Below
      PROVE  BootTables[l] \in Tables /\ BootTables[l] # Root /\ BootTables[l] \notin RAM
             /\ BootLevel[BootTables[l]] = l
  <2>1. BootTables[l] \in BootRange
    BY DEF BootRange
  <2>2. BootTables[l] \in Tables /\ BootTables[l] # Root /\ BootTables[l] \notin RAM
    BY <1>1, <2>1, PagingAssumption DEF Tables
  <2>3. (CHOOSE k \in Below : BootTables[l] = BootTables[k]) = l
    BY PagingAssumption
  <2> QED
    BY <2>1, <2>2, <2>3 DEF BootLevel
<1>3. ASSUME NEW t \in Tables, t # Root, t \in BootRange
      PROVE  BootLevel[t] \in Below /\ t = BootTables[BootLevel[t]]
  BY <1>2, <1>3 DEF BootRange
<1>4. \A t \in Tables : t # Root /\ t \notin BootRange => BootLevel[t] = 0
  BY DEF BootLevel
<1>5. BootLevel[Root] = Levels
  BY <1>1 DEF BootLevel
<1>6. \A t \in Tables : BootLevel[t] \in 0 .. Levels
  BY <1>1, <1>3, <1>4, <1>5 DEF Below
<1>7. BootLevel \in [Tables -> 0 .. Levels]
  BY <1>6 DEF BootLevel
<1> QED
  BY <1>1, <1>2, <1>3, <1>4, <1>5, <1>7

(* Their entries. *)
LEMMA BootEntries ==
  ASSUME NEW l \in Levels1, NEW t \in Tables, t = IF l = Levels THEN Root ELSE BootTables[l]
  PROVE  /\ \A i \in Indices : BootEntry(t, i) <=> i = Index(BootPage, l)
         /\ BootTarget(t) = IF l = 1 THEN BootFrame ELSE BootTables[l - 1]
<1>1. l # Levels => l \in Below
  BY BootFacts DEF Levels1, Below
<1>2. \A k \in Below : t = BootTables[k] => l # Levels /\ k = l
  BY <1>1, BootFacts
<1>3. l # Levels => t # Root
  BY <1>1, BootFacts
<1>4. \A i \in Indices : BootEntry(t, i) <=> i = Index(BootPage, l)
  BY <1>1, <1>2, <1>3, SMTT(30), SMTT(60) DEF BootEntry
<1>5. CASE l = Levels
  BY <1>4, <1>5, BootFacts DEF BootTarget
<1>6. CASE l # Levels /\ l = 1
  BY <1>3, <1>4, <1>6 DEF BootTarget
<1>7. CASE l # Levels /\ l # 1
  <2>1. t # Root /\ t # BootTables[1] /\ l \in Below
    BY <1>1, <1>2, <1>3, <1>7, BootFacts DEF Below
  <2>2. (CHOOSE k \in Below : t = BootTables[k]) = l
    BY <1>2, <1>7, <2>1
  <2>3. BootTarget(t) = BootTables[(CHOOSE k \in Below : t = BootTables[k]) - 1]
    BY <2>1 DEF BootTarget
  <2> QED
    BY <1>4, <1>7, <2>2, <2>3, Zenon
<1> QED
  BY <1>5, <1>6, <1>7

(* The kernel starts with a tree. *)
LEMMA PagingInit ==
  ASSUME Init
  PROVE  PagingInv
<1> DEFINE lvl == BootLevel
           at(l) == IF l = Levels THEN Root ELSE BootTables[l]
           target(l) == IF l = 1 THEN BootFrame ELSE at(l - 1)
<1>1. PICK dirty \in BOOLEAN :
        mem = [t \in Tables |->
                IF t \in RAM THEN DirtyTable
                ELSE [i \in Indices |->
                        IF BootEntry(t, i)
                        THEN [present |-> TRUE, unused_1 |-> dirty, page_size |-> FALSE, address |-> BootTarget(t)]
                        ELSE IF <<t, i>> \in DOMAIN Huge
                        THEN [present |-> TRUE, unused_1 |-> dirty, page_size |-> TRUE, address |-> Huge[<<t, i>>]]
                        ELSE EmptyEntry]]
  BY Zenon DEF Init
<1> DEFINE Full(l) == [present |-> TRUE, unused_1 |-> dirty, page_size |-> FALSE, address |-> target(l)]
           Large(t, i) == [present |-> TRUE, unused_1 |-> dirty, page_size |-> TRUE, address |-> Huge[<<t, i>>]]
<1>2. given = {} /\ heap_end = BootPage /\ op = Idle /\ tlb = {} /\ halted = FALSE /\ stray = FALSE
  BY DEF Init
<1>3. /\ Levels \in Nat /\ Levels > 1 /\ 0 \notin AllFrames /\ BootPage \in Pages
      /\ BootFrame \notin Tables /\ BootFrame \in AllFrames
      /\ Tables \subseteq AllFrames /\ 1 \in Levels1 /\ 0 \in Pages
  <2>1. PagesUnder[Levels] \in Nat \ {0}
    BY PagesUnderDef, PagingAssumption
  <2> QED
    BY <2>1, PagingAssumption DEF AllFrames, Levels1, Pages
<1>4. lvl \in [Tables -> 0 .. Levels] /\ lvl[Root] = Levels
  BY BootFacts, SMTT(30), SMTT(60)
<1>5. ASSUME NEW l \in Levels1
      PROVE  /\ at(l) \in Tables /\ at(l) \notin RAM /\ lvl[at(l)] = l
             /\ BootTarget(at(l)) = target(l)
             /\ \A i \in Indices : BootEntry(at(l), i) <=> i = Index(BootPage, l)
  <2>1. at(l) \in Tables /\ at(l) \notin RAM /\ lvl[at(l)] = l
    BY <1>3, BootFacts, SMTT(30), SMTT(60) DEF Levels1, Below
  <2>2. /\ \A i \in Indices : BootEntry(at(l), i) <=> i = Index(BootPage, l)
        /\ BootTarget(at(l)) = IF l = 1 THEN BootFrame ELSE BootTables[l - 1]
    BY <2>1, BootEntries
  <2>3. l # 1 => at(l - 1) = BootTables[l - 1]
    BY <1>3 DEF Levels1
  <2> QED
    BY <2>1, <2>2, <2>3
<1>6. ASSUME NEW t \in Tables, lvl[t] > 0 PROVE \E l \in Levels1 : l = lvl[t] /\ t = at(l)
  BY <1>3, <1>6, BootFacts DEF Levels1, Below
<1>7. at(1) = BootTables[1] /\ at(Levels) = Root
  BY <1>3, SMTT(30), SMTT(60)
<1>8. \A t \in Tables : t \notin RAM => lvl[t] > 0
  BY <1>3, BootFacts DEF Tables, BootRange, Below
<1> HIDE DEF at, lvl
<1>9. ASSUME NEW l \in Levels1 PROVE target(l) \in AllFrames
  <2>1. l # 1 => l - 1 \in Levels1
    BY <1>3 DEF Levels1
  <2> QED
    BY <1>3, <1>5, <2>1
<1>10. ASSUME NEW l \in Levels1, NEW i \in Indices
       PROVE  mem[at(l)][i] = IF i = Index(BootPage, l) THEN Full(l)
                              ELSE IF <<at(l), i>> \in DOMAIN Huge THEN Large(at(l), i) ELSE EmptyEntry
  BY <1>1, <1>5, Zenon
<1>h. ASSUME NEW t, NEW i, <<t, i>> \in DOMAIN Huge
      PROVE  Large(t, i) \in EntryType /\ Large(t, i).present /\ Large(t, i).page_size /\ t # at(1)
  <2>1. Huge[<<t, i>>] \in AllFrames \union {0} /\ t # BootTables[1]
    BY <1>h, PagingAssumption
  <2> QED
    BY <1>7, <2>1 DEF EntryType
<1> HIDE DEF target
<1>11. mem \in MemType
  <2>1. ASSUME NEW t \in Tables, NEW i \in Indices PROVE mem[t][i] \in EntryType
    <3>1. CASE t \in RAM
      BY <1>1, <1>3, <3>1, BootFacts DEF DirtyTable, EntryType
    <3>2. CASE t \notin RAM
      <4>1. PICK l \in Levels1 : t = at(l)
        BY <1>6, <1>8, <3>2
      <4>3. Full(l) \in EntryType /\ EmptyEntry \in EntryType
        BY <1>9 DEF EntryType, EmptyEntry
      <4> HIDE DEF Full, Large
      <4> QED
        BY <1>10, <1>h, <4>1, <4>3, Zenon
    <3> QED
      BY <3>1, <3>2, SMTT(30), SMTT(60)
  <2>2. ASSUME NEW t \in Tables PROVE mem[t] = [i \in Indices |-> mem[t][i]]
    BY <1>1, Zenon DEF DirtyTable
  <2>3. mem = [t \in Tables |-> mem[t]]
    BY <1>1
  <2>4. \A t \in Tables : mem[t] \in [Indices -> EntryType]
    BY <2>1, <2>2, Zenon
  <2> QED
    BY <2>3, <2>4 DEF MemType, EntryType
<1>12. ASSUME NEW l \in Levels1, l > 1
       PROVE  target(l) \in Tables /\ lvl[target(l)] = l - 1 /\ target(l) = at(l - 1)
  <2>1. l - 1 \in Levels1 /\ l # 1
    BY <1>3, <1>12 DEF Levels1
  <2> QED
    BY <1>5, <2>1 DEF target
<1>13. ASSUME NEW t \in Tables, NEW i \in Indices, lvl[t] > 0, mem[t][i].present, ~mem[t][i].page_size
       PROVE  /\ i = Index(BootPage, lvl[t])
              /\ mem[t][i].address = target(lvl[t])
              /\ lvl[t] \in Levels1 /\ t = at(lvl[t])
  <2>1. PICK l \in Levels1 : l = lvl[t] /\ t = at(l)
    BY <1>6, <1>13, SMTT(30), SMTT(60)
  <2>2. i = Index(BootPage, l) /\ mem[t][i] = Full(l)
    <3>1. ~EmptyEntry.present
      BY DEF EmptyEntry
    <3> HIDE DEF Full, Large
    <3>2. mem[t][i] = IF i = Index(BootPage, l) THEN Full(l)
                      ELSE IF <<t, i>> \in DOMAIN Huge THEN Large(t, i) ELSE EmptyEntry
      BY <1>10, <2>1, Zenon
    <3>3. <<t, i>> \in DOMAIN Huge => Large(t, i).page_size
      BY <1>h, Zenon
    <3> QED
      BY <1>13, <3>1, <3>2, <3>3, SMTT(30), SMTT(60)
  <2>3. mem[t][i].address = target(l)
    BY <2>2
  <2> QED
    BY <2>1, <2>2, <2>3, Zenon
<1>14. ASSUME NEW t \in Tables, NEW i \in Indices, lvl[t] > 0, ~mem[t][i].present
       PROVE  mem[t][i] = EmptyEntry
  <2>1. PICK l \in Levels1 : l = lvl[t] /\ t = at(l)
    BY <1>6, <1>14, SMTT(30), SMTT(60)
  <2>3. Full(l).present
    BY SMTT(30), SMTT(60)
  <2> HIDE DEF Full, Large
  <2>4. mem[t][i] = IF i = Index(BootPage, l) THEN Full(l)
                    ELSE IF <<t, i>> \in DOMAIN Huge THEN Large(t, i) ELSE EmptyEntry
    BY <1>10, <2>1, Zenon
  <2>5. <<t, i>> \in DOMAIN Huge => Large(t, i).present
    BY <1>h, Zenon
  <2> QED
    BY <1>14, <2>3, <2>4, <2>5, SMTT(30), SMTT(60)
<1>l. ASSUME NEW t \in Tables, NEW i \in Indices, lvl[t] > 0, mem[t][i].page_size
      PROVE  mem[t][i].present /\ lvl[t] # 1
  <2>1. PICK l \in Levels1 : l = lvl[t] /\ t = at(l)
    BY <1>6, <1>l, SMTT(30), SMTT(60)
  <2>2. ~Full(l).page_size /\ ~EmptyEntry.page_size
    BY DEF EmptyEntry
  <2> HIDE DEF Full, Large
  <2> QED
    BY <1>10, <1>h, <1>l, <2>1, <2>2, ZenonT(30)
<1>15. Shape(mem, lvl)
  <2>1. \A t \in Tables, i \in Indices :
          lvl[t] > 0 /\ ~mem[t][i].page_size => (mem[t][i].present <=> mem[t][i].address # 0)
    BY <1>3, <1>9, <1>13, <1>14, SMTT(30), SMTT(60) DEF EmptyEntry
  <2>3. \A t \in Tables, i \in Indices : lvl[t] > 0 /\ mem[t][i].page_size => mem[t][i].present /\ lvl[t] > 1
    BY <1>3, <1>4, <1>l, SMTT(30), SMTT(60)
  <2>2. \A t \in Tables, i \in Indices :
          lvl[t] > 1 /\ mem[t][i].present /\ ~mem[t][i].page_size =>
            mem[t][i].address \in Tables /\ lvl[mem[t][i].address] = lvl[t] - 1
    BY <1>3, <1>4, <1>12, <1>13, SMTT(30), SMTT(60)
  <2> QED
    BY <1>4, <2>1, <2>2, <2>3, SMTT(30), SMTT(60) DEF Shape
<1>16. EnteredOnce(mem, lvl)
  <2> SUFFICES ASSUME NEW t \in Tables, NEW u \in Tables, NEW i \in Indices, NEW j \in Indices,
                      lvl[t] > 1, mem[t][i].present, ~mem[t][i].page_size,
                      lvl[u] > 1, mem[u][j].present, ~mem[u][j].page_size,
                      mem[t][i].address = mem[u][j].address
               PROVE  t = u /\ i = j
    BY SMTT(30), SMTT(60) DEF EnteredOnce
  <2>1. lvl[t] = lvl[u] /\ lvl[t] > 0 /\ lvl[u] > 0
    BY <1>3, <1>4, <1>15, SMTT(30), SMTT(60) DEF Shape
  <2> QED
    BY <1>13, <2>1, SMTT(30), SMTT(60)
<1>17. \A l \in Levels1 : Reached(mem, BootPage)[l] = at(l)
  <2> DEFINE S == {l \in Levels1 : Reached(mem, BootPage)[l] = at(l)}
  <2>1. Levels \in S
    BY <1>3, <1>7, <1>11, <1>15, ReachedType, SMTT(30), SMTT(60) DEF Levels1
  <2>2. ASSUME NEW l \in Below, l + 1 \in S PROVE l \in S
    <3>1. l \in Levels1 /\ l + 1 \in Levels1 /\ l + 1 > 1 /\ (l + 1) - 1 = l
      BY <1>3, SMTT(30), SMTT(60) DEF Below, Levels1
    <3>2. Reached(mem, BootPage)[l] = NextTable(mem, at(l + 1), BootPage, l + 1)
      BY <1>3, <1>11, <1>15, <2>2, ReachedType
    <3>3. at(l + 1) # 0 /\ Index(BootPage, l + 1) \in Indices
      BY <1>3, <1>5, <3>1, IndexType, SMTT(30), SMTT(60)
    <3>4. mem[at(l + 1)][Index(BootPage, l + 1)] = Full(l + 1)
      BY <1>10, <3>1, <3>3
    <3>5. target(l + 1) = at(l)
      BY <1>12, <3>1
    <3> QED
      BY <3>1, <3>2, <3>3, <3>4, <3>5 DEF NextTable, Leads
  <2>3. Levels1 \subseteq S
    <3> HIDE DEF S
    <3> QED
      BY <2>1, <2>2, FromTheTop
  <2> QED
    BY <2>3
<1>18. ASSUME NEW t \in Tables, NEW i \in Indices, lvl[t] = 1
       PROVE  /\ t = BootTables[1]
              /\ i = Index(BootPage, 1) => mem[t][i].present /\ mem[t][i].address = BootFrame
              /\ i # Index(BootPage, 1) => mem[t][i] = EmptyEntry
  <2>1. t = at(1) /\ 1 \in Levels1 /\ target(1) = BootFrame
    BY <1>3, <1>6, <1>18, SMTT(30), SMTT(60) DEF target
  <2>2. /\ i = Index(BootPage, 1) => mem[at(1)][i] = Full(1)
        /\ i # Index(BootPage, 1) => mem[at(1)][i] = EmptyEntry
    <3> HIDE DEF Full, Large
    <3> QED
      BY <1>10, <1>h, <2>1, ZenonT(30)
  <2>3. Full(1).present /\ Full(1).address = BootFrame
    BY <2>1, SMTT(30), SMTT(60)
  <2> HIDE DEF Full
  <2> QED
    BY <1>7, <2>1, <2>2, <2>3, Zenon
<1>19. Tree(mem, given, lvl)
  <2>1. \A t \in Tables : lvl[t] > 0 => t \in given \union BootRange \union {Root}
    BY BootFacts, SMTT(30), SMTT(60) DEF lvl, BootRange
  <2>2. \A t \in Tables, i \in Indices : lvl[t] = 1 /\ mem[t][i].present => Data(given, lvl, mem[t][i].address)
    BY <1>3, <1>18, SMTT(30), SMTT(60) DEF Data, EmptyEntry
  <2>3. \A t \in Tables, i \in Indices :
          lvl[t] = 1 /\ ~BootLeaf(t, i) => (mem[t][i].unused_1 <=> mem[t][i].present)
    BY <1>18 DEF BootLeaf, EmptyEntry
  <2>4. Reached(mem, BootPage)[1] = BootTables[1]
    BY <1>3, <1>7, <1>17
  <2> QED
    BY <1>15, <1>16, <2>1, <2>2, <2>3, <2>4, SMTT(30), SMTT(60) DEF Tree
<1>20. TypeOK
  <2>1. heap_end \in Nat
    BY <1>2, <1>3, SMTT(30), SMTT(60) DEF Pages
  <2>2. op \in [pc : {"idle", "look", "allocate", "set"}, page : Pages, frame : AllFrames \union {0},
             left : Nat, grow : BOOLEAN, level : 1 .. Levels, table : Tables]
    BY <1>2, <1>3, BootFacts, SMTT(30), SMTT(60) DEF Idle, Levels1
  <2> QED
    BY <1>2, <1>11, <2>1, <2>2, Zenon DEF TypeOK, MemType
<1>21. PagingInv
  BY <1>2, <1>19, <1>20, SMTT(30), SMTT(60) DEF PagingInv, InvAt, CallOK, Idle, TLBFresh
<1> QED
  BY <1>21

-----------------------------------------------------------------------------
(* What a step does. *)

OpType == [pc : {"idle", "look", "allocate", "set"}, page : Pages, frame : AllFrames \union {0},
           left : Nat, grow : BOOLEAN, level : 1 .. Levels, table : Tables]

(* The invariant's parts. *)
LEMMA InvFacts ==
  ASSUME NEW lvl, InvAt(lvl)
  PROVE  /\ mem \in MemType /\ Tree(mem, given, lvl) /\ Shape(mem, lvl) /\ EnteredOnce(mem, lvl)
         /\ 1 \in Levels1 /\ Levels \in Nat
         /\ CallOK(op, mem, given, lvl) /\ op \in OpType
<1>1. 1 \in Levels1 /\ Levels \in Nat
  BY PagingAssumption DEF Levels1
<1>2. mem \in MemType /\ op \in OpType /\ Tree(mem, given, lvl) /\ CallOK(op, mem, given, lvl)
  BY Zenon DEF InvAt, TypeOK, MemType, OpType
<1>3. Shape(mem, lvl) /\ EnteredOnce(mem, lvl)
  BY <1>2, ZenonT(40) DEF Tree
<1> QED
  BY <1>1, <1>2, <1>3

(* What a step may do to the pages: nothing, map one that is not mapped, or *)
(* unmap one.                                                               *)
Kept(m, n) == \A v \in Pages : Physical(n, v) = Physical(m, v)

Mapped(m, n) ==
  \E v \in Pages :
    /\ Physical(m, v) = 0 /\ Physical(n, v) \in RAM \union Devices \union {BootFrame}
    /\ \A w \in Pages : w # v => Physical(n, w) = Physical(m, w)

Unmapped(m, n) ==
  \E v \in Pages :
    /\ Physical(n, v) = 0
    /\ \A w \in Pages : w # v => Physical(n, w) = Physical(m, w)

StepOK ==
  /\ PagingInv'
  /\ Kept(mem, mem') \/ Mapped(mem, mem') \/ Unmapped(mem, mem')
  /\ stray' \in {stray, TRUE}

(* A call of map_page starts at the top table. *)
LEMMA CallStarts ==
  ASSUME NEW m \in MemType, NEW g, NEW lvl, Shape(m, lvl),
         NEW v \in Pages, NEW f \in AllFrames, Data(g, lvl, f),
         NEW n \in {1, 2}, n = 2 => v + 1 \in Pages /\ f + 1 \in Devices, NEW b \in BOOLEAN
  PROVE  Call(v, f, n, b) \in OpType /\ CallOK(Call(v, f, n, b), m, g, lvl)
<1>1. Levels \in 1 .. Levels /\ Root \in Tables
  BY PagingAssumption DEF Tables
<1>2. Reached(m, v)[Levels] = Root
  BY ReachedType, SMTT(30), SMTT(60)
<1> DEFINE o == Call(v, f, n, b)
<1>3. /\ o.pc = "look" /\ o.page = v /\ o.frame = f /\ o.left = n
      /\ o.level = Levels /\ o.table = Root
  BY DEF Call
<1>4. o \in OpType
  BY <1>1 DEF Call, OpType
<1>5. "look" # "allocate" /\ "look" # "set"
  OBVIOUS
<1> HIDE DEF o
<1>6. CallOK(o, m, g, lvl)
  BY <1>2, <1>3, <1>5, Zenon DEF CallOK
<1> QED
  BY <1>4, <1>6, Zenon DEF o

(* A step that leaves the tables alone. *)
LEMMA TablesKept ==
  ASSUME NEW lvl, InvAt(lvl), UNCHANGED <<mem, given, tlb>>, heap_end' \in Nat, halted' \in BOOLEAN,
         stray' \in {stray, TRUE}, op' \in OpType, CallOK(op', mem, given, lvl)
  PROVE  StepOK
<1>1. TypeOK'
  BY DEF InvAt, TypeOK, OpType
<1>2. InvAt(lvl)'
  BY <1>1 DEF InvAt, TLBFresh
<1> QED
  BY <1>2 DEF StepOK, PagingInv, Kept

(* MapDevice, map_page_nearest and map_contiguous_pages start a call. *)
LEMMA DeviceSteps ==
  ASSUME PagingInv, NEW r \in Requests,
         \/ MapDevice(r[1], r[2])
         \/ map_page_nearest(r[1], r[2])
         \/ r[2] + 1 \in Devices /\ map_contiguous_pages(r[1], r[2], 2)
  PROVE  StepOK
<1>1. PICK lvl : InvAt(lvl)
  BY DEF PagingInv
<1>2. r[1] \in Pages /\ r[2] \in Devices /\ r[2] \in AllFrames /\ r[2] \notin Tables
  BY PagingAssumption, SMTT(20) DEF AllFrames
<1>3. mem \in MemType /\ Shape(mem, lvl) /\ Data(given, lvl, r[2])
  BY <1>1, <1>2, Zenon DEF InvAt, TypeOK, MemType, Tree, Data
<1>4. PICK v \in Pages, n \in {1, 2} : /\ op' = Call(v, r[2], n, FALSE)
                                       /\ n = 2 => v + 1 \in Pages /\ r[2] + 1 \in Devices
  <2>1. CASE MapDevice(r[1], r[2]) \/ map_page_nearest(r[1], r[2])
    <3>1. PICK w \in Pages : op' = Call(w, r[2], 1, FALSE)
      BY <1>2, <2>1, Zenon DEF MapDevice, map_page_nearest
    <3>2. 1 \in {1, 2} /\ 1 # 2
      OBVIOUS
    <3> QED
      BY <3>1, <3>2, Zenon
  <2>2. CASE r[2] + 1 \in Devices /\ map_contiguous_pages(r[1], r[2], 2)
    <3>1. PICK w \in Pages : w + 2 - 1 \in Pages /\ op' = Call(w, r[2], 2, FALSE)
      BY <2>2, Zenon DEF map_contiguous_pages, FreeRegion
    <3>2. w + 2 - 1 = w + 1
      BY PagesUnderDef DEF Pages
    <3> QED
      BY <2>2, <3>1, <3>2, Zenon
  <2> QED
    BY <2>1, <2>2, Zenon
<1>5. op' \in OpType /\ CallOK(op', mem, given, lvl)
  BY <1>2, <1>3, <1>4, CallStarts, Zenon
<1>6. UNCHANGED <<mem, given, tlb>> /\ heap_end' = heap_end /\ halted' = halted /\ stray' = stray
  BY Zenon DEF MapDevice, map_page_nearest, map_contiguous_pages
<1>7. heap_end' \in Nat /\ halted' \in BOOLEAN /\ stray' \in {stray, TRUE}
  BY <1>1, <1>6 DEF InvAt, TypeOK
<1> QED
  BY <1>1, <1>5, <1>6, <1>7, TablesKept

(* Look follows an entry that is present, a level down. *)
LEMMA LookStep ==
  ASSUME PagingInv, Look
  PROVE  StepOK
<1>1. PICK lvl : InvAt(lvl)
  BY DEF PagingInv
<1>2. /\ mem \in MemType /\ Shape(mem, lvl) /\ op \in OpType /\ op.pc = "look" /\ op.level > 1
      /\ CallOK(op, mem, given, lvl) /\ Levels \in Nat
  BY <1>1, PagingAssumption, SMTT(30), SMTT(60) DEF InvAt, TypeOK, MemType, Tree, OpType, Look, At
<1>3. op.table = Reached(mem, op.page)[op.level] /\ op.page \in Pages /\ op.level \in Levels1 /\ op.table \in Tables
  BY <1>2 DEF CallOK, OpType, Levels1
<1>4. op' \in OpType /\ CallOK(op', mem, given, lvl) /\ stray' \in {stray, TRUE}
  <2>1. CASE ~EntryOf.present
    <3>1. op' = [op EXCEPT !.pc = "allocate"] /\ stray' = stray
      BY <2>1 DEF Look, Leads
    <3> QED
      BY <1>2, <2>1, <3>1 DEF OpType, CallOK, EntryOf
  <2>2. CASE EntryOf.present /\ ~EntryOf.page_size
    <3>1. op' = [op EXCEPT !.level = op.level - 1, !.table = EntryOf.address] /\ stray' = stray
      BY <2>2, SMTT(30), SMTT(60) DEF Look, Leads
    <3>2. op.level - 1 \in Below /\ (op.level - 1) + 1 = op.level /\ op.level - 1 \in Levels1
      BY <1>2, <1>3, SMTT(30), SMTT(60) DEF Below, Levels1
    <3>3. Reached(mem, op.page)[op.level - 1] = NextTable(mem, op.table, op.page, op.level)
      BY <1>2, <1>3, <3>2, ReachedType
    <3>4. 0 \notin Tables
      BY PagingAssumption, ZenonT(60) DEF AllFrames
    <3>5. Reached(mem, op.page)[op.level - 1] = EntryOf.address
      BY <1>3, <2>2, <3>3, <3>4, SMTT(30), SMTT(60) DEF NextTable, Leads, EntryOf
    <3>6. lvl[op.table] = op.level
      BY <1>2, <1>3, <3>4, ReachedType, SMTT(30), SMTT(60)
    <3>7. Index(op.page, op.level) \in Indices
      BY <1>3, IndexType, SMTT(20)
    <3>8. EntryOf.address \in Tables
      BY <1>2, <1>3, <2>2, <3>6, <3>7, Zenon DEF Shape, EntryOf
    <3> QED
      BY <1>2, <3>1, <3>2, <3>5, <3>8, Zenon DEF OpType, CallOK, Levels1
  <2>3. CASE EntryOf.present /\ EntryOf.page_size
    <3>1. op' = op /\ stray' = TRUE
      BY <2>3 DEF Look, Leads
    <3> QED
      BY <1>2, <3>1
  <2> QED
    BY <2>1, <2>2, <2>3
<1>5. UNCHANGED <<mem, given, tlb>> /\ heap_end' = heap_end /\ halted' = halted
  BY DEF Look
<1>6. heap_end' \in Nat /\ halted' \in BOOLEAN
  BY <1>1, <1>5 DEF InvAt, TypeOK
<1> QED
  BY <1>1, <1>4, <1>5, <1>6, TablesKept

(* LookLast panics at a page that is mapped. *)
LEMMA LookLastStep ==
  ASSUME PagingInv, LookLast
  PROVE  StepOK
<1>1. PICK lvl : InvAt(lvl)
  BY DEF PagingInv
<1>2. op \in OpType /\ op.pc = "look" /\ op.level = 1 /\ CallOK(op, mem, given, lvl)
  BY <1>1 DEF InvAt, TypeOK, OpType, LookLast, At
<1>3. op' \in OpType /\ CallOK(op', mem, given, lvl)
  <2>1. CASE op' = op
    BY <1>2, <2>1
  <2>2. CASE ~EntryOf.present /\ op' = [op EXCEPT !.pc = "set"]
    BY <1>2, <2>2 DEF OpType, CallOK, EntryOf
  <2> QED
    BY <2>1, <2>2 DEF LookLast
<1>4. UNCHANGED <<mem, given, tlb>> /\ heap_end' = heap_end /\ halted' \in {halted, TRUE} /\ stray' = stray
  BY Zenon DEF LookLast
<1>5. heap_end' \in Nat /\ halted' \in BOOLEAN /\ stray' \in {stray, TRUE}
  BY <1>1, <1>4, Zenon DEF InvAt, TypeOK
<1> QED
  BY <1>1, <1>3, <1>4, <1>5, TablesKept

(* MapHeapPage takes a frame and starts to map it. *)
LEMMA HeapStep ==
  ASSUME PagingInv, MapHeapPage
  PROVE  StepOK
<1>1. PICK lvl : InvAt(lvl)
  BY DEF PagingInv
<1>2. heap_end' = heap_end /\ tlb' = tlb /\ stray' = stray
  BY DEF MapHeapPage
<1>3. PICK v \in HeapPages : \/ \E f \in RAM : Allocated(f) /\ op' = Call(v, f, 1, TRUE)
                             \/ Source!Exhaust /\ UNCHANGED <<mem, op>>
  BY Zenon DEF MapHeapPage, NextHeapPage
<1>4. CASE Source!Exhaust /\ UNCHANGED <<mem, op>>
  <2>1. op' \in OpType /\ CallOK(op', mem, given, lvl) /\ given' = given
    BY <1>1, <1>4 DEF InvAt, TypeOK, OpType, Source!Exhaust
  <2>2. heap_end' \in Nat /\ halted' \in BOOLEAN /\ stray' \in {stray, TRUE}
    BY <1>1, <1>2, <1>4 DEF InvAt, TypeOK, Source!Exhaust
  <2> QED
    BY <1>1, <1>2, <1>4, <2>1, <2>2, TablesKept, SMTT(30), SMTT(60)
<1>5. ASSUME NEW f \in RAM, Allocated(f), op' = Call(v, f, 1, TRUE)
      PROVE  StepOK
  <2>1. /\ f \in RAM /\ f \notin given /\ given' = given \union {f} /\ halted' = halted
        /\ mem' = [mem EXCEPT ![f] = EmptyTable]
    BY <1>5, SMTT(30), SMTT(60) DEF Allocated, Source!Take
  <2>2. /\ mem \in MemType /\ given \in SUBSET RAM /\ Tree(mem, given, lvl)
        /\ v \in Pages /\ f \in Tables /\ f \in AllFrames
    BY <1>1, PagingAssumption, SMTT(30), SMTT(60) DEF InvAt, TypeOK, MemType, Tables, AllFrames
  <2>3. mem' \in MemType
    BY <2>1, <2>2 DEF MemType, EmptyTable, EmptyEntry
  <2>4. \A u \in Tables : u # f => mem'[u] = mem[u]
    BY <2>1, <2>2 DEF MemType
  <2>5. given \subseteq given'
    BY <2>1
  <2>6. Tree(mem', given', lvl) /\ Kept(mem, mem')
    BY <2>1, <2>2, <2>3, <2>4, <2>5, FreshFrame, ZenonT(60) DEF Kept
  <2>7. lvl[f] = 0
    BY <2>1, <2>2, Unused
  <2>8. Data(given', lvl, f)
    BY <2>1, <2>7, Zenon DEF Data
  <2>9. op' \in OpType /\ CallOK(op', mem', given', lvl)
    <3>0. Shape(mem', lvl)
      BY <2>6, Zenon DEF Tree
    <3>1. Shape(mem', lvl) /\ 1 \in {1, 2} /\ 1 # 2 /\ TRUE \in BOOLEAN
      BY <3>0
    <3>2. Call(v, f, 1, TRUE) \in OpType /\ CallOK(Call(v, f, 1, TRUE), mem', given', lvl)
      BY <2>2, <2>3, <2>8, <3>1, CallStarts, Zenon
    <3> QED
      BY <1>5, <3>2, Zenon
  <2>10. TypeOK'
    BY <1>1, <1>2, <2>1, <2>3, <2>9, SMTT(30), SMTT(60) DEF InvAt, TypeOK, MemType, OpType
  <2>11. TLBFresh'
    <3>1. \A e \in tlb : e[1] \in Pages
      BY <1>1 DEF InvAt, TypeOK
    <3> QED
      BY <1>1, <1>2, <2>6, <3>1, SMTT(30), SMTT(60) DEF InvAt, TLBFresh, Kept
  <2>12. InvAt(lvl)'
    BY <2>6, <2>9, <2>10, <2>11 DEF InvAt
  <2> QED
    BY <1>2, <2>6, <2>12 DEF StepOK, PagingInv
<1> QED
  BY <1>3, <1>4, <1>5, Zenon

(* __allocate_entry enters a new table where the entry was empty. *)
LEMMA AllocateStep ==
  ASSUME PagingInv, __allocate_entry
  PROVE  StepOK
<1>1. PICK lvl : InvAt(lvl)
  BY DEF PagingInv
<1>2. heap_end' = heap_end /\ tlb' = tlb /\ stray' = stray /\ op.pc = "allocate"
  BY DEF __allocate_entry, At
<1> DEFINE t == op.table
           i == Index(op.page, op.level)
<1>3. /\ mem \in MemType /\ given \in SUBSET RAM /\ Tree(mem, given, lvl) /\ Shape(mem, lvl) /\ op \in OpType
      /\ CallOK(op, mem, given, lvl) /\ Levels \in Nat /\ 0 \notin Tables /\ RAM \subseteq Tables
  BY <1>1, PagingAssumption, Zenon DEF InvAt, TypeOK, MemType, OpType, Tree, Tables, AllFrames
<1>4. CASE Source!Exhaust /\ UNCHANGED <<mem, op>>
  <2>1. op' \in OpType /\ CallOK(op', mem, given, lvl) /\ given' = given
    BY <1>3, <1>4, SMTT(30), SMTT(60) DEF Source!Exhaust
  <2>2. heap_end' \in Nat /\ halted' \in BOOLEAN /\ stray' \in {stray, TRUE}
    BY <1>1, <1>2, <1>4, SMTT(30), SMTT(60) DEF InvAt, TypeOK, Source!Exhaust
  <2> QED
    BY <1>1, <1>2, <1>4, <2>1, <2>2, TablesKept, SMTT(30), SMTT(60)
<1>5. ASSUME NEW f \in RAM, Source!Take(f), mem' = set_entry([mem EXCEPT ![f] = EmptyTable], t, i, f),
             op' = [op EXCEPT !.pc = "look"]
      PROVE  StepOK
  <2>1. f \notin given /\ given' = given \union {f} /\ halted' = halted
    BY <1>5 DEF Source!Take
  <2>2. /\ op.page \in Pages /\ op.level \in Levels1 /\ op.level > 1 /\ t \in Tables
        /\ t = Reached(mem, op.page)[op.level] /\ ~mem[t][i].present
    BY <1>2, <1>3, ZenonT(60) DEF OpType, CallOK, Levels1
  <2>3. lvl[t] = op.level /\ lvl[t] > 1 /\ i \in Indices
    BY <1>3, <2>2, ReachedType, IndexType, SMTT(30), SMTT(60)
  <2>4. lvl[f] = 0 /\ f \in Tables /\ f # 0 /\ \A d : Data(given, lvl, d) => d # f
    BY <1>3, <2>1, Unused, SMTT(30), SMTT(60)
  <2>5. lvl \in [Tables -> 0 .. Levels]
    BY <1>3 DEF Shape
  <2>6. PICK lvl2 \in [Tables -> 0 .. Levels] :
          lvl2[f] = lvl[t] - 1 /\ \A u \in Tables : u # f => lvl2[u] = lvl[u]
    <3>1. [lvl EXCEPT ![f] = op.level - 1] \in [Tables -> 0 .. Levels]
      BY <1>3, <2>2, <2>3, <2>4, <2>5, SMTT(30), SMTT(60) DEF Levels1
    <3> QED
      BY <2>3, <2>4, <2>5, <3>1, Zenon
  <2> HIDE DEF t, i
  <2>7. f # t
    BY <1>3, <2>2, <2>3, <2>4, SMTT(30), SMTT(60)
  <2>8. Entered(mem, mem', t, i, f) /\ mem' \in MemType
    <3>1. mem' = [[mem EXCEPT ![f] = EmptyTable] EXCEPT ![t][i] = [present |-> TRUE, unused_1 |-> TRUE, page_size |-> FALSE, address |-> f]]
      BY <1>5, SMTT(30), SMTT(60) DEF set_entry
    <3>2. mem \in [Tables -> [Indices -> EntryType]] /\ EmptyTable \in [Indices -> EntryType]
      BY <1>3 DEF MemType, EntryType, EmptyTable, EmptyEntry
    <3>3. [present |-> TRUE, unused_1 |-> TRUE, page_size |-> FALSE, address |-> f] \in EntryType
      BY <2>4, Zenon DEF EntryType, AllFrames
    <3>4. mem' \in [Tables -> [Indices -> EntryType]]
      BY <2>2, <2>3, <2>4, <3>1, <3>2, <3>3, Zenon
    <3>5. mem'[t][i] = [present |-> TRUE, unused_1 |-> TRUE, page_size |-> FALSE, address |-> f]
      BY <2>2, <2>3, <2>4, <2>7, <3>1, <3>2, Zenon
    <3>6. \A j \in Indices : mem'[f][j] = EmptyEntry
      BY <2>4, <2>7, <3>1, <3>2, Zenon DEF EmptyTable
    <3>7. \A u \in Tables, j \in Indices : u # f /\ ~(u = t /\ j = i) => mem'[u][j] = mem[u][j]
      BY <2>2, <2>3, <2>4, <2>7, <3>1, <3>2, ZenonT(60)
    <3> QED
      BY <3>4, <3>5, <3>6, <3>7 DEF Entered, MemType, EntryType
  <2>9. /\ given \subseteq given' /\ f \in given' /\ f \notin given
        /\ t \in Tables /\ lvl[t] > 1 /\ i \in Indices /\ ~mem[t][i].present
    BY <2>1, <2>2, <2>3 DEF t, i
  <2>10. /\ Tree(mem', given', lvl2)
         /\ \A v \in Pages, l \in Levels1 : Reached(mem, v)[l] # 0 => Reached(mem', v)[l] = Reached(mem, v)[l]
         /\ Kept(mem, mem')
    <3>1. /\ mem \in MemType /\ given \in SUBSET RAM /\ Tree(mem, given, lvl)
      BY <1>3
    <3>2. Placed(lvl, lvl2, t, f)
      BY <2>6 DEF Placed
    <3> QED
      BY <2>8, <2>9, <3>1, <3>2, EnterTable, Zenon DEF Kept
  <2>11. op' \in OpType
    BY <1>3, <1>5 DEF OpType
  <2>12. CallOK(op', mem', given', lvl2)
    <3>1. Data(given, lvl, op.frame)
      BY <1>2, <1>3 DEF CallOK
    <3>2. Data(given', lvl2, op.frame)
      BY <2>1, <2>4, <2>6, <3>1, Zenon DEF Data
    <3>3. t # 0
      BY <1>3, <2>2, Zenon
    <3>4. t = Reached(mem', op.page)[op.level]
      BY <2>2, <2>10, <3>3, Zenon
    <3> QED
      BY <1>2, <1>3, <1>5, <3>2, <3>4, ZenonT(60) DEF CallOK, OpType, t
  <2>13. TypeOK'
    BY <1>1, <1>2, <2>1, <2>8, <2>11, Zenon DEF InvAt, TypeOK, MemType, OpType
  <2>14. TLBFresh'
    <3>1. \A e \in tlb : e[1] \in Pages
      BY <1>1 DEF InvAt, TypeOK
    <3> QED
      BY <1>1, <1>2, <2>10, <3>1, SMTT(30), SMTT(60) DEF InvAt, TLBFresh, Kept
  <2>15. InvAt(lvl2)'
    BY <2>10, <2>12, <2>13, <2>14, SMTT(30), SMTT(60) DEF InvAt
  <2> QED
    BY <1>2, <2>10, <2>15 DEF StepOK, PagingInv
<1> QED
  BY <1>4, <1>5, Zenon DEF __allocate_entry

(* A step that sets the entry of page v, in the table of level 1 on the way *)
(* to it.                                                                   *)
SetTo(m, n, v, t, e) == t = Reached(m, v)[1] /\ n = [m EXCEPT ![t][Index(v, 1)] = e]

GoodEntry(g, lvl, v, e) ==
  /\ ~e.page_size /\ (e.present <=> e.address # 0)
  /\ e.present => Data(g, lvl, e.address)
  /\ v # BootPage => (e.unused_1 <=> e.present)

(* Writing an entry of the last level keeps the tables a tree. *)
LEMMA LeafStep ==
  ASSUME NEW m \in MemType, NEW n, NEW g, NEW lvl, Tree(m, g, lvl),
         NEW v \in Pages, NEW t \in Tables, NEW e \in EntryType,
         SetTo(m, n, v, t, e), GoodEntry(g, lvl, v, e)
  PROVE  /\ n \in MemType /\ Tree(n, g, lvl)
         /\ \A w \in Pages, l \in Levels1 : Reached(n, w)[l] = Reached(m, w)[l]
         /\ \A w \in Pages : Physical(n, w) = IF w = v THEN e.address ELSE Physical(m, w)
         /\ LeafSet(m, n, t, Index(v, 1), e)
<1> DEFINE i == Index(v, 1)
<1>1. /\ m \in [Tables -> [Indices -> EntryType]] /\ Shape(m, lvl) /\ EnteredOnce(m, lvl)
      /\ Reached(m, BootPage)[1] = BootTables[1]
  BY Zenon DEF MemType, EntryType, Tree
<1>2. 1 \in Levels1 /\ 0 \notin Tables /\ BootPage \in Pages
  BY PagingAssumption, SMTT(30), SMTT(60) DEF Levels1, AllFrames
<1>3. lvl[t] = 1 /\ i \in Indices /\ t # 0
  BY <1>1, <1>2, ReachedType, IndexType, SMTT(30), SMTT(60) DEF SetTo
<1>4. n \in MemType
  BY <1>1, <1>3, SMTT(30), SMTT(60) DEF MemType, EntryType, SetTo
<1>5. LeafSet(m, n, t, i, e)
  BY <1>1, <1>3 DEF SetTo, LeafSet
<1>6. GoodLeaf(g, lvl, t, i, e)
  BY <1>1, ZenonT(60) DEF BootLeaf, GoodLeaf, GoodEntry, SetTo
<1>7. \A w \in Pages : Reached(m, w)[1] = t /\ Index(w, 1) = i <=> w = v
  BY <1>1, <1>3, OneWay, SMTT(30), SMTT(60) DEF SetTo
<1> HIDE DEF i
<1>8. /\ Tree(n, g, lvl)
      /\ \A w \in Pages, l \in Levels1 : Reached(n, w)[l] = Reached(m, w)[l]
      /\ \A w \in Pages : Physical(n, w) = IF Reached(m, w)[1] = t /\ Index(w, 1) = i
                                           THEN e.address ELSE Physical(m, w)
  BY <1>3, <1>4, <1>5, <1>6, LeafChange, SMTT(30), SMTT(60)
<1> QED
  BY <1>4, <1>5, <1>7, <1>8 DEF i

(* SetLast maps a page that was not mapped. *)
LEMMA SetLastStep ==
  ASSUME PagingInv, SetLast
  PROVE  StepOK
<1>1. PICK lvl : InvAt(lvl)
  BY DEF PagingInv
<1> DEFINE v == op.page
           e == [present |-> TRUE, unused_1 |-> TRUE, page_size |-> FALSE, address |-> op.frame]
<1>2. /\ op.pc = "set" /\ given' = given /\ halted' = halted /\ stray' = stray
      /\ tlb' = {x \in tlb : x[1] # v}
      /\ mem' = [mem EXCEPT ![op.table][Index(v, 1)] = e]
  BY DEF SetLast, At, set_entry
<1>3. op \in OpType /\ CallOK(op, mem, given, lvl) /\ mem \in MemType /\ Tree(mem, given, lvl) /\ Shape(mem, lvl)
  BY <1>1, ZenonT(60) DEF InvAt, TypeOK, OpType, MemType, Tree
<1>4. /\ v \in Pages /\ op.table \in Tables /\ op.level = 1 /\ op.table = Reached(mem, v)[1]
      /\ Data(given, lvl, op.frame) /\ ~mem[op.table][Index(v, 1)].present
      /\ op.left \in {1, 2} /\ (op.left = 2 => v + 1 \in Pages /\ op.frame + 1 \in Devices)
  BY <1>2, <1>3 DEF CallOK, OpType
<1>5. /\ op.frame \in RAM \union Devices \union {BootFrame} /\ op.frame \in AllFrames /\ op.frame # 0
      /\ 0 \notin Tables /\ 1 \in Levels1
  BY <1>1, <1>4, PagingAssumption, ZenonT(60) DEF Data, InvAt, TypeOK, AllFrames, Tables, Levels1
<1>6. /\ mem' \in MemType /\ Tree(mem', given', lvl)
      /\ \A w \in Pages : Physical(mem', w) = IF w = v THEN op.frame ELSE Physical(mem, w)
  <2>1. e \in EntryType /\ e.present /\ e.unused_1 /\ ~e.page_size /\ e.address = op.frame
    BY <1>5, SMTT(30) DEF EntryType
  <2>2. SetTo(mem, mem', v, op.table, e) /\ GoodEntry(given, lvl, v, e)
    BY <1>2, <1>4, <1>5, SMTT(30), SMTT(60) DEF SetTo, GoodEntry
  <2>3. /\ mem' \in MemType /\ Tree(mem', given, lvl)
        /\ \A w \in Pages : Physical(mem', w) = IF w = v THEN e.address ELSE Physical(mem, w)
    <3>1. mem \in MemType /\ Tree(mem, given, lvl) /\ v \in Pages /\ op.table \in Tables /\ e \in EntryType
      BY <1>3, <1>4, <2>1, Zenon
    <3> HIDE DEF e
    <3> QED
      BY <2>2, <3>1, LeafStep
  <2> QED
    BY <1>2, <2>3, Zenon
<1>7. Physical(mem, v) = 0
  <2>1. ~UnderHuge(mem, v)
    BY <1>3, <1>4, <1>5, HugeIsLast, Zenon
  <2> QED
    BY <1>4, <1>5, <2>1, Zenon DEF Physical, Small, PresentAddress
<1>8. Mapped(mem, mem')
  BY <1>4, <1>5, <1>6, <1>7, Zenon DEF Mapped
<1>9. op' \in OpType /\ CallOK(op', mem', given', lvl)
  <2>1. CASE op.left = 1
    <3>1. op' = Idle
      BY <2>1, SMTT(30), SMTT(60) DEF SetLast
    <3>2. 0 \in Pages /\ Levels \in 1 .. Levels /\ Root \in Tables
      <4>1. PagesUnder[Levels] \in Nat \ {0}
        BY PagesUnderDef, PagingAssumption
      <4> QED
        BY <4>1, PagingAssumption, SMTT(30), SMTT(60) DEF Pages, Tables
    <3> QED
      BY <3>1, <3>2, SMTT(30), SMTT(60) DEF Idle, OpType, CallOK
  <2>2. CASE op.left = 2
    <3>1. op' = Call(v + 1, op.frame + 1, 1, FALSE)
      BY <2>2, SMTT(30), SMTT(60) DEF SetLast
    <3>2. /\ v + 1 \in Pages /\ op.frame + 1 \in AllFrames /\ Data(given', lvl, op.frame + 1)
      BY <1>4, <2>2, PagingAssumption, SMTT(30), SMTT(60) DEF AllFrames, Data
    <3>3. Shape(mem', lvl) /\ 1 \in {1, 2} /\ 1 # 2 /\ FALSE \in BOOLEAN
      BY <1>6, SMTT(30), SMTT(60) DEF Tree
    <3>4. \A w \in Pages, f \in AllFrames : Data(given', lvl, f) =>
            Call(w, f, 1, FALSE) \in OpType /\ CallOK(Call(w, f, 1, FALSE), mem', given', lvl)
      BY <1>6, <3>3, CallStarts, Zenon
    <3> QED
      BY <3>1, <3>2, <3>4, Zenon
  <2> QED
    BY <1>4, <2>1, <2>2, ZenonT(60)
<1>10. TypeOK'
  <2>1. heap_end' \in Nat
    BY <1>1, <1>4, PagesUnderDef DEF SetLast, InvAt, TypeOK, Pages
  <2> QED
    BY <1>1, <1>2, <1>6, <1>9, <2>1, ZenonT(60) DEF InvAt, TypeOK, MemType, OpType
<1>11. TLBFresh'
  <2>1. \A x \in tlb : x[1] \in Pages
    BY <1>1, SMTT(30), SMTT(60) DEF InvAt, TypeOK
  <2> QED
    BY <1>1, <1>2, <1>6, <2>1, Zenon DEF InvAt, TLBFresh
<1>12. InvAt(lvl)'
  BY <1>6, <1>9, <1>10, <1>11, SMTT(30), SMTT(60) DEF InvAt
<1> QED
  BY <1>2, <1>8, <1>12, SMTT(30), SMTT(60) DEF StepOK, PagingInv

(* unmap_page unmaps a page, or clears an entry that is empty already. *)
LEMMA UnmapStep ==
  ASSUME PagingInv, NEW v \in Pages, unmap_page(v)
  PROVE  StepOK
<1>1. PICK lvl : InvAt(lvl)
  BY SMTT(30), SMTT(60) DEF PagingInv
<1> DEFINE t == Reached(mem, v)[1]
<1>2. /\ op.pc = "idle" /\ op' = op /\ given' = given /\ halted' = halted /\ heap_end' = heap_end
      /\ stray' = stray
      /\ tlb' = {x \in tlb : x[1] # v} /\ t # 0
      /\ mem' = [mem EXCEPT ![t][Index(v, 1)] = EmptyEntry]
  BY DEF unmap_page, At
<1>3. mem \in MemType /\ Tree(mem, given, lvl) /\ Shape(mem, lvl) /\ 1 \in Levels1
  BY <1>1, InvFacts, SMTT(30), SMTT(60)
<1>4. t \in Tables
  BY <1>2, <1>3, ReachedType
<1>5. /\ mem' \in MemType /\ Tree(mem', given', lvl)
      /\ \A w \in Pages : Physical(mem', w) = IF w = v THEN 0 ELSE Physical(mem, w)
  <2>1. /\ EmptyEntry \in EntryType /\ ~EmptyEntry.present /\ ~EmptyEntry.unused_1 /\ ~EmptyEntry.page_size
        /\ EmptyEntry.address = 0
    BY SMTT(30), SMTT(60) DEF EntryType, EmptyEntry
  <2>2. SetTo(mem, mem', v, t, EmptyEntry) /\ GoodEntry(given, lvl, v, EmptyEntry)
    BY <1>2, <2>1, SMTT(30), SMTT(60) DEF SetTo, GoodEntry
  <2>3. /\ mem' \in MemType /\ Tree(mem', given, lvl)
        /\ \A w \in Pages : Physical(mem', w) = IF w = v THEN EmptyEntry.address ELSE Physical(mem, w)
    <3>1. mem \in MemType /\ Tree(mem, given, lvl) /\ EmptyEntry \in EntryType
      BY <1>3, <2>1
    <3> HIDE DEF t
    <3> QED
      BY <1>4, <2>2, <3>1, LeafStep, SMTT(30), SMTT(60)
  <2> QED
    BY <1>2, <2>1, <2>3, Zenon
<1>6. Unmapped(mem, mem')
  BY <1>5, ZenonT(60) DEF Unmapped
<1>7. TypeOK'
  BY <1>1, <1>2, <1>5 DEF InvAt, TypeOK, MemType
<1>8. TLBFresh'
  <2>1. \A x \in tlb : x[1] \in Pages
    BY <1>1, ZenonT(60) DEF InvAt, TypeOK
  <2> QED
    BY <1>1, <1>2, <1>5, <2>1, Zenon DEF InvAt, TLBFresh
<1>9. InvAt(lvl)'
  BY <1>2, <1>5, <1>7, <1>8, SMTT(30), SMTT(60) DEF InvAt, CallOK
<1> QED
  BY <1>2, <1>6, <1>9 DEF StepOK, PagingInv

(* unmap_page of a page under a huge page goes astray. *)
LEMMA UnmapHugeStep ==
  ASSUME PagingInv, NEW v \in Pages, UnmapHuge(v)
  PROVE  StepOK
<1>1. PICK lvl : InvAt(lvl)
  BY DEF PagingInv
<1>2. op \in OpType /\ CallOK(op, mem, given, lvl)
  BY <1>1, InvFacts, Zenon
<1>3. UNCHANGED <<mem, given, tlb, op, heap_end, halted>> /\ stray' = TRUE
  BY DEF UnmapHuge
<1>4. heap_end' \in Nat /\ halted' \in BOOLEAN /\ stray' \in {stray, TRUE}
  BY <1>1, <1>3 DEF InvAt, TypeOK
<1> QED
  BY <1>1, <1>2, <1>3, <1>4, TablesKept

(* The processor sets the dirty bit, which is unused_1 to the kernel. *)
LEMMA AccessStep ==
  ASSUME PagingInv, NEW v \in Pages, Access(v)
  PROVE  StepOK
<1>1. PICK lvl : InvAt(lvl)
  BY DEF PagingInv
<1> DEFINE t == Reached(mem, v)[1]
           i == Index(v, 1)
           e == [mem[t][i] EXCEPT !.unused_1 = TRUE]
<1>2. /\ op' = op /\ given' = given /\ halted' = halted /\ heap_end' = heap_end /\ stray' = stray
      /\ tlb' = {<<v, Physical(mem, v)>>} /\ Physical(mem, v) # 0
      /\ mem' = mem \/ (~UnderHuge(mem, v) /\ mem' = [mem EXCEPT ![t][i].unused_1 = TRUE])
  BY Zenon DEF Access
<1>3. /\ mem \in MemType /\ Tree(mem, given, lvl) /\ Shape(mem, lvl) /\ 1 \in Levels1 /\ Levels \in Nat
      /\ CallOK(op, mem, given, lvl) /\ op \in OpType
  BY <1>1, InvFacts, ZenonT(60)
<1>4. ~UnderHuge(mem, v) =>
        t # 0 /\ mem[t][i].present /\ Physical(mem, v) = mem[t][i].address
  BY <1>2, SMTT(30), SMTT(60) DEF Physical, Small, PresentAddress
<1>5. ~UnderHuge(mem, v) => t \in Tables /\ lvl[t] = 1 /\ i \in Indices
  BY <1>3, <1>4, ReachedType, IndexType, SMTT(30), SMTT(60)
<1>6. ASSUME ~UnderHuge(mem, v)
      PROVE  /\ mem[t][i] \in EntryType /\ mem[t][i].address \in AllFrames /\ ~mem[t][i].page_size
             /\ mem[t][i].address # 0 /\ Data(given, lvl, mem[t][i].address)
  <2>1. mem[t][i].present /\ mem[t][i].address # 0 /\ t \in Tables /\ lvl[t] = 1 /\ i \in Indices
    BY <1>2, <1>4, <1>5, <1>6, Zenon
  <2> HIDE DEF t, i
  <2>2. mem[t][i] \in EntryType /\ mem[t][i].address \in AllFrames
    BY <1>3, <2>1, SMTT(30), SMTT(60) DEF MemType, EntryType
  <2>3. ~mem[t][i].page_size
    BY <1>3, <2>1, LastIsSmall, Zenon
  <2>4. Data(given, lvl, mem[t][i].address)
    BY <1>3, <2>1, Zenon DEF Tree
  <2> QED
    BY <2>1, <2>2, <2>3, <2>4, Zenon
<1>7. /\ mem' \in MemType /\ Tree(mem', given', lvl) /\ CallOK(op', mem', given', lvl)
      /\ Kept(mem, mem')
  <2>1. CASE mem' = mem
    BY <1>2, <1>3, <2>1, Zenon DEF Kept
  <2>2. CASE ~UnderHuge(mem, v) /\ mem' = [mem EXCEPT ![t][i].unused_1 = TRUE]
    <3>1. /\ e \in EntryType /\ e.present /\ e.unused_1 /\ ~e.page_size /\ e.address = mem[t][i].address
      BY <1>4, <1>6, <2>2, ZenonT(60) DEF EntryType
    <3>2. SetTo(mem, mem', v, t, e) /\ GoodEntry(given, lvl, v, e)
      <4>1. mem' = [mem EXCEPT ![t][i] = e]
        BY <2>2
      <4> QED
        BY <1>6, <2>2, <3>1, <4>1 DEF SetTo, GoodEntry
    <3>3. /\ mem' \in MemType /\ Tree(mem', given, lvl)
          /\ \A w \in Pages, l \in Levels1 : Reached(mem', w)[l] = Reached(mem, w)[l]
          /\ \A w \in Pages : Physical(mem', w) = IF w = v THEN e.address ELSE Physical(mem, w)
          /\ LeafSet(mem, mem', t, i, e)
      <4>1. mem \in MemType /\ Tree(mem, given, lvl) /\ t \in Tables /\ e \in EntryType
        BY <1>3, <1>5, <2>2, <3>1, Zenon
      <4> HIDE DEF t, e
      <4> QED
        BY <3>2, <4>1, LeafStep, Zenon
    <3>4. Kept(mem, mem')
      <4>1. Physical(mem, v) = e.address
        BY <1>4, <2>2, <3>1, Zenon
      <4> HIDE DEF t, e, i
      <4> QED
        BY <3>3, <4>1, Zenon DEF Kept
    <3>5. \A u \in Tables, j \in Indices : mem'[u][j].present <=> mem[u][j].present
      <4> HIDE DEF t, e, i
      <4> QED
        BY <1>4, <2>2, <3>1, <3>3 DEF LeafSet
    <3>6. CallOK(op, mem', given, lvl)
      <4>1. op.page \in Pages /\ op.level \in Levels1 /\ op.table \in Tables
        BY <1>3 DEF OpType, Levels1
      <4>2. Index(op.page, op.level) \in Indices
        BY <4>1, IndexType, Zenon
      <4>3. /\ Reached(mem', op.page)[op.level] = Reached(mem, op.page)[op.level]
            /\ mem'[op.table][Index(op.page, op.level)].present <=> mem[op.table][Index(op.page, op.level)].present
        BY <3>3, <3>5, <4>1, <4>2, ZenonT(60)
      <4> HIDE DEF t, e, i
      <4> QED
        BY <1>3, <4>3, Zenon DEF CallOK
    <3> QED
      BY <1>2, <3>3, <3>4, <3>6
  <2> QED
    BY <1>2, <2>1, <2>2
<1>p. Physical(mem, v) \in AllFrames
  BY <1>4, <1>6, PagingAssumption DEF Physical
<1>8. TypeOK'
  BY <1>1, <1>2, <1>7, <1>p, SMTT(30), SMTT(60) DEF InvAt, TypeOK, MemType
<1>9. TLBFresh'
  BY <1>2, <1>7 DEF TLBFresh, Kept
<1>10. InvAt(lvl)'
  BY <1>7, <1>8, <1>9 DEF InvAt
<1> QED
  BY <1>2, <1>7, <1>10 DEF StepOK, PagingInv

(* Every step keeps the invariant and changes one page at most. *)
LEMMA PagingStep ==
  ASSUME PagingInv, [Next]_vars
  PROVE  StepOK
<1>1. CASE UNCHANGED vars
  <2>1. PICK lvl : InvAt(lvl)
    BY DEF PagingInv
  <2>2. /\ op' \in OpType /\ CallOK(op', mem, given, lvl) /\ UNCHANGED <<mem, given, tlb>>
        /\ heap_end' \in Nat /\ halted' \in BOOLEAN /\ stray' \in {stray, TRUE}
    BY <1>1, <2>1 DEF vars, InvAt, TypeOK, OpType
  <2> QED
    BY <2>1, <2>2, TablesKept
<1>2. CASE Next
  <2>1. CASE MapHeapPage
    BY <2>1, HeapStep
  <2>2. CASE Look
    BY <2>2, LookStep, SMTT(30), SMTT(60)
  <2>3. CASE __allocate_entry
    BY <2>3, AllocateStep
  <2>4. CASE LookLast
    BY <2>4, LookLastStep
  <2>5. CASE SetLast
    BY <2>5, SetLastStep
  <2>6. CASE \E r \in Requests :
               \/ MapDevice(r[1], r[2]) \/ madt_get_ioapic(r[1], r[2]) \/ get_cmd_table(r[1], r[2])
               \/ map_page_nearest(r[1], r[2])
               \/ r[2] + 1 \in Devices /\ map_contiguous_pages(r[1], r[2], 2)
    <3>1. \E r \in Requests :
            \/ MapDevice(r[1], r[2])
            \/ map_page_nearest(r[1], r[2])
            \/ r[2] + 1 \in Devices /\ map_contiguous_pages(r[1], r[2], 2)
      BY <2>6, Zenon DEF madt_get_ioapic, get_cmd_table
    <3> QED
      BY <3>1, DeviceSteps
  <2>7. CASE \E v \in Pages : unmap_page(v) \/ UnmapHuge(v) \/ Access(v)
    BY <2>7, UnmapStep, UnmapHugeStep, AccessStep, SMTT(30), SMTT(60)
  <2> QED
    BY <1>2, <2>1, <2>2, <2>3, <2>4, <2>5, <2>6, <2>7, Zenon DEF Next
<1> QED
  BY <1>1, <1>2

(* virtual_to_physical follows the tables the processor follows. *)
LEMMA WalkIsReached ==
  ASSUME NEW m \in MemType, NEW lvl, Shape(m, lvl), NEW v \in Pages
  PROVE  Walk(m, v)[1] = Reached(m, v)[1]
<1> DEFINE r == Reached(m, v)
           IsIt(f) == f = [l \in 1 .. Levels |-> IF l = Levels THEN Root ELSE Address(m, f[l + 1], v, l + 1)]
           S == {l \in Levels1 : Walk(m, v)[l] = r[l]}
<1>1. Levels \in Nat /\ Levels > 1 /\ 1 \in Levels1 /\ 0 \notin Tables
  BY PagingAssumption, SMTT(30) DEF Levels1, AllFrames
<1>2. r = [l \in 1 .. Levels |-> IF l = Levels THEN Root ELSE NextTable(m, r[l + 1], v, l + 1)]
  BY ReachedDef, ZenonT(60)
<1>3. ASSUME NEW l \in Below PROVE NextTable(m, r[l + 1], v, l + 1) = Address(m, r[l + 1], v, l + 1)
  <2>1. l + 1 \in Levels1 /\ l + 1 > 0
    BY <1>1, SMTT(30), SMTT(60) DEF Below, Levels1
  <2>2. r[l + 1] # 0 => r[l + 1] \in Tables /\ lvl[r[l + 1]] > 0 /\ Index(v, l + 1) \in Indices
    BY <2>1, ReachedType, IndexType
  <2> QED
    BY <2>2 DEF NextTable, Leads, Address, Shape
<1>4. IsIt(r)
  <2> HIDE DEF r
  <2>1. \A l \in 1 .. Levels : l # Levels => l \in Below
    BY <1>1 DEF Below
  <2> QED
    BY <1>2, <1>3, <2>1, Zenon
<1>5. IsIt(Walk(m, v))
  <2>1. Walk(m, v) = CHOOSE g : IsIt(g)
    BY SMTT(30), SMTT(60) DEF Walk
  <2> HIDE DEF IsIt, r
  <2> QED
    BY <1>4, <2>1
<1> HIDE DEF r
<1>6. Levels \in S
  BY <1>1, <1>2, <1>5, SMTT(30), SMTT(60) DEF Levels1
<1>7. ASSUME NEW l \in Below, l + 1 \in S PROVE l \in S
  <2>1. l \in 1 .. Levels /\ l # Levels
    BY <1>1 DEF Below
  <2>2. Walk(m, v)[l] = Address(m, Walk(m, v)[l + 1], v, l + 1)
    BY <1>5, <2>1, Zenon
  <2>3. r[l] = NextTable(m, r[l + 1], v, l + 1)
    BY <1>2, <2>1, Zenon
  <2> QED
    BY <1>3, <1>7, <2>1, <2>2, <2>3, SMTT(30), SMTT(60) DEF Levels1
<1>8. Levels1 \subseteq S
  <2> HIDE DEF S
  <2> QED
    BY <1>6, <1>7, FromTheTop
<1> QED
  BY <1>1, <1>8, SMTT(30), SMTT(60) DEF r

-----------------------------------------------------------------------------
(* What the invariant says of the tables. *)

(* A page that has an entry of its own is memory, and no table. *)
LEMMA MappedIsData ==
  ASSUME NEW lvl, InvAt(lvl), NEW v \in Pages, Small(mem, v) # 0
  PROVE  Data(given, lvl, Small(mem, v))
<1> DEFINE t == Reached(mem, v)[1]
<1>1. mem \in MemType /\ Tree(mem, given, lvl) /\ Shape(mem, lvl) /\ 1 \in Levels1
  BY InvFacts
<1>2. t # 0 /\ mem[t][Index(v, 1)].present /\ Small(mem, v) = mem[t][Index(v, 1)].address
  BY Zenon DEF Small, PresentAddress
<1>i. Index(v, 1) \in Indices
  BY <1>1, IndexType, SMTT(30), SMTT(60)
<1>r. \A l \in Levels1 : /\ Reached(mem, v)[l] \in Tables \union {0}
                         /\ Reached(mem, v)[l] # 0 => lvl[Reached(mem, v)[l]] = l
  BY <1>1, ReachedType
<1>s. t \in Tables \union {0} /\ (t # 0 => lvl[t] = 1)
  BY <1>1, <1>r, Zenon
<1> HIDE DEF t
<1>3. t \in Tables /\ lvl[t] = 1 /\ Index(v, 1) \in Indices
  BY <1>2, <1>i, <1>s, Zenon
<1> QED
  BY <1>1, <1>2, <1>3, Zenon DEF Tree

(* A link of the tables is a present entry of a table above level 1. *)
LEMMA LinkFacts ==
  ASSUME NEW m \in MemType, NEW lvl, Shape(m, lvl), NEW d \in Links(m)
  PROVE  /\ d = <<d[1], d[2]>> /\ d[1] \in Tables /\ d[2] \in Indices
         /\ lvl[d[1]] > 1 /\ m[d[1]][d[2]].present /\ ~m[d[1]][d[2]].page_size
<1>1. PICK v \in Pages : \E l \in {k \in 2 .. Levels : Reached(m, v)[k - 1] # 0} :
        d = <<Reached(m, v)[l], Index(v, l)>>
  BY Zenon DEF Links
<1>2. PICK l \in 2 .. Levels : Reached(m, v)[l - 1] # 0 /\ d = <<Reached(m, v)[l], Index(v, l)>>
  BY <1>1, SMTT(30), SMTT(60)
<1>3. l - 1 \in Below /\ (l - 1) + 1 = l /\ l \in Levels1 /\ l > 1
  BY PagingAssumption, SMTT(30), SMTT(60) DEF Below, Levels1
<1>4. Reached(m, v)[l - 1] = NextTable(m, Reached(m, v)[l], v, l)
  BY <1>3, ReachedType, SMTT(30), SMTT(60)
<1>5. /\ Reached(m, v)[l] # 0 /\ m[Reached(m, v)[l]][Index(v, l)].present
      /\ ~m[Reached(m, v)[l]][Index(v, l)].page_size
  BY <1>2, <1>4, ZenonT(60) DEF NextTable, Leads
<1>6. Reached(m, v)[l] \in Tables /\ lvl[Reached(m, v)[l]] = l /\ Index(v, l) \in Indices
  BY <1>3, <1>5, ReachedType, IndexType
<1> QED
  BY <1>2, <1>3, <1>5, <1>6, ZenonT(40)

(* The invariant implies that the tables are a tree. *)
LEMMA InvTree ==
  ASSUME PagingInv
  PROVE  TablesAreATree
<1>1. PICK lvl : InvAt(lvl)
  BY DEF PagingInv
<1>2. mem \in MemType /\ Tree(mem, given, lvl) /\ Shape(mem, lvl) /\ EnteredOnce(mem, lvl)
  BY <1>1, Zenon DEF InvAt, TypeOK, MemType, Tree
<1>3. \A d \in Links(mem) : /\ d = <<d[1], d[2]>> /\ d[1] \in Tables /\ d[2] \in Indices
                            /\ lvl[d[1]] > 1 /\ mem[d[1]][d[2]].present /\ ~mem[d[1]][d[2]].page_size
  BY <1>2, LinkFacts, SMTT(30), SMTT(60)
<1>4. \A d, e \in Links(mem) : mem[d[1]][d[2]].address = mem[e[1]][e[2]].address => d = e
  <2> SUFFICES ASSUME NEW d \in Links(mem), NEW e \in Links(mem),
                      mem[d[1]][d[2]].address = mem[e[1]][e[2]].address
               PROVE  d = e
    BY SMTT(30), SMTT(60)
  <2>1. d[1] = e[1] /\ d[2] = e[2]
    BY <1>2, <1>3 DEF EnteredOnce
  <2> QED
    BY <1>3, <2>1, SMTT(30), SMTT(60)
<1>5. \A f \in {mem[e[1]][e[2]].address : e \in Links(mem)} \union {Root} : f \in Tables /\ lvl[f] # 0
  <2>1. Root \in Tables /\ lvl[Root] # 0
    BY <1>2, RootLevel, Zenon
  <2>2. ASSUME NEW e \in Links(mem) PROVE mem[e[1]][e[2]].address \in Tables /\ lvl[mem[e[1]][e[2]].address] # 0
    <3>1. /\ mem[e[1]][e[2]].address \in Tables
          /\ lvl[mem[e[1]][e[2]].address] = lvl[e[1]] - 1 /\ lvl[e[1]] > 1 /\ lvl[e[1]] \in Int
      BY <1>2, <1>3, PagingAssumption, SMTT(30), SMTT(60) DEF Shape
    <3> QED
      BY <3>1, SMTT(30), SMTT(60)
  <2> QED
    BY <2>1, <2>2, ZenonT(60)
<1>6. ASSUME NEW v \in Pages
      PROVE  Small(mem, v) \notin {mem[e[1]][e[2]].address : e \in Links(mem)} \union {Root}
  <2>1. 0 \notin Tables
    BY PagingAssumption DEF AllFrames
  <2>2. CASE Small(mem, v) = 0
    BY <1>5, <2>1, <2>2, Zenon
  <2>3. CASE Small(mem, v) # 0
    <3>1. Data(given, lvl, Small(mem, v))
      BY <1>1, <2>3, MappedIsData, Zenon
    <3> QED
      BY <1>5, <3>1, Zenon DEF Data
  <2> QED
    BY <2>2, <2>3
<1> QED
  BY <1>1, <1>4, <1>6, Zenon DEF TablesAreATree, InvAt

(* The invariant implies that the kernel sees what the processor sees. *)
LEMMA InvLookups ==
  ASSUME PagingInv
  PROVE  LookupsAgree
<1>1. PICK lvl : InvAt(lvl)
  BY DEF PagingInv
<1>2. mem \in MemType /\ Tree(mem, given, lvl) /\ Shape(mem, lvl) /\ EnteredOnce(mem, lvl) /\ 1 \in Levels1
  BY <1>1, InvFacts, SMTT(30), SMTT(60)
<1> SUFFICES ASSUME NEW v \in Pages, ~UnderHuge(mem, v)
             PROVE  /\ virtual_to_physical(mem, v) = IF v \in DOMAIN Translation(mem) THEN Translation(mem)[v] ELSE 0
                    /\ v # BootPage => (is_free(mem, v) <=> v \notin DOMAIN Translation(mem))
  BY DEF LookupsAgree
<1>3. /\ v \in DOMAIN Translation(mem) <=> Physical(mem, v) # 0
      /\ Physical(mem, v) # 0 => Translation(mem)[v] = Physical(mem, v)
  BY DEF Translation
<1> DEFINE t == Reached(mem, v)[1]
           i == Index(v, 1)
<1>4. get_entry(mem, v) = IF t = 0 \/ mem[t][i].address = 0 THEN EmptyEntry ELSE mem[t][i]
  BY <1>2, WalkIsReached, ZenonT(60) DEF get_entry, Entry
<1>5. Physical(mem, v) = IF t = 0 \/ ~mem[t][i].present THEN 0 ELSE mem[t][i].address
  BY SMTT(30), SMTT(60) DEF Physical, Small, PresentAddress
<1>6. t # 0 => t \in Tables /\ lvl[t] = 1 /\ i \in Indices
  BY <1>2, ReachedType, IndexType, SMTT(30)
<1>7. t # 0 => (mem[t][i].present <=> mem[t][i].address # 0)
  <2>1. 1 > 0 /\ ~(1 > 1)
    OBVIOUS
  <2> HIDE DEF t, i
  <2>2. t # 0 => ~mem[t][i].page_size
    BY <1>2, <1>6, <2>1, SMTT(30), SMTT(60) DEF Shape
  <2> QED
    BY <1>2, <1>6, <2>1, <2>2, Zenon DEF Shape
<1>8. v # BootPage /\ t # 0 => (mem[t][i].unused_1 <=> mem[t][i].present)
  <2>1. v # BootPage /\ t # 0 => ~BootLeaf(t, i)
    BY <1>2, OneWay, PagingAssumption, ZenonT(60) DEF BootLeaf, Tree
  <2> QED
    BY <1>2, <1>6, <2>1, Zenon DEF Tree
<1> HIDE DEF t, i
<1>9. virtual_to_physical(mem, v) = Physical(mem, v)
  <2>1. virtual_to_physical(mem, v) = get_entry(mem, v).address
    BY DEF virtual_to_physical
  <2>2. CASE t = 0 \/ mem[t][i].address = 0
    <3>1. get_entry(mem, v).address = 0
      BY <1>4, <2>2 DEF EmptyEntry
    <3>2. Physical(mem, v) = 0
      BY <1>5, <1>7, <2>2, Zenon
    <3> QED
      BY <2>1, <3>1, <3>2, SMTT(30), SMTT(60)
  <2>3. CASE ~(t = 0 \/ mem[t][i].address = 0)
    BY <1>4, <1>5, <1>7, <2>1, <2>3, ZenonT(60)
  <2> QED
    BY <2>2, <2>3
<1>10. v # BootPage => (is_free(mem, v) <=> Physical(mem, v) = 0)
  BY <1>4, <1>5, <1>7, <1>8 DEF is_free, EmptyEntry
<1> QED
  BY <1>3, <1>9, <1>10, SMTT(30), SMTT(60)

(* Whatever the kernel maps and unmaps, in whatever order the boot loader's *)
(* dirty bits and the processor's accesses come, until it takes a huge page *)
(* for a table: no table is entered twice or mapped as memory,              *)
(* virtual_to_physical and is_free see what the processor sees of every     *)
(* page that is not under a huge page, and no stale translation is used.    *)
THEOREM PagingSafety == Spec => [](TablesAreATree /\ LookupsAgree /\ TLBIsFresh)
<1>1. Init => PagingInv
  BY PagingInit
<1>2. PagingInv /\ [Next]_vars => PagingInv'
  BY PagingStep DEF StepOK
<1>3. PagingInv => TablesAreATree /\ LookupsAgree /\ TLBIsFresh
  BY InvTree, InvLookups DEF PagingInv, InvAt, TLBFresh, TLBIsFresh
<1> QED
  BY <1>1, <1>2, <1>3, PTL DEF Spec

(* Steps that change no page leave the address space alone. *)
LEMMA KeptSpace ==
  ASSUME NEW m, NEW n, Kept(m, n)
  PROVE  Translation(n) = Translation(m)
BY SMTT(30), SMTT(60) DEF Kept, Translation

(* map_page maps one page. *)
LEMMA MappedSpace ==
  ASSUME NEW m, NEW n, Mapped(m, n), 0 \notin AllFrames
  PROVE  Space!Grown(Translation(m), Translation(n))
<1> DEFINE S == Translation(m)
           T == Translation(n)
<1>1. PICK v \in Pages :
        /\ Physical(m, v) = 0 /\ Physical(n, v) \in RAM \union Devices \union {BootFrame}
        /\ \A w \in Pages : w # v => Physical(n, w) = Physical(m, w)
  BY DEF Mapped
<1>2. Physical(n, v) # 0
  BY <1>1, SMTT(30), SMTT(60) DEF AllFrames, Tables
<1>3. v \in DOMAIN T \ DOMAIN S /\ DOMAIN T = DOMAIN S \union {v} /\ T[v] = Physical(n, v)
  BY <1>1, <1>2, SMTT(30), SMTT(60) DEF Translation
<1>4. Space!Restrict(T, DOMAIN S) = S
  BY <1>1, <1>3, SMTT(30), SMTT(60) DEF Translation, Space!Restrict
<1> QED
  BY <1>1, <1>3, <1>4, SMTT(30), SMTT(60) DEF Space!Grown

(* unmap_page unmaps one page, or none. *)
LEMMA UnmappedSpace ==
  ASSUME NEW m, NEW n, Unmapped(m, n)
  PROVE  Space!Shrunk(Translation(m), Translation(n)) \/ Translation(n) = Translation(m)
<1>1. PICK v \in Pages : /\ Physical(n, v) = 0
                         /\ \A w \in Pages : w # v => Physical(n, w) = Physical(m, w)
  BY SMTT(30), SMTT(60) DEF Unmapped
<1>2. CASE Physical(m, v) = 0
  BY <1>1, <1>2, SMTT(30), SMTT(60) DEF Translation
<1>3. CASE Physical(m, v) # 0
  <2>1. v \in DOMAIN Translation(m) \ DOMAIN Translation(n)
    BY <1>1, <1>3, SMTT(30), SMTT(60) DEF Translation
  <2>2. Translation(n) = Space!Restrict(Translation(m), DOMAIN Translation(m) \ {v})
    BY <1>1, <1>3 DEF Translation, Space!Restrict
  <2> QED
    BY <2>1, <2>2, SMTT(30), SMTT(60) DEF Space!Shrunk
<1> QED
  BY <1>2, <1>3, SMTT(30), SMTT(60)

(* What a page is mapped to is a frame. *)
LEMMA PhysicalType ==
  ASSUME PagingInv, NEW v \in Pages
  PROVE  Physical(mem, v) \in AllFrames \union {0}
<1>1. PICK lvl : InvAt(lvl)
  BY DEF PagingInv
<1>2. mem \in MemType /\ Shape(mem, lvl) /\ 1 \in Levels1
  BY <1>1, InvFacts, Zenon
<1>3. Reached(mem, v)[1] \in Tables \union {0} /\ Index(v, 1) \in Indices
  BY <1>2, ReachedType, IndexType
<1>4. Small(mem, v) \in AllFrames \union {0}
  BY <1>2, <1>3 DEF Small, PresentAddress, MemType
<1>5. Direct[v] \in AllFrames
  BY PagingAssumption
<1> QED
  BY <1>4, <1>5 DEF Physical

(* The four levels of tables implement a partial function from pages to     *)
(* frames: map_page adds a page that was not mapped, unmap_page takes one   *)
(* away, and every step in between, the new tables included, changes no     *)
(* translation, until a huge page is taken for a table.                     *)
THEOREM PagingRefinement == Spec => ImplementsAddressSpace
<1>1. Init => PagingInv /\ Space!Init
  <2> SUFFICES ASSUME Init PROVE PagingInv /\ Space!Init
    OBVIOUS
  <2>1. PagingInv
    BY PagingInit
  <2> DEFINE S == {p \in Pages : Physical(mem, p) # 0}
  <2>2. \A v \in Pages : Physical(mem, v) \in AllFrames \union {0}
    BY <2>1, PhysicalType
  <2>3. S \in SUBSET Pages /\ Translation(mem) \in [S -> AllFrames]
    BY <2>2 DEF Translation
  <2>4. stray = FALSE
    BY DEF Init
  <2> HIDE DEF S
  <2> QED
    BY <2>1, <2>3, <2>4, Zenon DEF Space!Init
<1>2. PagingInv /\ [Next]_vars => PagingInv' /\ [Space!Next]_<<Translation(mem), stray>>
  <2> SUFFICES ASSUME PagingInv, [Next]_vars PROVE PagingInv' /\ [Space!Next]_<<Translation(mem), stray>>
    OBVIOUS
  <2>1. /\ PagingInv' /\ (Kept(mem, mem') \/ Mapped(mem, mem') \/ Unmapped(mem, mem'))
        /\ stray' \in {stray, TRUE}
    BY PagingStep, Zenon DEF StepOK
  <2>2. \/ Translation(mem') = Translation(mem)
        \/ Space!Grown(Translation(mem), Translation(mem'))
        \/ Space!Shrunk(Translation(mem), Translation(mem'))
    BY <2>1, KeptSpace, MappedSpace, UnmappedSpace, PagingAssumption
  <2> QED
    BY <2>1, <2>2, Zenon DEF Space!Next, Space!Map, Space!Unmap, Space!Lose
<1> QED
  BY <1>1, <1>2, PTL DEF Spec, ImplementsAddressSpace, Space!Spec
=============================================================================
