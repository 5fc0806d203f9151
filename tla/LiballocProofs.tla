--------------------------- MODULE LiballocProofs ---------------------------
(***************************************************************************)
(* What malloc, realloc and free rest on (module Liballoc), for one caller: *)
(* the parts of the inductive invariant, and what the operations on tags    *)
(* and on free lists do to them.  Layout says how the tags lie in the       *)
(* blocks, Lists how the free ones are linked, and the rest relates both to *)
(* the objects and to the call that is in progress.  At the end are the     *)
(* actions that start a call and the one that takes a free tag; the proofs  *)
(* of the other actions, and the theorem, are in MallocProofs.              *)
(***************************************************************************)
EXTENDS Liballoc, TLAPS

(* What the proofs use of the theorems on sets and numbers in the library.   *)
(* The lemmas that need it have it as a hypothesis, and SetFactsHold, in     *)
(* MallocProofs, proves it for the theorem.  (With the library among what    *)
(* these modules extend, every single step takes twice as long to check.)    *)
SetFacts ==
  /\ \A S \in SUBSET Nat : S # {} => \E m \in S : \A k \in S : m <= k
  /\ IsFiniteSet({}) /\ Cardinality({}) = 0
  /\ \A S : IsFiniteSet(S) => Cardinality(S) \in Nat
  /\ \A S, x : IsFiniteSet(S) =>
       /\ IsFiniteSet(S \union {x})
       /\ Cardinality(S \union {x}) = IF x \in S THEN Cardinality(S) ELSE Cardinality(S) + 1
  /\ \A S, x : IsFiniteSet(S) =>
       /\ IsFiniteSet(S \ {x})
       /\ Cardinality(S \ {x}) = IF x \in S THEN Cardinality(S) - 1 ELSE Cardinality(S)
  /\ \A S, T : IsFiniteSet(S) /\ T \subseteq S => IsFiniteSet(T)
  /\ \A S : \A n \in Nat : \A s \in [1 .. n -> S] :
       IsFiniteSet(S) /\ (\A a, b \in 1 .. n : s[a] = s[b] => a = b) => n <= Cardinality(S)

(* A set of naturals that is not empty has a least element. *)
LEMMA LeastElement ==
  ASSUME SetFacts, NEW S \in SUBSET Nat, S # {}
  PROVE  \E m \in S : \A k \in S : m <= k
BY DEF SetFacts

(* The empty set is finite and has no members. *)
LEMMA EmptySet ==
  ASSUME SetFacts
  PROVE  IsFiniteSet({}) /\ Cardinality({}) = 0
BY DEF SetFacts

(* A finite set has a number of members. *)
LEMMA CardinalityType ==
  ASSUME SetFacts, NEW S, IsFiniteSet(S)
  PROVE  Cardinality(S) \in Nat
BY DEF SetFacts

(* A finite set with one more element. *)
LEMMA AddElement ==
  ASSUME SetFacts, NEW S, NEW x, IsFiniteSet(S)
  PROVE  /\ IsFiniteSet(S \union {x})
         /\ Cardinality(S \union {x}) = IF x \in S THEN Cardinality(S) ELSE Cardinality(S) + 1
BY DEF SetFacts

(* A finite set with one element less. *)
LEMMA RemoveElement ==
  ASSUME SetFacts, NEW S, NEW x, IsFiniteSet(S)
  PROVE  /\ IsFiniteSet(S \ {x})
         /\ Cardinality(S \ {x}) = IF x \in S THEN Cardinality(S) - 1 ELSE Cardinality(S)
BY DEF SetFacts

(* A part of a finite set is finite. *)
LEMMA SubsetIsFinite ==
  ASSUME SetFacts, NEW S, IsFiniteSet(S), NEW T \in SUBSET S
  PROVE  IsFiniteSet(T)
BY DEF SetFacts

(* A sequence without repetition is no longer than its range. *)
LEMMA NoLonger ==
  ASSUME SetFacts, NEW n \in Nat, NEW S, IsFiniteSet(S), NEW s \in [1 .. n -> S],
         \A a, b \in 1 .. n : s[a] = s[b] => a = b
  PROVE  n <= Cardinality(S)
BY DEF SetFacts

(* Induction: a set with 0 in it that has n + 1 when it has n, up to m, has *)
(* everything up to m.                                                      *)
LEMMA InductionUpTo ==
  ASSUME SetFacts, NEW m \in Nat, NEW S, 0 \in S, \A n \in 0 .. (m - 1) : n \in S => n + 1 \in S
  PROVE  0 .. m \subseteq S
<1> DEFINE B == (0 .. m) \ S
<1>1. SUFFICES ASSUME B # {} PROVE FALSE
  OBVIOUS
<1>a. B \in SUBSET Nat
  OBVIOUS
<1> HIDE DEF B
<1>2. PICK n \in B : \A k \in B : n <= k
  BY <1>1, <1>a, LeastElement
<1> USE DEF B
<1>3. n - 1 \in S
  BY <1>2
<1> QED
  BY <1>2, <1>3


boundary_tag ==
  [size : Nat, real_size : Nat, index : Indices \union {NoIndex},
   split_left : Nat, split_right : Nat, next : Nat, prev : Nat]

Main == call["main"]

Calls == [pc : {"idle", "take", "place", "melt", "absorb"}, size : Nat, tag : Nat, old : Nat]

MemTypes ==
  /\ tags \in [DOMAIN tags -> boundary_tag]
  /\ DOMAIN tags \subseteq Nat \ {NULL} /\ IsFiniteSet(DOMAIN tags)
  /\ l_freePages \in [Indices -> Nat]
  /\ l_completePages \in [Indices -> 0 .. MaxComplete]
  /\ call \in [Callers -> Calls]

BlockStart(b) == b.start * l_pageSize
BlockEnd(b) == (b.start + b.pages) * l_pageSize

BlocksOK ==
  /\ blocks \subseteq Provider!Block
  /\ \A b \in blocks : b.start > 0 /\ b.pages >= l_pageCount
  /\ \A b, c \in blocks : b = c \/ Provider!Disjoint(b, c)

(* Pieces of memory D with sizes S tile the blocks B. *)
Tiles(D, S, B) ==
  /\ \A t \in D : S[t] >= TagSize
  /\ \A t, u \in D : t < u => t + S[t] <= u
  /\ \A t \in D : \E b \in B : BlockStart(b) <= t /\ t + S[t] <= BlockEnd(b)
  /\ \A b \in B : \A x \in BlockStart(b) .. (BlockEnd(b) - 1) : \E t \in D : t <= x /\ x < t + S[t]

(* L and R lead from each one to its neighbours. *)
Adjacent(D, S, L, R, B) ==
  \A t \in D :
    /\ R[t] # NULL => R[t] = t + S[t] /\ R[t] \in D /\ L[R[t]] = t
    /\ R[t] = NULL => \E b \in B : t + S[t] = BlockEnd(b)
    /\ L[t] # NULL => L[t] \in D /\ R[L[t]] = t
    /\ L[t] = NULL <=> \E b \in B : t = BlockStart(b)

(* The tags do. *)
SizeOf == [a \in DOMAIN tags |-> tags[a].real_size]
LeftOf == [a \in DOMAIN tags |-> tags[a].split_left]
RightOf == [a \in DOMAIN tags |-> tags[a].split_right]

Layout ==
  /\ Tiles(DOMAIN tags, SizeOf, blocks)
  /\ Adjacent(DOMAIN tags, SizeOf, LeftOf, RightOf, blocks)

(* A list, for any functions I (whose list), N (next) and P (prev) on a set *)
(* D and any first element h: list i is s[1] to s[n].                       *)
Chain(D, I, N, P, h, i, n, s) ==
  /\ \A k \in 1 .. n : s[k] \in D /\ I[s[k]] = i
  /\ \A t \in D : I[t] = i => \E k \in 1 .. n : s[k] = t
  /\ \A j, k \in 1 .. n : s[j] = s[k] => j = k
  /\ h = IF n = 0 THEN NULL ELSE s[1]
  /\ \A k \in 1 .. n : N[s[k]] = IF k = n THEN NULL ELSE s[k + 1]
  /\ \A k \in 1 .. n : P[s[k]] = IF k = 1 THEN NULL ELSE s[k - 1]

(* The links of the tags, as functions. *)
IndexOf == [a \in DOMAIN tags |-> tags[a].index]
NextOf == [a \in DOMAIN tags |-> tags[a].next]
PrevOf == [a \in DOMAIN tags |-> tags[a].prev]

List(i, n, s) == Chain(DOMAIN tags, IndexOf, NextOf, PrevOf, l_freePages[i], i, n, s)

Lists ==
  /\ \A i \in Indices : \E n \in Nat : \E s \in [1 .. n -> Nat] : List(i, n, s)
  /\ \A t \in DOMAIN tags : tags[t].index = NoIndex => tags[t].next = NULL /\ tags[t].prev = NULL
  /\ \A t \in DOMAIN tags : tags[t].index # NoIndex => tags[t].index = ListOf(Payload(t))

(* The tags that are neither free nor in the caller's hands: what malloc is *)
(* about to return, and what free or realloc was given.                     *)
Taken == IF Main.pc \in {"place", "melt", "absorb"} THEN {Main.tag} ELSE {}
GivenUp == IF Main.pc \in {"take", "place"} /\ Main.old # NULL THEN {Main.old} ELSE {}

Owned ==
  /\ \A t \in DOMAIN tags : tags[t].index = NoIndex <=> t \in objects \union Taken \union GivenUp
  /\ objects \union Taken \union GivenUp \subseteq DOMAIN tags
  /\ objects \cap Taken = {} /\ objects \cap GivenUp = {} /\ Taken \cap GivenUp = {}
  /\ \A p \in objects : TagSize + tags[p].size <= tags[p].real_size

Joined ==
  \A t \in DOMAIN tags : tags[t].index # NoIndex /\ tags[t].split_right # NULL =>
                            tags[tags[t].split_right].index = NoIndex

WholeFree(i) == {t \in DOMAIN tags : tags[t].index = i /\ Whole(t)}

Counted == \A i \in Indices : l_completePages[i] = Cardinality(WholeFree(i))

(* The call in progress, and the neighbours of its tag. *)
RightTaken == tags[Main.tag].split_right # NULL => tags[tags[Main.tag].split_right].index = NoIndex
LeftTaken == tags[Main.tag].split_left # NULL => tags[tags[Main.tag].split_left].index = NoIndex

Progress ==
  /\ Main.pc = "take" /\ Main.tag # NULL =>
       /\ Main.tag \in DOMAIN tags /\ tags[Main.tag].index = ListOf(Main.size)
       /\ Payload(Main.tag) >= Main.size + TagSize
  /\ Main.pc = "place" => TagSize + Main.size <= tags[Main.tag].real_size /\ RightTaken
  /\ Main.pc = "absorb" => LeftTaken

LibInv == MemTypes /\ BlocksOK /\ Layout /\ Lists /\ Owned /\ Joined /\ Counted /\ Progress

-----------------------------------------------------------------------------
(* Every size has a list. *)
LEMMA ListOfIndex ==
  ASSUME SetFacts, NEW x
  PROVE  ListOf(x) \in Indices
<1> DEFINE stops == {shift \in MinExp .. MaxExp : shift = MaxExp \/ 2 ^ shift > x}
<1>1. MinExp \in Nat /\ MaxExp \in Nat /\ MinExp < MaxExp /\ MinExp \in Indices
  BY LiballocAssumption DEF Indices
<1>2. CASE 2 ^ MinExp > x
  <2>1. getexp(x) = NoIndex
    BY <1>2 DEF getexp
  <2> QED
    BY <1>1, <2>1 DEF ListOf, NoIndex
<1>3. CASE ~(2 ^ MinExp > x)
  <2>1. getexp(x) = (CHOOSE shift \in stops : \A s \in stops : shift <= s) - 1
    BY <1>3 DEF getexp
  <2>2. stops \in SUBSET Nat /\ stops # {} /\ MinExp \notin stops /\ stops \subseteq MinExp .. MaxExp
    BY <1>1, <1>3
  <2> HIDE DEF stops
  <2>3. \E shift \in stops : \A s \in stops : shift <= s
    BY <2>2, LeastElement
  <2> DEFINE least == CHOOSE shift \in stops : \A s \in stops : shift <= s
  <2>4. least \in stops
    BY <2>3
  <2> HIDE DEF least
  <2>5. least \in (MinExp + 1) .. MaxExp
    BY <1>1, <2>2, <2>4
  <2>6. getexp(x) = least - 1
    BY <2>1 DEF least
  <2> QED
    BY <1>1, <2>5, <2>6 DEF ListOf, Indices
<1> QED
  BY <1>2, <1>3

(* Multiples of the page size. *)
LEMMA Multiples ==
  ASSUME NEW m \in Nat \ {0}
  PROVE  /\ \A a, b \in Nat : a <= b => a * m <= b * m
         /\ \A a \in Nat : a * m \in Nat /\ (a > 0 => a * m > 0)
         /\ \A a \in Nat : (a * m) \div m = a /\ (a * m) % m = 0
         /\ \A a, b \in Nat : a * m = b * m => a = b
         /\ \A u \in Nat : u \div m \in Nat /\ (u \div m + (IF u % m = 0 THEN 0 ELSE 1)) * m >= u
<1>1. \A a, b \in Nat : a <= b => a * m <= b * m
  OBVIOUS
<1>2. \A a \in Nat : a * m \in Nat /\ (a > 0 => a * m > 0)
  OBVIOUS
<1>3. \A a \in Nat : (a * m) \div m = a /\ (a * m) % m = 0
  OBVIOUS
<1>4. \A a, b \in Nat : a * m = b * m => a = b
  BY <1>3
<1>5. ASSUME NEW u \in Nat
      PROVE  u \div m \in Nat /\ (u \div m + (IF u % m = 0 THEN 0 ELSE 1)) * m >= u
  <2> DEFINE d == u \div m
             r == u % m
  <2>1. d \in Nat /\ r \in 0 .. (m - 1) /\ u = m * d + r
    OBVIOUS
  <2> HIDE DEF d, r
  <2>2. (d + 1) * m = m * d + m /\ d * m = m * d /\ d + 0 = d
    BY <2>1
  <2>3. (d + (IF r = 0 THEN 0 ELSE 1)) * m >= u
    BY <2>1, <2>2
  <2> QED
    BY <2>1, <2>3 DEF d, r
<1> QED
  BY <1>1, <1>2, <1>3, <1>4, <1>5

(* The block that is asked for has room for the tag and the object. *)
LEMMA PagesForEnough ==
  ASSUME NEW size \in Nat
  PROVE  /\ PagesFor(size) \in Nat /\ PagesFor(size) >= l_pageCount
         /\ PagesFor(size) * l_pageSize \in Nat
         /\ PagesFor(size) * l_pageSize >= size + TagSize
<1> DEFINE usage == size + TagSize
           pages == usage \div l_pageSize + IF usage % l_pageSize = 0 THEN 0 ELSE 1
<1>1. l_pageSize \in Nat \ {0} /\ l_pageCount \in Nat \ {0} /\ TagSize \in Nat /\ usage \in Nat
  BY LiballocAssumption
<1>2. usage \div l_pageSize \in Nat /\ pages * l_pageSize >= usage
  BY <1>1, Multiples, Zenon
<1>3. pages \in Nat
  BY <1>2
<1>4. PagesFor(size) = IF pages < l_pageCount THEN l_pageCount ELSE pages
  BY DEF PagesFor
<1> HIDE DEF pages, usage
<1>5. PagesFor(size) \in Nat /\ PagesFor(size) >= l_pageCount /\ PagesFor(size) >= pages
  BY <1>1, <1>3, <1>4
<1>6. pages * l_pageSize <= PagesFor(size) * l_pageSize /\ PagesFor(size) * l_pageSize \in Nat /\ pages * l_pageSize \in Nat
  BY <1>1, <1>3, <1>5, Multiples, Zenon
<1> QED
  BY <1>1, <1>2, <1>5, <1>6 DEF usage

(* free computes from a whole block how many pages it has. *)
LEMMA PagesForWhole ==
  ASSUME NEW pages \in Nat, pages >= l_pageCount, NEW payload \in Int, payload = pages * l_pageSize - TagSize
  PROVE  PagesFor(payload) = pages
<1>1. l_pageSize \in Nat \ {0} /\ l_pageCount \in Nat \ {0} /\ TagSize \in Nat
  BY LiballocAssumption
<1>2. payload + TagSize = pages * l_pageSize
  BY <1>1
<1>3. (pages * l_pageSize) \div l_pageSize = pages /\ (pages * l_pageSize) % l_pageSize = 0
  BY <1>1, Multiples
<1> QED
  BY <1>1, <1>2, <1>3 DEF PagesFor

-----------------------------------------------------------------------------
(* What the operations on tags do, field by field. *)
SameSplit(U, T, a) == U[a].split_left = T[a].split_left /\ U[a].split_right = T[a].split_right
SameLinks(U, T, a) == U[a].index = T[a].index /\ U[a].next = T[a].next /\ U[a].prev = T[a].prev
SameSize(U, T, a) == U[a].size = T[a].size /\ U[a].real_size = T[a].real_size

(* U is T with one field of tag t changed to v. *)
NextSet(D, U, T, t, v) ==
  /\ U \in [D -> boundary_tag]
  /\ \A a \in D : /\ SameSize(U, T, a) /\ SameSplit(U, T, a) /\ U[a].index = T[a].index /\ U[a].prev = T[a].prev
                  /\ U[a].next = IF a = t THEN v ELSE T[a].next

PrevSet(D, U, T, t, v) ==
  /\ U \in [D -> boundary_tag]
  /\ \A a \in D : /\ SameSize(U, T, a) /\ SameSplit(U, T, a) /\ U[a].index = T[a].index /\ U[a].next = T[a].next
                  /\ U[a].prev = IF a = t THEN v ELSE T[a].prev

IndexSet(D, U, T, t, v) ==
  /\ U \in [D -> boundary_tag]
  /\ \A a \in D : /\ SameSize(U, T, a) /\ SameSplit(U, T, a) /\ U[a].next = T[a].next /\ U[a].prev = T[a].prev
                  /\ U[a].index = IF a = t THEN v ELSE T[a].index

SplitLeftSet(D, U, T, t, v) ==
  /\ U \in [D -> boundary_tag]
  /\ \A a \in D : /\ SameSize(U, T, a) /\ SameLinks(U, T, a) /\ U[a].split_right = T[a].split_right
                  /\ U[a].split_left = IF a = t THEN v ELSE T[a].split_left

(* The same with real_size, to v, and split_right, to w. *)
ExtentSet(D, U, T, t, v, w) ==
  /\ U \in [D -> boundary_tag]
  /\ \A a \in D : /\ U[a].size = T[a].size /\ SameLinks(U, T, a) /\ U[a].split_left = T[a].split_left
                  /\ U[a].split_right = IF a = t THEN w ELSE T[a].split_right
                  /\ U[a].real_size = IF a = t THEN v ELSE T[a].real_size

(* Setting the field next of a tag. *)
LEMMA SetNext ==
  ASSUME NEW D, NEW T \in [D -> boundary_tag], NEW t \in D, NEW v \in Nat
  PROVE  NextSet(D, [T EXCEPT ![t].next = v], T, t, v)
BY DEF boundary_tag, SameSize, SameSplit, NextSet

(* Setting the field prev of a tag. *)
LEMMA SetPrev ==
  ASSUME NEW D, NEW T \in [D -> boundary_tag], NEW t \in D, NEW v \in Nat
  PROVE  PrevSet(D, [T EXCEPT ![t].prev = v], T, t, v)
BY DEF boundary_tag, SameSize, SameSplit, PrevSet

(* Setting the field index of a tag. *)
LEMMA SetIndex ==
  ASSUME NEW D, NEW T \in [D -> boundary_tag], NEW t \in D, NEW v \in Indices \union {NoIndex}
  PROVE  IndexSet(D, [T EXCEPT ![t].index = v], T, t, v)
BY DEF boundary_tag, SameSize, SameSplit, IndexSet

(* Setting the field split_left of a tag. *)
LEMMA SetSplitLeft ==
  ASSUME NEW D, NEW T \in [D -> boundary_tag], NEW t \in D, NEW v \in Nat
  PROVE  SplitLeftSet(D, [T EXCEPT ![t].split_left = v], T, t, v)
BY DEF boundary_tag, SameSize, SameLinks, SplitLeftSet

(* Setting the extent of a tag. *)
LEMMA SetExtent ==
  ASSUME NEW D, NEW T \in [D -> boundary_tag], NEW t \in D, NEW v \in Nat, NEW w \in Nat
  PROVE  ExtentSet(D, [T EXCEPT ![t].real_size = v, ![t].split_right = w], T, t, v, w)
BY ZenonT(60) DEF boundary_tag, SameLinks, ExtentSet

-----------------------------------------------------------------------------
IsChain(D, I, N, P, h, i) == \E n \in Nat : \E s \in [1 .. n -> Nat] : Chain(D, I, N, P, h, i, n, s)

(* J, M and Q on E are I, N and P on D once w is unlinked; outside E are    *)
(* only w and elements of no list (j).                                      *)
UnlinkedFrom(D, I, N, P, w, j, E, J, M, Q) ==
  /\ \A a \in D \ E : a = w \/ I[a] = j
  /\ \A a \in E \ {w} :
       /\ J[a] = I[a]
       /\ M[a] = IF a = P[w] THEN N[w] ELSE N[a]
       /\ Q[a] = IF a = N[w] THEN P[w] ELSE P[a]
  /\ w \in E => J[w] = j

(* remove_tag on a list: the chain without w. *)
LEMMA ChainRemove ==
  ASSUME NEW D \in SUBSET (Nat \ {NULL}), NEW I, NEW N, NEW P, NEW h, NEW i,
         NEW n \in Nat, NEW s \in [1 .. n -> Nat], Chain(D, I, N, P, h, i, n, s),
         NEW w \in D, I[w] = i, NEW j, j # i,
         NEW E \in SUBSET D, NEW J, NEW M, NEW Q, NEW g,
         UnlinkedFrom(D, I, N, P, w, j, E, J, M, Q),
         g = IF h = w THEN N[w] ELSE h
  PROVE  IsChain(E, J, M, Q, g, i)
<1> USE DEF UnlinkedFrom
<1>m. \A l \in 1 .. n : s[l] \in D /\ s[l] # NULL /\ I[s[l]] = i
  BY DEF Chain
<1>i. \A a, b \in 1 .. n : s[a] = s[b] => a = b
  BY DEF Chain
<1>n. \A l \in 1 .. n : N[s[l]] = IF l = n THEN NULL ELSE s[l + 1]
  BY DEF Chain
<1>p. \A l \in 1 .. n : P[s[l]] = IF l = 1 THEN NULL ELSE s[l - 1]
  BY DEF Chain
<1>1. PICK k \in 1 .. n : s[k] = w
  BY DEF Chain
<1> DEFINE m == n - 1
           r == [l \in 1 .. (n - 1) |-> IF l < k THEN s[l] ELSE s[l + 1]]
<1>2. m \in Nat /\ r \in [1 .. m -> Nat]
  OBVIOUS
<1>3. \A l \in 1 .. m : r[l] = IF l < k THEN s[l] ELSE s[l + 1]
  OBVIOUS
<1>4. \A l \in 1 .. m : r[l] \in D /\ r[l] # w /\ I[r[l]] = i
  BY <1>1, <1>3, <1>m, <1>i
<1> HIDE DEF r
<1>5. \A l \in 1 .. m : r[l] \in E /\ J[r[l]] = i
  <2> SUFFICES ASSUME NEW l \in 1 .. m PROVE r[l] \in E /\ J[r[l]] = i
    BY Zenon
  <2>1. r[l] \in D /\ r[l] # w /\ I[r[l]] = i
    BY <1>4, Zenon
  <2> QED
    BY <2>1, Zenon
<1>6. ASSUME NEW t \in E, J[t] = i PROVE \E l \in 1 .. m : r[l] = t
  <2>1. t \in D /\ t # w /\ I[t] = i
    BY <1>6
  <2>2. PICK l \in 1 .. n : s[l] = t
    BY <2>1 DEF Chain
  <2>3. l # k
    BY <1>1, <2>1, <2>2
  <2>4. CASE l < k
    <3>1. l \in 1 .. m /\ r[l] = t
      BY <1>3, <2>2, <2>4
    <3> QED
      BY <3>1
  <2>5. CASE l > k
    <3>1. (l - 1) \in 1 .. m /\ r[l - 1] = t
      BY <1>3, <2>2, <2>5
    <3> QED
      BY <3>1
  <2> QED
    BY <2>3, <2>4, <2>5
<1>7. ASSUME NEW a \in 1 .. m, NEW b \in 1 .. m, r[a] = r[b] PROVE a = b
  <2> DEFINE x == IF a < k THEN a ELSE a + 1
             y == IF b < k THEN b ELSE b + 1
  <2>1. x \in 1 .. n /\ y \in 1 .. n /\ r[a] = s[x] /\ r[b] = s[y] /\ (x = y => a = b)
    BY <1>3, SMTT(30), SMTT(60)
  <2> HIDE DEF x, y
  <2>2. s[x] = s[y]
    BY <1>7, <2>1, Zenon
  <2>3. x = y
    BY <1>i, <2>1, <2>2, SMTT(30), SMTT(60)
  <2> QED
    BY <2>1, <2>3
<1>8. N[w] = (IF k = n THEN NULL ELSE s[k + 1]) /\ P[w] = (IF k = 1 THEN NULL ELSE s[k - 1])
  BY <1>1, <1>n, <1>p, SMTT(30), SMTT(60)
<1>9. g = IF m = 0 THEN NULL ELSE r[1]
  <2>1. h = s[1] /\ (h = w <=> k = 1)
    <3>1. h = s[1]
      BY DEF Chain
    <3> QED
      BY <1>1, <1>i, <3>1
  <2> QED
    BY <1>3, <1>8, <2>1
<1>10. ASSUME NEW l \in 1 .. m PROVE M[r[l]] = IF l = m THEN NULL ELSE r[l + 1]
  <2>1. M[r[l]] = IF r[l] = P[w] THEN N[w] ELSE N[r[l]]
    BY <1>4, <1>5, Zenon
  <2>2. CASE l < k
    <3>1. r[l] = s[l] /\ (l < n) /\ N[s[l]] = s[l + 1]
      BY <1>3, <2>2, <1>n
    <3>2. s[l] = P[w] <=> l = k - 1
      BY <1>8, <2>2, <1>m, <1>i, <3>1, SMTT(30), SMTT(60)
    <3>3. CASE l = k - 1
      BY <1>3, <1>8, <2>1, <3>1, <3>2, <3>3
    <3>4. CASE l # k - 1
      <4>1. l + 1 \in 1 .. m /\ l + 1 < k
        BY <2>2, <3>4
      <4> QED
        BY <1>3, <2>1, <3>1, <3>2, <3>4, <4>1, SMTT(30), SMTT(60)
    <3> QED
      BY <3>3, <3>4
  <2>3. CASE l >= k
    <3>1. r[l] = s[l + 1] /\ l + 1 \in 1 .. n /\ N[s[l + 1]] = IF l + 1 = n THEN NULL ELSE s[l + 2]
      BY <1>3, <2>3, <1>n, SMTT(30), SMTT(60)
    <3>2. r[l] # P[w]
      BY <1>8, <2>3, <1>m, <1>i, <3>1, SMTT(30), SMTT(60)
    <3> QED
      BY <1>3, <2>1, <2>3, <3>1, <3>2
  <2> QED
    BY <2>2, <2>3
<1>11. ASSUME NEW l \in 1 .. m PROVE Q[r[l]] = IF l = 1 THEN NULL ELSE r[l - 1]
  <2>1. Q[r[l]] = IF r[l] = N[w] THEN P[w] ELSE P[r[l]]
    BY <1>4, <1>5, Zenon
  <2>2. CASE l < k
    <3>1. r[l] = s[l] /\ (l < n) /\ P[s[l]] = IF l = 1 THEN NULL ELSE s[l - 1]
      BY <1>3, <2>2, <1>p
    <3>2. r[l] # N[w]
      BY <1>8, <2>2, <1>m, <1>i, <3>1
    <3> QED
      BY <1>3, <2>1, <2>2, <3>1, <3>2
  <2>3. CASE l >= k
    <3>1. r[l] = s[l + 1] /\ l + 1 \in 1 .. n /\ P[s[l + 1]] = s[l]
      BY <1>3, <2>3, <1>p
    <3>2. r[l] = N[w] <=> l = k
      BY <1>8, <2>3, <1>m, <1>i, <3>1, SMTT(30), SMTT(60)
    <3>3. CASE l = k
      BY <1>3, <1>8, <2>1, <3>1, <3>2, <3>3
    <3>4. CASE l # k
      <4>1. l - 1 \in 1 .. m /\ ~(l - 1 < k) /\ (l - 1) + 1 = l /\ l # 1
        BY <2>3, <3>4
      <4>2. r[l - 1] = s[l]
        BY <1>3, <4>1
      <4> QED
        BY <2>1, <3>1, <3>2, <3>4, <4>1, <4>2
    <3> QED
      BY <3>3, <3>4
  <2> QED
    BY <2>2, <2>3
<1>12. Chain(E, J, M, Q, g, i, m, r)
  BY <1>5, <1>6, <1>7, <1>9, <1>10, <1>11, SMTT(30), SMTT(60) DEF Chain
<1> QED
  BY <1>2, <1>12, SMTT(30), SMTT(60) DEF IsChain

(* A chain none of whose elements changes. *)
LEMMA ChainKept ==
  ASSUME NEW D, NEW I, NEW N, NEW P, NEW h, NEW i,
         NEW n \in Nat, NEW s \in [1 .. n -> Nat], Chain(D, I, N, P, h, i, n, s),
         NEW E, NEW J, NEW M, NEW Q,
         \A a \in D : I[a] = i => a \in E /\ J[a] = i /\ M[a] = N[a] /\ Q[a] = P[a],
         \A a \in E : J[a] = i => a \in D /\ I[a] = i
  PROVE  Chain(E, J, M, Q, h, i, n, s)
<1>1. \A l \in 1 .. n : s[l] \in D /\ I[s[l]] = i
  BY DEF Chain
<1>2. \A l \in 1 .. n : s[l] \in E /\ J[s[l]] = i /\ M[s[l]] = N[s[l]] /\ Q[s[l]] = P[s[l]]
  BY <1>1
<1>3. \A t \in E : J[t] = i => \E k \in 1 .. n : s[k] = t
  BY DEF Chain
<1>4. \A l \in 1 .. n : M[s[l]] = (IF l = n THEN NULL ELSE s[l + 1])
  BY <1>2 DEF Chain
<1>5. \A l \in 1 .. n : Q[s[l]] = (IF l = 1 THEN NULL ELSE s[l - 1])
  BY <1>2 DEF Chain
<1> QED
  BY <1>2, <1>3, <1>4, <1>5 DEF Chain

(* J, M and Q on E are I, N and P on D with w in front of chain i. *)
PushedOn(D, I, N, P, h, w, i, E, J, M, Q) ==
  /\ E = D \union {w}
  /\ \A a \in D : I[a] = i => J[a] = i /\ M[a] = N[a] /\ Q[a] = IF a = h THEN w ELSE P[a]
  /\ \A a \in D : a # w /\ J[a] = i => I[a] = i
  /\ J[w] = i /\ M[w] = h /\ Q[w] = NULL

(* insert_tag on a list: the chain with w in front. *)
LEMMA ChainPush ==
  ASSUME NEW D \in SUBSET (Nat \ {NULL}), NEW I, NEW N, NEW P, NEW h, NEW i,
         NEW n \in Nat, NEW s \in [1 .. n -> Nat], Chain(D, I, N, P, h, i, n, s),
         NEW w \in Nat \ {NULL}, w \in D => I[w] # i,
         NEW E, NEW J, NEW M, NEW Q, PushedOn(D, I, N, P, h, w, i, E, J, M, Q)
  PROVE  IsChain(E, J, M, Q, w, i)
<1> USE DEF PushedOn
<1>m. \A l \in 1 .. n : s[l] \in D /\ s[l] # NULL /\ I[s[l]] = i /\ s[l] # w
  BY DEF Chain
<1>i. \A a, b \in 1 .. n : s[a] = s[b] => a = b
  BY DEF Chain
<1>n. \A l \in 1 .. n : N[s[l]] = IF l = n THEN NULL ELSE s[l + 1]
  BY DEF Chain
<1>p. \A l \in 1 .. n : P[s[l]] = IF l = 1 THEN NULL ELSE s[l - 1]
  BY DEF Chain
<1>h. h = IF n = 0 THEN NULL ELSE s[1]
  BY DEF Chain
<1> DEFINE m == n + 1
           r == [l \in 1 .. (n + 1) |-> IF l = 1 THEN w ELSE s[l - 1]]
<1>1. m \in Nat /\ r \in [1 .. m -> Nat] /\ 1 \in 1 .. m /\ m # 0
  OBVIOUS
<1>2. r[1] = w /\ (\A l \in 2 .. m : r[l] = s[l - 1] /\ l - 1 \in 1 .. n) /\ (\A l \in 1 .. n : r[l + 1] = s[l])
  OBVIOUS
<1>3. \A l \in 1 .. m : l = 1 \/ l \in 2 .. m
  OBVIOUS
<1> HIDE DEF r
<1>4. ASSUME NEW l \in 1 .. m PROVE r[l] \in E /\ J[r[l]] = i
  <2>1. CASE l = 1
    BY <1>2, <2>1
  <2>2. CASE l \in 2 .. m
    <3>1. r[l] = s[l - 1] /\ l - 1 \in 1 .. n
      BY <1>2, <2>2
    <3> QED
      BY <1>m, <3>1
  <2> QED
    BY <1>3, <2>1, <2>2
<1>5. ASSUME NEW t \in E, J[t] = i PROVE \E l \in 1 .. m : r[l] = t
  <2>1. CASE t = w
    BY <1>1, <1>2, <2>1
  <2>2. CASE t # w
    <3>1. t \in D /\ I[t] = i
      BY <1>5, <2>2
    <3>2. PICK l \in 1 .. n : s[l] = t
      BY <3>1 DEF Chain
    <3>3. l + 1 \in 1 .. m /\ r[l + 1] = t
      BY <1>2, <3>2
    <3> QED
      BY <3>3
  <2> QED
    BY <2>1, <2>2
<1>6. ASSUME NEW a \in 1 .. m, NEW b \in 1 .. m, r[a] = r[b] PROVE a = b
  <2>1. CASE a = 1 /\ b = 1
    BY <2>1
  <2>2. CASE a = 1 /\ b \in 2 .. m
    BY <1>2, <1>6, <1>m, <2>2
  <2>3. CASE b = 1 /\ a \in 2 .. m
    BY <1>2, <1>6, <1>m, <2>3
  <2>4. CASE a \in 2 .. m /\ b \in 2 .. m
    <3>1. a - 1 \in 1 .. n /\ b - 1 \in 1 .. n /\ s[a - 1] = s[b - 1]
      BY <1>2, <1>6, <2>4
    <3>2. a - 1 = b - 1
      BY <1>i, <3>1
    <3> QED
      BY <3>2
  <2> QED
    BY <1>3, <2>1, <2>2, <2>3, <2>4
<1>7. ASSUME NEW l \in 1 .. m PROVE M[r[l]] = IF l = m THEN NULL ELSE r[l + 1]
  <2>1. CASE l = 1
    <3>1. CASE n = 0
      BY <1>2, <1>h, <2>1, <3>1
    <3>2. CASE n # 0
      <4>1. 1 \in 1 .. n /\ l # m /\ r[l + 1] = s[1]
        BY <1>2, <2>1, <3>2
      <4> QED
        BY <1>2, <1>h, <2>1, <3>2, <4>1, SMTT(30), SMTT(60)
    <3> QED
      BY <3>1, <3>2
  <2>2. CASE l \in 2 .. m
    <3>1. r[l] = s[l - 1] /\ l - 1 \in 1 .. n /\ (l - 1 = n <=> l = m) /\ (l - 1) + 1 = l
      BY <1>2, <2>2
    <3>2. M[r[l]] = IF l = m THEN NULL ELSE s[l]
      BY <1>m, <1>n, <3>1, SMTT(30), SMTT(60)
    <3>3. l # m => l \in 1 .. n
      BY <2>2
    <3> QED
      BY <1>2, <3>2, <3>3
  <2> QED
    BY <1>3, <2>1, <2>2
<1>8. ASSUME NEW l \in 1 .. m PROVE Q[r[l]] = IF l = 1 THEN NULL ELSE r[l - 1]
  <2>1. CASE l = 1
    BY <1>2, <2>1
  <2>2. CASE l \in 2 .. m
    <3>1. r[l] = s[l - 1] /\ l - 1 \in 1 .. n /\ l # 1
      BY <1>2, <2>2
    <3>2. Q[r[l]] = IF r[l] = h THEN w ELSE P[r[l]]
      BY <1>m, <3>1
    <3>3. CASE l = 2
      <4>1. r[l] = h
        BY <1>h, <3>1, <3>3
      <4> QED
        BY <1>2, <3>1, <3>2, <3>3, <4>1
    <3>4. CASE l # 2
      <4>1. l - 1 # 1 /\ 1 \in 1 .. n /\ n # 0 /\ l - 1 \in 2 .. m
        BY <2>2, <3>1, <3>4
      <4>2. s[l - 1] # s[1]
        BY <1>i, <3>1, <4>1
      <4>3. r[l] # h
        BY <1>h, <3>1, <4>1, <4>2
      <4>4. P[r[l]] = s[(l - 1) - 1]
        BY <1>p, <3>1, <4>1
      <4>5. r[l - 1] = s[(l - 1) - 1]
        BY <1>2, <4>1
      <4> QED
        BY <3>1, <3>2, <4>3, <4>4, <4>5
    <3> QED
      BY <3>3, <3>4
  <2> QED
    BY <1>3, <2>1, <2>2
<1>9. w = IF m = 0 THEN NULL ELSE r[1]
  BY <1>1, <1>2
<1>10. Chain(E, J, M, Q, w, i, m, r)
  BY <1>4, <1>5, <1>6, <1>7, <1>8, <1>9 DEF Chain
<1> QED
  BY <1>1, <1>10, SMTT(30), SMTT(60) DEF IsChain

-----------------------------------------------------------------------------
(* What a step does to the free lists: remove_tag(w), insert_tag of w into  *)
(* list i, or nothing.  Other changes are to tags in no list.               *)
FUnlink(w) ==
  /\ w \in DOMAIN tags /\ tags[w].index \in Indices
  /\ DOMAIN tags' \subseteq DOMAIN tags
  /\ \A a \in DOMAIN tags \ DOMAIN tags' : a = w \/ tags[a].index = NoIndex
  /\ \A a \in DOMAIN tags' \ {w} :
       /\ tags'[a].index = tags[a].index
       /\ tags'[a].next = IF a = tags[w].prev THEN tags[w].next ELSE tags[a].next
       /\ tags'[a].prev = IF a = tags[w].next THEN tags[w].prev ELSE tags[a].prev
       /\ tags[a].index # NoIndex => tags'[a].real_size = tags[a].real_size
  /\ w \in DOMAIN tags' => tags'[w].index = NoIndex /\ tags'[w].next = NULL /\ tags'[w].prev = NULL
  /\ l_freePages' = [l_freePages EXCEPT ![tags[w].index] = IF @ = w THEN tags[w].next ELSE @]

FInsert(w, i) ==
  /\ i \in Indices /\ w \in Nat \ {NULL}
  /\ DOMAIN tags' = DOMAIN tags \union {w}
  /\ w \in DOMAIN tags => tags[w].index = NoIndex
  /\ \A a \in DOMAIN tags \ {w} :
       /\ tags'[a].index = tags[a].index
       /\ tags'[a].next = tags[a].next
       /\ tags'[a].prev = IF a = l_freePages[i] THEN w ELSE tags[a].prev
       /\ tags[a].index # NoIndex => tags'[a].real_size = tags[a].real_size
  /\ tags'[w].index = i /\ tags'[w].next = l_freePages[i] /\ tags'[w].prev = NULL
  /\ i = ListOf(tags'[w].real_size - TagSize)
  /\ l_freePages' = [l_freePages EXCEPT ![i] = w]

FSame ==
  /\ \A a \in DOMAIN tags : tags[a].index # NoIndex =>
       /\ a \in DOMAIN tags'
       /\ tags'[a].index = tags[a].index /\ tags'[a].next = tags[a].next /\ tags'[a].prev = tags[a].prev
       /\ tags'[a].real_size = tags[a].real_size
  /\ \A a \in DOMAIN tags' : a \notin DOMAIN tags \/ tags[a].index = NoIndex =>
       tags'[a].index = NoIndex /\ tags'[a].next = NULL /\ tags'[a].prev = NULL
  /\ l_freePages' = l_freePages

(* Being in no list is not an index. *)
LEMMA NotAnIndex == NoIndex \notin Indices
BY LiballocAssumption DEF NoIndex, Indices

(* A step that leaves every free tag alone keeps the lists. *)
LEMMA FSameLists ==
  ASSUME MemTypes, Lists, FSame
  PROVE  Lists'
<1>1. ASSUME NEW i \in Indices PROVE \E n \in Nat : \E s \in [1 .. n -> Nat] : List(i, n, s)'
  <2>1. PICK n \in Nat : \E s \in [1 .. n -> Nat] : List(i, n, s)
    BY DEF Lists
  <2>2. PICK s \in [1 .. n -> Nat] : List(i, n, s)
    BY <2>1
  <2> DEFINE D == DOMAIN tags
             E == DOMAIN tags'
             h == l_freePages[i]
  <2>3. Chain(D, IndexOf, NextOf, PrevOf, h, i, n, s)
    BY <2>2 DEF List
  <2>4. \A a \in D : IndexOf[a] = i => a \in E /\ IndexOf'[a] = i /\ NextOf'[a] = NextOf[a] /\ PrevOf'[a] = PrevOf[a]
    BY NotAnIndex, Zenon DEF FSame, IndexOf, NextOf, PrevOf
  <2>5. \A a \in E : IndexOf'[a] = i => a \in D /\ IndexOf[a] = i
    BY NotAnIndex, Zenon DEF FSame, IndexOf
  <2>6. l_freePages'[i] = h
    BY SMTT(30), SMTT(60) DEF FSame
  <2> HIDE DEF D, E, h
  <2>7. Chain(E, IndexOf', NextOf', PrevOf', h, i, n, s)
    BY <2>3, <2>4, <2>5, ChainKept
  <2> QED
    BY <2>6, <2>7 DEF List, E
<1>2. \A t \in DOMAIN tags' : tags'[t].index = NoIndex => tags'[t].next = NULL /\ tags'[t].prev = NULL
  BY Zenon DEF FSame, Lists
<1>3. \A t \in DOMAIN tags' : tags'[t].index # NoIndex => tags'[t].index = ListOf(Payload(t)')
  BY Zenon DEF FSame, Lists, Payload
<1> QED
  BY <1>1, <1>2, <1>3, SMTT(30), SMTT(60) DEF Lists

(* The list a tag is in has both its neighbours. *)
LEMMA LinksStayInList ==
  ASSUME MemTypes, NEW i, NEW n \in Nat, NEW s \in [1 .. n -> Nat], List(i, n, s),
         NEW w \in DOMAIN tags, tags[w].index = i
  PROVE  /\ tags[w].next # NULL => /\ tags[w].next \in DOMAIN tags /\ tags[tags[w].next].index = i
                                   /\ tags[tags[w].next].prev = w
         /\ tags[w].prev # NULL => /\ tags[w].prev \in DOMAIN tags /\ tags[tags[w].prev].index = i
                                   /\ tags[tags[w].prev].next = w
         /\ tags[w].prev = NULL <=> l_freePages[i] = w
<1>1. \A a \in DOMAIN tags : IndexOf[a] = tags[a].index /\ NextOf[a] = tags[a].next /\ PrevOf[a] = tags[a].prev
  BY DEF IndexOf, NextOf, PrevOf
<1> DEFINE D == DOMAIN tags
<1>2. D \subseteq Nat \ {NULL}
  BY DEF MemTypes
<1>3. Chain(D, IndexOf, NextOf, PrevOf, l_freePages[i], i, n, s)
  BY DEF List
<1>d. w \in D /\ IndexOf[w] = i
  BY <1>1
<1> HIDE DEF D
<1>m. \A l \in 1 .. n : s[l] \in D /\ s[l] # NULL /\ IndexOf[s[l]] = i
  BY <1>2, <1>3 DEF Chain
<1>i. \A a, b \in 1 .. n : s[a] = s[b] => a = b
  BY <1>3 DEF Chain
<1>n. \A l \in 1 .. n : NextOf[s[l]] = IF l = n THEN NULL ELSE s[l + 1]
  BY <1>3 DEF Chain
<1>p. \A l \in 1 .. n : PrevOf[s[l]] = IF l = 1 THEN NULL ELSE s[l - 1]
  BY <1>3 DEF Chain
<1>h. l_freePages[i] = IF n = 0 THEN NULL ELSE s[1]
  BY <1>3 DEF Chain
<1>4. PICK k \in 1 .. n : s[k] = w
  BY <1>3, <1>d DEF Chain
<1>5. NextOf[w] # NULL => NextOf[w] \in D /\ IndexOf[NextOf[w]] = i /\ PrevOf[NextOf[w]] = w
  <2>1. SUFFICES ASSUME k # n PROVE NextOf[w] \in D /\ IndexOf[NextOf[w]] = i /\ PrevOf[NextOf[w]] = w
    BY <1>4, <1>n
  <2>2. k + 1 \in 1 .. n /\ k + 1 # 1 /\ (k + 1) - 1 = k
    BY <2>1
  <2>3. NextOf[w] = s[k + 1] /\ PrevOf[s[k + 1]] = s[k]
    BY <1>4, <1>n, <1>p, <2>1, <2>2, SMTT(30), SMTT(60)
  <2> QED
    BY <1>4, <1>m, <2>2, <2>3
<1>6. PrevOf[w] # NULL => PrevOf[w] \in D /\ IndexOf[PrevOf[w]] = i /\ NextOf[PrevOf[w]] = w
  <2>1. SUFFICES ASSUME k # 1 PROVE PrevOf[w] \in D /\ IndexOf[PrevOf[w]] = i /\ NextOf[PrevOf[w]] = w
    BY <1>4, <1>p
  <2>2. k - 1 \in 1 .. n /\ k - 1 # n /\ (k - 1) + 1 = k
    BY <2>1
  <2>3. PrevOf[w] = s[k - 1] /\ NextOf[s[k - 1]] = s[k]
    BY <1>4, <1>n, <1>p, <2>1, <2>2
  <2> QED
    BY <1>4, <1>m, <2>2, <2>3
<1>7. PrevOf[w] = NULL <=> k = 1
  <2>1. CASE k = 1
    BY <1>4, <1>p, <2>1
  <2>2. CASE k # 1
    <3>1. k - 1 \in 1 .. n
      BY <2>2
    <3>2. PrevOf[w] = s[k - 1]
      BY <1>4, <1>p, <2>2
    <3> QED
      BY <1>m, <2>2, <3>1, <3>2
  <2> QED
    BY <2>1, <2>2
<1>8. l_freePages[i] = w <=> k = 1
  <2>1. n # 0 /\ 1 \in 1 .. n
    BY <1>4
  <2> QED
    BY <1>4, <1>h, <1>i, <2>1
<1> QED
  BY <1>1, <1>5, <1>6, <1>7, <1>8, Zenon DEF D

(* remove_tag keeps the lists. *)
LEMMA FUnlinkLists ==
  ASSUME MemTypes, Lists, NEW w, FUnlink(w)
  PROVE  Lists'
<1>w. w \in DOMAIN tags /\ tags[w].index \in Indices
  BY DEF FUnlink
<1> DEFINE D == DOMAIN tags
           E == DOMAIN tags'
           k == tags[w].index
<1>1. \A a \in D : IndexOf[a] = tags[a].index /\ NextOf[a] = tags[a].next /\ PrevOf[a] = tags[a].prev
  BY DEF IndexOf, NextOf, PrevOf
<1>2. \A a \in E : IndexOf'[a] = tags'[a].index /\ NextOf'[a] = tags'[a].next /\ PrevOf'[a] = tags'[a].prev
  BY DEF IndexOf, NextOf, PrevOf
<1>3. D \in SUBSET (Nat \ {NULL}) /\ E \in SUBSET D /\ w \in D /\ IndexOf[w] = k /\ k # NoIndex /\ k \in Indices
  BY <1>1, <1>w, NotAnIndex DEF MemTypes, FUnlink
<1>4. ASSUME NEW a \in D \ E PROVE a = w \/ IndexOf[a] = NoIndex
  <2>1. a \in D /\ (a = w \/ tags[a].index = NoIndex)
    BY Zenon DEF FUnlink
  <2> QED
    BY <1>1, <2>1, Zenon
<1>5. \A a \in E \ {w} : /\ IndexOf'[a] = IndexOf[a]
                         /\ NextOf'[a] = IF a = PrevOf[w] THEN NextOf[w] ELSE NextOf[a]
                         /\ PrevOf'[a] = IF a = NextOf[w] THEN PrevOf[w] ELSE PrevOf[a]
  <2>1. SUFFICES ASSUME NEW a \in E \ {w}
                 PROVE  /\ IndexOf'[a] = IndexOf[a]
                        /\ NextOf'[a] = IF a = PrevOf[w] THEN NextOf[w] ELSE NextOf[a]
                        /\ PrevOf'[a] = IF a = NextOf[w] THEN PrevOf[w] ELSE PrevOf[a]
    OBVIOUS
  <2>2. a \in D /\ w \in D /\ a \in E
    BY <1>3
  <2>3. /\ tags'[a].index = tags[a].index
        /\ tags'[a].next = IF a = tags[w].prev THEN tags[w].next ELSE tags[a].next
        /\ tags'[a].prev = IF a = tags[w].next THEN tags[w].prev ELSE tags[a].prev
    BY <2>1, Zenon DEF FUnlink
  <2> QED
    BY <1>1, <1>2, <2>2, <2>3, ZenonT(40)
<1>6. w \in E => IndexOf'[w] = NoIndex
  BY <1>2, Zenon DEF FUnlink
<1>7. l_freePages'[k] = IF l_freePages[k] = w THEN NextOf[w] ELSE l_freePages[k]
  BY <1>1, <1>3 DEF FUnlink, MemTypes
<1>8. \A i \in Indices : i # k => l_freePages'[i] = l_freePages[i]
  BY DEF FUnlink, MemTypes
<1>p. PICK n \in Nat : \E s \in [1 .. n -> Nat] : List(k, n, s)
  BY <1>3, SMTT(30), SMTT(60) DEF Lists
<1>q. PICK s \in [1 .. n -> Nat] : List(k, n, s)
  BY <1>p
<1>r. Chain(D, IndexOf, NextOf, PrevOf, l_freePages[k], k, n, s)
  BY <1>q, SMTT(30), SMTT(60) DEF List
<1>s. /\ NextOf[w] # NULL => NextOf[w] \in D /\ IndexOf[NextOf[w]] = k
      /\ PrevOf[w] # NULL => PrevOf[w] \in D /\ IndexOf[PrevOf[w]] = k
  BY <1>q, <1>w, <1>1, LinksStayInList, SMTT(30), SMTT(60)
<1>a. ASSUME NEW i \in Indices PROVE \E m \in Nat : \E r \in [1 .. m -> Nat] : List(i, m, r)'
  <2>1. CASE i = k
    <3> DEFINE I == IndexOf
               N == NextOf
               P == PrevOf
               J == IndexOf'
               M == NextOf'
               Q == PrevOf'
               h == l_freePages[k]
               g == l_freePages'[k]
    <3>1. UnlinkedFrom(D, I, N, P, w, NoIndex, E, J, M, Q)
      BY <1>4, <1>5, <1>6, ZenonT(40) DEF UnlinkedFrom
    <3>3. g = (IF h = w THEN N[w] ELSE h) /\ Chain(D, I, N, P, h, k, n, s) /\ I[w] = k
      BY <1>3, <1>7, <1>r, SMTT(30), SMTT(60)
    <3> HIDE DEF D, E, k, I, N, P, J, M, Q, g, h
    <3>4. IsChain(E, J, M, Q, g, k)
      BY <1>3, <3>1, <3>3, ChainRemove, SMTT(30), SMTT(60)
    <3> QED
      BY <2>1, <3>4, SMTT(30), SMTT(60) DEF List, IsChain, E, J, M, Q, g
  <2>2. CASE i # k
    <3>1. PICK m \in Nat : \E r \in [1 .. m -> Nat] : List(i, m, r)
      BY DEF Lists
    <3>2. PICK r \in [1 .. m -> Nat] : List(i, m, r)
      BY <3>1, SMTT(30), SMTT(60)
    <3>3. Chain(D, IndexOf, NextOf, PrevOf, l_freePages[i], i, m, r)
      BY <3>2 DEF List
    <3>4. i # NoIndex
      BY NotAnIndex
    <3>5. w # NULL /\ \A a \in D : a # NULL
      BY <1>3
    <3> HIDE DEF D, E, k
    <3>6. \A a \in D : IndexOf[a] = i => a \in E /\ IndexOf'[a] = i /\ NextOf'[a] = NextOf[a] /\ PrevOf'[a] = PrevOf[a]
      <4>1. SUFFICES ASSUME NEW a \in D, IndexOf[a] = i
                     PROVE  a \in E /\ IndexOf'[a] = i /\ NextOf'[a] = NextOf[a] /\ PrevOf'[a] = PrevOf[a]
        OBVIOUS
      <4>2. a # w /\ a # NextOf[w] /\ a # PrevOf[w]
        BY <1>3, <1>s, <2>2, <3>5, <4>1, SMTT(30), SMTT(60)
      <4> QED
        BY <1>4, <1>5, <3>4, <4>1, <4>2, SMTT(30), SMTT(60)
    <3>7. \A a \in E : IndexOf'[a] = i => a \in D /\ IndexOf[a] = i
      BY <1>3, <1>5, <1>6, <3>4, SMTT(30), SMTT(60)
    <3>8. Chain(E, IndexOf', NextOf', PrevOf', l_freePages[i], i, m, r)
      BY <3>3, <3>6, <3>7, ChainKept, SMTT(30), SMTT(60)
    <3> QED
      BY <1>8, <2>2, <3>8, SMTT(30), SMTT(60) DEF List, E
  <2> QED
    BY <2>1, <2>2, Zenon
<1>b. ASSUME NEW t \in E, tags'[t].index = NoIndex PROVE tags'[t].next = NULL /\ tags'[t].prev = NULL
  <2>1. CASE t = w
    BY <2>1, ZenonT(60) DEF FUnlink
  <2>2. CASE t # w
    <3>1. t \in D /\ tags[t].index = NoIndex
      BY <1>b, <2>2, Zenon DEF FUnlink
    <3>2. t # NextOf[w] /\ t # PrevOf[w]
      BY <1>1, <1>3, <1>s, <3>1, SMTT(30), SMTT(60)
    <3>3. NextOf'[t] = NextOf[t] /\ PrevOf'[t] = PrevOf[t]
      BY <1>5, <2>2, <3>2
    <3>4. tags[t].next = NULL /\ tags[t].prev = NULL
      BY <3>1, Zenon DEF Lists
    <3> QED
      BY <1>1, <1>2, <3>1, <3>3, <3>4, SMTT(30), SMTT(60)
  <2> QED
    BY <2>1, <2>2
<1>c. ASSUME NEW t \in E, tags'[t].index # NoIndex PROVE tags'[t].index = ListOf(Payload(t)')
  <2>1. t # w
    BY <1>c, Zenon DEF FUnlink
  <2>2. t \in D /\ tags'[t].index = tags[t].index /\ tags[t].index # NoIndex
    BY <1>c, <2>1, Zenon DEF FUnlink
  <2>3. tags'[t].real_size = tags[t].real_size
    BY <2>1, <2>2, Zenon DEF FUnlink
  <2>4. tags[t].index = ListOf(Payload(t))
    BY <2>2, Zenon DEF Lists
  <2> QED
    BY <2>2, <2>3, <2>4, Zenon DEF Payload
<1> QED
  BY <1>a, <1>b, <1>c, Zenon DEF Lists

(* insert_tag keeps the lists. *)
LEMMA FInsertLists ==
  ASSUME MemTypes, Lists, NEW w, NEW k, FInsert(w, k)
  PROVE  Lists'
<1> DEFINE D == DOMAIN tags
           E == DOMAIN tags'
           h == l_freePages[k]
<1>1. \A a \in D : IndexOf[a] = tags[a].index /\ NextOf[a] = tags[a].next /\ PrevOf[a] = tags[a].prev
  BY DEF IndexOf, NextOf, PrevOf
<1>2. \A a \in E : IndexOf'[a] = tags'[a].index /\ NextOf'[a] = tags'[a].next /\ PrevOf'[a] = tags'[a].prev
  BY DEF IndexOf, NextOf, PrevOf
<1>3. D \in SUBSET (Nat \ {NULL}) /\ E = D \union {w} /\ w \in Nat \ {NULL} /\ w \in E
  BY DEF MemTypes, FInsert
<1>4. k \in Indices /\ k # NoIndex /\ (w \in D => IndexOf[w] = NoIndex)
  BY <1>1, NotAnIndex, Zenon DEF FInsert
<1>5. ASSUME NEW a \in D \ {w}
      PROVE  /\ IndexOf'[a] = IndexOf[a] /\ NextOf'[a] = NextOf[a]
             /\ PrevOf'[a] = IF a = h THEN w ELSE PrevOf[a]
  <2>1. a \in D /\ a \in E
    BY <1>3
  <2>2. /\ tags'[a].index = tags[a].index
        /\ tags'[a].next = tags[a].next
        /\ tags'[a].prev = IF a = l_freePages[k] THEN w ELSE tags[a].prev
    BY Zenon DEF FInsert
  <2> QED
    BY <1>1, <1>2, <2>1, <2>2, Zenon
<1>6. IndexOf'[w] = k /\ NextOf'[w] = h /\ PrevOf'[w] = NULL
  BY <1>2, <1>3, Zenon DEF FInsert
<1>7. l_freePages'[k] = w
  BY <1>4 DEF FInsert, MemTypes
<1>8. \A i \in Indices : i # k => l_freePages'[i] = l_freePages[i]
  BY DEF FInsert, MemTypes
<1>p. PICK n \in Nat : \E s \in [1 .. n -> Nat] : List(k, n, s)
  BY <1>4 DEF Lists
<1>q. PICK s \in [1 .. n -> Nat] : List(k, n, s)
  BY <1>p
<1>r. Chain(D, IndexOf, NextOf, PrevOf, h, k, n, s)
  BY <1>q DEF List
<1>s. h = NULL \/ (h \in D /\ IndexOf[h] = k)
  BY <1>r DEF Chain
<1>a. ASSUME NEW i \in Indices PROVE \E m \in Nat : \E r \in [1 .. m -> Nat] : List(i, m, r)'
  <2>1. CASE i = k
    <3> DEFINE I == IndexOf
               N == NextOf
               P == PrevOf
               J == IndexOf'
               M == NextOf'
               Q == PrevOf'
    <3>a. w \in D => I[w] # k
      BY <1>4
    <3>b. \A a \in D : I[a] = k => J[a] = k /\ M[a] = N[a] /\ Q[a] = IF a = h THEN w ELSE P[a]
      BY <1>5, <3>a, Zenon
    <3>c. \A a \in D : a # w /\ J[a] = k => I[a] = k
      BY <1>5, Zenon
    <3>1. PushedOn(D, I, N, P, h, w, k, E, J, M, Q)
      BY <1>3, <1>6, <3>b, <3>c, Zenon DEF PushedOn
    <3>2. Chain(D, I, N, P, h, k, n, s)
      BY <1>r
    <3> HIDE DEF D, E, I, N, P, J, M, Q, h
    <3>3. IsChain(E, J, M, Q, w, k)
      BY <1>3, <3>a, <3>1, <3>2, ChainPush, SMTT(30), SMTT(60)
    <3> QED
      BY <1>7, <2>1, <3>3 DEF List, IsChain, E, J, M, Q
  <2>2. CASE i # k
    <3>1. PICK m \in Nat : \E r \in [1 .. m -> Nat] : List(i, m, r)
      BY DEF Lists
    <3>2. PICK r \in [1 .. m -> Nat] : List(i, m, r)
      BY <3>1, SMTT(30), SMTT(60)
    <3>3. Chain(D, IndexOf, NextOf, PrevOf, l_freePages[i], i, m, r)
      BY <3>2 DEF List
    <3>4. i # NoIndex
      BY NotAnIndex
    <3>5. \A a \in D : a # NULL
      BY <1>3
    <3> HIDE DEF D, E, h
    <3>6. \A a \in D : IndexOf[a] = i => a \in E /\ IndexOf'[a] = i /\ NextOf'[a] = NextOf[a] /\ PrevOf'[a] = PrevOf[a]
      <4>1. SUFFICES ASSUME NEW a \in D, IndexOf[a] = i
                     PROVE  a \in E /\ IndexOf'[a] = i /\ NextOf'[a] = NextOf[a] /\ PrevOf'[a] = PrevOf[a]
        OBVIOUS
      <4>2. a # w /\ a # h
        BY <1>4, <1>s, <2>2, <3>4, <3>5, <4>1, SMTT(30), SMTT(60)
      <4> QED
        BY <1>3, <1>5, <4>1, <4>2, SMTT(30), SMTT(60)
    <3>7. \A a \in E : IndexOf'[a] = i => a \in D /\ IndexOf[a] = i
      BY <1>3, <1>5, <1>6, <2>2, SMTT(30), SMTT(60)
    <3>8. Chain(E, IndexOf', NextOf', PrevOf', l_freePages[i], i, m, r)
      BY <3>3, <3>6, <3>7, ChainKept, SMTT(30), SMTT(60)
    <3> QED
      BY <1>8, <2>2, <3>8, SMTT(30), SMTT(60) DEF List, E
  <2> QED
    BY <2>1, <2>2, Zenon
<1>b. ASSUME NEW t \in E, tags'[t].index = NoIndex PROVE tags'[t].next = NULL /\ tags'[t].prev = NULL
  <2>1. t # w
    BY <1>b, <1>4, <1>6, <1>2
  <2>2. t \in D \ {w} /\ t \in D
    BY <1>3, <2>1
  <2>3. IndexOf[t] = NoIndex
    BY <1>2, <1>5, <1>b, <2>2, SMTT(30), SMTT(60)
  <2>4. t # h
    BY <1>3, <1>4, <1>s, <2>2, <2>3
  <2>5. tags[t].next = NULL /\ tags[t].prev = NULL
    BY <1>1, <2>2, <2>3, Zenon DEF Lists
  <2> QED
    BY <1>1, <1>2, <1>5, <2>2, <2>4, <2>5, SMTT(30), SMTT(60)
<1>c. ASSUME NEW t \in E, tags'[t].index # NoIndex PROVE tags'[t].index = ListOf(Payload(t)')
  <2>1. CASE t = w
    BY <2>1, Zenon DEF FInsert, Payload
  <2>2. CASE t # w
    <3>1. t \in D \ {w}
      BY <1>3, <2>2
    <3>2. tags'[t].index = tags[t].index /\ (tags[t].index # NoIndex => tags'[t].real_size = tags[t].real_size)
      BY <3>1, Zenon DEF FInsert
    <3>3. tags[t].index # NoIndex => tags[t].index = ListOf(Payload(t))
      BY <3>1, Zenon DEF Lists
    <3> QED
      BY <1>c, <3>2, <3>3, Zenon DEF Payload
  <2> QED
    BY <2>1, <2>2
<1> QED
  BY <1>a, <1>b, <1>c, SMTT(30), SMTT(60) DEF Lists

-----------------------------------------------------------------------------
(* The blocks as bytes: none is empty, no two overlap. *)
Spaced(B) ==
  /\ \A b \in B : BlockStart(b) \in Nat \ {0} /\ BlockEnd(b) \in Nat /\ BlockStart(b) < BlockEnd(b)
  /\ \A b, c \in B : b = c \/ BlockEnd(b) <= BlockStart(c) \/ BlockEnd(c) <= BlockStart(b)

(* The blocks of pages do not overlap. *)
LEMMA BlocksAreSpaced ==
  ASSUME BlocksOK
  PROVE  Spaced(blocks)
<1> DEFINE m == l_pageSize
<1>0. m \in Nat \ {0} /\ l_pageCount \in Nat \ {0}
  BY LiballocAssumption
<1>1. \A a, b \in Nat : a <= b => a * m <= b * m
  BY <1>0, Multiples
<1>2. \A a \in Nat : a * m \in Nat /\ (a > 0 => a * m > 0)
  BY <1>0, Multiples
<1>3. \A a, b \in Nat : a * m = b * m => a = b
  BY <1>0, Multiples
<1>4. \A b \in blocks : b.start \in Nat \ {0} /\ b.pages \in Nat \ {0} /\ b.start + b.pages \in Nat
  BY <1>0 DEF BlocksOK, Provider!Block
<1>5. ASSUME NEW b \in blocks
      PROVE  BlockStart(b) \in Nat \ {0} /\ BlockEnd(b) \in Nat /\ BlockStart(b) < BlockEnd(b)
  <2> DEFINE x == b.start
             y == b.start + b.pages
  <2>1. x \in Nat \ {0} /\ y \in Nat /\ x <= y /\ x # y /\ y > 0
    BY <1>4
  <2>2. BlockStart(b) = x * m /\ BlockEnd(b) = y * m
    BY DEF BlockStart, BlockEnd
  <2> HIDE DEF x, y, m
  <2>3. x * m \in Nat /\ x * m > 0 /\ y * m \in Nat /\ x * m <= y * m /\ x * m # y * m
    BY <1>1, <1>2, <1>3, <2>1, SMTT(30), SMTT(60)
  <2> QED
    BY <2>2, <2>3
<1>6. ASSUME NEW b \in blocks, NEW c \in blocks
      PROVE  b = c \/ BlockEnd(b) <= BlockStart(c) \/ BlockEnd(c) <= BlockStart(b)
  <2>1. b = c \/ b.start + b.pages <= c.start \/ c.start + c.pages <= b.start
    BY DEF BlocksOK, Provider!Disjoint
  <2>2. b.start + b.pages \in Nat /\ c.start \in Nat /\ c.start + c.pages \in Nat /\ b.start \in Nat
    BY <1>4
  <2> QED
    BY <1>1, <2>1, <2>2, SMTT(30), SMTT(60) DEF BlockStart, BlockEnd
<1> QED
  BY <1>5, <1>6 DEF Spaced

(* A byte is in one block. *)
LEMMA OneBlock ==
  ASSUME NEW B, Spaced(B), NEW b \in B, NEW c \in B, NEW x \in Nat,
         BlockStart(b) <= x, x < BlockEnd(b), BlockStart(c) <= x, x < BlockEnd(c)
  PROVE  b = c
<1>1. /\ BlockStart(b) \in Nat /\ BlockEnd(b) \in Nat /\ BlockStart(c) \in Nat /\ BlockEnd(c) \in Nat
      /\ b = c \/ BlockEnd(b) <= BlockStart(c) \/ BlockEnd(c) <= BlockStart(b)
  BY DEF Spaced
<1> QED
  BY <1>1

(* A neighbour is in the same block. *)
LEMMA SameBlock ==
  ASSUME NEW D \in SUBSET (Nat \ {NULL}), NEW S \in [D -> Nat], NEW L, NEW R, NEW B,
         Spaced(B), Tiles(D, S, B), Adjacent(D, S, L, R, B), NEW u \in D, R[u] # NULL,
         NEW b \in B, BlockStart(b) <= u, u + S[u] <= BlockEnd(b)
  PROVE  R[u] + S[R[u]] <= BlockEnd(b)
<1>t. TagSize \in Nat \ {0}
  BY LiballocAssumption, SMTT(30), SMTT(60)
<1> DEFINE v == R[u]
<1>1. v = u + S[u] /\ v \in D /\ L[v] = u /\ u # NULL
  BY SMTT(30), SMTT(60) DEF Adjacent
<1>2. ~ \E c \in B : v = BlockStart(c)
  BY <1>1, SMTT(30), SMTT(60) DEF Adjacent
<1> HIDE DEF v
<1>3. PICK c \in B : BlockStart(c) <= v /\ v + S[v] <= BlockEnd(c)
  BY <1>1, SMTT(30), SMTT(60) DEF Tiles
<1>4. S[u] >= TagSize /\ S[v] >= TagSize /\ S[u] \in Nat /\ S[v] \in Nat /\ u \in Nat /\ v \in Nat
  BY <1>1, SMTT(30), SMTT(60) DEF Tiles
<1>5. v # BlockStart(c) /\ BlockStart(c) \in Nat /\ BlockStart(b) \in Nat /\ BlockEnd(c) \in Nat /\ BlockEnd(b) \in Nat
  BY <1>2, <1>3, SMTT(30), SMTT(60) DEF Spaced
<1>6. v - 1 \in Nat /\ BlockStart(b) <= v - 1 /\ v - 1 < BlockEnd(b) /\ BlockStart(c) <= v - 1 /\ v - 1 < BlockEnd(c)
  BY <1>t, <1>1, <1>3, <1>4, <1>5, SMTT(30), SMTT(60)
<1>7. b = c
  BY <1>6, OneBlock, SMTT(30), SMTT(60)
<1> QED
  BY <1>3, <1>7, SMTT(30), SMTT(60) DEF v

(* Nothing begins inside a piece of memory. *)
LEMMA NothingInside ==
  ASSUME NEW D \in SUBSET (Nat \ {NULL}), NEW S \in [D -> Nat], NEW B, Tiles(D, S, B),
         NEW t \in D, NEW x \in Nat, t < x, x < t + S[t]
  PROVE  x \notin D
BY DEF Tiles

(* Two neighbours u and v become one, u. *)
Merged(D, S, L, R, u, v, E, S2, L2, R2) ==
  /\ E = D \ {v}
  /\ S2[u] = S[u] + S[v] /\ L2[u] = L[u] /\ R2[u] = R[v]
  /\ \A a \in E \ {u} : S2[a] = S[a] /\ R2[a] = R[a] /\ L2[a] = IF a = R[v] THEN u ELSE L[a]

(* melt_left and absorb_right keep the tiling. *)
LEMMA MergeKeeps ==
  ASSUME NEW D \in SUBSET (Nat \ {NULL}), NEW S \in [D -> Nat], NEW L \in [D -> Nat], NEW R \in [D -> Nat], NEW B,
         Spaced(B), Tiles(D, S, B), Adjacent(D, S, L, R, B), NEW u \in D, NEW v, v = R[u], R[u] # NULL,
         NEW E, NEW S2, NEW L2, NEW R2, Merged(D, S, L, R, u, v, E, S2, L2, R2)
  PROVE  Tiles(E, S2, B) /\ Adjacent(E, S2, L2, R2, B)
<1>t. TagSize \in Nat \ {0}
  BY LiballocAssumption, SMTT(30), SMTT(60)
<1>1. v = u + S[u] /\ v \in D /\ L[v] = u /\ u # NULL /\ v # NULL
  BY DEF Adjacent
<1>2. S[u] >= TagSize /\ S[v] >= TagSize /\ S[u] \in Nat /\ S[v] \in Nat /\ u \in Nat /\ v \in Nat /\ u # v /\ u < v
  BY <1>t, <1>1, SMTT(30), SMTT(60) DEF Tiles
<1>3. E = D \ {v} /\ u \in E /\ E \subseteq D
  BY <1>2, SMTT(30), SMTT(60) DEF Merged
<1>4. S2[u] = S[u] + S[v] /\ L2[u] = L[u] /\ R2[u] = R[v] /\ u + S2[u] = v + S[v]
  BY <1>1, <1>2, SMTT(30), SMTT(60) DEF Merged
<1>5. \A a \in E : a # u => S2[a] = S[a] /\ R2[a] = R[a] /\ L2[a] = IF a = R[v] THEN u ELSE L[a]
  BY SMTT(30), SMTT(60) DEF Merged
<1>6. \A a \in E : S2[a] >= TagSize
  BY <1>t, <1>2, <1>3, <1>4, <1>5, SMTT(30), SMTT(60) DEF Tiles
<1>7. ASSUME NEW a \in E, NEW c \in E, a < c PROVE a + S2[a] <= c
  <2>1. a + S[a] <= c
    BY <1>3, <1>7, SMTT(30), SMTT(60) DEF Tiles
  <2>2. CASE a = u
    <3>1. v <= c /\ v # c /\ c \in D /\ v \in D /\ c \in Nat
      BY <1>1, <1>3, <2>1, <2>2, SMTT(30), SMTT(60)
    <3>2. v + S[v] <= c
      BY <1>2, <3>1, SMTT(30), SMTT(60) DEF Tiles
    <3> QED
      BY <1>4, <2>2, <3>2, SMTT(30), SMTT(60)
  <2>3. CASE a # u
    BY <1>5, <2>1, <2>3, SMTT(30), SMTT(60)
  <2> QED
    BY <2>2, <2>3
<1>8. ASSUME NEW a \in E PROVE \E b \in B : BlockStart(b) <= a /\ a + S2[a] <= BlockEnd(b)
  <2>1. PICK b \in B : BlockStart(b) <= a /\ a + S[a] <= BlockEnd(b)
    BY <1>3, SMTT(30), SMTT(60) DEF Tiles
  <2>2. CASE a = u
    <3>1. R[u] + S[R[u]] <= BlockEnd(b)
      BY <2>1, <2>2, SameBlock
    <3> QED
      BY <1>4, <2>1, <2>2, <3>1, SMTT(30), SMTT(60)
  <2>3. CASE a # u
    BY <1>5, <2>1, <2>3, SMTT(30), SMTT(60)
  <2> QED
    BY <2>2, <2>3, SMTT(30), SMTT(60)
<1>9. ASSUME NEW b \in B, NEW x \in BlockStart(b) .. (BlockEnd(b) - 1) PROVE \E a \in E : a <= x /\ x < a + S2[a]
  <2>0. x \in Nat
    BY DEF Spaced
  <2>1. PICK a \in D : a <= x /\ x < a + S[a]
    BY DEF Tiles
  <2>2. CASE a = u \/ a = v
    <3>1. u <= x /\ x < u + S2[u]
      BY <1>1, <1>2, <1>4, <2>0, <2>1, <2>2, SMTT(30), SMTT(60)
    <3> QED
      BY <1>3, <3>1, SMTT(30), SMTT(60)
  <2>3. CASE a # u /\ a # v
    <3>1. a \in E /\ S2[a] = S[a]
      BY <1>3, <1>5, <2>3, SMTT(30), SMTT(60)
    <3> QED
      BY <2>1, <3>1
  <2> QED
    BY <2>2, <2>3, SMTT(30), SMTT(60)
<1>10. Tiles(E, S2, B)
  BY <1>6, <1>7, <1>8, <1>9, SMTT(30), SMTT(60) DEF Tiles
<1>11. ASSUME NEW a \in E, R2[a] # NULL PROVE R2[a] = a + S2[a] /\ R2[a] \in E /\ L2[R2[a]] = a
  <2>1. CASE a = u
    <3>1. R2[a] = R[v] /\ R[v] # NULL
      BY <1>4, <1>11, <2>1, SMTT(30), SMTT(60)
    <3>2. R[v] = v + S[v] /\ R[v] \in D /\ R[v] \in Nat
      BY <1>1, <3>1, SMTT(30), SMTT(60) DEF Adjacent
    <3>3. R[v] # v /\ R[v] # u /\ R[v] \in E
      BY <1>t, <1>2, <1>3, <3>2, SMTT(30), SMTT(60)
    <3> QED
      BY <1>4, <1>5, <2>1, <3>1, <3>2, <3>3, SMTT(30), SMTT(60)
  <2>2. CASE a # u
    <3>1. R2[a] = R[a] /\ S2[a] = S[a] /\ a \in D /\ a # v
      BY <1>3, <1>5, <2>2, SMTT(30), SMTT(60)
    <3>2. R[a] = a + S[a] /\ R[a] \in D /\ L[R[a]] = a
      BY <1>11, <3>1, SMTT(30), SMTT(60) DEF Adjacent
    <3>3. R[a] # v /\ R[a] \in E
      BY <1>1, <1>3, <2>2, <3>2, SMTT(30), SMTT(60)
    <3>4. R[a] # R[v]
      <4>1. R[a] = R[v] => L[R[v]] = v
        BY <1>1, <1>11, <3>1, SMTT(30), SMTT(60) DEF Adjacent
      <4> QED
        BY <3>1, <3>2, <4>1, SMTT(30), SMTT(60)
    <3>5. L2[R[a]] = a
      <4>1. CASE R[a] = u
        BY <1>4, <3>2, <4>1, SMTT(30), SMTT(60)
      <4>2. CASE R[a] # u
        BY <1>5, <3>2, <3>3, <3>4, <4>2, SMTT(30), SMTT(60)
      <4> QED
        BY <4>1, <4>2, SMTT(30), SMTT(60)
    <3> QED
      BY <3>1, <3>2, <3>3, <3>5, SMTT(30), SMTT(60)
  <2> QED
    BY <2>1, <2>2, SMTT(30), SMTT(60)
<1>12. ASSUME NEW a \in E, R2[a] = NULL PROVE \E b \in B : a + S2[a] = BlockEnd(b)
  <2>1. CASE a = u
    <3>1. \E b \in B : v + S[v] = BlockEnd(b)
      BY <1>1, <1>4, <1>12, <2>1, SMTT(30), SMTT(60) DEF Adjacent
    <3> QED
      BY <1>4, <2>1, <3>1, SMTT(30), SMTT(60)
  <2>2. CASE a # u
    <3>1. R[a] = NULL /\ S2[a] = S[a] /\ a \in D
      BY <1>3, <1>5, <1>12, <2>2, SMTT(30), SMTT(60)
    <3> QED
      BY <3>1 DEF Adjacent
  <2> QED
    BY <2>1, <2>2, SMTT(30), SMTT(60)
<1>13. ASSUME NEW a \in E, L2[a] # NULL PROVE L2[a] \in E /\ R2[L2[a]] = a
  <2>1. CASE a = u
    <3>1. L[u] # NULL /\ L2[a] = L[u]
      BY <1>4, <1>13, <2>1, SMTT(30), SMTT(60)
    <3>2. L[u] \in D /\ R[L[u]] = u
      BY <3>1 DEF Adjacent
    <3>3. L[u] # v
      <4>1. SUFFICES ASSUME L[u] = v PROVE FALSE
        OBVIOUS
      <4>2. R[v] = v + S[v]
        BY <1>1, <3>2, <4>1 DEF Adjacent
      <4> QED
        BY <1>1, <1>2, <3>2, <4>1, <4>2, SMTT(30), SMTT(60)
    <3>4. L[u] # u
      BY <1>1, <1>2, <3>2, Zenon
    <3> QED
      BY <1>3, <1>5, <2>1, <3>1, <3>2, <3>3, <3>4, SMTT(30), SMTT(60)
  <2>2. CASE a # u /\ a = R[v]
    <3>1. L2[a] = u
      BY <1>5, <2>2, SMTT(30), SMTT(60)
    <3> QED
      BY <1>3, <1>4, <2>2, <3>1, SMTT(30), SMTT(60)
  <2>3. CASE a # u /\ a # R[v]
    <3>1. L2[a] = L[a] /\ a \in D /\ a # v
      BY <1>3, <1>5, <2>3, SMTT(30), SMTT(60)
    <3>2. L[a] \in D /\ R[L[a]] = a
      BY <1>13, <3>1 DEF Adjacent
    <3>3. L[a] # v /\ L[a] # u
      BY <1>1, <2>3, <3>1, <3>2, Zenon
    <3> QED
      BY <1>3, <1>5, <3>1, <3>2, <3>3, SMTT(30), SMTT(60)
  <2> QED
    BY <2>1, <2>2, <2>3, SMTT(30), SMTT(60)
<1>14. ASSUME NEW a \in E PROVE L2[a] = NULL <=> \E b \in B : a = BlockStart(b)
  <2>1. L[a] = NULL <=> \E b \in B : a = BlockStart(b)
    BY <1>3, SMTT(30), SMTT(60) DEF Adjacent
  <2>2. L2[a] = NULL <=> L[a] = NULL
    <3>1. CASE a = u
      BY <1>4, <3>1, SMTT(30), SMTT(60)
    <3>2. CASE a # u /\ a # R[v]
      BY <1>5, <3>2, SMTT(30), SMTT(60)
    <3>3. CASE a # u /\ a = R[v]
      <4>1. R[v] # NULL
        BY <1>3, <3>3, SMTT(30), SMTT(60)
      <4>2. L[a] = v
        BY <1>1, <3>3, <4>1, SMTT(30), SMTT(60) DEF Adjacent
      <4>3. L2[a] = u
        BY <1>5, <3>3
      <4> QED
        BY <1>1, <4>2, <4>3, SMTT(30), SMTT(60)
    <3> QED
      BY <3>1, <3>2, <3>3, SMTT(30), SMTT(60)
  <2> QED
    BY <2>1, <2>2, SMTT(30), SMTT(60)
<1>15. Adjacent(E, S2, L2, R2, B)
  BY <1>11, <1>12, <1>13, <1>14, SMTT(30), SMTT(60) DEF Adjacent
<1> QED
  BY <1>10, <1>15

(* A piece t is cut in two at n. *)
SplitUp(D, S, L, R, t, n, E, S2, L2, R2) ==
  /\ E = D \union {n}
  /\ S2[t] = n - t /\ L2[t] = L[t] /\ R2[t] = n
  /\ S2[n] = t + S[t] - n /\ L2[n] = t /\ R2[n] = R[t]
  /\ \A a \in D \ {t} : S2[a] = S[a] /\ R2[a] = R[a] /\ L2[a] = IF a = R[t] THEN n ELSE L[a]

(* split_tag keeps the tiling. *)
LEMMA SplitKeeps ==
  ASSUME NEW D \in SUBSET (Nat \ {NULL}), NEW S \in [D -> Nat], NEW L \in [D -> Nat], NEW R \in [D -> Nat], NEW B,
         Spaced(B), Tiles(D, S, B), Adjacent(D, S, L, R, B), NEW t \in D, NEW n \in Nat,
         t + TagSize <= n, n + TagSize <= t + S[t],
         NEW E, NEW S2, NEW L2, NEW R2, SplitUp(D, S, L, R, t, n, E, S2, L2, R2)
  PROVE  Tiles(E, S2, B) /\ Adjacent(E, S2, L2, R2, B)
<1>t. TagSize \in Nat \ {0}
  BY LiballocAssumption, SMTT(30), SMTT(60)
<1>1. S[t] \in Nat /\ t \in Nat \ {0} /\ t < n /\ n < t + S[t] /\ t # NULL /\ n # NULL
  BY <1>t, SMTT(30), SMTT(60) DEF NULL
<1>2. n \notin D /\ n # t
  BY <1>1, NothingInside, SMTT(30), SMTT(60)
<1>3. E = D \union {n} /\ t \in E /\ n \in E /\ E \subseteq Nat
  BY SMTT(30), SMTT(60) DEF SplitUp
<1>4. /\ S2[t] = n - t /\ L2[t] = L[t] /\ R2[t] = n /\ S2[n] = t + S[t] - n /\ L2[n] = t /\ R2[n] = R[t]
      /\ t + S2[t] = n /\ n + S2[n] = t + S[t]
  BY <1>1, SMTT(30), SMTT(60) DEF SplitUp
<1>5. \A a \in E : a # t /\ a # n => a \in D /\ S2[a] = S[a] /\ R2[a] = R[a] /\ L2[a] = IF a = R[t] THEN n ELSE L[a]
  BY <1>3 DEF SplitUp
<1>6. \A a \in E : S2[a] >= TagSize
  <2>1. S2[t] >= TagSize /\ S2[n] >= TagSize
    BY <1>t, <1>1, <1>4, SMTT(30), SMTT(60)
  <2> QED
    BY <1>5, <2>1, Zenon DEF Tiles
<1>7. ASSUME NEW a \in E, NEW c \in E, a < c PROVE a + S2[a] <= c
  <2>0. a \in Nat /\ c \in Nat
    BY <1>3, SMTT(30), SMTT(60)
  <2>1. CASE a = t /\ c = n
    BY <1>4, <2>1, SMTT(30), SMTT(60)
  <2>2. CASE a = t /\ c # n
    <3>1. t + S[t] <= c
      BY <1>3, <1>7, <2>2, SMTT(30), SMTT(60) DEF Tiles
    <3> QED
      BY <1>1, <1>4, <2>0, <2>2, <3>1, SMTT(30), SMTT(60)
  <2>3. CASE a = n
    <3>1. c \in D /\ t < c
      BY <1>1, <1>3, <1>7, <2>0, <2>3, SMTT(30), SMTT(60)
    <3>2. t + S[t] <= c
      BY <3>1 DEF Tiles
    <3> QED
      BY <1>4, <2>3, <3>2, SMTT(30), SMTT(60)
  <2>4. CASE a # t /\ a # n /\ c # n
    <3>1. a + S[a] <= c
      BY <1>3, <1>7, <2>4, SMTT(30), SMTT(60) DEF Tiles
    <3> QED
      BY <1>5, <2>4, <3>1, SMTT(30), SMTT(60)
  <2>5. CASE a # t /\ a # n /\ c = n
    <3>1. a \in D /\ S2[a] = S[a] /\ S[a] \in Nat /\ ~(t < a)
      <4>1. a \in D /\ S2[a] = S[a]
        BY <1>5, <2>5, SMTT(30), SMTT(60)
      <4>2. t < a => t + S[t] <= a
        BY <4>1, SMTT(30), SMTT(60) DEF Tiles
      <4> QED
        BY <1>1, <1>7, <2>0, <2>5, <4>1, <4>2, SMTT(30), SMTT(60)
    <3>2. a < t
      BY <1>1, <2>0, <2>5, <3>1, SMTT(30), SMTT(60)
    <3>3. a + S[a] <= t
      BY <3>1, <3>2, SMTT(30), SMTT(60) DEF Tiles
    <3> QED
      BY <1>1, <2>0, <2>5, <3>1, <3>3, SMTT(30), SMTT(60)
  <2> QED
    BY <2>1, <2>2, <2>3, <2>4, <2>5, SMTT(30), SMTT(60)
<1>8. ASSUME NEW a \in E PROVE \E b \in B : BlockStart(b) <= a /\ a + S2[a] <= BlockEnd(b)
  <2>1. CASE a = t \/ a = n
    <3>1. PICK b \in B : BlockStart(b) <= t /\ t + S[t] <= BlockEnd(b)
      BY SMTT(30), SMTT(60) DEF Tiles
    <3>2. BlockStart(b) \in Nat /\ BlockEnd(b) \in Nat
      BY SMTT(30), SMTT(60) DEF Spaced
    <3>3. BlockStart(b) <= a /\ a + S2[a] <= BlockEnd(b)
      BY <1>1, <1>4, <2>1, <3>1, <3>2, SMTT(30), SMTT(60)
    <3> QED
      BY <3>3, SMTT(30), SMTT(60)
  <2>2. CASE a # t /\ a # n
    <3>1. a \in D /\ S2[a] = S[a]
      BY <1>5, <2>2, SMTT(30), SMTT(60)
    <3> QED
      BY <3>1, SMTT(30), SMTT(60) DEF Tiles
  <2> QED
    BY <2>1, <2>2, SMTT(30), SMTT(60)
<1>9. ASSUME NEW b \in B, NEW x \in BlockStart(b) .. (BlockEnd(b) - 1) PROVE \E a \in E : a <= x /\ x < a + S2[a]
  <2>0. x \in Nat
    BY DEF Spaced
  <2>1. PICK a \in D : a <= x /\ x < a + S[a]
    BY SMTT(30), SMTT(60) DEF Tiles
  <2>2. CASE a = t
    <3>1. (t <= x /\ x < t + S2[t]) \/ (n <= x /\ x < n + S2[n])
      BY <1>1, <1>4, <2>0, <2>1, <2>2, SMTT(30), SMTT(60)
    <3> QED
      BY <1>3, <3>1, SMTT(30), SMTT(60)
  <2>3. CASE a # t
    <3>1. a \in E /\ S2[a] = S[a]
      BY <1>2, <1>3, <1>5, <2>3, SMTT(30), SMTT(60)
    <3> QED
      BY <2>1, <3>1, SMTT(30), SMTT(60)
  <2> QED
    BY <2>2, <2>3, SMTT(30), SMTT(60)
<1>10. Tiles(E, S2, B)
  BY <1>6, <1>7, <1>8, <1>9, SMTT(30), SMTT(60) DEF Tiles
<1>11. ASSUME NEW a \in E, R2[a] # NULL PROVE R2[a] = a + S2[a] /\ R2[a] \in E /\ L2[R2[a]] = a
  <2>1. CASE a = t
    BY <1>3, <1>4, <2>1, SMTT(30), SMTT(60)
  <2>2. CASE a = n
    <3>1. R[t] # NULL
      BY <1>4, <1>11, <2>2, SMTT(30), SMTT(60)
    <3>2. R[t] = t + S[t] /\ R[t] \in D
      BY <3>1, SMTT(30), SMTT(60) DEF Adjacent
    <3>3. R[t] # t /\ R[t] # n /\ R[t] \in E
      BY <1>1, <1>2, <1>3, <3>2, SMTT(30), SMTT(60)
    <3>4. L2[R[t]] = n
      BY <1>5, <3>3, SMTT(30), SMTT(60)
    <3> QED
      BY <1>4, <2>2, <3>2, <3>3, <3>4, SMTT(30), SMTT(60)
  <2>3. CASE a # t /\ a # n
    <3>1. R2[a] = R[a] /\ S2[a] = S[a] /\ a \in D
      BY <1>5, <2>3, SMTT(30), SMTT(60)
    <3>2. R[a] = a + S[a] /\ R[a] \in D /\ L[R[a]] = a
      BY <1>11, <3>1, SMTT(30), SMTT(60) DEF Adjacent
    <3>3. R[a] # n /\ R[a] \in E
      BY <1>2, <1>3, <3>2, SMTT(30), SMTT(60)
    <3>4. R[a] # R[t]
      <4>1. R[a] = R[t] => L[R[t]] = t
        BY <1>11, <3>1 DEF Adjacent
      <4> QED
        BY <2>3, <3>2, <4>1, SMTT(30), SMTT(60)
    <3>5. L2[R[a]] = a
      <4>1. CASE R[a] = t
        BY <1>4, <3>2, <4>1, SMTT(30), SMTT(60)
      <4>2. CASE R[a] # t
        BY <1>5, <3>2, <3>3, <3>4, <4>2, SMTT(30), SMTT(60)
      <4> QED
        BY <4>1, <4>2, SMTT(30), SMTT(60)
    <3> QED
      BY <3>1, <3>2, <3>3, <3>5, SMTT(30), SMTT(60)
  <2> QED
    BY <2>1, <2>2, <2>3, SMTT(30), SMTT(60)
<1>12. ASSUME NEW a \in E, R2[a] = NULL PROVE \E b \in B : a + S2[a] = BlockEnd(b)
  <2>1. CASE a = t
    BY <1>1, <1>4, <1>12, <2>1, SMTT(30), SMTT(60)
  <2>2. CASE a = n
    <3>1. \E b \in B : t + S[t] = BlockEnd(b)
      BY <1>4, <1>12, <2>2, SMTT(30), SMTT(60) DEF Adjacent
    <3> QED
      BY <1>4, <2>2, <3>1, SMTT(30), SMTT(60)
  <2>3. CASE a # t /\ a # n
    <3>1. R[a] = NULL /\ S2[a] = S[a] /\ a \in D
      BY <1>5, <1>12, <2>3, SMTT(30), SMTT(60)
    <3> QED
      BY <3>1 DEF Adjacent
  <2> QED
    BY <2>1, <2>2, <2>3, SMTT(30), SMTT(60)
<1>13. ASSUME NEW a \in E, L2[a] # NULL PROVE L2[a] \in E /\ R2[L2[a]] = a
  <2>1. CASE a = t
    <3>1. L[t] # NULL /\ L2[a] = L[t]
      BY <1>4, <1>13, <2>1, SMTT(30), SMTT(60)
    <3>2. L[t] \in D /\ R[L[t]] = t
      BY <3>1 DEF Adjacent
    <3>3. L[t] # t
      <4>1. SUFFICES ASSUME L[t] = t PROVE FALSE
        OBVIOUS
      <4>2. R[t] = t
        BY <3>2, <4>1, SMTT(30), SMTT(60)
      <4>3. R[t] = t + S[t]
        BY <1>1, <4>2, SMTT(30), SMTT(60) DEF Adjacent
      <4> QED
        BY <1>1, <4>2, <4>3, SMTT(30), SMTT(60)
    <3>4. L[t] # n /\ L[t] \in E
      BY <1>2, <1>3, <3>2, SMTT(30), SMTT(60)
    <3> QED
      BY <1>5, <2>1, <3>1, <3>2, <3>3, <3>4, SMTT(30), SMTT(60)
  <2>2. CASE a = n
    BY <1>3, <1>4, <2>2, SMTT(30), SMTT(60)
  <2>3. CASE a # t /\ a # n /\ a = R[t]
    <3>1. L2[a] = n /\ a \in D
      BY <1>5, <2>3, SMTT(30), SMTT(60)
    <3> QED
      BY <1>3, <1>4, <2>3, <3>1, SMTT(30), SMTT(60)
  <2>4. CASE a # t /\ a # n /\ a # R[t]
    <3>1. L2[a] = L[a] /\ a \in D
      BY <1>5, <2>4, SMTT(30), SMTT(60)
    <3>2. L[a] \in D /\ R[L[a]] = a
      BY <1>13, <3>1, SMTT(30), SMTT(60) DEF Adjacent
    <3>3. L[a] # t /\ L[a] # n /\ L[a] \in E
      BY <1>2, <1>3, <2>4, <3>2, SMTT(30), SMTT(60)
    <3> QED
      BY <1>5, <3>1, <3>2, <3>3, SMTT(30), SMTT(60)
  <2> QED
    BY <2>1, <2>2, <2>3, <2>4, SMTT(30), SMTT(60)
<1>14. ASSUME NEW a \in E PROVE L2[a] = NULL <=> \E b \in B : a = BlockStart(b)
  <2>1. CASE a = n
    <3>1. L2[a] # NULL
      BY <1>1, <1>4, <2>1, SMTT(30), SMTT(60)
    <3>2. ASSUME NEW b \in B, n = BlockStart(b) PROVE FALSE
      <4>1. PICK c \in B : BlockStart(c) <= t /\ t + S[t] <= BlockEnd(c)
        BY SMTT(30), SMTT(60) DEF Tiles
      <4>2. /\ BlockStart(b) \in Nat /\ BlockEnd(b) \in Nat /\ BlockStart(b) < BlockEnd(b)
            /\ BlockStart(c) \in Nat /\ BlockEnd(c) \in Nat
        BY SMTT(30), SMTT(60) DEF Spaced
      <4>3. BlockStart(c) <= n /\ n < BlockEnd(c) /\ BlockStart(b) <= n /\ n < BlockEnd(b)
        BY <1>1, <3>2, <4>1, <4>2, SMTT(30), SMTT(60)
      <4>4. b = c
        BY <4>3, OneBlock, SMTT(30), SMTT(60)
      <4> QED
        BY <1>1, <3>2, <4>1, <4>2, <4>4, SMTT(30), SMTT(60)
    <3> QED
      BY <2>1, <3>1, <3>2, SMTT(30), SMTT(60)
  <2>2. CASE a # n
    <3>1. a \in D
      BY <1>3, <2>2, SMTT(30), SMTT(60)
    <3>2. L[a] = NULL <=> \E b \in B : a = BlockStart(b)
      BY <3>1, SMTT(30), SMTT(60) DEF Adjacent
    <3>3. L2[a] = NULL <=> L[a] = NULL
      <4>1. CASE a = t
        BY <1>4, <4>1, SMTT(30), SMTT(60)
      <4>2. CASE a # t /\ a # R[t]
        BY <1>5, <2>2, <4>2, SMTT(30), SMTT(60)
      <4>3. CASE a # t /\ a = R[t]
        <5>1. R[t] # NULL
          BY <3>1, <4>3, SMTT(30), SMTT(60)
        <5>2. L[a] = t
          BY <4>3, <5>1, SMTT(30), SMTT(60) DEF Adjacent
        <5>3. L2[a] = n
          BY <1>5, <2>2, <4>3, SMTT(30), SMTT(60)
        <5> QED
          BY <1>1, <5>2, <5>3, SMTT(30), SMTT(60)
      <4> QED
        BY <4>1, <4>2, <4>3, SMTT(30), SMTT(60)
    <3> QED
      BY <3>2, <3>3
  <2> QED
    BY <2>1, <2>2, SMTT(30), SMTT(60)
<1>15. Adjacent(E, S2, L2, R2, B)
  BY <1>11, <1>12, <1>13, <1>14, SMTT(30), SMTT(60) DEF Adjacent
<1> QED
  BY <1>10, <1>15, SMTT(30), SMTT(60)

(* allocate_new_tag: one piece in a new block. *)
Added(D, S, L, R, t, size, E, S2, L2, R2) ==
  /\ E = D \union {t}
  /\ S2[t] = size /\ L2[t] = NULL /\ R2[t] = NULL
  /\ \A a \in D \ {t} : S2[a] = S[a] /\ R2[a] = R[a] /\ L2[a] = L[a]

(* A new block with one tag over all of it keeps the tags a tiling and      *)
(* their neighbours right.                                                  *)
LEMMA AddKeeps ==
  ASSUME NEW D \in SUBSET (Nat \ {NULL}), NEW S \in [D -> Nat], NEW L \in [D -> Nat], NEW R \in [D -> Nat],
         NEW B, NEW C, NEW k, C = B \union {k}, Spaced(C), k \notin B,
         Tiles(D, S, B), Adjacent(D, S, L, R, B), NEW t, t = BlockStart(k),
         BlockStart(k) + TagSize <= BlockEnd(k),
         NEW E, NEW S2, NEW L2, NEW R2, Added(D, S, L, R, t, BlockEnd(k) - BlockStart(k), E, S2, L2, R2)
  PROVE  t \notin D /\ Tiles(E, S2, C) /\ Adjacent(E, S2, L2, R2, C)
<1>t. TagSize \in Nat \ {0}
  BY LiballocAssumption, SMTT(30), SMTT(60)
<1>1. t \in Nat \ {0} /\ t < BlockEnd(k) /\ BlockEnd(k) \in Nat /\ k \in C /\ B \subseteq C
  BY SMTT(30), SMTT(60) DEF Spaced
<1>2. \A b \in B : BlockStart(b) \in Nat /\ BlockEnd(b) \in Nat /\ (BlockEnd(b) <= t \/ BlockEnd(k) <= BlockStart(b))
  BY <1>1, SMTT(30), SMTT(60) DEF Spaced
<1>3. ASSUME NEW a \in D PROVE a + S[a] <= t \/ BlockEnd(k) <= a
  <2>1. PICK b \in B : BlockStart(b) <= a /\ a + S[a] <= BlockEnd(b)
    BY SMTT(30), SMTT(60) DEF Tiles
  <2> QED
    BY <1>1, <1>2, <2>1, SMTT(30), SMTT(60)
<1>4. t \notin D
  <2>1. t \in D => S[t] >= TagSize /\ S[t] \in Nat
    BY SMTT(30), SMTT(60) DEF Tiles
  <2> QED
    BY <1>t, <1>1, <1>3, <2>1, SMTT(30), SMTT(60)
<1>5. E = D \union {t} /\ t \in E /\ t # NULL
  BY <1>1, SMTT(30), SMTT(60) DEF Added, NULL
<1>6. S2[t] = BlockEnd(k) - t /\ L2[t] = NULL /\ R2[t] = NULL /\ t + S2[t] = BlockEnd(k)
  BY <1>1, SMTT(30), SMTT(60) DEF Added
<1>7. \A a \in E : a # t => a \in D /\ S2[a] = S[a] /\ R2[a] = R[a] /\ L2[a] = L[a]
  BY <1>5 DEF Added
<1>8. \A a \in E : S2[a] >= TagSize
  <2>1. S2[t] >= TagSize
    BY <1>t, <1>1, <1>6, SMTT(30), SMTT(60)
  <2> QED
    BY <1>7, <2>1, Zenon DEF Tiles
<1>9. ASSUME NEW a \in E, NEW c \in E, a < c PROVE a + S2[a] <= c
  <2>1. CASE a = t
    <3>1. c \in D /\ c # t /\ c \in Nat /\ S[c] \in Nat
      BY <1>1, <1>5, <1>9, <2>1, SMTT(30), SMTT(60)
    <3> QED
      BY <1>1, <1>3, <1>6, <1>9, <2>1, <3>1, SMTT(30), SMTT(60)
  <2>2. CASE a # t /\ c = t
    <3>1. a \in D /\ S2[a] = S[a] /\ a \in Nat
      BY <1>7, <2>2, Zenon
    <3> QED
      BY <1>1, <1>3, <1>9, <2>2, <3>1
  <2>3. CASE a # t /\ c # t
    <3>1. a \in D /\ c \in D /\ S2[a] = S[a]
      BY <1>7, <2>3, SMTT(30), SMTT(60)
    <3> QED
      BY <1>9, <3>1, SMTT(30), SMTT(60) DEF Tiles
  <2> QED
    BY <2>1, <2>2, <2>3, SMTT(30), SMTT(60)
<1>10. ASSUME NEW a \in E PROVE \E b \in C : BlockStart(b) <= a /\ a + S2[a] <= BlockEnd(b)
  <2>1. CASE a = t
    <3>1. BlockStart(k) <= a /\ a + S2[a] <= BlockEnd(k)
      BY <1>1, <1>6, <2>1, SMTT(30), SMTT(60)
    <3> QED
      BY <1>1, <3>1, SMTT(30), SMTT(60)
  <2>2. CASE a # t
    <3>1. a \in D /\ S2[a] = S[a]
      BY <1>7, <2>2, SMTT(30), SMTT(60)
    <3>2. PICK b \in B : BlockStart(b) <= a /\ a + S[a] <= BlockEnd(b)
      BY <3>1, SMTT(30), SMTT(60) DEF Tiles
    <3> QED
      BY <1>1, <3>1, <3>2, SMTT(30), SMTT(60)
  <2> QED
    BY <2>1, <2>2, SMTT(30), SMTT(60)
<1>11. ASSUME NEW b \in C, NEW x \in BlockStart(b) .. (BlockEnd(b) - 1) PROVE \E a \in E : a <= x /\ x < a + S2[a]
  <2>1. CASE b = k
    <3>1. t <= x /\ x < t + S2[t]
      BY <1>1, <1>6, <2>1, SMTT(30), SMTT(60)
    <3> QED
      BY <1>5, <3>1, SMTT(30), SMTT(60)
  <2>2. CASE b # k
    <3>1. b \in B
      BY <2>2, SMTT(30), SMTT(60)
    <3>2. PICK a \in D : a <= x /\ x < a + S[a]
      BY <3>1, SMTT(30), SMTT(60) DEF Tiles
    <3>3. a \in E /\ S2[a] = S[a]
      BY <1>4, <1>5, <1>7, SMTT(30), SMTT(60)
    <3> QED
      BY <3>2, <3>3
  <2> QED
    BY <2>1, <2>2, SMTT(30), SMTT(60)
<1>12. Tiles(E, S2, C)
  BY <1>8, <1>9, <1>10, <1>11, SMTT(30), SMTT(60) DEF Tiles
<1>13. ASSUME NEW a \in E
       PROVE  /\ R2[a] # NULL => R2[a] = a + S2[a] /\ R2[a] \in E /\ L2[R2[a]] = a
              /\ R2[a] = NULL => \E b \in C : a + S2[a] = BlockEnd(b)
              /\ L2[a] # NULL => L2[a] \in E /\ R2[L2[a]] = a
              /\ L2[a] = NULL <=> \E b \in C : a = BlockStart(b)
  <2>1. CASE a = t
    BY <1>1, <1>6, <2>1, SMTT(30), SMTT(60)
  <2>2. CASE a # t
    <3>1. a \in D /\ S2[a] = S[a] /\ R2[a] = R[a] /\ L2[a] = L[a]
      BY <1>7, <2>2, SMTT(30), SMTT(60)
    <3>2. R[a] # NULL => R[a] = a + S[a] /\ R[a] \in D /\ L[R[a]] = a
      BY <3>1, SMTT(30), SMTT(60) DEF Adjacent
    <3>3. R2[a] # NULL => R2[a] = a + S2[a] /\ R2[a] \in E /\ L2[R2[a]] = a
      BY <1>4, <1>5, <1>7, <3>1, <3>2, SMTT(30), SMTT(60)
    <3>4. R[a] = NULL => \E b \in B : a + S[a] = BlockEnd(b)
      BY <3>1, SMTT(30), SMTT(60) DEF Adjacent
    <3>5. R2[a] = NULL => \E b \in C : a + S2[a] = BlockEnd(b)
      BY <1>1, <3>1, <3>4, SMTT(30), SMTT(60)
    <3>6. L[a] # NULL => L[a] \in D /\ R[L[a]] = a
      BY <3>1, SMTT(30), SMTT(60) DEF Adjacent
    <3>7. L2[a] # NULL => L2[a] \in E /\ R2[L2[a]] = a
      BY <1>4, <1>5, <1>7, <3>1, <3>6, SMTT(30), SMTT(60)
    <3>8. L[a] = NULL <=> \E b \in B : a = BlockStart(b)
      BY <3>1, SMTT(30), SMTT(60) DEF Adjacent
    <3>9. L2[a] = NULL <=> \E b \in C : a = BlockStart(b)
      BY <2>2, <3>1, <3>8, SMTT(30), SMTT(60)
    <3> QED
      BY <3>3, <3>5, <3>7, <3>9, SMTT(30), SMTT(60)
  <2> QED
    BY <2>1, <2>2, SMTT(30), SMTT(60)
<1>14. Adjacent(E, S2, L2, R2, C)
  BY <1>13 DEF Adjacent
<1> QED
  BY <1>4, <1>12, <1>14, SMTT(30), SMTT(60)

(* A piece without neighbours is its block. *)
LEMMA WholeIsBlock ==
  ASSUME NEW D \in SUBSET (Nat \ {NULL}), NEW S \in [D -> Nat], NEW L, NEW R, NEW B,
         Spaced(B), Tiles(D, S, B), Adjacent(D, S, L, R, B), NEW t \in D, L[t] = NULL, R[t] = NULL
  PROVE  \E b \in B : t = BlockStart(b) /\ t + S[t] = BlockEnd(b)
<1>t. TagSize \in Nat \ {0}
  BY LiballocAssumption
<1>1. S[t] >= TagSize /\ S[t] \in Nat /\ t \in Nat
  BY DEF Tiles
<1>2. PICK b \in B : BlockStart(b) <= t /\ t + S[t] <= BlockEnd(b)
  BY DEF Tiles
<1>3. PICK c \in B : t = BlockStart(c)
  BY DEF Adjacent
<1>4. PICK d \in B : t + S[t] = BlockEnd(d)
  BY DEF Adjacent
<1>5. \A e \in B : BlockStart(e) \in Nat /\ BlockEnd(e) \in Nat /\ BlockStart(e) < BlockEnd(e)
  BY DEF Spaced
<1>6. BlockStart(b) <= t /\ t < BlockEnd(b) /\ BlockStart(c) <= t /\ t < BlockEnd(c)
  BY <1>t, <1>1, <1>2, <1>3, <1>5, SMTT(30), SMTT(60)
<1>7. b = c
  BY <1>1, <1>6, OneBlock, SMTT(30), SMTT(60)
<1> DEFINE x == t + S[t] - 1
<1>8. x \in Nat /\ BlockStart(b) <= x /\ x < BlockEnd(b) /\ BlockStart(d) <= x /\ x < BlockEnd(d)
  BY <1>t, <1>1, <1>2, <1>4, <1>5, SMTT(30), SMTT(60)
<1> HIDE DEF x
<1>9. b = d
  BY <1>8, OneBlock, SMTT(30), SMTT(60)
<1> QED
  BY <1>3, <1>4, <1>7, <1>9, SMTT(30), SMTT(60)

(* S2, L2 and R2 on E are S, L and R on D without t. *)
WithoutTag(D, S, L, R, t, E, S2, L2, R2) ==
  /\ E = D \ {t}
  /\ \A a \in E : S2[a] = S[a] /\ L2[a] = L[a] /\ R2[a] = R[a]

(* liballoc_free of a whole block. *)
LEMMA DropKeeps ==
  ASSUME NEW D \in SUBSET (Nat \ {NULL}), NEW S \in [D -> Nat], NEW L \in [D -> Nat], NEW R \in [D -> Nat],
         NEW B, Spaced(B), Tiles(D, S, B), Adjacent(D, S, L, R, B), NEW t \in D,
         L[t] = NULL, R[t] = NULL,
         NEW k \in B, t = BlockStart(k), t + S[t] = BlockEnd(k),
         NEW E, NEW S2, NEW L2, NEW R2, WithoutTag(D, S, L, R, t, E, S2, L2, R2)
  PROVE  Tiles(E, S2, B \ {k}) /\ Adjacent(E, S2, L2, R2, B \ {k})
<1>0. E = D \ {t} /\ \A a \in E : S2[a] = S[a] /\ L2[a] = L[a] /\ R2[a] = R[a]
  BY SMTT(30), SMTT(60) DEF WithoutTag
<1> USE <1>0
<1>t. TagSize \in Nat \ {0}
  BY LiballocAssumption, SMTT(30), SMTT(60)
<1> DEFINE C == B \ {k}
<1>1. S[t] >= TagSize /\ S[t] \in Nat /\ t \in Nat \ {0} /\ t < BlockEnd(k) /\ BlockEnd(k) \in Nat
  BY <1>t, SMTT(30), SMTT(60) DEF Tiles, NULL
<1>2. \A b \in B : BlockStart(b) \in Nat /\ BlockEnd(b) \in Nat /\ BlockStart(b) < BlockEnd(b)
  BY SMTT(30), SMTT(60) DEF Spaced
<1>3. \A b \in C : BlockEnd(b) <= t \/ BlockEnd(k) <= BlockStart(b)
  BY SMTT(30), SMTT(60) DEF Spaced
<1>4. ASSUME NEW a \in E, NEW b \in B, BlockStart(b) <= a, a + S[a] <= BlockEnd(b) PROVE b \in C
  <2>1. SUFFICES ASSUME b = k PROVE FALSE
    BY SMTT(30), SMTT(60)
  <2>2. a \in D /\ a \in Nat /\ a # t /\ S[a] \in Nat /\ S[a] >= TagSize
    BY SMTT(30), SMTT(60) DEF Tiles
  <2>3. t < a
    BY <1>1, <1>4, <2>1, <2>2, SMTT(30), SMTT(60)
  <2>4. t + S[t] <= a
    BY <2>2, <2>3, SMTT(30), SMTT(60) DEF Tiles
  <2> QED
    BY <1>t, <1>1, <1>4, <2>1, <2>2, <2>4, SMTT(30), SMTT(60)
<1>5. \A a \in E : S2[a] >= TagSize
  BY SMTT(30), SMTT(60) DEF Tiles
<1>6. \A a, c \in E : a < c => a + S2[a] <= c
  BY SMTT(30), SMTT(60) DEF Tiles
<1>7. ASSUME NEW a \in E PROVE \E b \in C : BlockStart(b) <= a /\ a + S2[a] <= BlockEnd(b)
  <2>1. PICK b \in B : BlockStart(b) <= a /\ a + S[a] <= BlockEnd(b)
    BY SMTT(30), SMTT(60) DEF Tiles
  <2>2. b \in C
    BY <1>4, <2>1, SMTT(30), SMTT(60)
  <2> QED
    BY <2>1, <2>2, SMTT(30), SMTT(60)
<1>8. ASSUME NEW b \in C, NEW x \in BlockStart(b) .. (BlockEnd(b) - 1) PROVE \E a \in E : a <= x /\ x < a + S2[a]
  <2>1. PICK a \in D : a <= x /\ x < a + S[a]
    BY SMTT(30), SMTT(60) DEF Tiles
  <2>2. x \in Nat
    BY <1>2, SMTT(30), SMTT(60)
  <2>3. a # t
    BY <1>1, <1>2, <1>3, <2>1, <2>2, SMTT(30), SMTT(60)
  <2> QED
    BY <2>1, <2>3, SMTT(30), SMTT(60)
<1>9. Tiles(E, S2, C)
  BY <1>5, <1>6, <1>7, <1>8, SMTT(30), SMTT(60) DEF Tiles
<1>10. ASSUME NEW a \in E
       PROVE  /\ R2[a] # NULL => R2[a] = a + S2[a] /\ R2[a] \in E /\ L2[R2[a]] = a
              /\ R2[a] = NULL => \E b \in C : a + S2[a] = BlockEnd(b)
              /\ L2[a] # NULL => L2[a] \in E /\ R2[L2[a]] = a
              /\ L2[a] = NULL <=> \E b \in C : a = BlockStart(b)
  <2>1. a \in D /\ a # t /\ S2[a] = S[a] /\ R2[a] = R[a] /\ L2[a] = L[a] /\ a # NULL /\ a \in Nat
    BY SMTT(30), SMTT(60)
  <2>2. R[a] # NULL => R[a] = a + S[a] /\ R[a] \in D /\ L[R[a]] = a
    BY <2>1, SMTT(30), SMTT(60) DEF Adjacent
  <2>3. R2[a] # NULL => R2[a] = a + S2[a] /\ R2[a] \in E /\ L2[R2[a]] = a
    <3>1. R[a] # NULL => R[a] # t
      BY <2>1, <2>2, SMTT(30), SMTT(60)
    <3> QED
      BY <2>1, <2>2, <3>1, SMTT(30), SMTT(60)
  <2>4. R[a] = NULL => \E b \in C : a + S[a] = BlockEnd(b)
    <3>1. SUFFICES ASSUME R[a] = NULL PROVE \E b \in C : a + S[a] = BlockEnd(b)
      BY SMTT(30), SMTT(60)
    <3>2. PICK b \in B : a + S[a] = BlockEnd(b)
      BY <2>1, <3>1, SMTT(30), SMTT(60) DEF Adjacent
    <3>3. b # k
      <4>1. SUFFICES ASSUME b = k PROVE FALSE
        BY SMTT(30), SMTT(60)
      <4>2. S[a] >= TagSize /\ S[a] \in Nat
        BY <2>1, SMTT(30), SMTT(60) DEF Tiles
      <4>3. (a < t => a + S[a] <= t) /\ (t < a => t + S[t] <= a)
        BY <2>1, SMTT(30), SMTT(60) DEF Tiles
      <4> QED
        BY <1>t, <1>1, <2>1, <3>2, <4>1, <4>2, <4>3, SMTT(30), SMTT(60)
    <3> QED
      BY <3>2, <3>3, SMTT(30), SMTT(60)
  <2>5. L[a] # NULL => L[a] \in D /\ R[L[a]] = a
    BY <2>1, SMTT(30), SMTT(60) DEF Adjacent
  <2>6. L2[a] # NULL => L2[a] \in E /\ R2[L2[a]] = a
    <3>1. L[a] # NULL => L[a] # t
      BY <2>1, <2>5, SMTT(30), SMTT(60)
    <3> QED
      BY <2>1, <2>5, <3>1, SMTT(30), SMTT(60)
  <2>7. L[a] = NULL <=> \E b \in B : a = BlockStart(b)
    BY <2>1, SMTT(30), SMTT(60) DEF Adjacent
  <2>8. L2[a] = NULL <=> \E b \in C : a = BlockStart(b)
    BY <2>1, <2>7, SMTT(30), SMTT(60)
  <2> QED
    BY <2>1, <2>3, <2>4, <2>6, <2>8, SMTT(30), SMTT(60)
<1>11. Adjacent(E, S2, L2, R2, C)
  BY <1>10 DEF Adjacent
<1> QED
  BY <1>9, <1>11, SMTT(30), SMTT(60)

-----------------------------------------------------------------------------
(* remove_tag, field by field. *)
LinksCleared(D, U, T, t) ==
  /\ U \in [D -> boundary_tag]
  /\ \A a \in D : SameSize(U, T, a) /\ SameSplit(U, T, a)
  /\ \A a \in D : a # t => U[a] = T[a]
  /\ U[t].index = NoIndex /\ U[t].next = NULL /\ U[t].prev = NULL

(* Clearing the links of a tag. *)
LEMMA ClearLinks ==
  ASSUME NEW D, NEW T \in [D -> boundary_tag], NEW t \in D
  PROVE  LinksCleared(D, [T EXCEPT ![t].next = NULL, ![t].prev = NULL, ![t].index = NoIndex], T, t)
BY ZenonT(60) DEF boundary_tag, SameSize, SameSplit, NULL, LinksCleared

(* Changes to the links only, one after the other. *)
LEMMA SameThrough ==
  ASSUME NEW T, NEW U, NEW V, NEW a,
         SameSize(U, T, a), SameSplit(U, T, a), SameSize(V, U, a), SameSplit(V, U, a)
  PROVE  SameSize(V, T, a) /\ SameSplit(V, T, a)
BY Zenon DEF SameSize, SameSplit

(* U is T after remove_tag(w). *)
TagRemoved(D, U, T, w) ==
  /\ U \in [D -> boundary_tag]
  /\ \A a \in D : SameSize(U, T, a) /\ SameSplit(U, T, a)
  /\ \A a \in D \ {w} :
       /\ U[a].index = T[a].index
       /\ U[a].next = IF a = T[w].prev THEN T[w].next ELSE T[a].next
       /\ U[a].prev = IF a = T[w].next THEN T[w].prev ELSE T[a].prev
  /\ U[w].index = NoIndex /\ U[w].next = NULL /\ U[w].prev = NULL

(* remove_tag changes the links of the tag and of its neighbours, and       *)
(* nothing else.                                                            *)
LEMMA UnlinkFields ==
  ASSUME NEW D, NULL \notin D, NEW T \in [D -> boundary_tag], NEW w \in D,
         T[w].prev # NULL => T[w].prev \in D \ {w}, T[w].next # NULL => T[w].next \in D \ {w}
  PROVE  TagRemoved(D, Unlinked(T, w), T, w)
<1> DEFINE U == Unlinked(T, w)
           p == T[w].prev
           n == T[w].next
           A == IF p = NULL THEN T ELSE [T EXCEPT ![p].next = n]
           V == IF n = NULL THEN A ELSE [A EXCEPT ![n].prev = p]
<1>1. U = [V EXCEPT ![w].next = NULL, ![w].prev = NULL, ![w].index = NoIndex]
  BY DEF Unlinked
<1>2. p \in Nat /\ n \in Nat
  BY DEF boundary_tag
<1>3. NextSet(D, A, T, p, n)
  <2>1. CASE p = NULL
    <3>1. A = T
      BY <2>1, SMTT(30), SMTT(60)
    <3>2. \A a \in D : a # p
      BY <2>1
    <3> HIDE DEF A, p, n
    <3> QED
      BY <3>1, <3>2, Zenon DEF SameSize, SameSplit, NextSet
  <2>2. CASE p # NULL
    <3>1. A = [T EXCEPT ![p].next = n] /\ p \in D
      BY <2>2, SMTT(30), SMTT(60)
    <3> HIDE DEF A, p, n
    <3> QED
      BY <1>2, <3>1, SetNext, Zenon
  <2> QED
    BY <2>1, <2>2
<1> HIDE DEF A
<1>a. A \in [D -> boundary_tag]
  BY <1>3 DEF NextSet
<1>4. PrevSet(D, V, A, n, p)
  <2>1. CASE n = NULL
    <3>1. V = A
      BY <2>1, SMTT(30), SMTT(60)
    <3>2. \A a \in D : a # n
      BY <2>1
    <3> HIDE DEF V, p, n
    <3> QED
      BY <1>a, <3>1, <3>2, Zenon DEF SameSize, SameSplit, PrevSet
  <2>2. CASE n # NULL
    <3>1. V = [A EXCEPT ![n].prev = p] /\ n \in D
      BY <2>2, SMTT(30), SMTT(60)
    <3> HIDE DEF V, p, n
    <3> QED
      BY <1>2, <1>a, <3>1, SetPrev, Zenon
  <2> QED
    BY <2>1, <2>2
<1> HIDE DEF V
<1>b. V \in [D -> boundary_tag]
  BY <1>4 DEF PrevSet
<1> HIDE DEF U
<1>c. LinksCleared(D, [V EXCEPT ![w].next = NULL, ![w].prev = NULL, ![w].index = NoIndex], V, w)
  BY <1>b, ClearLinks, Zenon
<1>5. LinksCleared(D, U, V, w)
  BY <1>1, <1>c, ZenonT(60)
<1>6. ASSUME NEW a \in D PROVE SameSize(U, T, a) /\ SameSplit(U, T, a)
  <2>1. SameSize(A, T, a) /\ SameSplit(A, T, a) /\ SameSize(V, A, a) /\ SameSplit(V, A, a) /\ SameSize(U, V, a) /\ SameSplit(U, V, a)
    BY <1>3, <1>4, <1>5, ZenonT(60) DEF NextSet, PrevSet, LinksCleared
  <2>2. SameSize(V, T, a) /\ SameSplit(V, T, a)
    BY <2>1, SameThrough
  <2> QED
    BY <2>1, <2>2, SameThrough, SMTT(30), SMTT(60)
<1>7. ASSUME NEW a \in D \ {w}
      PROVE  /\ U[a].index = T[a].index
             /\ U[a].next = IF a = p THEN n ELSE T[a].next
             /\ U[a].prev = IF a = n THEN p ELSE T[a].prev
  <2>1. a \in D /\ a # w
    OBVIOUS
  <2>2. U[a] = V[a]
    BY <1>5, <2>1, Zenon DEF LinksCleared
  <2> HIDE DEF p, n
  <2>3. V[a].index = A[a].index /\ V[a].next = A[a].next /\ V[a].prev = IF a = n THEN p ELSE A[a].prev
    BY <1>4, <2>1, Zenon DEF PrevSet
  <2>4. A[a].index = T[a].index /\ A[a].prev = T[a].prev /\ A[a].next = IF a = p THEN n ELSE T[a].next
    BY <1>3, <2>1, Zenon DEF NextSet
  <2> QED
    BY <2>2, <2>3, <2>4, Zenon
<1>8. U \in [D -> boundary_tag] /\ U[w].index = NoIndex /\ U[w].next = NULL /\ U[w].prev = NULL
  BY <1>5, Zenon DEF LinksCleared
<1> QED
  BY <1>6, <1>7, <1>8, Zenon DEF TagRemoved, U

(* U is T after insert_tag(w, i), h being the first tag of the list. *)
TagInserted(D, U, T, w, i, h) ==
  /\ U \in [D -> boundary_tag]
  /\ \A a \in D : SameSize(U, T, a) /\ SameSplit(U, T, a)
  /\ \A a \in D \ {w} :
       /\ U[a].index = T[a].index /\ U[a].next = T[a].next
       /\ U[a].prev = IF a = h THEN w ELSE T[a].prev
  /\ U[w].index = i /\ U[w].next = h /\ U[w].prev = T[w].prev

(* insert_tag changes the links of the tag and of the old head, and nothing *)
(* else.                                                                    *)
LEMMA InsertFields ==
  ASSUME NEW D \in SUBSET (Nat \ {NULL}), NEW T \in [D -> boundary_tag], NEW w \in D, NEW i \in Indices,
         l_freePages \in [Indices -> Nat], l_freePages[i] # NULL => l_freePages[i] \in D \ {w}, T[w].next = NULL
  PROVE  TagInserted(D, Inserted(T, w, i), T, w, i, l_freePages[i])
<1> DEFINE U == Inserted(T, w, i)
           h == l_freePages[i]
           A == IF h = NULL THEN T ELSE [T EXCEPT ![h].prev = w]
           V == IF h = NULL THEN A ELSE [A EXCEPT ![w].next = h]
<1>0. h \in Nat /\ w \in Nat /\ NULL \notin D
  BY Zenon
<1>1. U = [V EXCEPT ![w].index = i]
  BY DEF Inserted
<1>2. PrevSet(D, A, T, h, w)
  <2>1. CASE h = NULL
    <3>1. A = T
      BY <2>1, SMTT(30), SMTT(60)
    <3>2. \A a \in D : a # h
      BY <1>0, <2>1
    <3> HIDE DEF A, h
    <3> QED
      BY <3>1, <3>2, Zenon DEF SameSize, SameSplit, PrevSet
  <2>2. CASE h # NULL
    <3>1. A = [T EXCEPT ![h].prev = w] /\ h \in D
      BY <2>2
    <3> HIDE DEF A, h
    <3> QED
      BY <1>0, <3>1, SetPrev, Zenon
  <2> QED
    BY <2>1, <2>2
<1> HIDE DEF A
<1>a. A \in [D -> boundary_tag] /\ A[w].next = NULL
  BY <1>2, Zenon DEF PrevSet
<1>3. NextSet(D, V, A, w, h)
  <2>1. CASE h = NULL
    <3>1. V = A /\ A[w].next = h
      BY <1>a, <2>1
    <3> HIDE DEF V, h
    <3> QED
      BY <1>a, <3>1, Zenon DEF SameSize, SameSplit, NextSet
  <2>2. CASE h # NULL
    <3>1. V = [A EXCEPT ![w].next = h]
      BY <2>2, SMTT(30), SMTT(60)
    <3> HIDE DEF V, h
    <3> QED
      BY <1>0, <1>a, <3>1, SetNext, Zenon
  <2> QED
    BY <2>1, <2>2
<1> HIDE DEF V
<1>b. V \in [D -> boundary_tag]
  BY <1>3 DEF NextSet
<1> HIDE DEF U
<1>c. IndexSet(D, [V EXCEPT ![w].index = i], V, w, i)
  BY <1>b, SetIndex, Zenon
<1>4. IndexSet(D, U, V, w, i)
  BY <1>1, <1>c, ZenonT(60)
<1>5. ASSUME NEW a \in D PROVE SameSize(U, T, a) /\ SameSplit(U, T, a)
  <2>1. SameSize(A, T, a) /\ SameSplit(A, T, a) /\ SameSize(V, A, a) /\ SameSplit(V, A, a) /\ SameSize(U, V, a) /\ SameSplit(U, V, a)
    BY <1>2, <1>3, <1>4, ZenonT(60) DEF NextSet, PrevSet, IndexSet
  <2>2. SameSize(V, T, a) /\ SameSplit(V, T, a)
    BY <2>1, SameThrough
  <2> QED
    BY <2>1, <2>2, SameThrough
<1>6. ASSUME NEW a \in D
      PROVE  /\ U[a].index = IF a = w THEN i ELSE T[a].index
             /\ U[a].next = IF a = w THEN h ELSE T[a].next
             /\ U[a].prev = IF a = h THEN w ELSE T[a].prev
  <2> HIDE DEF h
  <2>1. U[a].next = V[a].next /\ U[a].prev = V[a].prev /\ U[a].index = IF a = w THEN i ELSE V[a].index
    BY <1>4, Zenon DEF IndexSet
  <2>2. V[a].index = A[a].index /\ V[a].prev = A[a].prev /\ V[a].next = IF a = w THEN h ELSE A[a].next
    BY <1>3, Zenon DEF NextSet
  <2>3. A[a].index = T[a].index /\ A[a].next = T[a].next /\ A[a].prev = IF a = h THEN w ELSE T[a].prev
    BY <1>2, Zenon DEF PrevSet
  <2> QED
    BY <2>1, <2>2, <2>3, Zenon
<1>7. w # h
  OBVIOUS
<1>8. U \in [D -> boundary_tag]
  BY <1>4, Zenon DEF IndexSet
<1> HIDE DEF h
<1>9. TagInserted(D, U, T, w, i, h)
  <2>1. \A a \in D \ {w} : U[a].index = T[a].index /\ U[a].next = T[a].next /\ U[a].prev = IF a = h THEN w ELSE T[a].prev
    BY <1>6, Zenon
  <2>2. U[w].index = i /\ U[w].next = h /\ U[w].prev = T[w].prev
    BY <1>6, <1>7, Zenon
  <2> QED
    BY <1>5, <1>8, <2>1, <2>2, Zenon DEF TagInserted
<1> QED
  BY <1>9 DEF U, h

(* U is T once v has become part of u, its left neighbour, and w was        *)
(* removed from its list.                                                   *)
TagsJoined(D, U, T, u, v, w) ==
  /\ U \in [D \ {v} -> boundary_tag]
  /\ \A a \in D \ {v} :
       /\ U[a].size = T[a].size
       /\ U[a].real_size = IF a = u THEN T[u].real_size + T[v].real_size ELSE T[a].real_size
       /\ U[a].split_right = IF a = u THEN T[v].split_right ELSE T[a].split_right
       /\ U[a].split_left = IF a = T[v].split_right THEN u ELSE T[a].split_left
  /\ \A a \in D \ {v} : a # w =>
       /\ U[a].index = T[a].index
       /\ U[a].next = IF a = T[w].prev THEN T[w].next ELSE T[a].next
       /\ U[a].prev = IF a = T[w].next THEN T[w].prev ELSE T[a].prev
  /\ w # v => U[w].index = NoIndex /\ U[w].next = NULL /\ U[w].prev = NULL

(* Setting split_left of a tag that may be NULL. *)
LEMMA SetLeftFields ==
  ASSUME NEW D, NULL \notin D, NEW T \in [D -> boundary_tag], NEW t, t # NULL => t \in D, NEW v \in Nat
  PROVE  SplitLeftSet(D, SetLeft(T, t, v), T, t, v)
<1>1. CASE t = NULL
  <2>1. \A a \in D : a # t
    BY <1>1
  <2> QED
    BY <1>1, <2>1, Zenon DEF SetLeft, SplitLeftSet, SameSize, SameLinks
<1>2. CASE t # NULL
  <2>1. SplitLeftSet(D, [T EXCEPT ![t].split_left = v], T, t, v)
    BY <1>2, SetSplitLeft, Zenon
  <2> QED
    BY <1>2, <2>1 DEF SetLeft
<1> QED
  BY <1>1, <1>2

(* The types of a tag's fields. *)
LEMMA FieldTypes ==
  ASSUME NEW D, NEW T \in [D -> boundary_tag], NEW a \in D
  PROVE  /\ T[a].size \in Nat /\ T[a].real_size \in Nat /\ T[a].index \in Indices \union {NoIndex}
         /\ T[a].split_left \in Nat /\ T[a].split_right \in Nat /\ T[a].next \in Nat /\ T[a].prev \in Nat
<1>1. T[a] \in boundary_tag
  OBVIOUS
<1> QED
  BY <1>1 DEF boundary_tag

(* melt_left *)
LEMMA MeltFields ==
  ASSUME NEW D \in SUBSET (Nat \ {NULL}), tags \in [D -> boundary_tag], NEW t \in D,
         NEW u, u = tags[t].split_left, u \in D, u # t,
         tags[t].split_right # NULL => tags[t].split_right \in D,
         tags[u].prev # NULL => tags[u].prev \in D \ {u}, tags[u].next # NULL => tags[u].next \in D \ {u}
  PROVE  TagsJoined(D, Melted(t), tags, u, t, u)
<1> DEFINE r == tags[t].split_right
           x == tags[u].real_size + tags[t].real_size
           A == [tags EXCEPT ![u].real_size = x, ![u].split_right = r]
           B == SetLeft(A, r, u)
           C == Unlinked(B, u)
           U == Dropped(C, t)
<1>0. x \in Nat /\ r \in Nat /\ u \in Nat /\ NULL \notin D
  <2>1. tags[u].real_size \in Nat /\ tags[t].real_size \in Nat /\ tags[t].split_right \in Nat
    BY FieldTypes, Zenon
  <2>2. x \in Nat
    BY <2>1, SMTT(30)
  <2>3. u \in Nat /\ NULL \notin D
    BY Zenon
  <2> QED
    BY <2>1, <2>2, <2>3, Zenon
<1>1. Melted(t) = U
  BY DEF Melted
<1>2. ExtentSet(D, A, tags, u, x, r)
  <2> HIDE DEF x, r
  <2> QED
    BY <1>0, SetExtent, ZenonT(60)
<1> HIDE DEF A
<1>3. A \in [D -> boundary_tag]
  BY <1>2 DEF ExtentSet
<1>4. SplitLeftSet(D, B, A, r, u)
  BY <1>0, <1>3, SetLeftFields, Zenon
<1> HIDE DEF B
<1>5. B \in [D -> boundary_tag]
  BY <1>4, Zenon DEF SplitLeftSet
<1> HIDE DEF x, r
<1>6. ASSUME NEW a \in D
      PROVE  /\ B[a].size = tags[a].size /\ SameLinks(B, tags, a)
             /\ B[a].real_size = IF a = u THEN x ELSE tags[a].real_size
             /\ B[a].split_right = IF a = u THEN r ELSE tags[a].split_right
             /\ B[a].split_left = IF a = r THEN u ELSE tags[a].split_left
  <2>1. /\ A[a].size = tags[a].size /\ SameLinks(A, tags, a) /\ A[a].split_left = tags[a].split_left
        /\ A[a].split_right = IF a = u THEN r ELSE tags[a].split_right
        /\ A[a].real_size = IF a = u THEN x ELSE tags[a].real_size
    BY <1>2, Zenon DEF ExtentSet
  <2>2. /\ SameSize(B, A, a) /\ SameLinks(B, A, a) /\ B[a].split_right = A[a].split_right
        /\ B[a].split_left = IF a = r THEN u ELSE A[a].split_left
    BY <1>4, Zenon DEF SplitLeftSet
  <2> QED
    BY <2>1, <2>2, Zenon DEF SameSize, SameLinks
<1>7. B[u].prev = tags[u].prev /\ B[u].next = tags[u].next
  BY <1>6, Zenon DEF SameLinks
<1>8. TagRemoved(D, C, B, u)
  BY <1>0, <1>5, <1>7, UnlinkFields, Zenon
<1> HIDE DEF C
<1>9. C \in [D -> boundary_tag]
  BY <1>8, Zenon DEF TagRemoved
<1>10. U \in [D \ {t} -> boundary_tag] /\ \A a \in D \ {t} : U[a] = C[a]
  BY <1>9 DEF Dropped
<1> HIDE DEF U
<1>11. ASSUME NEW a \in D \ {t}
       PROVE  /\ U[a].size = tags[a].size
              /\ U[a].real_size = IF a = u THEN x ELSE tags[a].real_size
              /\ U[a].split_right = IF a = u THEN r ELSE tags[a].split_right
              /\ U[a].split_left = IF a = r THEN u ELSE tags[a].split_left
  <2>1. U[a] = C[a] /\ a \in D
    BY <1>10
  <2>2. C[a].size = B[a].size /\ C[a].real_size = B[a].real_size /\ C[a].split_right = B[a].split_right
        /\ C[a].split_left = B[a].split_left
    BY <1>8, <2>1, Zenon DEF TagRemoved, SameSize, SameSplit
  <2> QED
    BY <1>6, <2>1, <2>2, ZenonT(60)
<1>12. ASSUME NEW a \in D \ {t}, a # u
       PROVE  /\ U[a].index = tags[a].index
              /\ U[a].next = IF a = tags[u].prev THEN tags[u].next ELSE tags[a].next
              /\ U[a].prev = IF a = tags[u].next THEN tags[u].prev ELSE tags[a].prev
  <2>1. U[a] = C[a] /\ a \in D /\ a \in D \ {u}
    BY <1>10, <1>12
  <2>2. /\ C[a].index = B[a].index
        /\ C[a].next = IF a = B[u].prev THEN B[u].next ELSE B[a].next
        /\ C[a].prev = IF a = B[u].next THEN B[u].prev ELSE B[a].prev
    BY <1>8, <2>1, Zenon DEF TagRemoved
  <2>3. SameLinks(B, tags, a)
    BY <1>6, <2>1, Zenon
  <2> QED
    BY <1>7, <2>1, <2>2, <2>3, ZenonT(60) DEF SameLinks
<1>13. U[u].index = NoIndex /\ U[u].next = NULL /\ U[u].prev = NULL
  <2>1. U[u] = C[u]
    BY <1>10
  <2> QED
    BY <1>8, <2>1, ZenonT(60) DEF TagRemoved
<1>14. TagsJoined(D, U, tags, u, t, u)
  BY <1>10, <1>11, <1>12, <1>13, Zenon DEF TagsJoined, x, r
<1> QED
  BY <1>1, <1>14, Zenon

(* absorb_right *)
LEMMA AbsorbFields ==
  ASSUME NEW D \in SUBSET (Nat \ {NULL}), tags \in [D -> boundary_tag], NEW t \in D,
         NEW v, v = tags[t].split_right, v \in D, v # t,
         tags[v].split_right # NULL => tags[v].split_right \in D,
         tags[v].prev # NULL => tags[v].prev \in D \ {v}, tags[v].next # NULL => tags[v].next \in D \ {v}
  PROVE  TagsJoined(D, Absorbed(t), tags, t, v, v)
<1> DEFINE r == tags[v].split_right
           x == tags[t].real_size + tags[v].real_size
           A == Unlinked(tags, v)
           B == [A EXCEPT ![t].real_size = @ + tags[v].real_size, ![t].split_right = r]
           C == SetLeft(B, r, t)
           U == Dropped(C, v)
<1>0. x \in Nat /\ r \in Nat /\ t \in Nat /\ v \in Nat /\ NULL \notin D
  <2>1. tags[v].real_size \in Nat /\ tags[t].real_size \in Nat /\ tags[v].split_right \in Nat
    BY FieldTypes, ZenonT(60)
  <2>2. x \in Nat
    BY <2>1, SMTT(30)
  <2>3. t \in Nat /\ v \in Nat /\ NULL \notin D
    BY Zenon
  <2> QED
    BY <2>1, <2>2, <2>3, Zenon
<1>1. Absorbed(t) = U
  BY DEF Absorbed
<1>2. TagRemoved(D, A, tags, v)
  BY <1>0, UnlinkFields, ZenonT(60)
<1> HIDE DEF A
<1>3. A \in [D -> boundary_tag]
  BY <1>2, SMTT(30), SMTT(60) DEF TagRemoved
<1>4. \A a \in D : SameSize(A, tags, a) /\ SameSplit(A, tags, a)
  BY <1>2 DEF TagRemoved
<1>5. B = [A EXCEPT ![t].real_size = x, ![t].split_right = r]
  <2>1. A[t].real_size = tags[t].real_size
    BY <1>4, Zenon DEF SameSize
  <2> QED
    BY <2>1
<1> HIDE DEF B, x, r
<1>6. ExtentSet(D, [A EXCEPT ![t].real_size = x, ![t].split_right = r], A, t, x, r)
  BY <1>0, <1>3, SetExtent, Zenon
<1>7. ExtentSet(D, B, A, t, x, r)
  BY <1>5, <1>6, ZenonT(60)
<1>8. B \in [D -> boundary_tag]
  BY <1>7 DEF ExtentSet
<1>9. SplitLeftSet(D, C, B, r, t)
  BY <1>0, <1>8, SetLeftFields, Zenon DEF r
<1> HIDE DEF C
<1>10. C \in [D -> boundary_tag]
  BY <1>9, Zenon DEF SplitLeftSet
<1>11. U \in [D \ {v} -> boundary_tag] /\ \A a \in D \ {v} : U[a] = C[a]
  BY <1>10, Zenon DEF Dropped
<1> HIDE DEF U
<1>12. ASSUME NEW a \in D
       PROVE  /\ C[a].size = tags[a].size /\ SameLinks(C, A, a)
              /\ C[a].real_size = IF a = t THEN x ELSE tags[a].real_size
              /\ C[a].split_right = IF a = t THEN r ELSE tags[a].split_right
              /\ C[a].split_left = IF a = r THEN t ELSE tags[a].split_left
  <2>1. /\ B[a].size = A[a].size /\ SameLinks(B, A, a) /\ B[a].split_left = A[a].split_left
        /\ B[a].split_right = IF a = t THEN r ELSE A[a].split_right
        /\ B[a].real_size = IF a = t THEN x ELSE A[a].real_size
    BY <1>7, Zenon DEF ExtentSet
  <2>2. /\ SameSize(C, B, a) /\ SameLinks(C, B, a) /\ C[a].split_right = B[a].split_right
        /\ C[a].split_left = IF a = r THEN t ELSE B[a].split_left
    BY <1>9, ZenonT(60) DEF SplitLeftSet
  <2>3. SameSize(A, tags, a) /\ SameSplit(A, tags, a)
    BY <1>4
  <2> QED
    BY <2>1, <2>2, <2>3, ZenonT(60) DEF SameSize, SameLinks, SameSplit
<1>13. ASSUME NEW a \in D \ {v}
       PROVE  /\ U[a].size = tags[a].size
              /\ U[a].real_size = IF a = t THEN x ELSE tags[a].real_size
              /\ U[a].split_right = IF a = t THEN r ELSE tags[a].split_right
              /\ U[a].split_left = IF a = r THEN t ELSE tags[a].split_left
  <2>1. U[a] = C[a] /\ a \in D
    BY <1>11
  <2> QED
    BY <1>12, <2>1, ZenonT(60)
<1>14. ASSUME NEW a \in D \ {v}
       PROVE  /\ U[a].index = tags[a].index
              /\ U[a].next = IF a = tags[v].prev THEN tags[v].next ELSE tags[a].next
              /\ U[a].prev = IF a = tags[v].next THEN tags[v].prev ELSE tags[a].prev
  <2>1. U[a] = C[a] /\ a \in D
    BY <1>11
  <2>2. SameLinks(C, A, a)
    BY <1>12, <2>1, Zenon
  <2>3. /\ A[a].index = tags[a].index
        /\ A[a].next = IF a = tags[v].prev THEN tags[v].next ELSE tags[a].next
        /\ A[a].prev = IF a = tags[v].next THEN tags[v].prev ELSE tags[a].prev
    BY <1>2, Zenon DEF TagRemoved
  <2> QED
    BY <2>1, <2>2, <2>3, Zenon DEF SameLinks
<1>15. TagsJoined(D, U, tags, t, v, v)
  BY <1>11, <1>13, <1>14, ZenonT(60) DEF TagsJoined, x, r
<1> QED
  BY <1>1, <1>15, Zenon

(* U is T once tag t, of the given size, is split at n and the rest put at  *)
(* the front of list i, whose first tag was h.                              *)
TagSplit(D, U, T, t, size, n, i, h) ==
  /\ U \in [D \union {n} -> boundary_tag]
  /\ \A a \in D \ {t} : SameSize(U, T, a) /\ U[a].split_right = T[a].split_right
  /\ \A a \in D : U[a].split_left = IF a = T[t].split_right THEN n ELSE T[a].split_left
  /\ \A a \in D : /\ U[a].index = T[a].index /\ U[a].next = T[a].next
                  /\ U[a].prev = IF a = h THEN n ELSE T[a].prev
  /\ U[t].size = size /\ U[t].real_size = TagSize + size /\ U[t].split_right = n
  /\ U[n].real_size = T[t].real_size - TagSize - size
  /\ U[n].split_left = t /\ U[n].split_right = T[t].split_right
  /\ U[n].index = i /\ U[n].next = h /\ U[n].prev = NULL

(* A tag that is cut down to its first part is a tag. *)
LEMMA CutFields ==
  ASSUME NEW R \in boundary_tag, NEW x \in Nat, NEW y \in Nat, NEW z \in Nat
  PROVE  [R EXCEPT !.size = x, !.split_right = y, !.real_size = z] \in boundary_tag
BY Zenon DEF boundary_tag

(* split_tag *)
LEMMA SplitFields ==
  ASSUME NEW D \in SUBSET (Nat \ {NULL}), tags \in [D -> boundary_tag], NEW t \in D, NEW size \in Nat,
         TagSize + size <= tags[t].real_size, NEW n \in Nat \ {NULL}, n = SplitAt(t, size), n \notin D,
         tags[t].split_right # NULL => tags[t].split_right \in D,
         NEW i \in Indices, i = RestList(t, size), l_freePages \in [Indices -> Nat],
         l_freePages[i] # NULL => l_freePages[i] \in D
  PROVE  TagSplit(D, Split(t, size), tags, t, size, n, i, l_freePages[i])
<1> DEFINE r == tags[t].split_right
           h == l_freePages[i]
           E == D \union {n}
           A == [a \in DOMAIN tags \union {n} |->
                   IF a = n THEN Rest(t, size)
                   ELSE IF a = t THEN [tags[t] EXCEPT !.size = size, !.split_right = n, !.real_size = TagSize + size]
                   ELSE tags[a]]
           B == SetLeft(A, r, n)
           U == Inserted(B, n, i)
<1>0. TagSize \in Nat /\ tags[t] \in boundary_tag /\ DOMAIN tags = D
  BY LiballocAssumption
<1>1. Split(t, size) = U
  BY DEF Split
<1>2. r \in Nat /\ tags[t].real_size \in Nat
  BY FieldTypes, ZenonT(60)
<1>3. Rest(t, size) \in boundary_tag
  BY <1>0, <1>2 DEF Rest, boundary_tag, NULL
<1>4. [tags[t] EXCEPT !.size = size, !.split_right = n, !.real_size = TagSize + size] \in boundary_tag
  <2>1. TagSize + size \in Nat /\ n \in Nat
    BY <1>0
  <2> QED
    BY <1>0, <2>1, CutFields, Zenon
<1>5. A \in [E -> boundary_tag]
  BY <1>0, <1>3, <1>4
<1>6. A[n] = Rest(t, size)
  BY <1>0
<1>7. \A a \in D \ {t} : A[a] = tags[a]
  BY <1>0
<1>8. A[t] = [tags[t] EXCEPT !.size = size, !.split_right = n, !.real_size = TagSize + size]
  BY <1>0
<1>9. /\ A[t].size = size /\ A[t].split_right = n /\ A[t].real_size = TagSize + size
      /\ SameLinks(A, tags, t) /\ A[t].split_left = tags[t].split_left
  BY <1>0, <1>8, SMTT(30), SMTT(60) DEF boundary_tag, SameLinks
<1>10. /\ A[n].real_size = tags[t].real_size - TagSize - size /\ A[n].split_left = t /\ A[n].split_right = r
       /\ A[n].next = NULL /\ A[n].prev = NULL
  BY <1>6 DEF Rest
<1> HIDE DEF A
<1>a. E \in SUBSET (Nat \ {NULL}) /\ NULL \notin E /\ n \in E /\ n \in Nat /\ t \in E /\ t # n
  BY Zenon
<1>b. r # NULL => r \in E /\ r # n
  BY Zenon
<1>c. h \in Nat /\ (h # NULL => h \in E \ {n}) /\ h # n
  BY Zenon
<1> HIDE DEF r, h, E
<1>11. SplitLeftSet(E, B, A, r, n)
  BY <1>a, <1>b, <1>5, SetLeftFields, Zenon
<1> HIDE DEF B
<1>12. B \in [E -> boundary_tag]
  BY <1>11, ZenonT(60) DEF SplitLeftSet
<1>13. \A a \in E : /\ SameSize(B, A, a) /\ SameLinks(B, A, a) /\ B[a].split_right = A[a].split_right
                    /\ B[a].split_left = IF a = r THEN n ELSE A[a].split_left
  BY <1>11 DEF SplitLeftSet
<1>14. B[n].next = NULL
  BY <1>10, <1>13, <1>a, ZenonT(60) DEF SameLinks
<1>15. TagInserted(E, U, B, n, i, h)
  <2>1. l_freePages[i] # NULL => l_freePages[i] \in E \ {n}
    BY <1>c, SMTT(30), SMTT(60) DEF h
  <2>2. TagInserted(E, Inserted(B, n, i), B, n, i, l_freePages[i])
    BY <1>a, <1>12, <1>14, <2>1, InsertFields, SMTT(30), SMTT(60)
  <2> QED
    BY <2>2, SMTT(30), SMTT(60) DEF h
<1> HIDE DEF U
<1>16. ASSUME NEW a \in D
       PROVE  /\ U[a].size = A[a].size /\ U[a].real_size = A[a].real_size /\ U[a].split_right = A[a].split_right
              /\ U[a].split_left = IF a = r THEN n ELSE A[a].split_left
              /\ U[a].index = A[a].index /\ U[a].next = A[a].next /\ U[a].prev = IF a = h THEN n ELSE A[a].prev
  <2>1. a \in E /\ a \in E \ {n}
    BY DEF E
  <2>2. SameSize(U, B, a) /\ SameSplit(U, B, a) /\ U[a].index = B[a].index /\ U[a].next = B[a].next
        /\ U[a].prev = IF a = h THEN n ELSE B[a].prev
    BY <1>15, <2>1, Zenon DEF TagInserted
  <2>3. /\ SameSize(B, A, a) /\ SameLinks(B, A, a) /\ B[a].split_right = A[a].split_right
        /\ B[a].split_left = IF a = r THEN n ELSE A[a].split_left
    BY <1>13, <2>1, Zenon
  <2> QED
    BY <2>2, <2>3, Zenon DEF SameSize, SameSplit, SameLinks
<1>17. ASSUME NEW a \in D \ {t}
       PROVE  /\ SameSize(U, tags, a) /\ U[a].split_right = tags[a].split_right
              /\ U[a].split_left = IF a = r THEN n ELSE tags[a].split_left
              /\ U[a].index = tags[a].index /\ U[a].next = tags[a].next /\ U[a].prev = IF a = h THEN n ELSE tags[a].prev
  <2>1. a \in D /\ A[a] = tags[a]
    BY <1>7
  <2> QED
    BY <1>16, <2>1, ZenonT(60) DEF SameSize
<1>18. /\ U[t].size = size /\ U[t].real_size = TagSize + size /\ U[t].split_right = n
       /\ U[t].split_left = IF t = r THEN n ELSE tags[t].split_left
       /\ U[t].index = tags[t].index /\ U[t].next = tags[t].next /\ U[t].prev = IF t = h THEN n ELSE tags[t].prev
  BY <1>9, <1>16, Zenon DEF SameLinks
<1>19. /\ U[n].real_size = tags[t].real_size - TagSize - size
       /\ U[n].split_left = t /\ U[n].split_right = r /\ U[n].index = i /\ U[n].next = h /\ U[n].prev = NULL
  <2>1. n # r
    BY <1>a, <1>b
  <2>2. SameSize(U, B, n) /\ SameSplit(U, B, n) /\ U[n].index = i /\ U[n].next = h /\ U[n].prev = B[n].prev
    BY <1>15, <1>a, Zenon DEF TagInserted
  <2>3. SameSize(B, A, n) /\ SameLinks(B, A, n) /\ B[n].split_right = A[n].split_right /\ B[n].split_left = A[n].split_left
    BY <1>13, <1>a, <2>1, ZenonT(60)
  <2> QED
    BY <1>10, <2>2, <2>3, ZenonT(60) DEF SameSize, SameSplit, SameLinks
<1>20. U \in [D \union {n} -> boundary_tag]
  BY <1>15 DEF TagInserted, E
<1>21. \A a \in D : U[a].split_left = IF a = r THEN n ELSE tags[a].split_left
  BY <1>17, <1>18, Zenon
<1>22. \A a \in D : U[a].index = tags[a].index /\ U[a].next = tags[a].next /\ U[a].prev = IF a = h THEN n ELSE tags[a].prev
  BY <1>17, <1>18, Zenon
<1>23. TagSplit(D, U, tags, t, size, n, i, h)
  BY <1>17, <1>18, <1>19, <1>20, <1>21, <1>22, ZenonT(60) DEF TagSplit, r
<1> QED
  BY <1>1, <1>23, ZenonT(60) DEF h

-----------------------------------------------------------------------------
(* Walk is the chain, and NULL after it. *)
LEMMA WalkDef ==
  ASSUME SetFacts, MemTypes, NEW i \in Indices, NEW n \in Nat, NEW s \in [1 .. n -> Nat], List(i, n, s)
  PROVE  /\ n <= Cardinality(DOMAIN tags) /\ Cardinality(DOMAIN tags) \in Nat
         /\ Walk(i) = [m \in 0 .. Cardinality(DOMAIN tags) |-> IF m < n THEN s[m + 1] ELSE NULL]
<1> DEFINE D == DOMAIN tags
           c == Cardinality(DOMAIN tags)
<1>0. IsFiniteSet(D) /\ D \subseteq Nat \ {NULL}
  BY DEF MemTypes
<1>1. c \in Nat
  BY <1>0, CardinalityType, SMTT(30), SMTT(60)
<1>2. Chain(D, IndexOf, NextOf, PrevOf, l_freePages[i], i, n, s)
  BY SMTT(30), SMTT(60) DEF List
<1>m. \A l \in 1 .. n : s[l] \in D /\ s[l] # NULL
  BY <1>0, <1>2, SMTT(30), SMTT(60) DEF Chain
<1>i. \A a, b \in 1 .. n : s[a] = s[b] => a = b
  BY <1>2, SMTT(30), SMTT(60) DEF Chain
<1>n. \A l \in 1 .. n : NextOf[s[l]] = IF l = n THEN NULL ELSE s[l + 1]
  BY <1>2, SMTT(30), SMTT(60) DEF Chain
<1>h. l_freePages[i] = IF n = 0 THEN NULL ELSE s[1]
  BY <1>2, SMTT(30), SMTT(60) DEF Chain
<1>3. n <= c
  <2>1. s \in [1 .. n -> D]
    BY <1>m
  <2> QED
    BY <1>0, <1>i, <2>1, NoLonger, SMTT(30), SMTT(60)
<1> DEFINE IsIt(g) == g = [m \in 0 .. c |-> IF m = 0 THEN l_freePages[i]
                                            ELSE IF g[m - 1] = NULL THEN NULL
                                            ELSE tags[g[m - 1]].next]
           w == [m \in 0 .. c |-> IF m < n THEN s[m + 1] ELSE NULL]
<1>4. Walk(i) = CHOOSE g : IsIt(g)
  BY SMTT(30) DEF Walk
<1>5. IsIt(w)
  <2>1. ASSUME NEW m \in 0 .. c
        PROVE  w[m] = IF m = 0 THEN l_freePages[i] ELSE IF w[m - 1] = NULL THEN NULL ELSE tags[w[m - 1]].next
    <3>1. CASE m = 0
      <4>1. w[m] = IF n = 0 THEN NULL ELSE s[1]
        BY <1>1, <3>1, SMTT(30), SMTT(60)
      <4> QED
        BY <1>h, <3>1, <4>1, SMTT(30), SMTT(60)
    <3>2. CASE m # 0 /\ m - 1 < n
      <4>1. m \in 1 .. n /\ m - 1 \in 0 .. c /\ (m - 1) + 1 = m
        BY <1>1, <3>2, SMTT(30), SMTT(60)
      <4>2. w[m - 1] = s[m]
        BY <3>2, <4>1, SMTT(30), SMTT(60)
      <4>3. w[m] = IF m = n THEN NULL ELSE s[m + 1]
        BY <3>2, <4>1, SMTT(30), SMTT(60)
      <4>4. s[m] # NULL /\ NextOf[s[m]] = tags[s[m]].next
        BY <1>m, <4>1, SMTT(30), SMTT(60) DEF NextOf
      <4> HIDE DEF w
      <4> QED
        BY <1>n, <3>2, <4>1, <4>2, <4>3, <4>4, SMTT(30), SMTT(60)
    <3>3. CASE m # 0 /\ ~(m - 1 < n)
      <4>1. m - 1 \in 0 .. c
        BY <1>1, <3>3, SMTT(30), SMTT(60)
      <4>2. w[m - 1] = NULL /\ w[m] = NULL
        BY <3>3, <4>1
      <4> HIDE DEF w
      <4> QED
        BY <3>3, <4>2, SMTT(30), SMTT(60)
    <3> QED
      BY <3>1, <3>2, <3>3, ZenonT(60)
  <2> DEFINE v == [m \in 0 .. c |-> IF m = 0 THEN l_freePages[i]
                                    ELSE IF w[m - 1] = NULL THEN NULL
                                    ELSE tags[w[m - 1]].next]
  <2>2. \A m \in 0 .. c : w[m] = v[m]
    BY <2>1, ZenonT(60)
  <2>3. w = v
    BY <2>2, SMTT(30), SMTT(60)
  <2> QED
    BY <2>3, Zenon
<1>6. ASSUME NEW g, IsIt(g) PROVE g = w
  <2>0. g = [m \in 0 .. c |-> IF m = 0 THEN l_freePages[i] ELSE IF g[m - 1] = NULL THEN NULL ELSE tags[g[m - 1]].next]
    BY <1>6, Zenon
  <2>1. g = [m \in 0 .. c |-> g[m]]
    BY <2>0
  <2>2. \A m \in 0 .. c : g[m] = IF m = 0 THEN l_freePages[i] ELSE IF g[m - 1] = NULL THEN NULL ELSE tags[g[m - 1]].next
    BY <2>0, ZenonT(60)
  <2>3. w = [m \in 0 .. c |-> IF m = 0 THEN l_freePages[i] ELSE IF w[m - 1] = NULL THEN NULL ELSE tags[w[m - 1]].next]
    BY <1>5, SMTT(30), SMTT(60)
  <2> HIDE DEF w, IsIt
  <2>4. \A m \in 0 .. c : w[m] = IF m = 0 THEN l_freePages[i] ELSE IF w[m - 1] = NULL THEN NULL ELSE tags[w[m - 1]].next
    BY <2>3, Zenon
  <2> DEFINE S == {m \in 0 .. c : g[m] = w[m]}
  <2>5. 0 \in S
    BY <1>1, <2>2, <2>4, SMTT(30)
  <2>6. ASSUME NEW m \in 0 .. (c - 1), m \in S PROVE m + 1 \in S
    <3>1. m + 1 \in 0 .. c /\ m + 1 # 0 /\ (m + 1) - 1 = m /\ g[m] = w[m]
      BY <1>1, <2>6, SMTT(30), SMTT(60)
    <3>2. g[m + 1] = w[m + 1]
      BY <2>2, <2>4, <3>1, SMTT(30), SMTT(60)
    <3> QED
      BY <3>1, <3>2, SMTT(30), SMTT(60)
  <2> HIDE DEF S, c
  <2>7. 0 .. c \subseteq S
    BY <1>1, <2>5, <2>6, InductionUpTo, SMTT(30), SMTT(60)
  <2>8. \A m \in 0 .. c : g[m] = w[m]
    BY <2>7, SMTT(30), SMTT(60) DEF S
  <2>9. w = [m \in 0 .. c |-> w[m]]
    BY DEF w
  <2> QED
    BY <2>1, <2>8, <2>9, SMTT(30), SMTT(60)
<1> HIDE DEF IsIt, w
<1>7. Walk(i) = w
  BY <1>4, <1>5, <1>6, ZenonT(60)
<1> QED
  BY <1>1, <1>3, <1>7, SMTT(30), SMTT(60) DEF w

(* What malloc's search returns: nothing, or a tag of the list for the size *)
(* that is large enough.                                                    *)
LEMMA SearchFits ==
  ASSUME SetFacts, MemTypes, Lists, NEW size, NEW t \in Search(size)
  PROVE  /\ t \in Nat
         /\ t # NULL => /\ t \in DOMAIN tags /\ tags[t].index = ListOf(size)
                        /\ Payload(t) >= size + TagSize
<1> DEFINE i == ListOf(size)
           c == Cardinality(DOMAIN tags)
           walk == Walk(i)
           fits == {m \in DOMAIN walk : walk[m] # NULL /\ Payload(walk[m]) >= size + TagSize}
<1>1. i \in Indices
  BY ListOfIndex, SMTT(30), SMTT(60)
<1>2. PICK n \in Nat : \E s \in [1 .. n -> Nat] : List(i, n, s)
  BY <1>1, SMTT(30), SMTT(60) DEF Lists
<1>3. PICK s \in [1 .. n -> Nat] : List(i, n, s)
  BY <1>2, SMTT(30), SMTT(60)
<1>4. c \in Nat /\ walk = [m \in 0 .. c |-> IF m < n THEN s[m + 1] ELSE NULL]
  BY <1>1, <1>3, WalkDef, SMTT(30), SMTT(60)
<1>5. \A l \in 1 .. n : s[l] \in DOMAIN tags /\ tags[s[l]].index = i
  BY <1>3, Zenon DEF List, Chain, IndexOf
<1>6. t = NULL \/ \E m \in fits : t = walk[m]
  BY Zenon DEF Search
<1> HIDE DEF walk, i
<1>7. CASE t = NULL
  BY <1>7, SMTT(30), SMTT(60) DEF NULL
<1>8. ASSUME NEW m \in fits, t = walk[m], t # NULL
      PROVE  t \in Nat /\ t \in DOMAIN tags /\ tags[t].index = i /\ Payload(t) >= size + TagSize
  <2>1. m \in 0 .. c /\ Payload(t) >= size + TagSize
    BY <1>4, <1>8, SMTT(30), SMTT(60)
  <2>2. m < n /\ t = s[m + 1] /\ m + 1 \in 1 .. n
    BY <1>4, <1>8, <2>1, SMTT(30), SMTT(60)
  <2>3. t \in DOMAIN tags /\ tags[t].index = i
    BY <1>5, <2>2, SMTT(30), SMTT(60)
  <2>4. t \in Nat
    BY <2>2, SMTT(30), SMTT(60)
  <2> QED
    BY <2>1, <2>3, <2>4, SMTT(30), SMTT(60)
<1> QED
  BY <1>6, <1>7, <1>8, SMTT(30), SMTT(60) DEF i

(* Walking a free list from its head, as malloc does, meets exactly the     *)
(* tags of the list and ends.                                               *)
LEMMA WalkIsList ==
  ASSUME SetFacts, MemTypes, Lists, NEW i \in Indices
  PROVE  /\ {Walk(i)[m] : m \in DOMAIN Walk(i)} \ {NULL} = {t \in DOMAIN tags : tags[t].index = i}
         /\ Walk(i)[Cardinality(DOMAIN tags)] = NULL
<1> DEFINE c == Cardinality(DOMAIN tags)
           walk == Walk(i)
           D == DOMAIN tags
<1>2. PICK n \in Nat : \E s \in [1 .. n -> Nat] : List(i, n, s)
  BY DEF Lists
<1>3. PICK s \in [1 .. n -> Nat] : List(i, n, s)
  BY <1>2, SMTT(30), SMTT(60)
<1>4. c \in Nat /\ n <= c /\ walk = [m \in 0 .. c |-> IF m < n THEN s[m + 1] ELSE NULL]
  BY <1>3, WalkDef, SMTT(30), SMTT(60)
<1>5. \A l \in 1 .. n : s[l] \in D /\ tags[s[l]].index = i
  BY <1>3, ZenonT(60) DEF List, Chain, IndexOf
<1>6. \A t \in D : tags[t].index = i => \E k \in 1 .. n : s[k] = t
  BY <1>3, SMTT(30), SMTT(60) DEF List, Chain, IndexOf
<1>7. D \subseteq Nat \ {NULL}
  BY DEF MemTypes
<1> HIDE DEF walk, c
<1>8. DOMAIN walk = 0 .. c /\ \A m \in 0 .. c : walk[m] = IF m < n THEN s[m + 1] ELSE NULL
  BY <1>4, SMTT(30), SMTT(60)
<1>9. walk[c] = NULL
  BY <1>4, <1>8, SMTT(30), SMTT(60)
<1>10. ASSUME NEW t \in {walk[m] : m \in DOMAIN walk} \ {NULL} PROVE t \in D /\ tags[t].index = i
  <2>1. PICK m \in 0 .. c : t = walk[m]
    BY <1>8, SMTT(30), SMTT(60)
  <2>2. m < n /\ t = s[m + 1] /\ m + 1 \in 1 .. n
    BY <1>4, <1>8, <1>10, <2>1, SMTT(30), SMTT(60)
  <2> QED
    BY <1>5, <2>2, SMTT(30), SMTT(60)
<1>11. ASSUME NEW t \in D, tags[t].index = i PROVE t \in {walk[m] : m \in DOMAIN walk} \ {NULL}
  <2>1. PICK k \in 1 .. n : s[k] = t
    BY <1>6, <1>11, SMTT(30), SMTT(60)
  <2>2. k - 1 \in 0 .. c /\ k - 1 < n /\ (k - 1) + 1 = k
    BY <1>4, SMTT(30), SMTT(60)
  <2>3. walk[k - 1] = t
    BY <1>8, <2>1, <2>2, SMTT(30), SMTT(60)
  <2>4. t # NULL
    BY <1>7, SMTT(30), SMTT(60)
  <2> QED
    BY <1>8, <2>2, <2>3, <2>4, SMTT(30), SMTT(60)
<1>12. {walk[m] : m \in DOMAIN walk} \ {NULL} = {t \in D : tags[t].index = i}
  BY <1>10, <1>11, SMTT(30), SMTT(60)
<1> QED
  BY <1>9, <1>12, SMTT(30), SMTT(60) DEF walk, c

(* The layout of the tags as functions. *)
LEMMA TagFns ==
  ASSUME MemTypes
  PROVE  /\ DOMAIN tags \in SUBSET (Nat \ {NULL}) /\ tags \in [DOMAIN tags -> boundary_tag]
         /\ SizeOf \in [DOMAIN tags -> Nat] /\ LeftOf \in [DOMAIN tags -> Nat] /\ RightOf \in [DOMAIN tags -> Nat]
         /\ \A a \in DOMAIN tags : SizeOf[a] = tags[a].real_size /\ LeftOf[a] = tags[a].split_left
                                   /\ RightOf[a] = tags[a].split_right
<1>1. DOMAIN tags \in SUBSET (Nat \ {NULL}) /\ tags \in [DOMAIN tags -> boundary_tag]
  BY SMTT(30), SMTT(60) DEF MemTypes
<1>2. \A a \in DOMAIN tags : tags[a].real_size \in Nat /\ tags[a].split_left \in Nat /\ tags[a].split_right \in Nat
  BY <1>1, FieldTypes, SMTT(30), SMTT(60)
<1> QED
  BY <1>1, <1>2, SMTT(30), SMTT(60) DEF SizeOf, LeftOf, RightOf

(* A tag's neighbours. *)
LEMMA NeighbourFacts ==
  ASSUME MemTypes, Layout, NEW t \in DOMAIN tags
  PROVE  /\ tags[t].real_size >= TagSize
         /\ tags[t].split_right # NULL =>
              /\ tags[t].split_right \in DOMAIN tags /\ tags[t].split_right # t
              /\ tags[tags[t].split_right].split_left = t
         /\ tags[t].split_left # NULL =>
              /\ tags[t].split_left \in DOMAIN tags /\ tags[t].split_left # t
              /\ tags[tags[t].split_left].split_right = t
<1> DEFINE D == DOMAIN tags
           S == SizeOf
           L == LeftOf
           R == RightOf
<1>1. /\ D \in SUBSET (Nat \ {NULL}) /\ S \in [D -> Nat]
      /\ \A a \in D : S[a] = tags[a].real_size /\ L[a] = tags[a].split_left /\ R[a] = tags[a].split_right
  BY TagFns, SMTT(30), SMTT(60)
<1>2. Tiles(D, S, blocks) /\ Adjacent(D, S, L, R, blocks)
  BY DEF Layout
<1>3. TagSize \in Nat \ {0}
  BY LiballocAssumption
<1> HIDE DEF D, S, L, R
<1>4. t \in D
  BY DEF D
<1>5. \A a \in D : S[a] >= TagSize
  BY <1>2, SMTT(30), SMTT(60) DEF Tiles
<1>6. \A a \in D : /\ R[a] # NULL => R[a] = a + S[a] /\ R[a] \in D /\ L[R[a]] = a
                   /\ L[a] # NULL => L[a] \in D /\ R[L[a]] = a
  BY <1>2, SMTT(30), SMTT(60) DEF Adjacent
<1>7. \A a \in D : R[a] # NULL => R[a] # a
  BY <1>1, <1>3, <1>5, <1>6, SMTT(30), SMTT(60)
<1>8. \A a \in D : L[a] # NULL => L[a] # a
  <2> SUFFICES ASSUME NEW a \in D, L[a] # NULL, L[a] = a PROVE FALSE
    BY SMTT(30), SMTT(60)
  <2>1. R[a] = a /\ a # NULL
    BY <1>1, <1>6, SMTT(30), SMTT(60)
  <2> QED
    BY <1>7, <2>1, SMTT(30), SMTT(60)
<1>9. S[t] >= TagSize /\ (R[t] # NULL => R[t] \in D /\ R[t] # t /\ L[R[t]] = t)
      /\ (L[t] # NULL => L[t] \in D /\ L[t] # t /\ R[L[t]] = t)
  BY <1>4, <1>5, <1>6, <1>7, <1>8, SMTT(30), SMTT(60)
<1> QED
  BY <1>1, <1>4, <1>9, ZenonT(60) DEF D

(* The links of a listed tag lead to other listed tags. *)
LEMMA LinkFacts ==
  ASSUME MemTypes, Lists, NEW w \in DOMAIN tags, tags[w].index # NoIndex
  PROVE  /\ tags[w].index \in Indices
         /\ tags[w].prev # NULL => tags[w].prev \in DOMAIN tags \ {w}
         /\ tags[w].next # NULL => tags[w].next \in DOMAIN tags \ {w}
         /\ tags[w].next # NULL => tags[tags[w].next].prev = w
         /\ tags[w].prev = NULL <=> l_freePages[tags[w].index] = w
<1> DEFINE i == tags[w].index
<1>1. i \in Indices
  <2>1. tags \in [DOMAIN tags -> boundary_tag]
    BY SMTT(30), SMTT(60) DEF MemTypes
  <2>2. i \in Indices \union {NoIndex}
    BY <2>1, FieldTypes, SMTT(30), SMTT(60)
  <2> QED
    BY <2>2
<1>2. PICK n \in Nat : \E s \in [1 .. n -> Nat] : List(i, n, s)
  BY <1>1, SMTT(30), SMTT(60) DEF Lists
<1>3. PICK s \in [1 .. n -> Nat] : List(i, n, s)
  BY <1>2
<1>4. /\ tags[w].next # NULL => /\ tags[w].next \in DOMAIN tags /\ tags[tags[w].next].prev = w
      /\ tags[w].prev # NULL => /\ tags[w].prev \in DOMAIN tags /\ tags[tags[w].prev].next = w
      /\ tags[w].prev = NULL <=> l_freePages[i] = w
  <2>1. tags[w].index = i
    BY SMTT(30), SMTT(60)
  <2> HIDE DEF i
  <2>2. /\ tags[w].next # NULL => /\ tags[w].next \in DOMAIN tags /\ tags[tags[w].next].index = i
                                  /\ tags[tags[w].next].prev = w
        /\ tags[w].prev # NULL => /\ tags[w].prev \in DOMAIN tags /\ tags[tags[w].prev].index = i
                                  /\ tags[tags[w].prev].next = w
        /\ tags[w].prev = NULL <=> l_freePages[i] = w
    BY <1>3, <2>1, LinksStayInList, SMTT(30), SMTT(60)
  <2> QED
    BY <2>2, Zenon
<1>5. PICK k \in 1 .. n : s[k] = w
  BY <1>3, SMTT(30), SMTT(60) DEF List, Chain, IndexOf
<1>6. NextOf[w] = IF k = n THEN NULL ELSE s[k + 1]
  BY <1>3, <1>5, SMTT(30), SMTT(60) DEF List, Chain
<1>7. \A a, b \in 1 .. n : s[a] = s[b] => a = b
  BY <1>3, SMTT(30), SMTT(60) DEF List, Chain
<1>8. tags[w].next # NULL => tags[w].next # w
  <2>1. NextOf[w] = tags[w].next
    BY SMTT(30), SMTT(60) DEF NextOf
  <2>2. ASSUME tags[w].next # NULL PROVE k + 1 \in 1 .. n /\ k # k + 1 /\ tags[w].next = s[k + 1]
    BY <1>6, <2>1, <2>2, SMTT(30), SMTT(60)
  <2> QED
    BY <1>5, <1>7, <2>2, SMTT(30), SMTT(60)
<1>9. tags[w].prev # NULL => tags[w].prev # w
  <2> SUFFICES ASSUME tags[w].prev # NULL, tags[w].prev = w PROVE FALSE
    OBVIOUS
  <2>1. tags[w].next = w
    BY <1>4, Zenon
  <2>2. w # NULL
    BY SMTT(30), SMTT(60)
  <2> QED
    BY <1>8, <2>1, <2>2, SMTT(30), SMTT(60)
<1> QED
  BY <1>1, <1>4, <1>8, <1>9, SMTT(30), SMTT(60)

(* The first tag of a list is in the list. *)
LEMMA HeadFacts ==
  ASSUME MemTypes, Lists, NEW i \in Indices, l_freePages[i] # NULL
  PROVE  l_freePages[i] \in DOMAIN tags /\ tags[l_freePages[i]].index = i
<1>2. PICK n \in Nat : \E s \in [1 .. n -> Nat] : List(i, n, s)
  BY DEF Lists
<1>3. PICK s \in [1 .. n -> Nat] : List(i, n, s)
  BY <1>2, SMTT(30), SMTT(60)
<1>4. l_freePages[i] = IF n = 0 THEN NULL ELSE s[1]
  BY <1>3 DEF List, Chain
<1>5. \A k \in 1 .. n : s[k] \in DOMAIN tags /\ tags[s[k]].index = i
  BY <1>3, Zenon DEF List, Chain, IndexOf
<1>6. 1 \in 1 .. n /\ l_freePages[i] = s[1]
  BY <1>4
<1> QED
  BY <1>5, <1>6, SMTT(30), SMTT(60)

(* Free means: in a list. *)
LEMMA FreeIsListed ==
  ASSUME MemTypes, NEW t \in DOMAIN tags
  PROVE  /\ IsFree(t) <=> tags[t].index # NoIndex
         /\ tags[t].index # NoIndex <=> tags[t].index \in Indices
<1>1. tags \in [DOMAIN tags -> boundary_tag] /\ t # NULL
  BY DEF MemTypes
<1>2. tags[t].index \in Indices \union {NoIndex}
  BY <1>1, FieldTypes
<1>3. Indices \subseteq Nat
  BY LiballocAssumption DEF Indices
<1> QED
  BY <1>1, <1>2, <1>3, SMTT(30), SMTT(60) DEF IsFree, NoIndex

(* A step of the one caller. *)
LEMMA CallStep ==
  ASSUME Callers = {"main"}, call \in [Callers -> Calls], NEW rec \in Calls, Step("main", rec)
  PROVE  Main' = rec /\ call' \in [Callers -> Calls]
BY DEF Step, Main

(* The types of the call that is running. *)
LEMMA CallTypes ==
  ASSUME Callers = {"main"}, MemTypes
  PROVE  /\ Main \in Calls /\ Main.size \in Nat /\ Main.tag \in Nat /\ Main.old \in Nat
         /\ Idle \in Calls /\ Idle.pc = "idle"
<1>1. Main \in Calls
  BY DEF MemTypes, Main
<1>2. Main.size \in Nat /\ Main.tag \in Nat /\ Main.old \in Nat
  BY <1>1, SMTT(30), SMTT(60) DEF Calls
<1>3. Idle \in Calls /\ Idle.pc = "idle"
  BY SMTT(30), SMTT(60) DEF Calls, Idle, NULL
<1> QED
  BY <1>1, <1>2, <1>3, SMTT(30), SMTT(60)

-----------------------------------------------------------------------------
(* Being free and having a free neighbour, in terms of the fields. *)
LEMMA FreeMeans ==
  ASSUME MemTypes, Layout, NEW t \in DOMAIN tags
  PROVE  /\ ~RightIsFree(t) <=> (tags[t].split_right # NULL => tags[tags[t].split_right].index = NoIndex)
         /\ ~LeftIsFree(t) <=> (tags[t].split_left # NULL => tags[tags[t].split_left].index = NoIndex)
<1>1. /\ tags[t].split_left # NULL => tags[t].split_left \in DOMAIN tags
      /\ tags[t].split_right # NULL => tags[t].split_right \in DOMAIN tags
  BY NeighbourFacts, SMTT(30), SMTT(60)
<1>2. \A a \in DOMAIN tags : a # NULL /\ (IsFree(a) <=> tags[a].index # NoIndex)
  BY FreeIsListed DEF MemTypes
<1>3. ~IsFree(NULL)
  BY SMTT(30), SMTT(60) DEF IsFree
<1>4. ~RightIsFree(t) <=> (tags[t].split_right # NULL => tags[tags[t].split_right].index = NoIndex)
  BY <1>1, <1>2, <1>3, SMTT(30), SMTT(60) DEF RightIsFree
<1>5. ~LeftIsFree(t) <=> (tags[t].split_left # NULL => tags[tags[t].split_left].index = NoIndex)
  BY <1>1, <1>2, <1>3, SMTT(30), SMTT(60) DEF LeftIsFree
<1> QED
  BY <1>4, <1>5, SMTT(30), SMTT(60)

(* A step that changes neither sizes nor neighbours keeps the layout. *)
LEMMA LayoutSame ==
  ASSUME Layout, DOMAIN tags' = DOMAIN tags, blocks' = blocks,
         \A a \in DOMAIN tags : tags'[a].real_size = tags[a].real_size /\ SameSplit(tags', tags, a)
  PROVE  Layout'
<1>1. SizeOf' = SizeOf /\ LeftOf' = LeftOf /\ RightOf' = RightOf
  BY DEF SizeOf, LeftOf, RightOf, SameSplit
<1> QED
  BY <1>1, Zenon DEF Layout

(* A step that neither adds nor removes a whole free block keeps the count. *)
SameWhole ==
  /\ \A a \in DOMAIN tags : tags[a].index # NoIndex /\ Whole(a) =>
       a \in DOMAIN tags' /\ tags'[a].index = tags[a].index /\ Whole(a)'
  /\ \A a \in DOMAIN tags' : tags'[a].index # NoIndex /\ Whole(a)' =>
       a \in DOMAIN tags /\ tags'[a].index = tags[a].index /\ Whole(a)

(* The count of complete regions stays right when no region changes. *)
LEMMA CountedSame ==
  ASSUME Counted, SameWhole, l_completePages' = l_completePages
  PROVE  Counted'
<1> SUFFICES ASSUME NEW i \in Indices PROVE l_completePages[i] = Cardinality(WholeFree(i)')
  BY DEF Counted
<1>1. i # NoIndex
  BY NotAnIndex
<1>2. WholeFree(i)' = WholeFree(i)
  BY <1>1, Zenon DEF WholeFree, SameWhole
<1> QED
  BY <1>2, Zenon DEF Counted

(* One whole free block less, or one more, in list k. *)
LEMMA CountedLess ==
  ASSUME SetFacts, MemTypes, Counted, NEW k \in Indices, NEW t \in WholeFree(k), WholeFree(k)' = WholeFree(k) \ {t},
         \A i \in Indices \ {k} : WholeFree(i)' = WholeFree(i),
         l_completePages' = [l_completePages EXCEPT ![k] = @ - 1]
  PROVE  Counted' /\ l_completePages' \in [Indices -> 0 .. MaxComplete]
<1>1. IsFiniteSet(WholeFree(k))
  <2>1. WholeFree(k) \subseteq DOMAIN tags /\ IsFiniteSet(DOMAIN tags)
    BY SMTT(30), SMTT(60) DEF WholeFree, MemTypes
  <2> QED
    BY <2>1, SubsetIsFinite, SMTT(30), SMTT(60)
<1>2. Cardinality(WholeFree(k) \ {t}) = Cardinality(WholeFree(k)) - 1 /\ Cardinality(WholeFree(k) \ {t}) \in Nat
  BY <1>1, RemoveElement, CardinalityType, SMTT(30), SMTT(60)
<1>3. l_completePages \in [Indices -> 0 .. MaxComplete] /\ MaxComplete \in Nat
  BY LiballocAssumption, SMTT(30), SMTT(60) DEF MemTypes
<1>4. \A i \in Indices : l_completePages[i] = Cardinality(WholeFree(i))
  BY SMTT(30), SMTT(60) DEF Counted
<1>5. l_completePages'[k] = Cardinality(WholeFree(k)') /\ l_completePages'[k] \in 0 .. MaxComplete
  <2>1. l_completePages'[k] = l_completePages[k] - 1
    BY <1>3, SMTT(30), SMTT(60)
  <2>2. l_completePages[k] = Cardinality(WholeFree(k)) /\ l_completePages[k] \in 0 .. MaxComplete
    BY <1>3, <1>4, SMTT(30), SMTT(60)
  <2> QED
    BY <1>2, <1>3, <2>1, <2>2, SMTT(30), SMTT(60)
<1>6. \A i \in Indices \ {k} : l_completePages'[i] = l_completePages[i]
  BY <1>3
<1>7. Counted'
  BY <1>4, <1>5, <1>6, Zenon DEF Counted
<1>8. l_completePages' \in [Indices -> 0 .. MaxComplete]
  <2>1. \A i \in Indices : l_completePages'[i] \in 0 .. MaxComplete
    BY <1>3, <1>5, <1>6, SMTT(30), SMTT(60)
  <2>2. l_completePages' = [i \in Indices |-> l_completePages'[i]]
    BY <1>3, Zenon
  <2> QED
    BY <2>1, <2>2, ZenonT(60)
<1> QED
  BY <1>7, <1>8, SMTT(30), SMTT(60)

(* The count of complete regions stays right when one becomes complete. *)
LEMMA CountedMore ==
  ASSUME SetFacts, MemTypes, Counted, NEW k \in Indices, NEW t, t \notin WholeFree(k), WholeFree(k)' = WholeFree(k) \union {t},
         \A i \in Indices \ {k} : WholeFree(i)' = WholeFree(i), l_completePages[k] # MaxComplete,
         l_completePages' = [l_completePages EXCEPT ![k] = @ + 1]
  PROVE  Counted' /\ l_completePages' \in [Indices -> 0 .. MaxComplete]
<1>1. IsFiniteSet(WholeFree(k))
  <2>1. WholeFree(k) \subseteq DOMAIN tags /\ IsFiniteSet(DOMAIN tags)
    BY SMTT(30), SMTT(60) DEF WholeFree, MemTypes
  <2> QED
    BY <2>1, SubsetIsFinite, SMTT(30), SMTT(60)
<1>2. Cardinality(WholeFree(k) \union {t}) = Cardinality(WholeFree(k)) + 1
  BY <1>1, AddElement, SMTT(30), SMTT(60)
<1>3. l_completePages \in [Indices -> 0 .. MaxComplete] /\ MaxComplete \in Nat
  BY LiballocAssumption DEF MemTypes
<1>4. \A i \in Indices : l_completePages[i] = Cardinality(WholeFree(i))
  BY DEF Counted
<1>5. l_completePages'[k] = Cardinality(WholeFree(k)') /\ l_completePages'[k] \in 0 .. MaxComplete
  <2>1. l_completePages'[k] = l_completePages[k] + 1
    BY <1>3, SMTT(30), SMTT(60)
  <2>2. l_completePages[k] = Cardinality(WholeFree(k)) /\ l_completePages[k] \in 0 .. MaxComplete
    BY <1>3, <1>4, SMTT(30), SMTT(60)
  <2> QED
    BY <1>2, <1>3, <2>1, <2>2
<1>6. \A i \in Indices \ {k} : l_completePages'[i] = l_completePages[i]
  BY <1>3
<1>7. Counted'
  BY <1>4, <1>5, <1>6, Zenon DEF Counted
<1>8. l_completePages' \in [Indices -> 0 .. MaxComplete]
  <2>1. \A i \in Indices : l_completePages'[i] \in 0 .. MaxComplete
    BY <1>3, <1>5, <1>6, SMTT(30), SMTT(60)
  <2>2. l_completePages' = [i \in Indices |-> l_completePages'[i]]
    BY <1>3, Zenon
  <2> QED
    BY <2>1, <2>2, ZenonT(60)
<1> QED
  BY <1>7, <1>8, SMTT(30), SMTT(60)

(* remove_tag leaves the type of the heads of the lists. *)
LEMMA UnheadedType ==
  ASSUME MemTypes, NEW w \in DOMAIN tags, tags[w].index # NoIndex
  PROVE  Unheaded(w) \in [Indices -> Nat]
<1>1. l_freePages \in [Indices -> Nat] /\ tags \in [DOMAIN tags -> boundary_tag]
  BY SMTT(30), SMTT(60) DEF MemTypes
<1>2. tags[w].next \in Nat
  BY <1>1, FieldTypes, SMTT(30), SMTT(60)
<1> QED
  BY <1>1, <1>2, Zenon DEF Unheaded

-----------------------------------------------------------------------------
(* malloc takes the tag it found out of its list. *)
LEMMA TakeFoundKeeps ==
  ASSUME SetFacts, Callers = {"main"}, LibInv, TakeFound("main")
  PROVE  LibInv'
<1> DEFINE t == Main.tag
           D == DOMAIN tags
           i == ListOf(Main.size)
<1>1. MemTypes /\ BlocksOK /\ Layout /\ Lists /\ Owned /\ Joined /\ Counted /\ Progress
  BY DEF LibInv
<1>2. /\ Main.pc = "take" /\ t # NULL
      /\ tags' = Unlinked(tags, t) /\ l_freePages' = Unheaded(t)
      /\ l_completePages' = IF Whole(t) THEN [l_completePages EXCEPT ![i] = @ - 1] ELSE l_completePages
      /\ Step("main", [Main EXCEPT !.pc = "place"])
      /\ blocks' = blocks /\ objects' = objects
  BY DEF TakeFound, At, Main
<1>3. t \in D /\ tags[t].index = i /\ Payload(t) >= Main.size + TagSize /\ i \in Indices /\ i # NoIndex
  BY <1>1, <1>2, ListOfIndex, NotAnIndex, SMTT(30), SMTT(60) DEF Progress
<1>4. D \in SUBSET (Nat \ {NULL}) /\ NULL \notin D /\ tags \in [D -> boundary_tag]
  BY <1>1, SMTT(30), SMTT(60) DEF MemTypes
<1>5. /\ tags[t].prev # NULL => tags[t].prev \in D \ {t}
      /\ tags[t].next # NULL => tags[t].next \in D \ {t}
  BY <1>1, <1>3, LinkFacts, SMTT(30), SMTT(60)
<1> HIDE DEF i, D, t
<1>6. TagRemoved(D, Unlinked(tags, t), tags, t)
  BY <1>3, <1>4, <1>5, UnlinkFields, Zenon
<1>7. TagRemoved(D, tags', tags, t)
  BY <1>2, <1>6, ZenonT(60)
<1>8. tags' \in [D -> boundary_tag] /\ DOMAIN tags' = D
  BY <1>7 DEF TagRemoved
<1>9. \A a \in D : SameSize(tags', tags, a) /\ SameSplit(tags', tags, a)
  BY <1>7, Zenon DEF TagRemoved
<1>10. /\ \A a \in D \ {t} : tags'[a].index = tags[a].index
       /\ tags'[t].index = NoIndex
  BY <1>7, Zenon DEF TagRemoved
<1>11. [Main EXCEPT !.pc = "place"] \in Calls
  BY <1>1, CallTypes, SMTT(30), SMTT(60) DEF Calls
<1>12. Main' = [Main EXCEPT !.pc = "place"] /\ call' \in [Callers -> Calls]
  <2>1. call \in [Callers -> Calls]
    BY <1>1 DEF MemTypes
  <2> QED
    BY <1>2, <1>11, <2>1, CallStep, SMTT(30), SMTT(60)
<1>13. Main'.pc = "place" /\ Main'.tag = t /\ Main'.size = Main.size /\ Main'.old = Main.old
  <2>1. Main \in Calls
    BY <1>1, CallTypes, SMTT(30), SMTT(60)
  <2> QED
    BY <1>12, <2>1, SMTT(30), SMTT(60) DEF Calls, t
<1>14. FUnlink(t)
  <2>1. DOMAIN tags = D
    BY DEF D
  <2>2. l_freePages' = [l_freePages EXCEPT ![tags[t].index] = IF @ = t THEN tags[t].next ELSE @]
    BY <1>2, Zenon DEF Unheaded
  <2> QED
    BY <1>3, <1>7, <1>8, <1>9, <2>1, <2>2, ZenonT(60) DEF FUnlink, TagRemoved, SameSize
<1>15. Lists'
  BY <1>1, <1>14, FUnlinkLists, SMTT(30), SMTT(60)
<1>16. Layout'
  BY <1>1, <1>2, <1>8, <1>9, LayoutSame, SMTT(30), SMTT(60) DEF D, SameSize
<1>17. SameWhole \/ Whole(t)
  BY <1>3, <1>8, <1>9, <1>10, ZenonT(60) DEF SameWhole, Whole, SameSplit, D
<1>18. Counted' /\ l_completePages' \in [Indices -> 0 .. MaxComplete]
  <2>1. CASE ~Whole(t)
    BY <1>1, <1>2, <1>17, <2>1, CountedSame, SMTT(30), SMTT(60) DEF MemTypes
  <2>2. CASE Whole(t)
    <3>1. t \in WholeFree(i)
      BY <1>3, <2>2, SMTT(30), SMTT(60) DEF WholeFree, D
    <3>2. ASSUME NEW k \in Indices PROVE WholeFree(k)' = WholeFree(k) \ {t}
      <4>1. k # NoIndex
        BY NotAnIndex
      <4>2. \A a \in D : a \in WholeFree(k)' <=> a \in WholeFree(k) /\ a # t
        BY <1>8, <1>9, <1>10, <4>1, ZenonT(60) DEF WholeFree, Whole, SameSplit, D
      <4>3. WholeFree(k)' \subseteq D /\ WholeFree(k) \subseteq D
        BY <1>8, SMTT(30), SMTT(60) DEF WholeFree, D
      <4> QED
        BY <4>2, <4>3, SMTT(30), SMTT(60)
    <3>3. \A k \in Indices \ {i} : WholeFree(k)' = WholeFree(k)
      <4> SUFFICES ASSUME NEW k \in Indices \ {i} PROVE WholeFree(k)' = WholeFree(k)
        BY SMTT(30), SMTT(60)
      <4>1. t \notin WholeFree(k)
        BY <1>3, SMTT(30), SMTT(60) DEF WholeFree
      <4> QED
        BY <3>2, <4>1, SMTT(30), SMTT(60)
    <3> QED
      BY <1>1, <1>2, <1>3, <2>2, <3>1, <3>2, <3>3, CountedLess, ZenonT(60)
  <2> QED
    BY <2>1, <2>2, SMTT(30), SMTT(60)
<1>19. MemTypes'
  <2>1. l_freePages' \in [Indices -> Nat]
    BY <1>1, <1>2, <1>3, UnheadedType, SMTT(30), SMTT(60) DEF D
  <2>2. D \subseteq Nat \ {NULL} /\ IsFiniteSet(D)
    BY <1>1 DEF MemTypes, D
  <2> QED
    BY <1>8, <1>12, <1>18, <2>1, <2>2, SMTT(30), SMTT(60) DEF MemTypes
<1>20. BlocksOK'
  BY <1>1, <1>2, SMTT(30), SMTT(60) DEF BlocksOK
<1>22. \A a \in D : tags[a].split_right # NULL => tags[a].split_right \in D /\ tags[a].split_right # a
  BY <1>1, NeighbourFacts, SMTT(30), SMTT(60) DEF D
<1>23. \A a \in D : tags[a].index # NoIndex /\ tags[a].split_right # NULL => tags[tags[a].split_right].index = NoIndex
  BY <1>1 DEF Joined, D
<1>24. Joined'
  <2> SUFFICES ASSUME NEW a \in D, tags'[a].index # NoIndex, tags'[a].split_right # NULL
               PROVE  tags'[tags'[a].split_right].index = NoIndex
    BY <1>8, Zenon DEF Joined
  <2> DEFINE r == tags[a].split_right
  <2>1. tags'[a].split_right = r
    BY <1>9, Zenon DEF SameSplit
  <2>2. tags[a].index # NoIndex
    BY <1>10, Zenon
  <2>3. r \in D /\ tags[r].index = NoIndex
    BY <1>22, <1>23, <2>1, <2>2, Zenon
  <2>4. tags'[r].index = NoIndex
    BY <1>10, <2>3, Zenon
  <2> QED
    BY <2>1, <2>4, Zenon
<1>25. Taken = {} /\ Taken' = {t} /\ GivenUp' = GivenUp
  BY <1>2, <1>13, SMTT(30), SMTT(60) DEF Taken, GivenUp
<1>26. Owned'
  <2>1. /\ \A a \in D : tags[a].index = NoIndex <=> a \in objects \union GivenUp
        /\ objects \union GivenUp \subseteq D /\ objects \cap GivenUp = {}
        /\ \A p \in objects : TagSize + tags[p].size <= tags[p].real_size
    BY <1>1, <1>25, SMTT(30), SMTT(60) DEF Owned, D
  <2>2. t \notin objects \union GivenUp
    BY <1>3, <2>1, SMTT(30), SMTT(60)
  <2>3. \A a \in D : tags'[a].index = NoIndex <=> a \in objects \union {t} \union GivenUp
    BY <1>10, <2>1, Zenon
  <2>4. \A p \in objects : TagSize + tags'[p].size <= tags'[p].real_size
    BY <1>9, <2>1, ZenonT(60) DEF SameSize
  <2>5. objects \union {t} \union GivenUp \subseteq D /\ objects \cap {t} = {} /\ {t} \cap GivenUp = {}
    BY <1>3, <2>1, <2>2, SMTT(30), SMTT(60)
  <2> QED
    BY <1>2, <1>8, <1>25, <2>1, <2>3, <2>4, <2>5, ZenonT(60) DEF Owned
<1>27. Progress'
  <2>1. TagSize + Main.size <= tags'[t].real_size
    <3>1. tags'[t].real_size = tags[t].real_size
      BY <1>3, <1>9, Zenon DEF SameSize
    <3>2. tags[t].real_size \in Nat /\ TagSize \in Nat /\ Main.size \in Nat
      BY <1>1, <1>3, <1>4, FieldTypes, CallTypes, LiballocAssumption, ZenonT(60)
    <3> QED
      BY <1>3, <3>1, <3>2, SMTT(30), SMTT(60) DEF Payload
  <2>2. tags'[t].split_right # NULL => tags'[tags'[t].split_right].index = NoIndex
    <3>1. tags'[t].split_right = tags[t].split_right
      BY <1>3, <1>9, ZenonT(60) DEF SameSplit
    <3>2. tags[t].split_right # NULL => tags'[tags[t].split_right].index = NoIndex
      BY <1>3, <1>10, <1>22, <1>23, ZenonT(60)
    <3> QED
      BY <3>1, <3>2, Zenon
  <2>3. RightTaken'
    BY <1>13, <2>2, ZenonT(60) DEF RightTaken
  <2> QED
    BY <1>13, <2>1, <2>3, ZenonT(60) DEF Progress
<1> QED
  BY <1>15, <1>16, <1>18, <1>19, <1>20, <1>24, <1>26, <1>27, SMTT(30), SMTT(60) DEF LibInv

-----------------------------------------------------------------------------
(* The beginning of a call: what was the caller's, if anything, is the      *)
(* call's.                                                                  *)
LEMMA StartKeeps ==
  ASSUME Callers = {"main"}, LibInv, Main.pc = "idle",
         UNCHANGED <<tags, l_freePages, l_completePages, blocks>>, call' \in [Callers -> Calls],
         NEW X \in SUBSET objects, objects' = objects \ X,
         Taken' \union GivenUp' = X, Taken' \cap GivenUp' = {}, Progress'
  PROVE  LibInv'
<1>1. MemTypes /\ BlocksOK /\ Layout /\ Lists /\ Owned /\ Joined /\ Counted /\ Progress
  BY SMTT(30), SMTT(60) DEF LibInv
<1>2. tags' = tags /\ l_freePages' = l_freePages /\ l_completePages' = l_completePages /\ blocks' = blocks
  BY SMTT(30), SMTT(60)
<1>3. MemTypes'
  BY <1>1, <1>2, SMTT(30), SMTT(60) DEF MemTypes
<1>4. BlocksOK'
  BY <1>1, <1>2, SMTT(30), SMTT(60) DEF BlocksOK
<1>5. Layout'
  BY <1>1, <1>2, SMTT(30), SMTT(60) DEF Layout, SizeOf, LeftOf, RightOf
<1>6. Lists'
  BY <1>1, <1>2, ZenonT(60) DEF Lists, List, IndexOf, NextOf, PrevOf, Payload
<1>7. Joined'
  BY <1>1, <1>2, SMTT(30), SMTT(60) DEF Joined
<1>8. Counted'
  BY <1>1, <1>2, SMTT(30), SMTT(60) DEF Counted, WholeFree, Whole
<1>9. Taken = {} /\ GivenUp = {}
  BY DEF Taken, GivenUp
<1>10. Owned'
  <2>1. /\ \A a \in DOMAIN tags : tags[a].index = NoIndex <=> a \in objects
        /\ objects \subseteq DOMAIN tags
        /\ \A p \in objects : TagSize + tags[p].size <= tags[p].real_size
    BY <1>1, <1>9, SMTT(30), SMTT(60) DEF Owned
  <2>2. objects' \union Taken' \union GivenUp' = objects /\ objects' \cap Taken' = {} /\ objects' \cap GivenUp' = {}
    BY SMTT(30), SMTT(60)
  <2> QED
    BY <1>2, <2>1, <2>2, ZenonT(60) DEF Owned
<1> QED
  BY <1>3, <1>4, <1>5, <1>6, <1>7, <1>8, <1>10, SMTT(30), SMTT(60) DEF LibInv

(* malloc, up to the end of the search, and realloc. *)
LEMMA SearchKeeps ==
  ASSUME SetFacts, Callers = {"main"}, LibInv, NEW size \in Nat, NEW p \in Nat, StartMalloc("main", size, p),
         NEW X \in SUBSET objects, objects' = objects \ X, X = IF p = NULL THEN {} ELSE {p}
  PROVE  LibInv'
<1>1. PICK t \in Search(size) : Step("main", [pc |-> "take", size |-> size, tag |-> t, old |-> p])
  BY SMTT(30), SMTT(60) DEF StartMalloc
<1>2. Main.pc = "idle" /\ UNCHANGED <<tags, l_freePages, l_completePages, blocks>>
  BY SMTT(30), SMTT(60) DEF StartMalloc, At, Main
<1>3. MemTypes /\ Lists
  BY SMTT(30), SMTT(60) DEF LibInv
<1>4. t \in Nat /\ (t # NULL => t \in DOMAIN tags /\ tags[t].index = ListOf(size) /\ Payload(t) >= size + TagSize)
  BY <1>3, SearchFits, SMTT(30), SMTT(60)
<1>5. [pc |-> "take", size |-> size, tag |-> t, old |-> p] \in Calls
  BY <1>4, SMTT(30), SMTT(60) DEF Calls
<1>6. Main' = [pc |-> "take", size |-> size, tag |-> t, old |-> p] /\ call' \in [Callers -> Calls]
  BY <1>1, <1>3, <1>5, CallStep, SMTT(30), SMTT(60) DEF MemTypes
<1>7. Main'.pc = "take" /\ Main'.size = size /\ Main'.tag = t /\ Main'.old = p
  BY <1>6, SMTT(30), SMTT(60)
<1>8. Taken' = {} /\ GivenUp' = X
  BY <1>7, SMTT(30), SMTT(60) DEF Taken, GivenUp
<1>9. Progress'
  <2>1. t # NULL => t \in DOMAIN tags' /\ tags'[t].index = ListOf(size) /\ tags'[t].real_size - TagSize >= size + TagSize
    BY <1>2, <1>4, SMTT(30), SMTT(60) DEF Payload
  <2> QED
    BY <1>7, <2>1, ZenonT(60) DEF Progress, Payload
<1> QED
  BY <1>2, <1>6, <1>8, <1>9, StartKeeps, SMTT(30), SMTT(60)

(* The call of malloc keeps the invariant. *)
LEMMA mallocKeeps ==
  ASSUME SetFacts, Callers = {"main"}, LibInv, malloc("main")
  PROVE  LibInv'
<1>1. PICK size \in Sizes : StartMalloc("main", size, NULL) /\ objects' = objects
  BY SMTT(30), SMTT(60) DEF malloc
<1>2. size \in Nat
  BY LiballocAssumption, SMTT(30), SMTT(60)
<1>3. {} \in SUBSET objects /\ objects' = objects \ {} /\ NULL \in Nat
  BY <1>1 DEF NULL
<1> QED
  BY <1>1, <1>2, <1>3, SearchKeeps, ZenonT(60)

(* The call of realloc keeps the invariant. *)
LEMMA reallocKeeps ==
  ASSUME SetFacts, Callers = {"main"}, LibInv, realloc("main")
  PROVE  LibInv'
<1>1. PICK size \in Sizes \ {0}, p \in objects : StartMalloc("main", size, p) /\ objects' = objects \ {p}
  BY SMTT(30), SMTT(60) DEF realloc
<1>2. size \in Nat
  BY LiballocAssumption, SMTT(30), SMTT(60)
<1>3. p \in Nat /\ p # NULL
  BY DEF LibInv, MemTypes, Owned
<1> QED
  BY <1>1, <1>2, <1>3, SearchKeeps, ZenonT(60)

(* The call of free keeps the invariant. *)
LEMMA freeKeeps ==
  ASSUME Callers = {"main"}, LibInv, free("main")
  PROVE  LibInv'
<1>1. PICK p \in objects : objects' = objects \ {p} /\ Step("main", [Idle EXCEPT !.pc = "melt", !.tag = p])
  BY Zenon DEF free
<1>2. Main.pc = "idle" /\ UNCHANGED <<tags, l_freePages, l_completePages, blocks>>
  BY SMTT(30), SMTT(60) DEF free, At, Main
<1>3. p \in Nat /\ p # NULL /\ call \in [Callers -> Calls]
  BY DEF LibInv, MemTypes, Owned
<1>4. [Idle EXCEPT !.pc = "melt", !.tag = p] \in Calls
  BY <1>3, Zenon DEF Calls, Idle, NULL
<1>5. Main' = [Idle EXCEPT !.pc = "melt", !.tag = p] /\ call' \in [Callers -> Calls]
  BY <1>1, <1>3, <1>4, CallStep, SMTT(30), SMTT(60)
<1>6. Main'.pc = "melt" /\ Main'.tag = p
  BY <1>5, SMTT(30), SMTT(60) DEF Idle
<1>7. Taken' = {p} /\ GivenUp' = {}
  BY <1>6, SMTT(30), SMTT(60) DEF Taken, GivenUp
<1>8. Progress'
  BY <1>6 DEF Progress
<1> QED
  BY <1>1, <1>2, <1>5, <1>7, <1>8, StartKeeps, SMTT(30), SMTT(60)
=============================================================================
