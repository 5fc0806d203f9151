---------------------------- MODULE MallocProofs ----------------------------
(***************************************************************************)
(* The proofs about malloc, realloc and free with one caller: each of their *)
(* steps keeps LibInv, one lemma per action.  The actions that start a call *)
(* and the one that takes a free tag are in LiballocProofs.                 *)
(***************************************************************************)
EXTENDS LiballocProofs

(* The tag that free works on. *)
LEMMA FreedFacts ==
  ASSUME Callers = {"main"}, LibInv, Main.pc \in {"melt", "absorb"}
  PROVE  /\ Taken = {Main.tag} /\ GivenUp = {} /\ Main.tag \in DOMAIN tags /\ Main.tag \notin objects
         /\ tags[Main.tag].index = NoIndex /\ tags[Main.tag].next = NULL /\ tags[Main.tag].prev = NULL
         /\ \A a \in DOMAIN tags : tags[a].index = NoIndex <=> a \in objects \union {Main.tag}
         /\ objects \subseteq DOMAIN tags
         /\ \A p \in objects : TagSize + tags[p].size <= tags[p].real_size
<1>1. Taken = {Main.tag} /\ GivenUp = {}
  BY DEF Taken, GivenUp
<1>2. /\ \A a \in DOMAIN tags : tags[a].index = NoIndex <=> a \in objects \union {Main.tag}
      /\ objects \union {Main.tag} \subseteq DOMAIN tags /\ objects \cap {Main.tag} = {}
      /\ \A p \in objects : TagSize + tags[p].size <= tags[p].real_size
  BY <1>1 DEF LibInv, Owned
<1>3. tags[Main.tag].index = NoIndex /\ Main.tag \in DOMAIN tags
  BY <1>2
<1>4. tags[Main.tag].next = NULL /\ tags[Main.tag].prev = NULL
  BY <1>3 DEF LibInv, Lists
<1> QED
  BY <1>1, <1>2, <1>3, <1>4

(* Where the call is when the joining with the left neighbour has ended. *)
LEMMA MeltDoneFacts ==
  ASSUME Callers = {"main"}, LibInv, MeltDone("main")
  PROVE  Main.pc \in {"melt", "absorb"} /\ LeftTaken
<1>1. (Main.pc = "melt" /\ ~LeftIsFree(Main.tag)) \/ Main.pc = "absorb"
  BY DEF MeltDone, At, Main
<1>2. CASE Main.pc = "absorb"
  BY <1>2 DEF LibInv, Progress
<1>3. CASE Main.pc = "melt" /\ ~LeftIsFree(Main.tag)
  <2>1. Main.tag \in DOMAIN tags
    BY <1>3, FreedFacts
  <2>2. MemTypes /\ Layout
    BY SMTT(30) DEF LibInv
  <2> QED
    BY <1>3, <2>1, <2>2, FreeMeans, SMTT(30), SMTT(60) DEF LeftTaken
<1> QED
  BY <1>1, <1>2, <1>3, SMTT(30), SMTT(60)

(* free puts the joined tag into its list. *)
LEMMA PutBackKeeps ==
  ASSUME SetFacts, Callers = {"main"}, LibInv, PutBack("main")
  PROVE  LibInv'
<1> DEFINE t == Main.tag
           D == DOMAIN tags
           i == ListOf(Payload(Main.tag))
<1>1. MemTypes /\ BlocksOK /\ Layout /\ Lists /\ Owned /\ Joined /\ Counted /\ Progress
  BY DEF LibInv
<1>2. /\ MeltDone("main") /\ ~RightIsFree(t)
      /\ Whole(t) => l_completePages[i] # MaxComplete
      /\ tags' = Inserted(tags, t, i) /\ l_freePages' = [l_freePages EXCEPT ![i] = t]
      /\ l_completePages' = IF Whole(t) THEN [l_completePages EXCEPT ![i] = @ + 1] ELSE l_completePages
      /\ Step("main", Idle)
      /\ blocks' = blocks /\ objects' = objects
  BY DEF PutBack, Main
<1>3. i \in Indices /\ i # NoIndex
  BY ListOfIndex, NotAnIndex, SMTT(30), SMTT(60)
<1>4. /\ t \in D /\ tags[t].index = NoIndex /\ t \notin objects /\ tags[t].next = NULL /\ tags[t].prev = NULL
      /\ \A a \in D : tags[a].index = NoIndex <=> a \in objects \union {t}
      /\ objects \subseteq D /\ \A p \in objects : TagSize + tags[p].size <= tags[p].real_size
  BY <1>2, MeltDoneFacts, FreedFacts, SMTT(30), SMTT(60)
<1>5. LeftTaken /\ RightTaken
  <2>1. LeftTaken
    BY <1>2, MeltDoneFacts, SMTT(30), SMTT(60)
  <2>2. RightTaken
    BY <1>1, <1>2, <1>4, FreeMeans, SMTT(30), SMTT(60) DEF RightTaken
  <2> QED
    BY <2>1, <2>2, SMTT(30), SMTT(60)
<1>6. D \in SUBSET (Nat \ {NULL}) /\ tags \in [D -> boundary_tag] /\ l_freePages \in [Indices -> Nat]
  BY <1>1 DEF MemTypes
<1>7. l_freePages[i] # NULL => l_freePages[i] \in D \ {t}
  <2>1. l_freePages[i] # NULL => l_freePages[i] \in D /\ tags[l_freePages[i]].index = i
    BY <1>1, <1>3, HeadFacts, SMTT(30), SMTT(60)
  <2> QED
    BY <1>3, <1>4, <2>1, SMTT(30), SMTT(60)
<1> DEFINE h == l_freePages[i]
<1> HIDE DEF i, D, t
<1>8. TagInserted(D, Inserted(tags, t, i), tags, t, i, l_freePages[i])
  BY <1>3, <1>4, <1>6, <1>7, InsertFields, SMTT(30), SMTT(60)
<1>9. TagInserted(D, tags', tags, t, i, h)
  BY <1>2, <1>8, Zenon
<1> HIDE DEF h
<1>10. tags' \in [D -> boundary_tag] /\ DOMAIN tags' = D
  BY <1>9 DEF TagInserted
<1>11. \A a \in D : SameSize(tags', tags, a) /\ SameSplit(tags', tags, a)
  BY <1>9, Zenon DEF TagInserted
<1>12. /\ \A a \in D \ {t} : tags'[a].index = tags[a].index
       /\ tags'[t].index = i
  BY <1>9, Zenon DEF TagInserted
<1>13. Main' = Idle /\ call' \in [Callers -> Calls] /\ Main'.pc = "idle"
  <2>1. call \in [Callers -> Calls] /\ Idle \in Calls /\ Idle.pc = "idle"
    BY <1>1, CallTypes DEF MemTypes
  <2> QED
    BY <1>2, <2>1, CallStep, SMTT(30), SMTT(60)
<1>14. FInsert(t, i)
  <2>1. DOMAIN tags = D /\ D \union {t} = D /\ t \in Nat \ {NULL}
    BY <1>4, <1>6, Zenon DEF D
  <2>2. i = ListOf(tags'[t].real_size - TagSize)
    <3>1. tags'[t].real_size = tags[t].real_size
      BY <1>4, <1>11, Zenon DEF SameSize
    <3> QED
      BY <3>1 DEF i, t, Payload
  <2>3. /\ \A a \in D \ {t} : tags'[a].next = tags[a].next /\ tags'[a].prev = IF a = h THEN t ELSE tags[a].prev
        /\ tags'[t].next = h /\ tags'[t].prev = NULL
    BY <1>4, <1>9, Zenon DEF TagInserted
  <2>4. \A a \in D \ {t} : tags'[a].real_size = tags[a].real_size
    BY <1>11, Zenon DEF SameSize
  <2> QED
    BY <1>2, <1>3, <1>4, <1>10, <1>12, <2>1, <2>2, <2>3, <2>4, ZenonT(60) DEF FInsert, h
<1>15. Lists'
  BY <1>1, <1>14, FInsertLists, SMTT(30), SMTT(60)
<1>16. Layout'
  BY <1>1, <1>2, <1>10, <1>11, LayoutSame, SMTT(30), SMTT(60) DEF D, SameSize
<1>17. SameWhole \/ Whole(t)
  BY <1>4, <1>10, <1>11, <1>12, ZenonT(60) DEF SameWhole, Whole, SameSplit, D
<1>18. Counted' /\ l_completePages' \in [Indices -> 0 .. MaxComplete]
  <2>1. CASE ~Whole(t)
    BY <1>1, <1>2, <1>17, <2>1, CountedSame, SMTT(30), SMTT(60) DEF MemTypes
  <2>2. CASE Whole(t)
    <3>0. PICK j \in Indices : j = i
      BY <1>3
    <3>1. t \notin WholeFree(j)
      BY <1>3, <1>4, <3>0, SMTT(30), SMTT(60) DEF WholeFree
    <3>2. WholeFree(j)' = WholeFree(j) \union {t}
      <4>2. \A a \in D : a \in WholeFree(j)' <=> a \in WholeFree(j) \/ a = t
        BY <1>4, <1>10, <1>11, <1>12, <2>2, <3>0, ZenonT(60) DEF WholeFree, Whole, SameSplit, D
      <4>3. WholeFree(j)' \subseteq D /\ WholeFree(j) \union {t} \subseteq D
        BY <1>4, <1>10, SMTT(30), SMTT(60) DEF WholeFree, D
      <4> QED
        BY <4>2, <4>3
    <3>4. l_completePages' = [l_completePages EXCEPT ![j] = @ + 1] /\ l_completePages[j] # MaxComplete
      BY <1>2, <2>2, <3>0, SMTT(30), SMTT(60)
    <3>3. ASSUME NEW k \in Indices \ {j} PROVE WholeFree(k)' = WholeFree(k)
      <4>1. k # NoIndex /\ k # i
        BY <3>0, NotAnIndex, SMTT(30), SMTT(60)
      <4>2. \A a \in D : a \in WholeFree(k)' <=> a \in WholeFree(k)
        BY <1>4, <1>10, <1>11, <1>12, <4>1, ZenonT(60) DEF WholeFree, Whole, SameSplit, D
      <4>3. WholeFree(k)' \subseteq D /\ WholeFree(k) \subseteq D
        BY <1>10 DEF WholeFree, D
      <4> QED
        BY <4>2, <4>3, SMTT(30), SMTT(60)
    <3> QED
      BY <1>1, <3>1, <3>2, <3>3, <3>4, CountedMore, ZenonT(60)
  <2> QED
    BY <2>1, <2>2
<1>19. MemTypes'
  <2>1. l_freePages' \in [Indices -> Nat]
    BY <1>2, <1>3, <1>4, <1>6, SMTT(30), SMTT(60)
  <2>2. D \subseteq Nat \ {NULL} /\ IsFiniteSet(D)
    BY <1>1 DEF MemTypes, D
  <2> QED
    BY <1>10, <1>13, <1>18, <2>1, <2>2, SMTT(30), SMTT(60) DEF MemTypes
<1>20. BlocksOK'
  BY <1>1, <1>2 DEF BlocksOK
<1>24. Joined'
  <2> SUFFICES ASSUME NEW a \in D, tags'[a].index # NoIndex, tags'[a].split_right # NULL
               PROVE  tags'[tags'[a].split_right].index = NoIndex
    BY <1>10, Zenon DEF Joined
  <2> DEFINE r == tags[a].split_right
  <2>1. tags'[a].split_right = r /\ r # NULL
    BY <1>11, Zenon DEF SameSplit
  <2>2. r \in D /\ tags[r].split_left = a
    BY <1>1, <2>1, NeighbourFacts, SMTT(30), SMTT(60) DEF D
  <2>3. a \in Nat \ {NULL}
    BY <1>6
  <2>4. tags[r].index = NoIndex
    <3>1. CASE a = t
      BY <1>5, <2>1, <3>1, SMTT(30), SMTT(60) DEF RightTaken, t
    <3>2. CASE a # t
      BY <1>1, <1>12, <2>1, <3>2, ZenonT(40) DEF Joined, D
    <3> QED
      BY <3>1, <3>2, SMTT(30), SMTT(60)
  <2>5. r # t
    <3> SUFFICES ASSUME r = t PROVE FALSE
      OBVIOUS
    <3>1. tags[t].split_left = a
      BY <2>2
    <3>2. tags[a].index = NoIndex
      BY <1>5, <2>3, <3>1, SMTT(30), SMTT(60) DEF LeftTaken, t
    <3>3. a = t
      BY <1>12, <3>2, Zenon
    <3>4. tags[a].split_right # a
      BY <1>1, <2>1, NeighbourFacts, SMTT(30), SMTT(60) DEF D
    <3> QED
      BY <3>3, <3>4
  <2>6. tags'[r].index = NoIndex
    BY <1>12, <2>2, <2>4, <2>5, ZenonT(40)
  <2> QED
    BY <2>1, <2>6, Zenon
<1>25. Taken' = {} /\ GivenUp' = {}
  BY <1>13 DEF Taken, GivenUp
<1>26. Owned'
  <2>3. \A a \in D : tags'[a].index = NoIndex <=> a \in objects
    BY <1>3, <1>4, <1>12, Zenon
  <2>4. \A p \in objects : TagSize + tags'[p].size <= tags'[p].real_size
    BY <1>4, <1>11, Zenon DEF SameSize
  <2>5. objects \union {} \union {} = objects /\ objects \cap {} = {} /\ {} \cap {} = {}
    OBVIOUS
  <2> QED
    BY <1>2, <1>4, <1>10, <1>25, <2>3, <2>4, <2>5, ZenonT(60) DEF Owned
<1>27. Progress'
  BY <1>13 DEF Progress
<1> QED
  BY <1>15, <1>16, <1>18, <1>19, <1>20, <1>24, <1>26, <1>27, SMTT(30), SMTT(60) DEF LibInv

-----------------------------------------------------------------------------
(* Multiplication distributes over addition. *)
LEMMA Distributes == \A a, b, m \in Nat : (a + b) * m = a * m + b * m /\ a * m \in Nat /\ (a + b) * m \in Nat
OBVIOUS

(* The block whose only tag is t is the one that free computes from t. *)
LEMMA BlockOfWhole ==
  ASSUME MemTypes, BlocksOK, NEW t \in DOMAIN tags, NEW k \in blocks,
         t = BlockStart(k), t + tags[t].real_size = BlockEnd(k)
  PROVE  [start |-> t \div l_pageSize, pages |-> PagesFor(Payload(t))] = k
<1>1. k \in [start : Nat, pages : Nat] /\ k.pages >= l_pageCount
  BY DEF BlocksOK, Provider!Block
<1>2. k.start \in Nat /\ k.pages \in Nat /\ k = [start |-> k.start, pages |-> k.pages]
  BY <1>1
<1>3. l_pageSize \in Nat \ {0} /\ TagSize \in Nat
  BY LiballocAssumption
<1>4. BlockEnd(k) = k.start * l_pageSize + k.pages * l_pageSize /\ k.pages * l_pageSize \in Nat /\ k.start * l_pageSize \in Nat
  BY <1>2, <1>3, Distributes, SMTT(30), SMTT(60) DEF BlockEnd
<1>5. tags[t].real_size \in Nat
  BY FieldTypes DEF MemTypes
<1>6. tags[t].real_size = k.pages * l_pageSize
  BY <1>4, <1>5 DEF BlockStart
<1>7. Payload(t) = k.pages * l_pageSize - TagSize /\ Payload(t) \in Int
  BY <1>3, <1>4, <1>6, SMTT(30), SMTT(60) DEF Payload
<1>8. PagesFor(Payload(t)) = k.pages
  BY <1>1, <1>2, <1>7, PagesForWhole, SMTT(30), SMTT(60)
<1>9. t \div l_pageSize = k.start
  BY <1>2, <1>3, Multiples, SMTT(30), SMTT(60) DEF BlockStart
<1> QED
  BY <1>2, <1>8, <1>9, SMTT(30), SMTT(60)

(* free gives a whole block back. *)
LEMMA GiveBackKeeps ==
  ASSUME SetFacts, Callers = {"main"}, LibInv, GiveBack("main")
  PROVE  LibInv'
<1> DEFINE t == Main.tag
           D == DOMAIN tags
           b == [start |-> t \div l_pageSize, pages |-> PagesFor(Payload(t))]
           E == D \ {t}
<1>1. MemTypes /\ BlocksOK /\ Layout /\ Lists /\ Owned /\ Joined /\ Counted /\ Progress
  BY DEF LibInv
<1>2. /\ MeltDone("main") /\ Whole(t)
      /\ blocks' = blocks \ {b} /\ tags' = Dropped(tags, t)
      /\ Step("main", Idle)
      /\ l_freePages' = l_freePages /\ l_completePages' = l_completePages /\ objects' = objects
  BY SMTT(30), SMTT(60) DEF GiveBack, Main
<1>3. /\ t \in D /\ tags[t].index = NoIndex /\ t \notin objects
      /\ \A a \in D : tags[a].index = NoIndex <=> a \in objects \union {t}
      /\ objects \subseteq D /\ \A p \in objects : TagSize + tags[p].size <= tags[p].real_size
  BY <1>2, MeltDoneFacts, FreedFacts, SMTT(30), SMTT(60)
<1>4. tags[t].split_left = NULL /\ tags[t].split_right = NULL
  BY <1>2 DEF Whole
<1>5. /\ D \in SUBSET (Nat \ {NULL}) /\ SizeOf \in [D -> Nat] /\ LeftOf \in [D -> Nat] /\ RightOf \in [D -> Nat]
      /\ \A a \in D : SizeOf[a] = tags[a].real_size /\ LeftOf[a] = tags[a].split_left /\ RightOf[a] = tags[a].split_right
  BY <1>1, TagFns, SMTT(30), SMTT(60)
<1>6. Spaced(blocks)
  BY <1>1, BlocksAreSpaced, SMTT(30), SMTT(60)
<1>7. Tiles(D, SizeOf, blocks) /\ Adjacent(D, SizeOf, LeftOf, RightOf, blocks)
  BY <1>1, SMTT(30), SMTT(60) DEF Layout
<1>8. LeftOf[t] = NULL /\ RightOf[t] = NULL
  BY <1>3, <1>4, <1>5, SMTT(30), SMTT(60)
<1>9. PICK k \in blocks : t = BlockStart(k) /\ t + SizeOf[t] = BlockEnd(k)
  <2> HIDE DEF D, t
  <2> QED
    BY <1>3, <1>5, <1>6, <1>7, <1>8, WholeIsBlock, SMTT(30), SMTT(60)
<1>10. b = k
  BY <1>1, <1>3, <1>5, <1>9, BlockOfWhole, SMTT(30), SMTT(60)
<1>11. blocks' = blocks \ {k}
  BY <1>2, <1>10, SMTT(30), SMTT(60)
<1>12. tags' = [a \in E |-> tags[a]]
  BY <1>2 DEF Dropped
<1>13. DOMAIN tags' = E /\ \A a \in E : tags'[a] = tags[a]
  BY <1>12
<1> HIDE DEF b, t, D, E
<1>14. E = D \ {t} /\ D = DOMAIN tags
  BY DEF E, D
<1>15. Layout'
  <2>1. SizeOf' = [a \in E |-> tags'[a].real_size] /\ LeftOf' = [a \in E |-> tags'[a].split_left]
        /\ RightOf' = [a \in E |-> tags'[a].split_right]
    BY <1>13 DEF SizeOf, LeftOf, RightOf
  <2>2. \A a \in E : SizeOf'[a] = SizeOf[a] /\ LeftOf'[a] = LeftOf[a] /\ RightOf'[a] = RightOf[a]
    BY <1>5, <1>13, <1>14, <2>1, SMTT(30), SMTT(60)
  <2>w. WithoutTag(D, SizeOf, LeftOf, RightOf, t, E, SizeOf', LeftOf', RightOf')
    BY <1>14, <2>2, ZenonT(60) DEF WithoutTag
  <2>3. Tiles(E, SizeOf', blocks \ {k}) /\ Adjacent(E, SizeOf', LeftOf', RightOf', blocks \ {k})
    BY <1>3, <1>5, <1>6, <1>7, <1>8, <1>9, <2>w, DropKeeps, SMTT(30), SMTT(60)
  <2> QED
    BY <1>11, <1>13, <2>3, ZenonT(40) DEF Layout
<1>16. FSame
  <2>1. \A a \in D : tags[a].index # NoIndex => a \in E
    BY <1>3, <1>14
  <2>2. \A a \in E : a \in D /\ (tags[a].index = NoIndex => tags[a].next = NULL /\ tags[a].prev = NULL)
    BY <1>1, <1>14, Zenon DEF Lists
  <2> QED
    BY <1>2, <1>13, <1>14, <2>1, <2>2, ZenonT(60) DEF FSame
<1>17. Lists'
  BY <1>1, <1>16, FSameLists, SMTT(30), SMTT(60)
<1>18. Counted'
  <2>1. SameWhole
    <3>1. \A a \in D : tags[a].index # NoIndex => a \in E
      BY <1>3, <1>14
    <3>2. \A a \in E : a \in D
      BY <1>14
    <3> QED
      BY <1>13, <1>14, <3>1, <3>2, ZenonT(60) DEF SameWhole, Whole
  <2> QED
    BY <1>1, <1>2, <2>1, CountedSame, SMTT(30), SMTT(60)
<1>19. Main' = Idle /\ call' \in [Callers -> Calls] /\ Main'.pc = "idle"
  <2>1. call \in [Callers -> Calls] /\ Idle \in Calls /\ Idle.pc = "idle"
    BY <1>1, CallTypes, SMTT(30), SMTT(60) DEF MemTypes
  <2> QED
    BY <1>2, <2>1, CallStep, SMTT(30), SMTT(60)
<1>20. MemTypes'
  <2>1. IsFiniteSet(E) /\ E \subseteq Nat \ {NULL}
    BY <1>1, <1>14, RemoveElement, SMTT(30), SMTT(60) DEF MemTypes
  <2>2. tags' \in [E -> boundary_tag]
    <3>1. tags \in [D -> boundary_tag]
      BY <1>1 DEF MemTypes, D
    <3> QED
      BY <1>12, <1>14, <3>1
  <2> QED
    BY <1>1, <1>2, <1>13, <1>19, <2>1, <2>2, SMTT(30), SMTT(60) DEF MemTypes
<1>21. BlocksOK'
  BY <1>1, <1>11, Zenon DEF BlocksOK
<1>22. Joined'
  <2> SUFFICES ASSUME NEW a \in E, tags'[a].index # NoIndex, tags'[a].split_right # NULL
               PROVE  tags'[tags'[a].split_right].index = NoIndex
    BY <1>13, Zenon DEF Joined
  <2> DEFINE r == tags[a].split_right
  <2>1. a \in D /\ tags'[a] = tags[a] /\ r # NULL
    BY <1>13, <1>14, SMTT(30), SMTT(60)
  <2>2. r \in D /\ tags[r].split_left = a /\ a # NULL
    BY <1>1, <1>5, <1>14, <2>1, NeighbourFacts, SMTT(30), SMTT(60)
  <2>3. r # t
    BY <1>4, <2>2, SMTT(30), SMTT(60)
  <2>4. tags[r].index = NoIndex
    BY <1>1, <1>14, <2>1, ZenonT(60) DEF Joined
  <2>5. tags'[r] = tags[r]
    BY <1>13, <1>14, <2>2, <2>3, SMTT(30), SMTT(60)
  <2> QED
    BY <2>1, <2>4, <2>5, Zenon
<1>23. Taken' = {} /\ GivenUp' = {}
  BY <1>19 DEF Taken, GivenUp
<1>24. Owned'
  <2>3. \A a \in E : tags'[a].index = NoIndex <=> a \in objects
    BY <1>3, <1>13, <1>14, SMTT(30), SMTT(60)
  <2>4. objects \subseteq E
    BY <1>3, <1>14, SMTT(30), SMTT(60)
  <2>5. \A p \in objects : TagSize + tags'[p].size <= tags'[p].real_size
    BY <1>3, <1>13, <2>4, ZenonT(60)
  <2>6. objects \union {} \union {} = objects /\ objects \cap {} = {} /\ {} \cap {} = {}
    OBVIOUS
  <2> QED
    BY <1>2, <1>13, <1>23, <2>3, <2>4, <2>5, <2>6, ZenonT(60) DEF Owned
<1>25. Progress'
  BY <1>19, SMTT(30), SMTT(60) DEF Progress
<1> QED
  BY <1>15, <1>17, <1>18, <1>20, <1>21, <1>22, <1>24, <1>25, SMTT(30), SMTT(60) DEF LibInv

-----------------------------------------------------------------------------
(* The new block, next to the others. *)
LEMMA BlockAdded ==
  ASSUME BlocksOK, NEW start \in HeapPages, NEW size \in Nat,
         NEW k, k = [start |-> start, pages |-> PagesFor(size)], Provider!Alloc(k)
  PROVE  /\ BlocksOK' /\ blocks' = blocks \union {k} /\ k \notin blocks
         /\ BlockStart(k) = start * l_pageSize
         /\ BlockEnd(k) - BlockStart(k) = PagesFor(size) * l_pageSize
         /\ BlockStart(k) + TagSize <= BlockEnd(k)
         /\ BlockStart(k) \in Nat \ {NULL}
<1>1. start \in Nat \ {0} /\ l_pageSize \in Nat \ {0} /\ l_pageCount \in Nat \ {0} /\ TagSize \in Nat
  BY LiballocAssumption, SMTT(30), SMTT(60)
<1> DEFINE n == PagesFor(size)
<1>2. n \in Nat /\ n >= l_pageCount /\ n * l_pageSize \in Nat /\ n * l_pageSize >= size + TagSize
  BY PagesForEnough, SMTT(30), SMTT(60)
<1> HIDE DEF n
<1>3. k = [start |-> start, pages |-> n]
  BY DEF n
<1>4. k.start = start /\ k.pages = n /\ k \in Provider!Block
  BY <1>1, <1>2, <1>3, SMTT(30), SMTT(60) DEF Provider!Block
<1>5. blocks' = blocks \union {k} /\ \A c \in blocks : Provider!Disjoint(k, c)
  BY DEF Provider!Alloc
<1>6. k \notin blocks
  <2>1. ~Provider!Disjoint(k, k)
    BY <1>1, <1>2, <1>4, SMTT(30), SMTT(60) DEF Provider!Disjoint
  <2> QED
    BY <1>5, <2>1, SMTT(30), SMTT(60)
<1>7. \A c \in blocks : Provider!Disjoint(c, k)
  BY <1>5 DEF Provider!Disjoint
<1>8. BlocksOK'
  <2>1. blocks \subseteq Provider!Block /\ (\A b \in blocks : b.start > 0 /\ b.pages >= l_pageCount)
        /\ \A b, c \in blocks : b = c \/ Provider!Disjoint(b, c)
    BY DEF BlocksOK
  <2>2. blocks' \subseteq Provider!Block
    BY <1>4, <1>5, <2>1, SMTT(30), SMTT(60)
  <2>3. \A b \in blocks' : b.start > 0 /\ b.pages >= l_pageCount
    <3>1. k.start > 0 /\ k.pages >= l_pageCount
      BY <1>1, <1>2, <1>4, SMTT(30), SMTT(60)
    <3> QED
      BY <1>5, <2>1, <3>1, Zenon
  <2>4. \A b, c \in blocks' : b = c \/ Provider!Disjoint(b, c)
    <3> SUFFICES ASSUME NEW b \in blocks', NEW c \in blocks'
                 PROVE  b = c \/ Provider!Disjoint(b, c)
      BY Zenon
    <3>1. CASE b = k
      BY <1>5, <3>1, Zenon
    <3>2. CASE c = k
      BY <1>5, <1>7, <3>2, Zenon
    <3>3. CASE b \in blocks /\ c \in blocks
      BY <2>1, <3>3, Zenon
    <3> QED
      BY <1>5, <3>1, <3>2, <3>3, ZenonT(60)
  <2> QED
    BY <2>2, <2>3, <2>4, Zenon DEF BlocksOK
<1>9. BlockEnd(k) = start * l_pageSize + n * l_pageSize /\ BlockStart(k) = start * l_pageSize /\ start * l_pageSize \in Nat
  BY <1>1, <1>2, <1>4, Distributes, SMTT(30), SMTT(60) DEF BlockStart, BlockEnd
<1>10. start * l_pageSize > 0
  BY <1>1, Multiples, SMTT(30), SMTT(60)
<1>11. BlockEnd(k) - BlockStart(k) = n * l_pageSize /\ BlockStart(k) + TagSize <= BlockEnd(k)
  BY <1>1, <1>2, <1>9, SMTT(30), SMTT(60)
<1>12. BlockStart(k) \in Nat \ {NULL}
  BY <1>9, <1>10, SMTT(30), SMTT(60) DEF NULL
<1> QED
  BY <1>5, <1>6, <1>8, <1>9, <1>11, <1>12, SMTT(30), SMTT(60) DEF n

(* The spacing of the blocks, as an implication. *)
LEMMA SpacedForm == BlocksOK => Spaced(blocks)
BY BlocksAreSpaced

(* The spacing of the blocks after a step. *)
LEMMA SpacedNext == BlocksOK' => Spaced(blocks)'
BY SpacedForm, PTL

(* malloc makes a tag for a block of its own. *)
LEMMA allocate_new_tagKeeps ==
  ASSUME SetFacts, Callers = {"main"}, LibInv, allocate_new_tag("main")
  PROVE  LibInv'
<1> DEFINE D == DOMAIN tags
           size == Main.size
           n == PagesFor(size)
<1>1. MemTypes /\ BlocksOK /\ Layout /\ Lists /\ Owned /\ Joined /\ Counted /\ Progress
  BY DEF LibInv
<1>2. /\ Main.pc = "take" /\ Main.tag = NULL
      /\ l_freePages' = l_freePages /\ l_completePages' = l_completePages /\ objects' = objects
  BY DEF allocate_new_tag, At, Main
<1> DEFINE New == [size |-> size, real_size |-> n * l_pageSize, index |-> NoIndex, split_left |-> NULL,
                   split_right |-> NULL, next |-> NULL, prev |-> NULL]
<1>3. PICK start \in HeapPages :
        /\ Provider!Alloc([start |-> start, pages |-> n])
        /\ tags' = [a \in D \union {start * l_pageSize} |-> IF a = start * l_pageSize THEN New ELSE tags[a]]
        /\ Step("main", [Main EXCEPT !.pc = "place", !.tag = start * l_pageSize])
  BY Zenon DEF allocate_new_tag, Main
<1>k. PICK k : k = [start |-> start, pages |-> n]
  BY Zenon
<1>t. PICK t : t = start * l_pageSize
  OBVIOUS
<1>4. size \in Nat /\ Main \in Calls /\ Main.old \in Nat
  BY <1>1, CallTypes, SMTT(30), SMTT(60)
<1>5. n \in Nat /\ n * l_pageSize \in Nat /\ n * l_pageSize >= size + TagSize
  BY <1>4, PagesForEnough, SMTT(30), SMTT(60)
<1>6. /\ BlocksOK' /\ blocks' = blocks \union {k} /\ k \notin blocks
      /\ BlockStart(k) = t /\ BlockEnd(k) - BlockStart(k) = n * l_pageSize
      /\ BlockStart(k) + TagSize <= BlockEnd(k) /\ t \in Nat \ {NULL}
  BY <1>1, <1>3, <1>4, <1>k, <1>t, BlockAdded, SMTT(30), SMTT(60)
<1>7. Spaced(blocks')
  BY <1>6, SpacedNext, SMTT(30), SMTT(60)
<1>8. New \in boundary_tag
  BY <1>4, <1>5, SMTT(30), SMTT(60) DEF boundary_tag, NULL
<1>9. tags' = [a \in D \union {t} |-> IF a = t THEN New ELSE tags[a]]
  BY <1>3, <1>t, SMTT(30), SMTT(60)
<1>10. /\ New.size = size /\ New.real_size = n * l_pageSize /\ New.index = NoIndex /\ New.split_left = NULL
       /\ New.split_right = NULL /\ New.next = NULL /\ New.prev = NULL
  OBVIOUS
<1> HIDE DEF New
<1>11. DOMAIN tags' = D \union {t} /\ tags'[t] = New /\ \A a \in D \ {t} : tags'[a] = tags[a]
  BY <1>9, SMTT(30), SMTT(60)
<1>12. /\ D \in SUBSET (Nat \ {NULL}) /\ SizeOf \in [D -> Nat] /\ LeftOf \in [D -> Nat] /\ RightOf \in [D -> Nat]
       /\ \A a \in D : SizeOf[a] = tags[a].real_size /\ LeftOf[a] = tags[a].split_left /\ RightOf[a] = tags[a].split_right
       /\ tags \in [D -> boundary_tag]
  BY <1>1, TagFns, SMTT(30), SMTT(60)
<1>13. Tiles(D, SizeOf, blocks) /\ Adjacent(D, SizeOf, LeftOf, RightOf, blocks)
  BY <1>1, SMTT(30), SMTT(60) DEF Layout
<1> DEFINE E == D \union {t}
<1> HIDE DEF n, D, E, size
<1>14. DOMAIN tags' = E
  BY <1>11 DEF E
<1>15. Added(D, SizeOf, LeftOf, RightOf, t, BlockEnd(k) - BlockStart(k), E, SizeOf', LeftOf', RightOf')
  <2>1. SizeOf' = [a \in E |-> tags'[a].real_size] /\ LeftOf' = [a \in E |-> tags'[a].split_left]
        /\ RightOf' = [a \in E |-> tags'[a].split_right]
    BY <1>14, SMTT(30), SMTT(60) DEF SizeOf, LeftOf, RightOf
  <2>2. \A a \in E : SizeOf'[a] = tags'[a].real_size /\ LeftOf'[a] = tags'[a].split_left /\ RightOf'[a] = tags'[a].split_right
    BY <2>1
  <2>3. t \in E /\ \A a \in D \ {t} : a \in E
    BY DEF E
  <2>4. SizeOf'[t] = n * l_pageSize /\ LeftOf'[t] = NULL /\ RightOf'[t] = NULL
    BY <1>10, <1>11, <2>2, <2>3, ZenonT(60)
  <2>5. ASSUME NEW a \in D \ {t}
        PROVE  SizeOf'[a] = SizeOf[a] /\ RightOf'[a] = RightOf[a] /\ LeftOf'[a] = LeftOf[a]
    <3>1. tags'[a] = tags[a] /\ a \in D /\ a \in E
      BY <1>11, <2>3, SMTT(30), SMTT(60)
    <3>2. SizeOf'[a] = tags'[a].real_size /\ LeftOf'[a] = tags'[a].split_left /\ RightOf'[a] = tags'[a].split_right
      BY <2>2, <3>1, ZenonT(40)
    <3>3. SizeOf[a] = tags[a].real_size /\ LeftOf[a] = tags[a].split_left /\ RightOf[a] = tags[a].split_right
      BY <1>12, <3>1, SMTT(30), SMTT(60)
    <3> QED
      BY <3>1, <3>2, <3>3, ZenonT(60)
  <2> QED
    BY <1>6, <2>4, <2>5, ZenonT(60) DEF Added, E
<1>16. t \notin D /\ Tiles(E, SizeOf', blocks') /\ Adjacent(E, SizeOf', LeftOf', RightOf', blocks')
  BY <1>6, <1>7, <1>12, <1>13, <1>15, AddKeeps, SMTT(30), SMTT(60)
<1>17. Layout'
  BY <1>14, <1>16, ZenonT(60) DEF Layout
<1>18. \A a \in D : tags'[a] = tags[a] /\ a \in E
  BY <1>11, <1>16, SMTT(30), SMTT(60) DEF E
<1>19. \A a \in E : a \in D \/ a = t
  BY DEF E
<1>20. D = DOMAIN tags
  BY DEF D
<1>21. FSame
  <2>1. \A a \in D : tags[a].index = NoIndex => tags[a].next = NULL /\ tags[a].prev = NULL
    BY <1>1, <1>20, ZenonT(60) DEF Lists
  <2>2. \A a \in E : a \notin D \/ tags[a].index = NoIndex =>
          tags'[a].index = NoIndex /\ tags'[a].next = NULL /\ tags'[a].prev = NULL
    BY <1>10, <1>11, <1>16, <1>18, <1>19, <2>1, ZenonT(60)
  <2> QED
    BY <1>2, <1>14, <1>18, <1>20, <2>2, ZenonT(60) DEF FSame
<1>22. Lists'
  BY <1>1, <1>21, FSameLists, SMTT(30), SMTT(60)
<1>23. Counted'
  <2>1. SameWhole
    BY <1>10, <1>11, <1>14, <1>18, <1>19, <1>20, ZenonT(60) DEF SameWhole, Whole
  <2> QED
    BY <1>1, <1>2, <2>1, CountedSame, SMTT(30), SMTT(60)
<1>24. [Main EXCEPT !.pc = "place", !.tag = t] \in Calls
  BY <1>4, <1>6, ZenonT(60) DEF Calls
<1>25. Main' = [Main EXCEPT !.pc = "place", !.tag = t] /\ call' \in [Callers -> Calls]
  <2>1. call \in [Callers -> Calls]
    BY <1>1, SMTT(30), SMTT(60) DEF MemTypes
  <2>2. Step("main", [Main EXCEPT !.pc = "place", !.tag = t])
    BY <1>3, <1>t, SMTT(30), SMTT(60)
  <2> QED
    BY <1>24, <2>1, <2>2, CallStep, SMTT(30), SMTT(60)
<1>26. Main'.pc = "place" /\ Main'.tag = t /\ Main'.size = size /\ Main'.old = Main.old
  BY <1>4, <1>25, SMTT(30), SMTT(60) DEF Calls, size
<1>27. MemTypes'
  <2>1. IsFiniteSet(E) /\ E \subseteq Nat \ {NULL}
    BY <1>1, <1>6, <1>12, <1>20, AddElement, SMTT(30), SMTT(60) DEF MemTypes, E
  <2>2. tags' \in [E -> boundary_tag]
    BY <1>8, <1>9, <1>12, ZenonT(60) DEF E
  <2> QED
    BY <1>1, <1>2, <1>14, <1>25, <2>1, <2>2, SMTT(30), SMTT(60) DEF MemTypes
<1>28. Joined'
  <2> SUFFICES ASSUME NEW a \in E, tags'[a].index # NoIndex, tags'[a].split_right # NULL
               PROVE  tags'[tags'[a].split_right].index = NoIndex
    BY <1>14, Zenon DEF Joined
  <2> DEFINE r == tags[a].split_right
  <2>1. a \in D /\ tags'[a] = tags[a] /\ r # NULL
    BY <1>10, <1>11, <1>18, <1>19, ZenonT(60)
  <2>2. r \in D
    BY <1>1, <1>20, <2>1, NeighbourFacts, SMTT(30), SMTT(60)
  <2>3. tags[r].index = NoIndex
    BY <1>1, <1>20, <2>1, ZenonT(60) DEF Joined
  <2> QED
    BY <1>18, <2>1, <2>2, <2>3, ZenonT(60)
<1>29. Taken = {} /\ Taken' = {t} /\ GivenUp' = GivenUp
  BY <1>2, <1>26, SMTT(30), SMTT(60) DEF Taken, GivenUp
<1>30. Owned'
  <2>1. /\ \A a \in D : tags[a].index = NoIndex <=> a \in objects \union GivenUp
        /\ objects \union GivenUp \subseteq D /\ objects \cap GivenUp = {}
        /\ \A p \in objects : TagSize + tags[p].size <= tags[p].real_size
    BY <1>1, <1>29, SMTT(30), SMTT(60) DEF Owned, D
  <2>2. t \notin objects \union GivenUp
    BY <1>16, <2>1, SMTT(30), SMTT(60)
  <2>3. \A a \in E : tags'[a].index = NoIndex <=> a \in objects \union {t} \union GivenUp
    BY <1>10, <1>11, <1>16, <1>18, <1>19, <2>1, ZenonT(60)
  <2>4. \A p \in objects : TagSize + tags'[p].size <= tags'[p].real_size
    BY <1>18, <2>1, ZenonT(60)
  <2>5. objects \union {t} \union GivenUp \subseteq E /\ objects \cap {t} = {} /\ {t} \cap GivenUp = {}
    BY <2>1, <2>2, SMTT(30), SMTT(60) DEF E
  <2> QED
    BY <1>2, <1>14, <1>29, <2>1, <2>3, <2>4, <2>5, ZenonT(60) DEF Owned
<1>31. Progress'
  <2>1. TagSize + size <= tags'[t].real_size
    BY <1>4, <1>5, <1>10, <1>11, LiballocAssumption, SMTT(30), SMTT(60)
  <2>2. RightTaken'
    BY <1>10, <1>11, <1>26, ZenonT(60) DEF RightTaken
  <2> QED
    BY <1>26, <2>1, <2>2, ZenonT(60) DEF Progress
<1> QED
  BY <1>6, <1>17, <1>22, <1>23, <1>27, <1>28, <1>30, <1>31, SMTT(30), SMTT(60) DEF LibInv

-----------------------------------------------------------------------------
(* malloc returns: what realloc was given, if anything, is freed next. *)
LEMMA PlaceCall ==
  ASSUME Callers = {"main"}, LibInv, Place("main")
  PROVE  /\ Main.pc = "place" /\ Taken = {Main.tag} /\ Taken' = GivenUp /\ GivenUp' = {} /\ Progress'
         /\ call' \in [Callers -> Calls]
<1> DEFINE rec == IF Main.old = NULL THEN Idle ELSE [Idle EXCEPT !.pc = "melt", !.tag = Main.old]
<1>1. Main.pc = "place" /\ Step("main", rec)
  BY DEF Place, At, Main
<1>2. call \in [Callers -> Calls] /\ Main.old \in Nat /\ Idle \in Calls
  BY CallTypes DEF LibInv, MemTypes
<1>3. rec \in Calls
  BY <1>2, Zenon DEF Calls, Idle, NULL
<1>4. rec.pc = (IF Main.old = NULL THEN "idle" ELSE "melt") /\ (Main.old # NULL => rec.tag = Main.old)
  BY DEF Idle
<1> HIDE DEF rec
<1>5. Main' = rec /\ call' \in [Callers -> Calls]
  BY <1>1, <1>2, <1>3, CallStep, SMTT(30), SMTT(60)
<1>6. Taken = {Main.tag} /\ GivenUp = IF Main.old = NULL THEN {} ELSE {Main.old}
  BY <1>1, SMTT(30), SMTT(60) DEF Taken, GivenUp
<1>7. Taken' = (IF Main.old = NULL THEN {} ELSE {Main.old}) /\ GivenUp' = {}
  BY <1>4, <1>5, SMTT(30), SMTT(60) DEF Taken, GivenUp
<1>8. Progress'
  <2>1. Main'.pc # "take" /\ Main'.pc # "place" /\ Main'.pc # "absorb"
    BY <1>4, <1>5, SMTT(30), SMTT(60)
  <2> QED
    BY <2>1, Zenon DEF Progress
<1> QED
  BY <1>1, <1>5, <1>6, <1>7, <1>8, SMTT(30), SMTT(60)

(* What malloc is about to return. *)
LEMMA PlacedFacts ==
  ASSUME Callers = {"main"}, LibInv, Place("main")
  PROVE  /\ Main.tag \in DOMAIN tags /\ Main.size \in Nat /\ tags[Main.tag].index = NoIndex
         /\ Main.tag \notin objects /\ Main.tag \notin GivenUp
         /\ TagSize + Main.size <= tags[Main.tag].real_size /\ RightTaken
         /\ \A a \in DOMAIN tags : tags[a].index = NoIndex <=> a \in (objects \union {Main.tag}) \union GivenUp
         /\ (objects \union {Main.tag}) \union GivenUp \subseteq DOMAIN tags /\ objects \cap GivenUp = {}
         /\ \A p \in objects : TagSize + tags[p].size <= tags[p].real_size
<1>1. Main.pc = "place" /\ Taken = {Main.tag}
  BY PlaceCall
<1>2. Main.size \in Nat
  BY CallTypes, SMTT(30), SMTT(60) DEF LibInv
<1>3. TagSize + Main.size <= tags[Main.tag].real_size /\ RightTaken
  BY <1>1, SMTT(30), SMTT(60) DEF LibInv, Progress
<1>4. /\ \A a \in DOMAIN tags : tags[a].index = NoIndex <=> a \in (objects \union {Main.tag}) \union GivenUp
      /\ (objects \union {Main.tag}) \union GivenUp \subseteq DOMAIN tags
      /\ objects \cap {Main.tag} = {} /\ objects \cap GivenUp = {} /\ {Main.tag} \cap GivenUp = {}
      /\ \A p \in objects : TagSize + tags[p].size <= tags[p].real_size
  BY <1>1 DEF LibInv, Owned
<1> QED
  BY <1>2, <1>3, <1>4, SMTT(30), SMTT(60)

SizeSet(D, U, T, t, v) ==
  /\ U \in [D -> boundary_tag]
  /\ \A a \in D : /\ SameLinks(U, T, a) /\ SameSplit(U, T, a) /\ U[a].real_size = T[a].real_size
                  /\ U[a].size = IF a = t THEN v ELSE T[a].size

(* Setting the field size of a tag. *)
LEMMA SetSize ==
  ASSUME NEW D, NEW T \in [D -> boundary_tag], NEW t \in D, NEW v \in Nat
  PROVE  SizeSet(D, [T EXCEPT ![t].size = v], T, t, v)
BY DEF boundary_tag, SameLinks, SameSplit, SizeSet

(* malloc keeps the whole tag for the object. *)
LEMMA WholePlaceKeeps ==
  ASSUME Callers = {"main"}, LibInv, Place("main"), ~Splittable(Main.tag, Main.size)
  PROVE  LibInv'
<1> DEFINE t == Main.tag
           size == Main.size
           D == DOMAIN tags
<1>1. MemTypes /\ BlocksOK /\ Layout /\ Lists /\ Owned /\ Joined /\ Counted /\ Progress
  BY DEF LibInv
<1>2. /\ tags' = [tags EXCEPT ![t].size = size] /\ l_freePages' = l_freePages
      /\ objects' = objects \union {t} /\ l_completePages' = l_completePages /\ blocks' = blocks
  BY DEF Place, Main
<1>3. Taken' = GivenUp /\ GivenUp' = {} /\ Progress' /\ call' \in [Callers -> Calls]
  BY PlaceCall, SMTT(30), SMTT(60)
<1>4. /\ t \in D /\ size \in Nat /\ tags[t].index = NoIndex /\ t \notin objects /\ t \notin GivenUp
      /\ TagSize + size <= tags[t].real_size
      /\ \A a \in D : tags[a].index = NoIndex <=> a \in (objects \union {t}) \union GivenUp
      /\ (objects \union {t}) \union GivenUp \subseteq D /\ objects \cap GivenUp = {}
      /\ \A p \in objects : TagSize + tags[p].size <= tags[p].real_size
  BY PlacedFacts, SMTT(30), SMTT(60)
<1>5. tags \in [D -> boundary_tag]
  BY <1>1 DEF MemTypes
<1> HIDE DEF t, size, D
<1>6. /\ tags' \in [D -> boundary_tag]
      /\ \A a \in D : /\ SameLinks(tags', tags, a) /\ SameSplit(tags', tags, a)
                      /\ tags'[a].real_size = tags[a].real_size
                      /\ tags'[a].size = IF a = t THEN size ELSE tags[a].size
  <2>1. SizeSet(D, [tags EXCEPT ![t].size = size], tags, t, size)
    BY <1>4, <1>5, SetSize, ZenonT(40)
  <2>2. SizeSet(D, tags', tags, t, size)
    BY <1>2, <2>1, ZenonT(40)
  <2> QED
    BY <2>2, Zenon DEF SizeSet
<1>7. DOMAIN tags' = D /\ D = DOMAIN tags
  BY <1>6 DEF D
<1>8. Layout'
  BY <1>1, <1>2, <1>6, <1>7, LayoutSame, ZenonT(60)
<1>9. FSame
  <2>1. \A a \in D : tags[a].index = NoIndex => tags[a].next = NULL /\ tags[a].prev = NULL
    BY <1>1, <1>7, Zenon DEF Lists
  <2>2. \A a \in D : tags'[a].index = tags[a].index /\ tags'[a].next = tags[a].next /\ tags'[a].prev = tags[a].prev
                     /\ tags'[a].real_size = tags[a].real_size
    BY <1>6, Zenon DEF SameLinks
  <2> QED
    BY <1>2, <1>7, <2>1, <2>2, ZenonT(60) DEF FSame
<1>10. Lists'
  BY <1>1, <1>9, FSameLists, SMTT(30), SMTT(60)
<1>11. \A a \in D : tags'[a].index = tags[a].index /\ tags'[a].split_left = tags[a].split_left
                    /\ tags'[a].split_right = tags[a].split_right
  BY <1>6, Zenon DEF SameLinks, SameSplit
<1>12. Counted'
  <2>1. SameWhole
    BY <1>7, <1>11, ZenonT(60) DEF SameWhole, Whole
  <2> QED
    BY <1>1, <1>2, <2>1, CountedSame, SMTT(30), SMTT(60)
<1>13. MemTypes'
  BY <1>1, <1>2, <1>3, <1>6, <1>7, SMTT(30), SMTT(60) DEF MemTypes
<1>14. BlocksOK'
  BY <1>1, <1>2, SMTT(30), SMTT(60) DEF BlocksOK
<1>15. Joined'
  <2> SUFFICES ASSUME NEW a \in D, tags'[a].index # NoIndex, tags'[a].split_right # NULL
               PROVE  tags'[tags'[a].split_right].index = NoIndex
    BY <1>7, Zenon DEF Joined
  <2> DEFINE r == tags[a].split_right
  <2>1. tags'[a].split_right = r /\ r # NULL /\ tags[a].index # NoIndex
    BY <1>11, Zenon
  <2>2. r \in D
    BY <1>1, <1>7, <2>1, NeighbourFacts, SMTT(30), SMTT(60)
  <2>3. tags[r].index = NoIndex
    BY <1>1, <1>7, <2>1, ZenonT(60) DEF Joined
  <2> QED
    BY <1>11, <2>1, <2>2, <2>3, ZenonT(60)
<1>16. Owned'
  <2>1. \A a \in D : tags'[a].index = NoIndex <=> a \in objects' \union GivenUp \union {}
    BY <1>2, <1>4, <1>11, ZenonT(60)
  <2>2. \A p \in objects' : TagSize + tags'[p].size <= tags'[p].real_size
    BY <1>2, <1>4, <1>6, ZenonT(60)
  <2>3. objects' \union GivenUp \union {} \subseteq D /\ objects' \cap GivenUp = {} /\ objects' \cap {} = {} /\ GivenUp \cap {} = {}
    BY <1>2, <1>4
  <2> QED
    BY <1>3, <1>7, <2>1, <2>2, <2>3, ZenonT(60) DEF Owned
<1> QED
  BY <1>3, <1>8, <1>10, <1>12, <1>13, <1>14, <1>15, <1>16, SMTT(30), SMTT(60) DEF LibInv

-----------------------------------------------------------------------------
(* Where split_tag puts the new tag. *)
LEMMA SplitPoint ==
  ASSUME MemTypes, Layout, NEW t \in DOMAIN tags, NEW size \in Nat, Splittable(t, size)
  PROVE  /\ SplitAt(t, size) \in Nat \ {NULL} /\ SplitAt(t, size) \notin DOMAIN tags
         /\ t + TagSize <= SplitAt(t, size) /\ SplitAt(t, size) + TagSize <= t + tags[t].real_size
         /\ TagSize + size = SplitAt(t, size) - t
         /\ tags[t].real_size - TagSize - size = t + tags[t].real_size - SplitAt(t, size)
<1> DEFINE D == DOMAIN tags
           n == SplitAt(t, size)
           x == tags[t].real_size
<1>1. D \in SUBSET (Nat \ {NULL}) /\ SizeOf \in [D -> Nat] /\ SizeOf[t] = x
  BY TagFns, SMTT(30), SMTT(60)
<1>2. TagSize \in Nat \ {0} /\ x \in Nat /\ t \in Nat \ {NULL} /\ NULL = 0
  BY <1>1, LiballocAssumption, SMTT(30), SMTT(60) DEF NULL
<1>3. x - size - 2 * TagSize > 0 /\ n = t + TagSize + size
  BY DEF Splittable, SplitAt
<1> HIDE DEF n, x, D
<1>4. n \in Nat \ {NULL} /\ t < n /\ n < t + x /\ t + TagSize <= n /\ n + TagSize <= t + x
      /\ TagSize + size = n - t /\ x - TagSize - size = t + x - n
  BY <1>2, <1>3, SMTT(30), SMTT(60)
<1>5. Tiles(D, SizeOf, blocks)
  BY DEF Layout, D
<1>6. n \notin D
  <2>1. t \in D /\ n \in Nat /\ n < t + SizeOf[t]
    BY <1>1, <1>4, SMTT(30), SMTT(60) DEF D
  <2> QED
    BY <1>1, <1>4, <1>5, <2>1, NothingInside, SMTT(30), SMTT(60)
<1> QED
  BY <1>4, <1>6, SMTT(30), SMTT(60) DEF n, x, D

(* malloc splits the tag: the rest is a free tag of its own. *)
LEMMA SplitPlaceKeeps ==
  ASSUME SetFacts, Callers = {"main"}, LibInv, Place("main"), Splittable(Main.tag, Main.size)
  PROVE  LibInv'
<1> DEFINE t == Main.tag
           size == Main.size
           D == DOMAIN tags
           i == RestList(t, size)
           h == l_freePages[i]
<1>1. MemTypes /\ BlocksOK /\ Layout /\ Lists /\ Owned /\ Joined /\ Counted /\ Progress
  BY DEF LibInv
<1>2. /\ tags' = Split(t, size) /\ l_freePages' = [l_freePages EXCEPT ![i] = SplitAt(t, size)]
      /\ objects' = objects \union {t} /\ l_completePages' = l_completePages /\ blocks' = blocks
  BY DEF Place, Main
<1>3. Taken' = GivenUp /\ GivenUp' = {} /\ Progress' /\ call' \in [Callers -> Calls]
  BY PlaceCall, SMTT(30), SMTT(60)
<1>4. /\ t \in D /\ size \in Nat /\ tags[t].index = NoIndex /\ t \notin objects /\ t \notin GivenUp
      /\ TagSize + size <= tags[t].real_size
      /\ \A a \in D : tags[a].index = NoIndex <=> a \in (objects \union {t}) \union GivenUp
      /\ (objects \union {t}) \union GivenUp \subseteq D /\ objects \cap GivenUp = {}
      /\ \A p \in objects : TagSize + tags[p].size <= tags[p].real_size
      /\ tags[t].split_right # NULL => tags[tags[t].split_right].index = NoIndex
  BY PlacedFacts, SMTT(30), SMTT(60) DEF RightTaken
<1>5. PICK n \in Nat \ {NULL} :
        /\ n = SplitAt(t, size) /\ n \notin D /\ t + TagSize <= n /\ n + TagSize <= t + tags[t].real_size
        /\ TagSize + size = n - t /\ tags[t].real_size - TagSize - size = t + tags[t].real_size - n
  BY <1>1, <1>4, SplitPoint, SMTT(30), SMTT(60)
<1>6. i \in Indices /\ i # NoIndex /\ i = ListOf(tags[t].real_size - TagSize - size - TagSize)
  BY ListOfIndex, NotAnIndex, SMTT(30), SMTT(60) DEF RestList, Rest
<1>7. /\ D \in SUBSET (Nat \ {NULL}) /\ SizeOf \in [D -> Nat] /\ LeftOf \in [D -> Nat] /\ RightOf \in [D -> Nat]
      /\ \A a \in D : SizeOf[a] = tags[a].real_size /\ LeftOf[a] = tags[a].split_left /\ RightOf[a] = tags[a].split_right
      /\ tags \in [D -> boundary_tag]
  BY <1>1, TagFns, SMTT(30), SMTT(60)
<1>8. l_freePages \in [Indices -> Nat] /\ (h # NULL => h \in D)
  BY <1>1, <1>6, HeadFacts, SMTT(30), SMTT(60) DEF MemTypes
<1>9. \A a \in D : tags[a].split_right # NULL => tags[a].split_right \in D /\ tags[tags[a].split_right].split_left = a
  BY <1>1, NeighbourFacts, SMTT(30), SMTT(60)
<1> HIDE DEF t, size, D, i
<1>10. TagSplit(D, Split(t, size), tags, t, size, n, i, l_freePages[i])
  <2>1. i = RestList(t, size) /\ n \notin D /\ n = SplitAt(t, size)
    BY <1>5 DEF i
  <2> QED
    BY <1>4, <1>6, <1>7, <1>8, <1>9, <2>1, SplitFields, SMTT(30), SMTT(60)
<1>11. TagSplit(D, tags', tags, t, size, n, i, h)
  BY <1>2, <1>10, ZenonT(40)
<1> HIDE DEF h
<1> DEFINE E == D \union {n}
           r == tags[t].split_right
<1>12. tags' \in [E -> boundary_tag]
  BY <1>11, Zenon DEF TagSplit
<1>13. DOMAIN tags' = E /\ D = DOMAIN tags
  BY <1>12, SMTT(30), SMTT(60) DEF D
<1>14. \A a \in D : a \in E /\ a # n /\ a # NULL
  BY <1>5, <1>7, SMTT(30), SMTT(60)
<1>15. \A a \in D \ {t} : /\ tags'[a].size = tags[a].size /\ tags'[a].real_size = tags[a].real_size
                          /\ tags'[a].split_right = tags[a].split_right
  BY <1>11, Zenon DEF TagSplit, SameSize
<1>16. \A a \in D : /\ tags'[a].split_left = IF a = r THEN n ELSE tags[a].split_left
                    /\ tags'[a].index = tags[a].index /\ tags'[a].next = tags[a].next
                    /\ tags'[a].prev = IF a = h THEN n ELSE tags[a].prev
  BY <1>11, Zenon DEF TagSplit
<1>17. /\ tags'[t].size = size /\ tags'[t].real_size = TagSize + size /\ tags'[t].split_right = n
       /\ tags'[n].real_size = tags[t].real_size - TagSize - size
       /\ tags'[n].split_left = t /\ tags'[n].split_right = r
       /\ tags'[n].index = i /\ tags'[n].next = h /\ tags'[n].prev = NULL
  BY <1>11, Zenon DEF TagSplit
<1> HIDE DEF E, r
<1>18. \A a \in E : a \in D \/ a = n
  BY DEF E
<1>19. SplitUp(D, SizeOf, LeftOf, RightOf, t, n, E, SizeOf', LeftOf', RightOf')
  <2>1. SizeOf' = [a \in E |-> tags'[a].real_size] /\ LeftOf' = [a \in E |-> tags'[a].split_left]
        /\ RightOf' = [a \in E |-> tags'[a].split_right]
    BY <1>13, SMTT(30), SMTT(60) DEF SizeOf, LeftOf, RightOf
  <2>2. \A a \in E : SizeOf'[a] = tags'[a].real_size /\ LeftOf'[a] = tags'[a].split_left /\ RightOf'[a] = tags'[a].split_right
    BY <2>1, SMTT(30), SMTT(60)
  <2>3. n \in E /\ t \in E /\ t \in D
    BY <1>4, <1>14, SMTT(30), SMTT(60) DEF E
  <2>4. r = RightOf[t] /\ SizeOf[t] = tags[t].real_size /\ LeftOf[t] = tags[t].split_left
    BY <1>7, <2>3, SMTT(30), SMTT(60) DEF r
  <2>5. SizeOf'[t] = TagSize + size /\ RightOf'[t] = n /\ LeftOf'[t] = tags'[t].split_left
    BY <1>17, <2>2, <2>3, ZenonT(60)
  <2>6. r # t
    BY <1>1, <1>4, <1>13, <1>14, NeighbourFacts, SMTT(30), SMTT(60) DEF r
  <2>7. LeftOf'[t] = LeftOf[t]
    BY <1>16, <2>3, <2>4, <2>5, <2>6, ZenonT(60)
  <2>8. SizeOf'[n] = tags[t].real_size - TagSize - size /\ LeftOf'[n] = t /\ RightOf'[n] = RightOf[t]
    BY <1>17, <2>2, <2>3, <2>4, ZenonT(60)
  <2>9. ASSUME NEW a \in D \ {t}
        PROVE  SizeOf'[a] = SizeOf[a] /\ RightOf'[a] = RightOf[a] /\ LeftOf'[a] = IF a = RightOf[t] THEN n ELSE LeftOf[a]
    <3>1. a \in D /\ a \in E
      BY <1>14, SMTT(30), SMTT(60)
    <3>2. SizeOf'[a] = tags'[a].real_size /\ LeftOf'[a] = tags'[a].split_left /\ RightOf'[a] = tags'[a].split_right
      BY <2>2, <3>1, ZenonT(40)
    <3>3. SizeOf[a] = tags[a].real_size /\ LeftOf[a] = tags[a].split_left /\ RightOf[a] = tags[a].split_right
      BY <1>7, <3>1, SMTT(30), SMTT(60)
    <3>4. tags'[a].split_left = IF a = RightOf[t] THEN n ELSE tags[a].split_left
      BY <1>16, <2>4, <3>1, ZenonT(60)
    <3>5. tags'[a].real_size = tags[a].real_size /\ tags'[a].split_right = tags[a].split_right
      BY <1>15, ZenonT(60)
    <3> QED
      BY <3>2, <3>3, <3>4, <3>5, ZenonT(60)
  <2>10. SizeOf'[t] = n - t /\ SizeOf'[n] = t + SizeOf[t] - n
    BY <1>5, <2>4, <2>5, <2>8, SMTT(30), SMTT(60)
  <2> QED
    BY <2>5, <2>7, <2>8, <2>9, <2>10, ZenonT(60) DEF SplitUp, E
<1>20. Layout'
  <2>1. Spaced(blocks) /\ Tiles(D, SizeOf, blocks) /\ Adjacent(D, SizeOf, LeftOf, RightOf, blocks)
    BY <1>1, <1>13, BlocksAreSpaced, SMTT(30), SMTT(60) DEF Layout
  <2>2. t + TagSize <= n /\ n + TagSize <= t + SizeOf[t]
    BY <1>4, <1>5, <1>7, SMTT(30), SMTT(60)
  <2>3. Tiles(E, SizeOf', blocks) /\ Adjacent(E, SizeOf', LeftOf', RightOf', blocks)
    BY <1>4, <1>7, <1>19, <2>1, <2>2, SplitKeeps, SMTT(30), SMTT(60)
  <2> QED
    BY <1>2, <1>13, <2>3, ZenonT(60) DEF Layout
<1>21. FInsert(n, i)
  <2>1. i = ListOf(tags'[n].real_size - TagSize)
    BY <1>6, <1>17, SMTT(30), SMTT(60)
  <2>2. \A a \in D : tags[a].index # NoIndex => tags'[a].real_size = tags[a].real_size
    BY <1>4, <1>15, ZenonT(60)
  <2>3. DOMAIN tags' = DOMAIN tags \union {n} /\ (n \in DOMAIN tags => tags[n].index = NoIndex)
    BY <1>5, <1>13, SMTT(30), SMTT(60) DEF E
  <2>4. l_freePages' = [l_freePages EXCEPT ![i] = n]
    BY <1>2, <1>5, SMTT(30), SMTT(60)
  <2>5. \A a \in DOMAIN tags \ {n} :
          /\ tags'[a].index = tags[a].index
          /\ tags'[a].next = tags[a].next
          /\ tags'[a].prev = IF a = h THEN n ELSE tags[a].prev
          /\ tags[a].index # NoIndex => tags'[a].real_size = tags[a].real_size
    BY <1>13, <1>16, <2>2, ZenonT(60)
  <2> QED
    BY <1>5, <1>6, <1>17, <2>1, <2>3, <2>4, <2>5, ZenonT(60) DEF FInsert, h
<1>22. Lists'
  BY <1>1, <1>21, FInsertLists, SMTT(30), SMTT(60)
<1>23. MemTypes'
  <2>1. IsFiniteSet(E) /\ E \subseteq Nat \ {NULL}
    BY <1>1, <1>5, <1>7, <1>13, AddElement, SMTT(30), SMTT(60) DEF MemTypes, E
  <2>2. l_freePages' \in [Indices -> Nat]
    BY <1>2, <1>5, <1>6, <1>8, SMTT(30), SMTT(60)
  <2> QED
    BY <1>1, <1>2, <1>3, <1>12, <1>13, <2>1, <2>2, SMTT(30), SMTT(60) DEF MemTypes, E
<1>24. BlocksOK'
  BY <1>1, <1>2, SMTT(30), SMTT(60) DEF BlocksOK
<1>25. Counted'
  <2>1. ASSUME NEW a \in D, tags[a].index # NoIndex
        PROVE  tags'[a].split_right = tags[a].split_right /\ (tags'[a].split_left = NULL <=> tags[a].split_left = NULL)
    <3>1. a # t /\ tags'[a].split_right = tags[a].split_right
      BY <1>4, <1>15, <2>1, Zenon
    <3>2. CASE a = r
      <4>1. tags[a].split_left = t /\ t # NULL /\ n # NULL
        BY <1>4, <1>5, <1>9, <1>14, <3>2, SMTT(30), SMTT(60) DEF r
      <4> QED
        BY <1>16, <3>1, <3>2, <4>1, ZenonT(60)
    <3>3. CASE a # r
      BY <1>16, <3>1, <3>3, ZenonT(60)
    <3> QED
      BY <3>2, <3>3, SMTT(30), SMTT(60)
  <2>2. SameWhole
    <3>1. \A a \in D : tags[a].index # NoIndex /\ Whole(a) =>
            a \in DOMAIN tags' /\ tags'[a].index = tags[a].index /\ Whole(a)'
      BY <1>13, <1>14, <1>16, <2>1, ZenonT(60) DEF Whole
    <3>2. ~Whole(n)'
      <4>1. t # NULL
        BY <1>4, <1>14, ZenonT(60)
      <4> QED
        BY <1>17, <4>1, ZenonT(60) DEF Whole
    <3>3. \A a \in E : tags'[a].index # NoIndex /\ Whole(a)' =>
            a \in DOMAIN tags /\ tags'[a].index = tags[a].index /\ Whole(a)
      BY <1>13, <1>16, <1>18, <2>1, <3>2, ZenonT(60) DEF Whole
    <3> QED
      BY <1>13, <3>1, <3>3, ZenonT(40) DEF SameWhole
  <2> QED
    BY <1>1, <1>2, <2>2, CountedSame, SMTT(30), SMTT(60)
<1>26. Joined'
  <2> SUFFICES ASSUME NEW a \in E, tags'[a].index # NoIndex, tags'[a].split_right # NULL
               PROVE  tags'[tags'[a].split_right].index = NoIndex
    BY <1>13, Zenon DEF Joined
  <2>1. CASE a = n
    <3>1. tags'[a].split_right = r /\ r # NULL
      BY <1>17, <2>1, ZenonT(60)
    <3>2. r \in D /\ tags[r].index = NoIndex
      BY <1>4, <1>9, <3>1, SMTT(30), SMTT(60) DEF r
    <3> QED
      BY <1>16, <3>1, <3>2, ZenonT(60)
  <2>2. CASE a \in D
    <3>1. tags[a].index # NoIndex
      BY <1>16, <2>2, ZenonT(60)
    <3>2. a # t
      BY <1>4, <3>1, SMTT(30), SMTT(60)
    <3>3. tags'[a].split_right = tags[a].split_right
      BY <1>15, <2>2, <3>2, ZenonT(60)
    <3>4. tags[a].split_right \in D /\ tags[tags[a].split_right].index = NoIndex
      BY <1>1, <1>9, <1>13, <2>2, <3>1, <3>3, ZenonT(60) DEF Joined
    <3> QED
      BY <1>16, <3>3, <3>4, ZenonT(60)
  <2> QED
    BY <1>18, <2>1, <2>2, SMTT(30), SMTT(60)
<1>27. Owned'
  <2>1. objects' \subseteq D /\ GivenUp \subseteq D
    BY <1>2, <1>4, SMTT(30), SMTT(60)
  <2>2. \A a \in E : tags'[a].index = NoIndex <=> a \in objects' \union GivenUp \union {}
    <3>1. ASSUME NEW a \in D PROVE tags'[a].index = NoIndex <=> a \in objects' \union GivenUp \union {}
      BY <1>2, <1>4, <1>16, ZenonT(60)
    <3>2. n \notin objects' \union GivenUp \union {}
      BY <1>5, <2>1, SMTT(30), SMTT(60)
    <3> QED
      BY <1>6, <1>17, <1>18, <3>1, <3>2, ZenonT(60)
  <2>3. \A p \in objects' : TagSize + tags'[p].size <= tags'[p].real_size
    <3>1. TagSize + tags'[t].size <= tags'[t].real_size
      BY <1>4, <1>17, LiballocAssumption, SMTT(30), SMTT(60)
    <3>2. \A p \in objects : p \in D \ {t}
      BY <1>4, SMTT(30), SMTT(60)
    <3> QED
      BY <1>2, <1>4, <1>15, <3>1, <3>2, ZenonT(60)
  <2>4. objects' \union GivenUp \union {} \subseteq E /\ objects' \cap GivenUp = {} /\ objects' \cap {} = {} /\ GivenUp \cap {} = {}
    BY <1>2, <1>4, SMTT(30), SMTT(60) DEF E
  <2> QED
    BY <1>3, <1>13, <2>2, <2>3, <2>4, ZenonT(60) DEF Owned
<1> QED
  BY <1>3, <1>20, <1>22, <1>23, <1>24, <1>25, <1>26, <1>27, SMTT(30), SMTT(60) DEF LibInv

(* Placing the object in the tag that was found keeps the invariant. *)
LEMMA PlaceKeeps ==
  ASSUME SetFacts, Callers = {"main"}, LibInv, Place("main")
  PROVE  LibInv'
BY WholePlaceKeeps, SplitPlaceKeeps, SMTT(30), SMTT(60)

-----------------------------------------------------------------------------
(* The right neighbour of a tag lies behind it. *)
LEMMA RightIsBehind ==
  ASSUME MemTypes, Layout, NEW t \in DOMAIN tags, tags[t].split_right # NULL
  PROVE  t < tags[t].split_right
<1>1. /\ DOMAIN tags \in SUBSET (Nat \ {NULL}) /\ SizeOf \in [DOMAIN tags -> Nat]
      /\ SizeOf[t] = tags[t].real_size /\ RightOf[t] = tags[t].split_right
  BY TagFns, SMTT(30), SMTT(60)
<1>2. RightOf[t] = t + SizeOf[t]
  BY <1>1, SMTT(30), SMTT(60) DEF Layout, Adjacent
<1>3. SizeOf[t] >= TagSize /\ TagSize \in Nat \ {0}
  BY LiballocAssumption, SMTT(30), SMTT(60) DEF Layout, Tiles
<1> QED
  BY <1>1, <1>2, <1>3, SMTT(30), SMTT(60)

(* Two neighbours, one of them free and the other (z) being freed, become   *)
(* one tag that is in no list.                                              *)
LEMMA JoinKeeps ==
  ASSUME SetFacts, Callers = {"main"}, LibInv,
         NEW u \in DOMAIN tags, NEW v \in DOMAIN tags, v = tags[u].split_right,
         NEW w \in {u, v}, NEW z \in {u, v}, w # z, tags[w].index # NoIndex,
         Taken = {z}, GivenUp = {}, Taken' = {u}, GivenUp' = {},
         TagsJoined(DOMAIN tags, tags', tags, u, v, w), l_freePages' = Unheaded(w),
         l_completePages' = l_completePages, blocks' = blocks, objects' = objects,
         call' \in [Callers -> Calls], Progress'
  PROVE  LibInv'
<1> DEFINE D == DOMAIN tags
           E == D \ {v}
           r == tags[v].split_right
<1>1. MemTypes /\ BlocksOK /\ Layout /\ Lists /\ Owned /\ Joined /\ Counted /\ Progress
  BY SMTT(30), SMTT(60) DEF LibInv
<1>2. /\ D \in SUBSET (Nat \ {NULL}) /\ SizeOf \in [D -> Nat] /\ LeftOf \in [D -> Nat] /\ RightOf \in [D -> Nat]
      /\ \A a \in D : SizeOf[a] = tags[a].real_size /\ LeftOf[a] = tags[a].split_left /\ RightOf[a] = tags[a].split_right
      /\ tags \in [D -> boundary_tag]
  BY <1>1, TagFns, SMTT(30), SMTT(60)
<1>3. \A a \in D : /\ a # NULL
                   /\ tags[a].split_right # NULL => tags[a].split_right \in D /\ tags[tags[a].split_right].split_left = a
  BY <1>1, <1>2, NeighbourFacts, SMTT(30), SMTT(60)
<1>4. u # v /\ u # NULL /\ v # NULL /\ tags[v].split_left = u /\ tags[u].split_right = v
  BY <1>1, <1>2, NeighbourFacts, SMTT(30), SMTT(60)
<1>5. /\ \A a \in D : tags[a].index = NoIndex <=> a \in objects \union {z}
      /\ objects \union {z} \subseteq D /\ z \notin objects
      /\ \A p \in objects : TagSize + tags[p].size <= tags[p].real_size
  BY <1>1, SMTT(30), SMTT(60) DEF Owned
<1>6. tags[z].index = NoIndex
  BY <1>5, SMTT(30), SMTT(60)
<1>7. tags' \in [E -> boundary_tag]
  BY DEF TagsJoined
<1>8. \A a \in E : /\ tags'[a].size = tags[a].size
                   /\ tags'[a].real_size = IF a = u THEN tags[u].real_size + tags[v].real_size ELSE tags[a].real_size
                   /\ tags'[a].split_right = IF a = u THEN r ELSE tags[a].split_right
                   /\ tags'[a].split_left = IF a = r THEN u ELSE tags[a].split_left
  BY Zenon DEF TagsJoined
<1>9. \A a \in E : a # w =>
         /\ tags'[a].index = tags[a].index
         /\ tags'[a].next = IF a = tags[w].prev THEN tags[w].next ELSE tags[a].next
         /\ tags'[a].prev = IF a = tags[w].next THEN tags[w].prev ELSE tags[a].prev
  BY Zenon DEF TagsJoined
<1>10. w # v => tags'[w].index = NoIndex /\ tags'[w].next = NULL /\ tags'[w].prev = NULL
  BY ZenonT(60) DEF TagsJoined
<1> HIDE DEF D, E, r
<1>11. DOMAIN tags' = E /\ D = DOMAIN tags /\ E \subseteq D /\ v \notin E /\ u \in E /\ w \in D
  BY <1>4, <1>7, SMTT(30), SMTT(60) DEF D, E
<1>12. \A a \in D : a \in E \/ a = v
  BY SMTT(30), SMTT(60) DEF E
<1>13. (w = u /\ z = v) \/ (w = v /\ z = u)
  OBVIOUS
<1>14. tags'[u].index = NoIndex
  BY <1>4, <1>6, <1>9, <1>10, <1>11, <1>13, ZenonT(60)
<1>15. \A a \in E : a # u => a # v /\ a # w /\ a # z /\ a \in D /\ tags'[a].index = tags[a].index
  <2> SUFFICES ASSUME NEW a \in E, a # u PROVE a # v /\ a # w /\ a # z /\ a \in D /\ tags'[a].index = tags[a].index
    BY SMTT(30), SMTT(60)
  <2>1. a # v /\ a \in D
    BY <1>11, SMTT(30), SMTT(60)
  <2>2. a # w /\ a # z
    BY <1>13, <2>1, SMTT(30), SMTT(60)
  <2> QED
    BY <1>9, <2>1, <2>2, ZenonT(60)
<1>16. Layout'
  <2>1. SizeOf' = [a \in E |-> tags'[a].real_size] /\ LeftOf' = [a \in E |-> tags'[a].split_left]
        /\ RightOf' = [a \in E |-> tags'[a].split_right]
    BY <1>11, SMTT(30), SMTT(60) DEF SizeOf, LeftOf, RightOf
  <2>2. \A a \in E : SizeOf'[a] = tags'[a].real_size /\ LeftOf'[a] = tags'[a].split_left /\ RightOf'[a] = tags'[a].split_right
    BY <2>1, SMTT(30), SMTT(60)
  <2>3. u \in D /\ v \in D /\ v = RightOf[u] /\ RightOf[u] # NULL /\ r = RightOf[v]
    BY <1>2, <1>4, <1>11, SMTT(30), SMTT(60) DEF r
  <2>4. r # u
    <3>1. u < v
      BY <1>1, <1>4, RightIsBehind, SMTT(30), SMTT(60)
    <3>2. r # NULL => v < r
      BY <1>1, RightIsBehind, SMTT(30), SMTT(60) DEF r
    <3>3. u \in Nat /\ v \in Nat /\ (r # NULL => r \in Nat)
      BY <1>2, <1>3, <2>3, SMTT(30), SMTT(60) DEF r
    <3> QED
      BY <1>4, <3>1, <3>2, <3>3, SMTT(30), SMTT(60)
  <2>5. SizeOf'[u] = SizeOf[u] + SizeOf[v] /\ LeftOf'[u] = LeftOf[u] /\ RightOf'[u] = RightOf[v]
    <3>1. SizeOf'[u] = tags'[u].real_size /\ LeftOf'[u] = tags'[u].split_left /\ RightOf'[u] = tags'[u].split_right
      BY <1>11, <2>2, ZenonT(40)
    <3>2. tags'[u].real_size = tags[u].real_size + tags[v].real_size /\ tags'[u].split_right = r
          /\ tags'[u].split_left = tags[u].split_left
      BY <1>8, <1>11, <2>4, ZenonT(60)
    <3>3. SizeOf[u] = tags[u].real_size /\ SizeOf[v] = tags[v].real_size /\ LeftOf[u] = tags[u].split_left
      BY <1>2, <2>3, SMTT(30), SMTT(60)
    <3> QED
      BY <2>3, <3>1, <3>2, <3>3, ZenonT(60)
  <2>6. ASSUME NEW a \in E \ {u}
        PROVE  SizeOf'[a] = SizeOf[a] /\ RightOf'[a] = RightOf[a] /\ LeftOf'[a] = IF a = RightOf[v] THEN u ELSE LeftOf[a]
    <3>1. a \in D /\ a \in E /\ a # u
      BY <1>11, SMTT(30), SMTT(60)
    <3>2. SizeOf'[a] = tags'[a].real_size /\ LeftOf'[a] = tags'[a].split_left /\ RightOf'[a] = tags'[a].split_right
      BY <2>2, <3>1, ZenonT(60)
    <3>3. SizeOf[a] = tags[a].real_size /\ LeftOf[a] = tags[a].split_left /\ RightOf[a] = tags[a].split_right
      BY <1>2, <3>1, SMTT(30), SMTT(60)
    <3>4. tags'[a].split_left = IF a = RightOf[v] THEN u ELSE tags[a].split_left
      BY <1>8, <2>3, <3>1, ZenonT(60)
    <3>5. tags'[a].real_size = tags[a].real_size /\ tags'[a].split_right = tags[a].split_right
      BY <1>8, <3>1, Zenon
    <3> QED
      BY <3>2, <3>3, <3>4, <3>5, ZenonT(60)
  <2>7. Merged(D, SizeOf, LeftOf, RightOf, u, v, E, SizeOf', LeftOf', RightOf')
    BY <2>5, <2>6, ZenonT(40) DEF Merged, E
  <2>8. Spaced(blocks) /\ Tiles(D, SizeOf, blocks) /\ Adjacent(D, SizeOf, LeftOf, RightOf, blocks)
    BY <1>1, <1>11, BlocksAreSpaced, ZenonT(60) DEF Layout
  <2>9. Tiles(E, SizeOf', blocks) /\ Adjacent(E, SizeOf', LeftOf', RightOf', blocks)
    BY <1>2, <2>3, <2>7, <2>8, MergeKeeps, ZenonT(60)
  <2> QED
    BY <1>11, <2>9, ZenonT(60) DEF Layout
<1>17. tags[w].index \in Indices
  BY <1>1, <1>11, LinkFacts, SMTT(30), SMTT(60)
<1>18. FUnlink(w)
  <2>1. l_freePages' = [l_freePages EXCEPT ![tags[w].index] = IF @ = w THEN tags[w].next ELSE @]
    BY Zenon DEF Unheaded
  <2>2. \A a \in D \ E : a = w \/ tags[a].index = NoIndex
    BY <1>6, <1>12, <1>13, ZenonT(60)
  <2>3. ASSUME NEW a \in E \ {w}
        PROVE  /\ tags'[a].index = tags[a].index
               /\ tags'[a].next = IF a = tags[w].prev THEN tags[w].next ELSE tags[a].next
               /\ tags'[a].prev = IF a = tags[w].next THEN tags[w].prev ELSE tags[a].prev
               /\ tags[a].index # NoIndex => tags'[a].real_size = tags[a].real_size
    <3>1. a \in E /\ a # w
      BY SMTT(30), SMTT(60)
    <3>2. tags[a].index # NoIndex => a # u
      BY <1>6, <1>13, <3>1, SMTT(30), SMTT(60)
    <3>3. tags[a].index # NoIndex => tags'[a].real_size = tags[a].real_size
      BY <1>8, <3>1, <3>2, ZenonT(60)
    <3> QED
      BY <1>9, <3>1, <3>3, ZenonT(60)
  <2>4. w \in E => tags'[w].index = NoIndex /\ tags'[w].next = NULL /\ tags'[w].prev = NULL
    BY <1>10, <1>11, SMTT(30), SMTT(60)
  <2> QED
    BY <1>11, <1>17, <2>1, <2>2, <2>3, <2>4, ZenonT(60) DEF FUnlink
<1>19. Lists'
  BY <1>1, <1>18, FUnlinkLists, SMTT(30), SMTT(60)
<1>20. MemTypes'
  <2>1. IsFiniteSet(E) /\ E \subseteq Nat \ {NULL}
    BY <1>1, <1>11, RemoveElement, SMTT(30), SMTT(60) DEF MemTypes, E
  <2>2. l_freePages' \in [Indices -> Nat]
    BY <1>1, <1>11, UnheadedType, SMTT(30), SMTT(60)
  <2> QED
    BY <1>1, <1>7, <1>11, <2>1, <2>2, SMTT(30), SMTT(60) DEF MemTypes
<1>21. BlocksOK'
  BY <1>1, SMTT(30), SMTT(60) DEF BlocksOK
<1>22. Counted'
  <2>1. ~Whole(u) /\ ~Whole(v)
    BY <1>4, SMTT(30), SMTT(60) DEF Whole
  <2>2. r # NULL => tags[r].split_left = v
    BY <1>3, <1>11, SMTT(30), SMTT(60) DEF r
  <2>3. \A a \in D : tags[a].index # NoIndex /\ Whole(a) =>
          a \in E /\ tags'[a].index = tags[a].index /\ Whole(a)'
    <3> SUFFICES ASSUME NEW a \in D, tags[a].index # NoIndex, Whole(a)
                 PROVE  a \in E /\ tags'[a].index = tags[a].index /\ Whole(a)'
      BY SMTT(30), SMTT(60)
    <3>1. a \in E /\ a # u /\ a # NULL /\ tags[a].split_left = NULL /\ tags[a].split_right = NULL
      BY <1>3, <1>12, <2>1, SMTT(30), SMTT(60) DEF Whole
    <3>2. a # r
      BY <1>4, <2>2, <3>1, SMTT(30), SMTT(60)
    <3> QED
      BY <1>8, <1>15, <3>1, <3>2, ZenonT(60) DEF Whole
  <2>4. \A a \in E : tags'[a].index # NoIndex /\ Whole(a)' =>
          a \in D /\ tags'[a].index = tags[a].index /\ Whole(a)
    <3> SUFFICES ASSUME NEW a \in E, tags'[a].index # NoIndex, Whole(a)'
                 PROVE  a \in D /\ tags'[a].index = tags[a].index /\ Whole(a)
      BY SMTT(30), SMTT(60)
    <3>1. tags'[a].split_left = NULL /\ tags'[a].split_right = NULL /\ a # u
      BY <1>14, Zenon DEF Whole
    <3>2. a # r
      BY <1>4, <1>8, <3>1, ZenonT(60)
    <3> QED
      BY <1>8, <1>15, <3>1, <3>2, ZenonT(60) DEF Whole
  <2>5. SameWhole
    BY <1>11, <2>3, <2>4, ZenonT(60) DEF SameWhole
  <2> QED
    BY <1>1, <2>5, CountedSame, SMTT(30), SMTT(60)
<1>23. Joined'
  <2> SUFFICES ASSUME NEW a \in E, tags'[a].index # NoIndex, tags'[a].split_right # NULL
               PROVE  tags'[tags'[a].split_right].index = NoIndex
    BY <1>11, ZenonT(60) DEF Joined
  <2> DEFINE s == tags[a].split_right
  <2>1. a # u
    BY <1>14, SMTT(30), SMTT(60)
  <2>2. a \in D /\ tags[a].index # NoIndex /\ tags'[a].split_right = s /\ s # NULL
    BY <1>8, <1>15, <2>1, ZenonT(60)
  <2>3. s \in D /\ tags[s].split_left = a
    BY <1>3, <2>2, SMTT(30), SMTT(60)
  <2>4. tags[s].index = NoIndex
    BY <1>1, <1>11, <2>2, ZenonT(60) DEF Joined
  <2>5. s \in E
    BY <1>4, <1>12, <2>1, <2>3, SMTT(30), SMTT(60)
  <2>6. tags'[s].index = NoIndex
    BY <1>14, <1>15, <2>4, <2>5, ZenonT(60)
  <2> QED
    BY <2>2, <2>6, ZenonT(60)
<1>24. Owned'
  <2>1. \A p \in objects : p \in E /\ p # u
    BY <1>5, <1>11, <1>12, <1>13, SMTT(30), SMTT(60)
  <2>2. \A a \in E : tags'[a].index = NoIndex <=> a \in objects \union {u} \union {}
    <3>1. ASSUME NEW a \in E, a # u PROVE tags'[a].index = NoIndex <=> a \in objects \union {u} \union {}
      <4>1. a \in D /\ a # z /\ tags'[a].index = tags[a].index
        BY <1>15, <3>1, SMTT(30), SMTT(60)
      <4> QED
        BY <1>5, <3>1, <4>1, ZenonT(60)
    <3> QED
      BY <1>14, <3>1, Zenon
  <2>3. \A p \in objects : TagSize + tags'[p].size <= tags'[p].real_size
    BY <1>5, <1>8, <2>1, ZenonT(60)
  <2>4. objects \union {u} \union {} \subseteq E /\ objects \cap {u} = {} /\ objects \cap {} = {} /\ {u} \cap {} = {}
    BY <1>11, <2>1, SMTT(30), SMTT(60)
  <2> QED
    BY <1>11, <2>2, <2>3, <2>4, ZenonT(60) DEF Owned
<1> QED
  BY <1>16, <1>19, <1>20, <1>21, <1>22, <1>23, <1>24, SMTT(30), SMTT(60) DEF LibInv

-----------------------------------------------------------------------------
(* One round of the "melt left" loop. *)
LEMMA MeltLeftKeeps ==
  ASSUME SetFacts, Callers = {"main"}, LibInv, MeltLeft("main")
  PROVE  LibInv'
<1> DEFINE D == DOMAIN tags
<1>t. PICK t : t = Main.tag
  OBVIOUS
<1>u. PICK u : u = tags[t].split_left
  OBVIOUS
<1>1. MemTypes /\ BlocksOK /\ Layout /\ Lists /\ Owned /\ Joined /\ Counted /\ Progress
  BY DEF LibInv
<1>2. /\ Main.pc = "melt" /\ LeftIsFree(t)
      /\ tags' = Melted(t) /\ l_freePages' = Unheaded(u)
      /\ Step("main", [Main EXCEPT !.tag = u])
      /\ l_completePages' = l_completePages /\ blocks' = blocks /\ objects' = objects
  BY <1>t, <1>u, SMTT(30), SMTT(60) DEF MeltLeft, At, Main
<1>3. t \in D /\ Taken = {t} /\ GivenUp = {} /\ tags[t].index = NoIndex
  BY <1>2, <1>t, FreedFacts, SMTT(30), SMTT(60)
<1>4. u # NULL /\ tags[u].index # NoIndex
  BY <1>1, <1>2, <1>3, <1>u, FreeMeans, SMTT(30), SMTT(60)
<1>5. u \in D /\ u # t /\ tags[u].split_right = t
  BY <1>1, <1>3, <1>4, <1>u, NeighbourFacts, SMTT(30), SMTT(60)
<1>6. /\ D \in SUBSET (Nat \ {NULL}) /\ tags \in [D -> boundary_tag]
      /\ tags[t].split_right # NULL => tags[t].split_right \in D
      /\ tags[u].prev # NULL => tags[u].prev \in D \ {u}
      /\ tags[u].next # NULL => tags[u].next \in D \ {u}
  BY <1>1, <1>3, <1>4, <1>5, NeighbourFacts, LinkFacts, TagFns, SMTT(30), SMTT(60)
<1> HIDE DEF D
<1>7. TagsJoined(D, Melted(t), tags, u, t, u)
  BY <1>3, <1>5, <1>6, <1>u, MeltFields, SMTT(30), SMTT(60)
<1>8. TagsJoined(DOMAIN tags, tags', tags, u, t, u)
  BY <1>2, <1>7, ZenonT(60) DEF D
<1>9. Main \in Calls /\ call \in [Callers -> Calls] /\ u \in Nat
  BY <1>1, <1>5, <1>6, CallTypes, SMTT(30), SMTT(60) DEF MemTypes
<1>10. [Main EXCEPT !.tag = u] \in Calls
  BY <1>9, SMTT(30), SMTT(60) DEF Calls
<1>11. Main' = [Main EXCEPT !.tag = u] /\ call' \in [Callers -> Calls]
  BY <1>2, <1>9, <1>10, CallStep, SMTT(30), SMTT(60)
<1>12. Main'.pc = "melt" /\ Main'.tag = u
  BY <1>2, <1>9, <1>11, SMTT(30), SMTT(60) DEF Calls
<1>13. Taken' = {u} /\ GivenUp' = {}
  BY <1>12, SMTT(30), SMTT(60) DEF Taken, GivenUp
<1>14. Progress'
  BY <1>12, SMTT(30), SMTT(60) DEF Progress
<1>15. u \in DOMAIN tags /\ t \in DOMAIN tags /\ u \in {u, t} /\ t \in {u, t} /\ u # t
  BY <1>3, <1>5, SMTT(30), SMTT(60) DEF D
<1> QED
  BY <1>2, <1>3, <1>4, <1>5, <1>8, <1>11, <1>13, <1>14, <1>15, JoinKeeps, SMTT(30), SMTT(60)

(* One round of the "melt right" loop. *)
LEMMA AbsorbRightKeeps ==
  ASSUME SetFacts, Callers = {"main"}, LibInv, AbsorbRight("main")
  PROVE  LibInv'
<1> DEFINE D == DOMAIN tags
<1>t. PICK t : t = Main.tag
  OBVIOUS
<1>v. PICK v : v = tags[t].split_right
  OBVIOUS
<1>1. MemTypes /\ BlocksOK /\ Layout /\ Lists /\ Owned /\ Joined /\ Counted /\ Progress
  BY DEF LibInv
<1>2. /\ MeltDone("main") /\ RightIsFree(t)
      /\ tags' = Absorbed(t) /\ l_freePages' = Unheaded(v)
      /\ Step("main", [Main EXCEPT !.pc = "absorb"])
      /\ l_completePages' = l_completePages /\ blocks' = blocks /\ objects' = objects
  BY <1>t, <1>v, SMTT(30), SMTT(60) DEF AbsorbRight, Main
<1>3. t \in D /\ Taken = {t} /\ GivenUp = {} /\ tags[t].index = NoIndex /\ LeftTaken
  BY <1>2, <1>t, MeltDoneFacts, FreedFacts, SMTT(30), SMTT(60)
<1>4. v # NULL /\ tags[v].index # NoIndex
  BY <1>1, <1>2, <1>3, <1>v, FreeMeans, SMTT(30), SMTT(60)
<1>5. v \in D /\ v # t /\ tags[v].split_left = t
  BY <1>1, <1>3, <1>4, <1>v, NeighbourFacts, SMTT(30), SMTT(60)
<1>6. /\ D \in SUBSET (Nat \ {NULL}) /\ tags \in [D -> boundary_tag]
      /\ tags[v].split_right # NULL => tags[v].split_right \in D
      /\ tags[v].prev # NULL => tags[v].prev \in D \ {v}
      /\ tags[v].next # NULL => tags[v].next \in D \ {v}
  BY <1>1, <1>4, <1>5, NeighbourFacts, LinkFacts, TagFns, SMTT(30), SMTT(60)
<1>7. TagsJoined(DOMAIN tags, tags', tags, t, v, v)
  <2> HIDE DEF D
  <2>1. TagsJoined(D, Absorbed(t), tags, t, v, v)
    BY <1>3, <1>5, <1>6, <1>v, AbsorbFields, SMTT(30), SMTT(60)
  <2> QED
    BY <1>2, <2>1, ZenonT(60) DEF D
<1>9. Main \in Calls /\ call \in [Callers -> Calls]
  BY <1>1, CallTypes, SMTT(30), SMTT(60) DEF MemTypes
<1>10. [Main EXCEPT !.pc = "absorb"] \in Calls
  BY <1>9 DEF Calls
<1>11. Main' = [Main EXCEPT !.pc = "absorb"] /\ call' \in [Callers -> Calls]
  BY <1>2, <1>9, <1>10, CallStep, SMTT(30), SMTT(60)
<1>12. Main'.pc = "absorb" /\ Main'.tag = t
  BY <1>9, <1>11, <1>t, SMTT(30), SMTT(60) DEF Calls
<1>13. Taken' = {t} /\ GivenUp' = {}
  BY <1>12 DEF Taken, GivenUp
<1>14. Progress'
  <2> DEFINE l == tags[t].split_left
  <2>1. t < v /\ (tags[v].split_right # NULL => v < tags[v].split_right) /\ t \in Nat /\ v \in Nat
    BY <1>1, <1>3, <1>4, <1>5, <1>6, <1>v, RightIsBehind, SMTT(30), SMTT(60)
  <2>2. tags[v].split_right # t
    BY <1>3, <1>6, <2>1, SMTT(30), SMTT(60)
  <2>3. l # NULL => l \in D /\ l # t /\ tags[l].split_right = t
    BY <1>1, <1>3, NeighbourFacts, SMTT(30), SMTT(60)
  <2>4. l # NULL => l # v
    BY <2>2, <2>3, SMTT(30), SMTT(60)
  <2>5. l # NULL => tags[l].index = NoIndex
    BY <1>3, <1>t, SMTT(30), SMTT(60) DEF LeftTaken
  <2>6. t \in D \ {v} /\ (l # NULL => l \in D \ {v})
    BY <1>3, <1>5, <2>3, <2>4, SMTT(30), SMTT(60)
  <2>7. tags'[t].split_left = l
    BY <1>7, <2>2, <2>6, ZenonT(40) DEF TagsJoined
  <2>8. l # NULL => tags'[l].index = NoIndex
    BY <1>7, <2>4, <2>5, <2>6, ZenonT(60) DEF TagsJoined
  <2>9. LeftTaken'
    BY <1>12, <2>7, <2>8, ZenonT(60) DEF LeftTaken
  <2> QED
    BY <1>12, <2>9, ZenonT(60) DEF Progress
<1>15. v \in DOMAIN tags /\ t \in DOMAIN tags /\ v \in {t, v} /\ t \in {t, v} /\ v # t
  BY <1>3, <1>5, SMTT(30), SMTT(60)
<1> QED
  BY <1>2, <1>3, <1>4, <1>v, <1>7, <1>11, <1>13, <1>14, <1>15, JoinKeeps, SMTT(30), SMTT(60)

-----------------------------------------------------------------------------
(* Before the first call there is no memory. *)
LEMMA LibInitInv ==
  ASSUME SetFacts, Callers = {"main"}, LibInit
  PROVE  LibInv
<1>1. /\ DOMAIN tags = {} /\ tags \in [{} -> boundary_tag]
      /\ l_freePages = [i \in Indices |-> NULL] /\ l_completePages = [i \in Indices |-> 0]
      /\ blocks = {} /\ objects = {} /\ Main = Idle /\ call \in [Callers -> Calls]
  <2>1. call = [c \in Callers |-> Idle] /\ Idle \in Calls
    BY SMTT(30), SMTT(60) DEF LibInit, Idle, Calls, NULL
  <2> QED
    BY <2>1, SMTT(30), SMTT(60) DEF LibInit, Main
<1>2. MemTypes
  BY <1>1, EmptySet, LiballocAssumption, SMTT(30), SMTT(60) DEF MemTypes, NULL
<1>3. BlocksOK
  BY <1>1, SMTT(30), SMTT(60) DEF BlocksOK
<1>4. Layout
  BY <1>1, SMTT(30), SMTT(60) DEF Layout, Tiles, Adjacent
<1>5. Lists
  <2>1. ASSUME NEW i \in Indices PROVE List(i, 0, [x \in 1 .. 0 |-> 0])
    BY <1>1 DEF List, Chain
  <2>2. 0 \in Nat /\ [x \in 1 .. 0 |-> 0] \in [1 .. 0 -> Nat]
    OBVIOUS
  <2>3. \A i \in Indices : \E n \in Nat : \E s \in [1 .. n -> Nat] : List(i, n, s)
    BY <2>1, <2>2, ZenonT(60)
  <2> QED
    BY <1>1, <2>3, SMTT(30), SMTT(60) DEF Lists
<1>6. Main.pc = "idle"
  BY <1>1, SMTT(30), SMTT(60) DEF Idle
<1>7. Owned /\ Joined /\ Progress
  BY <1>1, <1>6, Zenon DEF Owned, Joined, Progress, Taken, GivenUp
<1>8. Counted
  <2>1. \A i \in Indices : WholeFree(i) = {}
    BY <1>1 DEF WholeFree
  <2> QED
    BY <1>1, <2>1, EmptySet, ZenonT(60) DEF Counted
<1> QED
  BY <1>2, <1>3, <1>4, <1>5, <1>7, <1>8, SMTT(30), SMTT(60) DEF LibInv

(* Every step keeps the invariant of Liballoc. *)
LEMMA LibStepInv ==
  ASSUME SetFacts, Callers = {"main"}, LibInv, [LibNext]_libVars
  PROVE  LibInv'
<1>1. CASE UNCHANGED libVars
  <2>1. tags' = tags /\ l_freePages' = l_freePages /\ l_completePages' = l_completePages /\ blocks' = blocks
        /\ objects' = objects /\ call' = call
    BY <1>1, SMTT(30), SMTT(60) DEF libVars
  <2>2. MemTypes' /\ BlocksOK' /\ Layout'
    BY <2>1, SMTT(30), SMTT(60) DEF LibInv, MemTypes, BlocksOK, Layout, SizeOf, LeftOf, RightOf
  <2>3. Lists'
    BY <2>1, ZenonT(60) DEF LibInv, Lists, List, IndexOf, NextOf, PrevOf, Payload
  <2>4. Main' = Main
    BY <2>1, SMTT(30), SMTT(60) DEF Main
  <2>5. Taken' = Taken /\ GivenUp' = GivenUp
    BY <2>4, SMTT(30), SMTT(60) DEF Taken, GivenUp
  <2>6. Owned' /\ Joined' /\ Counted'
    BY <2>1, <2>5, SMTT(30), SMTT(60) DEF LibInv, Owned, Joined, Counted, WholeFree, Whole
  <2>7. Progress'
    BY <2>1, <2>4, ZenonT(60) DEF LibInv, Progress, RightTaken, LeftTaken, Payload
  <2> QED
    BY <2>2, <2>3, <2>6, <2>7, SMTT(30), SMTT(60) DEF LibInv
<1>2. CASE LibNext
  <2>1. \/ malloc("main") \/ realloc("main") \/ TakeFound("main") \/ allocate_new_tag("main") \/ Place("main")
        \/ free("main") \/ MeltLeft("main") \/ AbsorbRight("main") \/ PutBack("main") \/ GiveBack("main")
    BY <1>2, SMTT(30), SMTT(60) DEF LibNext
  <2> QED
    BY <2>1, mallocKeeps, reallocKeeps, TakeFoundKeeps, allocate_new_tagKeeps, PlaceKeeps, freeKeeps,
       MeltLeftKeeps, AbsorbRightKeeps, PutBackKeeps, GiveBackKeeps, SMTT(30), SMTT(60)
<1> QED
  BY <1>1, <1>2, SMTT(30), SMTT(60)

-----------------------------------------------------------------------------
(* Tags that tile the blocks one by one are disjoint and cover all of them. *)
LEMMA TilesAll ==
  ASSUME NEW D \in SUBSET (Nat \ {NULL}), NEW S \in [D -> Nat], NEW B, Spaced(B), Tiles(D, S, B)
  PROVE  /\ \A t, u \in D : t # u => (t .. (t + S[t] - 1)) \cap (u .. (u + S[u] - 1)) = {}
         /\ UNION {t .. (t + S[t] - 1) : t \in D} = UNION {BlockStart(b) .. (BlockEnd(b) - 1) : b \in B}
<1>1. \A t, u \in D : t < u => t + S[t] <= u
  BY SMTT(30), SMTT(60) DEF Tiles
<1>2. ASSUME NEW t \in D, NEW u \in D, t # u
      PROVE  (t .. (t + S[t] - 1)) \cap (u .. (u + S[u] - 1)) = {}
  <2>1. t \in Nat /\ u \in Nat /\ S[t] \in Nat /\ S[u] \in Nat
    BY SMTT(30), SMTT(60)
  <2>2. t + S[t] <= u \/ u + S[u] <= t
    BY <1>1, <1>2, <2>1, SMTT(30), SMTT(60)
  <2> QED
    BY <2>1, <2>2, SMTT(30), SMTT(60)
<1>3. \A b \in B : BlockStart(b) \in Nat /\ BlockEnd(b) \in Nat
  BY SMTT(30), SMTT(60) DEF Spaced
<1>4. ASSUME NEW t \in D, NEW x \in t .. (t + S[t] - 1)
      PROVE  \E b \in B : x \in BlockStart(b) .. (BlockEnd(b) - 1)
  <2>1. PICK b \in B : BlockStart(b) <= t /\ t + S[t] <= BlockEnd(b)
    BY SMTT(30), SMTT(60) DEF Tiles
  <2>2. t \in Nat /\ S[t] \in Nat /\ BlockStart(b) \in Nat /\ BlockEnd(b) \in Nat
    BY <1>3, SMTT(30), SMTT(60)
  <2>3. x \in BlockStart(b) .. (BlockEnd(b) - 1)
    BY <2>1, <2>2, SMTT(30), SMTT(60)
  <2> QED
    BY <2>3, SMTT(30), SMTT(60)
<1>5. ASSUME NEW b \in B, NEW x \in BlockStart(b) .. (BlockEnd(b) - 1)
      PROVE  \E t \in D : x \in t .. (t + S[t] - 1)
  <2>1. PICK t \in D : t <= x /\ x < t + S[t]
    BY SMTT(30), SMTT(60) DEF Tiles
  <2>2. t \in Nat /\ S[t] \in Nat /\ x \in Nat
    BY <1>3, SMTT(30), SMTT(60)
  <2>3. x \in t .. (t + S[t] - 1)
    BY <2>1, <2>2, SMTT(30), SMTT(60)
  <2> QED
    BY <2>3, SMTT(30), SMTT(60)
<1>6. UNION {t .. (t + S[t] - 1) : t \in D} = UNION {BlockStart(b) .. (BlockEnd(b) - 1) : b \in B}
  <2>1. \A x : x \in UNION {t .. (t + S[t] - 1) : t \in D} <=> \E t \in D : x \in t .. (t + S[t] - 1)
    BY Zenon
  <2>2. \A x : x \in UNION {BlockStart(b) .. (BlockEnd(b) - 1) : b \in B}
                 <=> \E b \in B : x \in BlockStart(b) .. (BlockEnd(b) - 1)
    BY Zenon
  <2>3. \A x : (\E t \in D : x \in t .. (t + S[t] - 1)) <=> \E b \in B : x \in BlockStart(b) .. (BlockEnd(b) - 1)
    BY <1>4, <1>5, ZenonT(60)
  <2> QED
    BY <2>1, <2>2, <2>3, ZenonT(60)
<1> QED
  BY <1>2, <1>6, SMTT(30), SMTT(60)

(* The invariant implies that the blocks tile the regions. *)
LEMMA InvTiling ==
  ASSUME Callers = {"main"}, LibInv
  PROVE  Tiling
<1> DEFINE D == DOMAIN tags
<1>1. MemTypes /\ BlocksOK /\ Layout /\ Owned
  BY SMTT(30), SMTT(60) DEF LibInv
<1>2. /\ D \in SUBSET (Nat \ {NULL}) /\ SizeOf \in [D -> Nat]
      /\ \A a \in D : SizeOf[a] = tags[a].real_size /\ LeftOf[a] = tags[a].split_left /\ RightOf[a] = tags[a].split_right
      /\ tags \in [D -> boundary_tag]
  BY <1>1, TagFns, SMTT(30), SMTT(60)
<1>3. LibTypeOK
  <2>1. \A t \in D : t \in Nat \ {NULL} /\ tags[t] \in boundary_tag
    BY <1>2, SMTT(30), SMTT(60)
  <2>2. objects \subseteq Nat
    BY <1>1, <1>2, SMTT(30), SMTT(60) DEF Owned
  <2>3. \A c \in Callers : call[c].pc \in {"idle", "take", "place", "melt", "absorb"}
    BY <1>1, SMTT(30), SMTT(60) DEF MemTypes, Calls
  <2> QED
    BY <1>1, <2>1, <2>2, <2>3, ZenonT(60) DEF LibTypeOK, MemTypes, BlocksOK, boundary_tag
<1>4. Tiles(D, SizeOf, blocks) /\ Adjacent(D, SizeOf, LeftOf, RightOf, blocks) /\ Spaced(blocks)
  BY <1>1, BlocksAreSpaced, SMTT(30), SMTT(60) DEF Layout
<1>5. /\ \A t, u \in D : t # u => (t .. (t + SizeOf[t] - 1)) \cap (u .. (u + SizeOf[u] - 1)) = {}
      /\ UNION {t .. (t + SizeOf[t] - 1) : t \in D} = UNION {BlockStart(b) .. (BlockEnd(b) - 1) : b \in blocks}
  <2> HIDE DEF D
  <2> QED
    BY <1>2, <1>4, TilesAll, ZenonT(60)
<1>6. \A t \in D : Extent(t) = t .. (t + SizeOf[t] - 1)
  BY <1>2, SMTT(30), SMTT(60) DEF Extent
<1>7. \A b \in blocks : Bytes(b) = BlockStart(b) .. (BlockEnd(b) - 1)
  BY SMTT(30), SMTT(60) DEF Bytes, BlockStart, BlockEnd
<1>8. {Extent(t) : t \in D} = {t .. (t + SizeOf[t] - 1) : t \in D}
      /\ {Bytes(b) : b \in blocks} = {BlockStart(b) .. (BlockEnd(b) - 1) : b \in blocks}
  BY <1>6, <1>7, SMTT(30), SMTT(60)
<1>9. \A t, u \in D : t # u => Extent(t) \cap Extent(u) = {}
  BY <1>5, <1>6, ZenonT(60)
<1>10. UNION {Extent(t) : t \in D} = UNION {Bytes(b) : b \in blocks}
  BY <1>5, <1>8, ZenonT(40)
<1>11. ASSUME NEW t \in D
       PROVE  LET l == tags[t].split_left
                  r == tags[t].split_right
              IN /\ r # NULL => r = t + tags[t].real_size /\ r \in D /\ tags[r].split_left = t
                 /\ l # NULL => l \in D /\ tags[l].split_right = t
                 /\ l = NULL <=> \E b \in blocks : t = b.start * l_pageSize
  <2>1. RightOf[t] # NULL => RightOf[t] = t + SizeOf[t] /\ RightOf[t] \in D /\ LeftOf[RightOf[t]] = t
    BY <1>4, Zenon DEF Adjacent
  <2>2. LeftOf[t] # NULL => LeftOf[t] \in D /\ RightOf[LeftOf[t]] = t
    BY <1>4, Zenon DEF Adjacent
  <2>3. LeftOf[t] = NULL <=> \E b \in blocks : t = BlockStart(b)
    BY <1>4, ZenonT(60) DEF Adjacent
  <2>4. SizeOf[t] = tags[t].real_size /\ LeftOf[t] = tags[t].split_left /\ RightOf[t] = tags[t].split_right
    BY <1>2, SMTT(30), SMTT(60)
  <2>5. tags[t].split_right # NULL => /\ tags[t].split_right = t + tags[t].real_size /\ tags[t].split_right \in D
                                      /\ tags[tags[t].split_right].split_left = t
    BY <1>2, <2>1, <2>4, SMTT(30), SMTT(60)
  <2>6. tags[t].split_left # NULL => tags[t].split_left \in D /\ tags[tags[t].split_left].split_right = t
    BY <1>2, <2>2, <2>4, SMTT(30), SMTT(60)
  <2>7. tags[t].split_left = NULL <=> \E b \in blocks : t = b.start * l_pageSize
    BY <2>3, <2>4, ZenonT(60) DEF BlockStart
  <2> QED
    BY <2>5, <2>6, <2>7, ZenonT(60)
<1> QED
  BY <1>3, <1>9, <1>10, <1>11, ZenonT(60) DEF Tiling

(* The invariant implies the other four properties. *)
LEMMA InvRest ==
  ASSUME SetFacts, Callers = {"main"}, LibInv
  PROVE  ObjectsSafe /\ FreeListsSound /\ FullyJoined /\ CompleteCounted
<1>1. MemTypes /\ Layout /\ Lists /\ Owned /\ Joined /\ Counted
  BY SMTT(30), SMTT(60) DEF LibInv
<1>2. \A t \in DOMAIN tags : IsFree(t) <=> tags[t].index # NoIndex
  BY <1>1, FreeIsListed, SMTT(30), SMTT(60)
<1>3. ObjectsSafe
  BY <1>1, <1>2, SMTT(30), SMTT(60) DEF ObjectsSafe, Owned
<1>4. FreeListsSound
  <2>1. \A i \in Indices :
          /\ {Walk(i)[n] : n \in DOMAIN Walk(i)} \ {NULL} = {t \in DOMAIN tags : tags[t].index = i}
          /\ Walk(i)[Cardinality(DOMAIN tags)] = NULL
    BY <1>1, WalkIsList, SMTT(30), SMTT(60)
  <2>2. ASSUME NEW t \in DOMAIN tags, IsFree(t)
        PROVE  /\ tags[t].index = ListOf(Payload(t))
               /\ tags[t].next # NULL => tags[tags[t].next].prev = t
               /\ tags[t].prev = NULL <=> l_freePages[tags[t].index] = t
    <3>1. tags[t].index # NoIndex
      BY <1>2, <2>2, SMTT(30), SMTT(60)
    <3>2. tags[t].index = ListOf(Payload(t))
      BY <1>1, <3>1, SMTT(30), SMTT(60) DEF Lists
    <3> QED
      BY <1>1, <3>1, <3>2, LinkFacts, SMTT(30), SMTT(60)
  <2> QED
    BY <2>1, <2>2, ZenonT(60) DEF FreeListsSound
<1>5. ASSUME Quiet PROVE Taken = {} /\ GivenUp = {}
  <2>1. Main.pc = "idle"
    BY <1>5, SMTT(30), SMTT(60) DEF Quiet, Main
  <2> QED
    BY <2>1, SMTT(30), SMTT(60) DEF Taken, GivenUp
<1>6. FullyJoined
  <2>1. \A t \in DOMAIN tags : ~RightIsFree(t) <=>
          (tags[t].split_right # NULL => tags[tags[t].split_right].index = NoIndex)
    BY <1>1, FreeMeans, SMTT(30), SMTT(60)
  <2>2. \A t \in DOMAIN tags : IsFree(t) => ~RightIsFree(t)
    BY <1>1, <1>2, <2>1, SMTT(30), SMTT(60) DEF Joined
  <2>3. Quiet => \A t \in DOMAIN tags : IsFree(t) \/ t \in objects
    BY <1>1, <1>2, <1>5, SMTT(30), SMTT(60) DEF Owned
  <2> QED
    BY <2>2, <2>3, SMTT(30), SMTT(60) DEF FullyJoined
<1>7. CompleteCounted
  BY <1>1, SMTT(30), SMTT(60) DEF CompleteCounted, Counted, WholeFree
<1> QED
  BY <1>3, <1>4, <1>6, <1>7, SMTT(30), SMTT(60)

-----------------------------------------------------------------------------
INSTANCE FiniteSetTheorems

(* The facts about sets and numbers, from the library. *)
LEMMA SetFactsHold == SetFacts
<1>1. \A S \in SUBSET Nat : S # {} => \E m \in S : \A k \in S : m <= k
  <2> DEFINE R == OpToRel(<, Nat)
  <2>1. IsWellFoundedOn(R, Nat)
    BY NatLessThanWellFounded, ZenonT(60)
  <2>2. \A k, m \in Nat : k < m => <<k, m>> \in R
    BY SMTT(30), SMTT(60) DEF OpToRel
  <2> HIDE DEF R
  <2> SUFFICES ASSUME NEW S \in SUBSET Nat, S # {} PROVE \E m \in S : \A k \in S : m <= k
    BY SMTT(30), SMTT(60)
  <2>3. PICK m \in S : \A k \in S : ~(<<k, m>> \in R)
    BY <2>1, WFMin, ZenonT(60)
  <2>4. \A k \in S : ~(k < m)
    BY <2>2, <2>3, ZenonT(60)
  <2> QED
    BY <2>4, SMTT(30), SMTT(60)
<1>2. IsFiniteSet({}) /\ Cardinality({}) = 0
  BY FS_EmptySet, SMTT(30), SMTT(60)
<1>3. \A S : IsFiniteSet(S) => Cardinality(S) \in Nat
  BY FS_CardinalityType, SMTT(30), SMTT(60)
<1>4. \A S, x : IsFiniteSet(S) =>
        /\ IsFiniteSet(S \union {x})
        /\ Cardinality(S \union {x}) = IF x \in S THEN Cardinality(S) ELSE Cardinality(S) + 1
  BY FS_AddElement, SMTT(30), SMTT(60)
<1>5. \A S, x : IsFiniteSet(S) =>
        /\ IsFiniteSet(S \ {x})
        /\ Cardinality(S \ {x}) = IF x \in S THEN Cardinality(S) - 1 ELSE Cardinality(S)
  BY FS_RemoveElement, SMTT(30), SMTT(60)
<1>6. \A S, T : IsFiniteSet(S) /\ T \subseteq S => IsFiniteSet(T)
  BY FS_Subset, SMTT(30), SMTT(60)
<1>7. \A S : \A n \in Nat : \A s \in [1 .. n -> S] :
        IsFiniteSet(S) /\ (\A a, b \in 1 .. n : s[a] = s[b] => a = b) => n <= Cardinality(S)
  <2> SUFFICES ASSUME NEW S, NEW n \in Nat, NEW s \in [1 .. n -> S], IsFiniteSet(S),
                      \A a, b \in 1 .. n : s[a] = s[b] => a = b
               PROVE  n <= Cardinality(S)
    BY ZenonT(60)
  <2>1. s \in Injection(1 .. n, S)
    BY SMTT(30), SMTT(60) DEF Injection, IsInjective
  <2>2. Cardinality(1 .. n) = n
    BY FS_Interval, SMTT(30), SMTT(60)
  <2> QED
    BY <2>1, <2>2, FS_Injection, SMTT(30), SMTT(60)
<1> QED
  BY <1>1, <1>2, <1>3, <1>4, <1>5, <1>6, <1>7, ZenonT(60) DEF SetFacts

(* With one caller, the tags tile the blocks (Tiling), no object lies in    *)
(* free memory or outside its tag (ObjectsSafe) and, between calls, the     *)
(* free lists are sound and complete (FreeListsSound), free neighbours are  *)
(* joined and nothing is lost (FullyJoined), and the whole blocks that      *)
(* stand by are counted (CompleteCounted).                                  *)
THEOREM LiballocSafety ==
  ASSUME Callers = {"main"}
  PROVE  LibSpec => [](Tiling /\ ObjectsSafe /\ FreeListsSound /\ FullyJoined /\ CompleteCounted)
<1>1. LibInit => LibInv
  BY LibInitInv, SetFactsHold, SMTT(30), SMTT(60)
<1>2. LibInv /\ [LibNext]_libVars => LibInv'
  BY LibStepInv, SetFactsHold, SMTT(30), SMTT(60)
<1>3. LibInv => Tiling /\ ObjectsSafe /\ FreeListsSound /\ FullyJoined /\ CompleteCounted
  BY InvTiling, InvRest, SetFactsHold, SMTT(30), SMTT(60)
<1> QED
  BY <1>1, <1>2, <1>3, PTL DEF LibSpec
=============================================================================
