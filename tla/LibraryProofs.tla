--------------------------- MODULE LibraryProofs ---------------------------
(***************************************************************************)
(* The proofs about the library code that the kernel calls.                 *)
(*                                                                         *)
(* The hash map, for every set of keys, every hash function and every       *)
(* number of expansions: searches end, iterations are complete, and the map *)
(* implements a dictionary.  The argument is that every key is Placed: the  *)
(* search for a key that is in a table ends at that key.  set_entry keeps   *)
(* that, since it fills the slot where a search ends; and then no key is in *)
(* two slots, as a search ends in one place only.                           *)
(*                                                                         *)
(* ksleep, for every length of a sleep: what is left to wait and what has   *)
(* been waited add up to what was asked for.                                *)
(***************************************************************************)
EXTENDS HashMap, Sleep, FiniteSetTheorems, TLAPS

Used(t) == {j \in DOMAIN t : t[j].key # Null}

UsedBelow(t, n) == {j \in Used(t) : j < n}

Table(cap) == [Indices(cap) -> Entries]

Placed(t, cap) ==
  \A j \in Indices(cap) : t[j].key # Null =>
    \E d \in Indices(cap) : Search(t, cap, t[j].key, d) /\ Probe(t[j].key, d, cap) = j

Calls == [key : Keys, value : Vals]

HmTypeOK ==
  /\ hash \in [Keys -> Nat]
  /\ capacity \in Nat /\ capacity >= 4 /\ capacity % 4 = 0
  /\ count \in Nat
  /\ entries \in Table(capacity)
  /\ call \in Calls \union {NoCall}
  /\ i \in 0 .. capacity
  /\ call # NoCall => fresh \in Table(2 * capacity)
  /\ it \in 0 .. capacity
  /\ seen \in [Keys -> Nat]
  /\ expected \subseteq Keys

(* The map is never more than three quarters full, and what hm_expand has   *)
(* filled so far is no more than what it has moved.                         *)
Room ==
  /\ Cardinality(Used(entries)) <= count
  /\ 4 * count <= 3 * capacity
  /\ call # NoCall => Cardinality(Used(fresh)) <= Cardinality(UsedBelow(entries, i))

(* hm_expand has moved the slots below i, and nothing else is in the new    *)
(* table.                                                                   *)
Moved ==
  call # NoCall =>
    /\ Placed(fresh, 2 * capacity)
    /\ \A j \in Indices(capacity) : j < i /\ entries[j].key # Null =>
         \E l \in Indices(2 * capacity) : fresh[l] = entries[j]
    /\ \A l \in Indices(2 * capacity) : fresh[l].key # Null =>
         \E j \in Indices(capacity) : j < i /\ fresh[l] = entries[j]

(* An iterator has returned the keys below its index that it has to return, *)
(* and only keys below its index.                                           *)
Iterating ==
  /\ expected \subseteq KeysOf(entries)
  /\ \A k \in Keys : seen[k] <= 1
  /\ \A k \in Keys : seen[k] = 1 => \E j \in Indices(capacity) : j < it /\ entries[j].key = k
  /\ \A j \in Indices(capacity) : j < it /\ entries[j].key \in expected => seen[entries[j].key] = 1

(* Once the table was replaced nothing is known of an iterator. *)
Iterated == ~rehashed => Iterating

HmIInv == HmTypeOK /\ Room /\ Placed(entries, capacity) /\ Moved /\ Iterated
-----------------------------------------------------------------------------
(* A probe is a slot of the table. *)
LEMMA ProbeType ==
  ASSUME hash \in [Keys -> Nat], NEW cap \in Nat, cap > 0, NEW k \in Keys, NEW d \in Indices(cap)
  PROVE  Probe(k, d, cap) \in Indices(cap)
<1>1. hash[k] \in Nat
  OBVIOUS
<1>2. hash[k] % cap \in 0 .. (cap - 1)
  BY <1>1
<1> QED
  BY <1>2 DEF Probe, hash_value, Indices

(* A search ends in one place. *)
LEMMA SearchUnique ==
  ASSUME NEW cap \in Nat, NEW t, NEW k, NEW d, NEW e, Search(t, cap, k, d), Search(t, cap, k, e)
  PROVE  d = e
BY DEF Search, Indices

(* No key is in two slots. *)
LEMMA KeyUnique ==
  ASSUME NEW cap \in Nat, NEW t, Placed(t, cap), NEW j \in Indices(cap), NEW l \in Indices(cap),
         t[j].key = t[l].key, t[j].key # Null
  PROVE  j = l
<1>1. PICK d \in Indices(cap) : Search(t, cap, t[j].key, d) /\ Probe(t[j].key, d, cap) = j
  BY DEF Placed
<1>2. PICK e \in Indices(cap) : Search(t, cap, t[l].key, e) /\ Probe(t[l].key, e, cap) = l
  BY DEF Placed
<1>3. d = e
  BY <1>1, <1>2, SearchUnique
<1> QED
  BY <1>1, <1>2, <1>3

(* set_entry fills the slot where the search for its key ended. *)
LEMMA SetEntry ==
  ASSUME hash \in [Keys -> Nat], NEW cap \in Nat, cap > 0, NEW t \in Table(cap), Placed(t, cap),
         NEW k \in Keys, NEW v \in Vals, NEW d \in Indices(cap), Search(t, cap, k, d)
  PROVE  /\ set_entry(t, cap, k, v, d) \in Table(cap)
         /\ Placed(set_entry(t, cap, k, v, d), cap)
         /\ \A j \in Indices(cap) : set_entry(t, cap, k, v, d)[j] =
              IF j = Probe(k, d, cap) THEN [key |-> k, value |-> v] ELSE t[j]
         /\ t[Probe(k, d, cap)].key \in {Null, k}
<1> DEFINE p == Probe(k, d, cap)
           u == set_entry(t, cap, k, v, d)
<1>1. p \in Indices(cap)
  BY ProbeType
<1>2. u \in Table(cap)
  BY <1>1 DEF set_entry, Table, Entries
<1>3. \A j \in Indices(cap) : u[j] = IF j = p THEN [key |-> k, value |-> v] ELSE t[j]
  BY <1>1 DEF set_entry, Table
<1>4. t[p].key \in {Null, k}
  BY DEF Search, Stops
<1>5. k # Null
  BY KeysAssumption
<1>6. Placed(u, cap)
  <2> SUFFICES ASSUME NEW j \in Indices(cap), u[j].key # Null
               PROVE  \E e \in Indices(cap) : Search(u, cap, u[j].key, e) /\ Probe(u[j].key, e, cap) = j
    BY DEF Placed
  <2>1. CASE j = p
    <3>1. u[j].key = k
      BY <1>3, <2>1
    <3>2. \A e \in 0 .. (d - 1) : ~Stops(u, cap, k, e)
      <4> SUFFICES ASSUME NEW e \in 0 .. (d - 1) PROVE ~Stops(u, cap, k, e)
        OBVIOUS
      <4>1. e \in Indices(cap) /\ ~Stops(t, cap, k, e)
        BY DEF Search, Indices
      <4>2. Probe(k, e, cap) # p
        BY <4>1, <1>4 DEF Stops
      <4>3. Probe(k, e, cap) \in Indices(cap)
        BY <4>1, ProbeType
      <4> QED
        BY <4>1, <4>2, <4>3, <1>3, Zenon DEF Stops
    <3>3. Stops(u, cap, k, d)
      BY <3>1, <2>1 DEF Stops
    <3> QED
      BY <3>1, <3>2, <3>3, <2>1 DEF Search
  <2>2. CASE j # p
    <3>1. u[j] = t[j]
      BY <1>3, <2>2
    <3>2. PICK e \in Indices(cap) : Search(t, cap, t[j].key, e) /\ Probe(t[j].key, e, cap) = j
      BY <3>1 DEF Placed
    <3>3. t[j].key \in Keys
      BY <3>1 DEF Table, Entries, Empty
    <3>4. \A f \in 0 .. (e - 1) : ~Stops(u, cap, t[j].key, f)
      <4> SUFFICES ASSUME NEW f \in 0 .. (e - 1) PROVE ~Stops(u, cap, t[j].key, f)
        OBVIOUS
      <4>1. f \in Indices(cap) /\ ~Stops(t, cap, t[j].key, f)
        BY <3>2 DEF Search, Indices
      <4>2. Probe(t[j].key, f, cap) \in Indices(cap)
        BY <4>1, <3>3, ProbeType, Zenon
      <4>3. u[Probe(t[j].key, f, cap)].key = t[Probe(t[j].key, f, cap)].key
        <5>1. CASE Probe(t[j].key, f, cap) # p
          BY <5>1, <4>2, <1>3
        <5>2. CASE Probe(t[j].key, f, cap) = p
          <6>1. t[p].key # Null
            BY <5>2, <4>1, Zenon DEF Stops
          <6>2. t[p].key = k
            BY <6>1, <1>4, Zenon
          <6>3. u[p] = [key |-> k, value |-> v]
            BY <1>1, <1>3, Zenon
          <6> QED
            BY <5>2, <6>2, <6>3
        <5> QED
          BY <5>1, <5>2
      <4> QED
        BY <4>1, <4>3 DEF Stops
    <3>5. Stops(u, cap, t[j].key, e)
      BY <3>1, <3>2 DEF Stops
    <3> QED
      BY <3>1, <3>2, <3>4, <3>5 DEF Search
  <2> QED
    BY <2>1, <2>2
<1> QED
  BY <1>2, <1>3, <1>4, <1>6

-----------------------------------------------------------------------------
(* The used entries of a table are finitely many. *)
LEMMA UsedFinite ==
  ASSUME NEW cap \in Nat, NEW t \in Table(cap)
  PROVE  IsFiniteSet(Used(t)) /\ Used(t) \subseteq Indices(cap) /\ Cardinality(Used(t)) \in Nat
<1>1. IsFiniteSet(0 .. (cap - 1))
  BY FS_Interval
<1>2. Used(t) \subseteq 0 .. (cap - 1)
  BY DEF Used, Table, Indices
<1>3. IsFiniteSet(Used(t))
  BY <1>1, <1>2, FS_Subset
<1> QED
  BY <1>2, <1>3, FS_CardinalityType DEF Indices

(* A table whose slots are not all in use has an empty one. *)
LEMMA HasRoom ==
  ASSUME NEW cap \in Nat, NEW t \in Table(cap), Cardinality(Used(t)) < cap
  PROVE  \E j \in Indices(cap) : t[j].key = Null
<1> SUFFICES ASSUME \A j \in Indices(cap) : t[j].key # Null PROVE FALSE
  OBVIOUS
<1>1. Used(t) = 0 .. (cap - 1)
  BY DEF Used, Table, Indices
<1>2. Cardinality(0 .. (cap - 1)) = cap
  <2>1. CASE cap = 0
    BY <2>1, FS_Interval
  <2>2. CASE cap > 0
    BY <2>2, FS_Interval
  <2> QED
    BY <2>1, <2>2
<1> QED
  BY <1>1, <1>2

(* set_entry uses one slot more for a new key, and none for an old one. *)
LEMMA SetEntryUsed ==
  ASSUME hash \in [Keys -> Nat], NEW cap \in Nat, cap > 0, NEW t \in Table(cap), Placed(t, cap),
         NEW k \in Keys, NEW v \in Vals, NEW d \in Indices(cap), Search(t, cap, k, d)
  PROVE  LET u == set_entry(t, cap, k, v, d)
         IN  /\ t[Probe(k, d, cap)].key = k => Cardinality(Used(u)) = Cardinality(Used(t))
             /\ Cardinality(Used(u)) <= Cardinality(Used(t)) + 1
<1> DEFINE p == Probe(k, d, cap)
           u == set_entry(t, cap, k, v, d)
<1>1. /\ u \in Table(cap)
      /\ \A j \in Indices(cap) : u[j] = IF j = p THEN [key |-> k, value |-> v] ELSE t[j]
      /\ t[p].key \in {Null, k}
  BY SetEntry
<1>2. p \in Indices(cap)
  BY ProbeType
<1>3. k # Null
  BY KeysAssumption
<1>4. Used(u) = Used(t) \cup {p}
  <2> DOMAIN t = Indices(cap) /\ DOMAIN u = Indices(cap)
    BY <1>1 DEF Table
  <2> HIDE DEF u, p
  <2> QED
    BY <1>1, <1>2, <1>3 DEF Used
<1>5. IsFiniteSet(Used(t)) /\ Cardinality(Used(t)) \in Nat
  BY UsedFinite
<1>6. Cardinality(Used(t) \cup {p}) = IF p \in Used(t) THEN Cardinality(Used(t)) ELSE Cardinality(Used(t)) + 1
  BY <1>5, FS_AddElement, Zenon
<1>7. t[p].key = k => p \in Used(t)
  BY <1>2, <1>3 DEF Used, Table
<1> HIDE DEF u, p
<1>8. /\ t[p].key = k => Cardinality(Used(u)) = Cardinality(Used(t))
      /\ Cardinality(Used(u)) <= Cardinality(Used(t)) + 1
  BY <1>4, <1>5, <1>6, <1>7
<1> QED
  BY <1>8 DEF u, p

(* The slots in use below n + 1: slot n counts if it is in use. *)
LEMMA UsedBelowNext ==
  ASSUME NEW cap \in Nat, NEW t \in Table(cap), NEW n \in Indices(cap)
  PROVE  /\ Cardinality(UsedBelow(t, n)) \in Nat
         /\ Cardinality(UsedBelow(t, n + 1)) =
              IF t[n].key = Null THEN Cardinality(UsedBelow(t, n)) ELSE Cardinality(UsedBelow(t, n)) + 1
<1>1. IsFiniteSet(UsedBelow(t, n))
  BY UsedFinite, FS_Subset DEF UsedBelow
<1>2. Cardinality(UsedBelow(t, n)) \in Nat
  BY <1>1, FS_CardinalityType
<1>3. n \notin UsedBelow(t, n)
  BY DEF UsedBelow, Indices
<1>4. CASE t[n].key = Null
  <2>1. UsedBelow(t, n + 1) = UsedBelow(t, n)
    BY <1>4 DEF UsedBelow, Used, Table, Indices
  <2> QED
    BY <2>1, <1>2, <1>4
<1>5. CASE t[n].key # Null
  <2>1. UsedBelow(t, n + 1) = UsedBelow(t, n) \cup {n}
    BY <1>5 DEF UsedBelow, Used, Table, Indices
  <2> QED
    BY <2>1, <1>1, <1>2, <1>3, <1>5, FS_AddElement
<1> QED
  BY <1>2, <1>4, <1>5

(* Below the capacity lie all the used entries. *)
LEMMA UsedBelowAll ==
  ASSUME NEW cap \in Nat, NEW t \in Table(cap)
  PROVE  UsedBelow(t, cap) = Used(t)
BY DEF UsedBelow, Used, Table, Indices

(* Nothing is in an empty table. *)
LEMMA EmptyTables ==
  ASSUME NEW cap \in Nat
  PROVE  /\ EmptyTable(cap) \in Table(cap)
         /\ \A j \in Indices(cap) : EmptyTable(cap)[j].key = Null
         /\ Placed(EmptyTable(cap), cap)
         /\ Cardinality(Used(EmptyTable(cap))) = 0
<1>1. EmptyTable(cap) \in Table(cap) /\ \A j \in Indices(cap) : EmptyTable(cap)[j].key = Null
  BY DEF EmptyTable, Table, Entries, Empty
<1>2. Used(EmptyTable(cap)) = {}
  BY <1>1, SMTT(30), SMTT(60) DEF Used, Table
<1> QED
  BY <1>1, <1>2, FS_EmptySet DEF Placed

(* The hash function is fixed, so Placed means the same after a step. *)
LEMMA PlacedNext ==
  ASSUME hash' = hash
  PROVE  /\ Placed(entries, capacity)' <=> Placed(entries', capacity')
         /\ Placed(fresh, 2 * capacity)' <=> Placed(fresh', 2 * capacity')
BY DEF Placed, Search, Stops, Probe, hash_value, Indices

(* The invariant of the hash map holds at the start. *)
LEMMA HmInitIInv == HmInit => HmIInv
<1> SUFFICES ASSUME HmInit PROVE HmIInv
  OBVIOUS
<1> USE InitialCapacityAssumption, HashesAssumption
<1>1. /\ entries \in Table(capacity) /\ Placed(entries, capacity) /\ Cardinality(Used(entries)) = 0
      /\ \A j \in Indices(capacity) : entries[j].key = Null
  BY EmptyTables DEF HmInit
<1>2. HmTypeOK
  BY <1>1 DEF HmInit, HmTypeOK
<1>3. Room
  BY <1>1 DEF HmInit, Room
<1>4. Moved
  BY DEF HmInit, Moved
<1>5. Iterated
  BY DEF HmInit, Iterating, Iterated
<1> QED
  BY <1>1, <1>2, <1>3, <1>4, <1>5 DEF HmIInv

-----------------------------------------------------------------------------
(* The last part of hm_set, on the map or on the expanded table. *)
LEMMA Store ==
  ASSUME hash \in [Keys -> Nat], NEW cap \in Nat, cap > 0, NEW t \in Table(cap), Placed(t, cap),
         count \in Nat, Cardinality(Used(t)) <= count, NEW k \in Keys, NEW v \in Vals,
         StoreNew(t, cap, k, v) \/ NoMemoryForKey(t, cap, k)
  PROVE  /\ entries' \in Table(cap) /\ Placed(entries', cap)
         /\ count' \in {count, count + 1} /\ Cardinality(Used(entries')) <= count'
         /\ \A j \in Indices(cap) : t[j].key # Null => entries'[j].key = t[j].key
<1>1. CASE StoreNew(t, cap, k, v)
  <2>1. PICK d \in Indices(cap) :
          /\ Search(t, cap, k, d)
          /\ entries' = set_entry(t, cap, k, v, d)
          /\ count' = IF t[Probe(k, d, cap)].key = k THEN count ELSE count + 1
    BY <1>1, SMTT(30), SMTT(60) DEF StoreNew
  <2>2. /\ entries' \in Table(cap) /\ Placed(entries', cap)
        /\ \A j \in Indices(cap) : entries'[j] =
             IF j = Probe(k, d, cap) THEN [key |-> k, value |-> v] ELSE t[j]
        /\ t[Probe(k, d, cap)].key \in {Null, k}
    BY <2>1, SetEntry, SMTT(30), SMTT(60)
  <2>3. /\ t[Probe(k, d, cap)].key = k => Cardinality(Used(entries')) = Cardinality(Used(t))
        /\ Cardinality(Used(entries')) <= Cardinality(Used(t)) + 1
    BY <2>1, SetEntryUsed, SMTT(30), SMTT(60)
  <2>4. Cardinality(Used(t)) \in Nat /\ Cardinality(Used(entries')) \in Nat
    BY <2>2, UsedFinite
  <2>5. Cardinality(Used(entries')) <= count'
    BY <2>1, <2>3, <2>4, SMTT(30), SMTT(60)
  <2>6. \A j \in Indices(cap) : t[j].key # Null => entries'[j].key = t[j].key
    BY <2>2
  <2> QED
    BY <2>1, <2>2, <2>5, <2>6, SMTT(30), SMTT(60)
<1>2. CASE NoMemoryForKey(t, cap, k)
  BY <1>2 DEF NoMemoryForKey
<1> QED
  BY <1>1, <1>2, SMTT(30), SMTT(60)

(* hm_set without an expansion keeps the invariant of the hash map. *)
LEMMA StepSet ==
  ASSUME HmIInv, NEW k \in Keys, NEW v \in Vals, hm_set(k, v)
  PROVE  HmIInv'
<1> USE DEF HmIInv
<1>1. /\ hash' = hash /\ capacity' = capacity /\ call' = call /\ i' = i
      /\ it' = it /\ seen' = seen /\ expected' = expected /\ rehashed' = rehashed /\ call = NoCall
      /\ StoreNew(entries, capacity, k, v) \/ NoMemoryForKey(entries, capacity, k)
  BY DEF hm_set, iterator
<1>2. /\ hash \in [Keys -> Nat] /\ capacity \in Nat /\ capacity > 0 /\ count \in Nat
      /\ entries \in Table(capacity) /\ Cardinality(Used(entries)) <= count
  BY DEF HmTypeOK, Room
<1>3. /\ entries' \in Table(capacity) /\ Placed(entries', capacity)
      /\ count' \in {count, count + 1} /\ Cardinality(Used(entries')) <= count'
      /\ \A j \in Indices(capacity) : entries[j].key # Null => entries'[j].key = entries[j].key
  BY <1>1, <1>2, Store, SMTT(30), SMTT(60)
<1>4. HmTypeOK'
  BY <1>1, <1>2, <1>3 DEF HmTypeOK
<1>5. Room'
  <2>1. 4 * count < 3 * capacity
    BY <1>2 DEF hm_set, Loaded
  <2>2. 4 * (count + 1) <= 3 * capacity
    BY <2>1, <1>2 DEF HmTypeOK
  <2> QED
    BY <2>1, <2>2, <1>1, <1>2, <1>3, Zenon DEF Room
<1>6. Placed(entries, capacity)'
  BY <1>1, <1>3, PlacedNext
<1>7. Moved'
  BY <1>1, ZenonT(60) DEF Moved
<1>8. Iterated'
  <2> SUFFICES ASSUME Iterating PROVE Iterating'
    BY <1>1, Zenon DEF Iterated
  <2>1. ASSUME NEW x \in expected
        PROVE  \E j \in Indices(capacity) : entries[j].key = x /\ entries'[j].key = x
    <3>1. PICK j \in Indices(capacity) : entries[j].key = x /\ x # Null
      BY DEF Iterating, KeysOf, HmTypeOK, Table
    <3> QED
      BY <3>1, <1>3, SMTT(30), SMTT(60)
  <2>2. expected \subseteq KeysOf(entries')
    BY <2>1, <1>3, KeysAssumption, Zenon DEF KeysOf, Table, HmTypeOK
  <2>3. ASSUME NEW x \in Keys, seen[x] = 1
        PROVE  \E j \in Indices(capacity) : j < it /\ entries'[j].key = x
    BY <2>3, <1>3, KeysAssumption, ZenonT(60) DEF Iterating
  <2>4. ASSUME NEW j \in Indices(capacity), j < it, entries'[j].key \in expected
        PROVE  seen[entries'[j].key] = 1
    <3>1. PICK l \in Indices(capacity) : entries[l].key = entries'[j].key /\ entries'[l].key = entries'[j].key
      BY <2>1, <2>4, Zenon
    <3>2. l = j
      BY <3>1, <2>4, <1>2, <1>3, KeyUnique, KeysAssumption, ZenonT(60) DEF HmTypeOK
    <3> QED
      BY <3>1, <3>2, <2>4 DEF Iterating
  <2>5. \A x \in Keys : seen[x] <= 1
    BY DEF Iterating
  <2> QED
    BY <2>2, <2>3, <2>4, <2>5, <1>1, SMTT(30), SMTT(60) DEF Iterating
<1> QED
  BY <1>4, <1>5, <1>6, <1>7, <1>8

(* The allocation of the larger table keeps the invariant of the hash map. *)
LEMMA StepStartExpand ==
  ASSUME HmIInv, NEW k \in Keys, NEW v \in Vals, StartExpand(k, v)
  PROVE  HmIInv'
<1> USE DEF HmIInv
<1>1. /\ hash' = hash /\ capacity' = capacity /\ count' = count /\ entries' = entries
      /\ it' = it /\ seen' = seen /\ expected' = expected /\ rehashed' = rehashed
      /\ call' = [key |-> k, value |-> v] /\ fresh' = EmptyTable(2 * capacity) /\ i' = 0
  BY DEF StartExpand, table, iterator
<1>2. capacity \in Nat /\ 2 * capacity \in Nat /\ entries \in Table(capacity)
  BY DEF HmTypeOK
<1>3. /\ fresh' \in Table(2 * capacity) /\ Placed(fresh', 2 * capacity)
      /\ Cardinality(Used(fresh')) = 0
      /\ \A j \in Indices(2 * capacity) : fresh'[j].key = Null
  BY <1>1, <1>2, EmptyTables, SMTT(30), SMTT(60)
<1>4. HmTypeOK'
  BY <1>1, <1>2, <1>3, SMTT(30), SMTT(60) DEF HmTypeOK, Calls
<1>5. Room'
  <2>1. UsedBelow(entries, 0) = {}
    BY <1>2 DEF UsedBelow, Used, Table, Indices
  <2>2. Cardinality(UsedBelow(entries, 0)) = 0
    BY <2>1, FS_EmptySet
  <2> QED
    BY <2>2, <1>1, <1>3 DEF Room
<1>6. Placed(entries, capacity)'
  BY <1>1, PlacedNext, SMTT(30), SMTT(60)
<1>7. Moved'
  <2>1. Placed(fresh, 2 * capacity)'
    BY <1>1, <1>3, PlacedNext, SMTT(30), SMTT(60)
  <2> QED
    BY <2>1, <1>1, <1>2, <1>3, SMTT(30), SMTT(60) DEF Moved, Indices
<1>8. Iterated'
  BY <1>1, SMTT(30), SMTT(60) DEF Iterated, Iterating, KeysOf
<1> QED
  BY <1>4, <1>5, <1>6, <1>7, <1>8

(* Moving one entry to the larger table keeps the invariant of the hash     *)
(* map.                                                                     *)
LEMMA StepRehash ==
  ASSUME HmIInv, Rehash
  PROVE  HmIInv'
<1> USE DEF HmIInv
<1>1. /\ hash' = hash /\ capacity' = capacity /\ count' = count /\ entries' = entries
      /\ it' = it /\ seen' = seen /\ expected' = expected /\ rehashed' = rehashed
      /\ call' = call /\ call # NoCall /\ i' = i + 1 /\ i < capacity
  BY DEF Rehash, table, iterator
<1>2. /\ hash \in [Keys -> Nat] /\ capacity \in Nat /\ 2 * capacity \in Nat /\ 2 * capacity > 0
      /\ entries \in Table(capacity) /\ fresh \in Table(2 * capacity) /\ i \in Indices(capacity)
  BY <1>1 DEF HmTypeOK, Indices
<1>3. /\ Cardinality(UsedBelow(entries, i)) \in Nat
      /\ Cardinality(UsedBelow(entries, i + 1)) =
           IF entries[i].key = Null THEN Cardinality(UsedBelow(entries, i))
           ELSE Cardinality(UsedBelow(entries, i)) + 1
  BY <1>2, UsedBelowNext, SMTT(30), SMTT(60)
<1>4. /\ Placed(fresh, 2 * capacity)
      /\ Cardinality(Used(fresh)) <= Cardinality(UsedBelow(entries, i)) /\ Cardinality(Used(fresh)) \in Nat
  BY <1>1, <1>2, UsedFinite, SMTT(30), SMTT(60) DEF Moved, Room
<1>5. Iterated' /\ Placed(entries, capacity)'
  BY <1>1, PlacedNext DEF Iterated, Iterating, KeysOf
<1>6. CASE entries[i].key = Null /\ UNCHANGED fresh
  <2>1. HmTypeOK'
    BY <1>1, <1>2, <1>6, SMTT(30), SMTT(60) DEF HmTypeOK, Indices
  <2>2. Room'
    BY <1>1, <1>3, <1>4, <1>6, SMTT(30), SMTT(60) DEF Room
  <2>3. Placed(fresh, 2 * capacity)'
    BY <1>1, <1>4, <1>6, PlacedNext, SMTT(30), SMTT(60)
  <2>4. \A j \in Indices(capacity) : j < i + 1 /\ entries[j].key # Null =>
           \E l \in Indices(2 * capacity) : fresh[l] = entries[j]
    BY <1>1, <1>2, <1>6, SMTT(30), SMTT(60) DEF Moved, Indices
  <2>5. \A l \in Indices(2 * capacity) : fresh[l].key # Null =>
           \E j \in Indices(capacity) : j < i + 1 /\ fresh[l] = entries[j]
    BY <1>1, <1>2, SMTT(30), SMTT(60) DEF Moved, Indices
  <2>6. Moved'
    BY <1>1, <1>6, <2>3, <2>4, <2>5, SMTT(30), SMTT(60) DEF Moved
  <2> QED
    BY <2>1, <2>2, <2>6, <1>5, SMTT(30), SMTT(60)
<1>7. ASSUME entries[i].key # Null, NEW d \in Indices(2 * capacity),
             Search(fresh, 2 * capacity, entries[i].key, d),
             fresh' = set_entry(fresh, 2 * capacity, entries[i].key, entries[i].value, d)
      PROVE  HmIInv'
  <2> DEFINE p == Probe(entries[i].key, d, 2 * capacity)
  <2>1. entries[i].key \in Keys /\ entries[i].value \in Vals
        /\ entries[i] = [key |-> entries[i].key, value |-> entries[i].value]
    BY <1>2, <1>7, SMTT(30), SMTT(60) DEF Table, Entries, Empty
  <2>2. /\ fresh' \in Table(2 * capacity) /\ Placed(fresh', 2 * capacity)
        /\ \A j \in Indices(2 * capacity) : fresh'[j] = IF j = p THEN entries[i] ELSE fresh[j]
        /\ fresh[p].key \in {Null, entries[i].key}
    BY <1>2, <1>4, <1>7, <2>1, SetEntry, SMTT(60)
  <2>3. p \in Indices(2 * capacity)
    BY <1>2, <2>1, <1>7, ProbeType, Zenon
  <2>4. Cardinality(Used(fresh')) <= Cardinality(Used(fresh)) + 1
    BY <1>2, <1>4, <1>7, <2>1, SetEntryUsed, Zenon
  <2>5. Cardinality(Used(fresh')) \in Nat
    BY <1>2, <2>2, UsedFinite
  <2> HIDE DEF p
  <2>6. fresh[p].key = Null
    <3> SUFFICES ASSUME fresh[p].key = entries[i].key PROVE FALSE
      BY <2>2
    <3>1. PICK j \in Indices(capacity) : j < i /\ fresh[p] = entries[j]
      BY <1>1, <1>7, <2>3, Zenon DEF Moved
    <3>2. j = i
      BY <3>1, <1>2, <1>7, KeyUnique, Zenon
    <3> QED
      BY <3>1, <3>2, <1>2, SMTT(30), SMTT(60) DEF Indices
  <2>7. HmTypeOK'
    BY <1>1, <1>2, <2>2, SMTT(30), SMTT(60) DEF HmTypeOK, Indices
  <2>8. Room'
    BY <1>1, <1>3, <1>4, <1>7, <2>4, <2>5, SMTT(30), SMTT(60) DEF Room
  <2>9. Placed(fresh, 2 * capacity)'
    BY <1>1, <2>2, PlacedNext, SMTT(30), SMTT(60)
  <2>10. \A j \in Indices(capacity) : j < i + 1 /\ entries[j].key # Null =>
           \E l \in Indices(2 * capacity) : fresh'[l] = entries[j]
    <3> SUFFICES ASSUME NEW j \in Indices(capacity), j < i + 1, entries[j].key # Null
                 PROVE  \E l \in Indices(2 * capacity) : fresh'[l] = entries[j]
      OBVIOUS
    <3>1. CASE j = i
      BY <3>1, <2>2, <2>3, SMTT(30), SMTT(60)
    <3>2. CASE j < i
      <4>1. PICK l \in Indices(2 * capacity) : fresh[l] = entries[j]
        BY <3>2, <1>1, SMTT(30), SMTT(60) DEF Moved
      <4> QED
        BY <4>1, <2>2, <2>6, SMTT(30), SMTT(60)
    <3> QED
      BY <3>1, <3>2, <1>2, SMTT(30), SMTT(60) DEF Indices
  <2>11. \A l \in Indices(2 * capacity) : fresh'[l].key # Null =>
           \E j \in Indices(capacity) : j < i + 1 /\ fresh'[l] = entries[j]
    <3> SUFFICES ASSUME NEW l \in Indices(2 * capacity), fresh'[l].key # Null
                 PROVE  \E j \in Indices(capacity) : j < i + 1 /\ fresh'[l] = entries[j]
      OBVIOUS
    <3>1. CASE l = p
      BY <3>1, <2>2, <1>2, SMTT(30), SMTT(60) DEF Indices
    <3>2. CASE l # p
      <4>1. PICK j \in Indices(capacity) : j < i /\ fresh[l] = entries[j]
        BY <3>2, <2>2, <1>1, ZenonT(60) DEF Moved
      <4> QED
        BY <4>1, <3>2, <2>2, <1>2 DEF Indices
    <3> QED
      BY <3>1, <3>2, SMTT(30), SMTT(60)
  <2>12. Moved'
    BY <1>1, <2>9, <2>10, <2>11, SMTT(30), SMTT(60) DEF Moved
  <2> QED
    BY <2>7, <2>8, <2>12, <1>5, SMTT(30), SMTT(60)
<1> QED
  BY <1>6, <1>7 DEF Rehash

(* Switching to the larger table keeps the invariant of the hash map. *)
LEMMA StepFinishExpand ==
  ASSUME HmIInv, FinishExpand
  PROVE  HmIInv'
<1> USE DEF HmIInv
<1>1. /\ hash' = hash /\ capacity' = 2 * capacity /\ call # NoCall /\ i = capacity
      /\ call' = NoCall /\ i' = 0 /\ rehashed' = TRUE
      /\ it' = it /\ seen' = seen /\ expected' = expected
      /\ \/ StoreNew(fresh, 2 * capacity, call.key, call.value)
         \/ NoMemoryForKey(fresh, 2 * capacity, call.key)
  BY SMTT(30), SMTT(60) DEF FinishExpand
<1>2. /\ hash \in [Keys -> Nat] /\ capacity \in Nat /\ 2 * capacity \in Nat /\ 2 * capacity > 0
      /\ count \in Nat /\ fresh \in Table(2 * capacity) /\ call.key \in Keys /\ call.value \in Vals
      /\ Placed(fresh, 2 * capacity)
  BY <1>1, SMTT(30), SMTT(60) DEF HmTypeOK, Moved, Calls
<1>3. Cardinality(Used(fresh)) <= count
  <2>1. UsedBelow(entries, capacity) = Used(entries)
    BY <1>2, UsedBelowAll DEF HmTypeOK
  <2>2. Cardinality(Used(fresh)) \in Nat /\ Cardinality(Used(entries)) \in Nat
    BY <1>2, UsedFinite, Zenon DEF HmTypeOK
  <2> QED
    BY <1>1, <1>2, <2>1, <2>2, SMTT(30), SMTT(60) DEF Room
<1>4. /\ entries' \in Table(2 * capacity) /\ Placed(entries', 2 * capacity)
      /\ count' \in {count, count + 1} /\ Cardinality(Used(entries')) <= count'
  BY <1>1, <1>2, <1>3, Store, Zenon
<1>5. HmTypeOK'
  <2>1. (2 * capacity) % 4 = 0 /\ 2 * capacity >= 4
    BY DEF HmTypeOK
  <2> QED
    BY <2>1, <1>1, <1>2, <1>4 DEF HmTypeOK
<1>6. Room'
  <2>1. 4 * count <= 3 * capacity /\ capacity >= 4
    BY DEF Room, HmTypeOK
  <2>2. 4 * count' <= 3 * (2 * capacity)
    <3>1. \A m, n \in Nat : 4 * m <= 3 * n /\ n >= 4 =>
             4 * m <= 3 * (2 * n) /\ 4 * (m + 1) <= 3 * (2 * n)
      OBVIOUS
    <3>2. 4 * count <= 3 * (2 * capacity) /\ 4 * (count + 1) <= 3 * (2 * capacity)
      BY <3>1, <2>1, <1>2
    <3>3. count' = count \/ count' = count + 1
      BY <1>4
    <3> QED
      BY <3>2, <3>3
  <2> QED
    BY <2>2, <1>1, <1>4 DEF Room
<1>7. Placed(entries, capacity)'
  BY <1>1, <1>4, PlacedNext, ZenonT(60)
<1>8. Moved' /\ Iterated'
  BY <1>1, Zenon DEF Moved, Iterated
<1> QED
  BY <1>5, <1>6, <1>7, <1>8, SMTT(30), SMTT(60)

(* hm_next keeps the invariant of the hash map. *)
LEMMA StepNext ==
  ASSUME HmIInv, hm_next
  PROVE  HmIInv'
<1> USE DEF HmIInv
<1>1. /\ hash' = hash /\ capacity' = capacity /\ count' = count /\ entries' = entries
      /\ call' = call /\ fresh' = fresh /\ i' = i /\ expected' = expected /\ rehashed' = rehashed /\ it < capacity
  BY SMTT(30) DEF hm_next, table
<1>2. PICK n \in it .. capacity :
        /\ \A l \in it .. (n - 1) : entries[l].key = Null
        /\ n < capacity => entries[n].key # Null
        /\ it' = IF n < capacity THEN n + 1 ELSE capacity
        /\ seen' = IF n < capacity THEN [seen EXCEPT ![entries[n].key] = @ + 1] ELSE seen
  BY DEF hm_next
<1>3. capacity \in Nat /\ it \in 0 .. capacity /\ entries \in Table(capacity) /\ seen \in [Keys -> Nat]
  BY SMTT(30), SMTT(60) DEF HmTypeOK
<1>4. n < capacity => n \in Indices(capacity) /\ entries[n].key \in Keys
  BY <1>2, <1>3, SMTT(30), SMTT(60) DEF Table, Entries, Empty, Indices
<1>5. HmTypeOK'
  BY <1>1, <1>2, <1>3, <1>4, SMTT(30), SMTT(60) DEF HmTypeOK
<1>6. Room' /\ Placed(entries, capacity)' /\ Moved'
  <2>1. Placed(entries, capacity)' /\ (call # NoCall => Placed(fresh, 2 * capacity)')
    BY <1>1, PlacedNext DEF Moved
  <2> QED
    BY <2>1, <1>1 DEF Room, Moved
<1>7. Iterated'
  <2> SUFFICES ASSUME Iterating PROVE Iterating'
    BY <1>1, Zenon DEF Iterated
  <2>1. CASE n = capacity
    <3>1. seen' = seen /\ it' = capacity
      BY <2>1, <1>2, <1>3, SMTT(30), SMTT(60)
    <3>2. ASSUME NEW j \in Indices(capacity), entries[j].key \in expected
          PROVE  seen[entries[j].key] = 1
      <4>1. entries[j].key # Null
        BY <3>2, KeysAssumption, SMTT(30), SMTT(60) DEF HmTypeOK
      <4>2. j < it
        BY <4>1, <1>2, <1>3, <2>1, SMTT(30), SMTT(60) DEF Indices
      <4> QED
        BY <3>2, <4>2 DEF Iterating
    <3>3. \A j \in Indices(capacity) : j < capacity
      BY <1>3, SMTT(30), SMTT(60) DEF Indices
    <3> QED
      BY <3>1, <3>2, <3>3, <1>1, SMTT(30), SMTT(60) DEF Iterating, KeysOf
  <2>2. CASE n < capacity
    <3> DEFINE x == entries[n].key
    <3>1. /\ x \in Keys /\ x # Null /\ n \in Indices(capacity) /\ it' = n + 1 /\ it <= n
          /\ seen' = [seen EXCEPT ![x] = @ + 1]
      BY <2>2, <1>2, <1>3, <1>4
    <3> HIDE DEF x
    <3>2. seen[x] = 0
      <4>1. seen[x] \in Nat /\ seen[x] <= 1
        BY <3>1, <1>3 DEF Iterating
      <4>2. seen[x] # 1
        <5> SUFFICES ASSUME seen[x] = 1 PROVE FALSE
          OBVIOUS
        <5>1. PICK j \in Indices(capacity) : j < it /\ entries[j].key = x
          BY <3>1, Zenon DEF Iterating
        <5>2. j = n
          BY <5>1, <3>1, <1>3, KeyUnique, SMTT(30), SMTT(60) DEF x
        <5> QED
          BY <5>1, <5>2, <3>1, <1>3, SMTT(30), SMTT(60) DEF Indices
      <4> QED
        BY <4>1, <4>2, SMTT(30), SMTT(60)
    <3>3. \A k \in Keys : seen'[k] = IF k = x THEN 1 ELSE seen[k]
      BY <3>1, <3>2, <1>3, SMTT(30), SMTT(60)
    <3>4. \A k \in Keys : seen'[k] <= 1
      BY <3>3 DEF Iterating
    <3>5. ASSUME NEW k \in Keys, seen'[k] = 1
          PROVE  \E j \in Indices(capacity) : j < n + 1 /\ entries[j].key = k
      <4>1. CASE k = x
        BY <4>1, <3>1, <1>3, SMTT(30), SMTT(60) DEF x, Indices
      <4>2. CASE k # x
        <5>1. PICK j \in Indices(capacity) : j < it /\ entries[j].key = k
          BY <3>3, <3>5, <4>2, SMTT(30), SMTT(60) DEF Iterating
        <5> QED
          BY <5>1, <3>1, <1>3, SMTT(30), SMTT(60) DEF Indices
      <4> QED
        BY <4>1, <4>2, SMTT(30), SMTT(60)
    <3>6. ASSUME NEW j \in Indices(capacity), j < n + 1, entries[j].key \in expected
          PROVE  seen'[entries[j].key] = 1
      <4>1. entries[j].key \in Keys /\ entries[j].key # Null
        BY <3>6, KeysAssumption, SMTT(30), SMTT(60) DEF HmTypeOK
      <4>2. CASE j = n
        BY <4>1, <4>2, <3>3, SMTT(30), SMTT(60) DEF x
      <4>3. CASE j < n
        <5>1. j < it
          BY <4>1, <4>3, <1>2, <1>3, <3>1, SMTT(30), SMTT(60) DEF Indices
        <5>2. seen[entries[j].key] = 1
          BY <5>1, <3>6, SMTT(30), SMTT(60) DEF Iterating
        <5> QED
          BY <5>2, <4>1, <3>3, SMTT(30), SMTT(60)
      <4> QED
        BY <4>2, <4>3, <3>6, <3>1, <1>3, SMTT(30), SMTT(60) DEF Indices
    <3> QED
      BY <3>1, <3>4, <3>5, <3>6, <1>1, SMTT(30), SMTT(60) DEF Iterating, KeysOf
  <2> QED
    BY <2>1, <2>2, <1>3, SMTT(30), SMTT(60)
<1> QED
  BY <1>5, <1>6, <1>7

(* The steps that leave the table alone. *)
LEMMA StepOther ==
  ASSUME HmIInv, \/ \E k \in Keys : hm_get(k)
               \/ ExpandFails
               \/ hm_iter
               \/ UNCHANGED hmVars
  PROVE  HmIInv'
<1> USE DEF HmIInv
<1>1. /\ hash' = hash /\ capacity' = capacity /\ count' = count /\ entries' = entries
      /\ call' = call /\ fresh' = fresh /\ i' = i
  BY SMTT(30), SMTT(60) DEF hm_get, ExpandFails, hm_iter, hmVars, table, iterator
<1>2. \/ it' = it /\ seen' = seen /\ expected' = expected /\ rehashed' = rehashed
      \/ it' = 0 /\ seen' = [k \in Keys |-> 0] /\ expected' = KeysOf(entries)
  BY SMTT(30), SMTT(60) DEF hm_get, ExpandFails, hm_iter, hmVars, table, iterator
<1>3. KeysOf(entries) \subseteq Keys
  BY SMTT(30), SMTT(60) DEF KeysOf, HmTypeOK, Table, Entries, Empty
<1>4. HmTypeOK'
  BY <1>1, <1>2, <1>3, SMTT(30), SMTT(60) DEF HmTypeOK
<1>5. Room' /\ Placed(entries, capacity)' /\ Moved'
  <2>1. Placed(entries, capacity)' /\ (call # NoCall => Placed(fresh, 2 * capacity)')
    BY <1>1, PlacedNext, SMTT(30), SMTT(60) DEF Moved
  <2> QED
    BY <2>1, <1>1, SMTT(30), SMTT(60) DEF Room, Moved
<1>6. Iterated'
  <2>1. \A j \in Indices(capacity) : ~(j < 0)
    BY DEF Indices, HmTypeOK
  <2> QED
    BY <2>1, <1>1, <1>2, SMTT(30), SMTT(60) DEF Iterated, Iterating, KeysOf
<1> QED
  BY <1>4, <1>5, <1>6, SMTT(30), SMTT(60)

(* Every step keeps the invariant of the hash map. *)
LEMMA HmStepIInv == HmIInv /\ [HmNext]_hmVars => HmIInv'
<1> SUFFICES ASSUME HmIInv, [HmNext]_hmVars PROVE HmIInv'
  OBVIOUS
<1>1. ASSUME NEW k \in Keys, NEW v \in Vals, hm_set(k, v) PROVE HmIInv'
  BY <1>1, StepSet
<1>2. ASSUME NEW k \in Keys, NEW v \in Vals, StartExpand(k, v) PROVE HmIInv'
  BY <1>2, StepStartExpand
<1>3. CASE Rehash
  BY <1>3, StepRehash
<1>4. CASE FinishExpand
  BY <1>4, StepFinishExpand
<1>5. CASE hm_next
  BY <1>5, StepNext
<1>6. CASE (\E k \in Keys : hm_get(k)) \/ ExpandFails \/ hm_iter \/ UNCHANGED hmVars
  BY <1>6, StepOther, ZenonT(60)
<1> QED
  BY <1>1, <1>2, <1>3, <1>4, <1>5, <1>6, Zenon DEF HmNext

(* What the table of hm_expand holds is bounded by what the map holds.      *)
LEMMA Searches == HmIInv => SearchesEnd
<1> SUFFICES ASSUME HmIInv PROVE SearchesEnd
  OBVIOUS
<1> USE DEF HmIInv
<1>1. capacity \in Nat /\ capacity >= 4 /\ count \in Nat /\ entries \in Table(capacity)
  BY DEF HmTypeOK
<1>2. Cardinality(Used(entries)) \in Nat /\ Cardinality(Used(entries)) < capacity
  BY <1>1, UsedFinite DEF Room
<1>3. ASSUME call # NoCall
      PROVE  \E j \in Indices(2 * capacity) : fresh[j].key = Null
  <2>1. 2 * capacity \in Nat /\ fresh \in Table(2 * capacity)
    BY <1>3 DEF HmTypeOK
  <2>2. Cardinality(UsedBelow(entries, i)) <= Cardinality(Used(entries))
    BY <1>1, UsedFinite, FS_Subset, SMTT(30), SMTT(60) DEF UsedBelow
  <2>3. Cardinality(UsedBelow(entries, i)) \in Nat /\ Cardinality(Used(fresh)) \in Nat
    BY <1>1, <2>1, UsedFinite, FS_Subset, FS_CardinalityType, SMTT(30), SMTT(60) DEF UsedBelow
  <2>4. Cardinality(Used(fresh)) < 2 * capacity
    BY <1>1, <1>2, <1>3, <2>2, <2>3 DEF Room
  <2> QED
    BY <2>1, <2>4, HasRoom, SMTT(30), SMTT(60)
<1> QED
  BY <1>1, <1>2, <1>3, HasRoom DEF SearchesEnd

(***************************************************************************)
(* No search of set_entry or hm_get goes round a table for ever, whatever   *)
(* the hash function and however often the map has grown.                   *)
(***************************************************************************)
THEOREM SearchTerminates == HmSpec => []SearchesEnd
BY HmInitIInv, HmStepIInv, Searches, PTL DEF HmSpec

(***************************************************************************)
(* An iteration to the end returns each key that was there at its start     *)
(* once (hm_iter, hm_next), whatever hm_set stores meanwhile without        *)
(* expanding the map.                                                       *)
(***************************************************************************)
THEOREM IterationIsComplete == HmSpec => []IterationComplete
<1>1. HmIInv => IterationComplete
  <2> SUFFICES ASSUME HmIInv, Iterating, it = capacity, NEW k \in expected PROVE seen[k] = 1
    BY SMTT(30), SMTT(60) DEF HmIInv, Iterated, Iterating, IterationComplete
  <2>1. PICK j \in Indices(capacity) : entries[j].key = k
    BY DEF HmIInv, Iterating, KeysOf, HmTypeOK, Table
  <2>2. j < it
    BY <2>1, SMTT(30), SMTT(60) DEF HmIInv, HmTypeOK, Indices
  <2> QED
    BY <2>1, <2>2, SMTT(30), SMTT(60) DEF HmIInv, Iterating
<1> QED
  BY <1>1, HmInitIInv, HmStepIInv, PTL DEF HmSpec

-----------------------------------------------------------------------------
(* In a table whose keys are Placed the contents are what its slots say.    *)
LEMMA ContentsOfKey ==
  ASSUME NEW cap \in Nat, NEW t \in Table(cap), Placed(t, cap), NEW j \in Indices(cap), t[j].key # Null
  PROVE  t[j].key \in Keys /\ ContentsOf(t)[t[j].key] = t[j].value
<1>1. t[j].key \in Keys /\ DOMAIN t = Indices(cap)
  BY DEF Table, Entries, Empty
<1>2. t[j].key \in KeysOf(t)
  BY <1>1 DEF KeysOf
<1>3. (CHOOSE l \in DOMAIN t : t[l].key = t[j].key) = j
  BY <1>1, KeyUnique, SMTT(30)
<1> QED
  BY <1>1, <1>2, <1>3, SMTT(30), SMTT(60) DEF ContentsOf

(* A table holds nothing for a key that none of its entries has. *)
LEMMA ContentsOfOther ==
  ASSUME NEW cap \in Nat, NEW t \in Table(cap), NEW k \in Keys, \A j \in Indices(cap) : t[j].key # k
  PROVE  ContentsOf(t)[k] = Null
BY DEF ContentsOf, KeysOf, Table

(* The search for a key ends at its value, or at an empty slot. *)
LEMMA SearchFinds ==
  ASSUME hash \in [Keys -> Nat], NEW cap \in Nat, cap > 0, NEW t \in Table(cap), Placed(t, cap),
         NEW k \in Keys, NEW d \in Indices(cap), Search(t, cap, k, d)
  PROVE  t[Probe(k, d, cap)].value = ContentsOf(t)[k]
<1> DEFINE p == Probe(k, d, cap)
<1>1. p \in Indices(cap)
  BY ProbeType
<1>2. t[p].key \in {Null, k}
  BY DEF Search, Stops
<1>3. k # Null
  BY KeysAssumption, SMTT(30), SMTT(60)
<1>4. CASE t[p].key = k
  BY <1>1, <1>3, <1>4, ContentsOfKey, SMTT(30), SMTT(60)
<1>5. CASE t[p].key = Null
  <2>1. \A j \in Indices(cap) : t[j].key # k
    <3> SUFFICES ASSUME NEW j \in Indices(cap), t[j].key = k PROVE FALSE
      OBVIOUS
    <3>1. PICK e \in Indices(cap) : Search(t, cap, k, e) /\ Probe(k, e, cap) = j
      BY <1>3 DEF Placed
    <3>2. d = e
      BY <3>1, SearchUnique, SMTT(30), SMTT(60)
    <3> QED
      BY <3>1, <3>2, <1>3, <1>5
  <2>2. t[p].value = Null
    BY <1>1, <1>5, KeysAssumption, SMTT(30), SMTT(60) DEF Table, Entries, Empty
  <2> QED
    BY <2>1, <2>2, ContentsOfOther
<1> QED
  BY <1>2, <1>4, <1>5, Zenon

(* Two tables with the same entries have the same contents. *)
LEMMA SameContents ==
  ASSUME NEW c \in Nat, NEW t \in Table(c), Placed(t, c), NEW b \in Nat, NEW u \in Table(b), Placed(u, b),
         \A j \in Indices(c) : t[j].key # Null => \E l \in Indices(b) : u[l] = t[j],
         \A l \in Indices(b) : u[l].key # Null => \E j \in Indices(c) : u[l] = t[j]
  PROVE  ContentsOf(t) = ContentsOf(u)
<1> SUFFICES ASSUME NEW k \in Keys PROVE ContentsOf(t)[k] = ContentsOf(u)[k]
  BY DEF ContentsOf
<1>1. k # Null
  BY KeysAssumption, SMTT(30), SMTT(60)
<1>2. CASE \E j \in Indices(c) : t[j].key = k
  <2>1. PICK j \in Indices(c) : t[j].key = k
    BY <1>2
  <2>2. PICK l \in Indices(b) : u[l] = t[j]
    BY <2>1, <1>1, SMTT(30), SMTT(60)
  <2>3. ContentsOf(t)[k] = t[j].value
    BY <2>1, <1>1, ContentsOfKey, SMTT(30), SMTT(60)
  <2>4. ContentsOf(u)[k] = u[l].value
    BY <2>1, <2>2, <1>1, ContentsOfKey, SMTT(30), SMTT(60)
  <2> QED
    BY <2>2, <2>3, <2>4
<1>3. CASE \A j \in Indices(c) : t[j].key # k
  <2>1. \A l \in Indices(b) : u[l].key # k
    BY <1>1, <1>3
  <2> QED
    BY <2>1, <1>3, ContentsOfOther, SMTT(30), SMTT(60)
<1> QED
  BY <1>2, <1>3, SMTT(30), SMTT(60)

(* Storing a key changes the contents at that key. *)
LEMMA StoreContents ==
  ASSUME hash \in [Keys -> Nat], NEW cap \in Nat, cap > 0, NEW t \in Table(cap), Placed(t, cap),
         NEW k \in Keys, NEW v \in Vals, NEW d \in Indices(cap), Search(t, cap, k, d)
  PROVE  ContentsOf(set_entry(t, cap, k, v, d)) = [ContentsOf(t) EXCEPT ![k] = v]
<1> DEFINE p == Probe(k, d, cap)
           u == set_entry(t, cap, k, v, d)
<1>1. /\ u \in Table(cap) /\ Placed(u, cap)
      /\ \A j \in Indices(cap) : u[j] = IF j = p THEN [key |-> k, value |-> v] ELSE t[j]
      /\ t[p].key \in {Null, k}
  BY SetEntry, SMTT(30), SMTT(60)
<1>2. p \in Indices(cap)
  BY ProbeType
<1> HIDE DEF u, p
<1>3. ContentsOf(u)[k] = v
  BY <1>1, <1>2, ContentsOfKey, KeysAssumption, SMTT(60)
<1>4. ASSUME NEW x \in Keys, x # k
      PROVE  ContentsOf(u)[x] = ContentsOf(t)[x]
  <2>1. x # Null
    BY KeysAssumption, SMTT(30), SMTT(60)
  <2>2. CASE \E j \in Indices(cap) : t[j].key = x
    <3>1. PICK j \in Indices(cap) : t[j].key = x
      BY <2>2
    <3>2. u[j] = t[j]
      BY <3>1, <2>1, <1>1, <1>4, ZenonT(60)
    <3>3. ContentsOf(t)[x] = t[j].value
      BY <3>1, <2>1, ContentsOfKey, SMTT(60)
    <3>4. ContentsOf(u)[x] = u[j].value
      BY <3>1, <3>2, <2>1, <1>1, ContentsOfKey, ZenonT(60)
    <3> QED
      BY <3>2, <3>3, <3>4, SMTT(30), SMTT(60)
  <2>3. CASE \A j \in Indices(cap) : t[j].key # x
    <3>1. \A j \in Indices(cap) : u[j].key # x
      BY <2>3, <1>1, <1>4, SMTT(30), SMTT(60)
    <3> QED
      BY <3>1, <2>3, <1>1, ContentsOfOther, SMTT(30), SMTT(60)
  <2> QED
    BY <2>2, <2>3, Zenon
<1>5. ContentsOf(u) = [ContentsOf(t) EXCEPT ![k] = v]
  <2>1. /\ ContentsOf(u) = [x \in Keys |-> ContentsOf(u)[x]]
        /\ ContentsOf(t) = [x \in Keys |-> ContentsOf(t)[x]]
    BY DEF ContentsOf
  <2> QED
    BY <2>1, <1>3, <1>4, SMTT(30), SMTT(60)
<1> QED
  BY <1>5, SMTT(30), SMTT(60) DEF u

(* The end of hm_set is a Set or a failed Set of the dictionary. *)
LEMMA StoreRefines ==
  ASSUME hash \in [Keys -> Nat], NEW cap \in Nat, cap > 0, NEW t \in Table(cap), Placed(t, cap),
         ContentsOf(t) = Contents, NEW k \in Keys, NEW v \in Vals,
         StoreNew(t, cap, k, v) \/ NoMemoryForKey(t, cap, k)
  PROVE  Dictionary!Set(k, v) \/ Dictionary!SetFails
<1>1. CASE StoreNew(t, cap, k, v)
  <2>1. PICK d \in Indices(cap) :
          Search(t, cap, k, d) /\ entries' = set_entry(t, cap, k, v, d) /\ ret' = k
    BY <1>1, SMTT(30), SMTT(60) DEF StoreNew
  <2>2. ContentsOf(entries') = [ContentsOf(t) EXCEPT ![k] = v]
    BY <2>1, StoreContents
  <2>3. Contents' = ContentsOf(entries')
    BY SMTT(30), SMTT(60) DEF Contents
  <2> QED
    BY <2>1, <2>2, <2>3, SMTT(30), SMTT(60) DEF Dictionary!Set
<1>2. CASE NoMemoryForKey(t, cap, k)
  BY <1>2 DEF NoMemoryForKey, Contents, Dictionary!SetFails
<1> QED
  BY <1>1, <1>2, SMTT(30), SMTT(60)

(***************************************************************************)
(* The hash map implements a dictionary: through collisions, wrap-around,   *)
(* expansions and failed allocations hm_get returns what hm_set last stored *)
(* under the key.                                                           *)
(***************************************************************************)
THEOREM HashMapRefinement == HmSpec => ImplementsMap
<1>1. HmInit => Dictionary!Init
  <2> SUFFICES ASSUME HmInit PROVE Dictionary!Init
    OBVIOUS
  <2>1. capacity \in Nat /\ entries \in Table(capacity) /\ \A j \in Indices(capacity) : entries[j].key = Null
    BY EmptyTables, InitialCapacityAssumption DEF HmInit
  <2>2. ASSUME NEW k \in Keys PROVE Contents[k] = Null
    <3>1. \A j \in Indices(capacity) : entries[j].key # k
      BY <2>1, KeysAssumption, SMTT(30), SMTT(60)
    <3>2. ContentsOf(entries)[k] = Null
      BY <2>1, <3>1, ContentsOfOther
    <3> QED
      BY <3>2 DEF Contents
  <2>3. Contents = [k \in Keys |-> Null]
    BY <2>2 DEF Contents, ContentsOf
  <2> QED
    BY <2>3 DEF Dictionary!Init, HmInit
<1>2. HmIInv /\ [HmNext]_hmVars => [Dictionary!Next]_(Dictionary!vars)
  <2> SUFFICES ASSUME HmIInv, [HmNext]_hmVars PROVE [Dictionary!Next]_(Dictionary!vars)
    OBVIOUS
  <2>1. /\ hash \in [Keys -> Nat] /\ capacity \in Nat /\ capacity > 0 /\ 2 * capacity \in Nat /\ 2 * capacity > 0
        /\ entries \in Table(capacity) /\ Placed(entries, capacity)
    BY SMTT(30), SMTT(60) DEF HmIInv, HmTypeOK
  <2>2. ASSUME NEW k \in Keys, hm_get(k) PROVE Dictionary!Get(k)
    <3>1. PICK d \in Indices(capacity) :
            Search(entries, capacity, k, d) /\ ret' = entries[Probe(k, d, capacity)].value
      BY <2>2 DEF hm_get
    <3>2. ret' = Contents[k]
      BY <3>1, <2>1, SearchFinds, Zenon DEF Contents
    <3> QED
      BY <3>2, <2>2, SMTT(30), SMTT(60) DEF hm_get, table, Contents, Dictionary!Get
  <2>3. ASSUME NEW k \in Keys, NEW v \in Vals, hm_set(k, v)
        PROVE  Dictionary!Set(k, v) \/ Dictionary!SetFails
    BY <2>1, <2>3, StoreRefines DEF hm_set, Contents
  <2>4. CASE ExpandFails
    BY <2>4 DEF ExpandFails, table, Contents, Dictionary!SetFails, Dictionary!Next
  <2>5. CASE FinishExpand
    <3>1. /\ call # NoCall /\ i = capacity
          /\ \/ StoreNew(fresh, 2 * capacity, call.key, call.value)
             \/ NoMemoryForKey(fresh, 2 * capacity, call.key)
      BY <2>5, SMTT(30), SMTT(60) DEF FinishExpand
    <3>2. /\ call.key \in Keys /\ call.value \in Vals
          /\ fresh \in Table(2 * capacity) /\ Placed(fresh, 2 * capacity)
      BY <3>1, SMTT(30), SMTT(60) DEF HmIInv, HmTypeOK, Calls, Moved
    <3>3. /\ \A j \in Indices(capacity) : entries[j].key # Null =>
               \E l \in Indices(2 * capacity) : fresh[l] = entries[j]
          /\ \A l \in Indices(2 * capacity) : fresh[l].key # Null =>
               \E j \in Indices(capacity) : fresh[l] = entries[j]
      BY <2>1, <3>1, SMTT(30), SMTT(60) DEF HmIInv, Moved, Indices
    <3>4. ContentsOf(fresh) = Contents
      BY <2>1, <3>2, <3>3, SameContents, SMTT(30), SMTT(60) DEF Contents
    <3>5. Dictionary!Set(call.key, call.value) \/ Dictionary!SetFails
      BY <2>1, <3>1, <3>2, <3>4, StoreRefines
    <3> QED
      BY <3>2, <3>5, SMTT(30), SMTT(60) DEF Dictionary!Next
  <2>6. CASE \/ \E k \in Keys, v \in Vals : StartExpand(k, v)
             \/ Rehash \/ hm_iter \/ hm_next \/ UNCHANGED hmVars
    BY <2>6, Zenon DEF StartExpand, Rehash, hm_iter, hm_next, hmVars, table, Contents, Dictionary!vars
  <2> QED
    BY <2>2, <2>3, <2>4, <2>5, <2>6 DEF HmNext, Dictionary!Next
<1> QED
  BY <1>1, <1>2, HmInitIInv, HmStepIInv, PTL DEF HmSpec, ImplementsMap, Dictionary!Spec
-----------------------------------------------------------------------------
(* ksleep never returns early, for every length of a sleep, every number of *)
(* rounds and every processor.  The invariant adds up what is left to wait  *)
(* and what has been waited: no interrupt takes from the one more than it   *)
(* gives to the other.                                                      *)
Waiting == {"deadline", "check", "hlt", "halted"}

SleepIInv ==
  /\ TypeOK
  /\ armed \/ pc = "deadline" => timer = TSC
  /\ pc \in Waiting => ticks + fired >= Need
  /\ pc = "poll" => fired >= Need

(* The ticks a sleep needs are a number. *)
LEMMA NeedType == ASSUME TypeOK PROVE Need \in 1 .. Milliseconds
BY SleepAssumption DEF TypeOK, Need

(* The invariant of sleeping holds at the start. *)
LEMMA SleepInitIInv == Init => SleepIInv
<1> SUFFICES ASSUME Init PROVE SleepIInv
  OBVIOUS
<1>1. timer \in {0, PIT, TSC}
  BY DEF Init, TimerSource
<1>2. armed \in BOOLEAN
  BY Zenon DEF Init
<1>3. TypeOK
  BY <1>1, <1>2, SleepAssumption, SMTT(30), SMTT(60) DEF Init, TypeOK
<1> QED
  BY <1>3 DEF Init, SleepIInv, Waiting

(* A step of the sleeping thread keeps the invariant of sleeping. *)
LEMMA StepProcessor ==
  ASSUME SleepIInv, Processor
  PROVE  SleepIInv'
<1> USE SleepAssumption DEF SleepIInv, Waiting
<1>1. CASE naive_key_released
  BY <1>1, SMTT(30), SMTT(60) DEF naive_key_released, TypeOK, Need
<1>2. CASE ksleep
  BY <1>2 DEF ksleep, TypeOK, Need, PIT, TSC
<1>3. CASE set_tsc_deadline
  <2>0. armed' \in BOOLEAN
    BY <1>3, ProcessorsAssumption, SMTT(30), SMTT(60) DEF set_tsc_deadline, TypeOK
  <2>1. TypeOK' /\ (armed' => timer' = TSC)
    BY <1>3, <2>0, SMTT(30), SMTT(60) DEF set_tsc_deadline, TypeOK
  <2> QED
    BY <1>3, <2>1, SMTT(30), SMTT(60) DEF set_tsc_deadline, Need
<1>4. CASE CheckTicks
  <2>1. TypeOK' /\ (armed' => timer' = TSC)
    BY <1>4 DEF CheckTicks, TypeOK
  <2>2. fired \in Nat /\ ticks \in Nat
    BY SMTT(30), SMTT(60) DEF TypeOK
  <2> QED
    BY <1>4, <2>1, <2>2, SMTT(30), SMTT(60) DEF CheckTicks, Need
<1>5. CASE Hlt
  BY <1>5, SMTT(30), SMTT(60) DEF Hlt, TypeOK, Need
<1>6. CASE PollKey
  BY <1>6, SMTT(30), SMTT(60) DEF PollKey, TypeOK, Need
<1> QED
  BY <1>1, <1>2, <1>3, <1>4, <1>5, <1>6, SMTT(30), SMTT(60) DEF Processor

(* A handler keeps the invariant of sleeping. *)
LEMMA StepInterrupt ==
  ASSUME SleepIInv, pic_timer_isr \/ apic_timer_isr \/ keyboard_isr
  PROVE  SleepIInv'
<1> USE SleepAssumption DEF SleepIInv, Waiting
<1>1. Need \in 1 .. Milliseconds
  BY NeedType, SMTT(30), SMTT(60)
<1>2. CASE pic_timer_isr
  <2>1. Need' = Need /\ UNCHANGED <<cpu, timer, armed, counter, key>>
    BY <1>2, SMTT(30), SMTT(60) DEF pic_timer_isr, Need
  <2>2. TypeOK'
    BY <1>1, <1>2, <2>1, SMTT(30), SMTT(60) DEF pic_timer_isr, TypeOK, Count, Wake
  <2> QED
    BY <1>1, <1>2, <2>1, <2>2, SMTT(30), SMTT(60) DEF pic_timer_isr, TypeOK, Count, Wake
<1>3. CASE apic_timer_isr
  <2>1. Need' = Need /\ Need = 1 /\ UNCHANGED <<cpu, timer, counter, key>>
    BY <1>3 DEF apic_timer_isr, Need
  <2>0. armed' \in BOOLEAN
    BY <1>3, ZenonT(60) DEF apic_timer_isr
  <2>2. TypeOK'
    BY <1>1, <1>3, <2>0, <2>1, SMTT(30), SMTT(60) DEF apic_timer_isr, TypeOK, Count, Wake
  <2> QED
    BY <1>1, <1>3, <2>1, <2>2, SMTT(30), SMTT(60) DEF apic_timer_isr, TypeOK, Count, Wake
<1>4. CASE keyboard_isr
  BY <1>4 DEF keyboard_isr, TypeOK, Wake, Need
<1> QED
  BY <1>2, <1>3, <1>4

(* Every step keeps the invariant of sleeping. *)
LEMMA SleepStepIInv == SleepIInv /\ [Next]_vars => SleepIInv'
<1> SUFFICES ASSUME SleepIInv, [Next]_vars PROVE SleepIInv'
  OBVIOUS
<1>1. CASE Processor
  BY <1>1, StepProcessor
<1>2. CASE pic_timer_isr \/ apic_timer_isr \/ keyboard_isr
  BY <1>2, StepInterrupt
<1>3. CASE UNCHANGED vars
  BY <1>3, Zenon DEF vars, SleepIInv, TypeOK, Need
<1> QED
  BY <1>1, <1>2, <1>3 DEF Next

(***************************************************************************)
(* A sleep of any length waits for as many timer interrupts as it takes     *)
(* (ksleep, pic_timer_isr, apic_timer_isr), whatever else wakes it.         *)
(***************************************************************************)
THEOREM NeverWakesEarly == Spec => []SleepsLongEnough
<1>1. SleepIInv => SleepsLongEnough
  BY DEF SleepIInv, SleepsLongEnough
<1> QED
  BY <1>1, SleepInitIInv, SleepStepIInv, PTL DEF Spec
=============================================================================
