------------------------------ MODULE HashMap ------------------------------
(***************************************************************************)
(* The open-addressing hash map of lethe-utils/hashmap.c.  hm_expand, which *)
(* moves every entry to a table of twice the size, takes one step for each  *)
(* slot; the other calls are one step each.  A map has one caller at a      *)
(* time.  The hash function is arbitrary but fixed.                         *)
(***************************************************************************)
EXTENDS Integers, FiniteSets

CONSTANTS
  Keys,             \* names of KEY_LEN bytes
  Vals,             \* pointers other than Null
  Null,             \* NULL
  Hashes,           \* the hash functions that are considered
  InitialCapacity   \* INITIAL_CAPACITY: 4 in the code

ASSUME KeysAssumption == Null \notin Keys /\ Null \notin Vals
ASSUME HashesAssumption == Hashes \subseteq [Keys -> Nat]
ASSUME InitialCapacityAssumption == InitialCapacity \in Nat /\ InitialCapacity >= 4 /\ InitialCapacity % 4 = 0

VARIABLES
  hash,       \* the hash function
  capacity,   \* map->capacity
  count,      \* map->count
  entries,    \* map->entries
  call,       \* the hm_set that is expanding the map, or NoCall
  fresh,      \* the table that hm_expand fills
  i,          \* the slot that hm_expand moves next
  ret,        \* what the last call returned
  it,         \* the _index of the iterator
  seen,       \* the keys it has returned, each with the number of times
  expected,   \* the keys it has to return: those there since hm_iter
  rehashed    \* history: the table was replaced since hm_iter

table == <<capacity, count, entries>>
iterator == <<it, seen, expected, rehashed>>
hmVars == <<hash, capacity, count, entries, call, fresh, i, ret, it, seen, expected, rehashed>>

Empty == [key |-> Null, value |-> Null]
NoCall == [key |-> Null, value |-> Null]

Entries == [key : Keys, value : Vals] \union {Empty}

Indices(cap) == 0 .. (cap - 1)

EmptyTable(cap) == [j \in Indices(cap) |-> Empty]

hash_value(key) == hash[key]

(* The slot the search for key looks at after d others.                     *)
Probe(key, d, cap) ==
  LET home == hash_value(key) % cap IN IF home + d < cap THEN home + d ELSE home + d - cap

(* The search ends at a slot that is empty or holds the key: the first such *)
(* slot, if there is one.  It has no other bound.                           *)
Stops(t, cap, key, d) == t[Probe(key, d, cap)].key \in {Null, key}

Search(t, cap, key, d) ==
  /\ d \in Indices(cap)
  /\ Stops(t, cap, key, d)
  /\ \A e \in 0 .. (d - 1) : ~Stops(t, cap, key, e)

set_entry(t, cap, key, value, d) ==
  [t EXCEPT ![Probe(key, d, cap)] = [key |-> key, value |-> value]]

HmInit ==
  /\ hash \in Hashes
  /\ capacity = InitialCapacity /\ count = 0 /\ entries = EmptyTable(InitialCapacity)
  /\ call = NoCall /\ fresh = EmptyTable(InitialCapacity) /\ i = 0
  /\ ret = Null
  /\ it = 0 /\ seen = [k \in Keys |-> 0] /\ expected = {} /\ rehashed = FALSE

-----------------------------------------------------------------------------
(* hm_get. *)
hm_get(key) ==
  /\ call = NoCall
  /\ \E d \in Indices(capacity) :
       /\ Search(entries, capacity, key, d)
       /\ ret' = entries[Probe(key, d, capacity)].value
  /\ UNCHANGED <<hash, table, call, fresh, i, iterator>>

(* set_entry on the map itself copies a key that is new, which may fail.    *)
StoreNew(t, cap, key, value) ==
  \E d \in Indices(cap) :
    /\ Search(t, cap, key, d)
    /\ entries' = set_entry(t, cap, key, value, d)
    /\ count' = IF t[Probe(key, d, cap)].key = key THEN count ELSE count + 1
    /\ ret' = key

NoMemoryForKey(t, cap, key) ==
  \E d \in Indices(cap) :
    /\ Search(t, cap, key, d)
    /\ t[Probe(key, d, cap)].key = Null
    /\ entries' = t
    /\ ret' = Null
    /\ UNCHANGED count

(* Variant: the map is filled to the last slot. *)
Loaded_Full == count > capacity

Loaded == 4 * count >= 3 * capacity

(* hm_set on a map with room. *)
hm_set(key, value) ==
  /\ call = NoCall /\ ~Loaded
  /\ StoreNew(entries, capacity, key, value) \/ NoMemoryForKey(entries, capacity, key)
  /\ UNCHANGED <<hash, capacity, call, fresh, i, iterator>>

(* hm_set on a loaded map calls hm_expand first, whose calloc may fail.     *)
StartExpand(key, value) ==
  /\ call = NoCall /\ Loaded
  /\ call' = [key |-> key, value |-> value]
  /\ fresh' = EmptyTable(2 * capacity)
  /\ i' = 0
  /\ UNCHANGED <<hash, table, ret, iterator>>

ExpandFails ==
  /\ call = NoCall /\ Loaded
  /\ ret' = Null
  /\ UNCHANGED <<hash, table, call, fresh, i, iterator>>

(* One iteration of the loop of hm_expand. *)
Rehash ==
  /\ call # NoCall /\ i < capacity
  /\ \/ entries[i].key = Null /\ UNCHANGED fresh
     \/ /\ entries[i].key # Null
        /\ \E d \in Indices(2 * capacity) :
             /\ Search(fresh, 2 * capacity, entries[i].key, d)
             /\ fresh' = set_entry(fresh, 2 * capacity, entries[i].key, entries[i].value, d)
  /\ i' = i + 1
  /\ UNCHANGED <<hash, table, call, ret, iterator>>

(* Variant: the last slot is not moved. *)
FinishExpand_Early ==
  /\ call # NoCall /\ i = capacity - 1
  /\ capacity' = 2 * capacity
  /\ StoreNew(fresh, 2 * capacity, call.key, call.value) \/ NoMemoryForKey(fresh, 2 * capacity, call.key)
  /\ call' = NoCall
  /\ fresh' = EmptyTable(InitialCapacity) /\ i' = 0
  /\ rehashed' = TRUE
  /\ UNCHANGED <<hash, it, seen, expected>>

(* The end of hm_expand and the set_entry that follows it in hm_set.  An    *)
(* iterator keeps its index, and goes on from it in the new table.          *)
FinishExpand ==
  /\ call # NoCall /\ i = capacity
  /\ capacity' = 2 * capacity
  /\ StoreNew(fresh, 2 * capacity, call.key, call.value) \/ NoMemoryForKey(fresh, 2 * capacity, call.key)
  /\ call' = NoCall
  /\ fresh' = EmptyTable(InitialCapacity) /\ i' = 0
  /\ rehashed' = TRUE
  /\ UNCHANGED <<hash, it, seen, expected>>

KeysOf(t) == {t[j].key : j \in DOMAIN t} \ {Null}

hm_iter ==
  /\ call = NoCall
  /\ it' = 0 /\ seen' = [k \in Keys |-> 0] /\ expected' = KeysOf(entries) /\ rehashed' = FALSE
  /\ UNCHANGED <<hash, table, call, fresh, i, ret>>

(* Variant: the index is advanced past the slot that is returned. *)
hm_next_Skips ==
  /\ call = NoCall /\ it < capacity
  /\ \E j \in it .. capacity :
       /\ \A l \in it .. (j - 1) : entries[l].key = Null
       /\ j < capacity => entries[j].key # Null
       /\ it' = IF j + 1 < capacity THEN j + 2 ELSE capacity
       /\ seen' = IF j < capacity THEN [seen EXCEPT ![entries[j].key] = @ + 1] ELSE seen
  /\ UNCHANGED <<hash, table, call, fresh, i, ret, expected, rehashed>>

(* hm_next: on to the next slot in use, or to the end. *)
hm_next ==
  /\ call = NoCall /\ it < capacity
  /\ \E j \in it .. capacity :
       /\ \A l \in it .. (j - 1) : entries[l].key = Null
       /\ j < capacity => entries[j].key # Null
       /\ it' = IF j < capacity THEN j + 1 ELSE capacity
       /\ seen' = IF j < capacity THEN [seen EXCEPT ![entries[j].key] = @ + 1] ELSE seen
  /\ UNCHANGED <<hash, table, call, fresh, i, ret, expected, rehashed>>

HmNext ==
  \/ \E key \in Keys : hm_get(key)
  \/ \E key \in Keys, value \in Vals : hm_set(key, value) \/ StartExpand(key, value)
  \/ ExpandFails \/ Rehash \/ FinishExpand
  \/ hm_iter \/ hm_next

HmSpec == HmInit /\ [][HmNext]_hmVars
-----------------------------------------------------------------------------
(* No search of set_entry or hm_get goes round the table for ever, not even *)
(* that for a key no one has set: the map, and the table that hm_expand     *)
(* fills, always have an empty slot.                                        *)
SearchesEnd ==
  /\ \E j \in Indices(capacity) : entries[j].key = Null
  /\ call # NoCall => \E j \in Indices(2 * capacity) : fresh[j].key = Null

(* An iteration that reaches the end has returned every key that was there  *)
(* when it began, and no key twice, whatever hm_set stored meanwhile, as    *)
(* long as it did not expand the map: in a new table the keys lie elsewhere *)
(* and the index says nothing about which ones were returned.               *)
IterationComplete ==
  call = NoCall /\ ~rehashed =>
    /\ \A k \in Keys : seen[k] <= 1
    /\ it = capacity => \A k \in expected : seen[k] = 1

(* hm_get and hm_set implement a map: every key that was set keeps its      *)
(* value through collisions, wrap-around, expansion and failed calls.       *)
ContentsOf(t) ==
  [k \in Keys |-> IF k \in KeysOf(t) THEN t[CHOOSE j \in DOMAIN t : t[j].key = k].value ELSE Null]

Contents == ContentsOf(entries)

Dictionary == INSTANCE Map WITH dict <- Contents, NULL <- Null

ImplementsMap == Dictionary!Spec
=============================================================================
