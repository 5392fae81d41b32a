------------------------------ MODULE MapTable ------------------------------
(***************************************************************************)
(* The hash table behind map[T] (runtime/festina_runtime.c): open          *)
(* addressing with linear probing, tombstones where keys were deleted, and *)
(* a rebuild into twice the room.  A bucket's key tells whether the bucket *)
(* is in use.  A map's header (count, entries, capacity, tombstones) is a  *)
(* record; the operations are operators from one header to the next.       *)
(***************************************************************************)
EXTENDS Integers, FiniteSets, FiniteSetsExt

CONSTANTS
  Key, Value,
  Hash,         \* of each key; the code has FNV-1a
  Empty,        \* the key of a bucket never used: NULL
  Tombstone,    \* the key of a bucket whose entry was deleted
  FirstBuckets, \* the first capacity: 8
  MaxBuckets    \* bound: the largest capacity

ASSUME MapAssumption ==
  /\ Hash \in [Key -> Nat]
  /\ Empty \notin Key /\ Tombstone \notin Key /\ Empty # Tombstone
  /\ FirstBuckets \in Nat \ {0, 1}

VARIABLES
  map,      \* the header the program's variable holds
  contents  \* history: what the program stored and has not deleted

mapVars == <<map, contents>>

Buckets(n) == [i \in 0..(n - 1) |-> [key |-> Empty, value |-> 0]]
EmptyMap == [count |-> 0, entries |-> Buckets(0), capacity |-> 0, tombstones |-> 0]

Live(bucket) == bucket.key \notin {Empty, Tombstone}
Entries(m) == {i \in DOMAIN m.entries : Live(m.entries[i])}

\* The i-th bucket that a probe for k looks at.
At(m, k, i) == (Hash[k] + i) % m.capacity

\* The probes for k up to the first bucket that holds it or was never used.
Stops(m, k) == {i \in 0..(m.capacity - 1) : m.entries[At(m, k, i)].key \in {k, Empty}}
Reused(m, k) == {i \in 0..(m.capacity - 1) : m.entries[At(m, k, i)].key = Tombstone}

\* festina_map_find: the bucket of k, none if it is not there. (Bug: a probe ends at a
\* tombstone.)
Find_AtTombstone(m, k) ==
  LET s == Stops(m, k) \cup Reused(m, k)
  IN {At(m, k, i) : i \in {i \in s : i = Min(s) /\ m.entries[At(m, k, i)].key = k}}
Find(m, k) ==
  LET s == Stops(m, k)
  IN {At(m, k, i) : i \in {i \in s : i = Min(s) /\ m.entries[At(m, k, i)].key = k}}

\* festina_map_find_slot: where k is or should go, the first tombstone on the way if it
\* is not there.
FindSlot(m, k) ==
  LET end   == Min(Stops(m, k))
      holes == {i \in Reused(m, k) : i < end}
      found == m.entries[At(m, k, end)].key = k
  IN At(m, k, IF found \/ holes = {} THEN end ELSE Min(holes))

Place(m, entry) == [m EXCEPT !.entries[FindSlot(m, entry.key)] = entry]

\* festina_map_grow: the live entries, rebuilt into a larger table with no tombstone.
Grow(m) ==
  LET n == IF m.capacity = 0 THEN FirstBuckets ELSE 2 * m.capacity
      upTo[i \in 0..m.capacity] ==
        IF i = 0 THEN [m EXCEPT !.entries = Buckets(n), !.capacity = n, !.tombstones = 0]
        ELSE IF Live(m.entries[i-1]) THEN Place(upTo[i-1], m.entries[i-1])
        ELSE upTo[i-1]
  IN upTo[m.capacity]

\* Three quarters of the buckets are in use, tombstones included. (Bug: without them.)
Crowded_LiveOnly(m) == m.capacity = 0 \/ (m.count + 1) * 4 >= m.capacity * 3
Crowded(m) == m.capacity = 0 \/ (m.count + m.tombstones + 1) * 4 >= m.capacity * 3
Roomy(m) == IF Crowded(m) THEN Grow(m) ELSE m

\* festina_map_set.
Set(m, entry) ==
  LET roomy == Roomy(m)
      old == roomy.entries[FindSlot(roomy, entry.key)].key
  IN [Place(roomy, entry) EXCEPT
        !.count = IF old = entry.key THEN @ ELSE @ + 1,
        !.tombstones = IF old = Tombstone THEN @ - 1 ELSE @]

\* festina_map_delete.
Delete(m, k) ==
  IF Find(m, k) = {} THEN m
  ELSE LET at == CHOOSE i \in Find(m, k) : TRUE IN
       [m EXCEPT !.entries[at].key = Tombstone, !.entries[at].value = 0,
                 !.count = @ - 1, !.tombstones = @ + 1]

\* festina_map_clone: every live entry, set into an empty map.
Clone(m) ==
  LET upTo[i \in 0..m.capacity] ==
        IF i = 0 THEN EmptyMap
        ELSE IF Live(m.entries[i-1]) THEN Set(upTo[i-1], m.entries[i-1])
        ELSE upTo[i-1]
  IN upTo[m.capacity]

MapInit == map = EmptyMap /\ contents = [k \in {} |-> 0]

Assign(k, v) ==
  /\ Roomy(map).capacity <= MaxBuckets
  /\ map' = Set(map, [key |-> k, value |-> v])
  /\ contents' = [x \in DOMAIN contents \cup {k} |-> IF x = k THEN v ELSE contents[x]]

Unset(k) ==
  /\ map' = Delete(map, k)
  /\ contents' = [x \in DOMAIN contents \ {k} |-> contents[x]]

Copy == map' = Clone(map) /\ UNCHANGED contents

MapNext ==
  \/ \E k \in Key : Unset(k) \/ (\E v \in Value : Assign(k, v))
  \/ Copy

MapSpec == MapInit /\ [][MapNext]_mapVars
-----------------------------------------------------------------------------
\* After any sequence of sets, deletes and copies a lookup gives what was stored last
\* under its key and not deleted since, a walk of the buckets meets every key once, and a
\* bucket is left that was never used, without which no probe for an absent key ends.
MapExact ==
  /\ \A k \in Key :
       LET found == {map.entries[i].value : i \in Find(map, k)}
       IN found = IF k \in DOMAIN contents THEN {contents[k]} ELSE {}
  /\ {map.entries[i].key : i \in Entries(map)} = DOMAIN contents
  /\ map.count = Cardinality(Entries(map)) /\ map.count = Cardinality(DOMAIN contents)
  /\ map.tombstones = Cardinality({i \in DOMAIN map.entries : map.entries[i].key = Tombstone})
  /\ map.capacity > 0 => \E i \in DOMAIN map.entries : map.entries[i].key = Empty
=============================================================================
