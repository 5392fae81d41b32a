------------------------ MODULE HttpConnections_proofs ------------------------
(***************************************************************************)
(* Proofs about HttpConnections for every number of contexts, connections, *)
(* requests and frames, every hash function and every table size.  First   *)
(* the index from conn_id to slot (festina_conn_index): what an insertion, *)
(* a removal and a growth do to the pairs it holds, and that a probe finds *)
(* each of them.                                                           *)
(***************************************************************************)
EXTENDS HttpConnections, SequenceTheorems, FiniteSetTheorems, WellFoundedInduction, TLAPS

(***************************************************************************)
(* Arithmetic of the probe.                                                *)
(***************************************************************************)

LEMMA DivMod ==
  ASSUME NEW n \in Nat \ {0}, NEW a \in Int
  PROVE  a % n \in 0..n-1 /\ a \div n \in Int /\ a = n * (a \div n) + (a % n)
OBVIOUS

LEMMA SmallMultiple ==
  ASSUME NEW n \in Nat \ {0}, NEW k \in Int, NEW r \in 0..n-1, NEW s \in 0..n-1, n * k = r - s
  PROVE  r = s
<1>1. -n < n * k /\ n * k < n
  OBVIOUS
<1>2. k >= 1 => n * k >= n
  OBVIOUS
<1>3. k <= -1 => n * k <= -n
  OBVIOUS
<1>4. k = 0
  BY <1>1, <1>2, <1>3
<1>5. n * k = 0
  BY <1>4
<1>6. QED
  BY <1>5

\* A probe visits no entry twice.
LEMMA ProbeInjective ==
  ASSUME NEW n \in Nat \ {0}, NEW h \in Nat, NEW d \in 0..n-1, NEW e \in 0..n-1,
         (h + d) % n = (h + e) % n
  PROVE  d = e
<1> DEFINE q == (h + d) \div n
<1> DEFINE p == (h + e) \div n
<1> DEFINE r == (h + d) % n
<1>1. q \in Int /\ r \in 0..n-1 /\ h + d = n * q + r
  BY DivMod
<1>2. r = (h + e) % n
  OBVIOUS
<1>3. p \in Int /\ h + e = n * p + ((h + e) % n)
  BY DivMod
<1>4. h + e = n * p + r
  BY <1>2, <1>3
<1> HIDE DEF p, q, r
<1>5. n * (q - p) = n * q - n * p
  BY <1>1, <1>3
<1>6. n * (q - p) = d - e
  BY <1>1, <1>3, <1>4, <1>5
<1>7. q - p \in Int
  BY <1>1, <1>3
<1>8. QED
  BY <1>6, <1>7, SmallMultiple

\* The distance from an entry back to where the probe begins.
LEMMA ProbeReaches ==
  ASSUME NEW n \in Nat \ {0}, NEW h \in Nat, NEW i \in 0..n-1
  PROVE  (i - h) % n \in 0..n-1 /\ (h + ((i - h) % n)) % n = i
OBVIOUS

LEMMA ProbeDistance ==
  ASSUME NEW n \in Nat \ {0}, NEW h \in Nat, NEW d \in 0..n-1
  PROVE  (h + d) % n \in 0..n-1 /\ (((h + d) % n) - h) % n = d
<1>1. (h + d) % n \in 0..n-1
  BY DivMod
<1> DEFINE i == (h + d) % n
<1> DEFINE e == (i - h) % n
<1>2. e \in 0..n-1 /\ (h + e) % n = i
  BY <1>1, ProbeReaches
<1> HIDE DEF e
<1>3. e = d
  BY <1>2, ProbeInjective
<1>4. QED
  BY <1>1, <1>3 DEF e

\* Every set of naturals but the empty one has a least element.
LEMMA LeastNat ==
  ASSUME NEW S \in SUBSET Nat, S # {}
  PROVE  \E m \in S : \A k \in S : m <= k
<1> DEFINE R == OpToRel(<, Nat)
<1>1. IsWellFoundedOn(R, Nat)
  BY NatLessThanWellFounded
<1>2. \A i, j \in Nat : i < j => <<i, j>> \in R
  BY DEF OpToRel
<1> HIDE DEF R
<1>3. \E m \in S : \A k \in S : ~ (<<k, m>> \in R)
  BY <1>1, WFMin
<1>4. PICK m \in S : \A k \in S : <<k, m>> \notin R
  BY <1>3
<1>5. ASSUME NEW k \in S PROVE m <= k
  <2>1. <<k, m>> \notin R
    BY <1>4
  <2>2. ~ (k < m)
    BY <1>2, <2>1
  <2>3. QED
    BY <2>2, SMT
<1>6. QED
  BY <1>5

(***************************************************************************)
(* Tables.                                                                 *)
(***************************************************************************)

Slot  == Nat \ {0}
Entry == [id : {Empty, Tombstone} \cup Conn, slot : Nat]
IsTable(t, n) == n \in Nat /\ t \in [0..n-1 -> Entry]

LEMMA TableCap ==
  ASSUME NEW n, NEW t, IsTable(t, n) PROVE Cap(t) = n /\ DOMAIN t = 0..n-1 /\ IsFiniteSet(DOMAIN t)
<1>1. DOMAIN t = 0..n-1 /\ n \in Nat
  BY DEF IsTable
<1>2. IsFiniteSet(0..n-1) /\ Cardinality(0..n-1) = n
  BY <1>1, FS_Interval
<1>3. QED
  BY <1>1, <1>2 DEF Cap

LEMMA HashNat == ASSUME NEW id \in 0..MaxConn PROVE Hash[id] \in Nat
BY ConnAssumption

LEMMA ConnFacts == MaxConn \in Nat /\ Conn \subseteq 0..MaxConn /\ \A id \in Conn : id \in Nat \ {0}
BY ConnAssumption DEF Conn

\* The entries a probe for the id at i passes before it comes to i.
Distance(t, i) == (i - Hash[t[i].id]) % Cap(t)

\* No id is twice in the table, and none lies beyond an empty entry of its probe.
Sound(t) ==
  /\ \A i, j \in Occupied(t) : t[i].id = t[j].id => i = j
  /\ \A i \in Occupied(t) : \A e \in 0..Distance(t, i)-1 : t[At(t, t[i].id, e)].id # Empty

Pairs(t)  == {<<t[i].id, t[i].slot>> : i \in Occupied(t)}
Filled(t) == {i \in DOMAIN t : t[i].id # Empty}

LEMMA OccupiedFacts ==
  ASSUME NEW n, NEW t, IsTable(t, n)
  PROVE  /\ Occupied(t) = {i \in 0..n-1 : t[i].id \in Conn}
         /\ Occupied(t) \subseteq Filled(t) /\ Filled(t) \subseteq 0..n-1
         /\ \A i \in 0..n-1 : (t[i].id >= 0 <=> t[i].id \in Conn) /\ (t[i].id < 0 <=> t[i].id \notin Conn)
<1>1. DOMAIN t = 0..n-1 /\ \A i \in 0..n-1 : t[i].id \in {Empty, Tombstone} \cup Conn
  BY DEF IsTable, Entry
<1>2. Conn \subseteq Nat \ {0}
  BY ConnFacts
<1>3. \A i \in 0..n-1 : (t[i].id >= 0 <=> t[i].id \in Conn) /\ (t[i].id < 0 <=> t[i].id \notin Conn)
  <2> SUFFICES ASSUME NEW i \in 0..n-1
               PROVE (t[i].id >= 0 <=> t[i].id \in Conn) /\ (t[i].id < 0 <=> t[i].id \notin Conn)
    OBVIOUS
  <2>1. CASE t[i].id \in Conn
    BY <1>2, <2>1
  <2>2. CASE t[i].id \in {Empty, Tombstone}
    BY <1>2, <2>2 DEF Empty, Tombstone
  <2>3. QED
    BY <1>1, <2>1, <2>2
<1>4. QED
  BY <1>1, <1>3, <1>2 DEF Occupied, Filled, Empty

LEMMA IntervalCount ==
  ASSUME NEW n \in Nat PROVE IsFiniteSet(0..n-1) /\ Cardinality(0..n-1) = n
<1>1. 0 \in Int /\ n-1 \in Int
  OBVIOUS
<1>2. IsFiniteSet(0..n-1) /\ Cardinality(0..n-1) = IF 0 > n-1 THEN 0 ELSE (n-1) - 0 + 1
  BY <1>1, FS_Interval
<1>3. (IF 0 > n-1 THEN 0 ELSE (n-1) - 0 + 1) = n
  OBVIOUS
<1>4. QED
  BY <1>2, <1>3

LEMMA FilledFinite ==
  ASSUME NEW n, NEW t, IsTable(t, n)
  PROVE  /\ IsFiniteSet(Occupied(t)) /\ IsFiniteSet(Filled(t))
         /\ Cardinality(Occupied(t)) \in Nat /\ Cardinality(Filled(t)) \in Nat
         /\ Cardinality(Occupied(t)) <= Cardinality(Filled(t))
<1>1. Occupied(t) \subseteq Filled(t) /\ Filled(t) \subseteq 0..n-1 /\ n \in Nat
  BY OccupiedFacts DEF IsTable
<1>2. IsFiniteSet(0..n-1)
  BY <1>1, IntervalCount
<1>3. IsFiniteSet(Filled(t))
  BY <1>1, <1>2, FS_Subset
<1>4. IsFiniteSet(Occupied(t)) /\ Cardinality(Occupied(t)) <= Cardinality(Filled(t))
  BY <1>1, <1>3, FS_Subset
<1>5. QED
  BY <1>3, <1>4, FS_CardinalityType

LEMMA ProbeFacts ==
  ASSUME NEW n, NEW t, IsTable(t, n), n # 0, NEW id \in 0..MaxConn
  PROVE  /\ n \in Nat \ {0} /\ Hash[id] \in Nat /\ Cap(t) = n
         /\ \A e \in 0..n-1 : At(t, id, e) \in 0..n-1
         /\ \A d, e \in 0..n-1 : At(t, id, d) = At(t, id, e) => d = e
         /\ \A i \in 0..n-1 : (i - Hash[id]) % n \in 0..n-1 /\ At(t, id, (i - Hash[id]) % n) = i
         /\ \A e \in 0..n-1 : (At(t, id, e) - Hash[id]) % n = e
<1>1. n \in Nat \ {0} /\ Hash[id] \in Nat /\ Cap(t) = n
  BY TableCap, HashNat DEF IsTable
<1> DEFINE h == Hash[id]
<1>2. \A e : At(t, id, e) = (h + e) % n
  BY <1>1 DEF At
<1> HIDE DEF h
<1>3. h \in Nat
  BY <1>1 DEF h
<1>4. \A e \in 0..n-1 : (h + e) % n \in 0..n-1 /\ (((h + e) % n) - h) % n = e
  BY <1>1, <1>3, ProbeDistance
<1>5. \A d, e \in 0..n-1 : (h + d) % n = (h + e) % n => d = e
  BY <1>1, <1>3, ProbeInjective
<1>6. \A i \in 0..n-1 : (i - h) % n \in 0..n-1 /\ (h + ((i - h) % n)) % n = i
  BY <1>1, <1>3, ProbeReaches
<1>7. \A e \in 0..n-1 : At(t, id, e) \in 0..n-1 /\ (At(t, id, e) - h) % n = e
  BY <1>2, <1>4, Zenon
<1>8. \A d, e \in 0..n-1 : At(t, id, d) = At(t, id, e) => d = e
  BY <1>2, <1>5, Zenon
<1>9. \A i \in 0..n-1 : (i - h) % n \in 0..n-1 /\ At(t, id, (i - h) % n) = i
  BY <1>2, <1>6, Zenon
<1>10. QED
  BY <1>1, <1>7, <1>8, <1>9, Zenon DEF h

\* A probe finds each id the table holds, where it is.
LEMMA ProbeFinds ==
  ASSUME NEW n, NEW t, IsTable(t, n), Sound(t), NEW i \in Occupied(t)
  PROVE  Hits(t, t[i].id) = {i}
<1> DEFINE id == t[i].id
<1> DEFINE d == (i - Hash[id]) % n
<1>0. Occupied(t) = {k \in 0..n-1 : t[k].id \in Conn} /\ n \in Nat /\ DOMAIN t = 0..n-1
  BY OccupiedFacts DEF IsTable
<1>9. \A x \in 0..MaxConn : n # 0 =>
        /\ Cap(t) = n
        /\ \A e \in 0..n-1 : At(t, x, e) \in 0..n-1
        /\ \A a, e \in 0..n-1 : At(t, x, a) = At(t, x, e) => a = e
        /\ \A k \in 0..n-1 : (k - Hash[x]) % n \in 0..n-1 /\ At(t, x, (k - Hash[x]) % n) = k
  BY ProbeFacts
<1>1. i \in 0..n-1 /\ id \in Conn /\ id \in 0..MaxConn /\ n # 0 /\ DOMAIN t = 0..n-1 /\ n \in Nat
  <2>1. i \in 0..n-1 /\ t[i].id \in Conn
    BY <1>0
  <2>2. n # 0
    BY <2>1, <1>0
  <2>3. QED
    BY <2>1, <2>2, <1>0, ConnFacts
<1>2. /\ Cap(t) = n /\ d \in 0..n-1 /\ At(t, id, d) = i
      /\ \A e \in 0..n-1 : At(t, id, e) \in 0..n-1
      /\ \A a, e \in 0..n-1 : At(t, id, a) = At(t, id, e) => a = e
  <2>1. d = (i - Hash[id]) % n
    OBVIOUS
  <2> HIDE DEF id, d
  <2>0. n # 0 /\ id \in 0..MaxConn
    BY <1>1
  <2>2. /\ Cap(t) = n
        /\ \A e \in 0..n-1 : At(t, id, e) \in 0..n-1
        /\ \A a, e \in 0..n-1 : At(t, id, a) = At(t, id, e) => a = e
        /\ \A k \in 0..n-1 : (k - Hash[id]) % n \in 0..n-1 /\ At(t, id, (k - Hash[id]) % n) = k
    BY <2>0, <1>9, Zenon
  <2>3. (i - Hash[id]) % n \in 0..n-1 /\ At(t, id, (i - Hash[id]) % n) = i
    BY <2>2, <1>1
  <2>4. QED
    BY <2>1, <2>2, <2>3, Zenon
<1>3. \A e \in 0..d-1 : t[At(t, id, e)].id # Empty
  BY <1>2 DEF Sound, Distance
<1>4. ASSUME NEW e \in 0..d-1 PROVE t[At(t, id, e)].id # id
  <2>1. e \in 0..n-1 /\ e # d
    BY <1>1, <1>2
  <2>2. At(t, id, e) \in 0..n-1 /\ At(t, id, e) # i
    BY <2>1, <1>2
  <2>3. t[At(t, id, e)].id = id => At(t, id, e) \in Occupied(t)
    BY <2>2, <1>1, OccupiedFacts
  <2>4. QED
    BY <2>2, <2>3 DEF Sound
<1>5. i \in Hits(t, id)
  BY <1>1, <1>2, <1>3, <1>4 DEF Hits
<1>6. ASSUME NEW j \in Hits(t, id) PROVE j = i
  <2>1. j \in DOMAIN t /\ t[j].id = id
    BY DEF Hits
  <2>2. j \in Occupied(t)
    BY <2>1, <1>1, OccupiedFacts
  <2>3. QED
    BY <2>1, <2>2 DEF Sound
<1>7. QED
  BY <1>5, <1>6

LEMMA ProbeMisses ==
  ASSUME NEW n, NEW t, IsTable(t, n), NEW id \in 0..MaxConn, \A p \in Pairs(t) : p[1] # id
  PROVE  Hits(t, id) = {}
<1>1. \A i \in DOMAIN t : t[i].id = id => i \in Occupied(t)
  BY ConnAssumption, TableCap, OccupiedFacts DEF Occupied
<1>2. ASSUME NEW i \in DOMAIN t PROVE t[i].id # id
  <2>1. i \in Occupied(t) => <<t[i].id, t[i].slot>> \in Pairs(t)
    BY DEF Pairs
  <2>2. <<t[i].id, t[i].slot>>[1] = t[i].id
    OBVIOUS
  <2>3. QED
    BY <1>1, <2>1, <2>2
<1>3. ASSUME NEW i \in Hits(t, id) PROVE FALSE
  BY <1>2 DEF Hits
<1>4. QED
  BY <1>3

LEMMA IndexGetFinds ==
  ASSUME NEW n, NEW t, IsTable(t, n), Sound(t), NEW id \in 0..MaxConn
  PROVE  /\ \A s : <<id, s>> \in Pairs(t) => IndexGet(t, id) = s
         /\ (\A p \in Pairs(t) : p[1] # id) => IndexGet(t, id) = 0
<1>1. ASSUME NEW s, <<id, s>> \in Pairs(t) PROVE IndexGet(t, id) = s
  <2>1. PICK i \in Occupied(t) : t[i].id = id /\ t[i].slot = s
    BY <1>1 DEF Pairs
  <2>2. Hits(t, id) = {i}
    BY <2>1, ProbeFinds
  <2>3. (CHOOSE j \in {i} : TRUE) = i
    OBVIOUS
  <2>4. QED
    BY <2>1, <2>2, <2>3 DEF IndexGet
<1>2. ASSUME \A p \in Pairs(t) : p[1] # id PROVE IndexGet(t, id) = 0
  BY <1>2, ProbeMisses DEF IndexGet
<1>3. QED
  BY <1>1, <1>2

(***************************************************************************)
(* Removal.                                                                *)
(***************************************************************************)

\* The table with a tombstone in entry i.
Buried(t, i) == [j \in DOMAIN t |-> IF j \in {i} THEN [t[j] EXCEPT !.id = Tombstone] ELSE t[j]]

LEMMA BuriedFacts ==
  ASSUME NEW n, NEW t, IsTable(t, n), NEW i \in 0..n-1
  PROVE  /\ IsTable(Buried(t, i), n) /\ Buried(t, i)[i].id = Tombstone
         /\ \A j \in 0..n-1 : j # i => Buried(t, i)[j] = t[j]
<1>1. DOMAIN t = 0..n-1 /\ n \in Nat /\ \A j \in 0..n-1 : t[j] \in Entry
  BY DEF IsTable
<1>2. [t[i] EXCEPT !.id = Tombstone] \in Entry /\ [t[i] EXCEPT !.id = Tombstone].id = Tombstone
  BY <1>1 DEF Entry
<1>3. QED
  BY <1>1, <1>2 DEF IsTable, Buried

LEMMA RemoveHit ==
  ASSUME NEW n, NEW t, IsTable(t, n), NEW i \in 0..n-1, Sound(t),
         NEW u, IsTable(u, n), u[i].id = Tombstone, \A j \in 0..n-1 : j # i => u[j] = t[j]
  PROVE  /\ Sound(u) /\ Occupied(u) = Occupied(t) \ {i}
         /\ Filled(u) \subseteq Filled(t) \cup {i}
         /\ \A j \in Occupied(u) : u[j] = t[j]
<1>1. DOMAIN t = 0..n-1 /\ n \in Nat /\ \A j \in 0..n-1 : t[j] \in Entry
  BY DEF IsTable
<1>3. IsTable(u, n) /\ u[i].id = Tombstone /\ \A j \in 0..n-1 : j # i => u[j] = t[j]
  OBVIOUS
<1>4. Tombstone \notin Conn /\ Tombstone # Empty
  BY ConnFacts DEF Tombstone, Empty
<1>5. Occupied(u) = Occupied(t) \ {i}
  <2>1. Occupied(t) = {k \in 0..n-1 : t[k].id \in Conn}
    BY OccupiedFacts
  <2>2. Occupied(u) = {k \in 0..n-1 : u[k].id \in Conn}
    BY <1>3, OccupiedFacts
  <2>3. QED
    BY <2>1, <2>2, <1>3, <1>4
<1>6. Filled(u) \subseteq Filled(t) \cup {i}
  BY <1>1, <1>3, TableCap DEF Filled
<1>7. \A j \in Occupied(u) : u[j] = t[j]
  BY <1>5, <1>3, <1>1, OccupiedFacts
<1>8. Cap(u) = Cap(t)
  BY <1>3, TableCap
<1>9. ASSUME NEW j \in Occupied(u), NEW e \in 0..Distance(u, j)-1 PROVE u[At(u, u[j].id, e)].id # Empty
  <2>1. j \in Occupied(t) /\ u[j] = t[j] /\ Distance(u, j) = Distance(t, j)
    BY <1>5, <1>7, <1>8 DEF Distance
  <2>2. At(u, u[j].id, e) = At(t, t[j].id, e)
    BY <1>8, <2>1 DEF At
  <2>4. j \in 0..n-1 /\ n # 0 /\ t[j].id \in 0..MaxConn
    <3>1. Occupied(t) = {k \in 0..n-1 : t[k].id \in Conn}
      BY OccupiedFacts
    <3>2. j \in 0..n-1 /\ t[j].id \in Conn
      BY <2>1, <3>1
    <3>3. n # 0
      BY <3>2, <1>1
    <3>4. t[j].id \in 0..MaxConn
      BY <3>2, ConnFacts
    <3>5. QED
      BY <3>2, <3>3, <3>4
  <2>5. Distance(t, j) \in 0..n-1
    BY <2>4, ProbeFacts DEF Distance
  <2>8. e \in 0..n-1
    BY <2>5, <2>1, <1>1
  <2>3. t[At(t, t[j].id, e)].id # Empty
    BY <2>1 DEF Sound
  <2>6. At(t, t[j].id, e) \in 0..n-1
    BY <2>4, <2>8, ProbeFacts
  <2>7. QED
    BY <2>2, <2>3, <2>6, <1>3, <1>4
<1>12. \A j, k \in Occupied(u) : u[j].id = u[k].id => j = k
  BY <1>5, <1>7 DEF Sound
<1>10. Sound(u)
  BY <1>9, <1>12 DEF Sound
<1>11. QED
  BY <1>3, <1>5, <1>6, <1>7, <1>10

(***************************************************************************)
(* Insertion.                                                              *)
(***************************************************************************)

\* The probe of an insertion ends at the first entry that holds no connection.
LEMMA InsertShape ==
  ASSUME NEW n, NEW t, IsTable(t, n), NEW id \in Conn, NEW s,
         \E i \in 0..n-1 : t[i].id \notin Conn
  PROVE  \E d \in 0..n-1 :
           /\ At(t, id, d) \in 0..n-1
           /\ t[At(t, id, d)].id \notin Conn
           /\ \A e \in 0..d-1 : t[At(t, id, e)].id \in Conn
           /\ InsertRaw(t, id, s) = [t EXCEPT ![At(t, id, d)] = [id |-> id, slot |-> s]]
<1>1. PICK i \in 0..n-1 : t[i].id \notin Conn
  OBVIOUS
<1>2. n \in Nat /\ n # 0 /\ id \in 0..MaxConn
  BY <1>1, ConnFacts DEF IsTable
<1>3. /\ Cap(t) = n
      /\ \A e \in 0..n-1 : At(t, id, e) \in 0..n-1
      /\ \E e \in 0..n-1 : At(t, id, e) = i
  BY <1>1, <1>2, ProbeFacts
<1>4. \A j \in 0..n-1 : (t[j].id >= 0 <=> t[j].id \in Conn) /\ (t[j].id < 0 <=> t[j].id \notin Conn)
  BY OccupiedFacts
<1> DEFINE Stops == {e \in 0..n-1 : t[At(t, id, e)].id \notin Conn}
<1>5. Stops \in SUBSET Nat /\ Stops # {}
  BY <1>1, <1>2, <1>3
<1>6. PICK m \in Stops : \A k \in Stops : m <= k
  BY <1>5, LeastNat
<1>7. m \in 0..n-1 /\ t[At(t, id, m)].id \notin Conn
  BY <1>6
<1>8. ASSUME NEW e \in 0..m-1 PROVE t[At(t, id, e)].id \in Conn
  <2>1. e \in 0..n-1 /\ ~(m <= e)
    BY <1>7, <1>2
  <2>2. e \notin Stops
    BY <2>1, <1>6
  <2>3. QED
    BY <2>1, <2>2
<1> DEFINE Is(d) == t[At(t, id, d)].id < 0 /\ \A e \in 0..d-1 : t[At(t, id, e)].id >= 0
<1>9. Is(m)
  <2>1. \A e \in 0..m-1 : e \in 0..n-1
    BY <1>7, <1>2
  <2>2. QED
    BY <2>1, <1>3, <1>4, <1>7, <1>8
<1> DEFINE d == CHOOSE d \in 0..n-1 : Is(d)
<1>10. d \in 0..n-1 /\ Is(d)
  BY <1>7, <1>9
<1>11. InsertRaw(t, id, s) = [t EXCEPT ![At(t, id, d)] = [id |-> id, slot |-> s]]
  BY <1>3 DEF InsertRaw
<1> HIDE DEF d
<1>12. At(t, id, d) \in 0..n-1 /\ t[At(t, id, d)].id \notin Conn
  BY <1>10, <1>3, <1>4
<1>13. ASSUME NEW e \in 0..d-1 PROVE t[At(t, id, e)].id \in Conn
  <2>1. e \in 0..n-1
    BY <1>10, <1>2
  <2>2. QED
    BY <2>1, <1>3, <1>4, <1>10
<1>14. QED
  BY <1>10, <1>11, <1>12, <1>13

\* What an insertion leaves: the pairs that were there and the new one, one more entry that
\* is not empty at most, and no new tombstone.
LEMMA InsertSound ==
  ASSUME NEW n, NEW t, IsTable(t, n), Sound(t), NEW id \in Conn, NEW s \in Nat,
         \A q \in Pairs(t) : q[1] # id,
         \E i \in 0..n-1 : t[i].id \notin Conn,
         NEW u, u = InsertRaw(t, id, s)
  PROVE  /\ IsTable(u, n) /\ Sound(u)
         /\ Pairs(u) = Pairs(t) \cup {<<id, s>>}
         /\ Filled(t) = Occupied(t) => Filled(u) = Occupied(u)
         /\ Cardinality(Occupied(u)) = Cardinality(Occupied(t)) + 1
         /\ Cardinality(Filled(u)) <= Cardinality(Filled(t)) + 1
<1>1. PICK d \in 0..n-1 : /\ At(t, id, d) \in 0..n-1
                          /\ t[At(t, id, d)].id \notin Conn
                          /\ \A e \in 0..d-1 : t[At(t, id, e)].id \in Conn
                          /\ u = [t EXCEPT ![At(t, id, d)] = [id |-> id, slot |-> s]]
  BY InsertShape
<1> DEFINE p == At(t, id, d)
<1>2. p \in 0..n-1 /\ t[p].id \notin Conn /\ u = [t EXCEPT ![p] = [id |-> id, slot |-> s]]
  BY <1>1
<1>3. n \in Nat /\ n # 0 /\ DOMAIN t = 0..n-1 /\ t \in [0..n-1 -> Entry] /\ id \in 0..MaxConn
  BY <1>1, ConnFacts DEF IsTable
<1>4. /\ \A e \in 0..n-1 : At(t, id, e) \in 0..n-1
      /\ (p - Hash[id]) % n = d /\ Cap(t) = n
  BY <1>3, ProbeFacts
<1> HIDE DEF p
<1>5. [id |-> id, slot |-> s] \in Entry
  BY DEF Entry
<1>6. IsTable(u, n) /\ u[p] = [id |-> id, slot |-> s] /\ \A j \in 0..n-1 : j # p => u[j] = t[j]
  BY <1>2, <1>3, <1>5 DEF IsTable
<1>7. Cap(u) = n /\ DOMAIN u = 0..n-1
  BY <1>6, TableCap
<1>8. u[p].id = id /\ u[p].slot = s
  BY <1>6
<1>9. Occupied(u) = Occupied(t) \cup {p}
  <2>1. Occupied(t) = {k \in 0..n-1 : t[k].id \in Conn}
    BY OccupiedFacts
  <2>2. Occupied(u) = {k \in 0..n-1 : u[k].id \in Conn}
    BY <1>6, OccupiedFacts
  <2>3. QED
    BY <2>1, <2>2, <1>2, <1>6, <1>8
<1>10. Filled(u) = Filled(t) \cup {p}
  <2>1. id # Empty
    BY ConnFacts DEF Empty
  <2>2. Filled(t) = {k \in 0..n-1 : t[k].id # Empty} /\ Filled(u) = {k \in 0..n-1 : u[k].id # Empty}
    BY <1>3, <1>7 DEF Filled
  <2>3. QED
    BY <2>1, <2>2, <1>2, <1>6, <1>8
<1>11. p \notin Occupied(t) /\ Occupied(t) \subseteq 0..n-1
  BY <1>2, OccupiedFacts
<1>12. \A j \in Occupied(t) : t[j].id # id
  <2>1. ASSUME NEW j \in Occupied(t) PROVE t[j].id # id
    <3>1. <<t[j].id, t[j].slot>> \in Pairs(t)
      BY DEF Pairs
    <3>2. QED
      BY <3>1
  <2>2. QED
    BY <2>1
<1>13. Pairs(u) = Pairs(t) \cup {<<id, s>>}
  <2>1. \A j \in Occupied(t) : u[j] = t[j]
    BY <1>6, <1>11
  <2>2. QED
    BY <2>1, <1>8, <1>9 DEF Pairs
<1>14. \A i, j \in Occupied(u) : u[i].id = u[j].id => i = j
  <2>1. \A i, j \in Occupied(t) : t[i].id = t[j].id => i = j
    BY DEF Sound
  <2>2. QED
    BY <2>1, <1>6, <1>8, <1>9, <1>11, <1>12
<1>15. ASSUME NEW i \in Occupied(u), NEW e \in 0..Distance(u, i)-1 PROVE u[At(u, u[i].id, e)].id # Empty
  <2>1. \A x, y : At(u, x, y) = At(t, x, y)
    BY <1>4, <1>7 DEF At
  <2>2. \A j \in 0..n-1 : t[j].id # Empty => u[j].id # Empty
    <3>1. id # Empty
      BY ConnFacts DEF Empty
    <3>2. QED
      BY <3>1, <1>6, <1>8
  <2>3. CASE i = p
    <3>1. Distance(u, i) = d
      BY <2>3, <1>4, <1>7, <1>8 DEF Distance
    <3>2. e \in 0..d-1 /\ e \in 0..n-1
      BY <3>1, <1>3
    <3>3. t[At(t, id, e)].id \in Conn /\ At(t, id, e) \in 0..n-1
      BY <3>2, <1>1, <1>4
    <3>4. Empty \notin Conn
      BY ConnFacts DEF Empty
    <3>5. QED
      BY <3>3, <3>4, <2>1, <2>2, <2>3, <1>8
  <2>4. CASE i # p
    <3>1. i \in Occupied(t) /\ u[i] = t[i] /\ i \in 0..n-1
      BY <2>4, <1>6, <1>9, <1>11
    <3>2. Distance(u, i) = Distance(t, i)
      BY <3>1, <1>4, <1>7 DEF Distance
    <3>3. t[At(t, t[i].id, e)].id # Empty
      BY <3>1, <3>2 DEF Sound
    <3>4. t[i].id \in 0..MaxConn
      BY <3>1, ConnFacts, OccupiedFacts
    <3>5. Distance(t, i) \in 0..n-1
      BY <3>1, <3>4, <1>3, ProbeFacts DEF Distance
    <3>6. e \in 0..n-1
      BY <3>2, <3>5, <1>3
    <3>7. At(t, t[i].id, e) \in 0..n-1
      BY <3>4, <3>6, <1>3, ProbeFacts
    <3>8. QED
      BY <3>1, <3>3, <3>7, <2>1, <2>2
  <2>5. QED
    BY <2>3, <2>4
<1>16. Sound(u)
  BY <1>14, <1>15 DEF Sound
<1>17. /\ IsFiniteSet(Occupied(t)) /\ IsFiniteSet(Filled(t))
       /\ Cardinality(Occupied(t)) \in Nat /\ Cardinality(Filled(t)) \in Nat
  BY FilledFinite
<1>18. Cardinality(Occupied(u)) = Cardinality(Occupied(t)) + 1
  BY <1>9, <1>11, <1>17, FS_AddElement
<1>19. Cardinality(Filled(u)) <= Cardinality(Filled(t)) + 1
  <2>1. Cardinality(Filled(t) \cup {p}) = IF p \in Filled(t) THEN Cardinality(Filled(t))
                                          ELSE Cardinality(Filled(t)) + 1
    BY <1>17, FS_AddElement
  <2>2. QED
    BY <2>1, <1>10, <1>17
<1>20. QED
  BY <1>6, <1>9, <1>10, <1>13, <1>16, <1>18, <1>19

(***************************************************************************)
(* Growth.                                                                 *)
(***************************************************************************)

\* Induction up to n, for a set.
LEMMA InductionTo ==
  ASSUME NEW n \in Nat, NEW S, 0 \in S, \A k \in 0..n-1 : k \in S => k + 1 \in S
  PROVE  0..n \subseteq S
<1> DEFINE Bad == {k \in 0..n : k \notin S}
<1>1. SUFFICES ASSUME Bad # {} PROVE FALSE
  OBVIOUS
<1>2. Bad \in SUBSET Nat
  OBVIOUS
<1>3. PICK m \in Bad : \A k \in Bad : m <= k
  BY <1>1, <1>2, LeastNat
<1>4. m \in 0..n /\ m \notin S /\ m # 0
  BY <1>3
<1>5. m - 1 \in 0..n-1 /\ ~(m <= m - 1)
  BY <1>4
<1>6. m - 1 \in S
  BY <1>3, <1>5
<1>7. (m - 1) + 1 \in S
  BY <1>5, <1>6
<1>8. QED
  BY <1>4, <1>7

NewSize(t) == IF Cap(t) = 0 THEN IndexSize ELSE 2 * Cap(t)

\* One step of the rebuild: entry i - 1 of t goes into the table built so far.
Rebuilt(t, f, i) ==
  IF i = 0 THEN EmptyTable(NewSize(t))
  ELSE IF t[i-1].id >= 0 THEN InsertRaw(f[i-1], t[i-1].id, t[i-1].slot)
  ELSE f[i-1]

LEMMA RebuildDefined ==
  ASSUME NEW n \in Nat, NEW t, Cap(t) = n
  PROVE  \E f : /\ \A i \in 0..n : f[i] = Rebuilt(t, f, i)
                /\ Grown(t) = f[n]
<1> DEFINE Upto(k) == \E f : f = [i \in 0..k |-> Rebuilt(t, f, i)]
<1> DEFINE S == {k \in 0..n : Upto(k)}
<1>1. Upto(0)
  <2> DEFINE f == [i \in 0..0 |-> EmptyTable(NewSize(t))]
  <2>1. \A i \in 0..0 : Rebuilt(t, f, i) = EmptyTable(NewSize(t))
    BY DEF Rebuilt
  <2>2. f = [i \in 0..0 |-> Rebuilt(t, f, i)]
    BY <2>1
  <2>3. QED
    BY <2>2
<1>2. ASSUME NEW k \in 0..n-1, Upto(k) PROVE Upto(k + 1)
  <2>1. PICK f : f = [i \in 0..k |-> Rebuilt(t, f, i)]
    BY <1>2
  <2> DEFINE g == [i \in 0..k+1 |-> Rebuilt(t, f, i)]
  <2>2. \A i \in 0..k : g[i] = f[i]
    BY <2>1
  <2>3. ASSUME NEW i \in 0..k+1 PROVE Rebuilt(t, g, i) = Rebuilt(t, f, i)
    <3>1. i # 0 => i - 1 \in 0..k
      OBVIOUS
    <3>2. i # 0 => g[i-1] = f[i-1]
      BY <3>1, <2>2
    <3> HIDE DEF g
    <3>3. QED
      BY <3>2 DEF Rebuilt
  <2>4. g = [i \in 0..k+1 |-> Rebuilt(t, g, i)]
    BY <2>3
  <2>5. QED
    BY <2>4
<1> HIDE DEF Upto
<1>3. 0 \in S /\ \A k \in 0..n-1 : k \in S => k + 1 \in S
  BY <1>1, <1>2
<1> HIDE DEF S
<1>4. n \in S
  BY <1>3, InductionTo
<1>5. Upto(n)
  BY <1>4 DEF S
<1> DEFINE F == CHOOSE f : f = [i \in 0..n |-> Rebuilt(t, f, i)]
<1>6. F = [i \in 0..n |-> Rebuilt(t, F, i)]
  BY <1>5 DEF Upto
<1>7. Grown(t) = F[n]
  BY DEF Grown, Rebuilt, NewSize
<1> HIDE DEF F
<1>8. \A i \in 0..n : F[i] = Rebuilt(t, F, i)
  BY <1>6
<1>9. QED
  BY <1>7, <1>8

\* A table with fewer connections than entries has room for one more.
LEMMA RoomLeft ==
  ASSUME NEW n, NEW t, IsTable(t, n), NEW F, Occupied(t) \subseteq F, F \subseteq 0..n-1,
         Cardinality(F) < n
  PROVE  \E i \in 0..n-1 : i \notin F /\ t[i].id \notin Conn
<1>1. n \in Nat
  BY DEF IsTable
<1>2. Cardinality(0..n-1) = n
  BY <1>1, IntervalCount
<1>3. F # 0..n-1
  BY <1>1, <1>2
<1>4. PICK i \in 0..n-1 : i \notin F
  BY <1>3
<1>5. t[i].id \notin Conn
  BY <1>4, OccupiedFacts
<1>6. QED
  BY <1>4, <1>5

LEMMA EmptyTableFacts ==
  ASSUME NEW n \in Nat
  PROVE  /\ IsTable(EmptyTable(n), n) /\ Sound(EmptyTable(n)) /\ Pairs(EmptyTable(n)) = {}
         /\ Filled(EmptyTable(n)) = {} /\ Occupied(EmptyTable(n)) = {}
<1> DEFINE t == EmptyTable(n)
<1>1. t = [i \in 0..n-1 |-> [id |-> Empty, slot |-> 0]]
  BY DEF EmptyTable
<1>2. [id |-> Empty, slot |-> 0] \in Entry
  BY DEF Entry
<1>3. IsTable(t, n)
  BY <1>1, <1>2 DEF IsTable
<1>4. \A i \in DOMAIN t : t[i].id = Empty
  BY <1>1
<1> HIDE DEF t
<1>5. Filled(t) = {}
  BY <1>4 DEF Filled
<1>6. Occupied(t) = {}
  BY <1>3, <1>5, OccupiedFacts
<1>7. Sound(t) /\ Pairs(t) = {}
  BY <1>6 DEF Sound, Pairs
<1>8. QED
  BY <1>3, <1>5, <1>6, <1>7 DEF t

\* A rebuild keeps the pairs, leaves no tombstone and has room for one more.
LEMMA GrownSound ==
  ASSUME NEW n, NEW t, IsTable(t, n), Sound(t)
  PROVE  /\ IsTable(Grown(t), NewSize(t)) /\ Sound(Grown(t)) /\ Pairs(Grown(t)) = Pairs(t)
         /\ Filled(Grown(t)) = Occupied(Grown(t))
         /\ Cardinality(Occupied(Grown(t))) = Cardinality(Occupied(t))
<1> DEFINE size == NewSize(t)
<1> DEFINE Below(i) == {j \in Occupied(t) : j < i}
<1> DEFINE PairsBelow(i) == {<<t[j].id, t[j].slot>> : j \in Below(i)}
<1>1. /\ n \in Nat /\ Cap(t) = n /\ DOMAIN t = 0..n-1 /\ t \in [0..n-1 -> Entry]
      /\ IndexSize \in Nat /\ IndexSize >= 2
  <2>1. IndexSize \in Nat /\ IndexSize # 0 /\ IndexSize # 1
    BY ConnAssumption
  <2>2. IndexSize >= 2
    BY <2>1
  <2>3. n \in Nat /\ t \in [0..n-1 -> Entry]
    BY DEF IsTable
  <2>4. QED
    BY <2>1, <2>2, <2>3, TableCap
<1>2. size \in Nat /\ size > n
  BY <1>1 DEF NewSize
<1>3. PICK f : (\A i \in 0..n : f[i] = Rebuilt(t, f, i)) /\ Grown(t) = f[n]
  BY <1>1, RebuildDefined
<1>4. f[0] = EmptyTable(size)
  BY <1>1, <1>3 DEF Rebuilt
<1>5. \A i \in 1..n : f[i] = IF t[i-1].id >= 0 THEN InsertRaw(f[i-1], t[i-1].id, t[i-1].slot) ELSE f[i-1]
  BY <1>1, <1>3 DEF Rebuilt
<1> DEFINE Good(i) == /\ IsTable(f[i], size) /\ Sound(f[i])
                      /\ Filled(f[i]) = Occupied(f[i])
                      /\ Pairs(f[i]) = PairsBelow(i)
                      /\ IsFiniteSet(Occupied(f[i]))
                      /\ Cardinality(Occupied(f[i])) = Cardinality(Below(i))
<1> HIDE DEF size
<1>6. Occupied(t) = {i \in 0..n-1 : t[i].id \in Conn} /\ \A i \in 0..n-1 : t[i].id >= 0 <=> t[i].id \in Conn
  BY OccupiedFacts
<1>7. \A i \in 0..n : IsFiniteSet(Below(i)) /\ Cardinality(Below(i)) <= i /\ Cardinality(Below(i)) \in Nat
  <2> SUFFICES ASSUME NEW i \in 0..n
               PROVE IsFiniteSet(Below(i)) /\ Cardinality(Below(i)) <= i /\ Cardinality(Below(i)) \in Nat
    OBVIOUS
  <2>1. Below(i) \in SUBSET (0..i-1)
    BY <1>6, <1>1
  <2>2. IsFiniteSet(0..i-1) /\ Cardinality(0..i-1) = i
    BY <1>1, IntervalCount
  <2> HIDE DEF Below
  <2>3. QED
    BY <2>1, <2>2, FS_Subset, FS_CardinalityType
<1>8. Good(0)
  <2>1. Below(0) = {}
    BY <1>6, <1>1
  <2>2. Cardinality({}) = 0 /\ IsFiniteSet({})
    BY FS_EmptySet
  <2>3. QED
    BY <2>1, <2>2, <1>2, <1>4, EmptyTableFacts
<1>9. ASSUME NEW k \in 0..n-1, Good(k) PROVE Good(k + 1)
  <2>1. k + 1 \in 1..n /\ (k + 1) - 1 = k /\ k \in 0..n /\ k + 1 \in 0..n
    BY <1>1
  <2>2. CASE t[k].id \notin Conn
    <3>1. f[k+1] = f[k]
      BY <1>5, <1>6, <2>1, <2>2
    <3>2. Below(k+1) = Below(k)
      BY <1>6, <2>2, <1>1
    <3>3. QED
      BY <3>1, <3>2, <1>9
  <2>3. CASE t[k].id \in Conn
    <3>1. f[k+1] = InsertRaw(f[k], t[k].id, t[k].slot)
      BY <1>5, <1>6, <2>1, <2>3
    <3>2. k \in Occupied(t) /\ k \notin Below(k) /\ Below(k+1) = Below(k) \cup {k}
      BY <1>6, <2>3, <1>1
    <3>3. t[k].slot \in Nat
      BY <1>1 DEF Entry
    <3>4. ASSUME NEW q \in Pairs(f[k]) PROVE q[1] # t[k].id
      <4>1. PICK j \in Below(k) : q = <<t[j].id, t[j].slot>>
        BY <1>9
      <4>2. j \in Occupied(t) /\ j # k /\ q[1] = t[j].id
        BY <4>1, <3>2
      <4>3. QED
        BY <4>2, <3>2 DEF Sound
    <3>5. \E i \in 0..size-1 : f[k][i].id \notin Conn
      <4>1. Cardinality(Occupied(f[k])) <= k
        BY <1>7, <1>9, <2>1
      <4>2. Cardinality(Occupied(f[k])) \in Nat
        BY <1>7, <1>9, <2>1
      <4>3. Cardinality(Occupied(f[k])) < size
        BY <4>1, <4>2, <1>1, <1>2
      <4>4. Occupied(f[k]) \subseteq 0..size-1
        BY <1>9, OccupiedFacts
      <4>5. QED
        BY <4>3, <4>4, <1>9, RoomLeft
    <3>6. /\ IsTable(f[k+1], size) /\ Sound(f[k+1])
          /\ Pairs(f[k+1]) = Pairs(f[k]) \cup {<<t[k].id, t[k].slot>>}
          /\ Filled(f[k+1]) = Occupied(f[k+1])
          /\ Cardinality(Occupied(f[k+1])) = Cardinality(Occupied(f[k])) + 1
      <4>1. IsTable(f[k], size) /\ Sound(f[k]) /\ Filled(f[k]) = Occupied(f[k])
        BY <1>9
      <4> HIDE DEF Below, PairsBelow, Good
      <4>2. QED
        BY <4>1, <2>3, <3>1, <3>3, <3>4, <3>5, InsertSound
    <3>7. PairsBelow(k+1) = PairsBelow(k) \cup {<<t[k].id, t[k].slot>>}
      BY <3>2
    <3>11. Cardinality(Below(k+1)) = Cardinality(Below(k)) + 1
      <4>1. IsFiniteSet(Below(k))
        BY <1>7, <2>1
      <4> HIDE DEF Below
      <4>2. QED
        BY <4>1, <3>2, FS_AddElement
    <3> HIDE DEF Below, PairsBelow
    <3>12. QED
      BY <1>9, <3>6, <3>7, <3>11, FilledFinite
  <2>4. QED
    BY <2>2, <2>3
<1> DEFINE S == {i \in 0..n : Good(i)}
<1> HIDE DEF Good
<1>10. 0 \in S /\ \A k \in 0..n-1 : k \in S => k + 1 \in S
  BY <1>1, <1>8, <1>9
<1> HIDE DEF S
<1>11. n \in S
  BY <1>1, <1>10, InductionTo
<1>12. Good(n)
  BY <1>11 DEF S
<1>13. Below(n) = Occupied(t)
  BY <1>1, <1>6
<1>14. PairsBelow(n) = Pairs(t)
  BY <1>13 DEF Pairs
<1>15. QED
  BY <1>3, <1>12, <1>13, <1>14 DEF Good, size

(***************************************************************************)
(* What the operations on a context's index do to it.                      *)
(***************************************************************************)

\* g_conn_index_used counts at least the entries that are not empty, and the load stays
\* below three quarters, or there is no table yet.
Loaded(t, m) ==
  /\ m \in Nat /\ Cardinality(Filled(t)) <= m
  /\ IF Cap(t) = 0 THEN m = 0 ELSE Cap(t) >= 2 /\ 4 * m < 3 * Cap(t)

Index(t, m) == (\E n \in Nat : IsTable(t, n)) /\ Sound(t) /\ Loaded(t, m)

\* There is an empty entry to end every probe.
LEMMA EmptyLeft ==
  ASSUME NEW t, NEW m, Index(t, m), Cap(t) > 0
  PROVE  \E i \in DOMAIN t : t[i].id = Empty
<1>1. PICK n \in Nat : IsTable(t, n)
  BY DEF Index
<1>2. Cap(t) = n /\ DOMAIN t = 0..n-1
  BY <1>1, TableCap
<1>3. Cardinality(Filled(t)) \in Nat
  BY <1>1, FilledFinite
<1>4. Cardinality(Filled(t)) < n
  BY <1>2, <1>3 DEF Index, Loaded
<1>5. Occupied(t) \subseteq Filled(t) /\ Filled(t) \subseteq 0..n-1
  BY <1>1, OccupiedFacts
<1>6. PICK i \in 0..n-1 : i \notin Filled(t)
  BY <1>1, <1>4, <1>5, RoomLeft
<1>7. QED
  BY <1>2, <1>6 DEF Filled

LEMMA EmptyIndex == Index(EmptyTable(0), 0) /\ Pairs(EmptyTable(0)) = {}
<1>1. IsTable(EmptyTable(0), 0) /\ Sound(EmptyTable(0)) /\ Pairs(EmptyTable(0)) = {} /\ Filled(EmptyTable(0)) = {}
  BY EmptyTableFacts
<1>2. Cap(EmptyTable(0)) = 0
  BY <1>1, TableCap
<1>3. Cardinality({}) = 0
  BY FS_EmptySet
<1>4. QED
  BY <1>1, <1>2, <1>3 DEF Index, Loaded

\* festina_conn_index_get finds the slot of every id the index holds, past collisions and
\* tombstones, and none for any other id.
THEOREM IndexGetExact ==
  ASSUME NEW t, NEW m, Index(t, m), NEW id \in 0..MaxConn
  PROVE  /\ \A s : <<id, s>> \in Pairs(t) => IndexGet(t, id) = s
         /\ (\A q \in Pairs(t) : q[1] # id) => IndexGet(t, id) = 0
BY IndexGetFinds DEF Index

\* festina_conn_index_remove takes the id's pair out and changes nothing else.
THEOREM IndexRemoveExact ==
  ASSUME NEW t, NEW m, Index(t, m), NEW id \in 0..MaxConn, NEW u, u = IndexRemove(t, id)
  PROVE  Index(u, m) /\ Pairs(u) = {q \in Pairs(t) : q[1] # id}
<1>1. PICK n \in Nat : IsTable(t, n)
  BY DEF Index
<1>2. Sound(t) /\ DOMAIN t = 0..n-1 /\ t \in [0..n-1 -> Entry] /\ Cap(t) = n
  BY <1>1, TableCap DEF Index, IsTable
<1>6. \A i \in 0..n-1 : /\ IsTable(Buried(t, i), n) /\ Buried(t, i)[i].id = Tombstone
                       /\ \A j \in 0..n-1 : j # i => Buried(t, i)[j] = t[j]
  BY <1>1, BuriedFacts
<1>3. CASE \A q \in Pairs(t) : q[1] # id
  <2>1. Hits(t, id) = {}
    BY <1>1, <1>3, ProbeMisses
  <2>2. u = t
    BY <1>2, <2>1 DEF IndexRemove
  <2>3. QED
    BY <2>2, <1>3
<1>4. CASE \E q \in Pairs(t) : q[1] = id
  <2>1. PICK i \in Occupied(t) : t[i].id = id
    BY <1>4 DEF Pairs
  <2>2. Hits(t, id) = {i}
    BY <2>1, <1>1, <1>2, ProbeFinds
  <2>3. i \in 0..n-1 /\ i \in Filled(t) /\ Occupied(t) \subseteq 0..n-1
    BY <2>1, <1>1, OccupiedFacts
  <2>4. u = Buried(t, i)
    BY <2>2 DEF IndexRemove, Buried
  <2>17. IsTable(u, n) /\ u[i].id = Tombstone /\ \A j \in 0..n-1 : j # i => u[j] = t[j]
    BY <2>3, <2>4, <1>6
  <2>5. /\ IsTable(u, n) /\ Sound(u) /\ Occupied(u) = Occupied(t) \ {i}
        /\ Filled(u) \subseteq Filled(t) \cup {i}
        /\ \A j \in Occupied(u) : u[j] = t[j]
    BY <1>1, <1>2, <2>3, <2>17, RemoveHit
  <2>6. Filled(u) \subseteq Filled(t)
    BY <2>3, <2>5
  <2>7. Cardinality(Filled(u)) <= Cardinality(Filled(t)) /\ Cardinality(Filled(u)) \in Nat
    BY <2>6, <2>5, <1>1, FilledFinite, FS_Subset
  <2>8. Cardinality(Filled(t)) \in Nat
    BY <1>1, FilledFinite
  <2>9. Cap(u) = n
    BY <2>5, TableCap
  <2>10. Loaded(u, m)
    BY <2>7, <2>8, <2>9, <1>2 DEF Index, Loaded
  <2>11. \A j \in Occupied(t) : t[j].id = id => j = i
    BY <2>1, <1>2 DEF Sound
  <2>12. Pairs(u) = {<<t[j].id, t[j].slot>> : j \in Occupied(t) \ {i}}
    BY <2>5 DEF Pairs
  <2>13. ASSUME NEW q \in Pairs(u) PROVE q \in Pairs(t) /\ q[1] # id
    <3>1. PICK j \in Occupied(t) \ {i} : q = <<t[j].id, t[j].slot>>
      BY <2>12
    <3>2. QED
      BY <3>1, <2>11 DEF Pairs
  <2>14. ASSUME NEW q \in Pairs(t), q[1] # id PROVE q \in Pairs(u)
    <3>1. PICK j \in Occupied(t) : q = <<t[j].id, t[j].slot>>
      BY DEF Pairs
    <3>2. j # i
      BY <3>1, <2>14, <2>1
    <3>3. QED
      BY <3>1, <3>2, <2>12
  <2>15. Pairs(u) = {q \in Pairs(t) : q[1] # id}
    BY <2>13, <2>14
  <2>16. QED
    BY <1>1, <2>5, <2>10, <2>15 DEF Index
<1>5. QED
  BY <1>3, <1>4

\* festina_conn_index_put adds the pair, growing first where it must.
THEOREM IndexPutExact ==
  ASSUME NEW t, NEW m, Index(t, m), NEW id \in Conn, NEW s \in Nat, \A q \in Pairs(t) : q[1] # id,
         NEW table, table = IF MustGrow(t, m) THEN Grown(t) ELSE t,
         NEW count, count = IF MustGrow(t, m) THEN Cardinality(Occupied(table)) ELSE m,
         NEW u, u = InsertRaw(table, id, s)
  PROVE  Index(u, count + 1) /\ Pairs(u) = Pairs(t) \cup {<<id, s>>}
<1>1. PICK n \in Nat : IsTable(t, n)
  BY DEF Index
<1>2. Sound(t) /\ Cap(t) = n /\ Loaded(t, m)
  BY <1>1, TableCap DEF Index
<1>3. /\ Cardinality(Occupied(t)) \in Nat /\ Cardinality(Filled(t)) \in Nat
      /\ Cardinality(Occupied(t)) <= Cardinality(Filled(t)) /\ Cardinality(Filled(t)) <= m /\ m \in Nat
  BY <1>1, <1>2, FilledFinite DEF Loaded
<1>4. \E k \in Nat : /\ IsTable(table, k) /\ k >= 2 /\ 4 * (count + 1) < 3 * k
                     /\ count \in Nat /\ Cardinality(Filled(table)) <= count
                     /\ Sound(table) /\ Pairs(table) = Pairs(t)
  <2>1. CASE MustGrow(t, m)
    <3>1. table = Grown(t) /\ count = Cardinality(Occupied(table))
      BY <2>1
    <3>2. /\ IsTable(table, NewSize(t)) /\ Sound(table) /\ Pairs(table) = Pairs(t)
          /\ Filled(table) = Occupied(table) /\ Cardinality(Occupied(table)) = Cardinality(Occupied(t))
      BY <3>1, <1>1, <1>2, GrownSound
    <3>3. count \in Nat /\ count <= m /\ Cardinality(Filled(table)) <= count
      BY <3>1, <3>2, <1>3
    <3>4. NewSize(t) \in Nat /\ NewSize(t) >= 2 /\ 4 * (count + 1) < 3 * NewSize(t)
      <4>1. CASE n = 0
        <5>1. m = 0 /\ count = 0
          BY <4>1, <1>2, <3>3 DEF Loaded
        <5>2. NewSize(t) = IndexSize /\ IndexSize \in Nat /\ IndexSize # 0 /\ IndexSize # 1
          BY <4>1, <1>2, ConnAssumption DEF NewSize
        <5>3. QED
          BY <5>1, <5>2
      <4>2. CASE n # 0
        <5>1. n >= 2 /\ 4 * m < 3 * n /\ NewSize(t) = 2 * n
          BY <4>2, <1>2 DEF Loaded, NewSize
        <5>2. QED
          BY <5>1, <3>3, <1>3
      <4>3. QED
        BY <4>1, <4>2
    <3>5. QED
      BY <3>2, <3>3, <3>4
  <2>2. CASE ~ MustGrow(t, m)
    <3>1. table = t /\ count = m
      BY <2>2
    <3>2. n # 0 /\ ~((m + 1) * 4 >= n * 3)
      BY <2>2, <1>2 DEF MustGrow
    <3>3. n >= 2 /\ 4 * (m + 1) < 3 * n
      BY <3>2, <1>2, <1>3 DEF Loaded
    <3>4. QED
      BY <3>1, <3>3, <1>1, <1>2, <1>3
  <2>3. QED
    BY <2>1, <2>2
<1>5. PICK k \in Nat : /\ IsTable(table, k) /\ k >= 2 /\ 4 * (count + 1) < 3 * k
                       /\ count \in Nat /\ Cardinality(Filled(table)) <= count
                       /\ Sound(table) /\ Pairs(table) = Pairs(t)
  BY <1>4
<1>6. Cardinality(Filled(table)) \in Nat
  BY <1>5, FilledFinite
<1>7. \E i \in 0..k-1 : table[i].id \notin Conn
  <2>1. Cardinality(Filled(table)) < k
    BY <1>5, <1>6
  <2>2. Occupied(table) \subseteq Filled(table) /\ Filled(table) \subseteq 0..k-1
    BY <1>5, OccupiedFacts
  <2>3. QED
    BY <2>1, <2>2, <1>5, RoomLeft
<1>8. \A q \in Pairs(table) : q[1] # id
  BY <1>5
<1>9. /\ IsTable(u, k) /\ Sound(u)
      /\ Pairs(u) = Pairs(table) \cup {<<id, s>>}
      /\ Cardinality(Filled(u)) <= Cardinality(Filled(table)) + 1
  BY <1>5, <1>7, <1>8, InsertSound
<1>10. Cap(u) = k /\ Cardinality(Filled(u)) \in Nat
  BY <1>9, TableCap, FilledFinite
<1>11. Loaded(u, count + 1)
  BY <1>5, <1>6, <1>9, <1>10 DEF Loaded
<1>12. QED
  BY <1>5, <1>9, <1>11 DEF Index

LEMMA AppendInjectiveSeq ==
  ASSUME NEW S, NEW fr \in Seq(S), NEW s \in S, IsInjective(fr), s \notin ToSet(fr)
  PROVE  Append(fr, s) \in Seq(S) /\ IsInjective(Append(fr, s)) /\ ToSet(Append(fr, s)) = ToSet(fr) \cup {s}
<1> DEFINE g == Append(fr, s)
<1>1. /\ g \in Seq(S) /\ DOMAIN g = 1..Len(fr)+1 /\ DOMAIN fr = 1..Len(fr) /\ Len(fr) \in Nat
      /\ \A i \in 1..Len(fr) : g[i] = fr[i] /\ g[i] \in ToSet(fr)
      /\ g[Len(fr)+1] = s
  <2>1. DOMAIN fr = 1..Len(fr) /\ Len(fr) \in Nat
    BY LenProperties
  <2>2. g \in Seq(S) /\ Len(g) = Len(fr) + 1 /\ g[Len(fr)+1] = s /\ \A i \in 1..Len(fr) : g[i] = fr[i]
    BY AppendProperties
  <2>3. DOMAIN g = 1..Len(fr)+1
    BY <2>2, LenProperties
  <2>4. \A i \in 1..Len(fr) : fr[i] \in ToSet(fr)
    BY <2>1 DEF ToSet
  <2>5. QED
    BY <2>1, <2>2, <2>3, <2>4
<1> HIDE DEF g
<1>2. ToSet(g) = ToSet(fr) \cup {s}
  BY <1>1 DEF ToSet
<1>3. ASSUME NEW i \in DOMAIN g, NEW j \in DOMAIN g, g[i] = g[j] PROVE i = j
  <2>1. CASE i = Len(fr) + 1
    BY <2>1, <1>1, <1>3
  <2>2. CASE j = Len(fr) + 1
    BY <2>2, <1>1, <1>3
  <2>3. CASE i # Len(fr) + 1 /\ j # Len(fr) + 1
    <3>1. i \in DOMAIN fr /\ j \in DOMAIN fr /\ fr[i] = fr[j]
      BY <2>3, <1>1, <1>3
    <3>2. QED
      BY <3>1 DEF IsInjective
  <2>4. QED
    BY <2>1, <2>2, <2>3
<1>4. IsInjective(g)
  BY <1>3 DEF IsInjective
<1>5. QED
  BY <1>1, <1>2, <1>4 DEF g
(***************************************************************************)
(* The inductive invariant.                                                *)
(***************************************************************************)

\* The live slots of a table, with the conn_ids they hold.
Alive(sl) == {s \in DOMAIN sl : sl[s].alive}
Held(sl)  == {<<sl[s].id, s>> : s \in Alive(sl)}
IdsOf(sl) == {sl[s].id : s \in Alive(sl)}

\* One context's table: the index names the live slots, the free list the others.
Table(sl, fr, ix, us) ==
  /\ sl \in Seq(Record) /\ fr \in Seq(Nat)
  /\ Index(ix, us) /\ Pairs(ix) = Held(sl)
  /\ IsInjective(fr) /\ ToSet(fr) = DOMAIN sl \ Alive(sl)
  /\ \A s \in DOMAIN sl : sl[s].upgraded => sl[s].alive /\ sl[s].mode = "ws"

Frame == [at : UserCode \cup {"reading", "framing", "join"},
          slot : Nat, id : 0..MaxConn, req : 0..MaxReq, thread : Ctx]

ClosingFrames(st) == {i \in DOMAIN st : st[i].at = "closing"}
Closing(st) == {st[i].id : i \in ClosingFrames(st)}
Requesting(st) == {st[i].id : i \in {i \in DOMAIN st : st[i].at = "request"}}

\* One context's stack of calls, over its table: the pointers its frames hold.
Stack(st, sl) ==
  /\ st \in Seq(Frame)
  /\ \A i \in DOMAIN st : st[i].at \in {"reading", "framing"} => i = 1 /\ st[i].slot \in DOMAIN sl
  /\ \A i \in ClosingFrames(st) :
       /\ st[i].slot \in Alive(sl) /\ sl[st[i].slot].id = st[i].id /\ sl[st[i].slot].upgraded
       /\ \A j \in ClosingFrames(st) : st[i].id = st[j].id => i = j
  /\ \A s \in Alive(sl) : sl[s].mode = "ws" /\ ~ sl[s].upgraded => sl[s].id \in Requesting(st)

Parcel == [conn : Record, req : 0..MaxReq]
Thrown == [id : Conn, req : 0..MaxReq]

Domains == DOMAIN slots = Ctx /\ DOMAIN free = Ctx /\ DOMAIN index = Ctx /\ DOMAIN used = Ctx

\* The types of what the handlers read.
Types ==
  /\ nextId \in 1..MaxConn+1 /\ pc \in [Ctx -> Pc] /\ pc[Main] # "dead"
  /\ ready \in [Ctx -> Seq(Conn)]
  /\ inbox \in [Worker -> Seq(Parcel)] /\ lost \subseteq Thrown
  /\ wire \in [Conn -> Seq(Item)] /\ eof \in [Conn -> BOOLEAN]
  /\ phase \in [Conn -> {"request", "body", "quiet"}] /\ nextReq \in 1..MaxReq+1
  /\ asked \in [Conn -> Seq(Item)] /\ \A id \in Conn : phase[id] = "body" => asked[id] # << >>
  /\ shut \in [Conn -> Nat] /\ closeEvents \in [Conn -> Nat] /\ switched \subseteq Conn
  /\ Domains /\ DOMAIN calls = Ctx

Tabled(c) == Table(slots[c], free[c], index[c], used[c])
Contexts  == \A c \in Ctx : Tabled(c) /\ Stack(calls[c], slots[c])

\* Where a connection is: in a table, in a queue, thrown away, closed.
InTable(id, c) == id \in IdsOf(slots[c])
InQueue(id, w) == id \in QueuedConns(w)
IsLost(id) == \E l \in lost : l.id = id
IsShut(id) == shut[id] > 0

OwnedOnce(id) ==
  /\ id < nextId <=> \/ \E c \in Ctx : InTable(id, c)
                     \/ \E w \in Worker : InQueue(id, w)
                     \/ IsLost(id) \/ IsShut(id)
  /\ \A c, d \in Ctx : InTable(id, c) /\ InTable(id, d) => c = d
  /\ \A w, v \in Worker : InQueue(id, w) /\ InQueue(id, v) => w = v
  /\ \A c \in Ctx, w \in Worker : ~ (InTable(id, c) /\ InQueue(id, w))
  /\ \A c \in Ctx : InTable(id, c) => ~ IsLost(id) /\ ~ IsShut(id)
  /\ \A w \in Worker : InQueue(id, w) => ~ IsLost(id) /\ ~ IsShut(id)
  /\ ~ (IsLost(id) /\ IsShut(id))

\* Every accepted connection has one place, and is there once.
Owners ==
  /\ \A id \in Conn : OwnedOnce(id) /\ shut[id] <= 1
  /\ \A w \in Worker : \A i, j \in DOMAIN inbox[w] : inbox[w][i].conn.id = inbox[w][j].conn.id => i = j
  /\ \A l, m \in lost : l.id = m.id => l = m

\* A connection in a queue is one that has not been upgraded.
Queued ==
  \A w \in Worker : \A i \in DOMAIN inbox[w] :
    LET conn == inbox[w][i].conn
    IN conn.id \in Conn \ switched /\ conn.alive /\ conn.mode = "http" /\ ~ conn.upgraded

\* What the close handlers have run for.
Closed ==
  /\ \A c \in Ctx : \A s \in Alive(slots[c]) : slots[c][s].mode = "ws" <=> slots[c][s].id \in switched
  /\ \A id \in Conn : id >= nextId => id \notin switched
  /\ \A id \in Conn : closeEvents[id] = IF \/ \E c \in Ctx : id \in Closing(calls[c])
                                           \/ shut[id] > 0 /\ id \in switched
                                        THEN 1 ELSE 0

Core == Contexts /\ Owners /\ Queued /\ Closed
IInv == Types /\ Core

(***************************************************************************)
(* A context's table.                                                      *)
(***************************************************************************)

LEMMA SeqFacts ==
  ASSUME NEW S, NEW seq \in Seq(S)
  PROVE  /\ Len(seq) \in Nat /\ DOMAIN seq = 1..Len(seq) /\ \A i \in 1..Len(seq) : seq[i] \in S
BY LenProperties

LEMMA RecordFacts ==
  ASSUME NEW conn \in Record
  PROVE  /\ conn.id \in 0..MaxConn /\ conn.alive \in BOOLEAN /\ conn.mode \in {"http", "ws"}
         /\ conn.upgraded \in BOOLEAN /\ conn.responded \in BOOLEAN /\ conn.buf \in Seq(Item)
BY DEF Record

\* A live slot's conn_id is in the index, with that slot only.
LEMMA TableFacts ==
  ASSUME NEW sl, NEW fr, NEW ix, NEW us, Table(sl, fr, ix, us)
  PROVE  /\ \A s \in Alive(sl) : s \in Nat \ {0} /\ s \in DOMAIN sl /\ sl[s] \in Record /\ sl[s].id \in Conn
         /\ \A r, s \in Alive(sl) : sl[r].id = sl[s].id => r = s
         /\ DOMAIN sl = 1..Len(sl) /\ Len(sl) \in Nat /\ \A s \in DOMAIN sl : sl[s] \in Record
<1>1. DOMAIN sl = 1..Len(sl) /\ Len(sl) \in Nat /\ \A s \in DOMAIN sl : sl[s] \in Record
  BY SeqFacts DEF Table
<1>2. PICK n \in Nat : IsTable(ix, n)
  BY DEF Table, Index
<1>3. ASSUME NEW s \in Alive(sl) PROVE \E i \in Occupied(ix) : ix[i].id = sl[s].id /\ ix[i].slot = s
  <2>1. <<sl[s].id, s>> \in Pairs(ix)
    BY DEF Table, Held
  <2>2. QED
    BY <2>1 DEF Pairs
<1>4. \A i \in Occupied(ix) : ix[i].id \in Conn
  BY <1>2, OccupiedFacts
<1>5. \A s \in Alive(sl) : sl[s].id \in Conn
  BY <1>3, <1>4
<1>6. ASSUME NEW r \in Alive(sl), NEW s \in Alive(sl), sl[r].id = sl[s].id PROVE r = s
  <2>1. PICK i \in Occupied(ix) : ix[i].id = sl[r].id /\ ix[i].slot = r
    BY <1>3
  <2>2. PICK j \in Occupied(ix) : ix[j].id = sl[s].id /\ ix[j].slot = s
    BY <1>3
  <2>3. i = j
    BY <2>1, <2>2, <1>6 DEF Table, Index, Sound
  <2>4. QED
    BY <2>1, <2>2, <2>3
<1>7. Alive(sl) \subseteq DOMAIN sl
  BY DEF Alive
<1>8. QED
  BY <1>1, <1>5, <1>6, <1>7

\* festina_conn_by_id.
LEMMA TableGet ==
  ASSUME NEW sl, NEW fr, NEW ix, NEW us, Table(sl, fr, ix, us), NEW id \in 0..MaxConn
  PROVE  /\ \A s \in Alive(sl) : sl[s].id = id => IndexGet(ix, id) = s
         /\ id \notin IdsOf(sl) => IndexGet(ix, id) = 0
<1>1. /\ \A s : <<id, s>> \in Pairs(ix) => IndexGet(ix, id) = s
      /\ (\A q \in Pairs(ix) : q[1] # id) => IndexGet(ix, id) = 0
  BY IndexGetExact DEF Table
<1>2. \A s \in Alive(sl) : sl[s].id = id => <<id, s>> \in Pairs(ix)
  BY DEF Table, Held
<1>3. ASSUME id \notin IdsOf(sl), NEW q \in Pairs(ix) PROVE q[1] # id
  <2>1. PICK s \in Alive(sl) : q = <<sl[s].id, s>>
    BY DEF Table, Held
  <2>2. QED
    BY <2>1, <1>3 DEF IdsOf
<1>4. QED
  BY <1>1, <1>2, <1>3

LEMMA EmptyTableOK == Table(<< >>, << >>, EmptyTable(0), 0) /\ IdsOf(<< >>) = {} /\ Alive(<< >>) = {}
<1>1. Alive(<< >>) = {}
  BY DEF Alive
<1>2. Held(<< >>) = {} /\ IdsOf(<< >>) = {}
  BY <1>1 DEF Held, IdsOf
<1>3. << >> \in Seq(Record) /\ << >> \in Seq(Nat)
  OBVIOUS
<1>4. IsInjective(<< >>) /\ ToSet(<< >>) = {}
  BY DEF IsInjective, ToSet
<1>5. QED
  BY <1>1, <1>2, <1>3, <1>4, EmptyIndex DEF Table

\* How a list of slots changes in the live slot s.
Changed(sl, tl, s, conn) ==
  /\ sl \in Seq(Record) /\ tl \in Seq(Record) /\ DOMAIN tl = DOMAIN sl /\ s \in Alive(sl)
  /\ tl[s] = conn /\ \A r \in DOMAIN sl : r # s => tl[r] = sl[r]

LEMMA ChangeFacts ==
  ASSUME NEW sl, NEW fr, NEW ix, NEW us, Table(sl, fr, ix, us), NEW s \in Alive(sl), NEW conn \in Record
  PROVE  Changed(sl, [sl EXCEPT ![s] = conn], s, conn)
<1>1. DOMAIN sl = 1..Len(sl) /\ s \in DOMAIN sl /\ sl \in Seq(Record)
  BY TableFacts DEF Table
<1>2. [sl EXCEPT ![s] = conn] \in Seq(Record)
  BY <1>1, ExceptSeq
<1>3. QED
  BY <1>1, <1>2 DEF Changed

\* Changing a live slot, but not its conn_id.
LEMMA TableUpdate ==
  ASSUME NEW sl, NEW fr, NEW ix, NEW us, Table(sl, fr, ix, us), NEW s, NEW conn, NEW tl,
         Changed(sl, tl, s, conn), conn.alive, conn.id = sl[s].id, conn.upgraded => conn.mode = "ws"
  PROVE  Table(tl, fr, ix, us) /\ Alive(tl) = Alive(sl) /\ IdsOf(tl) = IdsOf(sl)
<1>4. Alive(tl) = Alive(sl)
  BY DEF Alive, Changed
<1>5. \A r \in Alive(sl) : tl[r].id = sl[r].id /\ r \in DOMAIN sl
  BY DEF Alive, Changed
<1>6. Held(tl) = Held(sl) /\ IdsOf(tl) = IdsOf(sl)
  BY <1>4, <1>5 DEF Held, IdsOf
<1>7. \A r \in DOMAIN tl : tl[r].upgraded => tl[r].alive /\ tl[r].mode = "ws"
  BY DEF Table, Changed
<1>8. Table(tl, fr, ix, us)
  BY <1>4, <1>6, <1>7 DEF Table, Changed
<1>9. QED
  BY <1>4, <1>6, <1>8

\* Vacate: a live slot is given up.
LEMMA TableVacate ==
  ASSUME NEW sl, NEW fr, NEW ix, NEW us, Table(sl, fr, ix, us), NEW s, NEW left, NEW tl,
         Changed(sl, tl, s, left), ~ left.alive, ~ left.upgraded
  PROVE  /\ Table(tl, Append(fr, s), IndexRemove(ix, sl[s].id), us)
         /\ Alive(tl) = Alive(sl) \ {s} /\ IdsOf(tl) = IdsOf(sl) \ {sl[s].id}
<1> DEFINE id == sl[s].id
<1>1. /\ DOMAIN sl = 1..Len(sl) /\ Len(sl) \in Nat /\ s \in DOMAIN sl /\ sl \in Seq(Record)
      /\ s \in Nat /\ sl[s].id \in Conn /\ s \in Alive(sl)
      /\ \A r \in Alive(sl) : sl[r].id = sl[s].id => r = s
  BY TableFacts DEF Table, Changed
<1>2. tl \in Seq(Record) /\ DOMAIN tl = DOMAIN sl
  BY DEF Changed
<1>3. tl[s] = left /\ \A r \in DOMAIN sl : r # s => tl[r] = sl[r]
  BY DEF Changed
<1>4. Alive(tl) = Alive(sl) \ {s}
  BY <1>2, <1>3 DEF Alive
<1>5. \A r \in Alive(tl) : tl[r] = sl[r] /\ r \in Alive(sl) /\ r # s
  BY <1>3, <1>4 DEF Alive
<1>6. IdsOf(tl) = IdsOf(sl) \ {id}
  <2>1. ASSUME NEW k \in IdsOf(tl) PROVE k \in IdsOf(sl) /\ k # id
    <3>1. PICK r \in Alive(tl) : k = tl[r].id
      BY DEF IdsOf
    <3>2. r \in Alive(sl) /\ r # s /\ k = sl[r].id
      BY <3>1, <1>5
    <3>3. QED
      BY <3>2, <1>1 DEF IdsOf
  <2>2. ASSUME NEW k \in IdsOf(sl), k # id PROVE k \in IdsOf(tl)
    <3>1. PICK r \in Alive(sl) : k = sl[r].id
      BY DEF IdsOf
    <3>2. r \in Alive(tl) /\ k = tl[r].id
      BY <3>1, <2>2, <1>4, <1>5
    <3>3. QED
      BY <3>2 DEF IdsOf
  <2>3. QED
    BY <2>1, <2>2
<1>7. Held(tl) = {q \in Held(sl) : q[1] # id}
  <2>1. ASSUME NEW q \in Held(tl) PROVE q \in Held(sl) /\ q[1] # id
    <3>1. PICK r \in Alive(tl) : q = <<tl[r].id, r>>
      BY DEF Held
    <3>2. r \in Alive(sl) /\ r # s /\ q = <<sl[r].id, r>> /\ q[1] = sl[r].id
      BY <3>1, <1>5
    <3>3. QED
      BY <3>2, <1>1 DEF Held
  <2>2. ASSUME NEW q \in Held(sl), q[1] # id PROVE q \in Held(tl)
    <3>1. PICK r \in Alive(sl) : q = <<sl[r].id, r>>
      BY DEF Held
    <3>2. r # s /\ r \in Alive(tl)
      BY <3>1, <2>2, <1>4
    <3>3. QED
      BY <3>1, <3>2, <1>5 DEF Held
  <2>3. QED
    BY <2>1, <2>2
<1>8. Index(IndexRemove(ix, id), us) /\ Pairs(IndexRemove(ix, id)) = {q \in Pairs(ix) : q[1] # id}
  <2>1. Index(ix, us) /\ id \in 0..MaxConn
    BY <1>1, ConnFacts DEF Table
  <2> HIDE DEF id
  <2>2. QED
    BY <2>1, IndexRemoveExact
<1>9. fr \in Seq(Nat) /\ IsInjective(fr) /\ ToSet(fr) = DOMAIN sl \ Alive(sl)
  BY DEF Table
<1>10. Append(fr, s) \in Seq(Nat) /\ IsInjective(Append(fr, s)) /\ ToSet(Append(fr, s)) = ToSet(fr) \cup {s}
  <2>1. s \notin ToSet(fr)
    BY <1>1, <1>9
  <2>2. QED
    BY <2>1, <1>1, <1>9, AppendInjectiveSeq
<1>11. DOMAIN tl \ Alive(tl) = ToSet(fr) \cup {s}
  BY <1>1, <1>2, <1>4, <1>9
<1>12. \A r \in DOMAIN tl : tl[r].upgraded => tl[r].alive /\ tl[r].mode = "ws"
  BY <1>2, <1>3 DEF Table
<1>13. Table(tl, Append(fr, s), IndexRemove(ix, id), us)
  BY <1>2, <1>7, <1>8, <1>10, <1>11, <1>12 DEF Table
<1>14. QED
  BY <1>4, <1>6, <1>13

LEMMA FrontInjective ==
  ASSUME NEW S, NEW fr \in Seq(S), fr # << >>, IsInjective(fr)
  PROVE  /\ Last(fr) \in ToSet(fr) /\ Front(fr) \in Seq(S) /\ IsInjective(Front(fr))
         /\ ToSet(Front(fr)) = ToSet(fr) \ {Last(fr)}
<1> DEFINE g == Front(fr)
<1> DEFINE n == Len(fr)
<1>1. n \in Nat \ {0} /\ DOMAIN fr = 1..n /\ \A i \in 1..n : fr[i] \in S
  BY LenProperties, EmptySeq
<1>2. g \in Seq(S) /\ Len(g) = n - 1 /\ \A i \in 1..n-1 : g[i] = fr[i]
  <2>1. g = SubSeq(fr, 1, n - 1)
    BY DEF Front
  <2>2. 1 \in Int /\ n - 1 \in Int /\ \A i \in 1..n-1 : fr[i] \in S
    BY <1>1
  <2> HIDE DEF n, g
  <2>3. /\ SubSeq(fr, 1, n-1) \in Seq(S)
        /\ Len(SubSeq(fr, 1, n-1)) = IF 1 <= n-1 THEN (n-1)-1+1 ELSE 0
        /\ \A i \in 1..(n-1)-1+1 : SubSeq(fr, 1, n-1)[i] = fr[1+i-1]
    BY <2>2, SubSeqProperties
  <2>4. QED
    BY <2>1, <2>3, <1>1
<1>3. DOMAIN g = 1..n-1
  BY <1>2, LenProperties
<1>4. Last(fr) = fr[n]
  BY DEF Last
<1> HIDE DEF g, n
<1>5. Last(fr) \in ToSet(fr)
  BY <1>1, <1>4 DEF ToSet
<1>6. \A i \in 1..n-1 : fr[i] # fr[n]
  BY <1>1 DEF IsInjective
<1>7. IsInjective(g)
  <2>1. ASSUME NEW i \in DOMAIN g, NEW j \in DOMAIN g, g[i] = g[j] PROVE i = j
    <3>1. i \in 1..n /\ j \in 1..n /\ fr[i] = fr[j]
      BY <2>1, <1>1, <1>2, <1>3
    <3>2. QED
      BY <3>1, <1>1 DEF IsInjective
  <2>2. QED
    BY <2>1 DEF IsInjective
<1>8. ToSet(g) = ToSet(fr) \ {fr[n]}
  <2>1. ASSUME NEW x \in ToSet(g) PROVE x \in ToSet(fr) /\ x # fr[n]
    <3>1. PICK i \in 1..n-1 : x = g[i]
      BY <1>3 DEF ToSet
    <3>2. x = fr[i] /\ i \in 1..n
      BY <3>1, <1>1, <1>2
    <3>3. QED
      BY <3>1, <3>2, <1>1, <1>6 DEF ToSet
  <2>2. ASSUME NEW x \in ToSet(fr), x # fr[n] PROVE x \in ToSet(g)
    <3>1. PICK i \in 1..n : x = fr[i]
      BY <1>1 DEF ToSet
    <3>2. i \in 1..n-1 /\ x = g[i]
      BY <3>1, <2>2, <1>1, <1>2
    <3>3. QED
      BY <3>2, <1>3 DEF ToSet
  <2>3. QED
    BY <2>1, <2>2
<1>9. QED
  BY <1>2, <1>4, <1>5, <1>7, <1>8 DEF g

LEMMA StoreFacts ==
  ASSUME NEW S, NEW sl \in Seq(S), NEW conn \in S, NEW s \in 1..Len(sl)+1,
         NEW tl, tl = IF s > Len(sl) THEN Append(sl, conn) ELSE [sl EXCEPT ![s] = conn]
  PROVE  /\ tl \in Seq(S) /\ DOMAIN tl = DOMAIN sl \cup {s}
         /\ tl[s] = conn /\ \A r \in DOMAIN sl : r # s => tl[r] = sl[r]
<1>1. Len(sl) \in Nat /\ DOMAIN sl = 1..Len(sl)
  BY LenProperties
<1>2. CASE s > Len(sl)
  <2>1. tl = Append(sl, conn)
    BY <1>2
  <2>2. s = Len(sl) + 1
    BY <1>1, <1>2
  <2>3. /\ Append(sl, conn) \in Seq(S) /\ Len(Append(sl, conn)) = Len(sl) + 1
        /\ \A i \in 1..Len(sl) : Append(sl, conn)[i] = sl[i]
        /\ Append(sl, conn)[Len(sl)+1] = conn
    BY AppendProperties
  <2>4. DOMAIN Append(sl, conn) = 1..Len(sl)+1
    BY <2>3, LenProperties
  <2>5. 1..Len(sl)+1 = (1..Len(sl)) \cup {Len(sl)+1}
    BY <1>1
  <2>6. QED
    BY <2>1, <2>2, <2>3, <2>4, <2>5, <1>1
<1>3. CASE ~ (s > Len(sl))
  <2>1. s \in 1..Len(sl) /\ tl = [sl EXCEPT ![s] = conn]
    BY <1>1, <1>3
  <2>2. [sl EXCEPT ![s] = conn] \in Seq(S) /\ DOMAIN [sl EXCEPT ![s] = conn] = DOMAIN sl
    BY <2>1, ExceptSeq
  <2>3. [sl EXCEPT ![s] = conn][s] = conn /\ \A r \in DOMAIN sl : r # s => [sl EXCEPT ![s] = conn][r] = sl[r]
    BY <2>1, <1>1
  <2>4. QED
    BY <2>1, <2>2, <2>3, <1>1
<1>4. QED
  BY <1>2, <1>3

\* How a list of slots gains conn in slot s, a free list loses s, an index gains the pair.
Added(sl, tl, s, conn) ==
  /\ sl \in Seq(Record) /\ tl \in Seq(Record) /\ DOMAIN tl = DOMAIN sl \cup {s} /\ s \notin Alive(sl)
  /\ tl[s] = conn /\ \A r \in DOMAIN sl : r # s => tl[r] = sl[r]
Taken(fr, gr, s) == gr \in Seq(Nat) /\ IsInjective(gr) /\ ToSet(gr) = ToSet(fr) \ {s}
Gained(ix, jx, vs, id, s) == Index(jx, vs) /\ Pairs(jx) = Pairs(ix) \cup {<<id, s>>}

LEMMA AddedFacts ==
  ASSUME NEW sl, NEW tl, NEW s, NEW conn, Added(sl, tl, s, conn), conn.alive
  PROVE  /\ Alive(tl) = Alive(sl) \cup {s} /\ IdsOf(tl) = IdsOf(sl) \cup {conn.id}
         /\ Held(tl) = Held(sl) \cup {<<conn.id, s>>}
         /\ \A r \in Alive(sl) : tl[r] = sl[r]
<1>1. Alive(tl) = Alive(sl) \cup {s}
  BY DEF Alive, Added
<1>2. \A r \in Alive(sl) : tl[r] = sl[r]
  BY DEF Alive, Added
<1>3. Held(tl) = Held(sl) \cup {<<conn.id, s>>}
  <2>1. Held(tl) = {<<tl[r].id, r>> : r \in Alive(sl)} \cup {<<conn.id, s>>}
    BY <1>1 DEF Held, Added
  <2>2. QED
    BY <2>1, <1>2 DEF Held
<1>4. IdsOf(tl) = IdsOf(sl) \cup {conn.id}
  <2>1. IdsOf(tl) = {tl[r].id : r \in Alive(sl)} \cup {conn.id}
    BY <1>1 DEF IdsOf, Added
  <2>2. {tl[r].id : r \in Alive(sl)} = {sl[r].id : r \in Alive(sl)}
    BY <1>2
  <2>3. QED
    BY <2>1, <2>2 DEF IdsOf
<1>5. QED
  BY <1>1, <1>2, <1>3, <1>4

LEMMA TableAdd ==
  ASSUME NEW sl, NEW fr, NEW ix, NEW us, Table(sl, fr, ix, us),
         NEW conn, conn.alive, conn.upgraded => conn.mode = "ws",
         NEW s, NEW tl, Added(sl, tl, s, conn), NEW gr, Taken(fr, gr, s),
         NEW jx, NEW vs, Gained(ix, jx, vs, conn.id, s)
  PROVE  Table(tl, gr, jx, vs)
<1>1. Alive(tl) = Alive(sl) \cup {s} /\ Held(tl) = Held(sl) \cup {<<conn.id, s>>}
  BY AddedFacts
<1>2. \A r \in DOMAIN tl : tl[r].upgraded => tl[r].alive /\ tl[r].mode = "ws"
  BY DEF Table, Added
<1>3. ToSet(gr) = DOMAIN tl \ Alive(tl)
  BY <1>1 DEF Table, Added, Taken
<1>4. QED
  BY <1>1, <1>2, <1>3 DEF Table, Added, Taken, Gained

\* The slot the next connection takes: the one freed last, or the next one.
LEMMA TableNext ==
  ASSUME NEW sl, NEW fr, NEW ix, NEW us, Table(sl, fr, ix, us)
  PROVE  LET s  == IF fr = << >> THEN Len(sl) + 1 ELSE Last(fr)
             gr == IF fr = << >> THEN fr ELSE Front(fr)
         IN /\ s \in 1..Len(sl)+1 /\ s \notin Alive(sl)
            /\ Taken(fr, gr, s)
<1>1. /\ DOMAIN sl = 1..Len(sl) /\ Len(sl) \in Nat /\ sl \in Seq(Record)
      /\ Alive(sl) \subseteq DOMAIN sl
  BY TableFacts DEF Table
<1>2. fr \in Seq(Nat) /\ IsInjective(fr) /\ ToSet(fr) = DOMAIN sl \ Alive(sl)
  BY DEF Table
<1>3. CASE fr = << >>
  <2>1. ToSet(fr) = {}
    BY <1>3 DEF ToSet
  <2>2. QED
    BY <1>3, <2>1, <1>1, <1>2 DEF Taken
<1>4. CASE fr # << >>
  <2>1. /\ Last(fr) \in ToSet(fr) /\ Front(fr) \in Seq(Nat) /\ IsInjective(Front(fr))
        /\ ToSet(Front(fr)) = ToSet(fr) \ {Last(fr)}
    BY <1>4, <1>2, FrontInjective
  <2>2. QED
    BY <1>4, <2>1, <1>1, <1>2 DEF Taken
<1>5. QED
  BY <1>3, <1>4

\* What it does to the index.
LEMMA TableRoom ==
  ASSUME NEW sl, NEW fr, NEW ix, NEW us, Table(sl, fr, ix, us),
         NEW id \in Conn, id \notin IdsOf(sl), NEW s \in Nat
  PROVE  LET table == IF MustGrow(ix, us) THEN Grown(ix) ELSE ix
             count == IF MustGrow(ix, us) THEN Cardinality(Occupied(table)) ELSE us
         IN Gained(ix, InsertRaw(table, id, s), count + 1, id, s)
<1>1. ASSUME NEW q \in Pairs(ix) PROVE q[1] # id
  <2>1. PICK r \in Alive(sl) : q = <<sl[r].id, r>>
    BY DEF Table, Held
  <2>2. QED
    BY <2>1 DEF IdsOf
<1>2. Index(ix, us)
  BY DEF Table
<1>3. QED
  BY <1>1, <1>2, IndexPutExact DEF Gained

(***************************************************************************)
(* The operations on the tables, as the actions perform them.              *)
(***************************************************************************)

\* What an operation on c's table leaves alone.
Others(c) ==
  \A d \in Ctx \ {c} : slots'[d] = slots[d] /\ free'[d] = free[d] /\ index'[d] = index[d] /\ used'[d] = used[d]

LEMMA InstallStep ==
  ASSUME Domains, NEW c \in Ctx, Tabled(c), NEW conn \in Record, conn.alive,
         conn.id \in Conn, conn.id \notin IdsOf(slots[c]), conn.upgraded => conn.mode = "ws",
         Install(c, conn)
  PROVE  /\ Domains' /\ Tabled(c)' /\ Others(c)
         /\ Added(slots[c], slots'[c], SlotFor(c), conn)
<1> DEFINE s == SlotFor(c)
<1> DEFINE table == IF MustGrow(index[c], used[c]) THEN Grown(index[c]) ELSE index[c]
<1> DEFINE count == IF MustGrow(index[c], used[c]) THEN Cardinality(Occupied(table)) ELSE used[c]
<1>1. /\ free' = [free EXCEPT ![c] = IF @ = << >> THEN @ ELSE Front(@)]
      /\ slots' = [slots EXCEPT ![c] = IF s > Len(@) THEN Append(@, conn) ELSE [@ EXCEPT ![s] = conn]]
      /\ index' = [index EXCEPT ![c] = InsertRaw(table, conn.id, s)]
      /\ used' = [used EXCEPT ![c] = count + 1]
  BY DEF Install
<1>2. Domains' /\ Others(c)
  BY <1>1 DEF Domains, Others
<1>3. /\ s \in 1..Len(slots[c])+1 /\ s \notin Alive(slots[c])
      /\ Taken(free[c], free'[c], s)
  <2>1. s = (IF free[c] = << >> THEN Len(slots[c]) + 1 ELSE Last(free[c]))
    BY DEF SlotFor
  <2>2. free'[c] = (IF free[c] = << >> THEN free[c] ELSE Front(free[c]))
    BY <1>1 DEF Domains
  <2>3. QED
    BY <2>1, <2>2, TableNext DEF Tabled
<1>4. Gained(index[c], index'[c], used'[c], conn.id, s)
  <2>1. index'[c] = InsertRaw(table, conn.id, s) /\ used'[c] = count + 1
    BY <1>1 DEF Domains
  <2>2. s \in Nat
    BY <1>3
  <2> HIDE DEF s
  <2>3. Gained(index[c], InsertRaw(table, conn.id, s), count + 1, conn.id, s)
    BY <2>2, TableRoom DEF Tabled
  <2>4. QED
    BY <2>1, <2>3
<1>5. slots'[c] = (IF s > Len(slots[c]) THEN Append(slots[c], conn) ELSE [slots[c] EXCEPT ![s] = conn])
  BY <1>1 DEF Domains
<1>6. slots[c] \in Seq(Record)
  BY DEF Tabled, Table
<1> HIDE DEF s
<1>7. Added(slots[c], slots'[c], s, conn)
  BY <1>3, <1>5, <1>6, StoreFacts DEF Added
<1>8. Tabled(c)'
  BY <1>3, <1>4, <1>7, TableAdd DEF Tabled
<1>9. QED
  BY <1>2, <1>7, <1>8 DEF s

LEMMA VacateStep ==
  ASSUME Domains, NEW c \in Ctx, Tabled(c), NEW s \in Alive(slots[c]),
         NEW left \in Record, ~ left.alive, ~ left.upgraded, Vacate(c, s, left)
  PROVE  /\ Domains' /\ Tabled(c)' /\ Others(c) /\ Changed(slots[c], slots'[c], s, left)
         /\ Alive(slots'[c]) = Alive(slots[c]) \ {s}
         /\ IdsOf(slots'[c]) = IdsOf(slots[c]) \ {slots[c][s].id}
<1>1. /\ slots' = [slots EXCEPT ![c][s] = left]
      /\ index' = [index EXCEPT ![c] = IndexRemove(@, slots[c][s].id)]
      /\ free' = [free EXCEPT ![c] = Append(@, s)] /\ used' = used
  BY DEF Vacate
<1>2. Domains' /\ Others(c)
  BY <1>1 DEF Domains, Others
<1>3. /\ slots'[c] = [slots[c] EXCEPT ![s] = left] /\ index'[c] = IndexRemove(index[c], slots[c][s].id)
      /\ free'[c] = Append(free[c], s) /\ used'[c] = used[c]
  BY <1>1 DEF Domains
<1>4. Changed(slots[c], slots'[c], s, left)
  BY <1>3, ChangeFacts DEF Tabled
<1>5. /\ Table(slots'[c], Append(free[c], s), IndexRemove(index[c], slots[c][s].id), used[c])
      /\ Alive(slots'[c]) = Alive(slots[c]) \ {s}
      /\ IdsOf(slots'[c]) = IdsOf(slots[c]) \ {slots[c][s].id}
  BY <1>4, TableVacate DEF Tabled
<1>6. Tabled(c)'
  BY <1>3, <1>5 DEF Tabled
<1>7. QED
  BY <1>2, <1>4, <1>5, <1>6

LEMMA UpdateStep ==
  ASSUME Domains, NEW c \in Ctx, Tabled(c), NEW s \in Alive(slots[c]), NEW conn \in Record,
         conn.alive, conn.id = slots[c][s].id, conn.upgraded => conn.mode = "ws",
         slots' = [slots EXCEPT ![c] = [slots[c] EXCEPT ![s] = conn]], UNCHANGED <<free, index, used>>
  PROVE  /\ Domains' /\ Tabled(c)' /\ Others(c) /\ Changed(slots[c], slots'[c], s, conn)
         /\ Alive(slots'[c]) = Alive(slots[c]) /\ IdsOf(slots'[c]) = IdsOf(slots[c])
<1>2. Domains' /\ Others(c)
  BY DEF Domains, Others
<1>3. slots'[c] = [slots[c] EXCEPT ![s] = conn] /\ free'[c] = free[c] /\ index'[c] = index[c] /\ used'[c] = used[c]
  BY DEF Domains
<1>4. Changed(slots[c], slots'[c], s, conn)
  BY <1>3, ChangeFacts DEF Tabled
<1>5. /\ Table(slots'[c], free[c], index[c], used[c])
      /\ Alive(slots'[c]) = Alive(slots[c]) /\ IdsOf(slots'[c]) = IdsOf(slots[c])
  BY <1>4, TableUpdate DEF Tabled
<1>6. Tabled(c)'
  BY <1>3, <1>5 DEF Tabled
<1>7. QED
  BY <1>2, <1>4, <1>5, <1>6

(***************************************************************************)
(* A context's stack of calls.                                             *)
(***************************************************************************)

LEMMA StackFacts ==
  ASSUME NEW st, NEW sl, Stack(st, sl)
  PROVE  /\ st \in Seq(Frame) /\ Len(st) \in Nat /\ DOMAIN st = 1..Len(st)
         /\ \A i \in DOMAIN st : st[i] \in Frame
         /\ st # << >> => Len(st) >= 1 /\ Len(st) \in DOMAIN st
BY LenProperties, EmptySeq DEF Stack

LEMMA FrameFacts ==
  ASSUME NEW f \in Frame
  PROVE  /\ f.at \in UserCode \cup {"reading", "framing", "join"} /\ f.slot \in Nat
         /\ f.id \in 0..MaxConn /\ f.req \in 0..MaxReq /\ f.thread \in Ctx
BY DEF Frame

\* What a call, and a return, do to the stack.
Pushed(st, tt, f) ==
  /\ tt \in Seq(Frame) /\ DOMAIN tt = DOMAIN st \cup {Len(st) + 1} /\ Len(st) + 1 \notin DOMAIN st
  /\ tt[Len(st) + 1] = f /\ \A i \in DOMAIN st : tt[i] = st[i]
Popped(st, tt, f) ==
  /\ tt \in Seq(Frame) /\ Len(st) \in DOMAIN st /\ DOMAIN tt = DOMAIN st \ {Len(st)}
  /\ st[Len(st)] = f /\ \A i \in DOMAIN tt : tt[i] = st[i]

LEMMA PushFacts ==
  ASSUME NEW st, NEW sl, Stack(st, sl), NEW f \in Frame
  PROVE  Pushed(st, Append(st, f), f)
<1>1. st \in Seq(Frame) /\ Len(st) \in Nat /\ DOMAIN st = 1..Len(st)
  BY StackFacts
<1>2. /\ Append(st, f) \in Seq(Frame) /\ Len(Append(st, f)) = Len(st) + 1
      /\ \A i \in 1..Len(st) : Append(st, f)[i] = st[i]
      /\ Append(st, f)[Len(st)+1] = f
  BY <1>1, AppendProperties
<1>3. DOMAIN Append(st, f) = 1..Len(st)+1
  BY <1>2, LenProperties
<1>4. 1..Len(st)+1 = (1..Len(st)) \cup {Len(st)+1} /\ Len(st)+1 \notin 1..Len(st)
  BY <1>1
<1>5. QED
  BY <1>1, <1>2, <1>3, <1>4 DEF Pushed

LEMMA PopFacts ==
  ASSUME NEW st, NEW sl, Stack(st, sl), st # << >>
  PROVE  Popped(st, Front(st), st[Len(st)])
<1> DEFINE n == Len(st)
<1>1. st \in Seq(Frame) /\ n \in Nat /\ n >= 1 /\ DOMAIN st = 1..n /\ \A i \in 1..n : st[i] \in Frame
  BY StackFacts
<1>2. Front(st) = SubSeq(st, 1, n - 1)
  BY DEF Front
<1> HIDE DEF n
<1>3. 1 \in Int /\ n - 1 \in Int /\ \A i \in 1..n-1 : st[i] \in Frame
  BY <1>1
<1>4. /\ SubSeq(st, 1, n-1) \in Seq(Frame)
      /\ Len(SubSeq(st, 1, n-1)) = IF 1 <= n-1 THEN (n-1)-1+1 ELSE 0
      /\ \A i \in 1..(n-1)-1+1 : SubSeq(st, 1, n-1)[i] = st[1+i-1]
  BY <1>3, SubSeqProperties
<1>5. Len(Front(st)) = n - 1 /\ \A i \in 1..n-1 : Front(st)[i] = st[i]
  BY <1>1, <1>2, <1>4
<1>6. Front(st) \in Seq(Frame) /\ DOMAIN Front(st) = 1..n-1
  BY <1>2, <1>4, <1>5, LenProperties
<1>7. 1..n-1 = (1..n) \ {n} /\ n \in 1..n
  BY <1>1
<1>8. QED
  BY <1>1, <1>5, <1>6, <1>7 DEF Popped, n

LEMMA PushedSets ==
  ASSUME NEW st, NEW tt, NEW f, Pushed(st, tt, f)
  PROVE  /\ f.at = "closing" => /\ ClosingFrames(tt) = ClosingFrames(st) \cup {Len(st) + 1}
                                /\ Closing(tt) = Closing(st) \cup {f.id}
         /\ f.at # "closing" => ClosingFrames(tt) = ClosingFrames(st) /\ Closing(tt) = Closing(st)
         /\ Requesting(st) \subseteq Requesting(tt)
         /\ f.at = "request" => f.id \in Requesting(tt)
<1>1. /\ DOMAIN tt = DOMAIN st \cup {Len(st) + 1} /\ Len(st) + 1 \notin DOMAIN st
      /\ tt[Len(st) + 1] = f /\ \A i \in DOMAIN st : tt[i] = st[i]
  BY DEF Pushed
<1>2. \A i \in ClosingFrames(st) : i \in DOMAIN st /\ tt[i] = st[i]
  BY <1>1 DEF ClosingFrames
<1>3. CASE f.at = "closing"
  <2>1. ClosingFrames(tt) = ClosingFrames(st) \cup {Len(st) + 1}
    BY <1>1, <1>3 DEF ClosingFrames
  <2>2. Closing(tt) = {tt[i].id : i \in ClosingFrames(st)} \cup {f.id}
    BY <1>1, <2>1 DEF Closing
  <2>3. {tt[i].id : i \in ClosingFrames(st)} = Closing(st)
    BY <1>2 DEF Closing
  <2>4. Requesting(st) \subseteq Requesting(tt)
    BY <1>1 DEF Requesting
  <2>5. QED
    BY <1>3, <2>1, <2>2, <2>3, <2>4
<1>4. CASE f.at # "closing"
  <2>1. ClosingFrames(tt) = ClosingFrames(st)
    BY <1>1, <1>4 DEF ClosingFrames
  <2>2. Closing(tt) = Closing(st)
    BY <1>2, <2>1 DEF Closing
  <2>3. Requesting(st) \subseteq Requesting(tt)
    BY <1>1 DEF Requesting
  <2>4. f.at = "request" => f.id \in Requesting(tt)
    BY <1>1 DEF Requesting
  <2>5. QED
    BY <1>4, <2>1, <2>2, <2>3, <2>4
<1>5. QED
  BY <1>3, <1>4

LEMMA PoppedSets ==
  ASSUME NEW st, NEW tt, NEW f, Popped(st, tt, f)
  PROVE  /\ ClosingFrames(tt) = ClosingFrames(st) \ {Len(st)}
         /\ f.at # "closing" => Closing(tt) = Closing(st)
         /\ f.at = "closing" => Closing(st) = Closing(tt) \cup {f.id}
         /\ \A id \in Requesting(st) : f.at # "request" \/ f.id # id => id \in Requesting(tt)
<1>1. /\ Len(st) \in DOMAIN st /\ DOMAIN tt = DOMAIN st \ {Len(st)}
      /\ st[Len(st)] = f /\ \A i \in DOMAIN tt : tt[i] = st[i]
  BY DEF Popped
<1>2. ClosingFrames(tt) = ClosingFrames(st) \ {Len(st)}
  BY <1>1 DEF ClosingFrames
<1>3. \A i \in ClosingFrames(tt) : tt[i] = st[i]
  BY <1>1 DEF ClosingFrames
<1>4. Closing(tt) = {st[i].id : i \in ClosingFrames(st) \ {Len(st)}}
  BY <1>2, <1>3 DEF Closing
<1>5. f.at # "closing" => Len(st) \notin ClosingFrames(st)
  BY <1>1 DEF ClosingFrames
<1>6. f.at = "closing" => Len(st) \in ClosingFrames(st)
  BY <1>1 DEF ClosingFrames
<1>7. f.at # "closing" => Closing(tt) = Closing(st)
  BY <1>4, <1>5 DEF Closing
<1>8. f.at = "closing" => Closing(st) = Closing(tt) \cup {f.id}
  BY <1>1, <1>4, <1>6 DEF Closing
<1>9. ASSUME NEW id \in Requesting(st), f.at # "request" \/ f.id # id PROVE id \in Requesting(tt)
  <2>1. PICK i \in DOMAIN st : st[i].at = "request" /\ st[i].id = id
    BY DEF Requesting
  <2>2. i # Len(st)
    BY <1>1, <1>9, <2>1
  <2>3. i \in DOMAIN tt /\ tt[i] = st[i]
    BY <1>1, <2>1, <2>2
  <2>4. QED
    BY <2>1, <2>3 DEF Requesting
<1>10. QED
  BY <1>2, <1>7, <1>8, <1>9

LEMMA StackPush ==
  ASSUME NEW st, NEW sl, Stack(st, sl), NEW tt, NEW f, Pushed(st, tt, f),
         f.at \notin {"closing", "reading", "framing"}
  PROVE  Stack(tt, sl) /\ Closing(tt) = Closing(st)
<1>1. /\ tt \in Seq(Frame) /\ DOMAIN tt = DOMAIN st \cup {Len(st) + 1}
      /\ tt[Len(st) + 1] = f /\ \A i \in DOMAIN st : tt[i] = st[i]
  BY DEF Pushed
<1>2. ClosingFrames(tt) = ClosingFrames(st) /\ Closing(tt) = Closing(st) /\ Requesting(st) \subseteq Requesting(tt)
  BY PushedSets
<1>3. \A i \in ClosingFrames(st) : tt[i] = st[i]
  BY <1>1 DEF ClosingFrames
<1>4. \A i \in DOMAIN tt : tt[i].at \in {"reading", "framing"} => i = 1 /\ tt[i].slot \in DOMAIN sl
  BY <1>1 DEF Stack
<1>5. \A i \in ClosingFrames(tt) :
        /\ tt[i].slot \in Alive(sl) /\ sl[tt[i].slot].id = tt[i].id /\ sl[tt[i].slot].upgraded
        /\ \A j \in ClosingFrames(tt) : tt[i].id = tt[j].id => i = j
  BY <1>2, <1>3 DEF Stack
<1>6. \A s \in Alive(sl) : sl[s].mode = "ws" /\ ~ sl[s].upgraded => sl[s].id \in Requesting(tt)
  BY <1>2 DEF Stack
<1>7. QED
  BY <1>1, <1>2, <1>4, <1>5, <1>6 DEF Stack

LEMMA StackPushClosing ==
  ASSUME NEW st, NEW sl, Stack(st, sl), NEW tt, NEW f, Pushed(st, tt, f),
         f.at = "closing", f.slot \in Alive(sl), sl[f.slot].id = f.id, sl[f.slot].upgraded,
         f.id \notin Closing(st)
  PROVE  Stack(tt, sl) /\ Closing(tt) = Closing(st) \cup {f.id}
<1> DEFINE n == Len(st) + 1
<1>1. /\ tt \in Seq(Frame) /\ DOMAIN tt = DOMAIN st \cup {n} /\ n \notin DOMAIN st
      /\ tt[n] = f /\ \A i \in DOMAIN st : tt[i] = st[i]
  BY DEF Pushed
<1>2. /\ ClosingFrames(tt) = ClosingFrames(st) \cup {n} /\ Closing(tt) = Closing(st) \cup {f.id}
      /\ Requesting(st) \subseteq Requesting(tt)
  BY PushedSets
<1> HIDE DEF n
<1>3. \A i \in ClosingFrames(st) : tt[i] = st[i] /\ st[i].id # f.id
  BY <1>1 DEF ClosingFrames, Closing
<1>4. \A i \in DOMAIN tt : tt[i].at \in {"reading", "framing"} => i = 1 /\ tt[i].slot \in DOMAIN sl
  BY <1>1 DEF Stack
<1>5. ASSUME NEW i \in ClosingFrames(tt)
      PROVE  /\ tt[i].slot \in Alive(sl) /\ sl[tt[i].slot].id = tt[i].id /\ sl[tt[i].slot].upgraded
             /\ \A j \in ClosingFrames(tt) : tt[i].id = tt[j].id => i = j
  <2>1. CASE i = n
    BY <2>1, <1>1, <1>2, <1>3
  <2>2. CASE i # n
    <3>1. i \in ClosingFrames(st) /\ tt[i] = st[i] /\ tt[i].id # f.id
      BY <2>2, <1>2, <1>3
    <3>2. \A j \in ClosingFrames(st) : tt[j] = st[j]
      BY <1>3
    <3>3. QED
      BY <3>1, <3>2, <1>1, <1>2 DEF Stack
  <2>3. QED
    BY <2>1, <2>2
<1>6. \A s \in Alive(sl) : sl[s].mode = "ws" /\ ~ sl[s].upgraded => sl[s].id \in Requesting(tt)
  BY <1>2 DEF Stack
<1>7. Stack(tt, sl)
  BY <1>1, <1>4, <1>5, <1>6 DEF Stack
<1>8. QED
  BY <1>2, <1>7

LEMMA StackPop ==
  ASSUME NEW st, NEW sl, Stack(st, sl), NEW tt, NEW f, Popped(st, tt, f),
         f.at = "request" => \A s \in Alive(sl) : sl[s].id = f.id => sl[s].mode = "http" \/ sl[s].upgraded
  PROVE  /\ Stack(tt, sl)
         /\ f.at # "closing" => Closing(tt) = Closing(st)
         /\ f.at = "closing" => f.id \notin Closing(tt) /\ Closing(st) = Closing(tt) \cup {f.id}
<1>1. /\ tt \in Seq(Frame) /\ Len(st) \in DOMAIN st /\ DOMAIN tt = DOMAIN st \ {Len(st)}
      /\ st[Len(st)] = f /\ \A i \in DOMAIN tt : tt[i] = st[i]
  BY DEF Popped
<1>2. /\ ClosingFrames(tt) = ClosingFrames(st) \ {Len(st)}
      /\ f.at # "closing" => Closing(tt) = Closing(st)
      /\ f.at = "closing" => Closing(st) = Closing(tt) \cup {f.id}
      /\ \A id \in Requesting(st) : f.at # "request" \/ f.id # id => id \in Requesting(tt)
  BY PoppedSets
<1>3. \A i \in ClosingFrames(tt) : tt[i] = st[i]
  BY <1>1 DEF ClosingFrames
<1>4. \A i \in DOMAIN tt : tt[i].at \in {"reading", "framing"} => i = 1 /\ tt[i].slot \in DOMAIN sl
  BY <1>1 DEF Stack
<1>5. \A i \in ClosingFrames(tt) :
        /\ tt[i].slot \in Alive(sl) /\ sl[tt[i].slot].id = tt[i].id /\ sl[tt[i].slot].upgraded
        /\ \A j \in ClosingFrames(tt) : tt[i].id = tt[j].id => i = j
  BY <1>2, <1>3 DEF Stack
<1>6. ASSUME NEW s \in Alive(sl), sl[s].mode = "ws", ~ sl[s].upgraded PROVE sl[s].id \in Requesting(tt)
  <2>1. sl[s].id \in Requesting(st)
    BY <1>6 DEF Stack
  <2>2. f.at # "request" \/ f.id # sl[s].id
    BY <1>6
  <2>3. QED
    BY <2>1, <2>2, <1>2
<1>7. Stack(tt, sl)
  BY <1>1, <1>4, <1>5, <1>6 DEF Stack
<1>8. ASSUME f.at = "closing" PROVE f.id \notin Closing(tt)
  <2>1. Len(st) \in ClosingFrames(st)
    BY <1>1, <1>8 DEF ClosingFrames
  <2>2. \A i \in ClosingFrames(st) : st[i].id = f.id => i = Len(st)
    BY <1>1, <2>1 DEF Stack
  <2>3. QED
    BY <2>2, <1>2, <1>3 DEF Closing
<1>9. QED
  BY <1>2, <1>7, <1>8

LEMMA StackChange ==
  ASSUME NEW st, NEW sl, Stack(st, sl), NEW tl, NEW s, NEW conn, Changed(sl, tl, s, conn),
         conn.alive, conn.id = sl[s].id, sl[s].upgraded => conn.upgraded,
         conn.mode = "ws" /\ ~ conn.upgraded => conn.id \in Requesting(st)
  PROVE  Stack(st, tl)
<1>1. Alive(tl) = Alive(sl) /\ DOMAIN tl = DOMAIN sl
  BY DEF Alive, Changed
<1>2. \A r \in Alive(sl) : tl[r].id = sl[r].id /\ (sl[r].upgraded => tl[r].upgraded) /\ (r # s => tl[r] = sl[r])
  BY DEF Alive, Changed
<1>3. tl[s] = conn
  BY DEF Changed
<1>4. \A i \in ClosingFrames(st) :
        /\ st[i].slot \in Alive(tl) /\ tl[st[i].slot].id = st[i].id /\ tl[st[i].slot].upgraded
        /\ \A j \in ClosingFrames(st) : st[i].id = st[j].id => i = j
  BY <1>1, <1>2 DEF Stack
<1>5. \A r \in Alive(tl) : tl[r].mode = "ws" /\ ~ tl[r].upgraded => tl[r].id \in Requesting(st)
  BY <1>1, <1>2, <1>3 DEF Stack
<1>6. QED
  BY <1>1, <1>4, <1>5 DEF Stack

LEMMA StackVacate ==
  ASSUME NEW st, NEW sl, Stack(st, sl), NEW tl, NEW s, NEW left, Changed(sl, tl, s, left),
         ~ left.alive, sl[s].id \notin Closing(st)
  PROVE  Stack(st, tl)
<1>1. Alive(tl) = Alive(sl) \ {s} /\ DOMAIN tl = DOMAIN sl
  BY DEF Alive, Changed
<1>2. \A r \in Alive(tl) : r \in Alive(sl) /\ tl[r] = sl[r]
  BY <1>1 DEF Alive, Changed
<1>3. \A i \in ClosingFrames(st) : st[i].slot \in Alive(tl)
  BY <1>1 DEF Stack, Closing
<1>4. \A i \in ClosingFrames(st) :
        /\ st[i].slot \in Alive(tl) /\ tl[st[i].slot].id = st[i].id /\ tl[st[i].slot].upgraded
        /\ \A j \in ClosingFrames(st) : st[i].id = st[j].id => i = j
  BY <1>2, <1>3 DEF Stack
<1>5. \A r \in Alive(tl) : tl[r].mode = "ws" /\ ~ tl[r].upgraded => tl[r].id \in Requesting(st)
  BY <1>2 DEF Stack
<1>6. QED
  BY <1>1, <1>4, <1>5 DEF Stack

LEMMA StackAdd ==
  ASSUME NEW st, NEW sl, Stack(st, sl), NEW tl, NEW s, NEW conn, Added(sl, tl, s, conn),
         conn.alive, conn.mode = "http"
  PROVE  Stack(st, tl)
<1>1. Alive(tl) = Alive(sl) \cup {s} /\ DOMAIN sl \subseteq DOMAIN tl /\ tl[s] = conn
  BY DEF Alive, Added
<1>2. \A r \in Alive(sl) : tl[r] = sl[r]
  BY DEF Alive, Added
<1>4. \A i \in ClosingFrames(st) :
        /\ st[i].slot \in Alive(tl) /\ tl[st[i].slot].id = st[i].id /\ tl[st[i].slot].upgraded
        /\ \A j \in ClosingFrames(st) : st[i].id = st[j].id => i = j
  BY <1>1, <1>2 DEF Stack
<1>5. \A r \in Alive(tl) : tl[r].mode = "ws" /\ ~ tl[r].upgraded => tl[r].id \in Requesting(st)
  BY <1>1, <1>2 DEF Stack
<1>6. QED
  BY <1>1, <1>4, <1>5 DEF Stack

\* A stack of one call, where there was none.
LEMMA StackSolo ==
  ASSUME NEW sl, Stack(<< >>, sl), NEW f \in Frame, f.at # "closing",
         f.at \in {"reading", "framing"} => f.slot \in DOMAIN sl
  PROVE  Stack(<<f>>, sl) /\ Closing(<<f>>) = {}
<1>1. <<f>> \in Seq(Frame) /\ DOMAIN <<f>> = {1} /\ <<f>>[1] = f
  OBVIOUS
<1>2. Requesting(<< >>) = {}
  BY DEF Requesting
<1>3. ClosingFrames(<<f>>) = {}
  BY <1>1 DEF ClosingFrames
<1>4. Closing(<<f>>) = {}
  BY <1>3 DEF Closing
<1>5. \A s \in Alive(sl) : ~ (sl[s].mode = "ws" /\ ~ sl[s].upgraded)
  BY <1>2 DEF Stack
<1>6. \A i \in DOMAIN <<f>> : <<f>>[i].at \in {"reading", "framing"} => i = 1 /\ <<f>>[i].slot \in DOMAIN sl
  BY <1>1
<1>7. QED
  BY <1>1, <1>3, <1>4, <1>5, <1>6 DEF Stack

LEMMA StackIdle ==
  ASSUME NEW sl, Stack(<< >>, sl)
  PROVE  Closing(<< >>) = {} /\ \A s \in Alive(sl) : sl[s].mode = "http" \/ sl[s].mode # "ws" \/ sl[s].upgraded
BY DEF Stack, Closing, ClosingFrames, Requesting

(***************************************************************************)
(* Who owns a connection.                                                  *)
(***************************************************************************)

\* Nothing has happened to connection id.
Unmoved(id) ==
  /\ \A c \in Ctx : InTable(id, c)' <=> InTable(id, c)
  /\ \A w \in Worker : InQueue(id, w)' <=> InQueue(id, w)
  /\ IsLost(id)' <=> IsLost(id)
  /\ IsShut(id)' <=> IsShut(id)

LEMMA OwnedUnmoved ==
  ASSUME NEW id \in Conn, OwnedOnce(id), Unmoved(id), (id < nextId)' <=> id < nextId
  PROVE  OwnedOnce(id)'
BY DEF OwnedOnce, Unmoved

\* The five ways a step moves a connection, and the step that moves none.
NoneMoved ==
  /\ \A d \in Ctx : IdsOf(slots'[d]) = IdsOf(slots[d])
  /\ UNCHANGED <<inbox, lost, shut, nextId>>

LEMMA OwnersSame == ASSUME Owners, NoneMoved PROVE Owners'
<1>1. /\ \A d \in Ctx : IdsOf(slots'[d]) = IdsOf(slots[d])
      /\ inbox' = inbox /\ lost' = lost /\ shut' = shut /\ nextId' = nextId
  BY DEF NoneMoved
<1>2. \A id \in Conn : Unmoved(id)
  BY <1>1 DEF Unmoved, InTable, InQueue, IsLost, IsShut, QueuedConns
<1>3. \A id \in Conn : OwnedOnce(id)'
  BY <1>1, <1>2, OwnedUnmoved DEF Owners
<1>4. QED
  BY <1>1, <1>3 DEF Owners

LEMMA OwnersAccept ==
  ASSUME Owners, NEW c \in Ctx, nextId \in Conn, nextId' = nextId + 1,
         IdsOf(slots'[c]) = IdsOf(slots[c]) \cup {nextId},
         \A d \in Ctx \ {c} : IdsOf(slots'[d]) = IdsOf(slots[d]),
         UNCHANGED <<inbox, lost, shut>>
  PROVE  Owners'
<1>1. nextId \in Nat /\ \A k \in Conn : k \in Nat
  BY ConnFacts
<1>2. /\ \A d \in Ctx : ~ InTable(nextId, d)
      /\ \A w \in Worker : ~ InQueue(nextId, w)
      /\ ~ IsLost(nextId) /\ ~ IsShut(nextId)
  BY <1>1 DEF Owners, OwnedOnce
<1>3. ASSUME NEW k \in Conn
      PROVE  /\ \A d \in Ctx : InTable(k, d)' <=> InTable(k, d) \/ (k = nextId /\ d = c)
             /\ \A w \in Worker : InQueue(k, w)' <=> InQueue(k, w)
             /\ IsLost(k)' <=> IsLost(k)
             /\ IsShut(k)' <=> IsShut(k)
  <2>1. \A d \in Ctx : InTable(k, d)' <=> InTable(k, d) \/ (k = nextId /\ d = c)
    BY DEF InTable
  <2>2. \A w \in Worker : InQueue(k, w)' <=> InQueue(k, w)
    BY DEF InQueue, QueuedConns
  <2>3. QED
    BY <2>1, <2>2 DEF IsLost, IsShut
<1>4. ASSUME NEW k \in Conn PROVE OwnedOnce(k)'
  <2>1. CASE k = nextId
    <3>1. k < nextId'
      BY <2>1, <1>1
    <3>2. QED
      BY <3>1, <2>1, <1>2, <1>3 DEF OwnedOnce
  <2>2. CASE k # nextId
    <3>1. Unmoved(k)
      BY <2>2, <1>3 DEF Unmoved
    <3>2. k < nextId' <=> k < nextId
      BY <2>2, <1>1
    <3>3. OwnedOnce(k)
      BY DEF Owners
    <3>4. QED
      BY <3>1, <3>2, <3>3, OwnedUnmoved
  <2>3. QED
    BY <2>1, <2>2
<1>5. QED
  BY <1>4 DEF Owners

LEMMA OwnersDispose ==
  ASSUME Owners, shut \in [Conn -> Nat], NEW c \in Ctx, NEW id \in Conn, id \in IdsOf(slots[c]),
         IdsOf(slots'[c]) = IdsOf(slots[c]) \ {id},
         \A d \in Ctx \ {c} : IdsOf(slots'[d]) = IdsOf(slots[d]),
         shut' = [shut EXCEPT ![id] = @ + 1], UNCHANGED <<inbox, lost, nextId>>
  PROVE  Owners' /\ shut' \in [Conn -> Nat]
<1>1. InTable(id, c) /\ OwnedOnce(id)
  BY DEF InTable, Owners
<1>2. /\ id < nextId /\ ~ IsLost(id) /\ ~ IsShut(id) /\ \A d \in Ctx : InTable(id, d) => d = c
      /\ \A w \in Worker : ~ InQueue(id, w)
  BY <1>1 DEF OwnedOnce
<1>3. shut'[id] = 1 /\ \A k \in Conn \ {id} : shut'[k] = shut[k]
  BY <1>2 DEF IsShut
<1>4. ASSUME NEW k \in Conn
      PROVE  /\ \A d \in Ctx : InTable(k, d)' <=> InTable(k, d) /\ ~ (k = id /\ d = c)
             /\ \A w \in Worker : InQueue(k, w)' <=> InQueue(k, w)
             /\ IsLost(k)' <=> IsLost(k)
             /\ IsShut(k)' <=> IsShut(k) \/ k = id
  <2>1. \A d \in Ctx : InTable(k, d)' <=> InTable(k, d) /\ ~ (k = id /\ d = c)
    BY DEF InTable
  <2>2. \A w \in Worker : InQueue(k, w)' <=> InQueue(k, w)
    BY DEF InQueue, QueuedConns
  <2>3. IsShut(k)' <=> IsShut(k) \/ k = id
    BY <1>3 DEF IsShut
  <2>4. QED
    BY <2>1, <2>2, <2>3 DEF IsLost
<1>5. ASSUME NEW k \in Conn PROVE OwnedOnce(k)'
  <2>1. CASE k = id
    BY <2>1, <1>2, <1>4 DEF OwnedOnce
  <2>2. CASE k # id
    <3>1. Unmoved(k)
      BY <2>2, <1>4 DEF Unmoved
    <3>2. OwnedOnce(k)
      BY DEF Owners
    <3>3. QED
      BY <3>1, <3>2, OwnedUnmoved
  <2>3. QED
    BY <2>1, <2>2
<1>6. \A k \in Conn : shut'[k] <= 1
  BY <1>3 DEF Owners
<1>7. shut' \in [Conn -> Nat]
  OBVIOUS
<1>8. QED
  BY <1>5, <1>6, <1>7 DEF Owners

LEMMA OwnersGive ==
  ASSUME Owners, inbox \in [Worker -> Seq(Parcel)], Main \in Ctx, NEW w \in Worker, NEW p \in Parcel,
         p.conn.id \in Conn, p.conn.id \in IdsOf(slots[Main]),
         IdsOf(slots'[Main]) = IdsOf(slots[Main]) \ {p.conn.id},
         \A d \in Ctx \ {Main} : IdsOf(slots'[d]) = IdsOf(slots[d]),
         inbox' = [inbox EXCEPT ![w] = Append(@, p)], UNCHANGED <<shut, lost, nextId>>
  PROVE  /\ Owners' /\ inbox' \in [Worker -> Seq(Parcel)]
         /\ \A v \in Worker : \A i \in DOMAIN inbox'[v] :
              inbox'[v][i] = p \/ (i \in DOMAIN inbox[v] /\ inbox'[v][i] = inbox[v][i])
<1> DEFINE id == p.conn.id
<1> DEFINE q == inbox[w]
<1>1. InTable(id, Main) /\ OwnedOnce(id)
  BY DEF InTable, Owners
<1>2. /\ id < nextId /\ ~ IsLost(id) /\ ~ IsShut(id) /\ \A d \in Ctx : InTable(id, d) => d = Main
      /\ \A v \in Worker : ~ InQueue(id, v)
  BY <1>1 DEF OwnedOnce
<1>3. q \in Seq(Parcel)
  OBVIOUS
<1>4. /\ Len(q) \in Nat /\ DOMAIN q = 1..Len(q) /\ Append(q, p) \in Seq(Parcel)
      /\ DOMAIN Append(q, p) = 1..Len(q)+1 /\ Append(q, p)[Len(q)+1] = p
      /\ \A i \in 1..Len(q) : Append(q, p)[i] = q[i]
  BY <1>3, AppendProperties, LenProperties
<1>5. inbox'[w] = Append(q, p) /\ \A v \in Worker \ {w} : inbox'[v] = inbox[v]
  OBVIOUS
<1>6. inbox' \in [Worker -> Seq(Parcel)]
  BY <1>4, <1>5
<1>7. DOMAIN inbox'[w] = DOMAIN q \cup {Len(q)+1} /\ Len(q)+1 \notin DOMAIN q
  BY <1>4, <1>5
<1>8. inbox'[w][Len(q)+1] = p /\ \A i \in DOMAIN q : inbox'[w][i] = q[i]
  BY <1>4, <1>5
<1> HIDE DEF id
<1>9. \A k \in Conn : InQueue(k, w)' <=> InQueue(k, w) \/ k = id
  BY <1>7, <1>8 DEF InQueue, QueuedConns, id
<1>10. \A k \in Conn : \A v \in Worker \ {w} : InQueue(k, v)' <=> InQueue(k, v)
  BY <1>5 DEF InQueue, QueuedConns
<1>11. \A k \in Conn : \A d \in Ctx : InTable(k, d)' <=> InTable(k, d) /\ ~ (k = id /\ d = Main)
  BY DEF InTable, id
<1>12. \A k \in Conn : (IsLost(k)' <=> IsLost(k)) /\ (IsShut(k)' <=> IsShut(k))
  BY DEF IsLost, IsShut
<1>13. ASSUME NEW k \in Conn PROVE OwnedOnce(k)'
  <2>1. CASE k = id
    <3>1. /\ (k < nextId)' /\ InQueue(k, w)' /\ ~ IsLost(k)' /\ ~ IsShut(k)'
          /\ (\A v \in Worker : InQueue(k, v)' => v = w) /\ \A d \in Ctx : ~ InTable(k, d)'
      BY <2>1, <1>2, <1>9, <1>10, <1>11, <1>12
    <3>2. QED
      BY <3>1 DEF OwnedOnce
  <2>2. CASE k # id
    <3>1. Unmoved(k)
      BY <2>2, <1>9, <1>10, <1>11, <1>12 DEF Unmoved
    <3>2. OwnedOnce(k)
      BY DEF Owners
    <3>3. QED
      BY <3>1, <3>2, OwnedUnmoved
  <2>3. QED
    BY <2>1, <2>2
<1>14. \A i \in DOMAIN q : q[i].conn.id # id
  BY <1>2 DEF InQueue, QueuedConns
<1>15. ASSUME NEW v \in Worker, NEW i \in DOMAIN inbox'[v], NEW j \in DOMAIN inbox'[v],
              inbox'[v][i].conn.id = inbox'[v][j].conn.id
       PROVE  i = j
  <2>1. CASE v # w
    BY <2>1, <1>5, <1>15 DEF Owners
  <2>2. CASE v = w
    <3>1. CASE i \in DOMAIN q /\ j \in DOMAIN q
      <4>1. q[i].conn.id = q[j].conn.id
        BY <3>1, <2>2, <1>8, <1>15
      <4>2. QED
        BY <3>1, <4>1 DEF Owners
    <3>2. CASE i = Len(q)+1 \/ j = Len(q)+1
      BY <3>2, <2>2, <1>7, <1>8, <1>14, <1>15 DEF id
    <3>3. QED
      BY <3>1, <3>2, <2>2, <1>7
  <2>3. QED
    BY <2>1, <2>2
<1>16. \A v \in Worker : \A i \in DOMAIN inbox'[v] :
         inbox'[v][i] = p \/ (i \in DOMAIN inbox[v] /\ inbox'[v][i] = inbox[v][i])
  BY <1>5, <1>7, <1>8
<1>17. Owners'
  <2>1. \A v \in Worker : \A i, j \in DOMAIN inbox'[v] : inbox'[v][i].conn.id = inbox'[v][j].conn.id => i = j
    BY <1>15
  <2>2. QED
    BY <1>13, <2>1 DEF Owners
<1>18. QED
  BY <1>6, <1>16, <1>17

LEMMA OwnersDeliver ==
  ASSUME Owners, inbox \in [Worker -> Seq(Parcel)], Worker \subseteq Ctx, NEW w \in Worker,
         inbox[w] # << >>, NEW id \in Conn, id = Head(inbox[w]).conn.id,
         IdsOf(slots'[w]) = IdsOf(slots[w]) \cup {id},
         \A d \in Ctx \ {w} : IdsOf(slots'[d]) = IdsOf(slots[d]),
         inbox' = [inbox EXCEPT ![w] = Tail(@)], UNCHANGED <<shut, lost, nextId>>
  PROVE  /\ Owners' /\ inbox' \in [Worker -> Seq(Parcel)]
         /\ \A v \in Worker : \A i \in DOMAIN inbox'[v] : \E j \in DOMAIN inbox[v] : inbox'[v][i] = inbox[v][j]
<1> DEFINE q == inbox[w]
<1>1. q \in Seq(Parcel) /\ q # << >>
  OBVIOUS
<1>2. inbox'[w] = Tail(q) /\ \A v \in Worker \ {w} : inbox'[v] = inbox[v]
  OBVIOUS
<1> HIDE DEF q
<1>3. /\ Len(q) \in Nat /\ Len(q) >= 1 /\ DOMAIN q = 1..Len(q) /\ Tail(q) \in Seq(Parcel) /\ Head(q) = q[1]
      /\ Len(Tail(q)) = Len(q) - 1 /\ \A i \in 1..Len(Tail(q)) : Tail(q)[i] = q[i+1]
  BY <1>1, HeadTailProperties, LenProperties, EmptySeq
<1>4. DOMAIN Tail(q) = 1..Len(q)-1 /\ \A i \in 1..Len(q)-1 : Tail(q)[i] = q[i+1]
  BY <1>3, LenProperties
<1>5. inbox' \in [Worker -> Seq(Parcel)]
  BY <1>2, <1>3
<1>6. q[1].conn.id = id /\ 1 \in DOMAIN q /\ \A i, j \in DOMAIN q : q[i].conn.id = q[j].conn.id => i = j
  <2>1. \A i, j \in DOMAIN q : q[i].conn.id = q[j].conn.id => i = j
    BY DEF Owners, q
  <2>2. Head(q).conn.id = id
    BY DEF q
  <2>3. QED
    BY <2>1, <2>2, <1>3
<1>7. \A i \in 1..Len(q)-1 : i+1 \in DOMAIN q /\ i+1 # 1
  BY <1>3
<1>8. InQueue(id, w) /\ OwnedOnce(id)
  BY <1>6 DEF InQueue, QueuedConns, Owners, q
<1>9. /\ id < nextId /\ ~ IsLost(id) /\ ~ IsShut(id) /\ \A d \in Ctx : ~ InTable(id, d)
      /\ \A v \in Worker : InQueue(id, v) => v = w
  BY <1>8 DEF OwnedOnce
<1>10. \A k \in Conn : InQueue(k, w)' <=> InQueue(k, w) /\ k # id
  <2>1. \A k : k \in QueuedConns(w)' <=> \E i \in 1..Len(q)-1 : q[i+1].conn.id = k
    <3>0. inbox'[w] = Tail(q)
      BY <1>2
    <3>1. QueuedConns(w)' = {Tail(q)[i].conn.id : i \in 1..Len(q)-1}
      BY <3>0, <1>4 DEF QueuedConns
    <3>2. {Tail(q)[i].conn.id : i \in 1..Len(q)-1} = {q[i+1].conn.id : i \in 1..Len(q)-1}
      BY <1>4
    <3>3. QED
      BY <3>1, <3>2
  <2>2. \A k : k \in QueuedConns(w) <=> \E i \in DOMAIN q : q[i].conn.id = k
    BY DEF QueuedConns, q
  <2>3. ASSUME NEW k \in Conn, InQueue(k, w)' PROVE InQueue(k, w) /\ k # id
    <3>1. PICK i \in 1..Len(q)-1 : q[i+1].conn.id = k
      BY <2>1, <2>3 DEF InQueue
    <3>2. i+1 \in DOMAIN q /\ i+1 # 1
      BY <1>7
    <3>3. QED
      BY <3>1, <3>2, <2>2, <1>6 DEF InQueue
  <2>4. ASSUME NEW k \in Conn, InQueue(k, w), k # id PROVE InQueue(k, w)'
    <3>1. PICK i \in DOMAIN q : q[i].conn.id = k
      BY <2>2, <2>4 DEF InQueue
    <3>2. i # 1
      BY <3>1, <2>4, <1>6
    <3>3. i - 1 \in 1..Len(q)-1 /\ (i - 1) + 1 = i
      BY <3>2, <1>3
    <3>4. QED
      BY <3>1, <3>3, <2>1 DEF InQueue
  <2>5. QED
    BY <2>3, <2>4
<1>11. \A k \in Conn : \A v \in Worker \ {w} : InQueue(k, v)' <=> InQueue(k, v)
  BY <1>2 DEF InQueue, QueuedConns
<1>12. \A k \in Conn : \A d \in Ctx : InTable(k, d)' <=> InTable(k, d) \/ (k = id /\ d = w)
  BY DEF InTable
<1>13. \A k \in Conn : (IsLost(k)' <=> IsLost(k)) /\ (IsShut(k)' <=> IsShut(k))
  BY DEF IsLost, IsShut
<1>14. ASSUME NEW k \in Conn PROVE OwnedOnce(k)'
  <2>1. CASE k = id
    <3>1. /\ (k < nextId)' /\ InTable(k, w)' /\ ~ IsLost(k)' /\ ~ IsShut(k)'
          /\ (\A v \in Worker : ~ InQueue(k, v)') /\ \A d \in Ctx : InTable(k, d)' => d = w
      BY <2>1, <1>9, <1>10, <1>11, <1>12, <1>13
    <3>2. QED
      BY <3>1 DEF OwnedOnce
  <2>2. CASE k # id
    <3>1. Unmoved(k)
      BY <2>2, <1>10, <1>11, <1>12, <1>13 DEF Unmoved
    <3>2. OwnedOnce(k)
      BY DEF Owners
    <3>3. QED
      BY <3>1, <3>2, OwnedUnmoved
  <2>3. QED
    BY <2>1, <2>2
<1>15. \A v \in Worker : \A i, j \in DOMAIN inbox'[v] : inbox'[v][i].conn.id = inbox'[v][j].conn.id => i = j
  <2>1. ASSUME NEW i \in 1..Len(q)-1, NEW j \in 1..Len(q)-1, Tail(q)[i].conn.id = Tail(q)[j].conn.id PROVE i = j
    <3>1. i+1 = j+1
      BY <2>1, <1>4, <1>6, <1>7
    <3>2. QED
      BY <3>1
  <2>2. QED
    BY <2>1, <1>2, <1>4 DEF Owners
<1>16. \A v \in Worker : \A i \in DOMAIN inbox'[v] : \E j \in DOMAIN inbox[v] : inbox'[v][i] = inbox[v][j]
  BY <1>2, <1>4, <1>7 DEF q
<1>17. Owners'
  BY <1>14, <1>15 DEF Owners
<1>18. QED
  BY <1>5, <1>16, <1>17

LEMMA OwnersJoin ==
  ASSUME Owners, inbox \in [Worker -> Seq(Parcel)], lost \subseteq Thrown, NEW w \in Worker,
         \A i \in DOMAIN inbox[w] : inbox[w][i].conn.id \in Conn,
         \A d \in Ctx : IdsOf(slots'[d]) = IdsOf(slots[d]),
         inbox' = [inbox EXCEPT ![w] = << >>], lost' = lost \cup Discarded(w), UNCHANGED <<shut, nextId>>
  PROVE  /\ Owners' /\ inbox' \in [Worker -> Seq(Parcel)] /\ lost' \subseteq Thrown
         /\ \A v \in Worker : \A i \in DOMAIN inbox'[v] : \E j \in DOMAIN inbox[v] : inbox'[v][i] = inbox[v][j]
<1>1. inbox'[w] = << >> /\ \A v \in Worker \ {w} : inbox'[v] = inbox[v]
  OBVIOUS
<1>2. inbox' \in [Worker -> Seq(Parcel)]
  BY EmptySeq
<1>3. inbox[w] \in Seq(Parcel) /\ \A i \in DOMAIN inbox[w] : inbox[w][i] \in Parcel
  BY SeqFacts
<1>4. Discarded(w) \subseteq Thrown
  BY <1>3 DEF Discarded, Parcel, Thrown
<1>5. \A k \in Conn : IsLost(k)' <=> IsLost(k) \/ InQueue(k, w)
  <2>1. \A k : (\E l \in Discarded(w) : l.id = k) <=> k \in QueuedConns(w)
    <3>1. \A i \in DOMAIN inbox[w] : [id |-> inbox[w][i].conn.id, req |-> inbox[w][i].req] \in Discarded(w)
      BY DEF Discarded
    <3>2. \A i \in DOMAIN inbox[w] :
            [id |-> inbox[w][i].conn.id, req |-> inbox[w][i].req].id = inbox[w][i].conn.id
      OBVIOUS
    <3>3. \A l \in Discarded(w) : \E i \in DOMAIN inbox[w] : l.id = inbox[w][i].conn.id
      BY DEF Discarded
    <3>4. QED
      BY <3>1, <3>2, <3>3 DEF QueuedConns
  <2>2. QED
    BY <2>1 DEF IsLost, InQueue
<1>6. \A k \in Conn : ~ InQueue(k, w)' /\ \A v \in Worker \ {w} : InQueue(k, v)' <=> InQueue(k, v)
  BY <1>1 DEF InQueue, QueuedConns
<1>7. \A k \in Conn : \A d \in Ctx : InTable(k, d)' <=> InTable(k, d)
  BY DEF InTable
<1>8. \A k \in Conn : IsShut(k)' <=> IsShut(k)
  BY DEF IsShut
<1>9. ASSUME NEW k \in Conn PROVE OwnedOnce(k)'
  <2>1. OwnedOnce(k)
    BY DEF Owners
  <2>2. CASE InQueue(k, w)
    <3>1. /\ k < nextId /\ ~ IsShut(k) /\ (\A v \in Worker : InQueue(k, v) => v = w)
          /\ \A d \in Ctx : ~ InTable(k, d)
      BY <2>1, <2>2 DEF OwnedOnce
    <3>2. /\ (k < nextId)' /\ IsLost(k)' /\ ~ IsShut(k)'
          /\ (\A v \in Worker : ~ InQueue(k, v)') /\ \A d \in Ctx : ~ InTable(k, d)'
      BY <3>1, <2>2, <1>5, <1>6, <1>7, <1>8
    <3>3. QED
      BY <3>2 DEF OwnedOnce
  <2>3. CASE ~ InQueue(k, w)
    <3>1. Unmoved(k)
      BY <2>3, <1>5, <1>6, <1>7, <1>8 DEF Unmoved
    <3>2. QED
      BY <3>1, <2>1, OwnedUnmoved
  <2>4. QED
    BY <2>2, <2>3
<1>10. ASSUME NEW l \in lost', NEW m \in lost', l.id = m.id PROVE l = m
  <2>1. ASSUME NEW x \in Discarded(w), NEW y \in lost PROVE x.id # y.id
    <3>1. PICK i \in DOMAIN inbox[w] : x = [id |-> inbox[w][i].conn.id, req |-> inbox[w][i].req]
      BY DEF Discarded
    <3>2. x.id \in Conn /\ InQueue(x.id, w)
      BY <3>1 DEF InQueue, QueuedConns
    <3>3. ~ IsLost(x.id)
      BY <3>2 DEF Owners, OwnedOnce
    <3>4. QED
      BY <3>3 DEF IsLost
  <2>2. ASSUME NEW x \in Discarded(w), NEW y \in Discarded(w), x.id = y.id PROVE x = y
    <3>1. PICK i \in DOMAIN inbox[w] : x = [id |-> inbox[w][i].conn.id, req |-> inbox[w][i].req]
      BY DEF Discarded
    <3>2. PICK j \in DOMAIN inbox[w] : y = [id |-> inbox[w][j].conn.id, req |-> inbox[w][j].req]
      BY DEF Discarded
    <3>3. i = j
      BY <3>1, <3>2, <2>2 DEF Owners
    <3>4. QED
      BY <3>1, <3>2, <3>3
  <2>3. l \in lost \cup Discarded(w) /\ m \in lost \cup Discarded(w)
    OBVIOUS
  <2>4. QED
    BY <2>1, <2>2, <2>3, <1>10 DEF Owners
<1>11. Owners'
  <2>1. \A v \in Worker : \A i, j \in DOMAIN inbox'[v] : inbox'[v][i].conn.id = inbox'[v][j].conn.id => i = j
    BY <1>1 DEF Owners
  <2>2. \A k \in Conn : shut'[k] <= 1
    BY DEF Owners
  <2>3. QED
    BY <1>9, <1>10, <2>1, <2>2 DEF Owners
<1>12. \A v \in Worker : \A i \in DOMAIN inbox'[v] : \E j \in DOMAIN inbox[v] : inbox'[v][i] = inbox[v][j]
  BY <1>1
<1>13. lost' \subseteq Thrown
  BY <1>4
<1>14. QED
  BY <1>2, <1>11, <1>12, <1>13

(***************************************************************************)
(* Steps of one context, and what they keep.                               *)
(***************************************************************************)

LEMMA CtxFacts == Main \in Ctx /\ Worker \subseteq Ctx
BY DEF Ctx

LEMMA ByIdFacts ==
  ASSUME NEW c \in Ctx, Tabled(c), NEW id \in 0..MaxConn
  PROVE  /\ ById(c, id) # 0 => /\ ById(c, id) \in Alive(slots[c]) /\ slots[c][ById(c, id)].id = id
                               /\ id \in Conn /\ slots[c][ById(c, id)] \in Record
         /\ ById(c, id) = 0 => id \notin IdsOf(slots[c])
<1> DEFINE s == IndexGet(index[c], id)
<1>1. /\ \A r \in Alive(slots[c]) : slots[c][r].id = id => s = r
      /\ id \notin IdsOf(slots[c]) => s = 0
  BY TableGet DEF Tabled
<1>2. \A r \in Alive(slots[c]) : r # 0 /\ slots[c][r] \in Record /\ slots[c][r].id \in Conn
  BY TableFacts DEF Tabled
<1>3. CASE id \in IdsOf(slots[c])
  <2>1. PICK r \in Alive(slots[c]) : slots[c][r].id = id
    BY <1>3 DEF IdsOf
  <2>2. s = r /\ r # 0 /\ slots[c][r].alive
    BY <2>1, <1>1, <1>2 DEF Alive
  <2>3. ById(c, id) = r
    BY <2>1, <2>2 DEF ById
  <2>4. QED
    BY <2>1, <2>3, <1>2, <2>2
<1>4. CASE id \notin IdsOf(slots[c])
  BY <1>1, <1>4 DEF ById
<1>5. QED
  BY <1>3, <1>4

\* A connection whose close handler runs is in the table that handler's context has.
LEMMA ClosingOwned ==
  ASSUME Contexts, NEW d \in Ctx, NEW k \in Closing(calls[d])
  PROVE  k \in IdsOf(slots[d]) /\ k \in Conn
<1>1. PICK i \in ClosingFrames(calls[d]) : calls[d][i].id = k
  BY DEF Closing
<1>2. calls[d][i].slot \in Alive(slots[d]) /\ slots[d][calls[d][i].slot].id = k
  BY <1>1 DEF Contexts, Stack
<1>3. k \in Conn
  BY <1>2, TableFacts DEF Contexts, Tabled
<1>4. QED
  BY <1>2, <1>3 DEF IdsOf

LEMMA IdsInConn ==
  ASSUME Contexts, NEW d \in Ctx, NEW s \in Alive(slots[d])
  PROVE  slots[d][s].id \in Conn /\ slots[d][s].id \in IdsOf(slots[d]) /\ slots[d][s] \in Record
         /\ slots[d][s].alive /\ s \in DOMAIN slots[d]
         /\ (slots[d][s].upgraded => slots[d][s].mode = "ws")
         /\ \A r \in Alive(slots[d]) : slots[d][r].id = slots[d][s].id => r = s
BY TableFacts DEF Contexts, Tabled, IdsOf, Alive, Table

\* Context c has done something to its own table and stack.
Local(c) ==
  /\ Others(c) /\ \A d \in Ctx \ {c} : calls'[d] = calls[d]
  /\ Tabled(c)' /\ Stack(calls'[c], slots'[c])

LEMMA ContextsStep == ASSUME Contexts, NEW c \in Ctx, Local(c) PROVE Contexts'
<1> SUFFICES ASSUME NEW d \in Ctx PROVE Tabled(d)' /\ Stack(calls'[d], slots'[d])
  BY DEF Contexts
<1>1. CASE d = c
  BY <1>1 DEF Local
<1>2. CASE d # c
  <2>1. slots'[d] = slots[d] /\ free'[d] = free[d] /\ index'[d] = index[d] /\ used'[d] = used[d] /\ calls'[d] = calls[d]
    BY <1>2 DEF Local, Others
  <2>2. QED
    BY <2>1 DEF Contexts, Tabled
<1>3. QED
  BY <1>1, <1>2

LEMMA QueuedKept ==
  ASSUME Queued, UNCHANGED switched,
         \A v \in Worker : \A i \in DOMAIN inbox'[v] : \E j \in DOMAIN inbox[v] : inbox'[v][i] = inbox[v][j]
  PROVE  Queued'
BY DEF Queued

\* A step after which every connection is where it was, in the same protocol.
LEMMA QuietKeeps ==
  ASSUME Core, NEW c \in Ctx, Local(c), IdsOf(slots'[c]) = IdsOf(slots[c]), Closing(calls'[c]) = Closing(calls[c]),
         \A s \in Alive(slots'[c]) : /\ s \in Alive(slots[c]) /\ slots'[c][s].id = slots[c][s].id
                                     /\ slots'[c][s].mode = slots[c][s].mode,
         UNCHANGED <<inbox, lost, shut, nextId, switched, closeEvents>>
  PROVE  Core'
<1>1. Contexts'
  BY ContextsStep DEF Core
<1>2. NoneMoved
  <2>1. \A d \in Ctx \ {c} : IdsOf(slots'[d]) = IdsOf(slots[d])
    BY DEF Local, Others
  <2>2. QED
    BY <2>1 DEF NoneMoved
<1>3. Owners'
  BY <1>2, OwnersSame DEF Core
<1>4. Queued'
  BY QueuedKept DEF Core
<1>5. \A d \in Ctx : Closing(calls'[d]) = Closing(calls[d])
  BY DEF Local
<1>6. \A d \in Ctx : \A s \in Alive(slots'[d]) : slots'[d][s].mode = "ws" <=> slots'[d][s].id \in switched
  <2>1. \A d \in Ctx \ {c} : slots'[d] = slots[d]
    BY DEF Local, Others
  <2>2. QED
    BY <2>1 DEF Core, Closed
<1>7. Closed'
  BY <1>5, <1>6 DEF Core, Closed
<1>8. QED
  BY <1>1, <1>3, <1>4, <1>7 DEF Core

\* A step that changes no table and no stack.
LEMMA StillKeeps ==
  ASSUME Core, UNCHANGED <<tables, calls, inbox, lost, shut, nextId, switched, closeEvents>>
  PROVE  Core'
<1>1. Contexts'
  BY DEF Core, Contexts, Tabled, tables
<1>2. NoneMoved
  BY DEF NoneMoved, tables
<1>3. Owners'
  BY <1>2, OwnersSame DEF Core
<1>4. Queued'
  BY QueuedKept DEF Core
<1>5. Closed'
  BY DEF Core, Closed, tables
<1>6. QED
  BY <1>1, <1>3, <1>4, <1>5 DEF Core

\* A step that changes no table, and of the stacks that of c only.
LEMMA CallsKeep ==
  ASSUME Core, NEW c \in Ctx, Stack(calls'[c], slots[c]), Closing(calls'[c]) = Closing(calls[c]),
         \A d \in Ctx \ {c} : calls'[d] = calls[d],
         UNCHANGED <<tables, inbox, lost, shut, nextId, switched, closeEvents>>
  PROVE  Core'
<1>1. slots' = slots /\ free' = free /\ index' = index /\ used' = used
  BY DEF tables
<1>2. Tabled(c)'
  BY <1>1 DEF Core, Contexts, Tabled
<1>3. Local(c)
  BY <1>1, <1>2 DEF Local, Others
<1>4. QED
  BY <1>1, <1>3, QuietKeeps

\* A step that changes a live slot of c, but neither its conn_id nor its protocol.
LEMMA UpdateKeeps ==
  ASSUME Core, Domains, NEW c \in Ctx, NEW s \in Alive(slots[c]), NEW conn \in Record,
         conn.alive, conn.id = slots[c][s].id, conn.mode = slots[c][s].mode,
         slots[c][s].upgraded => conn.upgraded, conn.upgraded => conn.mode = "ws",
         slots' = [slots EXCEPT ![c] = [slots[c] EXCEPT ![s] = conn]], UNCHANGED <<free, index, used>>,
         Changed(slots[c], slots'[c], s, conn) => Stack(calls'[c], slots'[c]),
         Closing(calls'[c]) = Closing(calls[c]), \A d \in Ctx \ {c} : calls'[d] = calls[d],
         UNCHANGED <<inbox, lost, shut, nextId, switched, closeEvents>>
  PROVE  Core' /\ Domains'
<1>1. /\ Domains' /\ Tabled(c)' /\ Others(c) /\ Changed(slots[c], slots'[c], s, conn)
      /\ Alive(slots'[c]) = Alive(slots[c]) /\ IdsOf(slots'[c]) = IdsOf(slots[c])
  BY UpdateStep DEF Core, Contexts
<1>2. Local(c)
  BY <1>1 DEF Local
<1>3. \A r \in Alive(slots'[c]) : /\ r \in Alive(slots[c]) /\ slots'[c][r].id = slots[c][r].id
                                  /\ slots'[c][r].mode = slots[c][r].mode
  BY <1>1 DEF Changed, Alive
<1>4. QED
  BY <1>1, <1>2, <1>3, QuietKeeps

\* The record of a connection whose slot is given up.
LEMMA BlankFacts ==
  ASSUME NEW id \in 0..MaxConn
  PROVE  /\ Blank \in Record /\ ~ Blank.alive /\ ~ Blank.upgraded
         /\ [Blank EXCEPT !.id = id] \in Record
         /\ ~ [Blank EXCEPT !.id = id].alive /\ ~ [Blank EXCEPT !.id = id].upgraded
<1>1. 0 \in 0..MaxConn /\ << >> \in Seq(Item)
  BY ConnFacts
<1>2. Blank \in Record
  BY <1>1 DEF Blank, Record
<1>3. [Blank EXCEPT !.id = id] \in Record
  BY <1>1 DEF Blank, Record
<1>4. QED
  BY <1>2, <1>3 DEF Blank

LEMMA FreshFacts ==
  ASSUME NEW id \in Conn
  PROVE  /\ Fresh(id) \in Record /\ Fresh(id).alive /\ Fresh(id).id = id /\ Fresh(id).mode = "http"
         /\ ~ Fresh(id).upgraded
<1>1. id \in 0..MaxConn /\ << >> \in Seq(Item)
  BY ConnFacts
<1>2. QED
  BY <1>1 DEF Fresh, Blank, Record

LEMMA DisposeKeeps ==
  ASSUME Types, Core, NEW c \in Ctx, NEW s \in Alive(slots[c]), Dispose(c, s),
         NEW rest, calls' = [calls EXCEPT ![c] = rest], Stack(rest, slots[c]),
         slots[c][s].id \notin Closing(rest),
         \/ ~ slots[c][s].upgraded /\ slots[c][s].mode = "http" /\ Closing(calls[c]) = Closing(rest)
         \/ slots[c][s].upgraded /\ Closing(calls[c]) = Closing(rest) \cup {slots[c][s].id},
         UNCHANGED <<inbox, lost, nextId, switched, closeEvents>>
  PROVE  /\ Core' /\ Domains' /\ DOMAIN calls' = Ctx
         /\ shut' \in [Conn -> Nat] /\ wire' \in [Conn -> Seq(Item)]
<1> DEFINE id == slots[c][s].id
<1> DEFINE left == [Blank EXCEPT !.id = id]
<1>1. /\ id \in Conn /\ id \in IdsOf(slots[c]) /\ (slots[c][s].upgraded => slots[c][s].mode = "ws")
      /\ \A r \in Alive(slots[c]) : slots[c][r].id = id => r = s
  BY IdsInConn DEF Core
<1>2. /\ Vacate(c, s, left) /\ shut' = [shut EXCEPT ![id] = @ + 1] /\ wire' = [wire EXCEPT ![id] = << >>]
  BY DEF Dispose
<1>3. left \in Record /\ ~ left.alive /\ ~ left.upgraded
  BY <1>1, BlankFacts, ConnFacts
<1> HIDE DEF left
<1>4. Domains /\ Tabled(c)
  BY DEF Types, Core, Contexts
<1>5. /\ Domains' /\ Tabled(c)' /\ Others(c) /\ Changed(slots[c], slots'[c], s, left)
      /\ Alive(slots'[c]) = Alive(slots[c]) \ {s} /\ IdsOf(slots'[c]) = IdsOf(slots[c]) \ {id}
  BY <1>2, <1>3, <1>4, VacateStep
<1>6. calls'[c] = rest /\ DOMAIN calls' = Ctx /\ \A d \in Ctx \ {c} : calls'[d] = calls[d]
  BY DEF Types
<1>7. Stack(calls'[c], slots'[c])
  BY <1>3, <1>5, <1>6, StackVacate
<1>8. Contexts'
  BY <1>5, <1>6, <1>7, ContextsStep DEF Local, Core
<1>9. Owners' /\ shut' \in [Conn -> Nat]
  <2>1. \A d \in Ctx \ {c} : IdsOf(slots'[d]) = IdsOf(slots[d])
    BY <1>5 DEF Others
  <2>2. Owners /\ shut \in [Conn -> Nat]
    BY DEF Core, Types
  <2> HIDE DEF id
  <2>3. QED
    BY <1>1, <1>2, <1>5, <2>1, <2>2, OwnersDispose
<1>10. Queued'
  BY QueuedKept DEF Core
<1>11. wire' \in [Conn -> Seq(Item)]
  <2>1. << >> \in Seq(Item) /\ wire \in [Conn -> Seq(Item)]
    BY EmptySeq DEF Types
  <2>2. QED
    BY <1>2, <2>1
<1>12. Closed'
  <2>1. \A d \in Ctx : \A r \in Alive(slots'[d]) : slots'[d][r].mode = "ws" <=> slots'[d][r].id \in switched'
    <3>1. \A d \in Ctx \ {c} : slots'[d] = slots[d]
      BY <1>5 DEF Others
    <3>2. \A r \in Alive(slots'[c]) : r \in Alive(slots[c]) /\ slots'[c][r] = slots[c][r]
      BY <1>5 DEF Changed, Alive
    <3>3. QED
      BY <3>1, <3>2 DEF Core, Closed
  <2>2. \A k \in Conn \ {id} : shut'[k] = shut[k] /\ (k \in Closing(calls'[c]) <=> k \in Closing(calls[c]))
    BY <1>1, <1>2, <1>6 DEF Types
  <2>3. ASSUME NEW k \in Conn
        PROVE closeEvents'[k] = IF \/ \E d \in Ctx : k \in Closing(calls'[d])
                                   \/ shut'[k] > 0 /\ k \in switched'
                                THEN 1 ELSE 0
    <3>1. CASE k # id
      <4>1. (\E d \in Ctx : k \in Closing(calls'[d])) <=> \E d \in Ctx : k \in Closing(calls[d])
        BY <3>1, <1>6, <2>2
      <4>2. QED
        BY <3>1, <4>1, <2>2 DEF Core, Closed
    <3>2. CASE k = id
      <4>1. /\ ~ IsShut(id) /\ \A d \in Ctx \ {c} : ~ InTable(id, d)
        BY <1>1 DEF Core, Owners, OwnedOnce, InTable
      <4>2. \A d \in Ctx \ {c} : id \notin Closing(calls[d])
        BY <4>1, ClosingOwned DEF InTable, Core
      <4>3. \A d \in Ctx : id \notin Closing(calls'[d])
        BY <4>2, <1>6
      <4>4. shut'[id] > 0
        BY <1>1, <1>2 DEF Types
      <4>5. CASE slots[c][s].upgraded
        <5>1. id \in switched
          BY <4>5, <1>1 DEF Core, Closed
        <5>2. id \in Closing(calls[c])
          BY <4>5
        <5>3. closeEvents[id] = 1
          BY <5>2, <1>1 DEF Core, Closed
        <5>4. QED
          BY <3>2, <4>4, <5>1, <5>3
      <4>6. CASE ~ slots[c][s].upgraded
        <5>1. slots[c][s].mode # "ws" /\ id \notin Closing(calls[c])
          BY <4>6
        <5>2. id \notin switched
          BY <5>1 DEF Core, Closed
        <5>3. closeEvents[id] = 0
          BY <5>1, <5>2, <4>2, <1>1 DEF Core, Closed
        <5>4. QED
          BY <3>2, <4>3, <5>2, <5>3
      <4>7. QED
        BY <4>5, <4>6
    <3>3. QED
      BY <3>1, <3>2
  <2>4. \A k \in Conn : k >= nextId' => k \notin switched'
    BY DEF Core, Closed
  <2>5. QED
    BY <2>1, <2>3, <2>4 DEF Closed
<1>13. QED
  BY <1>5, <1>6, <1>8, <1>9, <1>10, <1>11, <1>12 DEF Core

LEMMA TeardownKeeps ==
  ASSUME Types, Core, NEW c \in Ctx, NEW s \in Alive(slots[c]), NEW rest, Teardown(c, s, rest),
         Stack(rest, slots[c]), Closing(rest) = Closing(calls[c]), slots[c][s].id \notin Closing(calls[c]),
         slots[c][s].mode = "http" \/ slots[c][s].upgraded,
         UNCHANGED <<inbox, lost, nextId, switched>>
  PROVE  /\ Core' /\ Domains' /\ DOMAIN calls' = Ctx
         /\ shut' \in [Conn -> Nat] /\ wire' \in [Conn -> Seq(Item)] /\ closeEvents' \in [Conn -> Nat]
<1> DEFINE id == slots[c][s].id
<1>1. /\ id \in Conn /\ id \in IdsOf(slots[c]) /\ (slots[c][s].upgraded => slots[c][s].mode = "ws")
      /\ s \in DOMAIN slots[c]
  BY IdsInConn DEF Core
<1>2. CASE slots[c][s].upgraded
  <2> DEFINE f == [Handler("closing", id) EXCEPT !.slot = s]
  <2>1. /\ calls' = [calls EXCEPT ![c] = Append(rest, f)]
        /\ closeEvents' = [closeEvents EXCEPT ![id] = @ + 1]
        /\ UNCHANGED <<tables, wire, shut>>
    BY <1>2 DEF Teardown, RunsCloseHandler
  <2>2. /\ f \in Frame /\ f.at = "closing" /\ f.slot = s /\ f.id = id
    <3>1. s \in Nat
      BY TableFacts DEF Core, Contexts, Tabled
    <3>2. id \in 0..MaxConn
      BY <1>1, ConnFacts
    <3>3. 0 \in 0..MaxReq
      BY ConnAssumption
    <3>4. QED
      BY <3>1, <3>2, <3>3, CtxFacts DEF Frame, Handler, Doing, UserCode
  <2> HIDE DEF f
  <2>3. Pushed(rest, Append(rest, f), f)
    BY <2>2, PushFacts
  <2>4. Stack(Append(rest, f), slots[c]) /\ Closing(Append(rest, f)) = Closing(rest) \cup {id}
    BY <1>2, <2>2, <2>3, StackPushClosing
  <2>5. calls'[c] = Append(rest, f) /\ DOMAIN calls' = Ctx /\ \A d \in Ctx \ {c} : calls'[d] = calls[d]
    BY <2>1 DEF Types
  <2>6. slots' = slots /\ free' = free /\ index' = index /\ used' = used
    BY <2>1 DEF tables
  <2>7. Tabled(c)'
    BY <2>6 DEF Core, Contexts, Tabled
  <2>8. Contexts'
    BY <2>4, <2>5, <2>6, <2>7, ContextsStep DEF Local, Others, Core
  <2>9. Owners'
    BY <2>1, <2>6, OwnersSame DEF NoneMoved, Core
  <2>10. Queued'
    BY QueuedKept DEF Core
  <2>11. Closed'
    <3>1. ASSUME NEW k \in Conn
          PROVE closeEvents'[k] = IF \/ \E d \in Ctx : k \in Closing(calls'[d])
                                     \/ shut'[k] > 0 /\ k \in switched'
                                  THEN 1 ELSE 0
      <4>1. CASE k # id
        <5>1. \A d \in Ctx : k \in Closing(calls'[d]) <=> k \in Closing(calls[d])
          BY <4>1, <2>4, <2>5
        <5>2. closeEvents'[k] = closeEvents[k] /\ shut'[k] = shut[k]
          BY <4>1, <2>1 DEF Types
        <5>3. QED
          BY <5>1, <5>2 DEF Core, Closed
      <4>2. CASE k = id
        <5>1. /\ ~ IsShut(id) /\ \A d \in Ctx \ {c} : ~ InTable(id, d)
          BY <1>1 DEF Core, Owners, OwnedOnce, InTable
        <5>2. \A d \in Ctx : id \notin Closing(calls[d])
          BY <5>1, ClosingOwned DEF InTable, Core
        <5>3. closeEvents[id] = 0
          BY <5>1, <5>2, <1>1 DEF Core, Closed, IsShut
        <5>4. closeEvents'[id] = 1
          BY <5>3, <2>1, <1>1 DEF Types
        <5>5. id \in Closing(calls'[c])
          BY <2>4, <2>5
        <5>6. QED
          BY <4>2, <5>4, <5>5
      <4>3. QED
        BY <4>1, <4>2
    <3>2. QED
      BY <3>1, <2>6 DEF Core, Closed
  <2>12. shut' \in [Conn -> Nat] /\ wire' \in [Conn -> Seq(Item)] /\ closeEvents' \in [Conn -> Nat]
    <3>1. shut' \in [Conn -> Nat] /\ wire' \in [Conn -> Seq(Item)]
      BY <2>1 DEF Types
    <3>2. closeEvents \in [Conn -> Nat]
      BY DEF Types
    <3>3. closeEvents' \in [Conn -> Nat]
      BY <2>1, <3>2, <1>1
    <3>4. QED
      BY <3>1, <3>3
  <2>13. Domains'
    BY <2>6 DEF Types, Domains
  <2>14. QED
    BY <2>5, <2>8, <2>9, <2>10, <2>11, <2>12, <2>13 DEF Core
<1>3. CASE ~ slots[c][s].upgraded
  <2>1. calls' = [calls EXCEPT ![c] = rest] /\ Dispose(c, s) /\ closeEvents' = closeEvents
    BY <1>3 DEF Teardown, RunsCloseHandler
  <2>2. closeEvents' \in [Conn -> Nat]
    BY <2>1 DEF Types
  <2>3. slots[c][s].mode = "http"
    BY <1>3
  <2>4. /\ Core' /\ Domains' /\ DOMAIN calls' = Ctx
        /\ shut' \in [Conn -> Nat] /\ wire' \in [Conn -> Seq(Item)]
    BY <1>3, <2>1, <2>3, DisposeKeeps
  <2>5. QED
    BY <2>2, <2>4
<1>4. QED
  BY <1>2, <1>3

\* accept(): a new connection in c's table.
LEMMA AcceptKeeps ==
  ASSUME Types, Core, NEW c \in Ctx, nextId \in Conn, nextId' = nextId + 1, Install(c, Fresh(nextId)),
         UNCHANGED <<calls, inbox, lost, shut, switched, closeEvents>>
  PROVE  Core' /\ Domains'
<1> DEFINE id == nextId
<1> DEFINE conn == Fresh(id)
<1>1. conn \in Record /\ conn.alive /\ conn.id = id /\ conn.mode = "http" /\ ~ conn.upgraded
  BY FreshFacts
<1> HIDE DEF conn
<1>2. \A k \in Conn : k \in Nat
  BY ConnFacts
<1>3. /\ \A d \in Ctx : ~ InTable(id, d)
      /\ id \notin switched
  <2>1. ~ (id < nextId) /\ id >= nextId
    BY <1>2
  <2>2. QED
    BY <2>1 DEF Core, Owners, OwnedOnce, Closed
<1>4. id \notin IdsOf(slots[c])
  BY <1>3 DEF InTable
<1>5. Domains /\ Tabled(c)
  BY DEF Types, Core, Contexts
<1>6. /\ Domains' /\ Tabled(c)' /\ Others(c) /\ Added(slots[c], slots'[c], SlotFor(c), conn)
  <2>1. Install(c, conn)
    BY DEF conn
  <2>2. QED
    BY <1>1, <1>4, <1>5, <2>1, InstallStep
<1>7. Stack(calls'[c], slots'[c])
  BY <1>1, <1>6, StackAdd DEF Core, Contexts
<1>8. Contexts'
  BY <1>6, <1>7, ContextsStep DEF Local, Core
<1>9. /\ Alive(slots'[c]) = Alive(slots[c]) \cup {SlotFor(c)} /\ IdsOf(slots'[c]) = IdsOf(slots[c]) \cup {id}
      /\ \A r \in Alive(slots[c]) : slots'[c][r] = slots[c][r]
  BY <1>1, <1>6, AddedFacts
<1>10. Owners'
  <2>1. \A d \in Ctx \ {c} : IdsOf(slots'[d]) = IdsOf(slots[d])
    BY <1>6 DEF Others
  <2>2. QED
    BY <1>9, <2>1, OwnersAccept DEF Core
<1>11. Queued'
  BY QueuedKept DEF Core
<1>12. Closed'
  <2>1. \A d \in Ctx : \A r \in Alive(slots'[d]) : slots'[d][r].mode = "ws" <=> slots'[d][r].id \in switched'
    <3>1. \A d \in Ctx \ {c} : slots'[d] = slots[d]
      BY <1>6 DEF Others
    <3>2. slots'[c][SlotFor(c)] = conn
      BY <1>6 DEF Added
    <3>3. \A r \in Alive(slots'[c]) : slots'[c][r].mode = "ws" <=> slots'[c][r].id \in switched
      BY <1>1, <1>3, <1>9, <3>2 DEF Core, Closed
    <3>4. QED
      BY <3>1, <3>3 DEF Core, Closed
  <2>2. \A k \in Conn : k >= nextId' => k \notin switched'
    <3>1. \A k \in Conn : k >= nextId' => k >= nextId
      BY <1>2
    <3>2. QED
      BY <3>1 DEF Core, Closed
  <2>3. QED
    BY <2>1, <2>2 DEF Core, Closed
<1>13. QED
  BY <1>6, <1>8, <1>10, <1>11, <1>12 DEF Core

(***************************************************************************)
(* The actions, one lemma each.                                            *)
(***************************************************************************)

\* What Reported has gathered before slot s, in terms of what it has before slot s - 1.
Gathered(c, f, s) ==
  IF s = 0 THEN << >>
  ELSE IF slots[c][s].alive /\ Readable(slots[c][s].id) THEN Append(f[s-1], slots[c][s].id)
  ELSE f[s-1]

LEMMA ReportedTyped ==
  ASSUME Contexts, NEW c \in Ctx
  PROVE  Reported(c) \in Seq(Conn)
<1> DEFINE n == Len(slots[c])
<1> DEFINE Upto(k) == \E f : f = [s \in 0..k |-> Gathered(c, f, s)] /\ f[k] \in Seq(Conn)
<1> DEFINE S == {k \in 0..n : Upto(k)}
<1>0. n \in Nat /\ DOMAIN slots[c] = 1..n
  BY TableFacts DEF Contexts, Tabled
<1> HIDE DEF n
<1>1. Upto(0)
  <2> DEFINE f == [s \in 0..0 |-> << >>]
  <2>1. f = [s \in 0..0 |-> Gathered(c, f, s)]
    BY DEF Gathered
  <2>2. f[0] \in Seq(Conn)
    BY EmptySeq
  <2>3. QED
    BY <2>1, <2>2
<1>2. ASSUME NEW k \in 0..n-1, Upto(k) PROVE Upto(k + 1)
  <2>1. PICK f : f = [s \in 0..k |-> Gathered(c, f, s)] /\ f[k] \in Seq(Conn)
    BY <1>2
  <2> DEFINE g == [s \in 0..k+1 |-> Gathered(c, f, s)]
  <2>2. \A s \in 0..k : g[s] = f[s]
    BY <2>1
  <2>3. ASSUME NEW s \in 0..k+1 PROVE Gathered(c, g, s) = Gathered(c, f, s)
    <3>1. s # 0 => s - 1 \in 0..k
      OBVIOUS
    <3>2. s # 0 => g[s-1] = f[s-1]
      BY <3>1, <2>2
    <3> HIDE DEF g
    <3>3. QED
      BY <3>2 DEF Gathered
  <2>4. g = [s \in 0..k+1 |-> Gathered(c, g, s)]
    BY <2>3
  <2>5. g[k+1] \in Seq(Conn)
    <3>1. g[k+1] = Gathered(c, f, k + 1) /\ k + 1 # 0 /\ (k + 1) - 1 = k /\ k + 1 \in DOMAIN slots[c]
      BY <1>0
    <3>2. slots[c][k+1].alive => slots[c][k+1].id \in Conn
      BY <3>1, IdsInConn DEF Alive
    <3>3. slots[c][k+1].alive => Append(f[k], slots[c][k+1].id) \in Seq(Conn)
      BY <2>1, <3>2, AppendProperties
    <3> HIDE DEF g
    <3>4. QED
      BY <2>1, <3>1, <3>3 DEF Gathered
  <2>6. QED
    BY <2>4, <2>5
<1> HIDE DEF Upto
<1>3. 0 \in S /\ \A k \in 0..n-1 : k \in S => k + 1 \in S
  BY <1>0, <1>1, <1>2
<1> HIDE DEF S
<1>4. n \in S
  <2>1. 0..n \subseteq S
    BY <1>0, <1>3, InductionTo
  <2>2. QED
    BY <1>0, <2>1
<1>5. Upto(n)
  BY <1>4 DEF S
<1> DEFINE F == CHOOSE f : f = [s \in 0..n |-> Gathered(c, f, s)]
<1>6. Reported(c) = F[n]
  BY DEF Reported, Gathered, n
<1>7. PICK f : f = [s \in 0..n |-> Gathered(c, f, s)] /\ f[n] \in Seq(Conn)
  BY <1>5 DEF Upto
<1>8. F = [s \in 0..n |-> Gathered(c, F, s)]
  BY <1>7
<1> HIDE DEF F
<1>9. \A k \in 0..n : F[k] = f[k]
  <2> DEFINE T == {k \in 0..n : F[k] = f[k]}
  <2>1. F[0] = f[0]
    BY <1>0, <1>7, <1>8 DEF Gathered
  <2>2. ASSUME NEW k \in 0..n-1, F[k] = f[k] PROVE F[k+1] = f[k+1]
    <3>1. k + 1 \in 0..n /\ k + 1 # 0 /\ (k + 1) - 1 = k
      BY <1>0
    <3>2. F[k+1] = Gathered(c, F, k + 1) /\ f[k+1] = Gathered(c, f, k + 1)
      BY <1>7, <1>8, <3>1
    <3>3. Gathered(c, F, k + 1) = Gathered(c, f, k + 1)
      BY <2>2, <3>1 DEF Gathered
    <3>4. QED
      BY <3>2, <3>3
  <2>3. 0 \in T /\ \A k \in 0..n-1 : k \in T => k + 1 \in T
    BY <1>0, <2>1, <2>2
  <2> HIDE DEF T
  <2>4. 0..n \subseteq T
    BY <1>0, <2>3, InductionTo
  <2>5. QED
    BY <2>4 DEF T
<1>10. QED
  BY <1>0, <1>6, <1>7, <1>9

LEMMA TypesKept ==
  ASSUME Types, UNCHANGED sending, nextId' \in 1..MaxConn+1, pc' \in [Ctx -> Pc], pc'[Main] # "dead",
         ready' \in [Ctx -> Seq(Conn)], inbox' \in [Worker -> Seq(Parcel)], lost' \subseteq Thrown,
         wire' \in [Conn -> Seq(Item)], shut' \in [Conn -> Nat], closeEvents' \in [Conn -> Nat],
         switched' \subseteq Conn, Domains', DOMAIN calls' = Ctx
  PROVE  Types'
BY DEF Types, sending

\* The call a context is in.
LEMMA TopFacts ==
  ASSUME Contexts, NEW c \in Ctx, ~ Idle(c)
  PROVE  /\ Top(c) \in Frame /\ Popped(calls[c], Beneath(c), Top(c))
         /\ Top(c).id \in 0..MaxConn /\ Top(c).req \in 0..MaxReq /\ Top(c).slot \in Nat
         /\ Top(c).at = "closing" => Top(c).id \in Closing(calls[c])
         /\ Top(c).at = "request" => Top(c).id \in Requesting(calls[c])
<1>1. Stack(calls[c], slots[c]) /\ calls[c] # << >>
  BY DEF Contexts, Idle
<1>2. Popped(calls[c], Beneath(c), Top(c)) /\ Len(calls[c]) \in DOMAIN calls[c]
  BY <1>1, PopFacts, StackFacts DEF Top, Beneath
<1>3. Top(c) \in Frame
  BY <1>1, <1>2, StackFacts DEF Top
<1>4. QED
  BY <1>2, <1>3, FrameFacts DEF Top, Closing, ClosingFrames, Requesting

\* The calls that the model makes are frames.
LEMMA CallFacts ==
  /\ \A at \in UserCode \cup {"reading", "framing", "join"} : Doing(at) \in Frame /\ Doing(at).at = at
  /\ \A at \in UserCode : \A id \in 0..MaxConn :
       Handler(at, id) \in Frame /\ Handler(at, id).at = at /\ Handler(at, id).id = id
  /\ \A id \in 0..MaxConn : \A r \in 0..MaxReq :
       Request(id, r) \in Frame /\ Request(id, r).at = "request" /\ Request(id, r).id = id
<1>1. 0 \in 0..MaxConn /\ 0 \in 0..MaxReq /\ Main \in Ctx /\ 0 \in Nat
  BY ConnAssumption DEF Ctx
<1>2. \A at \in UserCode \cup {"reading", "framing", "join"} : Doing(at) \in Frame /\ Doing(at).at = at
  BY <1>1 DEF Doing, Frame
<1>3. \A at \in UserCode : \A id \in 0..MaxConn :
        Handler(at, id) \in Frame /\ Handler(at, id).at = at /\ Handler(at, id).id = id
  BY <1>1 DEF Doing, Frame, Handler
<1>4. \A id \in 0..MaxConn : \A r \in 0..MaxReq :
        Request(id, r) \in Frame /\ Request(id, r).at = "request" /\ Request(id, r).id = id
  BY <1>1 DEF Doing, Frame, Handler, Request, UserCode
<1>5. QED
  BY <1>2, <1>3, <1>4

\* A record whose buffer, or whose request, changes.
LEMMA RecordBuf ==
  ASSUME NEW conn \in Record, NEW b \in Seq(Item)
  PROVE  /\ [conn EXCEPT !.buf = b] \in Record
         /\ [conn EXCEPT !.buf = b].id = conn.id /\ [conn EXCEPT !.buf = b].alive = conn.alive
         /\ [conn EXCEPT !.buf = b].mode = conn.mode /\ [conn EXCEPT !.buf = b].upgraded = conn.upgraded
BY DEF Record

LEMMA RecordResponded ==
  ASSUME NEW conn \in Record, NEW b \in BOOLEAN
  PROVE  /\ [conn EXCEPT !.responded = b] \in Record
         /\ [conn EXCEPT !.responded = b].id = conn.id /\ [conn EXCEPT !.responded = b].alive = conn.alive
         /\ [conn EXCEPT !.responded = b].mode = conn.mode
         /\ [conn EXCEPT !.responded = b].upgraded = conn.upgraded
         /\ [conn EXCEPT !.responded = b].buf = conn.buf
BY DEF Record

LEMMA IdleFacts ==
  ASSUME Contexts, NEW c \in Ctx, Idle(c)
  PROVE  /\ calls[c] = << >> /\ Stack(<< >>, slots[c]) /\ Closing(calls[c]) = {} /\ Closing(<< >>) = {}
         /\ \A s \in Alive(slots[c]) : slots[c][s].mode = "http" \/ slots[c][s].upgraded
<1>1. calls[c] = << >> /\ Stack(<< >>, slots[c])
  BY DEF Contexts, Idle
<1>2. Closing(<< >>) = {} /\ \A s \in Alive(slots[c]) : slots[c][s].mode = "http" \/ slots[c][s].mode # "ws" \/ slots[c][s].upgraded
  BY <1>1, StackIdle
<1>3. \A s \in Alive(slots[c]) : slots[c][s].mode \in {"http", "ws"}
  BY IdsInConn, RecordFacts
<1>4. QED
  BY <1>1, <1>2, <1>3

\* The poll loop tears a connection down.
LEMMA IdleTeardown ==
  ASSUME Types, Core, NEW c \in Ctx, Idle(c), NEW s \in Alive(slots[c]), Teardown(c, s, << >>),
         UNCHANGED <<inbox, lost, nextId, switched>>
  PROVE  /\ Core' /\ Domains' /\ DOMAIN calls' = Ctx
         /\ shut' \in [Conn -> Nat] /\ wire' \in [Conn -> Seq(Item)] /\ closeEvents' \in [Conn -> Nat]
<1>1. /\ calls[c] = << >> /\ Stack(<< >>, slots[c]) /\ Closing(calls[c]) = {} /\ Closing(<< >>) = {}
      /\ slots[c][s].mode = "http" \/ slots[c][s].upgraded
  BY IdleFacts DEF Core
<1>2. QED
  BY <1>1, TeardownKeeps

\* An idle context calls user code.
LEMMA IdleCall ==
  ASSUME Types, Core, NEW c \in Ctx, Idle(c), NEW f \in Frame, f.at \notin {"closing", "reading", "framing"},
         calls' = [calls EXCEPT ![c] = <<f>>],
         UNCHANGED <<tables, inbox, lost, shut, nextId, switched, closeEvents>>
  PROVE  Core' /\ DOMAIN calls' = Ctx
<1>1. calls[c] = << >> /\ Stack(<< >>, slots[c]) /\ Closing(calls[c]) = {}
  BY IdleFacts DEF Core
<1>2. Stack(<<f>>, slots[c]) /\ Closing(<<f>>) = {}
  BY <1>1, StackSolo
<1>3. calls'[c] = <<f>> /\ DOMAIN calls' = Ctx /\ \A d \in Ctx \ {c} : calls'[d] = calls[d]
  BY DEF Types
<1>4. QED
  BY <1>1, <1>2, <1>3, CallsKeep

\* User code, or a parsing loop, calls user code.
LEMMA PushKeeps ==
  ASSUME Types, Core, NEW c \in Ctx, NEW f \in Frame, f.at \notin {"closing", "reading", "framing"},
         calls' = [calls EXCEPT ![c] = Append(calls[c], f)],
         UNCHANGED <<tables, inbox, lost, shut, nextId, switched, closeEvents>>
  PROVE  Core' /\ DOMAIN calls' = Ctx
<1> DEFINE tt == Append(calls[c], f)
<1>1. Stack(calls[c], slots[c])
  BY DEF Core, Contexts
<1>2. Pushed(calls[c], tt, f)
  BY <1>1, PushFacts
<1>3. Stack(tt, slots[c]) /\ Closing(tt) = Closing(calls[c])
  BY <1>1, <1>2, StackPush
<1>4. calls'[c] = tt /\ DOMAIN calls' = Ctx /\ \A d \in Ctx \ {c} : calls'[d] = calls[d]
  BY DEF Types
<1> HIDE DEF tt
<1>5. QED
  BY <1>3, <1>4, CallsKeep

\* A call that is not a close handler returns.
LEMMA PopKeeps ==
  ASSUME Types, Core, NEW c \in Ctx, ~ Idle(c), Top(c).at # "closing",
         Top(c).at = "request" =>
           \A s \in Alive(slots[c]) : slots[c][s].id = Top(c).id => slots[c][s].mode = "http" \/ slots[c][s].upgraded,
         calls' = [calls EXCEPT ![c] = Beneath(c)],
         UNCHANGED <<tables, inbox, lost, shut, nextId, switched, closeEvents>>
  PROVE  Core' /\ DOMAIN calls' = Ctx
<1>1. Stack(calls[c], slots[c])
  BY DEF Core, Contexts
<1>2. Popped(calls[c], Beneath(c), Top(c))
  BY TopFacts DEF Core
<1>3. Stack(Beneath(c), slots[c]) /\ Closing(Beneath(c)) = Closing(calls[c])
  BY <1>1, <1>2, StackPop
<1>4. calls'[c] = Beneath(c) /\ DOMAIN calls' = Ctx /\ \A d \in Ctx \ {c} : calls'[d] = calls[d]
  BY DEF Types
<1>5. QED
  BY <1>3, <1>4, CallsKeep

LEMMA CallbackFrame == ASSUME NEW stack \in Callbacks PROVE stack = <<Doing("callback")>> /\ Doing("callback") \in Frame
                              /\ Doing("callback").at = "callback"
BY CallFacts DEF Callbacks, UserCode

LEMMA PollKeeps == ASSUME IInv, NEW c \in Ctx, Poll(c) PROVE IInv'
<1>1. Types /\ Core /\ Contexts
  BY DEF IInv, Core
<1>2. /\ pc' = [pc EXCEPT ![c] = "serve"] /\ ready' = [ready EXCEPT ![c] = Reported(c)]
      /\ UNCHANGED <<calls, inbox, lost, wire, sending, shut, closeEvents, switched>>
  BY DEF Poll, handoff, client, outcome, fates, replies
<1>3. Reported(c) \in Seq(Conn)
  BY <1>1, ReportedTyped
<1>4. pc' \in [Ctx -> Pc] /\ pc'[Main] # "dead" /\ ready' \in [Ctx -> Seq(Conn)]
  BY <1>1, <1>2, <1>3, CtxFacts DEF Types, Pc
<1>5. CASE UNCHANGED <<tables, nextId>>
  <2>1. Core'
    BY <1>1, <1>2, <1>5, StillKeeps
  <2>2. Types'
    BY <1>1, <1>2, <1>4, <1>5, TypesKept DEF Types, Domains, tables
  <2>3. QED
    BY <2>1, <2>2 DEF IInv
<1>6. CASE nextId <= MaxConn /\ Install(c, Fresh(nextId)) /\ nextId' = nextId + 1
  <2>1. nextId \in Conn /\ nextId' \in 1..MaxConn+1
    BY <1>1, <1>6, ConnFacts DEF Types, Conn
  <2>2. Core' /\ Domains'
    BY <1>1, <1>2, <1>6, <2>1, AcceptKeeps
  <2>3. Types'
    BY <1>1, <1>2, <1>4, <2>1, <2>2, TypesKept DEF Types
  <2>4. QED
    BY <2>2, <2>3 DEF IInv
<1>7. QED
  BY <1>5, <1>6 DEF Poll

LEMMA ServeKeeps == ASSUME IInv, NEW c \in Ctx, Serve(c) PROVE IInv'
<1>1. Types /\ Core /\ Contexts /\ Tabled(c) /\ Domains
  BY DEF IInv, Core, Contexts, Types
<1> DEFINE id == Head(ready[c])
<1> DEFINE s == ById(c, id)
<1>2. /\ Idle(c) /\ ready[c] # << >> /\ ready' = [ready EXCEPT ![c] = Tail(@)]
      /\ UNCHANGED <<nextId, pc, inbox, lost, sending, switched>>
  BY DEF Serve, handoff, replies
<1>3. id \in Conn /\ Tail(ready[c]) \in Seq(Conn)
  BY <1>1, <1>2, HeadTailProperties DEF Types
<1>4. ready' \in [Ctx -> Seq(Conn)] /\ id \in 0..MaxConn
  BY <1>1, <1>2, <1>3, ConnFacts DEF Types
<1>5. s # 0 => s \in Alive(slots[c]) /\ slots[c][s] \in Record
  BY <1>1, <1>4, ByIdFacts
<1>6. CASE UNCHANGED <<tables, calls, ending>>
  <2>1. Core'
    BY <1>1, <1>2, <1>6, StillKeeps DEF ending, fates
  <2>2. Types'
    BY <1>1, <1>2, <1>4, <1>6, TypesKept DEF Types, Domains, tables, ending, fates
  <2>3. QED
    BY <2>1, <2>2 DEF IInv
<1>7. CASE s # 0 /\ Teardown(c, s, << >>)
  <2> HIDE DEF s
  <2>1. /\ Core' /\ Domains' /\ DOMAIN calls' = Ctx
        /\ shut' \in [Conn -> Nat] /\ wire' \in [Conn -> Seq(Item)] /\ closeEvents' \in [Conn -> Nat]
    BY <1>1, <1>2, <1>5, <1>7, IdleTeardown
  <2>2. Types'
    BY <1>1, <1>2, <1>4, <2>1, TypesKept DEF Types
  <2>3. QED
    BY <2>1, <2>2 DEF IInv
<1>8. CASE /\ s # 0
           /\ slots' = [slots EXCEPT ![c][s].buf = @ \o wire[id]]
           /\ wire' = [wire EXCEPT ![id] = << >>]
           /\ calls' = [calls EXCEPT ![c] = <<[Doing(IF slots[c][s].mode = "http" THEN "reading"
                                                     ELSE "framing") EXCEPT !.slot = s]>>]
           /\ UNCHANGED <<free, index, used, fates>>
  <2> HIDE DEF s, id
  <2> DEFINE conn == [slots[c][s] EXCEPT !.buf = slots[c][s].buf \o wire[id]]
  <2> DEFINE at == IF slots[c][s].mode = "http" THEN "reading" ELSE "framing"
  <2> DEFINE f == [Doing(at) EXCEPT !.slot = s]
  <2>1. s \in Alive(slots[c]) /\ slots[c][s] \in Record /\ slots[c][s].alive /\ s \in DOMAIN slots[c]
        /\ (slots[c][s].upgraded => slots[c][s].mode = "ws") /\ s \in Nat
    <3>1. s \in Alive(slots[c]) /\ slots[c][s] \in Record
      BY <1>5, <1>8
    <3>2. s \in Nat
      BY <1>1, <3>1, TableFacts DEF Tabled
    <3>3. QED
      BY <1>1, <3>1, <3>2, IdsInConn
  <2>2. wire[id] \in Seq(Item) /\ slots[c][s].buf \in Seq(Item)
    BY <1>1, <1>3, <2>1, RecordFacts DEF Types
  <2>3. slots[c][s].buf \o wire[id] \in Seq(Item)
    BY <2>2, ConcatProperties
  <2>4. /\ conn \in Record /\ conn.id = slots[c][s].id /\ conn.alive = slots[c][s].alive
        /\ conn.mode = slots[c][s].mode /\ conn.upgraded = slots[c][s].upgraded
    BY <2>1, <2>3, RecordBuf
  <2>5. slots' = [slots EXCEPT ![c] = [slots[c] EXCEPT ![s] = conn]]
    BY <1>8
  <2>6. f \in Frame /\ f.at \in {"reading", "framing"} /\ f.slot = s
    <3>1. at \in {"reading", "framing"}
      OBVIOUS
    <3> HIDE DEF at
    <3>2. Doing(at) \in Frame /\ Doing(at).at = at
      BY <3>1, CallFacts
    <3>3. QED
      BY <2>1, <3>1, <3>2 DEF Frame
  <2>7. calls' = [calls EXCEPT ![c] = <<f>>]
    BY <1>8
  <2> HIDE DEF conn, f
  <2>8. calls'[c] = <<f>> /\ DOMAIN calls' = Ctx /\ \A d \in Ctx \ {c} : calls'[d] = calls[d]
    BY <1>1, <2>7 DEF Types
  <2>9. Stack(<< >>, slots[c]) /\ Closing(calls[c]) = {}
    BY <1>1, <1>2, IdleFacts
  <2>10. ASSUME Changed(slots[c], slots'[c], s, conn) PROVE Stack(calls'[c], slots'[c])
    <3>0. slots[c][s].mode = "http" \/ slots[c][s].upgraded
      BY <1>1, <1>2, <2>1, IdleFacts
    <3>1. Stack(<< >>, slots'[c])
      <4>1. conn.alive /\ (conn.mode = "ws" => conn.upgraded)
        BY <2>1, <2>4, <3>0
      <4>2. QED
        BY <2>4, <2>9, <2>10, <4>1, StackChange
    <3>2. s \in DOMAIN slots'[c]
      BY <2>1, <2>10 DEF Changed
    <3>3. Stack(<<f>>, slots'[c])
      BY <2>6, <3>1, <3>2, StackSolo
    <3>4. QED
      BY <2>8, <3>3
  <2>11. Closing(calls'[c]) = Closing(calls[c])
    BY <2>6, <2>8, <2>9, <2>1, StackSolo
  <2>12. UNCHANGED <<inbox, lost, shut, nextId, switched, closeEvents, free, index, used>>
    BY <1>2, <1>8 DEF fates
  <2>13. Core' /\ Domains'
    BY <1>1, <2>1, <2>4, <2>5, <2>8, <2>10, <2>11, <2>12, UpdateKeeps
  <2>14. << >> \in Seq(Item)
    BY EmptySeq
  <2>15. wire' \in [Conn -> Seq(Item)]
    BY <1>1, <1>8, <2>14 DEF Types
  <2>16. Types'
    BY <1>1, <1>2, <1>4, <2>8, <2>12, <2>13, <2>15, TypesKept DEF Types
  <2>17. QED
    BY <2>13, <2>16 DEF IInv
<1>9. QED
  <2>1. \/ s = 0 /\ UNCHANGED <<tables, calls, ending>>
        \/ s # 0 /\ Teardown(c, s, << >>)
        \/ /\ s # 0
           /\ slots' = [slots EXCEPT ![c][s].buf = @ \o wire[id]]
           /\ wire' = [wire EXCEPT ![id] = << >>]
           /\ calls' = [calls EXCEPT ![c] = <<[Doing(IF slots[c][s].mode = "http" THEN "reading"
                                                     ELSE "framing") EXCEPT !.slot = s]>>]
           /\ UNCHANGED <<free, index, used, fates>>
    BY DEF Serve
  <2>2. QED
    BY <1>6, <1>7, <1>8, <2>1

\* The parsing loops are called by the poll loop only.
LEMMA SoloTop ==
  ASSUME Contexts, NEW c \in Ctx, ~ Idle(c), Top(c).at \in {"reading", "framing"}
  PROVE  /\ Closing(calls[c]) = {} /\ Requesting(calls[c]) = {}
         /\ Top(c).slot \in DOMAIN slots[c] /\ slots[c][Top(c).slot].id \in 0..MaxConn
         /\ \A s \in Alive(slots[c]) : slots[c][s].mode = "http" \/ slots[c][s].upgraded
<1>1. Stack(calls[c], slots[c]) /\ calls[c] # << >>
  BY DEF Contexts, Idle
<1>2. Len(calls[c]) \in DOMAIN calls[c] /\ DOMAIN calls[c] = 1..Len(calls[c]) /\ Len(calls[c]) \in Nat
  BY <1>1, StackFacts
<1>3. Len(calls[c]) = 1 /\ Top(c) = calls[c][1] /\ Top(c).slot \in DOMAIN slots[c]
  BY <1>1, <1>2 DEF Stack, Top
<1>4. DOMAIN calls[c] = {1}
  BY <1>2, <1>3
<1>5. Closing(calls[c]) = {} /\ Requesting(calls[c]) = {}
  BY <1>3, <1>4 DEF Closing, ClosingFrames, Requesting
<1>6. slots[c][Top(c).slot].id \in 0..MaxConn
  BY <1>3, TableFacts, RecordFacts DEF Contexts, Tabled
<1>7. \A s \in Alive(slots[c]) : slots[c][s].mode \in {"http", "ws"}
  BY IdsInConn, RecordFacts
<1>8. \A s \in Alive(slots[c]) : slots[c][s].mode = "http" \/ slots[c][s].upgraded
  BY <1>1, <1>5, <1>7 DEF Stack
<1>9. QED
  BY <1>3, <1>5, <1>6, <1>8

LEMMA ParsedFacts ==
  ASSUME NEW buf \in Seq(Item)
  PROVE  /\ Parsed(buf) = "request" => buf[1] \in Item /\ buf[1].req \in 0..MaxReq
         /\ Parsed(buf) \in {"message", "end"} => buf # << >>
<1>1. Len(buf) >= 2 => buf[1] \in Item
  BY LenProperties
<1>2. Parsed(buf) = "request" => Complete(buf)
  BY DEF Parsed
<1>3. Parsed(buf) \in {"message", "end"} => buf # << >>
  BY DEF Parsed
<1>4. QED
  BY <1>1, <1>2, <1>3 DEF Complete, Item

LEMMA RunCallbacksKeeps == ASSUME IInv, RunCallbacks PROVE IInv'
<1>1. Types /\ Core /\ Main \in Ctx
  BY CtxFacts DEF IInv
<1>2. /\ Idle(Main) /\ pc' = [pc EXCEPT ![Main] = "reap"]
      /\ UNCHANGED <<tables, nextId, ready, inbox, lost, wire, sending, shut, closeEvents, switched>>
  BY DEF RunCallbacks, Served, handoff, client, outcome, fates, replies
<1>3. calls' = [calls EXCEPT ![Main] = <<Doing("callback")>>] /\ Doing("callback") \in Frame
      /\ Doing("callback").at = "callback"
  BY CallbackFrame DEF RunCallbacks
<1>4. Core' /\ DOMAIN calls' = Ctx
  BY <1>1, <1>2, <1>3, IdleCall
<1>5. pc' \in [Ctx -> Pc] /\ pc'[Main] # "dead"
  BY <1>1, <1>2, CtxFacts, ConnAssumption DEF Types, Pc
<1>6. Types'
  BY <1>1, <1>2, <1>4, <1>5, TypesKept DEF Types, Domains, tables
<1>7. QED
  BY <1>4, <1>6 DEF IInv

LEMMA ReapKeeps == ASSUME IInv, NEW c \in Ctx, Reap(c) PROVE IInv'
<1>1. Types /\ Core
  BY DEF IInv
<1>2. /\ Idle(c) /\ pc' = [pc EXCEPT ![c] = "round"]
      /\ UNCHANGED <<nextId, ready, inbox, lost, sending, switched>>
  BY DEF Reap, Served, handoff, replies
<1>3. pc' \in [Ctx -> Pc] /\ pc'[Main] # "dead"
  BY <1>1, <1>2, CtxFacts, ConnAssumption DEF Types, Pc
<1>4. CASE UNCHANGED <<tables, calls, ending>>
  <2>1. Core'
    BY <1>1, <1>2, <1>4, StillKeeps DEF ending, fates
  <2>2. Types'
    BY <1>1, <1>2, <1>3, <1>4, TypesKept DEF Types, Domains, tables, ending, fates
  <2>3. QED
    BY <2>1, <2>2 DEF IInv
<1>5. ASSUME NEW s \in LiveSlots(c), Teardown(c, s, << >>) PROVE IInv'
  <2>1. s \in Alive(slots[c])
    BY DEF LiveSlots, Alive
  <2>2. /\ Core' /\ Domains' /\ DOMAIN calls' = Ctx
        /\ shut' \in [Conn -> Nat] /\ wire' \in [Conn -> Seq(Item)] /\ closeEvents' \in [Conn -> Nat]
    BY <1>1, <1>2, <1>5, <2>1, IdleTeardown
  <2>3. Types'
    BY <1>1, <1>2, <1>3, <2>2, TypesKept DEF Types
  <2>4. QED
    BY <2>2, <2>3 DEF IInv
<1>6. QED
  BY <1>4, <1>5 DEF Reap

LEMMA TeardownNextKeeps == ASSUME IInv, NEW w \in Worker, TeardownNext(w) PROVE IInv'
<1>1. Types /\ Core /\ w \in Ctx
  BY CtxFacts DEF IInv
<1>2. /\ Idle(w) /\ UNCHANGED <<nextId, pc, ready, inbox, lost, sending, switched>>
  BY DEF TeardownNext, handoff, replies
<1>3. PICK s \in LiveSlots(w) : Teardown(w, s, << >>)
  BY DEF TeardownNext
<1>4. s \in Alive(slots[w])
  BY DEF LiveSlots, Alive
<1>5. /\ Core' /\ Domains' /\ DOMAIN calls' = Ctx
      /\ shut' \in [Conn -> Nat] /\ wire' \in [Conn -> Seq(Item)] /\ closeEvents' \in [Conn -> Nat]
  BY <1>1, <1>2, <1>3, <1>4, IdleTeardown
<1>6. Types'
  BY <1>1, <1>2, <1>5, TypesKept DEF Types
<1>7. QED
  BY <1>5, <1>6 DEF IInv

LEMMA MessageKeeps == ASSUME IInv, NEW w \in Worker, Message(w) PROVE IInv'
<1>1. Types /\ Core /\ w \in Ctx
  BY CtxFacts DEF IInv
<1>2. /\ Idle(w)
      /\ UNCHANGED <<tables, nextId, pc, ready, inbox, lost, wire, sending, shut, closeEvents, switched>>
  BY DEF Message, handoff, client, outcome, fates, replies
<1>3. calls' = [calls EXCEPT ![w] = <<Doing("callback")>>] /\ Doing("callback") \in Frame
      /\ Doing("callback").at = "callback"
  BY CallbackFrame DEF Message
<1>4. Core' /\ DOMAIN calls' = Ctx
  BY <1>1, <1>2, <1>3, IdleCall
<1>5. Types'
  BY <1>1, <1>2, <1>4, TypesKept DEF Types, Domains, tables
<1>6. QED
  BY <1>4, <1>5 DEF IInv

LEMMA KillSeenKeeps == ASSUME IInv, NEW w \in Worker, KillSeen(w) PROVE IInv'
<1>1. Types /\ Core /\ w \in Ctx
  BY CtxFacts DEF IInv
<1>2. /\ Idle(w) /\ pc' = [pc EXCEPT ![w] = "teardown"]
      /\ UNCHANGED <<tables, nextId, ready, inbox, lost, wire, sending, shut, closeEvents, switched>>
  BY DEF KillSeen, handoff, client, outcome, fates, replies
<1>3. PICK stack \in {<< >>} \cup Callbacks : calls' = [calls EXCEPT ![w] = stack]
  BY DEF KillSeen
<1>4. Core' /\ DOMAIN calls' = Ctx
  <2>1. CASE stack = << >>
    <3>1. Stack(<< >>, slots[w]) /\ Closing(calls[w]) = {} /\ Closing(<< >>) = {}
      BY <1>1, <1>2, IdleFacts DEF Core
    <3>2. calls'[w] = << >> /\ DOMAIN calls' = Ctx /\ \A d \in Ctx \ {w} : calls'[d] = calls[d]
      BY <1>1, <1>3, <2>1 DEF Types
    <3>3. QED
      BY <1>1, <1>2, <3>1, <3>2, CallsKeep
  <2>2. CASE stack \in Callbacks
    <3>1. calls' = [calls EXCEPT ![w] = <<Doing("callback")>>] /\ Doing("callback") \in Frame
          /\ Doing("callback").at = "callback"
      BY <1>3, <2>2, CallbackFrame
    <3>2. QED
      BY <1>1, <1>2, <3>1, IdleCall
  <2>3. QED
    BY <2>1, <2>2
<1>5. pc' \in [Ctx -> Pc] /\ pc'[Main] # "dead"
  BY <1>1, <1>2, CtxFacts, ConnAssumption DEF Types, Pc
<1>6. Types'
  BY <1>1, <1>2, <1>4, <1>5, TypesKept DEF Types, Domains, tables
<1>7. QED
  BY <1>4, <1>6 DEF IInv

LEMMA ReturnKeeps == ASSUME IInv, NEW c \in Ctx, Return(c) PROVE IInv'
<1>1. Types /\ Core
  BY DEF IInv
<1>2. /\ ~ Idle(c) /\ Top(c).at \notin {"closing", "request"} /\ calls' = [calls EXCEPT ![c] = Beneath(c)]
      /\ UNCHANGED <<tables, nextId, pc, ready, inbox, lost, wire, sending, shut, closeEvents, switched>>
  BY DEF Return, InCode, handoff, client, outcome, fates, replies
<1>3. Core' /\ DOMAIN calls' = Ctx
  BY <1>1, <1>2, PopKeeps
<1>4. Types'
  BY <1>1, <1>2, <1>3, TypesKept DEF Types, Domains, tables
<1>5. QED
  BY <1>3, <1>4 DEF IInv

LEMMA KillKeeps == ASSUME IInv, NEW w \in Worker, Kill(w) PROVE IInv'
<1>1. Types /\ Core /\ w \in Ctx /\ Main \in Ctx
  BY CtxFacts DEF IInv
<1> DEFINE f == [Doing("join") EXCEPT !.thread = w]
<1>2. /\ calls' = [calls EXCEPT ![Main] = Append(calls[Main], f)]
      /\ UNCHANGED <<tables, nextId, pc, ready, inbox, lost, wire, sending, shut, closeEvents, switched>>
  BY DEF Kill, client, outcome, fates, replies
<1>3. f \in Frame /\ f.at = "join"
  <2>1. Doing("join") \in Frame /\ Doing("join").at = "join"
    BY CallFacts
  <2>2. QED
    BY <1>1, <2>1 DEF Frame
<1> HIDE DEF f
<1>4. Core' /\ DOMAIN calls' = Ctx
  BY <1>1, <1>2, <1>3, PushKeeps
<1>5. Types'
  BY <1>1, <1>2, <1>4, TypesKept DEF Types, Domains, tables
<1>6. QED
  BY <1>4, <1>5 DEF IInv

LEMMA LiveKeeps == ASSUME IInv, NEW w \in Worker, Live(w) PROVE IInv'
<1>1. Types /\ Core
  BY DEF IInv
<1>2. /\ pc' = [pc EXCEPT ![w] = "round"]
      /\ UNCHANGED <<tables, calls, nextId, ready, inbox, lost, wire, sending, shut, closeEvents, switched>>
  BY DEF Live, client, outcome, fates, replies
<1>3. Core'
  BY <1>1, <1>2, StillKeeps
<1>4. pc' \in [Ctx -> Pc] /\ pc'[Main] # "dead"
  BY <1>1, <1>2, CtxFacts, ConnAssumption DEF Types, Pc
<1>5. Types'
  BY <1>1, <1>2, <1>4, TypesKept DEF Types, Domains, tables
<1>6. QED
  BY <1>3, <1>5 DEF IInv


LEMMA FreeTablesKeeps == ASSUME IInv, NEW w \in Worker, FreeTables(w) PROVE IInv'
<1>1. Types /\ Core /\ w \in Ctx /\ Contexts /\ Domains
  BY CtxFacts DEF IInv, Core, Types
<1>2. /\ Idle(w) /\ LiveSlots(w) = {}
      /\ slots' = [slots EXCEPT ![w] = << >>] /\ free' = [free EXCEPT ![w] = << >>]
      /\ index' = [index EXCEPT ![w] = EmptyTable(0)] /\ used' = [used EXCEPT ![w] = 0]
      /\ pc' = [pc EXCEPT ![w] = "dead"]
      /\ UNCHANGED <<calls, nextId, ready, inbox, lost, wire, sending, shut, closeEvents, switched>>
  BY DEF FreeTables, handoff, client, outcome, fates, replies
<1>3. /\ slots'[w] = << >> /\ free'[w] = << >> /\ index'[w] = EmptyTable(0) /\ used'[w] = 0
      /\ Others(w) /\ Domains'
  BY <1>1, <1>2 DEF Domains, Others
<1>4. Tabled(w)' /\ IdsOf(slots'[w]) = {} /\ Alive(slots'[w]) = {}
  BY <1>3, EmptyTableOK DEF Tabled
<1>5. Alive(slots[w]) = {} /\ IdsOf(slots[w]) = {}
  BY <1>2 DEF Alive, LiveSlots, IdsOf
<1>6. Stack(calls'[w], slots'[w])
  <2>1. calls'[w] = << >> /\ << >> \in Seq(Frame)
    BY <1>2, EmptySeq DEF Idle
  <2>2. QED
    BY <1>4, <2>1 DEF Stack, ClosingFrames
<1>7. Local(w) /\ Closing(calls'[w]) = Closing(calls[w])
  BY <1>2, <1>3, <1>4, <1>6 DEF Local
<1>8. Core'
  BY <1>1, <1>2, <1>4, <1>5, <1>7, QuietKeeps
<1>9. pc' \in [Ctx -> Pc] /\ pc'[Main] # "dead"
  BY <1>1, <1>2, CtxFacts, ConnAssumption DEF Types, Pc
<1>10. Types'
  BY <1>1, <1>2, <1>3, <1>9, TypesKept DEF Types
<1>11. QED
  BY <1>8, <1>10 DEF IInv

\* The clients: what the kernel holds changes, and nothing of the server.
LEMMA ClientKeeps ==
  ASSUME IInv, UNCHANGED <<tables, nextId, calls, pc, ready, inbox, lost, shut, closeEvents, switched>>,
         wire' \in [Conn -> Seq(Item)], eof' \in [Conn -> BOOLEAN],
         phase' \in [Conn -> {"request", "body", "quiet"}], nextReq' \in 1..MaxReq+1,
         asked' \in [Conn -> Seq(Item)], \A id \in Conn : phase'[id] = "body" => asked'[id] # << >>
  PROVE  IInv'
<1>1. Core'
  BY StillKeeps DEF IInv
<1>2. Types'
  BY DEF IInv, Types, Domains, tables
<1>3. QED
  BY <1>1, <1>2 DEF IInv

LEMMA WireAppend ==
  ASSUME Types, NEW id \in Conn, NEW item \in Item, wire' = [wire EXCEPT ![id] = Append(@, item)]
  PROVE  wire' \in [Conn -> Seq(Item)]
<1>1. wire \in [Conn -> Seq(Item)]
  BY DEF Types
<1>2. Append(wire[id], item) \in Seq(Item)
  BY <1>1, AppendProperties
<1>3. QED
  BY <1>1, <1>2

LEMMA SendHeadKeeps == ASSUME IInv, NEW id \in Conn, SendHead(id) PROVE IInv'
<1>1. Types
  BY DEF IInv
<1>2. /\ phase[id] = "request" /\ nextReq <= MaxReq /\ nextReq' = nextReq + 1
      /\ UNCHANGED <<tables, nextId, calls, pc, ready, inbox, lost, eof, shut, closeEvents, switched>>
  BY DEF SendHead, control, handoff, outcome, fates, replies
<1>3. PICK kind \in Kinds :
        /\ wire' = [wire EXCEPT ![id] = Append(@, [kind |-> kind, req |-> nextReq])]
        /\ asked' = [asked EXCEPT ![id] = IF kind = "malformed" THEN @
                                          ELSE Append(@, [kind |-> kind, req |-> nextReq])]
        /\ phase' = [phase EXCEPT ![id] = IF kind = "malformed" THEN "quiet" ELSE "body"]
  BY DEF SendHead
<1> DEFINE head == [kind |-> kind, req |-> nextReq]
<1>4. nextReq \in 0..MaxReq /\ nextReq' \in 1..MaxReq+1
  BY <1>1, <1>2, ConnAssumption DEF Types
<1>5. head \in Item
  BY <1>4, ConnAssumption DEF Item
<1>6. wire' = [wire EXCEPT ![id] = Append(@, head)] /\ asked \in [Conn -> Seq(Item)]
  BY <1>1, <1>3 DEF Types
<1>7. asked' = [asked EXCEPT ![id] = IF kind = "malformed" THEN @ ELSE Append(@, head)]
  BY <1>3
<1> HIDE DEF head
<1>8. wire' \in [Conn -> Seq(Item)]
  BY <1>1, <1>5, <1>6, WireAppend
<1>9. Append(asked[id], head) \in Seq(Item) /\ Append(asked[id], head) # << >>
  <2>1. asked[id] \in Seq(Item)
    BY <1>6
  <2>2. Append(asked[id], head) \in Seq(Item) /\ Len(Append(asked[id], head)) = Len(asked[id]) + 1
        /\ Len(asked[id]) \in Nat
    BY <1>5, <2>1, AppendProperties, LenProperties
  <2>3. Len(Append(asked[id], head)) # 0
    BY <2>2
  <2>4. QED
    BY <2>2, <2>3, EmptySeq
<1>10. asked' \in [Conn -> Seq(Item)]
  BY <1>6, <1>7, <1>9
<1>11. phase' \in [Conn -> {"request", "body", "quiet"}]
  BY <1>1, <1>3 DEF Types
<1>12. \A k \in Conn : phase'[k] = "body" => asked'[k] # << >>
  <2>1. \A k \in Conn \ {id} : phase'[k] = phase[k] /\ asked'[k] = asked[k]
    BY <1>1, <1>3 DEF Types
  <2>2. phase'[id] = "body" => asked'[id] # << >>
    BY <1>1, <1>3, <1>6, <1>7, <1>9 DEF Types
  <2>3. QED
    BY <1>1, <2>1, <2>2 DEF Types
<1>13. eof' \in [Conn -> BOOLEAN]
  BY <1>1, <1>2 DEF Types
<1>14. QED
  BY <1>2, <1>4, <1>8, <1>10, <1>11, <1>12, <1>13, ClientKeeps

LEMMA SendBodyKeeps == ASSUME IInv, NEW id \in Conn, SendBody(id) PROVE IInv'
<1>1. Types
  BY DEF IInv
<1>2. /\ phase[id] = "body" /\ wire' = [wire EXCEPT ![id] = Append(@, [kind |-> "body", req |-> Last(asked[id]).req])]
      /\ phase' = [phase EXCEPT ![id] = IF Last(asked[id]).kind = "close" THEN "quiet" ELSE "request"]
      /\ UNCHANGED <<tables, nextId, calls, pc, ready, inbox, lost, eof, nextReq, asked, shut, closeEvents, switched>>
  BY DEF SendBody, control, handoff, outcome, fates, replies
<1> DEFINE item == [kind |-> "body", req |-> Last(asked[id]).req]
<1>3. item \in Item
  <2>1. asked[id] \in Seq(Item) /\ asked[id] # << >>
    BY <1>1, <1>2 DEF Types
  <2>2. Last(asked[id]) \in Item
    BY <2>1, LenProperties, EmptySeq DEF Last
  <2>3. QED
    BY <2>2 DEF Item
<1>4. wire' = [wire EXCEPT ![id] = Append(@, item)]
  BY <1>2
<1> HIDE DEF item
<1>5. wire' \in [Conn -> Seq(Item)]
  BY <1>1, <1>3, <1>4, WireAppend
<1>6. /\ eof' \in [Conn -> BOOLEAN] /\ nextReq' \in 1..MaxReq+1 /\ asked' \in [Conn -> Seq(Item)]
      /\ phase' \in [Conn -> {"request", "body", "quiet"}]
  BY <1>1, <1>2 DEF Types
<1>7. \A k \in Conn : phase'[k] = "body" => asked'[k] # << >>
  <2>1. \A k \in Conn : phase'[k] = "body" => phase[k] = "body" /\ asked'[k] = asked[k]
    BY <1>1, <1>2 DEF Types
  <2>2. QED
    BY <1>1, <2>1 DEF Types
<1>8. QED
  BY <1>2, <1>5, <1>6, <1>7, ClientKeeps

LEMMA SendFrameKeeps == ASSUME IInv, NEW id \in Conn, SendFrame(id) PROVE IInv'
<1>1. Types
  BY DEF IInv
<1>2. /\ UNCHANGED <<tables, nextId, calls, pc, ready, inbox, lost, eof, phase, nextReq, asked, shut, closeEvents, switched>>
  BY DEF SendFrame, control, handoff, outcome, fates, replies
<1>3. PICK kind \in {"message", "end"} : wire' = [wire EXCEPT ![id] = Append(@, [kind |-> kind, req |-> 0])]
  BY DEF SendFrame
<1> DEFINE item == [kind |-> kind, req |-> 0]
<1>4. item \in Item
  BY ConnAssumption DEF Item
<1>5. wire' = [wire EXCEPT ![id] = Append(@, item)]
  BY <1>3
<1> HIDE DEF item
<1>6. wire' \in [Conn -> Seq(Item)]
  BY <1>1, <1>4, <1>5, WireAppend
<1>7. /\ eof' \in [Conn -> BOOLEAN] /\ nextReq' \in 1..MaxReq+1 /\ asked' \in [Conn -> Seq(Item)]
      /\ phase' \in [Conn -> {"request", "body", "quiet"}]
      /\ \A k \in Conn : phase'[k] = "body" => asked'[k] # << >>
  BY <1>1, <1>2 DEF Types
<1>8. QED
  BY <1>2, <1>6, <1>7, ClientKeeps

LEMMA HangupKeeps == ASSUME IInv, NEW id \in Conn, Hangup(id) PROVE IInv'
<1>1. Types
  BY DEF IInv
<1>2. /\ eof' = [eof EXCEPT ![id] = TRUE]
      /\ UNCHANGED <<tables, nextId, calls, pc, ready, inbox, lost, wire, phase, nextReq, asked, shut, closeEvents, switched>>
  BY DEF Hangup, control, handoff, outcome, fates, replies
<1>3. eof' \in [Conn -> BOOLEAN]
  BY <1>1, <1>2 DEF Types
<1>4. /\ wire' \in [Conn -> Seq(Item)] /\ nextReq' \in 1..MaxReq+1 /\ asked' \in [Conn -> Seq(Item)]
      /\ phase' \in [Conn -> {"request", "body", "quiet"}]
      /\ \A k \in Conn : phase'[k] = "body" => asked'[k] # << >>
  BY <1>1, <1>2 DEF Types
<1>5. QED
  BY <1>2, <1>3, <1>4, ClientKeeps

LEMMA ReadingTurnKeeps == ASSUME IInv, NEW c \in Ctx, ReadingTurn(c) PROVE IInv'
<1>1. Types /\ Core /\ Contexts /\ Tabled(c) /\ Domains
  BY DEF IInv, Core, Contexts, Types
<1> DEFINE s == ById(c, slots[c][Top(c).slot].id)
<1>2. /\ ~ Idle(c) /\ Top(c).at = "reading"
      /\ UNCHANGED <<nextId, pc, ready, inbox, lost, sending, switched>>
  BY DEF ReadingTurn, InCode, handoff, replies
<1>3. /\ Closing(calls[c]) = {} /\ slots[c][Top(c).slot].id \in 0..MaxConn
      /\ \A r \in Alive(slots[c]) : slots[c][r].mode = "http" \/ slots[c][r].upgraded
  BY <1>1, <1>2, SoloTop
<1>4. s # 0 => s \in Alive(slots[c]) /\ slots[c][s] \in Record
  BY <1>1, <1>3, ByIdFacts
<1>5. CASE calls' = [calls EXCEPT ![c] = Beneath(c)] /\ UNCHANGED <<tables, ending>>
  <2>1. Core' /\ DOMAIN calls' = Ctx
    BY <1>1, <1>2, <1>5, PopKeeps DEF ending, fates
  <2>2. Types'
    BY <1>1, <1>2, <1>5, <2>1, TypesKept DEF Types, Domains, tables, ending, fates
  <2>3. QED
    BY <2>1, <2>2 DEF IInv
<1>6. CASE s # 0 /\ Teardown(c, s, Beneath(c))
  <2>1. Stack(calls[c], slots[c]) /\ Popped(calls[c], Beneath(c), Top(c))
    BY <1>1, <1>2, TopFacts DEF Contexts
  <2>2. Stack(Beneath(c), slots[c]) /\ Closing(Beneath(c)) = Closing(calls[c])
    BY <1>2, <2>1, StackPop
  <2>3. s \in Alive(slots[c]) /\ slots[c][s].id \notin Closing(calls[c])
        /\ (slots[c][s].mode = "http" \/ slots[c][s].upgraded)
    BY <1>3, <1>4, <1>6
  <2> HIDE DEF s
  <2>4. /\ Core' /\ Domains' /\ DOMAIN calls' = Ctx
        /\ shut' \in [Conn -> Nat] /\ wire' \in [Conn -> Seq(Item)] /\ closeEvents' \in [Conn -> Nat]
    BY <1>1, <1>2, <1>6, <2>2, <2>3, TeardownKeeps
  <2>5. Types'
    BY <1>1, <1>2, <2>4, TypesKept DEF Types
  <2>6. QED
    BY <2>4, <2>5 DEF IInv
<1>7. CASE s # 0 /\ Parsed(slots[c][s].buf) = "request" /\ Dispatch(c, slots[c][s], calls[c]) /\ UNCHANGED <<tables, ending>>
  <2> HIDE DEF s
  <2> DEFINE f == Request(slots[c][s].id, slots[c][s].buf[1].req)
  <2>1. slots[c][s].buf[1].req \in 0..MaxReq /\ slots[c][s].id \in 0..MaxConn
    BY <1>4, <1>7, RecordFacts, ParsedFacts
  <2>2. f \in Frame /\ f.at = "request"
    BY <2>1, CallFacts
  <2>3. calls' = [calls EXCEPT ![c] = Append(calls[c], f)]
    BY <1>7 DEF Dispatch
  <2> HIDE DEF f
  <2>4. UNCHANGED <<tables, inbox, lost, shut, nextId, switched, closeEvents, wire>>
    BY <1>2, <1>7 DEF ending, fates
  <2>5. Core' /\ DOMAIN calls' = Ctx
    BY <1>1, <2>2, <2>3, <2>4, PushKeeps
  <2>6. Types'
    BY <1>1, <1>2, <2>4, <2>5, TypesKept DEF Types, Domains, tables
  <2>7. QED
    BY <2>5, <2>6 DEF IInv
<1>8. QED
  <2> DEFINE reading == IF s = 0 THEN FALSE ELSE slots[c][s].mode = "http"
  <2> DEFINE found == IF reading THEN Parsed(slots[c][s].buf) ELSE "nothing"
  <2>1. \/ found = "nothing" /\ calls' = [calls EXCEPT ![c] = Beneath(c)] /\ UNCHANGED <<tables, ending>>
        \/ found = "malformed" /\ Teardown(c, s, Beneath(c))
        \/ found = "request" /\ Dispatch(c, slots[c][s], calls[c]) /\ UNCHANGED <<tables, ending>>
    BY DEF ReadingTurn
  <2>2. found # "nothing" => s # 0 /\ Parsed(slots[c][s].buf) = found
    OBVIOUS
  <2> HIDE DEF found, s
  <2>3. QED
    BY <1>5, <1>6, <1>7, <2>1, <2>2

LEMMA FramingTurnKeeps == ASSUME IInv, NEW c \in Ctx, FramingTurn(c) PROVE IInv'
<1>1. Types /\ Core /\ Contexts /\ Tabled(c) /\ Domains
  BY DEF IInv, Core, Contexts, Types
<1> DEFINE s == ById(c, slots[c][Top(c).slot].id)
<1>2. /\ ~ Idle(c) /\ Top(c).at = "framing"
      /\ UNCHANGED <<nextId, pc, ready, inbox, lost, sending, switched>>
  BY DEF FramingTurn, InCode, handoff, replies
<1>3. /\ Closing(calls[c]) = {} /\ slots[c][Top(c).slot].id \in 0..MaxConn
      /\ \A r \in Alive(slots[c]) : slots[c][r].mode = "http" \/ slots[c][r].upgraded
  BY <1>1, <1>2, SoloTop
<1>4. s # 0 => s \in Alive(slots[c]) /\ slots[c][s] \in Record /\ slots[c][s].id \in Conn
  BY <1>1, <1>3, ByIdFacts, IdsInConn
<1>5. Stack(calls[c], slots[c])
  BY <1>1 DEF Contexts
<1>6. CASE calls' = [calls EXCEPT ![c] = Beneath(c)] /\ UNCHANGED <<tables, ending>>
  <2>1. Core' /\ DOMAIN calls' = Ctx
    BY <1>1, <1>2, <1>6, PopKeeps DEF ending, fates
  <2>2. Types'
    BY <1>1, <1>2, <1>6, <2>1, TypesKept DEF Types, Domains, tables, ending, fates
  <2>3. QED
    BY <2>1, <2>2 DEF IInv
<1>7. CASE s # 0 /\ Teardown(c, s, calls[c])
  <2>1. s \in Alive(slots[c]) /\ slots[c][s].id \notin Closing(calls[c])
        /\ (slots[c][s].mode = "http" \/ slots[c][s].upgraded)
    BY <1>3, <1>4, <1>7
  <2> HIDE DEF s
  <2>2. /\ Core' /\ Domains' /\ DOMAIN calls' = Ctx
        /\ shut' \in [Conn -> Nat] /\ wire' \in [Conn -> Seq(Item)] /\ closeEvents' \in [Conn -> Nat]
    BY <1>1, <1>2, <1>5, <1>7, <2>1, TeardownKeeps
  <2>3. Types'
    BY <1>1, <1>2, <2>2, TypesKept DEF Types
  <2>4. QED
    BY <2>2, <2>3 DEF IInv
<1>8. CASE /\ s # 0 /\ Parsed(slots[c][s].buf) = "message"
           /\ slots' = [slots EXCEPT ![c][s].buf = Tail(@)]
           /\ calls' = [calls EXCEPT ![c] = Append(@, Handler("message", slots[c][s].id))]
           /\ UNCHANGED <<free, index, used, ending>>
  <2> HIDE DEF s
  <2> DEFINE conn == [slots[c][s] EXCEPT !.buf = Tail(slots[c][s].buf)]
  <2> DEFINE f == Handler("message", slots[c][s].id)
  <2> DEFINE tt == Append(calls[c], f)
  <2>1. /\ s \in Alive(slots[c]) /\ slots[c][s] \in Record /\ slots[c][s].alive /\ s \in DOMAIN slots[c]
        /\ (slots[c][s].upgraded => slots[c][s].mode = "ws") /\ slots[c][s].id \in 0..MaxConn
        /\ (slots[c][s].mode = "ws" => slots[c][s].upgraded)
    BY <1>1, <1>3, <1>4, <1>8, IdsInConn, ConnFacts
  <2>2. slots[c][s].buf \in Seq(Item)
    BY <2>1, RecordFacts
  <2>3. Tail(slots[c][s].buf) \in Seq(Item)
    BY <1>8, <2>2, ParsedFacts, HeadTailProperties
  <2>4. /\ conn \in Record /\ conn.id = slots[c][s].id /\ conn.alive = slots[c][s].alive
        /\ conn.mode = slots[c][s].mode /\ conn.upgraded = slots[c][s].upgraded
    BY <2>1, <2>3, RecordBuf
  <2>5. slots' = [slots EXCEPT ![c] = [slots[c] EXCEPT ![s] = conn]]
    BY <1>8
  <2>6. f \in Frame /\ f.at = "message"
    BY <2>1, CallFacts DEF UserCode
  <2>7. calls' = [calls EXCEPT ![c] = tt]
    BY <1>8
  <2> HIDE DEF conn, f
  <2>8. Pushed(calls[c], tt, f)
    BY <1>5, <2>6, PushFacts
  <2>9. Stack(tt, slots[c]) /\ Closing(tt) = Closing(calls[c])
    BY <1>5, <2>6, <2>8, StackPush
  <2> HIDE DEF tt
  <2>10. calls'[c] = tt /\ DOMAIN calls' = Ctx /\ \A d \in Ctx \ {c} : calls'[d] = calls[d]
    BY <1>1, <2>7 DEF Types
  <2>11. ASSUME Changed(slots[c], slots'[c], s, conn) PROVE Stack(calls'[c], slots'[c])
    <3>1. conn.alive /\ (conn.mode = "ws" => conn.upgraded)
      BY <2>1, <2>4
    <3>2. Stack(tt, slots'[c])
      BY <2>4, <2>9, <2>11, <3>1, StackChange
    <3>3. QED
      BY <2>10, <3>2
  <2>12. UNCHANGED <<inbox, lost, shut, nextId, switched, closeEvents, free, index, used, wire>>
    BY <1>2, <1>8 DEF ending, fates
  <2>13. Core' /\ Domains'
    BY <1>1, <2>1, <2>4, <2>5, <2>9, <2>10, <2>11, <2>12, UpdateKeeps
  <2>14. Types'
    BY <1>1, <1>2, <2>10, <2>12, <2>13, TypesKept DEF Types
  <2>15. QED
    BY <2>13, <2>14 DEF IInv
<1>9. QED
  <2> DEFINE found == IF s = 0 THEN "nothing" ELSE Parsed(slots[c][s].buf)
  <2>1. \/ found = "nothing" /\ calls' = [calls EXCEPT ![c] = Beneath(c)] /\ UNCHANGED <<tables, ending>>
        \/ /\ found = "message"
           /\ slots' = [slots EXCEPT ![c][s].buf = Tail(@)]
           /\ calls' = [calls EXCEPT ![c] = Append(@, Handler("message", slots[c][s].id))]
           /\ UNCHANGED <<free, index, used, ending>>
        \/ found = "end" /\ Teardown(c, s, calls[c])
    BY DEF FramingTurn
  <2>2. found # "nothing" => s # 0 /\ Parsed(slots[c][s].buf) = found
    OBVIOUS
  <2> HIDE DEF found, s
  <2>3. QED
    BY <1>6, <1>7, <1>8, <2>1, <2>2

\* A step of c that changes a live slot, its conn_id and protocol apart, and its stack.
LEMMA FieldKeeps ==
  ASSUME Types, Core, NEW c \in Ctx, NEW s \in Alive(slots[c]), NEW conn \in Record,
         conn.id = slots[c][s].id, conn.alive = slots[c][s].alive,
         conn.mode = slots[c][s].mode, conn.upgraded = slots[c][s].upgraded,
         slots' = [slots EXCEPT ![c] = [slots[c] EXCEPT ![s] = conn]],
         Stack(calls'[c], slots[c]), Closing(calls'[c]) = Closing(calls[c]),
         \A d \in Ctx \ {c} : calls'[d] = calls[d],
         UNCHANGED <<free, index, used, inbox, lost, shut, nextId, switched, closeEvents>>
  PROVE  Core' /\ Domains'
<1>1. slots[c][s].alive /\ (slots[c][s].upgraded => slots[c][s].mode = "ws") /\ Domains
  BY IdsInConn DEF Core, Types
<1>2. conn.mode = "ws" /\ ~ conn.upgraded => conn.id \in Requesting(calls'[c])
  BY DEF Stack
<1>3. ASSUME Changed(slots[c], slots'[c], s, conn) PROVE Stack(calls'[c], slots'[c])
  BY <1>1, <1>2, <1>3, StackChange
<1>4. QED
  BY <1>1, <1>3, UpdateKeeps

\* A connection that still speaks HTTP has no close handler running.
LEMMA HttpNotClosing ==
  ASSUME Contexts, NEW c \in Ctx, NEW s \in Alive(slots[c]), slots[c][s].mode = "http"
  PROVE  slots[c][s].id \notin Closing(calls[c]) /\ ~ slots[c][s].upgraded
<1>1. ~ slots[c][s].upgraded
  BY IdsInConn
<1>2. SUFFICES ASSUME slots[c][s].id \in Closing(calls[c]) PROVE FALSE
  BY <1>1
<1>3. PICK i \in ClosingFrames(calls[c]) : calls[c][i].id = slots[c][s].id
  BY <1>2 DEF Closing
<1>4. /\ calls[c][i].slot \in Alive(slots[c]) /\ slots[c][calls[c][i].slot].id = slots[c][s].id
      /\ slots[c][calls[c][i].slot].upgraded
  BY <1>3 DEF Contexts, Stack
<1>5. calls[c][i].slot = s
  BY <1>4, IdsInConn
<1>6. QED
  BY <1>1, <1>4, <1>5

\* The connection of the handler a context is in.
LEMMA HandlerConn ==
  ASSUME Types, Core, NEW c \in Ctx, ~ Idle(c), ById(c, Top(c).id) # 0
  PROVE  /\ ById(c, Top(c).id) \in Alive(slots[c]) /\ slots[c][ById(c, Top(c).id)].id = Top(c).id
         /\ slots[c][ById(c, Top(c).id)] \in Record /\ Top(c).id \in Conn
         /\ ById(c, Top(c).id) \in DOMAIN slots[c]
         /\ \A r \in Alive(slots[c]) : slots[c][r].id = Top(c).id => r = ById(c, Top(c).id)
<1>1. Contexts /\ Tabled(c) /\ Top(c).id \in 0..MaxConn
  BY TopFacts DEF Core, Contexts
<1> DEFINE s == ById(c, Top(c).id)
<1>2. s \in Alive(slots[c]) /\ slots[c][s].id = Top(c).id /\ Top(c).id \in Conn /\ slots[c][s] \in Record
  BY <1>1, ByIdFacts
<1> HIDE DEF s
<1>3. s \in DOMAIN slots[c] /\ \A r \in Alive(slots[c]) : slots[c][r].id = Top(c).id => r = s
  BY <1>1, <1>2, IdsInConn
<1>4. QED
  BY <1>2, <1>3 DEF s

LEMMA AnswerKeeps == ASSUME IInv, NEW c \in Ctx, Answer(c) PROVE IInv'
<1>1. Types /\ Core /\ Contexts
  BY DEF IInv, Core
<1> DEFINE s == ById(c, Top(c).id)
<1> DEFINE conn == [slots[c][s] EXCEPT !.responded = TRUE]
<1>2. /\ ~ Idle(c) /\ s # 0 /\ slots' = [slots EXCEPT ![c] = [slots[c] EXCEPT ![s] = conn]]
      /\ UNCHANGED <<free, index, used, calls, nextId, pc, ready, inbox, lost, wire, sending, shut, closeEvents, switched>>
  BY DEF Answer, InCode, Answerable, control, handoff, client, fates
<1>3. s \in Alive(slots[c]) /\ slots[c][s] \in Record
  BY <1>1, <1>2, HandlerConn
<1>4. /\ conn \in Record /\ conn.id = slots[c][s].id /\ conn.alive = slots[c][s].alive
      /\ conn.mode = slots[c][s].mode /\ conn.upgraded = slots[c][s].upgraded
  BY <1>3, RecordResponded
<1> HIDE DEF s, conn
<1>5. Stack(calls'[c], slots[c])
  BY <1>1, <1>2 DEF Contexts
<1>6. Core' /\ Domains'
  BY <1>1, <1>2, <1>3, <1>4, <1>5, FieldKeeps
<1>7. Types'
  BY <1>1, <1>2, <1>6, TypesKept DEF Types
<1>8. QED
  BY <1>6, <1>7 DEF IInv

LEMMA SocketCloseKeeps == ASSUME IInv, "closeAgain" \notin Uses, NEW c \in Ctx, SocketClose(c) PROVE IInv'
<1>1. Types /\ Core /\ Contexts
  BY DEF IInv, Core
<1>2. UNCHANGED <<nextId, pc, ready, inbox, lost, sending, switched>>
  BY DEF SocketClose, handoff, replies
<1>3. PICK s \in LiveSlots(c) :
        /\ slots[c][s].upgraded
        /\ Cardinality({i \in DOMAIN calls[c] : calls[c][i].at = "closing" /\ calls[c][i].id = slots[c][s].id})
             <= IF "closeAgain" \in Uses THEN 1 ELSE 0
        /\ Teardown(c, s, calls[c])
  BY DEF SocketClose
<1> DEFINE B == {i \in DOMAIN calls[c] : calls[c][i].at = "closing" /\ calls[c][i].id = slots[c][s].id}
<1>4. s \in Alive(slots[c]) /\ Stack(calls[c], slots[c])
  BY <1>1 DEF LiveSlots, Alive, Contexts
<1>5. B = {}
  <2>1. DOMAIN calls[c] = 1..Len(calls[c]) /\ Len(calls[c]) \in Nat
    BY <1>4, StackFacts
  <2>2. IsFiniteSet(DOMAIN calls[c])
    BY <2>1, FS_Interval
  <2>3. B \subseteq DOMAIN calls[c]
    OBVIOUS
  <2>4. Cardinality(B) <= 0
    BY <1>3
  <2> HIDE DEF B
  <2>5. IsFiniteSet(B)
    BY <2>2, <2>3, FS_Subset
  <2>6. Cardinality(B) \in Nat
    BY <2>5, FS_CardinalityType
  <2>7. Cardinality(B) = 0
    BY <2>4, <2>6
  <2>8. QED
    BY <2>5, <2>7, FS_EmptySet
<1>6. slots[c][s].id \notin Closing(calls[c])
  BY <1>5 DEF Closing, ClosingFrames
<1>7. /\ Core' /\ Domains' /\ DOMAIN calls' = Ctx
      /\ shut' \in [Conn -> Nat] /\ wire' \in [Conn -> Seq(Item)] /\ closeEvents' \in [Conn -> Nat]
  BY <1>1, <1>2, <1>3, <1>4, <1>6, TeardownKeeps
<1>8. Types'
  BY <1>1, <1>2, <1>7, TypesKept DEF Types
<1>9. QED
  BY <1>7, <1>8 DEF IInv

LEMMA CloseReturnsKeeps == ASSUME IInv, NEW c \in Ctx, CloseReturns(c) PROVE IInv'
<1>1. Types /\ Core /\ Contexts
  BY DEF IInv, Core
<1> DEFINE s == Top(c).slot
<1>2. /\ ~ Idle(c) /\ Top(c).at = "closing" /\ calls' = [calls EXCEPT ![c] = Beneath(c)] /\ Dispose(c, s)
      /\ UNCHANGED <<nextId, pc, ready, inbox, lost, sending, closeEvents, switched>>
  BY DEF CloseReturns, InCode, handoff, replies
<1>3. Stack(calls[c], slots[c]) /\ Popped(calls[c], Beneath(c), Top(c))
  BY <1>1, <1>2, TopFacts DEF Contexts
<1>4. s \in Alive(slots[c]) /\ slots[c][s].id = Top(c).id /\ slots[c][s].upgraded
  BY <1>2, <1>3 DEF Stack, ClosingFrames, Popped
<1>5. /\ Stack(Beneath(c), slots[c])
      /\ Top(c).id \notin Closing(Beneath(c)) /\ Closing(calls[c]) = Closing(Beneath(c)) \cup {Top(c).id}
  BY <1>2, <1>3, StackPop
<1> HIDE DEF s
<1>6. /\ slots[c][s].id \notin Closing(Beneath(c))
      /\ Closing(calls[c]) = Closing(Beneath(c)) \cup {slots[c][s].id}
  BY <1>4, <1>5
<1>7. UNCHANGED <<inbox, lost, nextId, switched, closeEvents>>
  BY <1>2
<1>8. /\ Core' /\ Domains' /\ DOMAIN calls' = Ctx
      /\ shut' \in [Conn -> Nat] /\ wire' \in [Conn -> Seq(Item)]
  BY <1>1, <1>2, <1>4, <1>5, <1>6, <1>7, DisposeKeeps
<1>9. Types'
  BY <1>1, <1>2, <1>8, TypesKept DEF Types
<1>10. QED
  BY <1>8, <1>9 DEF IInv

LEMMA RestOfBuffer == ASSUME NEW q \in Seq(Item) PROVE SubSeq(q, 3, Len(q)) \in Seq(Item)
<1>1. Len(q) \in Nat
  BY LenProperties
<1>2. CASE Len(q) >= 2
  BY <1>1, <1>2, SubSeqProperties
<1>3. CASE Len(q) < 2
  BY <1>1, <1>3, EmptySeq
<1>4. QED
  BY <1>1, <1>2, <1>3

LEMMA FinishRequestKeeps == ASSUME IInv, NEW c \in Ctx, FinishRequest(c) PROVE IInv'
<1>1. Types /\ Core /\ Contexts
  BY DEF IInv, Core
<1> DEFINE id == Top(c).id
<1> DEFINE s == ById(c, id)
<1>2. /\ ~ Idle(c) /\ Top(c).at = "request"
      /\ UNCHANGED <<nextId, pc, ready, inbox, lost, sending, switched>>
  BY DEF FinishRequest, InCode
<1>3. s # 0 => /\ s \in Alive(slots[c]) /\ slots[c][s].id = id /\ slots[c][s] \in Record /\ id \in Conn
               /\ s \in DOMAIN slots[c] /\ \A r \in Alive(slots[c]) : slots[c][r].id = id => r = s
  BY <1>1, <1>2, HandlerConn
<1>4. Stack(calls[c], slots[c]) /\ Popped(calls[c], Beneath(c), Top(c)) /\ id \in 0..MaxConn /\ Tabled(c)
  BY <1>1, <1>2, TopFacts DEF Contexts
<1>5. CASE s = 0 /\ calls' = [calls EXCEPT ![c] = Beneath(c)] /\ UNCHANGED <<tables, ending>>
  <2>1. id \notin IdsOf(slots[c])
    BY <1>4, <1>5, ByIdFacts
  <2>2. \A r \in Alive(slots[c]) : slots[c][r].id # id
    BY <2>1 DEF IdsOf
  <2>3. Core' /\ DOMAIN calls' = Ctx
    BY <1>1, <1>2, <1>5, <2>2, PopKeeps DEF ending, fates
  <2>4. Types'
    BY <1>1, <1>2, <1>5, <2>3, TypesKept DEF Types, Domains, tables, ending, fates
  <2>5. QED
    BY <2>3, <2>4 DEF IInv
<1>6. CASE /\ s # 0 /\ slots[c][s].mode = "ws"
           /\ slots' = [slots EXCEPT ![c][s].upgraded = TRUE]
           /\ calls' = [calls EXCEPT ![c] = Append(Beneath(c), Handler("upgrade", id))]
           /\ UNCHANGED <<free, index, used, ending>>
  <2> DEFINE conn == [slots[c][s] EXCEPT !.upgraded = TRUE]
  <2> DEFINE f == Handler("upgrade", id)
  <2> DEFINE tt == Append(Beneath(c), f)
  <2>1. /\ s \in Alive(slots[c]) /\ slots[c][s].id = id /\ slots[c][s] \in Record /\ slots[c][s].alive
        /\ s \in DOMAIN slots[c]
    BY <1>1, <1>3, <1>6, IdsInConn
  <2>2. slots' = [slots EXCEPT ![c] = [slots[c] EXCEPT ![s] = conn]] /\ calls' = [calls EXCEPT ![c] = tt]
    BY <1>6
  <2>3. f \in Frame /\ f.at = "upgrade"
    BY <1>4, CallFacts DEF UserCode
  <2> HIDE DEF s, id, f
  <2>4. conn \in Record /\ conn.id = slots[c][s].id /\ conn.alive /\ conn.mode = "ws" /\ conn.upgraded
    BY <1>6, <2>1 DEF Record
  <2> HIDE DEF conn
  <2>6. Closing(Beneath(c)) = Closing(calls[c])
    BY <1>2, <1>4, PoppedSets
  <2>7. calls'[c] = tt /\ DOMAIN calls' = Ctx /\ \A d \in Ctx \ {c} : calls'[d] = calls[d]
    BY <1>1, <2>2 DEF Types
  <2>8. ASSUME Changed(slots[c], slots'[c], s, conn)
        PROVE  Stack(tt, slots'[c]) /\ Closing(tt) = Closing(calls[c])
    <3>1. Stack(calls[c], slots'[c])
      BY <1>4, <2>4, <2>8, StackChange
    <3>2. \A r \in Alive(slots'[c]) : slots'[c][r].id = Top(c).id => slots'[c][r].upgraded
      <4>1. ASSUME NEW r \in Alive(slots'[c]), slots'[c][r].id = Top(c).id PROVE slots'[c][r].upgraded
        <5>1. CASE r = s
          BY <2>4, <2>8, <5>1 DEF Changed
        <5>2. CASE r # s
          <6>1. r \in Alive(slots[c]) /\ slots[c][r].id = Top(c).id
            BY <2>8, <4>1, <5>2 DEF Changed, Alive
          <6>2. QED
            BY <1>3, <1>6, <5>2, <6>1 DEF id
        <5>3. QED
          BY <5>1, <5>2
      <4>2. QED
        BY <4>1
    <3>3. Stack(Beneath(c), slots'[c])
      BY <1>2, <1>4, <3>1, <3>2, StackPop
    <3>4. Pushed(Beneath(c), tt, f)
      BY <2>3, <3>3, PushFacts
    <3>5. QED
      BY <2>3, <2>6, <3>3, <3>4, StackPush
  <2>9. Closing(tt) = Closing(calls[c])
    <3>1. Changed(slots[c], slots'[c], s, conn)
      <4>1. Tabled(c) /\ Domains /\ slots'[c] = [slots[c] EXCEPT ![s] = conn]
        BY <1>1, <1>4, <2>2 DEF Types, Domains
      <4>2. QED
        BY <2>1, <2>4, <4>1, ChangeFacts DEF Tabled
    <3>2. QED
      BY <2>8, <3>1
  <2> HIDE DEF tt
  <2>10. UNCHANGED <<inbox, lost, shut, nextId, switched, closeEvents, free, index, used, wire>>
    BY <1>2, <1>6 DEF ending, fates
  <2>11. Changed(slots[c], slots'[c], s, conn) => Stack(calls'[c], slots'[c])
    BY <2>7, <2>8
  <2>12. Core' /\ Domains'
    <3>1. Domains /\ Closing(calls'[c]) = Closing(calls[c]) /\ conn.mode = slots[c][s].mode
      BY <1>1, <1>6, <2>4, <2>7, <2>9 DEF Types
    <3>2. QED
      BY <1>1, <2>1, <2>2, <2>4, <2>7, <2>10, <2>11, <3>1, UpdateKeeps
  <2>13. Types'
    BY <1>1, <1>2, <2>7, <2>10, <2>12, TypesKept DEF Types
  <2>14. QED
    BY <2>12, <2>13 DEF IInv
<1>7. ASSUME s # 0, slots[c][s].mode = "http"
      PROVE  /\ Stack(Beneath(c), slots[c]) /\ Closing(Beneath(c)) = Closing(calls[c])
             /\ slots[c][s].id \notin Closing(calls[c])
  <2>1. Stack(Beneath(c), slots[c]) /\ Closing(Beneath(c)) = Closing(calls[c])
    BY <1>2, <1>3, <1>4, <1>7, StackPop
  <2> HIDE DEF s
  <2>2. slots[c][s].id \notin Closing(calls[c])
    BY <1>1, <1>3, <1>7, HttpNotClosing
  <2>3. QED
    BY <2>1, <2>2
<1>8. CASE s # 0 /\ slots[c][s].mode = "http" /\ Teardown(c, s, Beneath(c))
  <2> HIDE DEF s
  <2>1. /\ Core' /\ Domains' /\ DOMAIN calls' = Ctx
        /\ shut' \in [Conn -> Nat] /\ wire' \in [Conn -> Seq(Item)] /\ closeEvents' \in [Conn -> Nat]
    BY <1>1, <1>2, <1>3, <1>7, <1>8, TeardownKeeps
  <2>2. Types'
    BY <1>1, <1>2, <2>1, TypesKept DEF Types
  <2>3. QED
    BY <2>1, <2>2 DEF IInv
<1>9. CASE /\ s # 0 /\ slots[c][s].mode = "http"
           /\ slots' = [slots EXCEPT ![c][s].buf = SubSeq(@, 3, Len(@)), ![c][s].responded = FALSE]
           /\ calls' = [calls EXCEPT ![c] = Beneath(c)]
           /\ UNCHANGED <<free, index, used, ending>>
  <2> HIDE DEF s
  <2> DEFINE b == SubSeq(slots[c][s].buf, 3, Len(slots[c][s].buf))
  <2> DEFINE mid == [slots[c][s] EXCEPT !.buf = b]
  <2> DEFINE conn == [mid EXCEPT !.responded = FALSE]
  <2>1. slots[c][s] \in Record /\ slots[c][s].buf \in Seq(Item) /\ s \in Alive(slots[c]) /\ s \in DOMAIN slots[c]
    BY <1>3, <1>9, RecordFacts
  <2>2. slots' = [slots EXCEPT ![c] = [slots[c] EXCEPT ![s] = conn]]
    <3>1. c \in DOMAIN slots
      BY <1>1 DEF Types, Domains
    <3>2. QED
      BY <1>9, <2>1, <3>1
  <2>3. b \in Seq(Item)
    BY <2>1, RestOfBuffer
  <2> HIDE DEF b
  <2>4. mid \in Record /\ mid.id = slots[c][s].id /\ mid.alive = slots[c][s].alive
        /\ mid.mode = slots[c][s].mode /\ mid.upgraded = slots[c][s].upgraded
    BY <2>1, <2>3, RecordBuf
  <2> HIDE DEF mid
  <2>5. conn \in Record /\ conn.id = slots[c][s].id /\ conn.alive = slots[c][s].alive
        /\ conn.mode = slots[c][s].mode /\ conn.upgraded = slots[c][s].upgraded
    BY <2>4, RecordResponded
  <2> HIDE DEF conn
  <2>6. calls'[c] = Beneath(c) /\ DOMAIN calls' = Ctx /\ \A d \in Ctx \ {c} : calls'[d] = calls[d]
    BY <1>1, <1>9 DEF Types
  <2>7. Stack(calls'[c], slots[c]) /\ Closing(calls'[c]) = Closing(calls[c])
    BY <1>7, <1>9, <2>6
  <2>8. UNCHANGED <<inbox, lost, shut, nextId, switched, closeEvents, free, index, used, wire>>
    BY <1>2, <1>9 DEF ending, fates
  <2>9. Core' /\ Domains'
    BY <1>1, <2>1, <2>2, <2>5, <2>6, <2>7, <2>8, FieldKeeps
  <2>10. Types'
    BY <1>1, <1>2, <2>6, <2>8, <2>9, TypesKept DEF Types
  <2>11. QED
    BY <2>9, <2>10 DEF IInv
<1>10. QED
  <2>1. \/ s = 0 /\ calls' = [calls EXCEPT ![c] = Beneath(c)] /\ UNCHANGED <<tables, ending>>
        \/ /\ s # 0 /\ slots[c][s].mode = "ws"
           /\ slots' = [slots EXCEPT ![c][s].upgraded = TRUE]
           /\ calls' = [calls EXCEPT ![c] = Append(Beneath(c), Handler("upgrade", id))]
           /\ UNCHANGED <<free, index, used, ending>>
        \/ s # 0 /\ slots[c][s].mode = "http" /\ Teardown(c, s, Beneath(c))
        \/ /\ s # 0 /\ slots[c][s].mode = "http"
           /\ slots' = [slots EXCEPT ![c][s].buf = SubSeq(@, 3, Len(@)), ![c][s].responded = FALSE]
           /\ calls' = [calls EXCEPT ![c] = Beneath(c)]
           /\ UNCHANGED <<free, index, used, ending>>
    BY DEF FinishRequest
  <2> HIDE DEF s, id
  <2>2. QED
    BY <1>5, <1>6, <1>8, <1>9, <2>1

\* Whose close handler runs, and which connections are WebSockets, are as they were.
LEMMA ClosedKept ==
  ASSUME Closed, UNCHANGED <<closeEvents, shut, switched>>, nextId' = nextId,
         \A d \in Ctx : Closing(calls'[d]) = Closing(calls[d]),
         \A d \in Ctx : \A r \in Alive(slots'[d]) : slots'[d][r].mode = "ws" <=> slots'[d][r].id \in switched
  PROVE  Closed'
BY DEF Closed

LEMMA UpgradeKeeps == ASSUME IInv, NEW c \in Ctx, Upgrade(c) PROVE IInv'
<1>1. Types /\ Core /\ Contexts /\ Domains /\ Tabled(c)
  BY DEF IInv, Core, Types, Contexts
<1> DEFINE id == Top(c).id
<1> DEFINE s == ById(c, id)
<1> DEFINE conn == [slots[c][s] EXCEPT !.responded = TRUE, !.mode = "ws", !.buf = << >>]
<1>2. /\ ~ Idle(c) /\ Top(c).at = "request" /\ s # 0
      /\ slots' = [slots EXCEPT ![c] = [slots[c] EXCEPT ![s] = conn]]
      /\ switched' = switched \cup {id}
      /\ UNCHANGED <<free, index, used, calls, nextId, pc, ready, inbox, lost, wire, sending, shut, closeEvents>>
  BY DEF Upgrade, InCode, Answerable, control, handoff, client, fates
<1>3. /\ s \in Alive(slots[c]) /\ slots[c][s].id = id /\ slots[c][s] \in Record /\ id \in Conn
      /\ s \in DOMAIN slots[c] /\ \A r \in Alive(slots[c]) : slots[c][r].id = id => r = s
  BY <1>1, <1>2, HandlerConn
<1>4. slots[c][s].alive /\ id \in IdsOf(slots[c])
  BY <1>1, <1>3, IdsInConn
<1>5. << >> \in Seq(Item)
  BY EmptySeq
<1>6. conn \in Record /\ conn.id = id /\ conn.alive /\ conn.mode = "ws" /\ conn.upgraded = slots[c][s].upgraded
  BY <1>3, <1>4, <1>5 DEF Record
<1>7. id \in Requesting(calls[c]) /\ Stack(calls[c], slots[c])
  BY <1>1, <1>2, TopFacts DEF Contexts
<1> HIDE DEF conn, s, id
<1>8. /\ Domains' /\ Tabled(c)' /\ Others(c) /\ Changed(slots[c], slots'[c], s, conn)
      /\ Alive(slots'[c]) = Alive(slots[c]) /\ IdsOf(slots'[c]) = IdsOf(slots[c])
  BY <1>1, <1>2, <1>3, <1>6, UpdateStep
<1>9. Stack(calls'[c], slots'[c])
  BY <1>2, <1>3, <1>6, <1>7, <1>8, StackChange
<1>10. Contexts'
  BY <1>1, <1>2, <1>8, <1>9, ContextsStep DEF Local
<1>11. Owners'
  <2>1. NoneMoved
    BY <1>2, <1>8 DEF NoneMoved, Others
  <2>2. QED
    BY <1>1, <2>1, OwnersSame DEF Core
<1>12. /\ \A d \in Ctx : InTable(id, d) => d = c
       /\ \A w \in Worker : ~ InQueue(id, w)
       /\ id < nextId /\ ~ IsShut(id)
  BY <1>1, <1>3, <1>4 DEF Core, Owners, OwnedOnce, InTable
<1>13. Queued'
  <2>1. \A w \in Worker : \A i \in DOMAIN inbox[w] : inbox[w][i].conn.id # id
    BY <1>12 DEF InQueue, QueuedConns
  <2>2. QED
    BY <1>1, <1>2, <2>1 DEF Core, Queued
<1>14. Closed'
  <2>1. ASSUME NEW d \in Ctx, NEW r \in Alive(slots'[d])
        PROVE slots'[d][r].mode = "ws" <=> slots'[d][r].id \in switched'
    <3>1. CASE d = c /\ r = s
      BY <1>2, <1>6, <1>8, <3>1 DEF Changed
    <3>2. CASE d = c /\ r # s
      <4>1. r \in Alive(slots[c]) /\ slots'[c][r] = slots[c][r] /\ slots[c][r].id # id
        BY <1>3, <1>8, <2>1, <3>2 DEF Changed, Alive
      <4>2. QED
        BY <1>1, <1>2, <3>2, <4>1 DEF Core, Closed
    <3>3. CASE d # c
      <4>1. slots'[d] = slots[d] /\ r \in Alive(slots[d])
        BY <1>8, <2>1, <3>3 DEF Others
      <4>2. slots[d][r].id # id
        BY <1>12, <3>3, <4>1 DEF InTable, IdsOf
      <4>3. QED
        BY <1>1, <1>2, <4>1, <4>2 DEF Core, Closed
    <3>4. QED
      BY <3>1, <3>2, <3>3
  <2>2. \A k \in Conn : k >= nextId' => k \notin switched'
    <3>1. nextId \in Nat /\ id \in Nat
      BY <1>1, <1>3, ConnFacts DEF Types
    <3>2. ~ (id >= nextId)
      BY <1>12, <3>1
    <3>3. QED
      BY <1>1, <1>2, <3>2 DEF Core, Closed
  <2>3. ASSUME NEW k \in Conn
        PROVE closeEvents'[k] = IF \/ \E d \in Ctx : k \in Closing(calls'[d])
                                   \/ shut'[k] > 0 /\ k \in switched'
                                THEN 1 ELSE 0
    <3>1. shut[k] > 0 => k # id
      BY <1>12 DEF IsShut
    <3>2. QED
      BY <1>1, <1>2, <3>1 DEF Core, Closed
  <2>4. QED
    BY <2>1, <2>2, <2>3 DEF Closed
<1>15. Types'
  <2>1. switched' \subseteq Conn
    BY <1>1, <1>2, <1>3 DEF Types
  <2>2. QED
    BY <1>1, <1>2, <1>8, <2>1, TypesKept DEF Types
<1>16. QED
  BY <1>10, <1>11, <1>13, <1>14, <1>15 DEF IInv, Core

LEMMA GiveRequestKeeps == ASSUME IInv, NEW w \in Worker, GiveRequest(w) PROVE IInv'
<1>1. Types /\ Core /\ Contexts /\ Domains /\ Main \in Ctx /\ Tabled(Main)
  BY CtxFacts DEF IInv, Core, Types, Contexts
<1> DEFINE id == Top(Main).id
<1> DEFINE s == ById(Main, id)
<1> DEFINE conn == slots[Main][s]
<1> DEFINE p == [conn |-> conn, req |-> Top(Main).req]
<1>2. /\ ~ Idle(Main) /\ s # 0 /\ conn.mode = "http" /\ Vacate(Main, s, Blank)
      /\ inbox' = [inbox EXCEPT ![w] = Append(@, p)]
      /\ UNCHANGED <<calls, nextId, pc, ready, lost, wire, sending, shut, closeEvents, switched>>
  BY DEF GiveRequest, InCode, Answerable, control, client, outcome, fates, replies
<1>3. /\ s \in Alive(slots[Main]) /\ conn.id = id /\ conn \in Record /\ id \in Conn /\ s \in DOMAIN slots[Main]
  BY <1>1, <1>2, HandlerConn
<1>4. conn.alive /\ id \in IdsOf(slots[Main])
  BY <1>1, <1>3, IdsInConn
<1>5. p \in Parcel /\ p.conn = conn
  BY <1>1, <1>2, <1>3, TopFacts DEF Parcel
<1> HIDE DEF s, id, p
<1>6. Blank \in Record /\ ~ Blank.alive /\ ~ Blank.upgraded
  BY <1>3, BlankFacts, ConnFacts
<1>7. /\ Domains' /\ Tabled(Main)' /\ Others(Main) /\ Changed(slots[Main], slots'[Main], s, Blank)
      /\ Alive(slots'[Main]) = Alive(slots[Main]) \ {s}
      /\ IdsOf(slots'[Main]) = IdsOf(slots[Main]) \ {slots[Main][s].id}
  BY <1>1, <1>2, <1>3, <1>6, VacateStep
<1>8. slots[Main][s].id \notin Closing(calls[Main]) /\ ~ conn.upgraded
  BY <1>1, <1>2, <1>3, HttpNotClosing
<1>9. Stack(calls'[Main], slots'[Main])
  <2>1. Stack(calls[Main], slots[Main])
    BY <1>1 DEF Contexts
  <2>2. Stack(calls[Main], slots'[Main])
    BY <1>6, <1>7, <1>8, <2>1, StackVacate
  <2>3. QED
    BY <1>2, <2>2
<1>10. Contexts'
  BY <1>1, <1>2, <1>7, <1>9, ContextsStep DEF Local
<1>11. /\ Owners' /\ inbox' \in [Worker -> Seq(Parcel)]
       /\ \A v \in Worker : \A i \in DOMAIN inbox'[v] :
            inbox'[v][i] = p \/ (i \in DOMAIN inbox[v] /\ inbox'[v][i] = inbox[v][i])
  <2>1. Owners /\ inbox \in [Worker -> Seq(Parcel)]
    BY <1>1 DEF Core, Types
  <2>2. p.conn.id \in Conn /\ p.conn.id \in IdsOf(slots[Main])
    BY <1>3, <1>4, <1>5
  <2>3. IdsOf(slots'[Main]) = IdsOf(slots[Main]) \ {p.conn.id}
    BY <1>5, <1>7
  <2>4. \A d \in Ctx \ {Main} : IdsOf(slots'[d]) = IdsOf(slots[d])
    BY <1>7 DEF Others
  <2> HIDE DEF conn
  <2>5. QED
    BY <1>1, <1>2, <1>5, <2>1, <2>2, <2>3, <2>4, OwnersGive
<1>12. Queued'
  <2>1. conn.id \in Conn \ switched
    BY <1>1, <1>2, <1>3 DEF Core, Closed
  <2>2. QED
    BY <1>1, <1>2, <1>4, <1>5, <1>8, <1>11, <2>1 DEF Core, Queued
<1>13. Closed'
  <2>1. ASSUME NEW d \in Ctx, NEW r \in Alive(slots'[d])
        PROVE slots'[d][r].mode = "ws" <=> slots'[d][r].id \in switched
    <3>1. r \in Alive(slots[d]) /\ slots'[d][r] = slots[d][r]
      BY <1>7, <2>1 DEF Changed, Others, Alive
    <3>2. QED
      BY <1>1, <3>1 DEF Core, Closed
  <2>2. QED
    BY <1>1, <1>2, <2>1, ClosedKept DEF Core
<1>14. Types'
  BY <1>1, <1>2, <1>7, <1>11, TypesKept DEF Types
<1>15. QED
  BY <1>10, <1>11, <1>12, <1>13, <1>14 DEF IInv, Core

LEMMA DeliverKeeps == ASSUME IInv, NEW w \in Worker, Deliver(w) PROVE IInv'
<1>1. Types /\ Core /\ Contexts /\ Domains /\ w \in Ctx /\ Tabled(w)
  BY CtxFacts DEF IInv, Core, Types, Contexts
<1> DEFINE p == Head(inbox[w])
<1> DEFINE f == Given(p)
<1>2. /\ Idle(w) /\ inbox[w] # << >> /\ Install(w, p.conn) /\ calls' = [calls EXCEPT ![w] = <<f>>]
      /\ inbox' = [inbox EXCEPT ![w] = Tail(@)]
      /\ UNCHANGED <<nextId, pc, ready, lost, wire, sending, shut, closeEvents, switched>>
  BY DEF Deliver, client, outcome, fates, replies
<1>3. p \in Parcel /\ p = inbox[w][1] /\ 1 \in DOMAIN inbox[w]
  <2>1. inbox[w] \in Seq(Parcel)
    BY <1>1 DEF Types
  <2>2. QED
    BY <1>2, <2>1, HeadTailProperties, LenProperties, EmptySeq
<1>4. p.conn \in Record /\ p.conn.id \in Conn \ switched /\ p.conn.alive /\ p.conn.mode = "http" /\ ~ p.conn.upgraded
      /\ p.req \in 0..MaxReq
  BY <1>1, <1>3 DEF Core, Queued, Parcel
<1>5. p.conn.id \notin IdsOf(slots[w])
  <2>1. InQueue(p.conn.id, w)
    BY <1>3 DEF InQueue, QueuedConns
  <2>2. QED
    BY <1>1, <1>4, <2>1 DEF Core, Owners, OwnedOnce, InTable
<1>6. f \in Frame /\ f.at = "request"
  <2>1. p.conn.id \in 0..MaxConn /\ p.req \in 0..MaxReq
    BY <1>4, ConnFacts
  <2>2. f = Request(p.conn.id, p.req)
    BY DEF Given
  <2> HIDE DEF p, f
  <2>3. QED
    BY <2>1, <2>2, CallFacts
<1> HIDE DEF f, p
<1> DEFINE conn == p.conn
<1> DEFINE s == SlotFor(w)
<1>7. conn \in Record /\ conn.alive /\ conn.id \in Conn /\ conn.mode = "http" /\ ~ conn.upgraded
      /\ conn.id \notin IdsOf(slots[w]) /\ Install(w, conn)
  BY <1>2, <1>4, <1>5
<1>8. conn.id \notin switched /\ conn.id = Head(inbox[w]).conn.id
  BY <1>4 DEF p
<1> HIDE DEF conn, s
<1>9. Domains' /\ Tabled(w)' /\ Others(w) /\ Added(slots[w], slots'[w], SlotFor(w), conn)
  BY <1>1, <1>7, InstallStep
<1>10. /\ Alive(slots'[w]) = Alive(slots[w]) \cup {SlotFor(w)} /\ IdsOf(slots'[w]) = IdsOf(slots[w]) \cup {conn.id}
       /\ \A r \in Alive(slots[w]) : slots'[w][r] = slots[w][r]
  BY <1>7, <1>9, AddedFacts
<1>11. calls'[w] = <<f>> /\ DOMAIN calls' = Ctx /\ \A d \in Ctx \ {w} : calls'[d] = calls[d]
  BY <1>1, <1>2 DEF Types
<1>12. Stack(calls'[w], slots'[w]) /\ Closing(calls'[w]) = Closing(calls[w])
  <2>1. Stack(<< >>, slots[w]) /\ Closing(calls[w]) = {}
    BY <1>1, <1>2, IdleFacts
  <2>2. Stack(<< >>, slots'[w])
    BY <1>7, <1>9, <2>1, StackAdd
  <2>3. Stack(<<f>>, slots'[w]) /\ Closing(<<f>>) = {}
    BY <1>6, <2>2, StackSolo
  <2>4. QED
    BY <1>11, <2>1, <2>3
<1>13. Contexts'
  BY <1>1, <1>9, <1>11, <1>12, ContextsStep DEF Local
<1>14. /\ Owners' /\ inbox' \in [Worker -> Seq(Parcel)]
       /\ \A v \in Worker : \A i \in DOMAIN inbox'[v] : \E j \in DOMAIN inbox[v] : inbox'[v][i] = inbox[v][j]
  <2>1. Owners /\ inbox \in [Worker -> Seq(Parcel)] /\ Worker \subseteq Ctx
    BY <1>1, CtxFacts DEF Core, Types
  <2>2. \A d \in Ctx \ {w} : IdsOf(slots'[d]) = IdsOf(slots[d])
    BY <1>9 DEF Others
  <2>3. UNCHANGED <<shut, lost, nextId>>
    BY <1>2
  <2> DEFINE id == conn.id
  <2>4. id \in Conn /\ id = Head(inbox[w]).conn.id /\ IdsOf(slots'[w]) = IdsOf(slots[w]) \cup {id}
    BY <1>7, <1>8, <1>10
  <2> HIDE DEF id
  <2>5. QED
    BY <1>2, <2>1, <2>2, <2>3, <2>4, OwnersDeliver
<1>15. Queued'
  BY <1>1, <1>2, <1>14, QueuedKept DEF Core
<1>16. Closed'
  <2>1. ASSUME NEW d \in Ctx, NEW r \in Alive(slots'[d])
        PROVE slots'[d][r].mode = "ws" <=> slots'[d][r].id \in switched
    <3>1. CASE d = w /\ r = SlotFor(w)
      BY <1>7, <1>8, <1>9, <3>1 DEF Added
    <3>2. CASE d = w /\ r # SlotFor(w)
      BY <1>1, <1>10, <2>1, <3>2 DEF Core, Closed
    <3>3. CASE d # w
      BY <1>1, <1>9, <2>1, <3>3 DEF Core, Closed, Others
    <3>4. QED
      BY <3>1, <3>2, <3>3
  <2>2. \A d \in Ctx : Closing(calls'[d]) = Closing(calls[d])
    BY <1>11, <1>12
  <2>3. QED
    BY <1>1, <1>2, <2>1, <2>2, ClosedKept DEF Core
<1>17. Types'
  BY <1>1, <1>2, <1>9, <1>11, <1>14, TypesKept DEF Types
<1>18. QED
  BY <1>13, <1>14, <1>15, <1>16, <1>17 DEF IInv, Core

LEMMA JoinReturnsKeeps == ASSUME IInv, JoinReturns PROVE IInv'
<1>1. Types /\ Core /\ Contexts /\ Domains /\ Main \in Ctx
  BY CtxFacts DEF IInv, Core, Types
<1> DEFINE w == Top(Main).thread
<1>2. /\ ~ Idle(Main) /\ Top(Main).at = "join" /\ pc[w] = "dead"
      /\ lost' = lost \cup Discarded(w) /\ inbox' = [inbox EXCEPT ![w] = << >>]
      /\ calls' = [calls EXCEPT ![Main] = Beneath(Main)]
      /\ UNCHANGED <<tables, nextId, pc, ready, wire, sending, shut, closeEvents, switched>>
  BY DEF JoinReturns, InCode, client, outcome, fates, replies
<1>3. w \in Worker
  <2>1. w \in Ctx
    BY <1>1, <1>2, TopFacts, FrameFacts
  <2>2. w # Main
    BY <1>1, <1>2 DEF Types
  <2>3. QED
    BY <2>1, <2>2 DEF Ctx
<1>4. slots' = slots /\ free' = free /\ index' = index /\ used' = used
  BY <1>2 DEF tables
<1>5. Stack(Beneath(Main), slots[Main]) /\ Closing(Beneath(Main)) = Closing(calls[Main])
  <2>1. Stack(calls[Main], slots[Main]) /\ Popped(calls[Main], Beneath(Main), Top(Main))
    BY <1>1, <1>2, TopFacts DEF Contexts
  <2>2. QED
    BY <1>2, <2>1, StackPop
<1>6. calls'[Main] = Beneath(Main) /\ DOMAIN calls' = Ctx /\ \A d \in Ctx \ {Main} : calls'[d] = calls[d]
  BY <1>1, <1>2 DEF Types
<1>7. Local(Main)
  <2>1. Tabled(Main)'
    BY <1>1, <1>4 DEF Contexts, Tabled
  <2>2. QED
    BY <1>4, <1>5, <1>6, <2>1 DEF Local, Others
<1>8. Contexts'
  BY <1>1, <1>7, ContextsStep
<1>9. /\ Owners' /\ inbox' \in [Worker -> Seq(Parcel)] /\ lost' \subseteq Thrown
      /\ \A v \in Worker : \A i \in DOMAIN inbox'[v] : \E j \in DOMAIN inbox[v] : inbox'[v][i] = inbox[v][j]
  <2>1. Owners /\ inbox \in [Worker -> Seq(Parcel)] /\ lost \subseteq Thrown
    BY <1>1 DEF Core, Types
  <2>2. \A i \in DOMAIN inbox[w] : inbox[w][i].conn.id \in Conn
    BY <1>1, <1>3 DEF Core, Queued
  <2>3. \A d \in Ctx : IdsOf(slots'[d]) = IdsOf(slots[d])
    BY <1>4
  <2>4. UNCHANGED <<shut, nextId>>
    BY <1>2
  <2> HIDE DEF w
  <2>5. QED
    BY <1>2, <1>3, <2>1, <2>2, <2>3, <2>4, OwnersJoin
<1>10. Queued'
  BY <1>1, <1>2, <1>9, QueuedKept DEF Core
<1>11. Closed'
  <2>1. \A d \in Ctx : Closing(calls'[d]) = Closing(calls[d])
    BY <1>5, <1>6
  <2>2. \A d \in Ctx : \A r \in Alive(slots'[d]) : slots'[d][r].mode = "ws" <=> slots'[d][r].id \in switched
    BY <1>1, <1>4 DEF Core, Closed
  <2>3. QED
    BY <1>1, <1>2, <2>1, <2>2, ClosedKept DEF Core
<1>12. Types'
  <2>1. Domains'
    BY <1>1, <1>4 DEF Domains
  <2>2. QED
    BY <1>1, <1>2, <1>6, <1>9, <2>1, TypesKept DEF Types
<1>13. QED
  BY <1>8, <1>9, <1>10, <1>11, <1>12 DEF IInv, Core

(***************************************************************************)
(* The specification.                                                      *)
(***************************************************************************)

LEMMA InitKeeps == ASSUME Init PROVE IInv
<1>1. /\ slots = [c \in Ctx |-> << >>] /\ free = [c \in Ctx |-> << >>]
      /\ index = [c \in Ctx |-> EmptyTable(0)] /\ used = [c \in Ctx |-> 0] /\ nextId = 1
      /\ pc = [c \in Ctx |-> "round"] /\ calls = [c \in Ctx |-> << >>] /\ ready = [c \in Ctx |-> << >>]
      /\ inbox = [w \in Worker |-> << >>] /\ lost = {}
      /\ wire = [id \in Conn |-> << >>] /\ eof = [id \in Conn |-> FALSE]
      /\ phase = [id \in Conn |-> "request"] /\ nextReq = 1 /\ asked = [id \in Conn |-> << >>]
      /\ shut = [id \in Conn |-> 0] /\ closeEvents = [id \in Conn |-> 0] /\ switched = {}
  BY DEF Init
<1>2. /\ << >> \in Seq(Conn) /\ << >> \in Seq(Item) /\ << >> \in Seq(Parcel) /\ << >> \in Seq(Frame)
      /\ DOMAIN << >> = {} /\ Main \in Ctx
  BY CtxFacts, EmptySeq
<1>3. Alive(<< >>) = {} /\ IdsOf(<< >>) = {} /\ Table(<< >>, << >>, EmptyTable(0), 0)
  BY EmptyTableOK
<1>4. Types
  <2>1. nextId \in 1..MaxConn+1 /\ nextReq \in 1..MaxReq+1
    BY <1>1, ConnAssumption
  <2>2. pc \in [Ctx -> Pc] /\ pc[Main] # "dead" /\ ready \in [Ctx -> Seq(Conn)]
    BY <1>1, <1>2 DEF Pc
  <2>3. inbox \in [Worker -> Seq(Parcel)] /\ lost \subseteq Thrown /\ switched \subseteq Conn
    BY <1>1, <1>2
  <2>4. /\ wire \in [Conn -> Seq(Item)] /\ eof \in [Conn -> BOOLEAN]
        /\ phase \in [Conn -> {"request", "body", "quiet"}] /\ asked \in [Conn -> Seq(Item)]
        /\ \A id \in Conn : phase[id] = "body" => asked[id] # << >>
    BY <1>1, <1>2
  <2>5. shut \in [Conn -> Nat] /\ closeEvents \in [Conn -> Nat]
    BY <1>1
  <2>6. Domains /\ DOMAIN calls = Ctx
    BY <1>1 DEF Domains
  <2>7. QED
    BY <2>1, <2>2, <2>3, <2>4, <2>5, <2>6 DEF Types
<1>5. Closing(<< >>) = {} /\ Stack(<< >>, << >>)
  BY <1>2, <1>3 DEF Closing, ClosingFrames, Stack
<1>6. Contexts
  BY <1>1, <1>3, <1>5 DEF Contexts, Tabled
<1>7. Owners
  <2>1. \A c \in Ctx : IdsOf(slots[c]) = {}
    BY <1>1, <1>3
  <2>2. \A w \in Worker : QueuedConns(w) = {} /\ DOMAIN inbox[w] = {}
    BY <1>1, <1>2 DEF QueuedConns
  <2>3. \A id \in Conn : ~ (id < nextId) /\ shut[id] = 0
    BY <1>1, ConnFacts
  <2>4. QED
    BY <1>1, <2>1, <2>2, <2>3 DEF Owners, OwnedOnce, InTable, InQueue, IsLost, IsShut
<1>8. Queued
  BY <1>1, <1>2 DEF Queued
<1>9. Closed
  BY <1>1, <1>3, <1>5 DEF Closed
<1>10. QED
  BY <1>4, <1>6, <1>7, <1>8, <1>9 DEF IInv, Core

LEMMA NextKeeps == ASSUME "closeAgain" \notin Uses, IInv, [Next]_vars PROVE IInv'
<1>1. CASE UNCHANGED vars
  <2>1. UNCHANGED <<tables, calls, pc, ready, inbox, lost, wire, sending, shut, nextId, switched, closeEvents>>
    BY <1>1 DEF vars, control, handoff, client, outcome, fates, replies
  <2>2. Core'
    BY <2>1, StillKeeps DEF IInv
  <2>3. Types'
    BY <2>1, TypesKept DEF IInv, Types, Domains, tables
  <2>4. QED
    BY <2>2, <2>3 DEF IInv
<1>2. ASSUME NEW c \in Ctx, Step(c) PROVE IInv'
  <2>1. CASE Poll(c)
    BY <2>1, PollKeeps
  <2>2. CASE Serve(c)
    BY <2>2, ServeKeeps
  <2>3. CASE Reap(c)
    BY <2>3, ReapKeeps
  <2>4. CASE ReadingTurn(c)
    BY <2>4, ReadingTurnKeeps
  <2>5. CASE FramingTurn(c)
    BY <2>5, FramingTurnKeeps
  <2>6. CASE Return(c)
    BY <2>6, ReturnKeeps
  <2>7. CASE CloseReturns(c)
    BY <2>7, CloseReturnsKeeps
  <2>8. CASE FinishRequest(c)
    BY <2>8, FinishRequestKeeps
  <2>9. CASE c \in Worker /\ Deliver(c)
    BY <2>9, DeliverKeeps
  <2>10. CASE c \in Worker /\ KillSeen(c)
    BY <2>10, KillSeenKeeps
  <2>11. CASE c \in Worker /\ TeardownNext(c)
    BY <2>11, TeardownNextKeeps
  <2>12. CASE c \in Worker /\ FreeTables(c)
    BY <2>12, FreeTablesKeeps
  <2>13. CASE JoinReturns
    BY <2>13, JoinReturnsKeeps
  <2>14. QED
    BY <1>2, <2>1, <2>2, <2>3, <2>4, <2>5, <2>6, <2>7, <2>8, <2>9, <2>10, <2>11, <2>12, <2>13
    DEF Step, HandlerReturns
<1>3. CASE ProgramCall
  <2>1. CASE RunCallbacks
    BY <2>1, RunCallbacksKeeps
  <2>2. ASSUME NEW c \in Ctx, Answer(c) \/ Upgrade(c) \/ SocketClose(c) PROVE IInv'
    BY <2>2, AnswerKeeps, UpgradeKeeps, SocketCloseKeeps
  <2>3. ASSUME NEW w \in Worker, Message(w) \/ GiveRequest(w) \/ Kill(w) \/ Live(w) PROVE IInv'
    BY <2>3, MessageKeeps, GiveRequestKeeps, KillKeeps, LiveKeeps
  <2>4. QED
    BY <1>3, <2>1, <2>2, <2>3 DEF ProgramCall
<1>4. CASE ClientStep
  <2>1. ASSUME NEW id \in Conn, SendHead(id) \/ SendBody(id) \/ SendFrame(id) \/ Hangup(id) PROVE IInv'
    BY <2>1, SendHeadKeeps, SendBodyKeeps, SendFrameKeeps, HangupKeeps
  <2>2. QED
    BY <1>4, <2>1 DEF ClientStep
<1>5. QED
  BY <1>1, <1>2, <1>3, <1>4 DEF Next

\* In every reachable state the tables, the stacks of calls, the queues and the history fit
\* together, if no close handler closes its own socket again.
THEOREM ConnectionsInvariant == ASSUME "closeAgain" \notin Uses PROVE Spec => []IInv
<1>1. Init => IInv
  BY InitKeeps
<1>2. IInv /\ [Next]_vars => IInv'
  BY NextKeeps
<1>3. QED
  BY <1>1, <1>2, PTL DEF Spec

LEMMA TablesFromInvariant == ASSUME IInv PROVE TablesExact
<1> SUFFICES ASSUME NEW c \in Ctx
             PROVE  /\ {<<slots[c][s].id, s>> : s \in LiveSlots(c)} =
                         {e \in {<<id, IndexGet(index[c], id)>> : id \in Conn} : e[2] # 0}
                    /\ Cap(index[c]) > 0 => \E i \in DOMAIN index[c] : index[c][i].id = Empty
                    /\ IsInjective(free[c])
                    /\ ToSet(free[c]) = DOMAIN slots[c] \ LiveSlots(c)
  BY DEF TablesExact
<1>1. Contexts /\ Tabled(c)
  BY DEF IInv, Core, Contexts
<1>2. LiveSlots(c) = Alive(slots[c])
  BY DEF LiveSlots, Alive
<1>3. \A s \in Alive(slots[c]) : slots[c][s].id \in Conn /\ s # 0 /\ IndexGet(index[c], slots[c][s].id) = s
  <2>1. \A s \in Alive(slots[c]) : slots[c][s].id \in Conn /\ s # 0
    BY <1>1, TableFacts DEF Tabled
  <2>2. ASSUME NEW s \in Alive(slots[c]), NEW id \in 0..MaxConn, slots[c][s].id = id PROVE IndexGet(index[c], id) = s
    BY <1>1, <2>2, TableGet DEF Tabled
  <2>3. QED
    BY <2>1, <2>2, ConnFacts
<1>4. ASSUME NEW id \in Conn, IndexGet(index[c], id) # 0
      PROVE \E s \in Alive(slots[c]) : slots[c][s].id = id /\ IndexGet(index[c], id) = s
  <2>1. id \in IdsOf(slots[c])
    BY <1>1, <1>4, TableGet, ConnFacts DEF Tabled
  <2>2. QED
    BY <1>3, <2>1 DEF IdsOf
<1>5. {<<slots[c][s].id, s>> : s \in LiveSlots(c)} =
        {e \in {<<id, IndexGet(index[c], id)>> : id \in Conn} : e[2] # 0}
  <2>1. ASSUME NEW e \in {<<slots[c][s].id, s>> : s \in Alive(slots[c])}
        PROVE  e \in {<<id, IndexGet(index[c], id)>> : id \in Conn} /\ e[2] # 0
    BY <1>3
  <2>2. ASSUME NEW e \in {<<id, IndexGet(index[c], id)>> : id \in Conn}, e[2] # 0
        PROVE  e \in {<<slots[c][s].id, s>> : s \in Alive(slots[c])}
    BY <1>4, <2>2
  <2>3. QED
    BY <1>2, <2>1, <2>2
<1>6. Cap(index[c]) > 0 => \E i \in DOMAIN index[c] : index[c][i].id = Empty
  BY <1>1, EmptyLeft DEF Tabled, Table
<1>7. QED
  BY <1>1, <1>2, <1>5, <1>6 DEF Tabled, Table

\* Whatever the hash function and the sequence of connections, a conn_id finds its live
\* connection and nothing else, every probe ends, and a slot is free once or taken once.
THEOREM TablesAreExact == ASSUME "closeAgain" \notin Uses PROVE Spec => []TablesExact
<1>1. IInv => TablesExact
  BY TablesFromInvariant
<1>2. Spec => []IInv
  BY ConnectionsInvariant
<1>3. QED
  BY <1>1, <1>2, PTL

\* A set with at most one member.
LEMMA AtMostOne ==
  ASSUME NEW S, \A x, y \in S : x = y
  PROVE  Cardinality(S) = IF S = {} THEN 0 ELSE 1
<1>1. CASE S = {}
  BY <1>1, FS_EmptySet
<1>2. CASE S # {}
  <2>1. PICK x \in S : TRUE
    BY <1>2
  <2>2. S = {x}
    BY <2>1
  <2>3. QED
    BY <1>2, <2>2, FS_Singleton
<1>3. QED
  BY <1>1, <1>2

LEMMA OwnerFromInvariant == ASSUME IInv PROVE OneOwner
<1> SUFFICES ASSUME NEW id \in Conn
             PROVE  Cardinality(Where(slots, LAMBDA conn : conn.alive /\ conn.id = id))
                    + Cardinality(Where(inbox, LAMBDA p : p.conn.id = id))
                    + Cardinality({l \in lost : l.id = id})
                    + shut[id] = IF id < nextId THEN 1 ELSE 0
  BY DEF OneOwner
<1> DEFINE A == Where(slots, LAMBDA conn : conn.alive /\ conn.id = id)
<1> DEFINE B == Where(inbox, LAMBDA p : p.conn.id = id)
<1> DEFINE L == {l \in lost : l.id = id}
<1>1. Types /\ Core /\ Contexts /\ OwnedOnce(id) /\ Owners
  BY DEF IInv, Core, Owners
<1>2. \A x : x \in A <=> \E c \in Ctx : \E i \in Alive(slots[c]) : x = <<c, i>> /\ slots[c][i].id = id
  <2> DEFINE In(c) == {i \in DOMAIN slots[c] : slots[c][i].alive /\ slots[c][i].id = id}
  <2>1. A = UNION {{<<c, i>> : i \in In(c)} : c \in Ctx}
    BY <1>1 DEF Where, Types, Domains
  <2>2. \A c \in Ctx : \A i : i \in In(c) <=> i \in Alive(slots[c]) /\ slots[c][i].id = id
    BY DEF Alive
  <2> HIDE DEF A, In
  <2>3. \A x : x \in A <=> \E c \in Ctx : \E i \in In(c) : x = <<c, i>>
    BY <2>1
  <2>4. QED
    BY <2>2, <2>3
<1>3. \A c \in Ctx : InTable(id, c) <=> \E i \in Alive(slots[c]) : slots[c][i].id = id
  BY DEF InTable, IdsOf
<1>4. A = {} <=> \A c \in Ctx : ~ InTable(id, c)
  <2> HIDE DEF A
  <2>1. QED
    BY <1>2, <1>3
<1>5. \A x, y \in A : x = y
  <2>2. \A x \in A : \E c \in Ctx : \E i \in Alive(slots[c]) : x = <<c, i>> /\ slots[c][i].id = id /\ InTable(id, c)
    <3> HIDE DEF A
    <3>1. QED
      BY <1>2, <1>3
  <2> HIDE DEF A
  <2>3. SUFFICES ASSUME NEW x \in A, NEW y \in A PROVE x = y
    OBVIOUS
  <2>4. PICK c \in Ctx : \E i \in Alive(slots[c]) : x = <<c, i>> /\ slots[c][i].id = id /\ InTable(id, c)
    BY <2>2
  <2>5. PICK i \in Alive(slots[c]) : x = <<c, i>> /\ slots[c][i].id = id
    BY <2>4
  <2>6. PICK d \in Ctx : \E j \in Alive(slots[d]) : y = <<d, j>> /\ slots[d][j].id = id /\ InTable(id, d)
    BY <2>2
  <2>7. PICK j \in Alive(slots[d]) : y = <<d, j>> /\ slots[d][j].id = id
    BY <2>6
  <2>8. c = d
    BY <1>1, <2>4, <2>6 DEF OwnedOnce
  <2>9. i = j
    BY <1>1, <2>5, <2>7, <2>8, IdsInConn
  <2>10. QED
    BY <2>5, <2>7, <2>8, <2>9
<1>6. \A x : x \in B <=> \E w \in Worker : \E i \in DOMAIN inbox[w] : x = <<w, i>> /\ inbox[w][i].conn.id = id
  <2> DEFINE In(w) == {i \in DOMAIN inbox[w] : inbox[w][i].conn.id = id}
  <2>1. B = UNION {{<<w, i>> : i \in In(w)} : w \in Worker}
    BY <1>1 DEF Where, Types
  <2>2. \A w \in Worker : \A i : i \in In(w) <=> i \in DOMAIN inbox[w] /\ inbox[w][i].conn.id = id
    OBVIOUS
  <2> HIDE DEF B, In
  <2>3. \A x : x \in B <=> \E w \in Worker : \E i \in In(w) : x = <<w, i>>
    BY <2>1
  <2>4. QED
    BY <2>2, <2>3
<1>7. \A w \in Worker : InQueue(id, w) <=> \E i \in DOMAIN inbox[w] : inbox[w][i].conn.id = id
  BY DEF InQueue, QueuedConns
<1>8. B = {} <=> \A w \in Worker : ~ InQueue(id, w)
  <2> HIDE DEF B
  <2>1. QED
    BY <1>6, <1>7
<1>9. \A x, y \in B : x = y
  <2>1. \A x \in B : \E w \in Worker : \E i \in DOMAIN inbox[w] : x = <<w, i>> /\ inbox[w][i].conn.id = id /\ InQueue(id, w)
    <3> HIDE DEF B
    <3>1. QED
      BY <1>6, <1>7
  <2> HIDE DEF B
  <2>2. SUFFICES ASSUME NEW x \in B, NEW y \in B PROVE x = y
    OBVIOUS
  <2>3. PICK w \in Worker : \E i \in DOMAIN inbox[w] : x = <<w, i>> /\ inbox[w][i].conn.id = id /\ InQueue(id, w)
    BY <2>1
  <2>4. PICK i \in DOMAIN inbox[w] : x = <<w, i>> /\ inbox[w][i].conn.id = id
    BY <2>3
  <2>5. PICK v \in Worker : \E j \in DOMAIN inbox[v] : y = <<v, j>> /\ inbox[v][j].conn.id = id /\ InQueue(id, v)
    BY <2>1
  <2>6. PICK j \in DOMAIN inbox[v] : y = <<v, j>> /\ inbox[v][j].conn.id = id
    BY <2>5
  <2>7. w = v
    BY <1>1, <2>3, <2>5 DEF OwnedOnce
  <2>8. i = j
    BY <1>1, <2>4, <2>6, <2>7 DEF Owners
  <2>9. QED
    BY <2>4, <2>6, <2>7, <2>8
<1>10. (L = {} <=> ~ IsLost(id)) /\ \A x, y \in L : x = y
  BY <1>1 DEF IsLost, Owners
<1>11. shut[id] = IF IsShut(id) THEN 1 ELSE 0
  <2>1. shut[id] \in Nat /\ shut[id] <= 1
    BY <1>1 DEF Types, Owners
  <2>2. QED
    BY <2>1 DEF IsShut
<1> HIDE DEF A, B, L
<1>12. /\ Cardinality(A) = IF A = {} THEN 0 ELSE 1
       /\ Cardinality(B) = IF B = {} THEN 0 ELSE 1
       /\ Cardinality(L) = IF L = {} THEN 0 ELSE 1
  BY <1>5, <1>9, <1>10, AtMostOne
<1>13. Cardinality(A) + Cardinality(B) + Cardinality(L) + shut[id] = IF id < nextId THEN 1 ELSE 0
  <2>1. CASE \E c \in Ctx : InTable(id, c)
    <3>1. A # {} /\ B = {} /\ L = {} /\ ~ IsShut(id) /\ id < nextId
      BY <1>1, <1>4, <1>8, <1>10, <2>1 DEF OwnedOnce
    <3>2. QED
      BY <1>11, <1>12, <3>1
  <2>2. CASE \E w \in Worker : InQueue(id, w)
    <3>1. A = {} /\ B # {} /\ L = {} /\ ~ IsShut(id) /\ id < nextId
      BY <1>1, <1>4, <1>8, <1>10, <2>2 DEF OwnedOnce
    <3>2. QED
      BY <1>11, <1>12, <3>1
  <2>3. CASE IsLost(id)
    <3>1. A = {} /\ B = {} /\ L # {} /\ ~ IsShut(id) /\ id < nextId
      BY <1>1, <1>4, <1>8, <1>10, <2>3 DEF OwnedOnce
    <3>2. QED
      BY <1>11, <1>12, <3>1
  <2>4. CASE IsShut(id)
    <3>1. A = {} /\ B = {} /\ L = {} /\ id < nextId
      BY <1>1, <1>4, <1>8, <1>10, <2>4 DEF OwnedOnce
    <3>2. QED
      BY <1>11, <1>12, <2>4, <3>1
  <2>5. CASE /\ \A c \in Ctx : ~ InTable(id, c)
             /\ \A w \in Worker : ~ InQueue(id, w)
             /\ ~ IsLost(id) /\ ~ IsShut(id)
    <3>1. A = {} /\ B = {} /\ L = {} /\ ~ (id < nextId)
      BY <1>1, <1>4, <1>8, <1>10, <2>5 DEF OwnedOnce
    <3>2. QED
      BY <1>11, <1>12, <2>5, <3>1
  <2>6. QED
    BY <2>1, <2>2, <2>3, <2>4, <2>5
<1>14. QED
  BY <1>13 DEF A, B, L

\* Across accept, hand-off, kill, restart and close an accepted connection is never in two
\* places, nor its fd closed twice, nor lost without a kill.
THEOREM ConnectionsOwnedOnce == ASSUME "closeAgain" \notin Uses PROVE Spec => []OneOwner
<1>1. IInv => OneOwner
  BY OwnerFromInvariant
<1>2. Spec => []IInv
  BY ConnectionsInvariant
<1>3. QED
  BY <1>1, <1>2, PTL

LEMMA CloseFromInvariant == ASSUME IInv PROVE SocketCloseOnce
<1> SUFFICES ASSUME NEW id \in Conn
             PROVE  /\ closeEvents[id] <= 1
                    /\ closeEvents[id] = 1 => id \in switched
                    /\ shut[id] > 0 /\ id \in switched => closeEvents[id] = 1
  BY DEF SocketCloseOnce
<1>1. Contexts /\ Closed
  BY DEF IInv, Core
<1>2. closeEvents[id] = IF \/ \E c \in Ctx : id \in Closing(calls[c])
                           \/ shut[id] > 0 /\ id \in switched
                        THEN 1 ELSE 0
  BY <1>1 DEF Closed
<1>3. ASSUME NEW c \in Ctx, id \in Closing(calls[c]) PROVE id \in switched
  <2>1. PICK i \in ClosingFrames(calls[c]) : calls[c][i].id = id
    BY <1>3 DEF Closing
  <2>2. /\ calls[c][i].slot \in Alive(slots[c]) /\ slots[c][calls[c][i].slot].id = id
        /\ slots[c][calls[c][i].slot].upgraded
    BY <1>1, <2>1 DEF Contexts, Stack
  <2>3. slots[c][calls[c][i].slot].mode = "ws"
    BY <1>1, <2>2, IdsInConn
  <2>4. QED
    BY <1>1, <2>2, <2>3 DEF Closed
<1>4. QED
  BY <1>2, <1>3

\* on socketClose runs once for every WebSocket, before its fd is closed, and for no other
\* connection: however it ends, and whichever handler is running then.
THEOREM CloseHandlerOnce == ASSUME "closeAgain" \notin Uses PROVE Spec => []SocketCloseOnce
<1>1. IInv => SocketCloseOnce
  BY CloseFromInvariant
<1>2. Spec => []IInv
  BY ConnectionsInvariant
<1>3. QED
  BY <1>1, <1>2, PTL

(***************************************************************************)
(* No request is left whole in a buffer.                                   *)
(***************************************************************************)

\* The poll loop is in the parsing loop over requests, at slot s.
Reads(st, s) == 1 \in DOMAIN st /\ st[1].at = "reading" /\ st[1].slot = s

\* What a context's stack says of the buffers in its table, given the connections handed
\* off (gv) and closed (sh): a whole request is looked at again, a handler's connection is
\* the one being parsed, the loop over frames has a WebSocket, a dead slot a closed conn_id.
Looked(st, sl, gv, sh) ==
  /\ \A s \in Alive(sl) : sl[s].mode = "http" /\ Complete(sl[s].buf) => sl[s].id \in gv \/ Reads(st, s)
  /\ \A i \in DOMAIN st : st[i].at = "request" =>
       st[i].id \in gv \/ \A s \in Alive(sl) : sl[s].id = st[i].id => Reads(st, s)
  /\ \A s \in Alive(sl) : 1 \in DOMAIN st /\ st[1].at = "framing" /\ st[1].slot = s => sl[s].mode = "ws"
  /\ \A s \in DOMAIN sl \ Alive(sl) : sl[s].id = 0 \/ sh[sl[s].id] > 0

LookedAt(c) == Looked(calls[c], slots[c], given, shut)
QueuedGiven == \A w \in Worker : \A i \in DOMAIN inbox[w] : inbox[w][i].conn.id \in given
Looking == QueuedGiven /\ \A c \in Ctx : LookedAt(c)

LEMMA LookedPush ==
  ASSUME NEW st \in Seq(Frame), NEW sl, NEW gv, NEW sh, Looked(st, sl, gv, sh),
         NEW tt, NEW f, Pushed(st, tt, f), f.at \notin {"reading", "framing"},
         f.at = "request" => f.id \in gv \/ \A s \in Alive(sl) : sl[s].id = f.id => Reads(st, s)
  PROVE  Looked(tt, sl, gv, sh)
<1>1. DOMAIN st = 1..Len(st) /\ Len(st) \in Nat
  BY LenProperties
<1>2. /\ DOMAIN tt = DOMAIN st \cup {Len(st) + 1} /\ tt[Len(st) + 1] = f /\ \A i \in DOMAIN st : tt[i] = st[i]
  BY DEF Pushed
<1>3. CASE 1 \in DOMAIN st
  <2>1. \A s : Reads(tt, s) <=> Reads(st, s)
    BY <1>2, <1>3 DEF Reads
  <2>2. \A s \in Alive(sl) : 1 \in DOMAIN tt /\ tt[1].at = "framing" /\ tt[1].slot = s => sl[s].mode = "ws"
    BY <1>2, <1>3 DEF Looked
  <2>3. \A i \in DOMAIN tt : tt[i].at = "request" =>
          tt[i].id \in gv \/ \A s \in Alive(sl) : sl[s].id = tt[i].id => Reads(tt, s)
    BY <1>2, <2>1 DEF Looked
  <2>4. QED
    BY <2>1, <2>2, <2>3 DEF Looked
<1>4. CASE 1 \notin DOMAIN st
  <2>1. Len(st) + 1 = 1
    BY <1>1, <1>4
  <2>2. tt[1] = f /\ DOMAIN tt = {1}
    BY <1>1, <1>2, <2>1
  <2>3. \A s : ~ Reads(tt, s) /\ ~ Reads(st, s)
    BY <1>4, <2>2 DEF Reads
  <2>4. QED
    BY <2>2, <2>3 DEF Looked
<1>5. QED
  BY <1>3, <1>4

LEMMA LookedPop ==
  ASSUME NEW st \in Seq(Frame), NEW sl, NEW gv, NEW sh, Looked(st, sl, gv, sh),
         NEW tt, NEW f, Popped(st, tt, f),
         f.at = "reading" => \A s \in Alive(sl) : sl[s].mode = "http" /\ Complete(sl[s].buf) => sl[s].id \in gv
  PROVE  Looked(tt, sl, gv, sh)
<1>1. DOMAIN st = 1..Len(st) /\ Len(st) \in Nat
  BY LenProperties
<1>2. /\ DOMAIN tt = DOMAIN st \ {Len(st)} /\ st[Len(st)] = f /\ \A i \in DOMAIN tt : tt[i] = st[i]
  BY DEF Popped
<1>3. CASE 1 \in DOMAIN tt
  <2>1. \A s : Reads(tt, s) <=> Reads(st, s)
    BY <1>2, <1>3 DEF Reads
  <2>2. QED
    BY <1>2, <1>3, <2>1 DEF Looked
<1>4. CASE 1 \notin DOMAIN tt
  <2>1. DOMAIN tt = {}
    <3>1. ASSUME NEW i \in DOMAIN tt PROVE FALSE
      <4>1. i \in 1..Len(st) /\ i # Len(st)
        BY <1>1, <1>2
      <4>2. 1 \in 1..Len(st) /\ 1 # Len(st)
        BY <1>1, <4>1
      <4>3. QED
        BY <1>1, <1>2, <1>4, <4>2
    <3>2. QED
      BY <3>1
  <2>2. \A s : ~ Reads(tt, s)
    BY <1>4 DEF Reads
  <2>3. \A s : Reads(st, s) => f.at = "reading"
    <3>1. 1 \in DOMAIN st => Len(st) = 1
      BY <1>1, <1>2, <1>4
    <3>2. QED
      BY <1>2, <3>1 DEF Reads
  <2>4. QED
    BY <2>1, <2>2, <2>3 DEF Looked
<1>5. QED
  BY <1>3, <1>4

LEMMA LookedChange ==
  ASSUME NEW st, NEW sl, NEW gv, NEW sh, Looked(st, sl, gv, sh),
         NEW tl, NEW s, NEW conn, Changed(sl, tl, s, conn), conn.alive, conn.id = sl[s].id,
         sl[s].mode = "ws" => conn.mode = "ws",
         conn.mode = "http" /\ Complete(conn.buf) => conn.id \in gv \/ Reads(st, s)
  PROVE  Looked(st, tl, gv, sh)
<1>1. Alive(tl) = Alive(sl) /\ DOMAIN tl = DOMAIN sl /\ s \in Alive(sl)
  BY DEF Changed, Alive
<1>2. \A r \in DOMAIN sl : (r # s => tl[r] = sl[r]) /\ tl[r].id = sl[r].id /\ tl[s] = conn
  BY <1>1 DEF Changed
<1>3. \A r \in Alive(tl) : tl[r].mode = "http" /\ Complete(tl[r].buf) => tl[r].id \in gv \/ Reads(st, r)
  BY <1>1, <1>2 DEF Looked, Alive
<1>4. \A i \in DOMAIN st : st[i].at = "request" =>
       st[i].id \in gv \/ \A r \in Alive(tl) : tl[r].id = st[i].id => Reads(st, r)
  BY <1>1, <1>2 DEF Looked, Alive
<1>5. \A r \in Alive(tl) : 1 \in DOMAIN st /\ st[1].at = "framing" /\ st[1].slot = r => tl[r].mode = "ws"
  BY <1>1, <1>2 DEF Looked, Alive
<1>6. QED
  BY <1>1, <1>2, <1>3, <1>4, <1>5 DEF Looked

LEMMA LookedVacate ==
  ASSUME NEW st, NEW sl, NEW gv, NEW sh, Looked(st, sl, gv, sh),
         NEW tl, NEW s, NEW left, Changed(sl, tl, s, left), ~ left.alive, left.id = 0 \/ sh[left.id] > 0
  PROVE  Looked(st, tl, gv, sh)
<1>1. Alive(tl) = Alive(sl) \ {s} /\ DOMAIN tl = DOMAIN sl /\ s \in Alive(sl)
  BY DEF Changed, Alive
<1>2. \A r \in DOMAIN sl : (r # s => tl[r] = sl[r]) /\ tl[s] = left
  BY <1>1 DEF Changed
<1>3. \A r \in Alive(tl) : r \in Alive(sl) /\ tl[r] = sl[r]
  BY <1>1, <1>2 DEF Alive
<1>4. \A r \in DOMAIN tl \ Alive(tl) : tl[r].id = 0 \/ sh[tl[r].id] > 0
  BY <1>1, <1>2 DEF Looked
<1>5. QED
  BY <1>3, <1>4 DEF Looked

LEMMA LookedAdd ==
  ASSUME NEW st, DOMAIN st = {}, NEW sl, NEW gv, NEW sh, Looked(st, sl, gv, sh),
         NEW tl, NEW s, NEW conn, Added(sl, tl, s, conn), conn.alive, conn.id \in gv \/ ~ Complete(conn.buf)
  PROVE  Looked(st, tl, gv, sh)
<1>1. /\ Alive(tl) = Alive(sl) \cup {s} /\ DOMAIN tl = DOMAIN sl \cup {s}
      /\ \A r \in Alive(sl) : tl[r] = sl[r]
  BY AddedFacts DEF Added
<1>2. \A r \in DOMAIN tl : (r # s => r \in DOMAIN sl /\ tl[r] = sl[r]) /\ tl[s] = conn
  BY DEF Added
<1>3. \A r \in DOMAIN tl \ Alive(tl) : r \in DOMAIN sl \ Alive(sl) /\ tl[r] = sl[r]
  BY <1>1, <1>2
<1>4. \A r \in Alive(tl) : tl[r].mode = "http" /\ Complete(tl[r].buf) => tl[r].id \in gv \/ Reads(st, r)
  BY <1>1, <1>2 DEF Looked
<1>5. QED
  BY <1>3, <1>4 DEF Looked

LEMMA LookedMore ==
  ASSUME NEW st, NEW sl, \A s \in DOMAIN sl : sl[s].id \in 0..MaxConn,
         NEW gv, NEW gw, gv \subseteq gw, NEW sh, NEW th, \A k \in Conn : sh[k] > 0 => th[k] > 0,
         Looked(st, sl, gv, sh)
  PROVE  Looked(st, sl, gw, th)
<1>1. \A s \in DOMAIN sl : sl[s].id = 0 \/ sl[s].id \in Conn
  BY ConnAssumption DEF Conn
<1>2. QED
  BY <1>1 DEF Looked, Alive

LEMMA LookedSolo ==
  ASSUME NEW sl, NEW gv, NEW sh, Looked(<< >>, sl, gv, sh), NEW f,
         f.at = "request" => f.id \in gv, f.at = "framing" => sl[f.slot].mode = "ws"
  PROVE  Looked(<<f>>, sl, gv, sh)
<1>1. DOMAIN << >> = {} /\ DOMAIN <<f>> = {1} /\ <<f>>[1] = f
  OBVIOUS
<1>2. \A s \in Alive(sl) : sl[s].mode = "http" /\ Complete(sl[s].buf) => sl[s].id \in gv
  BY <1>1 DEF Looked, Reads
<1>3. QED
  BY <1>1, <1>2 DEF Looked

LEMMA PushSeq == ASSUME NEW st \in Seq(Frame), NEW f \in Frame PROVE Pushed(st, Append(st, f), f)
<1>1. DOMAIN st = 1..Len(st) /\ Len(st) \in Nat
  BY LenProperties
<1>2. /\ Append(st, f) \in Seq(Frame) /\ Len(Append(st, f)) = Len(st) + 1
      /\ \A i \in 1..Len(st) : Append(st, f)[i] = st[i] /\ Append(st, f)[Len(st) + 1] = f
      /\ Append(st, f)[Len(st) + 1] = f
  BY AppendProperties
<1>3. DOMAIN Append(st, f) = 1..(Len(st) + 1)
  BY <1>2, LenProperties
<1>4. QED
  BY <1>1, <1>2, <1>3 DEF Pushed

\* A step of c alone: what the others know of their tables still holds.
Alone(c) ==
  /\ \A d \in Ctx \ {c} : calls'[d] = calls[d] /\ slots'[d] = slots[d]
  /\ given \subseteq given' /\ \A k \in Conn : shut[k] > 0 => shut'[k] > 0
  /\ QueuedGiven'

LEMMA LookingStep ==
  ASSUME IInv, Looking, NEW c \in Ctx, Alone(c), Looked(calls'[c], slots'[c], given', shut')
  PROVE  Looking'
<1>1. ASSUME NEW d \in Ctx \ {c} PROVE LookedAt(d)'
  <2>1. Looked(calls[d], slots[d], given, shut)
    BY DEF Looking, LookedAt
  <2>2. \A s \in DOMAIN slots[d] : slots[d][s].id \in 0..MaxConn
    <3>1. Tabled(d)
      BY DEF IInv, Core, Contexts
    <3>2. QED
      BY <3>1, TableFacts, RecordFacts DEF Tabled
  <2>3. Looked(calls[d], slots[d], given', shut')
    BY <2>1, <2>2, LookedMore DEF Alone
  <2>4. QED
    BY <2>3 DEF LookedAt, Alone
<1>2. QED
  BY <1>1 DEF Looking, LookedAt, Alone

LEMMA LookingSame ==
  ASSUME Looking, UNCHANGED <<slots, calls, inbox, given, shut>>
  PROVE  Looking'
BY DEF Looking, LookedAt, QueuedGiven

\* A step of c that changes its stack only.
LEMMA LookingCalls ==
  ASSUME IInv, Looking, NEW c \in Ctx, NEW st, calls' = [calls EXCEPT ![c] = st],
         Looked(st, slots[c], given, shut), UNCHANGED <<slots, inbox, given, shut>>
  PROVE  Looking'
<1>1. calls'[c] = st /\ \A d \in Ctx \ {c} : calls'[d] = calls[d]
  BY DEF IInv, Types
<1>2. Alone(c)
  BY <1>1 DEF Alone, Looking, QueuedGiven
<1>3. QED
  BY <1>1, <1>2, LookingStep

\* The stack of a context that is not in its loop, with a frame on it or without the last.
LEMMA LookedUnder ==
  ASSUME IInv, Looking, NEW c \in Ctx
  PROVE  /\ Looked(calls[c], slots[c], given, shut) /\ Tabled(c) /\ Domains
         /\ calls[c] \in Seq(Frame) /\ Stack(calls[c], slots[c])
         /\ ~ Idle(c) /\ Top(c).at # "reading" =>
              Looked(Beneath(c), slots[c], given, shut) /\ Beneath(c) \in Seq(Frame)
<1>1. Contexts /\ Stack(calls[c], slots[c]) /\ Tabled(c) /\ Domains
  BY DEF IInv, Core, Contexts, Types
<1>2. Looked(calls[c], slots[c], given, shut) /\ calls[c] \in Seq(Frame)
  BY <1>1, StackFacts DEF Looking, LookedAt
<1>3. ASSUME ~ Idle(c), Top(c).at # "reading"
      PROVE Looked(Beneath(c), slots[c], given, shut) /\ Beneath(c) \in Seq(Frame)
  <2>1. Popped(calls[c], Beneath(c), Top(c))
    BY <1>1, <1>3, TopFacts
  <2>2. Looked(Beneath(c), slots[c], given, shut)
    BY <1>2, <1>3, <2>1, LookedPop
  <2>3. QED
    BY <2>1, <2>2 DEF Popped
<1>4. QED
  BY <1>1, <1>2, <1>3

LEMMA LookingPush ==
  ASSUME IInv, Looking, NEW c \in Ctx, NEW f \in Frame, f.at \notin {"reading", "framing"},
         f.at = "request" => \A s \in Alive(slots[c]) : slots[c][s].id = f.id => Reads(calls[c], s),
         calls' = [calls EXCEPT ![c] = Append(calls[c], f)], UNCHANGED <<slots, inbox, given, shut>>
  PROVE  Looking'
<1>1. Looked(calls[c], slots[c], given, shut) /\ calls[c] \in Seq(Frame)
  BY LookedUnder
<1>2. Looked(Append(calls[c], f), slots[c], given, shut)
  <2>1. Pushed(calls[c], Append(calls[c], f), f)
    BY <1>1, PushSeq
  <2> DEFINE tt == Append(calls[c], f)
  <2>2. Pushed(calls[c], tt, f)
    BY <2>1
  <2> HIDE DEF tt
  <2>3. Looked(tt, slots[c], given, shut)
    BY <1>1, <2>2, LookedPush
  <2>4. QED
    BY <2>3 DEF tt
<1>3. QED
  BY <1>2, LookingCalls

LEMMA LookingSolo ==
  ASSUME IInv, Looking, NEW c \in Ctx, Idle(c), NEW f, f.at \notin {"request", "framing"},
         calls' = [calls EXCEPT ![c] = <<f>>], UNCHANGED <<slots, inbox, given, shut>>
  PROVE  Looking'
<1>1. Looked(<< >>, slots[c], given, shut)
  BY LookedUnder DEF Idle
<1>2. Looked(<<f>>, slots[c], given, shut)
  BY <1>1, LookedSolo
<1>3. QED
  BY <1>2, LookingCalls

\* A slot is given up: the others of its context are as they were, and its conn_id is closed.
LEMMA LookingDispose ==
  ASSUME IInv, Looking, NEW c \in Ctx, NEW s \in Alive(slots[c]), Dispose(c, s),
         NEW rest, calls' = [calls EXCEPT ![c] = rest], Looked(rest, slots[c], given, shut),
         UNCHANGED <<inbox, given>>
  PROVE  Looking'
<1> DEFINE id == slots[c][s].id
<1> DEFINE left == [Blank EXCEPT !.id = id]
<1>1. Contexts /\ Tabled(c) /\ Domains /\ shut \in [Conn -> Nat]
  BY DEF IInv, Core, Contexts, Types
<1>2. id \in Conn
  BY <1>1, IdsInConn
<1>3. Vacate(c, s, left) /\ shut' = [shut EXCEPT ![id] = @ + 1]
  BY DEF Dispose
<1>4. left \in Record /\ ~ left.alive /\ ~ left.upgraded /\ left.id = id
  BY <1>2, BlankFacts, ConnFacts DEF Blank
<1> HIDE DEF left
<1>5. Others(c) /\ Changed(slots[c], slots'[c], s, left)
  BY <1>1, <1>3, <1>4, VacateStep
<1> HIDE DEF id
<1>6. calls'[c] = rest /\ \A d \in Ctx \ {c} : calls'[d] = calls[d]
  BY DEF IInv, Types
<1>7. shut'[id] > 0 /\ \A k \in Conn : shut[k] > 0 => shut'[k] > 0
  BY <1>1, <1>2, <1>3
<1>8. Looked(rest, slots[c], given, shut')
  <2>1. \A r \in DOMAIN slots[c] : slots[c][r].id \in 0..MaxConn
    BY <1>1, TableFacts, RecordFacts DEF Tabled
  <2>2. QED
    BY <1>7, <2>1, LookedMore
<1>9. Looked(rest, slots'[c], given, shut')
  BY <1>4, <1>5, <1>7, <1>8, LookedVacate
<1>10. Alone(c)
  BY <1>5, <1>6, <1>7 DEF Alone, Others, Looking, QueuedGiven
<1>11. QED
  BY <1>6, <1>9, <1>10, LookingStep

LEMMA LookingTeardown ==
  ASSUME IInv, Looking, NEW c \in Ctx, NEW s \in Alive(slots[c]), NEW rest \in Seq(Frame), Teardown(c, s, rest),
         Looked(rest, slots[c], given, shut), UNCHANGED <<inbox, given>>
  PROVE  Looking'
<1>1. CASE slots[c][s].upgraded
  <2> DEFINE f == [Handler("closing", slots[c][s].id) EXCEPT !.slot = s]
  <2> DEFINE tt == Append(rest, f)
  <2>1. calls' = [calls EXCEPT ![c] = tt] /\ UNCHANGED <<slots, shut>>
    BY <1>1 DEF Teardown, RunsCloseHandler, tables
  <2>2. f \in Frame /\ f.at = "closing"
    <3>1. Contexts /\ Tabled(c)
      BY DEF IInv, Core, Contexts
    <3>2. s \in Nat /\ slots[c][s].id \in 0..MaxConn
      BY <3>1, TableFacts, IdsInConn, ConnFacts DEF Tabled
    <3>3. 0 \in 0..MaxReq
      BY ConnAssumption
    <3>4. QED
      BY <3>2, <3>3, CtxFacts DEF Frame, Handler, Doing, UserCode
  <2> HIDE DEF f
  <2>3. Pushed(rest, tt, f)
    BY <2>2, PushSeq
  <2> HIDE DEF tt
  <2>4. Looked(tt, slots[c], given, shut)
    BY <2>2, <2>3, LookedPush
  <2>5. QED
    BY <2>1, <2>4, LookingCalls
<1>2. CASE ~ slots[c][s].upgraded
  <2>1. calls' = [calls EXCEPT ![c] = rest] /\ Dispose(c, s)
    BY <1>2 DEF Teardown, RunsCloseHandler
  <2>2. QED
    BY <2>1, LookingDispose
<1>3. QED
  BY <1>1, <1>2

LEMMA LookingIdleTeardown ==
  ASSUME IInv, Looking, NEW c \in Ctx, Idle(c), NEW s \in Alive(slots[c]), Teardown(c, s, << >>),
         UNCHANGED <<inbox, given>>
  PROVE  Looking'
<1>1. Looked(<< >>, slots[c], given, shut) /\ << >> \in Seq(Frame)
  BY LookedUnder DEF Idle
<1>2. QED
  BY <1>1, LookingTeardown

\* A step of c that changes a live slot: its requests are looked at, if any is whole.
LEMMA LookingChange ==
  ASSUME IInv, Looking, NEW c \in Ctx, NEW s \in Alive(slots[c]), NEW conn \in Record,
         slots' = [slots EXCEPT ![c] = [slots[c] EXCEPT ![s] = conn]],
         conn.alive, conn.id = slots[c][s].id, slots[c][s].mode = "ws" => conn.mode = "ws",
         NEW st, Looked(st, slots[c], given, shut),
         conn.mode = "http" /\ Complete(conn.buf) => conn.id \in given \/ Reads(st, s),
         Looked(st, slots'[c], given, shut) => Looked(calls'[c], slots'[c], given, shut),
         \A d \in Ctx \ {c} : calls'[d] = calls[d],
         UNCHANGED <<inbox, given, shut>>
  PROVE  Looking'
<1>1. Tabled(c) /\ Domains /\ s \in DOMAIN slots[c]
  BY LookedUnder DEF Alive
<1>2. slots'[c] = [slots[c] EXCEPT ![s] = conn] /\ \A d \in Ctx \ {c} : slots'[d] = slots[d]
  BY <1>1 DEF Domains
<1>3. Changed(slots[c], slots'[c], s, conn)
  BY <1>1, <1>2, ChangeFacts DEF Tabled
<1>4. Looked(st, slots'[c], given, shut)
  BY <1>3, LookedChange
<1>5. Alone(c)
  BY <1>2 DEF Alone, Looking, QueuedGiven
<1>6. QED
  BY <1>4, <1>5, LookingStep

LEMMA PollLooks == ASSUME IInv, Looking, NEW c \in Ctx, Poll(c) PROVE Looking'
<1>1. Idle(c) /\ UNCHANGED <<calls, inbox, given, shut>>
  BY DEF Poll, Polling, handoff, outcome, fates
<1>2. CASE UNCHANGED <<tables, nextId>>
  BY <1>1, <1>2, LookingSame DEF tables
<1>3. CASE nextId <= MaxConn /\ Install(c, Fresh(nextId))
  <2>1. Types /\ Core /\ Tabled(c) /\ Domains
    BY LookedUnder DEF IInv
  <2>2. nextId \in Conn
    BY <1>3, <2>1, ConnFacts DEF Types, Conn
  <2>3. nextId \notin IdsOf(slots[c])
    <3>1. ~ (nextId < nextId)
      BY <2>2, ConnFacts
    <3>2. QED
      BY <2>1, <2>2, <3>1 DEF Core, Owners, OwnedOnce, InTable
  <2> DEFINE conn == Fresh(nextId)
  <2>4. conn \in Record /\ conn.alive /\ conn.id = nextId /\ conn.mode = "http" /\ ~ conn.upgraded /\ conn.buf = << >>
    BY <2>2, FreshFacts DEF Fresh, Blank
  <2>5. Install(c, conn)
    BY <1>3
  <2> HIDE DEF conn
  <2>6. Others(c) /\ Added(slots[c], slots'[c], SlotFor(c), conn)
    BY <2>1, <2>2, <2>3, <2>4, <2>5, InstallStep
  <2>7. ~ Complete(conn.buf)
    <3>1. Len(<< >>) = 0
      BY EmptySeq
    <3>2. QED
      BY <2>4, <3>1 DEF Complete
  <2>8. Looked(calls[c], slots'[c], given, shut)
    <3>1. Looked(<< >>, slots[c], given, shut) /\ DOMAIN << >> = {}
      BY <1>1, LookedUnder DEF Idle
    <3>2. Looked(<< >>, slots'[c], given, shut)
      BY <2>4, <2>6, <2>7, <3>1, LookedAdd
    <3>3. QED
      BY <1>1, <3>2 DEF Idle
  <2>9. Alone(c)
    BY <1>1, <2>6 DEF Alone, Others, Looking, QueuedGiven
  <2>10. QED
    BY <1>1, <2>8, <2>9, LookingStep
<1>4. QED
  BY <1>2, <1>3 DEF Poll

LEMMA ServeLooks == ASSUME IInv, Looking, NEW c \in Ctx, Serve(c) PROVE Looking'
<1> DEFINE id == Head(ready[c])
<1> DEFINE s == ById(c, id)
<1>1. Types /\ Core /\ Contexts /\ Tabled(c)
  BY DEF IInv, Core, Contexts
<1>2. Idle(c) /\ ready[c] # << >> /\ UNCHANGED <<inbox, given>>
  BY DEF Serve, handoff
<1>3. id \in Conn /\ (s # 0 => s \in Alive(slots[c]))
  <2>1. id \in Conn
    BY <1>1, <1>2, HeadTailProperties DEF Types
  <2>2. id \in 0..MaxConn
    BY <2>1, ConnFacts
  <2>3. QED
    BY <1>1, <2>1, <2>2, ByIdFacts
<1>4. CASE UNCHANGED <<tables, calls, ending>>
  BY <1>2, <1>4, LookingSame DEF tables, ending, fates
<1>5. CASE s # 0 /\ Teardown(c, s, << >>)
  <2> HIDE DEF s
  <2>1. QED
    BY <1>2, <1>3, <1>5, LookingIdleTeardown
<1>6. CASE /\ s # 0
           /\ slots' = [slots EXCEPT ![c][s].buf = @ \o wire[id]]
           /\ calls' = [calls EXCEPT ![c] = <<[Doing(IF slots[c][s].mode = "http" THEN "reading"
                                                     ELSE "framing") EXCEPT !.slot = s]>>]
           /\ UNCHANGED fates
  <2> HIDE DEF s, id
  <2> DEFINE conn == [slots[c][s] EXCEPT !.buf = slots[c][s].buf \o wire[id]]
  <2> DEFINE f == [Doing(IF slots[c][s].mode = "http" THEN "reading" ELSE "framing") EXCEPT !.slot = s]
  <2>1. s \in Alive(slots[c]) /\ slots[c][s] \in Record /\ slots[c][s].mode \in {"http", "ws"} /\ slots[c][s].alive
    BY <1>1, <1>3, <1>6, IdsInConn, RecordFacts
  <2>2. /\ conn \in Record /\ conn.id = slots[c][s].id /\ conn.alive /\ conn.mode = slots[c][s].mode
        /\ slots' = [slots EXCEPT ![c] = [slots[c] EXCEPT ![s] = conn]]
    <3>1. slots[c][s].buf \in Seq(Item) /\ wire[id] \in Seq(Item)
      BY <1>1, <1>3, <1>6, <2>1, RecordFacts DEF Types
    <3>2. slots[c][s].buf \o wire[id] \in Seq(Item)
      BY <3>1, ConcatProperties
    <3>3. conn \in Record /\ conn.id = slots[c][s].id /\ conn.alive = slots[c][s].alive /\ conn.mode = slots[c][s].mode
      BY <2>1, <3>2, RecordBuf
    <3>4. QED
      BY <1>6, <2>1, <3>3
  <2>3. /\ f.at = IF slots[c][s].mode = "http" THEN "reading" ELSE "framing"
        /\ f.slot = s
    BY DEF Doing
  <2>4. calls'[c] = <<f>> /\ \A d \in Ctx \ {c} : calls'[d] = calls[d]
    BY <1>1, <1>6 DEF Types
  <2> HIDE DEF conn, f
  <2>5. Looked(<<f>>, slots[c], given, shut)
    <3>1. Looked(<< >>, slots[c], given, shut)
      BY <1>2, LookedUnder DEF Idle
    <3>2. f.at = "framing" => slots[c][f.slot].mode = "ws"
      BY <2>1, <2>3
    <3>3. f.at # "request"
      BY <2>3
    <3>4. QED
      BY <3>1, <3>2, <3>3, LookedSolo
  <2>6. conn.mode = "http" => Reads(<<f>>, s)
    <3>1. DOMAIN <<f>> = {1} /\ <<f>>[1] = f
      OBVIOUS
    <3>2. QED
      BY <2>2, <2>3, <3>1 DEF Reads
  <2>7. UNCHANGED <<inbox, given, shut>>
    BY <1>2, <1>6 DEF fates
  <2>8. QED
    BY <2>1, <2>2, <2>4, <2>5, <2>6, <2>7, LookingChange
<1>7. QED
  <2>1. \/ s = 0 /\ UNCHANGED <<tables, calls, ending>>
        \/ s # 0 /\ Teardown(c, s, << >>)
        \/ /\ s # 0
           /\ slots' = [slots EXCEPT ![c][s].buf = @ \o wire[id]]
           /\ calls' = [calls EXCEPT ![c] = <<[Doing(IF slots[c][s].mode = "http" THEN "reading"
                                                     ELSE "framing") EXCEPT !.slot = s]>>]
           /\ UNCHANGED fates
    BY DEF Serve
  <2>2. QED
    BY <1>4, <1>5, <1>6, <2>1

LEMMA ReapLooks == ASSUME IInv, Looking, NEW c \in Ctx, Reap(c) PROVE Looking'
<1>1. Idle(c) /\ UNCHANGED <<inbox, given>>
  BY DEF Reap, Served, handoff
<1>2. CASE UNCHANGED <<tables, calls, ending>>
  BY <1>1, <1>2, LookingSame DEF tables, ending, fates
<1>3. ASSUME NEW s \in LiveSlots(c), Teardown(c, s, << >>) PROVE Looking'
  <2>1. s \in Alive(slots[c])
    BY DEF LiveSlots, Alive
  <2>2. QED
    BY <1>1, <1>3, <2>1, LookingIdleTeardown
<1>4. QED
  BY <1>2, <1>3 DEF Reap

LEMMA TeardownNextLooks == ASSUME IInv, Looking, NEW w \in Worker, TeardownNext(w) PROVE Looking'
<1>1. Idle(w) /\ w \in Ctx /\ UNCHANGED <<inbox, given>>
  BY CtxFacts DEF TeardownNext, handoff
<1>2. PICK s \in LiveSlots(w) : Teardown(w, s, << >>)
  BY DEF TeardownNext
<1>3. s \in Alive(slots[w])
  BY DEF LiveSlots, Alive
<1>4. QED
  BY <1>1, <1>2, <1>3, LookingIdleTeardown

LEMMA FreeTablesLooks == ASSUME IInv, Looking, NEW w \in Worker, FreeTables(w) PROVE Looking'
<1>1. w \in Ctx /\ Domains /\ Idle(w) /\ slots' = [slots EXCEPT ![w] = << >>] /\ UNCHANGED <<calls, inbox, given, shut>>
  BY CtxFacts DEF FreeTables, handoff, outcome, fates, IInv, Types
<1>2. slots'[w] = << >> /\ calls'[w] = << >> /\ \A d \in Ctx \ {w} : slots'[d] = slots[d]
  BY <1>1 DEF Domains, Idle
<1>3. DOMAIN << >> = {} /\ Alive(<< >>) = {}
  BY DEF Alive
<1>4. Looked(<< >>, << >>, given, shut)
  BY <1>3 DEF Looked
<1>5. Alone(w)
  BY <1>1, <1>2 DEF Alone, Looking, QueuedGiven
<1>6. QED
  BY <1>1, <1>2, <1>4, <1>5, LookingStep

\* What a step that changes only the stack of c, and whose Top was `at`, leaves looked at.
LEMMA LookingPop ==
  ASSUME IInv, Looking, NEW c \in Ctx, ~ Idle(c), Top(c).at # "reading",
         calls' = [calls EXCEPT ![c] = Beneath(c)], UNCHANGED <<slots, inbox, given, shut>>
  PROVE  Looking'
BY LookedUnder, LookingCalls

\* A parsing loop's connection is found again in its own slot.
LEMMA SameSlot ==
  ASSUME IInv, Looking, NEW c \in Ctx, ~ Idle(c), Top(c).at \in {"reading", "framing"},
         NEW s, s = ById(c, slots[c][Top(c).slot].id), s # 0
  PROVE  /\ s \in Alive(slots[c]) /\ slots[c][s] \in Record /\ slots[c][s].id \in Conn /\ s = Top(c).slot
         /\ \A r \in Alive(slots[c]) : slots[c][r].id = slots[c][s].id => r = s
         /\ Len(calls[c]) = 1 /\ 1 \in DOMAIN calls[c] /\ calls[c][1] = Top(c)
<1>1. Contexts /\ Tabled(c) /\ Owners
  BY DEF IInv, Core, Contexts
<1>2. Top(c).slot \in DOMAIN slots[c] /\ slots[c][Top(c).slot].id \in 0..MaxConn
  BY <1>1, SoloTop
<1>3. s \in Alive(slots[c]) /\ slots[c][s].id = slots[c][Top(c).slot].id
  BY <1>1, <1>2, ByIdFacts
<1>4. /\ slots[c][s].id \in Conn /\ slots[c][s].id \in IdsOf(slots[c]) /\ slots[c][s] \in Record
      /\ \A r \in Alive(slots[c]) : slots[c][r].id = slots[c][s].id => r = s
  BY <1>1, <1>3, IdsInConn
<1>5. Top(c).slot \in Alive(slots[c])
  <2>1. SUFFICES ASSUME Top(c).slot \notin Alive(slots[c]) PROVE FALSE
    OBVIOUS
  <2>2. slots[c][s].id = 0 \/ shut[slots[c][s].id] > 0
    BY <1>2, <1>3, <2>1 DEF Looking, LookedAt, Looked
  <2>3. slots[c][s].id # 0 /\ ~ (shut[slots[c][s].id] > 0)
    BY <1>1, <1>4, ConnFacts DEF Owners, OwnedOnce, InTable, IsShut, Conn
  <2>4. QED
    BY <2>2, <2>3
<1>6. s = Top(c).slot
  BY <1>3, <1>4, <1>5
<1>7. Len(calls[c]) = 1 /\ 1 \in DOMAIN calls[c] /\ calls[c][1] = Top(c)
  <2>1. Stack(calls[c], slots[c]) /\ calls[c] # << >>
    BY <1>1 DEF Contexts, Idle
  <2>2. Len(calls[c]) \in DOMAIN calls[c]
    BY <2>1, StackFacts
  <2>3. QED
    BY <2>1, <2>2 DEF Stack, Top
<1>8. QED
  BY <1>3, <1>4, <1>6, <1>7

LEMMA ReadingTurnLooks == ASSUME IInv, Looking, NEW c \in Ctx, ReadingTurn(c) PROVE Looking'
<1> DEFINE s == ById(c, slots[c][Top(c).slot].id)
<1> DEFINE reading == IF s = 0 THEN FALSE ELSE slots[c][s].mode = "http"
<1> DEFINE found == IF reading THEN Parsed(slots[c][s].buf) ELSE "nothing"
<1>1. /\ ~ Idle(c) /\ Top(c).at = "reading" /\ UNCHANGED <<inbox, given>>
      /\ \/ found = "nothing" /\ calls' = [calls EXCEPT ![c] = Beneath(c)] /\ UNCHANGED <<tables, ending>>
         \/ found = "malformed" /\ Teardown(c, s, Beneath(c))
         \/ found = "request" /\ Dispatch(c, slots[c][s], calls[c]) /\ UNCHANGED <<tables, ending>>
  BY DEF ReadingTurn, InCode, handoff
<1>2. /\ reading <=> s # 0 /\ slots[c][s].mode = "http"
      /\ found = "nothing" => s = 0 \/ slots[c][s].mode # "http" \/ Parsed(slots[c][s].buf) = "nothing"
      /\ found # "nothing" => s # 0 /\ slots[c][s].mode = "http" /\ Parsed(slots[c][s].buf) = found
  OBVIOUS
<1> HIDE DEF found, reading
<1>3. Types /\ Core /\ Contexts /\ Tabled(c) /\ Looked(calls[c], slots[c], given, shut)
      /\ Popped(calls[c], Beneath(c), Top(c)) /\ calls[c] \in Seq(Frame)
      /\ slots[c][Top(c).slot].id \in 0..MaxConn
  BY <1>1, LookedUnder, TopFacts, SoloTop DEF IInv, Core
<1>4. s # 0 => /\ s \in Alive(slots[c]) /\ slots[c][s] \in Record /\ slots[c][s].id \in Conn /\ s = Top(c).slot
               /\ \A r \in Alive(slots[c]) : slots[c][r].id = slots[c][s].id => r = s
               /\ Reads(calls[c], s)
  BY <1>1, SameSlot DEF Reads
<1>5. \A r \in Alive(slots[c]) : Reads(calls[c], r) => r = s
  <2>1. ASSUME NEW r \in Alive(slots[c]), Reads(calls[c], r) PROVE r = s
    <3>1. calls[c][1] = Top(c)
      <4>1. Stack(calls[c], slots[c]) /\ calls[c] # << >>
        BY <1>1, <1>3 DEF Contexts, Idle
      <4>2. Len(calls[c]) \in DOMAIN calls[c]
        BY <4>1, StackFacts
      <4>3. QED
        BY <1>1, <4>1, <4>2 DEF Stack, Top
    <3>2. r = Top(c).slot
      BY <2>1, <3>1 DEF Reads
    <3>3. slots[c][r].id \in Conn /\ slots[c][r].id \in IdsOf(slots[c])
      BY <1>3, IdsInConn
    <3>4. s # 0
      BY <1>3, <3>2, <3>3, ByIdFacts
    <3>5. QED
      BY <1>4, <3>2, <3>4
  <2>2. QED
    BY <2>1
<1> HIDE DEF s
<1>6. ASSUME found \in {"nothing", "malformed"}
      PROVE  Looked(Beneath(c), slots[c], given, shut) /\ Beneath(c) \in Seq(Frame)
  <2>1. ASSUME NEW r \in Alive(slots[c]), slots[c][r].mode = "http" /\ Complete(slots[c][r].buf)
        PROVE slots[c][r].id \in given
    <3>1. CASE Reads(calls[c], r)
      <4>1. r = s /\ s # 0
        <5>1. r = s
          BY <1>5, <3>1
        <5>2. r # 0
          BY <1>3, TableFacts DEF Tabled, Alive
        <5>3. QED
          BY <5>1, <5>2
      <4>2. Parsed(slots[c][s].buf) = found
        BY <1>2, <1>6, <2>1, <4>1
      <4>3. Complete(slots[c][s].buf) => slots[c][s].buf[1].kind \in {"keep", "close", "upgrade"} /\ slots[c][s].buf # << >>
        <5>1. Complete(slots[c][s].buf) => slots[c][s].buf[1].kind \in {"keep", "close", "upgrade"} /\ Len(slots[c][s].buf) >= 2
          BY DEF Complete, Heads
        <5>2. QED
          BY <5>1, EmptySeq
      <4>4. Parsed(slots[c][s].buf) = "request"
        BY <2>1, <4>1, <4>3 DEF Parsed
      <4>5. QED
        BY <1>6, <4>2, <4>4
    <3>2. CASE ~ Reads(calls[c], r)
      BY <1>3, <2>1, <3>2 DEF Looked
    <3>3. QED
      BY <3>1, <3>2
  <2>2. Looked(Beneath(c), slots[c], given, shut)
    BY <1>3, <2>1, LookedPop
  <2>3. QED
    BY <1>3, <2>2 DEF Popped
<1>7. CASE found = "nothing" /\ calls' = [calls EXCEPT ![c] = Beneath(c)] /\ UNCHANGED <<tables, ending>>
  BY <1>1, <1>6, <1>7, LookingCalls DEF tables, ending, fates
<1>8. CASE found = "malformed" /\ Teardown(c, s, Beneath(c))
  <2>1. s \in Alive(slots[c])
    BY <1>2, <1>4, <1>8
  <2>2. QED
    BY <1>1, <1>6, <1>8, <2>1, LookingTeardown
<1>9. CASE found = "request" /\ Dispatch(c, slots[c][s], calls[c]) /\ UNCHANGED <<tables, ending>>
  <2> DEFINE f == Request(slots[c][s].id, slots[c][s].buf[1].req)
  <2>1. s # 0 /\ Parsed(slots[c][s].buf) = "request"
    BY <1>2, <1>9
  <2>2. slots[c][s].buf[1].req \in 0..MaxReq /\ slots[c][s].id \in 0..MaxConn
    BY <1>4, <2>1, RecordFacts, ParsedFacts
  <2>3. f \in Frame /\ f.at = "request" /\ f.id = slots[c][s].id
    BY <2>2, CallFacts
  <2>4. calls' = [calls EXCEPT ![c] = Append(calls[c], f)]
    BY <1>9 DEF Dispatch
  <2> HIDE DEF f
  <2>5. \A r \in Alive(slots[c]) : slots[c][r].id = f.id => Reads(calls[c], r)
    BY <1>4, <2>1, <2>3
  <2>6. UNCHANGED <<slots, inbox, given, shut>>
    BY <1>1, <1>9 DEF tables, ending, fates
  <2>7. QED
    BY <2>3, <2>4, <2>5, <2>6, LookingPush
<1>10. QED
  BY <1>1, <1>7, <1>8, <1>9

LEMMA FramingTurnLooks == ASSUME IInv, Looking, NEW c \in Ctx, FramingTurn(c) PROVE Looking'
<1> DEFINE s == ById(c, slots[c][Top(c).slot].id)
<1> DEFINE found == IF s = 0 THEN "nothing" ELSE Parsed(slots[c][s].buf)
<1>1. /\ ~ Idle(c) /\ Top(c).at = "framing" /\ UNCHANGED <<inbox, given>>
      /\ \/ found = "nothing" /\ calls' = [calls EXCEPT ![c] = Beneath(c)] /\ UNCHANGED <<tables, ending>>
         \/ /\ found = "message"
            /\ slots' = [slots EXCEPT ![c][s].buf = Tail(@)]
            /\ calls' = [calls EXCEPT ![c] = Append(@, Handler("message", slots[c][s].id))]
            /\ UNCHANGED <<free, index, used, ending>>
         \/ found = "end" /\ Teardown(c, s, calls[c])
  BY DEF FramingTurn, InCode, handoff
<1>2. found # "nothing" => s # 0 /\ Parsed(slots[c][s].buf) = found
  OBVIOUS
<1> HIDE DEF found
<1>3. /\ Types /\ Core /\ Contexts /\ Looked(calls[c], slots[c], given, shut)
      /\ calls[c] \in Seq(Frame)
  BY <1>1, LookedUnder DEF IInv, Core
<1>4. s # 0 => /\ s \in Alive(slots[c]) /\ slots[c][s] \in Record /\ slots[c][s].id \in Conn /\ s = Top(c).slot
               /\ slots[c][s].mode = "ws" /\ slots[c][s].alive
  <2>1. SUFFICES ASSUME s # 0
                 PROVE  /\ s \in Alive(slots[c]) /\ slots[c][s] \in Record /\ slots[c][s].id \in Conn /\ s = Top(c).slot
                        /\ slots[c][s].mode = "ws" /\ slots[c][s].alive
    OBVIOUS
  <2>2. /\ s \in Alive(slots[c]) /\ slots[c][s] \in Record /\ slots[c][s].id \in Conn /\ s = Top(c).slot
        /\ 1 \in DOMAIN calls[c] /\ calls[c][1] = Top(c)
    BY <1>1, <2>1, SameSlot
  <2> HIDE DEF s
  <2>3. slots[c][s].mode = "ws" /\ slots[c][s].alive
    BY <1>1, <1>3, <2>2 DEF Looked, Alive
  <2>4. QED
    BY <2>2, <2>3
<1> HIDE DEF s
<1>5. CASE calls' = [calls EXCEPT ![c] = Beneath(c)] /\ UNCHANGED <<tables, ending>>
  BY <1>1, <1>5, LookingPop DEF tables, ending, fates
<1>6. CASE found = "end" /\ Teardown(c, s, calls[c])
  BY <1>1, <1>2, <1>3, <1>4, <1>6, LookingTeardown
<1>7. CASE /\ found = "message"
           /\ slots' = [slots EXCEPT ![c][s].buf = Tail(@)]
           /\ calls' = [calls EXCEPT ![c] = Append(@, Handler("message", slots[c][s].id))]
           /\ UNCHANGED <<free, index, used, ending>>
  <2> DEFINE conn == [slots[c][s] EXCEPT !.buf = Tail(slots[c][s].buf)]
  <2> DEFINE f == Handler("message", slots[c][s].id)
  <2> DEFINE tt == Append(calls[c], f)
  <2>1. slots[c][s] \in Record /\ s \in Alive(slots[c]) /\ slots[c][s].mode = "ws" /\ slots[c][s].alive
        /\ slots[c][s].id \in 0..MaxConn /\ Parsed(slots[c][s].buf) = "message"
    BY <1>2, <1>4, <1>7, ConnFacts
  <2>2. Tail(slots[c][s].buf) \in Seq(Item)
    <3>1. slots[c][s].buf \in Seq(Item)
      BY <2>1, RecordFacts
    <3>2. QED
      BY <2>1, <3>1, ParsedFacts, HeadTailProperties
  <2>3. conn \in Record /\ conn.id = slots[c][s].id /\ conn.alive /\ conn.mode = "ws"
    BY <2>1, <2>2, RecordBuf
  <2>4. slots' = [slots EXCEPT ![c] = [slots[c] EXCEPT ![s] = conn]]
    BY <1>7
  <2>5. f \in Frame /\ f.at = "message"
    BY <2>1, CallFacts DEF UserCode
  <2>6. calls'[c] = tt /\ \A d \in Ctx \ {c} : calls'[d] = calls[d]
    BY <1>3, <1>7 DEF Types
  <2> HIDE DEF conn, f
  <2>7. Pushed(calls[c], tt, f)
    BY <1>3, <2>5, PushSeq
  <2> HIDE DEF tt
  <2>8. Looked(tt, slots[c], given, shut)
    BY <1>3, <2>5, <2>7, LookedPush
  <2>9. UNCHANGED <<inbox, given, shut>>
    BY <1>1, <1>7 DEF ending, fates
  <2>10. QED
    BY <2>1, <2>3, <2>4, <2>6, <2>8, <2>9, LookingChange
<1>8. QED
  BY <1>1, <1>5, <1>6, <1>7

\* The handler's own connection: any whole request in its buffer is looked at.
LEMMA HandlerLooked ==
  ASSUME IInv, Looking, NEW c \in Ctx, ~ Idle(c), Top(c).at = "request"
  PROVE  Top(c).id \in given \/ \A s \in Alive(slots[c]) : slots[c][s].id = Top(c).id => Reads(calls[c], s)
<1>1. Stack(calls[c], slots[c]) /\ Looked(calls[c], slots[c], given, shut) /\ calls[c] # << >>
  BY LookedUnder DEF Idle
<1>2. Len(calls[c]) \in DOMAIN calls[c]
  BY <1>1, StackFacts
<1>3. QED
  BY <1>1, <1>2 DEF Looked, Top

LEMMA AnswerLooks == ASSUME IInv, Looking, NEW c \in Ctx, Answer(c) PROVE Looking'
<1> DEFINE s == ById(c, Top(c).id)
<1> DEFINE conn == [slots[c][s] EXCEPT !.responded = TRUE]
<1>1. /\ ~ Idle(c) /\ s # 0 /\ slots' = [slots EXCEPT ![c] = [slots[c] EXCEPT ![s] = conn]]
      /\ UNCHANGED <<calls, inbox, given, shut>>
  BY DEF Answer, InCode, Answerable, control, handoff, fates
<1>2. s \in Alive(slots[c]) /\ slots[c][s] \in Record /\ slots[c][s].alive
  BY <1>1, HandlerConn DEF IInv, Alive
<1>3. /\ conn \in Record /\ conn.id = slots[c][s].id /\ conn.alive
      /\ conn.mode = slots[c][s].mode /\ conn.buf = slots[c][s].buf
  BY <1>2, RecordResponded
<1> HIDE DEF conn, s
<1>4. Looked(calls[c], slots[c], given, shut)
  BY LookedUnder
<1>5. conn.mode = "http" /\ Complete(conn.buf) => conn.id \in given \/ Reads(calls[c], s)
  BY <1>2, <1>3, <1>4 DEF Looked
<1>6. QED
  BY <1>1, <1>2, <1>3, <1>4, <1>5, LookingChange

LEMMA UpgradeLooks == ASSUME IInv, Looking, NEW c \in Ctx, Upgrade(c) PROVE Looking'
<1> DEFINE s == ById(c, Top(c).id)
<1> DEFINE conn == [slots[c][s] EXCEPT !.responded = TRUE, !.mode = "ws", !.buf = << >>]
<1>1. /\ ~ Idle(c) /\ s # 0 /\ slots' = [slots EXCEPT ![c] = [slots[c] EXCEPT ![s] = conn]]
      /\ UNCHANGED <<calls, inbox, given, shut>>
  BY DEF Upgrade, InCode, Answerable, control, handoff, fates
<1>2. s \in Alive(slots[c]) /\ slots[c][s] \in Record /\ slots[c][s].alive
  BY <1>1, HandlerConn DEF IInv, Alive
<1>3. conn \in Record /\ conn.id = slots[c][s].id /\ conn.alive /\ conn.mode = "ws"
  BY <1>2, EmptySeq DEF Record
<1> HIDE DEF conn, s
<1>4. Looked(calls[c], slots[c], given, shut)
  BY LookedUnder
<1>5. QED
  BY <1>1, <1>2, <1>3, <1>4, LookingChange

LEMMA SocketCloseLooks == ASSUME IInv, Looking, NEW c \in Ctx, SocketClose(c) PROVE Looking'
<1>1. UNCHANGED <<inbox, given>> /\ \E s \in LiveSlots(c) : Teardown(c, s, calls[c])
  BY DEF SocketClose, handoff
<1>2. PICK s \in LiveSlots(c) : Teardown(c, s, calls[c])
  BY <1>1
<1>3. s \in Alive(slots[c]) /\ calls[c] \in Seq(Frame) /\ Looked(calls[c], slots[c], given, shut)
  BY LookedUnder DEF LiveSlots, Alive
<1>4. QED
  BY <1>1, <1>2, <1>3, LookingTeardown

LEMMA CloseReturnsLooks == ASSUME IInv, Looking, NEW c \in Ctx, CloseReturns(c) PROVE Looking'
<1>1. /\ ~ Idle(c) /\ Top(c).at = "closing" /\ calls' = [calls EXCEPT ![c] = Beneath(c)] /\ Dispose(c, Top(c).slot)
      /\ UNCHANGED <<inbox, given>>
  BY DEF CloseReturns, InCode, handoff
<1>2. Stack(calls[c], slots[c]) /\ Popped(calls[c], Beneath(c), Top(c)) /\ Looked(Beneath(c), slots[c], given, shut)
  BY <1>1, LookedUnder, TopFacts DEF IInv, Core
<1>3. Top(c).slot \in Alive(slots[c])
  BY <1>1, <1>2 DEF Stack, ClosingFrames, Popped
<1>4. QED
  BY <1>1, <1>2, <1>3, LookingDispose

LEMMA FinishRequestLooks == ASSUME IInv, Looking, NEW c \in Ctx, FinishRequest(c) PROVE Looking'
<1> DEFINE id == Top(c).id
<1> DEFINE s == ById(c, id)
<1>1. /\ ~ Idle(c) /\ Top(c).at = "request" /\ UNCHANGED <<inbox, given>>
      /\ \/ s = 0 /\ calls' = [calls EXCEPT ![c] = Beneath(c)] /\ UNCHANGED <<tables, ending>>
         \/ /\ s # 0 /\ slots[c][s].mode = "ws"
            /\ slots' = [slots EXCEPT ![c][s].upgraded = TRUE]
            /\ calls' = [calls EXCEPT ![c] = Append(Beneath(c), Handler("upgrade", id))]
            /\ UNCHANGED <<free, index, used, ending>>
         \/ s # 0 /\ slots[c][s].mode = "http" /\ Teardown(c, s, Beneath(c))
         \/ /\ s # 0 /\ slots[c][s].mode = "http"
            /\ slots' = [slots EXCEPT ![c][s].buf = SubSeq(@, 3, Len(@)), ![c][s].responded = FALSE]
            /\ calls' = [calls EXCEPT ![c] = Beneath(c)]
            /\ UNCHANGED <<free, index, used, ending>>
  BY DEF FinishRequest, InCode
<1>2. s # 0 => /\ s \in Alive(slots[c]) /\ slots[c][s].id = id /\ slots[c][s] \in Record /\ id \in Conn
               /\ s \in DOMAIN slots[c] /\ slots[c][s].alive
  BY <1>1, HandlerConn DEF IInv, Alive
<1>3. /\ Looked(calls[c], slots[c], given, shut) /\ calls[c] \in Seq(Frame)
      /\ Looked(Beneath(c), slots[c], given, shut) /\ Beneath(c) \in Seq(Frame)
      /\ Popped(calls[c], Beneath(c), Top(c)) /\ id \in 0..MaxConn /\ Domains /\ DOMAIN calls = Ctx
  BY <1>1, LookedUnder, TopFacts DEF IInv, Core, Types
<1>4. id \in given \/ \A r \in Alive(slots[c]) : slots[c][r].id = id => Reads(calls[c], r)
  BY <1>1, HandlerLooked
<1> HIDE DEF s, id
<1>5. CASE calls' = [calls EXCEPT ![c] = Beneath(c)] /\ UNCHANGED <<tables, ending>>
  BY <1>1, <1>5, LookingPop DEF tables, ending, fates
<1>6. CASE s # 0 /\ Teardown(c, s, Beneath(c))
  BY <1>1, <1>2, <1>3, <1>6, LookingTeardown
<1>7. CASE /\ s # 0 /\ slots[c][s].mode = "ws"
           /\ slots' = [slots EXCEPT ![c][s].upgraded = TRUE]
           /\ calls' = [calls EXCEPT ![c] = Append(Beneath(c), Handler("upgrade", id))]
           /\ UNCHANGED <<free, index, used, ending>>
  <2> DEFINE conn == [slots[c][s] EXCEPT !.upgraded = TRUE]
  <2> DEFINE f == Handler("upgrade", id)
  <2> DEFINE tt == Append(Beneath(c), f)
  <2>1. conn \in Record /\ conn.id = slots[c][s].id /\ conn.alive /\ conn.mode = "ws"
    BY <1>2, <1>7 DEF Record
  <2>2. slots' = [slots EXCEPT ![c] = [slots[c] EXCEPT ![s] = conn]]
    BY <1>7
  <2>3. f \in Frame /\ f.at = "upgrade"
    BY <1>3, CallFacts DEF UserCode
  <2>4. calls'[c] = tt /\ \A d \in Ctx \ {c} : calls'[d] = calls[d]
    BY <1>3, <1>7
  <2> HIDE DEF conn, f
  <2>5. Pushed(Beneath(c), tt, f)
    BY <1>3, <2>3, PushSeq
  <2> HIDE DEF tt
  <2>6. Looked(tt, slots[c], given, shut)
    BY <1>3, <2>3, <2>5, LookedPush
  <2>7. UNCHANGED <<inbox, given, shut>>
    BY <1>1, <1>7 DEF ending, fates
  <2>8. QED
    BY <1>2, <1>7, <2>1, <2>2, <2>4, <2>6, <2>7, LookingChange
<1>8. CASE /\ s # 0 /\ slots[c][s].mode = "http"
           /\ slots' = [slots EXCEPT ![c][s].buf = SubSeq(@, 3, Len(@)), ![c][s].responded = FALSE]
           /\ calls' = [calls EXCEPT ![c] = Beneath(c)]
           /\ UNCHANGED <<free, index, used, ending>>
  <2> DEFINE b == SubSeq(slots[c][s].buf, 3, Len(slots[c][s].buf))
  <2> DEFINE mid == [slots[c][s] EXCEPT !.buf = b]
  <2> DEFINE conn == [mid EXCEPT !.responded = FALSE]
  <2>1. slots[c][s] \in Record /\ s \in Alive(slots[c]) /\ s \in DOMAIN slots[c] /\ slots[c][s].alive
        /\ slots[c][s].buf \in Seq(Item) /\ slots[c][s].id = id
    BY <1>2, <1>8, RecordFacts
  <2>2. slots' = [slots EXCEPT ![c] = [slots[c] EXCEPT ![s] = conn]]
    <3>1. c \in DOMAIN slots
      BY <1>3 DEF Domains
    <3>2. QED
      BY <1>8, <2>1, <3>1
  <2>3. b \in Seq(Item)
    BY <2>1, RestOfBuffer
  <2> HIDE DEF b
  <2>4. mid \in Record /\ mid.id = slots[c][s].id /\ mid.alive = slots[c][s].alive /\ mid.mode = slots[c][s].mode
    BY <2>1, <2>3, RecordBuf
  <2> HIDE DEF mid
  <2>5. conn \in Record /\ conn.id = slots[c][s].id /\ conn.alive /\ conn.mode = slots[c][s].mode
    BY <2>1, <2>4, RecordResponded
  <2> HIDE DEF conn
  <2>6. conn.id \in given \/ Reads(calls[c], s)
    BY <1>4, <2>1, <2>5
  <2>7. calls'[c] = Beneath(c) /\ \A d \in Ctx \ {c} : calls'[d] = calls[d]
    BY <1>3, <1>8
  <2>8. Looked(calls[c], slots'[c], given, shut) => Looked(calls'[c], slots'[c], given, shut)
    <3>1. SUFFICES ASSUME Looked(calls[c], slots'[c], given, shut) PROVE Looked(Beneath(c), slots'[c], given, shut)
      BY <2>7
    <3>2. QED
      BY <1>1, <1>3, <3>1, LookedPop
  <2>9. UNCHANGED <<inbox, given, shut>>
    BY <1>1, <1>8 DEF ending, fates
  <2>10. QED
    BY <1>3, <2>1, <2>2, <2>5, <2>6, <2>7, <2>8, <2>9, LookingChange
<1>9. QED
  BY <1>1, <1>5, <1>6, <1>7, <1>8

LEMMA GiveRequestLooks == ASSUME IInv, Looking, NEW w \in Worker, GiveRequest(w) PROVE Looking'
<1> DEFINE id == Top(Main).id
<1> DEFINE s == ById(Main, id)
<1> DEFINE p == [conn |-> slots[Main][s], req |-> Top(Main).req]
<1>1. /\ ~ Idle(Main) /\ s # 0 /\ Vacate(Main, s, Blank)
      /\ inbox' = [inbox EXCEPT ![w] = Append(@, p)] /\ given' = given \cup {id}
      /\ UNCHANGED <<calls, shut>>
  BY DEF GiveRequest, InCode, Answerable, control, outcome, fates
<1>2. Main \in Ctx /\ Types /\ Domains /\ Tabled(Main) /\ Looked(calls[Main], slots[Main], given, shut)
  BY CtxFacts, LookedUnder DEF IInv
<1>3. s \in Alive(slots[Main]) /\ slots[Main][s].id = id /\ id \in Conn
  BY <1>1, <1>2, HandlerConn DEF IInv
<1>4. p \in Parcel /\ p.conn.id = id
  <2>1. slots[Main][s] \in Record /\ Top(Main).req \in 0..MaxReq
    BY <1>1, <1>2, HandlerConn, TopFacts DEF IInv, Core
  <2>2. QED
    BY <1>3, <2>1 DEF Parcel
<1> HIDE DEF s, p, id
<1>5. Blank \in Record /\ ~ Blank.alive /\ ~ Blank.upgraded /\ Blank.id = 0
  BY <1>3, BlankFacts, ConnFacts DEF Blank
<1>6. Others(Main) /\ Changed(slots[Main], slots'[Main], s, Blank)
  BY <1>1, <1>2, <1>3, <1>5, VacateStep
<1>7. Looked(calls[Main], slots'[Main], given', shut)
  <2>1. \A r \in DOMAIN slots[Main] : slots[Main][r].id \in 0..MaxConn
    BY <1>2, TableFacts, RecordFacts DEF Tabled
  <2>2. given \subseteq given'
    BY <1>1
  <2>3. Looked(calls[Main], slots[Main], given', shut)
    BY <1>2, <2>1, <2>2, LookedMore
  <2>4. QED
    BY <1>5, <1>6, <2>3, LookedVacate
<1>8. QueuedGiven'
  <2>1. ASSUME NEW v \in Worker, NEW i \in DOMAIN inbox'[v] PROVE inbox'[v][i].conn.id \in given'
    <3>1. inbox \in [Worker -> Seq(Parcel)] /\ QueuedGiven
      BY <1>2 DEF Types, Looking
    <3>2. CASE v = w
      <4>1. inbox'[w] = Append(inbox[w], p) /\ inbox[w] \in Seq(Parcel)
        BY <1>1, <3>1
      <4>2. /\ Len(inbox[w]) \in Nat /\ DOMAIN inbox[w] = 1..Len(inbox[w])
            /\ DOMAIN inbox'[w] = 1..(Len(inbox[w]) + 1) /\ inbox'[w][Len(inbox[w]) + 1] = p
            /\ \A j \in 1..Len(inbox[w]) : inbox'[w][j] = inbox[w][j]
        BY <1>4, <4>1, AppendProperties, LenProperties
      <4>3. i = Len(inbox[w]) + 1 \/ i \in DOMAIN inbox[w]
        BY <2>1, <3>2, <4>2
      <4>4. QED
        BY <1>1, <1>4, <3>1, <3>2, <4>2, <4>3 DEF QueuedGiven
    <3>3. CASE v # w
      BY <1>1, <2>1, <3>1, <3>3 DEF QueuedGiven
    <3>4. QED
      BY <3>2, <3>3
  <2>2. QED
    BY <2>1 DEF QueuedGiven
<1>9. Alone(Main)
  BY <1>1, <1>6, <1>8 DEF Alone, Others
<1>10. QED
  BY <1>1, <1>2, <1>7, <1>9, LookingStep

LEMMA TailElement ==
  ASSUME NEW q \in Seq(Parcel), q # << >>, NEW i \in DOMAIN Tail(q)
  PROVE  i + 1 \in DOMAIN q /\ Tail(q)[i] = q[i + 1]
<1>1. /\ Len(q) \in Nat /\ Len(q) >= 1 /\ DOMAIN q = 1..Len(q) /\ Tail(q) \in Seq(Parcel)
      /\ Len(Tail(q)) = Len(q) - 1 /\ \A j \in 1..Len(Tail(q)) : Tail(q)[j] = q[j + 1]
  BY HeadTailProperties, LenProperties, EmptySeq
<1>2. DOMAIN Tail(q) = 1..Len(q) - 1
  BY <1>1, LenProperties
<1>3. QED
  BY <1>1, <1>2

LEMMA DeliverLooks == ASSUME IInv, Looking, NEW w \in Worker, Deliver(w) PROVE Looking'
<1> DEFINE p == Head(inbox[w])
<1> DEFINE f == Given(p)
<1>1. /\ w \in Ctx /\ Idle(w) /\ inbox[w] # << >> /\ Install(w, p.conn) /\ calls' = [calls EXCEPT ![w] = <<f>>]
      /\ inbox' = [inbox EXCEPT ![w] = Tail(@)] /\ UNCHANGED <<given, shut>>
  BY CtxFacts DEF Deliver, outcome, fates
<1>2. Types /\ Core /\ Domains /\ Tabled(w) /\ inbox \in [Worker -> Seq(Parcel)] /\ inbox[w] \in Seq(Parcel)
  BY <1>1, LookedUnder DEF IInv, Types
<1>3. p = inbox[w][1] /\ 1 \in DOMAIN inbox[w] /\ p \in Parcel
  BY <1>1, <1>2, HeadTailProperties, LenProperties, EmptySeq
<1>4. p.conn \in Record /\ p.conn.alive /\ p.conn.id \in Conn /\ p.conn.id \in given /\ ~ p.conn.upgraded
  BY <1>2, <1>3 DEF Core, Queued, Parcel, Looking, QueuedGiven
<1>5. p.conn.id \notin IdsOf(slots[w])
  <2>1. InQueue(p.conn.id, w)
    BY <1>3 DEF InQueue, QueuedConns
  <2>2. QED
    BY <1>1, <1>2, <1>4, <2>1 DEF Core, Owners, OwnedOnce, InTable
<1>6. f.at = "request" /\ f.id = p.conn.id
  BY DEF Given, Request, Handler, Doing
<1> HIDE DEF f, p
<1> DEFINE conn == p.conn
<1>7. conn \in Record /\ conn.alive /\ conn.id \in Conn /\ conn.id \in given /\ ~ conn.upgraded
      /\ conn.id \notin IdsOf(slots[w]) /\ Install(w, conn) /\ f.id = conn.id
  BY <1>1, <1>4, <1>5, <1>6
<1> HIDE DEF conn
<1>8. Others(w) /\ Added(slots[w], slots'[w], SlotFor(w), conn)
  BY <1>1, <1>2, <1>7, InstallStep
<1>9. Looked(<<f>>, slots'[w], given, shut)
  <2>1. Looked(<< >>, slots[w], given, shut) /\ DOMAIN << >> = {}
    BY <1>1, LookedUnder DEF Idle
  <2>2. Looked(<< >>, slots'[w], given, shut)
    BY <1>7, <1>8, <2>1, LookedAdd
  <2>3. QED
    BY <1>6, <1>7, <2>2, LookedSolo
<1>10. calls'[w] = <<f>> /\ \A d \in Ctx \ {w} : calls'[d] = calls[d]
  BY <1>1, <1>2 DEF Types
<1>11. QueuedGiven'
  <2>1. ASSUME NEW v \in Worker, NEW i \in DOMAIN inbox'[v] PROVE inbox'[v][i].conn.id \in given
    <3>1. CASE v = w
      <4>1. inbox'[w] = Tail(inbox[w])
        BY <1>1, <1>2
      <4>2. i + 1 \in DOMAIN inbox[w] /\ inbox'[w][i] = inbox[w][i + 1]
        BY <1>1, <1>2, <2>1, <3>1, <4>1, TailElement
      <4>3. QED
        BY <3>1, <4>2 DEF Looking, QueuedGiven
    <3>2. CASE v # w
      BY <1>1, <1>2, <2>1, <3>2 DEF Looking, QueuedGiven
    <3>3. QED
      BY <3>1, <3>2
  <2>2. QED
    BY <1>1, <2>1 DEF QueuedGiven
<1>12. Alone(w)
  BY <1>1, <1>8, <1>10, <1>11 DEF Alone, Others
<1>13. QED
  BY <1>1, <1>9, <1>10, <1>12, LookingStep

LEMMA JoinReturnsLooks == ASSUME IInv, Looking, JoinReturns PROVE Looking'
<1> DEFINE w == Top(Main).thread
<1>1. /\ Main \in Ctx /\ ~ Idle(Main) /\ Top(Main).at = "join" /\ inbox' = [inbox EXCEPT ![w] = << >>]
      /\ calls' = [calls EXCEPT ![Main] = Beneath(Main)] /\ UNCHANGED <<slots, given, shut>>
  BY CtxFacts DEF JoinReturns, InCode, tables, outcome, fates
<1> HIDE DEF w
<1>2. Looked(Beneath(Main), slots[Main], given, shut)
  BY <1>1, LookedUnder
<1>3. calls'[Main] = Beneath(Main) /\ \A d \in Ctx \ {Main} : calls'[d] = calls[d]
  BY <1>1 DEF IInv, Types
<1>4. QueuedGiven'
  <2>1. inbox \in [Worker -> Seq(Parcel)] /\ DOMAIN << >> = {} /\ QueuedGiven
    BY DEF IInv, Types, Looking
  <2>2. QED
    BY <1>1, <2>1 DEF QueuedGiven
<1>5. Alone(Main)
  BY <1>1, <1>3, <1>4 DEF Alone
<1>6. QED
  BY <1>1, <1>2, <1>3, <1>5, LookingStep

LEMMA RunCallbacksLooks == ASSUME IInv, Looking, RunCallbacks PROVE Looking'
<1>1. Main \in Ctx /\ Idle(Main) /\ UNCHANGED <<slots, inbox, given, shut>>
  BY CtxFacts DEF RunCallbacks, Served, tables, handoff, outcome, fates
<1>2. calls' = [calls EXCEPT ![Main] = <<Doing("callback")>>] /\ Doing("callback").at = "callback"
  BY CallbackFrame DEF RunCallbacks
<1>3. QED
  BY <1>1, <1>2, LookingSolo

LEMMA MessageLooks == ASSUME IInv, Looking, NEW w \in Worker, Message(w) PROVE Looking'
<1>1. w \in Ctx /\ Idle(w) /\ UNCHANGED <<slots, inbox, given, shut>>
  BY CtxFacts DEF Message, tables, handoff, outcome, fates
<1>2. calls' = [calls EXCEPT ![w] = <<Doing("callback")>>] /\ Doing("callback").at = "callback"
  BY CallbackFrame DEF Message
<1>3. QED
  BY <1>1, <1>2, LookingSolo

LEMMA KillSeenLooks == ASSUME IInv, Looking, NEW w \in Worker, KillSeen(w) PROVE Looking'
<1>1. w \in Ctx /\ Idle(w) /\ UNCHANGED <<slots, inbox, given, shut>>
  BY CtxFacts DEF KillSeen, tables, handoff, outcome, fates
<1>2. PICK stack \in {<< >>} \cup Callbacks : calls' = [calls EXCEPT ![w] = stack]
  BY DEF KillSeen
<1>3. CASE stack = << >>
  <2>1. Looked(<< >>, slots[w], given, shut)
    BY <1>1, LookedUnder DEF Idle
  <2>2. QED
    BY <1>1, <1>2, <1>3, <2>1, LookingCalls
<1>4. CASE stack \in Callbacks
  <2>1. calls' = [calls EXCEPT ![w] = <<Doing("callback")>>] /\ Doing("callback").at = "callback"
    BY <1>2, <1>4, CallbackFrame
  <2>2. QED
    BY <1>1, <2>1, LookingSolo
<1>5. QED
  BY <1>3, <1>4

LEMMA KillLooks == ASSUME IInv, Looking, NEW w \in Worker, Kill(w) PROVE Looking'
<1> DEFINE f == [Doing("join") EXCEPT !.thread = w]
<1>1. calls' = [calls EXCEPT ![Main] = Append(calls[Main], f)] /\ UNCHANGED <<slots, inbox, given, shut>>
  BY DEF Kill, tables, outcome, fates
<1>2. f \in Frame /\ f.at = "join"
  <2>1. Doing("join") \in Frame /\ Doing("join").at = "join"
    BY CallFacts
  <2>2. QED
    BY <2>1, CtxFacts DEF Frame
<1> HIDE DEF f
<1>3. QED
  BY <1>1, <1>2, CtxFacts, LookingPush

LEMMA ReturnLooks == ASSUME IInv, Looking, NEW c \in Ctx, Return(c) PROVE Looking'
<1>1. /\ ~ Idle(c) /\ Top(c).at # "reading" /\ calls' = [calls EXCEPT ![c] = Beneath(c)]
      /\ UNCHANGED <<slots, inbox, given, shut>>
  BY DEF Return, InCode, tables, handoff, outcome, fates
<1>2. QED
  BY <1>1, LookingPop

LEMMA InitLooks == ASSUME Init PROVE Looking
<1>1. /\ slots = [c \in Ctx |-> << >>] /\ calls = [c \in Ctx |-> << >>] /\ inbox = [w \in Worker |-> << >>]
  BY DEF Init
<1>2. DOMAIN << >> = {} /\ Alive(<< >>) = {}
  BY DEF Alive
<1>3. Looked(<< >>, << >>, given, shut)
  BY <1>2 DEF Looked
<1>4. QED
  BY <1>1, <1>2, <1>3 DEF Looking, LookedAt, QueuedGiven

LEMMA NextLooks == ASSUME IInv, Looking, [Next]_vars PROVE Looking'
<1>1. CASE UNCHANGED vars
  <2>1. UNCHANGED <<slots, calls, inbox, given, shut>>
    BY <1>1 DEF vars, tables, control, handoff, outcome, fates
  <2>2. QED
    BY <2>1, LookingSame
<1>2. ASSUME NEW c \in Ctx, Step(c) PROVE Looking'
  <2>1. CASE Poll(c) \/ Serve(c) \/ Reap(c)
    BY <2>1, PollLooks, ServeLooks, ReapLooks
  <2>2. CASE ReadingTurn(c) \/ FramingTurn(c)
    BY <2>2, ReadingTurnLooks, FramingTurnLooks
  <2>3. CASE HandlerReturns(c)
    BY <2>3, ReturnLooks, CloseReturnsLooks, FinishRequestLooks DEF HandlerReturns
  <2>4. CASE c \in Worker /\ (Deliver(c) \/ KillSeen(c) \/ TeardownNext(c) \/ FreeTables(c))
    BY <2>4, DeliverLooks, KillSeenLooks, TeardownNextLooks, FreeTablesLooks
  <2>5. CASE JoinReturns
    BY <2>5, JoinReturnsLooks
  <2>6. QED
    BY <1>2, <2>1, <2>2, <2>3, <2>4, <2>5 DEF Step
<1>3. CASE ProgramCall
  <2>1. CASE RunCallbacks
    BY <2>1, RunCallbacksLooks
  <2>2. ASSUME NEW c \in Ctx, Answer(c) \/ Upgrade(c) \/ SocketClose(c) PROVE Looking'
    BY <2>2, AnswerLooks, UpgradeLooks, SocketCloseLooks
  <2>3. ASSUME NEW w \in Worker, Message(w) \/ GiveRequest(w) \/ Kill(w) PROVE Looking'
    BY <2>3, MessageLooks, GiveRequestLooks, KillLooks
  <2>4. ASSUME NEW w \in Worker, Live(w) PROVE Looking'
    <3>1. UNCHANGED <<slots, calls, inbox, given, shut>>
      BY <2>4 DEF Live, tables, outcome, fates
    <3>2. QED
      BY <3>1, LookingSame
  <2>5. QED
    BY <1>3, <2>1, <2>2, <2>3, <2>4 DEF ProgramCall
<1>4. CASE ClientStep
  <2>1. UNCHANGED <<slots, calls, inbox, given, shut>>
    BY <1>4 DEF ClientStep, SendHead, SendBody, SendFrame, Hangup, tables, control, handoff, outcome, fates
  <2>2. QED
    BY <2>1, LookingSame
<1>5. QED
  BY <1>1, <1>2, <1>3, <1>4 DEF Next

LEMMA ServedFromLooking == ASSUME IInv, Looking PROVE RequestsServed
<1>1. SUFFICES ASSUME NEW c \in Ctx, Idle(c), NEW s \in Stranded(c) PROVE slots[c][s].id \in given
  BY DEF RequestsServed
<1>2. s \in Alive(slots[c]) /\ slots[c][s].mode = "http" /\ Complete(slots[c][s].buf)
  BY <1>1 DEF Stranded, LiveSlots, Alive
<1>3. Looked(calls[c], slots[c], given, shut) /\ ~ Reads(calls[c], s)
  BY <1>1, LookedUnder DEF Idle, Reads
<1>4. QED
  BY <1>2, <1>3 DEF Looked

\* No context goes back to its loop with a request whole in the buffer of a connection,
\* except one that giveRequest handed over: the loop over requests runs until the parser
\* finds none, whatever the handlers close, hand off or answer on the way.
THEOREM RequestsAreServed == ASSUME "closeAgain" \notin Uses PROVE Spec => []RequestsServed
<1>1. Init => IInv /\ Looking
  BY InitKeeps, InitLooks
<1>2. IInv /\ Looking /\ [Next]_vars => (IInv /\ Looking)'
  BY NextKeeps, NextLooks
<1>3. IInv /\ Looking => RequestsServed
  BY ServedFromLooking
<1>4. QED
  BY <1>1, <1>2, <1>3, PTL DEF Spec
=============================================================================
