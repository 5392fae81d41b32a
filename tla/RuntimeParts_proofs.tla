----------------------- MODULE RuntimeParts_proofs -----------------------
(***************************************************************************)
(* Proofs about five parts of the runtime that run on one thread: the      *)
(* timers (FestinaTimers), the map (MapTable), the cleanup stack           *)
(* (CleanupStack), the blocking HTTP client (KeepAlivePool) and the frames *)
(* of an upgraded connection (WebSocketFrames).                            *)
(*                                                                         *)
(* The table of timers, which is walked, compacted and doubled under the   *)
(* walk, implements the set of timers of PendingTimers, for every set of   *)
(* delays, first capacity and bound.                                       *)
(*                                                                         *)
(* The map is the function the program stored, for every set of keys and   *)
(* values, every hash and every capacity.  The argument: no key is twice   *)
(* in the table and none lies beyond a bucket of its probe that was never  *)
(* used (Sound), and such a bucket is left (Counted), so that a probe ends *)
(* at the key if it is there (FindFinds, FindMisses).  What a set, a       *)
(* delete, a rebuild or a copy does to the pairs of the table (SetSound,   *)
(* DeleteSound, GrowSound, CloneSound) is what the program does to its     *)
(* function.                                                               *)
(*                                                                         *)
(* The cleanup stack is what the open scopes own, innermost last, for      *)
(* every number of values (UnwindInv).  The argument: the scopes are       *)
(* nested as a compiler nests them (Nested), there is one catch frame for  *)
(* each open try body, in their order, and it remembers the height the     *)
(* stack had when the body was opened (Framed), and every value made is in *)
(* one place, owned by a scope, in an unfinished expression, lost or       *)
(* released once (Conserved).  A jump out of scopes pops as many frames    *)
(* as try bodies are left (FramedCut), and what it cuts from the stack is  *)
(* what the scopes left owned (Leaving).                                   *)
(*                                                                         *)
(* The HTTP client and its pool of kept connections are sound (PoolSound), *)
(* for every size of the pool, set of origins and of socket numbers, and   *)
(* number of requests.  The argument: unless the upstream spoke out of     *)
(* turn on it, a socket owes an answer only while it is in use and read,   *)
(* and that to the request it is used for (Asked), so that what there is   *)
(* to read there is its answer (Heard).  Of a request that is written, and *)
(* of the part of it that may arrive before a write is tried again, the    *)
(* upstream has not heard before (Unwritten), and each such arrival is in  *)
(* one place at a time from then on (OnePlace).                            *)
(*                                                                         *)
(* What on message hears is what the client's frames say, for every limit, *)
(* every set of payload sizes and any number of frames (FramesInv). The    *)
(* argument: one frame more changes nothing of what the frames before it say *)
(* (MessagesMore, PongsMore, VerdictsMore), and the fields of the unfinished *)
(* message hold the fragments that stand (Standing), so that the test a frame *)
(* meets is its verdict, and the message that it ends is whole.            *)
(***************************************************************************)
EXTENDS FestinaTimers, MapTable, CleanupStack, KeepAlivePool, WebSocketFrames,
        SequenceTheorems, FiniteSetTheorems, WellFoundedInduction, TLAPS

-----------------------------------------------------------------------------
(***************************************************************************)
(* Induction.                                                              *)
(***************************************************************************)

\* Every set of naturals but the empty one has a least element.
LEMMA LeastNat ==
  ASSUME NEW S \in SUBSET Nat, S # {}
  PROVE  \E m \in S : \A k \in S : m <= k
<1> DEFINE R == OpToRel(<, Nat)
<1>1. IsWellFoundedOn(R, Nat)
  BY NatLessThanWellFounded
<1>2. \A i, j \in Nat : i < j => <<i, j>> \in R
  BY DEF OpToRel
<1> HIDE DEF R
<1>3. PICK m \in S : \A k \in S : <<k, m>> \notin R
  BY <1>1, WFMin
<1>4. ASSUME NEW k \in S PROVE m <= k
  <2>1. ~ (k < m)
    BY <1>2, <1>3
  <2>2. QED
    BY <2>1, SMT
<1>5. QED
  BY <1>4

\* Induction up to n, for a set.
LEMMA InductionTo ==
  ASSUME NEW n \in Nat, NEW S, 0 \in S, \A k \in 0..n-1 : k \in S => k + 1 \in S
  PROVE  0..n \subseteq S
<1> DEFINE Bad == {k \in 0..n : k \notin S}
<1>1. SUFFICES ASSUME Bad # {} PROVE FALSE
  OBVIOUS
<1>2. PICK m \in Bad : \A k \in Bad : m <= k
  <2>1. Bad \in SUBSET Nat
    OBVIOUS
  <2>2. QED
    BY <1>1, <2>1, LeastNat
<1>3. m \in 0..n /\ m \notin S /\ m # 0
  BY <1>2
<1>4. m - 1 \in 0..n-1 /\ ~(m <= m - 1)
  BY <1>3
<1>5. m - 1 \in S
  BY <1>2, <1>4
<1>6. (m - 1) + 1 \in S
  BY <1>4, <1>5
<1>7. QED
  BY <1>3, <1>6

-----------------------------------------------------------------------------
(***************************************************************************)
(* The timers.                                                             *)
(***************************************************************************)

Entry == [id : Nat \ {0}, due : Nat, every : Delays, again : BOOLEAN, active : BOOLEAN]
View(e) == [id |-> e.id, due |-> e.due, every |-> e.every, again |-> e.again]

\* The timers that a table holds for the program.
HeldTimers(t) == {View(t[i]) : i \in {i \in DOMAIN t : t[i].active}}

\* Every entry has a number of its own, of those given out.
Numbered(t, n) ==
  /\ \A i \in DOMAIN t : t[i].id < n
  /\ \A i, j \in DOMAIN t : t[i].id = t[j].id => i = j

\* The walk's reading of the clock is never ahead of the clock.
TimersInv ==
  /\ nextId \in Nat \ {0} /\ time \in Nat /\ capacity \in Nat
  /\ cursor \in Nat /\ now \in Nat /\ now <= time /\ firing \in Nat
  /\ table \in Seq(Entry) /\ Len(table) <= capacity /\ Numbered(table, nextId)

LEMMA HeldIsPending == Pending = HeldTimers(table)
BY DEF Pending, HeldTimers, View

(***************************************************************************)
(* Compaction.                                                             *)
(***************************************************************************)

\* One step of the compaction: entry i goes behind what has been kept of those before it.
KeptUpTo(t, f, i) ==
  IF i = 0 THEN << >>
  ELSE IF t[i].active THEN Append(f[i-1], t[i]) ELSE f[i-1]

LEMMA CompactionDefined ==
  ASSUME NEW t, Len(t) \in Nat
  PROVE  \E f : (\A i \in 0..Len(t) : f[i] = KeptUpTo(t, f, i)) /\ Compacted(t) = f[Len(t)]
<1> DEFINE n == Len(t)
<1> DEFINE Upto(k) == \E f : f = [i \in 0..k |-> KeptUpTo(t, f, i)]
<1> DEFINE S == {k \in 0..n : Upto(k)}
<1>1. Upto(0)
  <2> DEFINE f == [i \in 0..0 |-> << >>]
  <2>1. \A i \in 0..0 : KeptUpTo(t, f, i) = << >>
    BY DEF KeptUpTo
  <2>2. f = [i \in 0..0 |-> KeptUpTo(t, f, i)]
    BY <2>1
  <2>3. QED
    BY <2>2
<1>2. ASSUME NEW k \in 0..n-1, Upto(k) PROVE Upto(k + 1)
  <2>1. PICK f : f = [i \in 0..k |-> KeptUpTo(t, f, i)]
    BY <1>2
  <2> DEFINE g == [i \in 0..k+1 |-> KeptUpTo(t, f, i)]
  <2>2. \A i \in 0..k : g[i] = f[i]
    BY <2>1
  <2>3. ASSUME NEW i \in 0..k+1 PROVE KeptUpTo(t, g, i) = KeptUpTo(t, f, i)
    <3>1. i # 0 => i - 1 \in 0..k
      OBVIOUS
    <3>2. i # 0 => g[i-1] = f[i-1]
      BY <3>1, <2>2
    <3> HIDE DEF g
    <3>3. QED
      BY <3>2 DEF KeptUpTo
  <2>4. g = [i \in 0..k+1 |-> KeptUpTo(t, g, i)]
    BY <2>3
  <2>5. QED
    BY <2>4
<1> HIDE DEF Upto
<1>3. 0 \in S /\ \A k \in 0..n-1 : k \in S => k + 1 \in S
  BY <1>1, <1>2
<1> HIDE DEF S
<1>4. n \in S
  <2>1. n \in Nat /\ n \in 0..n
    OBVIOUS
  <2> HIDE DEF n
  <2>2. 0..n \subseteq S
    BY <1>3, <2>1, InductionTo
  <2>3. QED
    BY <2>1, <2>2
<1>5. Upto(n)
  BY <1>4 DEF S
<1> DEFINE F == CHOOSE f : f = [i \in 0..n |-> KeptUpTo(t, f, i)]
<1>6. F = [i \in 0..n |-> KeptUpTo(t, F, i)]
  BY <1>5 DEF Upto
<1>7. Compacted(t) = F[n]
  BY DEF Compacted, KeptUpTo
<1> HIDE DEF F
<1>8. QED
  BY <1>6, <1>7

\* Compaction keeps the active entries and no others, each once.
LEMMA CompactionKeeps ==
  ASSUME NEW t \in Seq(Entry), NEW n, Numbered(t, n)
  PROVE  /\ Compacted(t) \in Seq(Entry) /\ Numbered(Compacted(t), n) /\ Len(Compacted(t)) <= Len(t)
         /\ HeldTimers(Compacted(t)) = HeldTimers(t)
         /\ \A j \in DOMAIN Compacted(t) : Compacted(t)[j].active
<1> DEFINE m == Len(t)
<1>1. m \in Nat /\ DOMAIN t = 1..m /\ \A i \in 1..m : t[i] \in Entry
  BY LenProperties, ElementOfSeq
<1>2. PICK f : (\A i \in 0..m : f[i] = KeptUpTo(t, f, i)) /\ Compacted(t) = f[m]
  BY <1>1, CompactionDefined
<1>3. f[0] = << >> /\ \A i \in 1..m : f[i] = IF t[i].active THEN Append(f[i-1], t[i]) ELSE f[i-1]
  BY <1>1, <1>2 DEF KeptUpTo
<1> DEFINE Good(i) ==
      /\ f[i] \in Seq(Entry) /\ Len(f[i]) <= i
      /\ \A j \in 1..Len(f[i]) : \E k \in 1..i : t[k].active /\ f[i][j] = t[k]
      /\ \A k \in 1..i : t[k].active => \E j \in 1..Len(f[i]) : f[i][j] = t[k]
      /\ \A j, k \in 1..Len(f[i]) : f[i][j].id = f[i][k].id => j = k
<1>4. Good(0)
  <2>1. << >> \in Seq(Entry) /\ Len(<< >>) = 0
    BY EmptySeq
  <2>2. QED
    BY <1>3, <2>1
<1>5. ASSUME NEW i \in 0..m-1, Good(i) PROVE Good(i + 1)
  <2>1. i + 1 \in 1..m /\ (i + 1) - 1 = i /\ i \in Nat
    BY <1>1
  <2> DEFINE u == f[i]
  <2> DEFINE v == f[i + 1]
  <2> DEFINE e == t[i + 1]
  <2>2. v = IF e.active THEN Append(u, e) ELSE u
    BY <1>3, <2>1
  <2>3. /\ u \in Seq(Entry) /\ Len(u) <= i /\ Len(u) \in Nat /\ e \in Entry
        /\ \A j \in 1..Len(u) : \E k \in 1..i : t[k].active /\ u[j] = t[k]
        /\ \A k \in 1..i : t[k].active => \E j \in 1..Len(u) : u[j] = t[k]
        /\ \A j, k \in 1..Len(u) : u[j].id = u[k].id => j = k
    BY <1>1, <1>5, <2>1, LenProperties
  <2>4. \A k \in 1..i+1 : k = i + 1 \/ k \in 1..i
    BY <2>1
  <2>5. 1..i \subseteq 1..i+1 /\ i + 1 \in 1..i+1
    BY <2>1
  <2> HIDE DEF u, v
  <2>6. CASE ~ e.active
    <3>1. v = u
      BY <2>2, <2>6
    <3>2. Len(v) <= i + 1
      BY <2>1, <2>3, <3>1
    <3>3. \A k \in 1..i+1 : t[k].active => \E j \in 1..Len(v) : v[j] = t[k]
      BY <2>3, <2>4, <2>6, <3>1
    <3>4. \A j \in 1..Len(v) : \E k \in 1..i+1 : t[k].active /\ v[j] = t[k]
      BY <2>3, <2>5, <3>1
    <3>5. QED
      BY <2>3, <3>1, <3>2, <3>3, <3>4 DEF u, v
  <2>7. CASE e.active
    <3>1. /\ v = Append(u, e) /\ v \in Seq(Entry) /\ Len(v) = Len(u) + 1 /\ v[Len(u) + 1] = e
          /\ \A j \in 1..Len(u) : v[j] = u[j]
      BY <2>2, <2>3, <2>7, AppendProperties
    <3>2. \A j \in 1..Len(v) : j = Len(u) + 1 \/ j \in 1..Len(u)
      BY <2>3, <3>1
    <3>3. 1..Len(u) \subseteq 1..Len(v) /\ Len(u) + 1 \in 1..Len(v)
      BY <2>3, <3>1
    <3>4. Len(v) <= i + 1
      BY <2>1, <2>3, <3>1
    <3>5. ASSUME NEW k \in 1..i+1, t[k].active PROVE \E j \in 1..Len(v) : v[j] = t[k]
      <4>1. CASE k = i + 1
        BY <3>1, <3>3, <4>1
      <4>2. CASE k \in 1..i
        BY <2>3, <3>1, <3>3, <3>5, <4>2
      <4>3. QED
        BY <2>4, <4>1, <4>2
    <3>6. ASSUME NEW j \in 1..Len(v) PROVE \E k \in 1..i+1 : t[k].active /\ v[j] = t[k]
      <4>1. CASE j = Len(u) + 1
        BY <2>5, <2>7, <3>1, <4>1
      <4>2. CASE j \in 1..Len(u)
        BY <2>3, <2>5, <3>1, <4>2
      <4>3. QED
        BY <3>2, <4>1, <4>2
    <3>7. \A j \in 1..Len(u) : u[j].id # e.id
      <4>1. ASSUME NEW j \in 1..Len(u), u[j].id = e.id PROVE FALSE
        <5>1. PICK k \in 1..i : u[j] = t[k]
          BY <2>3
        <5>2. k \in DOMAIN t /\ i + 1 \in DOMAIN t /\ k # i + 1
          BY <1>1, <2>1
        <5>3. QED
          BY <4>1, <5>1, <5>2 DEF Numbered
      <4>2. QED
        BY <4>1
    <3>8. ASSUME NEW j \in 1..Len(v), NEW k \in 1..Len(v), v[j].id = v[k].id PROVE j = k
      <4>1. CASE j = Len(u) + 1
        <5>1. k \in 1..Len(u) => v[k].id # e.id
          BY <3>1, <3>7
        <5>2. QED
          BY <3>1, <3>2, <3>8, <4>1, <5>1
      <4>2. CASE j \in 1..Len(u)
        <5>1. v[j].id # e.id /\ v[j] = u[j]
          BY <3>1, <3>7, <4>2
        <5>2. k \in 1..Len(u) /\ v[k] = u[k]
          BY <3>1, <3>2, <3>8, <5>1
        <5>3. QED
          BY <2>3, <3>8, <4>2, <5>1, <5>2
      <4>3. QED
        BY <3>2, <4>1, <4>2
    <3>9. QED
      BY <3>1, <3>4, <3>5, <3>6, <3>8 DEF u, v
  <2>8. QED
    BY <2>6, <2>7
<1>6. \A i \in 0..m : Good(i)
  <2> HIDE DEF Good
  <2> DEFINE S == {i \in 0..m : Good(i)}
  <2>1. 0 \in S /\ \A k \in 0..m-1 : k \in S => k + 1 \in S
    BY <1>1, <1>4, <1>5
  <2> HIDE DEF S
  <2>2. 0..m \subseteq S
    BY <1>1, <2>1, InductionTo
  <2>3. QED
    BY <2>2 DEF S
<1> DEFINE w == Compacted(t)
<1>7. /\ w \in Seq(Entry) /\ Len(w) <= m
      /\ \A j \in 1..Len(w) : \E k \in 1..m : t[k].active /\ w[j] = t[k]
      /\ \A k \in 1..m : t[k].active => \E j \in 1..Len(w) : w[j] = t[k]
      /\ \A j, k \in 1..Len(w) : w[j].id = w[k].id => j = k
  <2>1. m \in 0..m
    BY <1>1
  <2>2. w = f[m]
    BY <1>2
  <2> HIDE DEF w
  <2>3. QED
    BY <1>6, <2>1, <2>2
<1> HIDE DEF w
<1>8. DOMAIN w = 1..Len(w)
  BY <1>7, LenProperties
<1>9. \A j \in DOMAIN w : w[j].active
  BY <1>7, <1>8
<1>10. Numbered(w, n)
  BY <1>1, <1>7, <1>8 DEF Numbered
<1>11. HeldTimers(w) = HeldTimers(t)
  <2>1. ASSUME NEW x \in HeldTimers(w) PROVE x \in HeldTimers(t)
    <3>1. PICK j \in 1..Len(w) : x = View(w[j])
      BY <1>8, <2>1 DEF HeldTimers
    <3>2. PICK k \in 1..m : t[k].active /\ w[j] = t[k]
      BY <1>7
    <3>3. QED
      BY <1>1, <3>1, <3>2 DEF HeldTimers
  <2>2. ASSUME NEW x \in HeldTimers(t) PROVE x \in HeldTimers(w)
    <3>1. PICK k \in 1..m : t[k].active /\ x = View(t[k])
      BY <1>1, <2>2 DEF HeldTimers
    <3>2. PICK j \in 1..Len(w) : w[j] = t[k]
      BY <1>7, <3>1
    <3>3. QED
      BY <1>8, <3>1, <3>2 DEF HeldTimers
  <2>3. QED
    BY <2>1, <2>2
<1>12. QED
  BY <1>7, <1>9, <1>10, <1>11 DEF w

(***************************************************************************)
(* The room that the timers take.                                          *)
(***************************************************************************)

LEMMA TimerTableFacts ==
  ASSUME NEW t \in Seq(Entry)
  PROVE  Len(t) \in Nat /\ DOMAIN t = 1..Len(t) /\ \A i \in 1..Len(t) : t[i] \in Entry
BY LenProperties, ElementOfSeq

\* A table holds no more timers than it has entries, and as many if all are active.
LEMMA HeldCount ==
  ASSUME NEW t \in Seq(Entry), NEW n, Numbered(t, n)
  PROVE  /\ IsFiniteSet(HeldTimers(t)) /\ Cardinality(HeldTimers(t)) \in Nat /\ Cardinality(HeldTimers(t)) <= Len(t)
         /\ (\A i \in DOMAIN t : t[i].active) => Cardinality(HeldTimers(t)) = Len(t)
<1> DEFINE A == {i \in DOMAIN t : t[i].active}
<1> DEFINE f == [i \in A |-> View(t[i])]
<1>1. Len(t) \in Nat /\ DOMAIN t = 1..Len(t) /\ \A i \in 1..Len(t) : t[i] \in Entry
  BY TimerTableFacts
<1>2. IsFiniteSet(1..Len(t)) /\ Cardinality(1..Len(t)) = Len(t)
  <2>1. \A k \in Nat : IsFiniteSet(1..k) /\ Cardinality(1..k) = k
    <3>1. ASSUME NEW m \in Nat PROVE IsFiniteSet(1..m) /\ Cardinality(1..m) = IF 1 > m THEN 0 ELSE m - 1 + 1
      BY FS_Interval
    <3>2. \A m \in Nat : (IF 1 > m THEN 0 ELSE m - 1 + 1) = m
      OBVIOUS
    <3>3. QED
      BY <3>1, <3>2
  <2>2. QED
    BY <1>1, <2>1
<1>3. IsFiniteSet(A) /\ Cardinality(A) <= Len(t) /\ Cardinality(A) \in Nat
  BY <1>1, <1>2, FS_Subset, FS_CardinalityType
<1>4. f \in Surjection(A, HeldTimers(t))
  BY DEF Surjection, HeldTimers
<1>5. f \in Injection(A, HeldTimers(t))
  <2>1. \A i, j \in A : f[i] = f[j] => t[i].id = t[j].id
    BY DEF View
  <2>2. \A i, j \in A : f[i] = f[j] => i = j
    BY <2>1 DEF Numbered
  <2>3. f \in [A -> HeldTimers(t)]
    BY DEF HeldTimers
  <2> HIDE DEF f
  <2>4. QED
    BY <2>2, <2>3 DEF Injection, IsInjective
<1> HIDE DEF f
<1>6. IsFiniteSet(HeldTimers(t)) /\ Cardinality(HeldTimers(t)) = Cardinality(A)
  BY <1>3, <1>4, <1>5, FS_Surjection
<1>7. (\A i \in DOMAIN t : t[i].active) => A = 1..Len(t)
  BY <1>1
<1>8. QED
  BY <1>2, <1>3, <1>6, <1>7

(***************************************************************************)
(* Steps of the table are steps of the promise.                            *)
(***************************************************************************)

\* The constants as festina_add_timer has them: delays are not negative, the first capacity is 8.
Sensible == Delays \subseteq Nat /\ FirstCapacity \in Nat \ {0}

LEMMA HeldAppend ==
  ASSUME NEW t \in Seq(Entry), NEW e \in Entry, e.active, NEW n \in Nat, Numbered(t, n), e.id = n
  PROVE  /\ Append(t, e) \in Seq(Entry) /\ Len(Append(t, e)) = Len(t) + 1
         /\ Numbered(Append(t, e), n + 1) /\ HeldTimers(Append(t, e)) = HeldTimers(t) \cup {View(e)}
<1> DEFINE u == Append(t, e)
<1>1. Len(t) \in Nat /\ DOMAIN t = 1..Len(t) /\ \A i \in 1..Len(t) : t[i] \in Entry
  BY TimerTableFacts
<1>2. u \in Seq(Entry) /\ Len(u) = Len(t) + 1 /\ u[Len(t) + 1] = e /\ \A i \in 1..Len(t) : u[i] = t[i]
  BY AppendProperties
<1>3. DOMAIN u = 1..Len(t)+1
  BY <1>2, LenProperties
<1> HIDE DEF u
<1>4. \A i \in DOMAIN u : i = Len(t) + 1 \/ i \in DOMAIN t
  BY <1>1, <1>3
<1>5. Len(t) + 1 \in DOMAIN u /\ DOMAIN t \subseteq DOMAIN u
  BY <1>1, <1>3
<1>6. Numbered(u, n + 1)
  <2>1. \A i \in DOMAIN t : t[i].id < n /\ t[i].id \in Nat /\ u[i] = t[i]
    BY <1>1, <1>2 DEF Numbered, Entry
  <2>2. \A i \in DOMAIN u : u[i].id < n + 1
    BY <1>2, <1>4, <2>1
  <2>3. \A i \in DOMAIN t : u[i].id # n
    BY <2>1
  <2>4. \A i, j \in DOMAIN u : u[i].id = u[j].id => i = j
    BY <1>2, <1>4, <2>1, <2>3 DEF Numbered
  <2>5. QED
    BY <2>2, <2>4 DEF Numbered
<1>7. HeldTimers(u) = HeldTimers(t) \cup {View(e)}
  <2>1. ASSUME NEW x \in HeldTimers(u) PROVE x \in HeldTimers(t) \cup {View(e)}
    <3>1. PICK i \in DOMAIN u : u[i].active /\ x = View(u[i])
      BY <2>1 DEF HeldTimers
    <3>2. QED
      BY <1>1, <1>2, <1>4, <3>1 DEF HeldTimers
  <2>2. ASSUME NEW x \in HeldTimers(t) PROVE x \in HeldTimers(u)
    <3>1. PICK i \in DOMAIN t : t[i].active /\ x = View(t[i])
      BY <2>2 DEF HeldTimers
    <3>2. u[i] = t[i] /\ i \in DOMAIN u
      BY <1>1, <1>2, <1>5, <3>1
    <3>3. QED
      BY <3>1, <3>2 DEF HeldTimers
  <2>3. View(e) \in HeldTimers(u)
    BY <1>2, <1>5 DEF HeldTimers
  <2>4. QED
    BY <2>1, <2>2, <2>3
<1>8. QED
  BY <1>2, <1>6, <1>7 DEF u

\* Entry k changes and keeps its number.
LEMMA HeldUpdate ==
  ASSUME NEW t \in Seq(Entry), NEW n, Numbered(t, n), NEW k \in DOMAIN t, t[k].active,
         NEW e \in Entry, e.id = t[k].id
  PROVE  /\ [t EXCEPT ![k] = e] \in Seq(Entry) /\ Len([t EXCEPT ![k] = e]) = Len(t)
         /\ Numbered([t EXCEPT ![k] = e], n) /\ View(t[k]) \in HeldTimers(t)
         /\ HeldTimers([t EXCEPT ![k] = e]) = (HeldTimers(t) \ {View(t[k])}) \cup (IF e.active THEN {View(e)} ELSE {})
<1> DEFINE u == [t EXCEPT ![k] = e]
<1>1. u \in Seq(Entry) /\ Len(u) = Len(t) /\ DOMAIN u = DOMAIN t
  BY ExceptSeq
<1>2. u[k] = e /\ \A i \in DOMAIN t : i # k => u[i] = t[i]
  OBVIOUS
<1> HIDE DEF u
<1>3. \A i \in DOMAIN t : u[i].id = t[i].id
  BY <1>2
<1>4. Numbered(u, n)
  BY <1>1, <1>3 DEF Numbered
<1>5. View(t[k]) \in HeldTimers(t)
  BY DEF HeldTimers
<1>6. \A i \in DOMAIN t : i # k => View(t[i]) # View(t[k])
  <2>1. \A i \in DOMAIN t : View(t[i]) = View(t[k]) => t[i].id = t[k].id
    BY DEF View
  <2>2. QED
    BY <2>1 DEF Numbered
<1>7. ASSUME NEW x \in HeldTimers(u) PROVE x \in (HeldTimers(t) \ {View(t[k])}) \cup (IF e.active THEN {View(e)} ELSE {})
  <2>1. PICK i \in DOMAIN t : u[i].active /\ x = View(u[i])
    BY <1>1, <1>7 DEF HeldTimers
  <2>2. CASE i = k
    BY <1>2, <2>1, <2>2
  <2>3. CASE i # k
    <3>1. t[i].active /\ x = View(t[i]) /\ x # View(t[k])
      BY <1>2, <1>6, <2>1, <2>3
    <3>2. QED
      BY <3>1 DEF HeldTimers
  <2>4. QED
    BY <2>2, <2>3
<1>8. ASSUME NEW x \in HeldTimers(t), x # View(t[k]) PROVE x \in HeldTimers(u)
  <2>1. PICK i \in DOMAIN t : t[i].active /\ x = View(t[i])
    BY <1>8 DEF HeldTimers
  <2>2. i # k /\ u[i] = t[i]
    BY <1>2, <1>8, <2>1
  <2>3. QED
    BY <1>1, <2>1, <2>2 DEF HeldTimers
<1>9. e.active => View(e) \in HeldTimers(u)
  BY <1>1, <1>2 DEF HeldTimers
<1>10. QED
  BY <1>1, <1>4, <1>5, <1>7, <1>8, <1>9 DEF u

LEMMA InitHolds == ASSUME TimersInit PROVE TimersInv /\ Promise!Init
<1>1. << >> \in Seq(Entry) /\ Len(<< >>) = 0 /\ DOMAIN << >> = {}
  BY EmptySeq
<1>2. TimersInv
  BY <1>1 DEF TimersInit, TimersInv, Numbered
<1>3. Pending = {}
  BY <1>1, HeldIsPending DEF TimersInit, HeldTimers
<1>4. QED
  BY <1>2, <1>3 DEF TimersInit, Promise!Init

LEMMA AddTimerStep ==
  ASSUME Sensible, TimersInv, NEW delay \in Delays, NEW interval \in BOOLEAN, AddTimer(delay, interval)
  PROVE  TimersInv' /\ Promise!Set(delay, interval)
<1> DEFINE kept == IF Len(table) = capacity THEN Compacted(table) ELSE table
<1> DEFINE e == [id |-> nextId, due |-> time + delay, every |-> delay, again |-> interval, active |-> TRUE]
<1>1. /\ nextId \in Nat \ {0} /\ time \in Nat /\ capacity \in Nat /\ delay \in Nat
      /\ table \in Seq(Entry) /\ Len(table) <= capacity /\ Len(table) \in Nat /\ Numbered(table, nextId)
  BY TimerTableFacts DEF TimersInv, Sensible
<1>2. /\ capacity' = (IF Len(kept) = capacity THEN Doubled ELSE capacity)
      /\ table' = Append(kept, e) /\ nextId' = nextId + 1
      /\ UNCHANGED <<time, cursor, now, firing>>
  BY DEF AddTimer, walk
<1>3. e \in Entry /\ e.active /\ e.id = nextId
  BY <1>1 DEF Entry
<1>4. View(e) = [id |-> nextId, due |-> time + delay, every |-> delay, again |-> interval]
  BY DEF View
<1>5. /\ kept \in Seq(Entry) /\ Numbered(kept, nextId) /\ Len(kept) <= Len(table) /\ HeldTimers(kept) = HeldTimers(table)
      /\ Len(table) = capacity => \A j \in DOMAIN kept : kept[j].active
  BY <1>1, CompactionKeeps
<1> HIDE DEF kept, e
<1>6. Len(kept) \in Nat /\ nextId \in Nat
  BY <1>1, <1>5, TimerTableFacts
<1>7. /\ table' \in Seq(Entry) /\ Len(table') = Len(kept) + 1
      /\ Numbered(table', nextId + 1) /\ HeldTimers(table') = HeldTimers(table) \cup {View(e)}
  BY <1>2, <1>3, <1>5, <1>6, HeldAppend
<1>8. Doubled \in Nat /\ capacity + 1 <= Doubled
  BY <1>1 DEF Doubled, Sensible
<1>9. capacity' \in Nat /\ Len(table') <= capacity'
  <2>1. CASE Len(kept) = capacity
    BY <1>2, <1>7, <1>8, <2>1
  <2>2. CASE Len(kept) # capacity
    BY <1>1, <1>2, <1>5, <1>6, <1>7, <2>2
  <2>3. QED
    BY <2>1, <2>2
<1>10. TimersInv'
  BY <1>1, <1>2, <1>7, <1>9 DEF TimersInv
<1>11. /\ Cardinality(HeldTimers(table)) \in Nat /\ Cardinality(HeldTimers(table)) <= Len(kept)
       /\ Len(table) = capacity => Cardinality(HeldTimers(table)) = Len(kept)
  BY <1>5, HeldCount
<1>12. capacity' = IF Cardinality(HeldTimers(table)) < capacity THEN capacity ELSE Doubled
  <2>1. CASE Len(table) = capacity
    BY <1>1, <1>2, <1>5, <1>6, <1>11, <2>1
  <2>2. CASE Len(table) # capacity
    BY <1>1, <1>2, <1>5, <1>6, <1>11, <2>2
  <2>3. QED
    BY <2>1, <2>2
<1>13. nextId' - 1 = (nextId - 1) + 1 /\ nextId' - 1 = nextId
  BY <1>1, <1>2
<1>14. Pending = HeldTimers(table) /\ Pending' = HeldTimers(table')
  BY HeldIsPending DEF Pending, HeldTimers, View
<1>15. Pending' = Pending \cup {[id |-> nextId' - 1, due |-> time + delay, every |-> delay, again |-> interval]}
  BY <1>4, <1>7, <1>13, <1>14
<1>16. capacity' = IF Cardinality(Pending) < capacity THEN capacity ELSE IF capacity = 0 THEN FirstCapacity ELSE 2 * capacity
  BY <1>12, <1>14 DEF Doubled
<1>17. (nextId - 1)' = nextId' - 1
  OBVIOUS
<1>18. Promise!Set(delay, interval)
  <2>1. Promise!Cardinality(Pending) = Cardinality(Pending)
    BY DEF Promise!Cardinality, Cardinality
  <2>2. QED
    BY <1>2, <1>13, <1>15, <1>16, <1>17, <2>1 DEF Promise!Set
<1>19. QED
  BY <1>10, <1>18

LEMMA ClearTimerStep ==
  ASSUME TimersInv, NEW id \in Nat, ClearTimer(id)
  PROVE  TimersInv' /\ (Pending' = Pending \/ \E t \in Pending : Promise!Clear(t))
<1>1. /\ table \in Seq(Entry) /\ Len(table) <= capacity /\ Numbered(table, nextId)
      /\ DOMAIN table = 1..Len(table) /\ Len(table) \in Nat /\ \A i \in 1..Len(table) : table[i] \in Entry
  BY TimerTableFacts DEF TimersInv
<1>2. /\ table' = [i \in DOMAIN table |-> IF table[i].id = id THEN [table[i] EXCEPT !.active = FALSE] ELSE table[i]]
      /\ UNCHANGED <<capacity, nextId, time, cursor, now, firing>>
  BY DEF ClearTimer, walk
<1>3. Pending = HeldTimers(table) /\ Pending' = HeldTimers(table')
  BY HeldIsPending DEF Pending, HeldTimers, View
<1>4. /\ DOMAIN table' = 1..Len(table)
      /\ \A i \in 1..Len(table) : table'[i] = IF table[i].id = id THEN [table[i] EXCEPT !.active = FALSE] ELSE table[i]
  BY <1>1, <1>2
<1>5. \A i \in 1..Len(table) : /\ table'[i] \in Entry /\ table'[i].id = table[i].id /\ View(table'[i]) = View(table[i])
                               /\ table'[i].active <=> table[i].active /\ table[i].id # id
  <2>1. ASSUME NEW i \in 1..Len(table)
        PROVE  /\ table'[i] \in Entry /\ table'[i].id = table[i].id /\ View(table'[i]) = View(table[i])
               /\ table'[i].active <=> table[i].active /\ table[i].id # id
    BY <1>1, <1>4 DEF Entry, View
  <2>2. QED
    BY <2>1
<1>6. table' \in Seq(Entry) /\ Len(table') = Len(table)
  <2>1. table' \in [1..Len(table) -> Entry]
    BY <1>1, <1>2, <1>5
  <2>2. QED
    BY <1>1, <2>1
<1>7. Numbered(table', nextId)
  BY <1>1, <1>4, <1>5 DEF Numbered
<1>8. TimersInv'
  BY <1>2, <1>6, <1>7 DEF TimersInv
<1>9. HeldTimers(table') = {x \in HeldTimers(table) : x.id # id}
  <2>1. \A i \in 1..Len(table) : View(table[i]).id = table[i].id
    BY DEF View
  <2>2. ASSUME NEW x \in HeldTimers(table') PROVE x \in HeldTimers(table) /\ x.id # id
    <3>1. PICK i \in 1..Len(table) : table'[i].active /\ x = View(table'[i])
      BY <1>4, <2>2 DEF HeldTimers
    <3>2. QED
      BY <1>1, <1>5, <2>1, <3>1 DEF HeldTimers
  <2>3. ASSUME NEW x \in HeldTimers(table), x.id # id PROVE x \in HeldTimers(table')
    <3>1. PICK i \in 1..Len(table) : table[i].active /\ x = View(table[i])
      BY <1>1, <2>3 DEF HeldTimers
    <3>2. table'[i].active /\ x = View(table'[i])
      BY <1>5, <2>1, <2>3, <3>1
    <3>3. QED
      BY <1>4, <3>2 DEF HeldTimers
  <2>4. QED
    BY <2>2, <2>3
<1>10. \A x, y \in HeldTimers(table) : x.id = y.id => x = y
  <2>1. ASSUME NEW x \in HeldTimers(table), NEW y \in HeldTimers(table), x.id = y.id PROVE x = y
    <3>1. PICK i \in DOMAIN table : x = View(table[i])
      BY DEF HeldTimers
    <3>2. PICK j \in DOMAIN table : y = View(table[j])
      BY DEF HeldTimers
    <3>3. table[i].id = table[j].id
      BY <2>1, <3>1, <3>2 DEF View
    <3>4. QED
      BY <1>1, <3>1, <3>2, <3>3 DEF Numbered
  <2>2. QED
    BY <2>1
<1>11. CASE \A x \in Pending : x.id # id
  BY <1>3, <1>8, <1>9, <1>11
<1>12. ASSUME NEW t \in Pending, t.id = id PROVE Promise!Clear(t)
  <2>1. Pending' = Pending \ {t}
    BY <1>3, <1>9, <1>10, <1>12
  <2>2. QED
    BY <1>2, <2>1 DEF Promise!Clear
<1>13. QED
  BY <1>8, <1>11, <1>12

\* The walk comes to entry `cursor' and fires it.
LEMMA FireStep ==
  ASSUME Sensible, TimersInv, cursor > 0, firing = 0, cursor <= Len(table), Due(table[cursor]),
         table' = [table EXCEPT ![cursor] = Fired(@)], firing' = table[cursor].id,
         UNCHANGED <<cursor, now, capacity, nextId, time>>
  PROVE  TimersInv' /\ \E t \in Pending : Promise!Fire(t)
<1> DEFINE d == table[cursor]
<1> DEFINE e == Fired(d)
<1> DEFINE t == View(d)
<1>1. /\ table \in Seq(Entry) /\ Numbered(table, nextId) /\ cursor \in DOMAIN table /\ d \in Entry /\ d.active
      /\ now \in Nat /\ time \in Nat /\ now <= time /\ d.due <= now /\ d.due \in Nat /\ d.every \in Nat
  <2>1. /\ table \in Seq(Entry) /\ DOMAIN table = 1..Len(table) /\ Len(table) \in Nat
        /\ \A i \in 1..Len(table) : table[i] \in Entry
    BY TimerTableFacts DEF TimersInv
  <2>2. cursor \in 1..Len(table)
    BY <2>1 DEF TimersInv
  <2>3. d \in Entry
    BY <2>1, <2>2
  <2>4. QED
    BY <2>1, <2>2, <2>3 DEF TimersInv, Due, Entry, Sensible
<1>2. now + d.every \in Nat
  BY <1>1
<1>3. /\ e \in Entry /\ e.id = d.id /\ (e.active <=> d.again)
      /\ d.again => View(e) = [t EXCEPT !.due = now + t.every]
  <2> HIDE DEF d
  <2>1. CASE d.again
    <3>1. e = [d EXCEPT !.due = now + d.every]
      BY <2>1 DEF Fired
    <3>2. e \in Entry /\ e.id = d.id /\ e.active
      BY <1>1, <1>2, <3>1 DEF Entry
    <3>3. e.due = now + d.every /\ e.every = d.every /\ e.again = d.again
      BY <1>1, <3>1 DEF Entry
    <3>4. View(e) = [t EXCEPT !.due = now + t.every]
      BY <3>2, <3>3 DEF View
    <3>5. QED
      BY <2>1, <3>2, <3>4
  <2>2. CASE ~ d.again
    <3>1. e = [d EXCEPT !.active = FALSE]
      BY <2>2 DEF Fired
    <3>2. QED
      BY <1>1, <2>2, <3>1 DEF Entry
  <2>3. QED
    BY <2>1, <2>2
<1>4. t.id = d.id /\ t.due = d.due /\ t.again = d.again /\ t.every = d.every
  BY DEF View
<1>5. table' = [table EXCEPT ![cursor] = e] /\ firing' = d.id
  OBVIOUS
<1> HIDE DEF d, e, t
<1>6. d = table[cursor] /\ t = View(table[cursor])
  BY DEF d, t
<1>7. /\ table' \in Seq(Entry) /\ Len(table') = Len(table) /\ Numbered(table', nextId) /\ t \in HeldTimers(table)
      /\ HeldTimers(table') = (HeldTimers(table) \ {t}) \cup (IF e.active THEN {View(e)} ELSE {})
  <2>1. cursor \in DOMAIN table /\ table[cursor].active /\ e \in Entry /\ e.id = table[cursor].id
    BY <1>1, <1>3, <1>6
  <2>2. /\ [table EXCEPT ![cursor] = e] \in Seq(Entry) /\ Len([table EXCEPT ![cursor] = e]) = Len(table)
        /\ Numbered([table EXCEPT ![cursor] = e], nextId) /\ View(table[cursor]) \in HeldTimers(table)
        /\ HeldTimers([table EXCEPT ![cursor] = e]) = (HeldTimers(table) \ {View(table[cursor])}) \cup (IF e.active THEN {View(e)} ELSE {})
    BY <1>1, <2>1, HeldUpdate
  <2>3. QED
    BY <1>5, <1>6, <2>2
<1>8. TimersInv'
  BY <1>1, <1>5, <1>7 DEF TimersInv, Entry
<1>9. Pending = HeldTimers(table) /\ Pending' = HeldTimers(table')
  BY HeldIsPending DEF Pending, HeldTimers, View
<1>10. Pending' = (Pending \ {t}) \cup (IF t.again THEN {[t EXCEPT !.due = now + t.every]} ELSE {})
  BY <1>3, <1>4, <1>7, <1>9
<1>11. now \in t.due..time /\ t.due <= time
  BY <1>1, <1>4
<1>12. Promise!Fire(t)
  BY <1>4, <1>5, <1>10, <1>11 DEF Promise!Fire
<1>13. QED
  BY <1>7, <1>8, <1>9, <1>12

LEMMA OtherStep ==
  ASSUME TimersInv, UNCHANGED <<table, capacity, nextId>>, cursor' \in Nat, now' \in Nat, now' <= time', firing' \in Nat,
         time' \in Nat
  PROVE  TimersInv' /\ Pending' = Pending /\ (nextId - 1)' = nextId - 1
BY DEF TimersInv, Pending

LEMMA NextHolds ==
  ASSUME Sensible, TimersInv, [TimersNext]_timerVars
  PROVE  TimersInv' /\ [Promise!Next]_<<Pending, nextId - 1, time, firing, capacity>>
<1>1. nextId \in Nat /\ time \in Nat /\ cursor \in Nat /\ now \in Nat /\ now <= time /\ firing \in Nat
  BY DEF TimersInv
<1>2. CASE UNCHANGED timerVars
  <2>1. UNCHANGED <<table, capacity, nextId, time, cursor, now, firing>>
    BY <1>2 DEF timerVars, walk
  <2>2. QED
    BY <1>1, <2>1, OtherStep
<1>3. ASSUME NEW delay \in Delays, NEW interval \in BOOLEAN, AddTimer(delay, interval)
      PROVE  TimersInv' /\ Promise!Next
  BY <1>3, AddTimerStep DEF Promise!Next
<1>4. ASSUME NEW id \in 1..MaxTimers, id < nextId, ClearTimer(id)
      PROVE  TimersInv' /\ [Promise!Next]_<<Pending, nextId - 1, time, firing, capacity>>
  <2>1. TimersInv' /\ (Pending' = Pending \/ \E t \in Pending : Promise!Clear(t))
    BY <1>4, ClearTimerStep
  <2>2. UNCHANGED <<capacity, nextId, time, firing>>
    BY <1>4 DEF ClearTimer, walk
  <2>3. QED
    BY <2>1, <2>2 DEF Promise!Next
<1>5. CASE StartWalk
  <2>1. /\ cursor' = 1 /\ now' = time /\ UNCHANGED <<table, capacity, nextId, time, firing>>
    BY <1>5 DEF StartWalk
  <2>2. QED
    BY <1>1, <2>1, OtherStep
<1>6. CASE WalkStep
  <2>1. cursor > 0 /\ firing = 0 /\ UNCHANGED <<capacity, nextId, time>>
    BY <1>6 DEF WalkStep
  <2>2. CASE cursor > Len(table)
    <3>1. cursor' = 0 /\ now' = 0 /\ UNCHANGED <<table, firing>>
      BY <1>6, <2>2 DEF WalkStep
    <3>2. QED
      BY <1>1, <2>1, <3>1, OtherStep
  <2>3. CASE ~ (cursor > Len(table)) /\ ~ Due(table[cursor])
    <3>1. cursor' = cursor + 1 /\ UNCHANGED <<table, now, firing>>
      BY <1>6, <2>3 DEF WalkStep
    <3>2. QED
      BY <1>1, <2>1, <3>1, OtherStep
  <2>4. CASE ~ (cursor > Len(table)) /\ Due(table[cursor])
    <3>1. table' = [table EXCEPT ![cursor] = Fired(@)] /\ firing' = table[cursor].id /\ UNCHANGED <<cursor, now>>
      BY <1>6, <2>4 DEF WalkStep
    <3>2. cursor <= Len(table)
      <4>1. Len(table) \in Nat
        BY TimerTableFacts DEF TimersInv
      <4>2. QED
        BY <1>1, <2>4, <4>1
    <3>3. TimersInv' /\ \E t \in Pending : Promise!Fire(t)
      BY <2>1, <2>4, <3>1, <3>2, FireStep
    <3>4. QED
      BY <3>3 DEF Promise!Next
  <2>5. QED
    BY <2>2, <2>3, <2>4
<1>7. CASE CallbackReturns
  <2>1. firing' = 0 /\ cursor' = cursor + 1 /\ now' = time /\ UNCHANGED <<table, capacity, nextId, time>>
    BY <1>7 DEF CallbackReturns
  <2>2. TimersInv' /\ Pending' = Pending /\ (nextId - 1)' = nextId - 1
    BY <1>1, <2>1, OtherStep
  <2>3. Promise!Return
    BY <2>1, <2>2 DEF Promise!Return
  <2>4. QED
    BY <2>2, <2>3 DEF Promise!Next
<1>8. CASE TimePasses
  <2>1. time' = time + 1 /\ UNCHANGED <<table, capacity, nextId, cursor, now, firing>>
    BY <1>8 DEF TimePasses, walk
  <2>2. TimersInv' /\ Pending' = Pending /\ (nextId - 1)' = nextId - 1
    BY <1>1, <2>1, OtherStep
  <2>3. Promise!Tick
    BY <2>1, <2>2 DEF Promise!Tick
  <2>4. QED
    BY <2>2, <2>3 DEF Promise!Next
<1>9. QED
  BY <1>2, <1>3, <1>4, <1>5, <1>6, <1>7, <1>8 DEF TimersNext

\* Whatever callbacks set and clear while the table is walked, and however often it is
\* compacted or doubled under the walk, no timer is lost, doubled, fired early, fired after it
\* was cleared, or fired twice for one setTimeout; and the table grows only when all it has
\* room for is alive.
THEOREM TimersImplementPromise ==
  ASSUME Delays \subseteq Nat, FirstCapacity \in Nat \ {0}
  PROVE  TimersSpec => TimersKept
<1>1. Sensible
  BY DEF Sensible
<1>2. TimersInit => TimersInv /\ Promise!Init
  BY InitHolds
<1>3. TimersInv /\ [TimersNext]_timerVars => TimersInv' /\ [Promise!Next]_<<Pending, nextId - 1, time, firing, capacity>>
  BY <1>1, NextHolds
<1>4. QED
  BY <1>2, <1>3, PTL DEF TimersSpec, TimersKept, Promise!Spec

-----------------------------------------------------------------------------
(***************************************************************************)
(* Arithmetic of the probe.                                                *)
(***************************************************************************)

LEMMA DivMod ==
  ASSUME NEW n \in Nat \ {0}, NEW a \in Int
  PROVE  a % n \in 0..n-1 /\ a \div n \in Int /\ a = n * (a \div n) + (a % n)
OBVIOUS

LEMMA SmallMultiple ==
  ASSUME NEW n \in Nat \ {0}, NEW k \in Int, NEW r \in 0..n-1, NEW s \in 0..n-1, n * k = r - s
  PROVE  r = s
<1>1. -n < n * k /\ n * k < n
  OBVIOUS
<1>2. k >= 1 => n * k >= n
  OBVIOUS
<1>3. k <= -1 => n * k <= -n
  OBVIOUS
<1>4. k = 0
  BY <1>1, <1>2, <1>3
<1>5. n * k = 0
  BY <1>4
<1>6. QED
  BY <1>5

\* A probe visits no bucket twice.
LEMMA ProbeInjective ==
  ASSUME NEW n \in Nat \ {0}, NEW h \in Nat, NEW d \in 0..n-1, NEW e \in 0..n-1,
         (h + d) % n = (h + e) % n
  PROVE  d = e
<1> DEFINE q == (h + d) \div n
<1> DEFINE p == (h + e) \div n
<1> DEFINE r == (h + d) % n
<1>1. q \in Int /\ r \in 0..n-1 /\ h + d = n * q + r
  BY DivMod
<1>2. r = (h + e) % n
  OBVIOUS
<1>3. p \in Int /\ h + e = n * p + ((h + e) % n)
  BY DivMod
<1>4. h + e = n * p + r
  BY <1>2, <1>3
<1> HIDE DEF p, q, r
<1>5. n * (q - p) = n * q - n * p
  BY <1>1, <1>3
<1>6. n * (q - p) = d - e
  BY <1>1, <1>3, <1>4, <1>5
<1>7. q - p \in Int
  BY <1>1, <1>3
<1>8. QED
  BY <1>6, <1>7, SmallMultiple

\* The distance from a bucket back to where the probe begins.
LEMMA ProbeReaches ==
  ASSUME NEW n \in Nat \ {0}, NEW h \in Nat, NEW i \in 0..n-1
  PROVE  (i - h) % n \in 0..n-1 /\ (h + ((i - h) % n)) % n = i
OBVIOUS

LEMMA ProbeDistance ==
  ASSUME NEW n \in Nat \ {0}, NEW h \in Nat, NEW d \in 0..n-1
  PROVE  (h + d) % n \in 0..n-1 /\ (((h + d) % n) - h) % n = d
<1>1. (h + d) % n \in 0..n-1
  BY DivMod
<1> DEFINE i == (h + d) % n
<1> DEFINE e == (i - h) % n
<1>2. e \in 0..n-1 /\ (h + e) % n = i
  BY <1>1, ProbeReaches
<1> HIDE DEF e
<1>3. e = d
  BY <1>2, ProbeInjective
<1>4. QED
  BY <1>1, <1>3 DEF e

LEMMA IntervalCount ==
  ASSUME NEW n \in Nat PROVE IsFiniteSet(0..n-1) /\ Cardinality(0..n-1) = n
<1>1. 0 \in Int /\ n-1 \in Int
  OBVIOUS
<1>2. IsFiniteSet(0..n-1) /\ Cardinality(0..n-1) = IF 0 > n-1 THEN 0 ELSE (n-1) - 0 + 1
  BY <1>1, FS_Interval
<1>3. (IF 0 > n-1 THEN 0 ELSE (n-1) - 0 + 1) = n
  OBVIOUS
<1>4. QED
  BY <1>2, <1>3

(***************************************************************************)
(* The map: what its table holds, and where.                               *)
(***************************************************************************)

Bucket == [key : Key \cup {Empty, Tombstone}, value : Value \cup {0}]

Table(m) ==
  m \in [count : Int, entries : [0..m.capacity-1 -> Bucket], capacity : Nat, tombstones : Int]

Tombs(m) == {i \in DOMAIN m.entries : m.entries[i].key = Tombstone}
Pairs(m) == {<<m.entries[i].key, m.entries[i].value>> : i \in Entries(m)}

\* The buckets a probe for the key at i passes before it comes to i.
Distance(m, i) == (i - Hash[m.entries[i].key]) % m.capacity

\* No key is twice in the table, and none lies beyond a bucket of its probe that was never
\* used.
Sound(m) ==
  /\ \A i, j \in Entries(m) : m.entries[i].key = m.entries[j].key => i = j
  /\ \A i \in Entries(m) : \A e \in 0..Distance(m, i)-1 :
       m.entries[At(m, m.entries[i].key, e)].key # Empty

\* The counters of the header count, and some bucket was never used.
Counted(m) ==
  /\ m.count = Cardinality(Entries(m)) /\ m.tombstones = Cardinality(Tombs(m))
  /\ m.capacity > 0 => m.count + m.tombstones < m.capacity

Good(m) == Table(m) /\ Sound(m) /\ Counted(m)

LEMMA TableFacts ==
  ASSUME NEW m, Table(m)
  PROVE  /\ m.capacity \in Nat /\ m.count \in Int /\ m.tombstones \in Int
         /\ m.entries \in [0..m.capacity-1 -> Bucket] /\ DOMAIN m.entries = 0..m.capacity-1
         /\ \A i \in 0..m.capacity-1 : /\ m.entries[i] \in Bucket
                                       /\ m.entries[i].key \in Key \cup {Empty, Tombstone}
         /\ Entries(m) = {i \in 0..m.capacity-1 : m.entries[i].key \in Key}
         /\ Tombs(m) = {i \in 0..m.capacity-1 : m.entries[i].key = Tombstone}
<1>1. /\ m.capacity \in Nat /\ m.count \in Int /\ m.tombstones \in Int
      /\ m.entries \in [0..m.capacity-1 -> Bucket]
  BY DEF Table
<1>2. DOMAIN m.entries = 0..m.capacity-1 /\ \A i \in 0..m.capacity-1 : m.entries[i] \in Bucket
  BY <1>1
<1>3. \A i \in 0..m.capacity-1 : m.entries[i].key \in Key \cup {Empty, Tombstone}
  BY <1>2 DEF Bucket
<1>4. Entries(m) = {i \in 0..m.capacity-1 : m.entries[i].key \in Key}
  BY <1>2, <1>3, MapAssumption DEF Entries, Live
<1>5. QED
  BY <1>1, <1>2, <1>3, <1>4 DEF Tombs

LEMMA TableFinite ==
  ASSUME NEW m, Table(m)
  PROVE  /\ IsFiniteSet(Entries(m)) /\ IsFiniteSet(Tombs(m))
         /\ Cardinality(Entries(m)) \in Nat /\ Cardinality(Tombs(m)) \in Nat
<1>1. Entries(m) \subseteq 0..m.capacity-1 /\ Tombs(m) \subseteq 0..m.capacity-1 /\ m.capacity \in Nat
  BY TableFacts
<1>2. IsFiniteSet(0..m.capacity-1)
  BY <1>1, IntervalCount
<1>3. IsFiniteSet(Entries(m)) /\ IsFiniteSet(Tombs(m))
  BY <1>1, <1>2, FS_Subset
<1>4. QED
  BY <1>3, FS_CardinalityType

\* The places that a probe for k visits: all of them, each once.
LEMMA ProbeFacts ==
  ASSUME NEW m, m.capacity \in Nat \ {0}, NEW k \in Key
  PROVE  /\ \A e \in 0..m.capacity-1 : At(m, k, e) \in 0..m.capacity-1
         /\ \A d, e \in 0..m.capacity-1 : At(m, k, d) = At(m, k, e) => d = e
         /\ \A i \in 0..m.capacity-1 : /\ (i - Hash[k]) % m.capacity \in 0..m.capacity-1
                                       /\ At(m, k, (i - Hash[k]) % m.capacity) = i
         /\ \A e \in 0..m.capacity-1 : (At(m, k, e) - Hash[k]) % m.capacity = e
<1> DEFINE h == Hash[k]
<1> DEFINE n == m.capacity
<1>1. n \in Nat \ {0} /\ h \in Nat
  BY MapAssumption
<1>2. \A e : At(m, k, e) = (h + e) % n
  BY DEF At
<1> HIDE DEF h, n
<1>4. \A e \in 0..n-1 : (h + e) % n \in 0..n-1 /\ (((h + e) % n) - h) % n = e
  BY <1>1, ProbeDistance
<1>5. \A d, e \in 0..n-1 : (h + d) % n = (h + e) % n => d = e
  BY <1>1, ProbeInjective
<1>6. \A i \in 0..n-1 : (i - h) % n \in 0..n-1 /\ (h + ((i - h) % n)) % n = i
  BY <1>1, ProbeReaches
<1>7. \A e \in 0..n-1 : At(m, k, e) \in 0..n-1 /\ (At(m, k, e) - h) % n = e
  BY <1>2, <1>4, Zenon
<1>8. \A d, e \in 0..n-1 : At(m, k, d) = At(m, k, e) => d = e
  BY <1>2, <1>5, Zenon
<1>9. \A i \in 0..n-1 : (i - h) % n \in 0..n-1 /\ At(m, k, (i - h) % n) = i
  BY <1>2, <1>6, Zenon
<1>10. QED
  BY <1>7, <1>8, <1>9, Zenon DEF h, n

\* Where a key that the table holds lies on its probe.
LEMMA KeyPlace ==
  ASSUME NEW m, Table(m), Sound(m), NEW i \in Entries(m)
  PROVE  /\ i \in 0..m.capacity-1 /\ m.capacity \in Nat \ {0} /\ m.entries[i].key \in Key
         /\ Distance(m, i) \in 0..m.capacity-1 /\ At(m, m.entries[i].key, Distance(m, i)) = i
         /\ \A e \in 0..Distance(m, i)-1 :
              m.entries[At(m, m.entries[i].key, e)].key \notin {Empty, m.entries[i].key}
<1> DEFINE k == m.entries[i].key
<1> DEFINE d == Distance(m, i)
<1> DEFINE n == m.capacity
<1>1. i \in 0..n-1 /\ n \in Nat /\ k \in Key /\ Entries(m) = {j \in 0..n-1 : m.entries[j].key \in Key}
  BY TableFacts
<1>2. n \in Nat \ {0}
  BY <1>1
<1>3. /\ \A e \in 0..n-1 : At(m, k, e) \in 0..n-1
      /\ \A a, e \in 0..n-1 : At(m, k, a) = At(m, k, e) => a = e
      /\ \A j \in 0..n-1 : (j - Hash[k]) % n \in 0..n-1 /\ At(m, k, (j - Hash[k]) % n) = j
  BY <1>1, <1>2, ProbeFacts
<1>4. d = (i - Hash[k]) % n
  BY DEF Distance
<1>5. \A e \in 0..d-1 : m.entries[At(m, k, e)].key # Empty
  BY DEF Sound
<1>6. \A j \in Entries(m) : m.entries[j].key = k => j = i
  BY DEF Sound
<1> HIDE DEF k, d, n
<1>7. d \in 0..n-1 /\ At(m, k, d) = i
  BY <1>1, <1>3, <1>4
<1>8. ASSUME NEW e \in 0..d-1 PROVE m.entries[At(m, k, e)].key # k
  <2>1. e \in 0..n-1 /\ e # d
    BY <1>1, <1>7
  <2>2. At(m, k, e) \in 0..n-1 /\ At(m, k, e) # i
    BY <2>1, <1>3, <1>7
  <2>3. m.entries[At(m, k, e)].key = k => At(m, k, e) \in Entries(m)
    BY <2>2, <1>1
  <2>4. QED
    BY <2>2, <2>3, <1>6
<1>9. QED
  BY <1>1, <1>2, <1>5, <1>7, <1>8 DEF k, d, n

\* A probe finds each key the table holds, where it is, and no other.
LEMMA FindFinds ==
  ASSUME NEW m, Table(m), Sound(m), NEW i \in Entries(m)
  PROVE  Find(m, m.entries[i].key) = {i}
<1> DEFINE k == m.entries[i].key
<1> DEFINE d == Distance(m, i)
<1> DEFINE s == Stops(m, k)
<1>1. /\ m.capacity \in Nat \ {0} /\ d \in 0..m.capacity-1 /\ At(m, k, d) = i
      /\ \A e \in 0..d-1 : m.entries[At(m, k, e)].key \notin {Empty, k}
  BY KeyPlace
<1>2. s = {e \in 0..m.capacity-1 : m.entries[At(m, k, e)].key \in {k, Empty}}
  BY DEF Stops
<1>3. Find(m, k) = {At(m, k, e) : e \in {e \in s : e = Min(s) /\ m.entries[At(m, k, e)].key = k}}
  BY DEF Find
<1>4. m.entries[At(m, k, d)].key = k
  BY <1>1
<1> HIDE DEF k, d, s
<1>5. d \in s
  BY <1>1, <1>2, <1>4
<1>6. \A e \in s : d <= e
  <2>1. \A e \in s : e \in 0..m.capacity-1 /\ e \notin 0..d-1
    BY <1>1, <1>2
  <2>2. QED
    BY <2>1, <1>1
<1>7. Min(s) = d
  <2>1. \A e \in s : (\A f \in s : e =< f) => e = d
    BY <1>1, <1>2, <1>5, <1>6
  <2>2. QED
    BY <2>1, <1>5, <1>6 DEF Min
<1>8. {e \in s : e = Min(s) /\ m.entries[At(m, k, e)].key = k} = {d}
  BY <1>4, <1>5, <1>7
<1>9. Find(m, k) = {i}
  BY <1>1, <1>3, <1>8
<1>10. QED
  BY <1>9 DEF k

LEMMA FindMisses ==
  ASSUME NEW m, Table(m), NEW k \in Key, \A i \in Entries(m) : m.entries[i].key # k
  PROVE  Find(m, k) = {}
<1>1. SUFFICES ASSUME NEW e \in Stops(m, k), m.entries[At(m, k, e)].key = k PROVE FALSE
  BY DEF Find
<1>2. e \in 0..m.capacity-1
  BY DEF Stops
<1>3. m.capacity \in Nat \ {0}
  BY <1>2, TableFacts
<1>4. At(m, k, e) \in 0..m.capacity-1
  BY <1>2, <1>3, ProbeFacts
<1>5. At(m, k, e) \in Entries(m)
  BY <1>1, <1>4, TableFacts
<1>6. QED
  BY <1>1, <1>5

(***************************************************************************)
(* Putting an entry in its place.                                          *)
(***************************************************************************)

LEMMA LeastIsMin ==
  ASSUME NEW S \in SUBSET Nat, S # {}
  PROVE  Min(S) \in S /\ \A k \in S : Min(S) <= k
<1>1. \E x \in S : \A k \in S : x <= k
  BY LeastNat
<1>2. QED
  BY <1>1 DEF Min

\* Where a key is or should go, while the table has a bucket that was never used: its own
\* bucket, or one that holds no key, before which there is none that was never used.
LEMMA FindSlotShape ==
  ASSUME NEW m, Table(m), Sound(m), NEW k \in Key,
         \E i \in 0..m.capacity-1 : m.entries[i].key = Empty
  PROVE  \E d \in 0..m.capacity-1 :
           /\ FindSlot(m, k) = At(m, k, d) /\ At(m, k, d) \in 0..m.capacity-1
           /\ \A e \in 0..d-1 : m.entries[At(m, k, e)].key # Empty
           /\ \/ m.entries[At(m, k, d)].key = k
              \/ /\ m.entries[At(m, k, d)].key \in {Empty, Tombstone}
                 /\ \A i \in Entries(m) : m.entries[i].key # k
<1> DEFINE n == m.capacity
<1> DEFINE s == Stops(m, k)
<1> DEFINE end == Min(s)
<1> DEFINE holes == {i \in Reused(m, k) : i < end}
<1> DEFINE found == m.entries[At(m, k, end)].key = k
<1>1. /\ n \in Nat /\ s = {e \in 0..n-1 : m.entries[At(m, k, e)].key \in {k, Empty}}
      /\ Reused(m, k) = {e \in 0..n-1 : m.entries[At(m, k, e)].key = Tombstone}
  BY TableFacts DEF Stops, Reused
<1>2. PICK i \in 0..n-1 : m.entries[i].key = Empty
  OBVIOUS
<1>3. n \in Nat \ {0}
  BY <1>1, <1>2
<1>4. /\ \A e \in 0..n-1 : At(m, k, e) \in 0..n-1
      /\ \A j \in 0..n-1 : (j - Hash[k]) % n \in 0..n-1 /\ At(m, k, (j - Hash[k]) % n) = j
  BY <1>3, ProbeFacts
<1>5. s # {} /\ s \in SUBSET Nat
  BY <1>1, <1>2, <1>4
<1>6. end \in s /\ \A e \in s : end <= e
  BY <1>5, LeastIsMin
<1>7. FindSlot(m, k) = At(m, k, IF found \/ holes = {} THEN end ELSE Min(holes))
  BY DEF FindSlot
<1> HIDE DEF n, s, end, holes, found
<1>8. end \in 0..n-1 /\ m.entries[At(m, k, end)].key \in {k, Empty}
  BY <1>1, <1>6
<1>9. ASSUME NEW e \in 0..end-1 PROVE e \in 0..n-1 /\ m.entries[At(m, k, e)].key \notin {k, Empty}
  <2>1. e \in 0..n-1 /\ ~(end <= e)
    BY <1>3, <1>8
  <2>2. e \notin s
    BY <2>1, <1>6
  <2>3. QED
    BY <2>1, <2>2, <1>1
<1>10. CASE found
  <2>1. m.entries[At(m, k, end)].key = k
    BY <1>10 DEF found
  <2>2. FindSlot(m, k) = At(m, k, end)
    BY <1>7, <1>10
  <2>3. QED
    BY <2>1, <2>2, <1>4, <1>8, <1>9 DEF n
<1>11. CASE ~ found
  <2>1. m.entries[At(m, k, end)].key = Empty
    BY <1>8, <1>11 DEF found
  <2>2. ASSUME NEW i1 \in Entries(m), m.entries[i1].key = k PROVE FALSE
    <3> DEFINE d == Distance(m, i1)
    <3>1. /\ d \in 0..n-1 /\ At(m, k, d) = i1
          /\ \A e \in 0..d-1 : m.entries[At(m, k, e)].key # Empty
      BY <2>2, KeyPlace DEF n
    <3> HIDE DEF d
    <3>2. d \in s
      BY <3>1, <2>2, <1>1
    <3>3. end <= d /\ end # d
      BY <3>1, <3>2, <2>1, <2>2, <1>6, MapAssumption
    <3>4. end \in 0..d-1
      BY <3>1, <3>3, <1>8, <1>3
    <3>5. QED
      BY <3>1, <3>4, <2>1
  <2>3. CASE holes = {}
    <3>1. FindSlot(m, k) = At(m, k, end)
      BY <1>7, <2>3
    <3>2. QED
      BY <3>1, <2>1, <2>2, <1>4, <1>8, <1>9 DEF n
  <2>4. CASE holes # {}
    <3>1. holes \in SUBSET Nat /\ \A e \in holes : e \in 0..n-1 /\ e < end /\ m.entries[At(m, k, e)].key = Tombstone
      BY <1>1, <1>3 DEF holes
    <3> DEFINE d == Min(holes)
    <3>2. d \in holes
      BY <3>1, <2>4, LeastIsMin
    <3>3. FindSlot(m, k) = At(m, k, d)
      BY <1>7, <1>11, <2>4
    <3> HIDE DEF d
    <3>4. \A e \in 0..d-1 : e \in 0..end-1
      BY <3>1, <3>2, <1>3, <1>8
    <3>5. d \in 0..n-1 /\ m.entries[At(m, k, d)].key = Tombstone
      BY <3>1, <3>2
    <3>6. \A e \in 0..d-1 : m.entries[At(m, k, e)].key # Empty
      BY <3>4, <1>9
    <3>7. QED
      BY <3>3, <3>5, <3>6, <2>2, <1>4 DEF n
  <2>5. QED
    BY <2>3, <2>4
<1>12. QED
  BY <1>10, <1>11

\* An entry that is put where its key is or should go: the pairs are those that were there
\* and the new one, in place of what its key had.
LEMMA PlaceSound ==
  ASSUME NEW m, Table(m), Sound(m), NEW x \in Bucket, x.key \in Key,
         \E i \in 0..m.capacity-1 : m.entries[i].key = Empty,
         NEW u, u = Place(m, x), NEW p, p = FindSlot(m, x.key)
  PROVE  /\ Table(u) /\ Sound(u)
         /\ u.capacity = m.capacity /\ u.count = m.count /\ u.tombstones = m.tombstones
         /\ p \in 0..m.capacity-1
         /\ Entries(u) = Entries(m) \cup {p} /\ Tombs(u) = Tombs(m) \ {p}
         /\ Pairs(u) = {q \in Pairs(m) : q[1] # x.key} \cup {<<x.key, x.value>>}
         /\ \/ m.entries[p].key = x.key
            \/ m.entries[p].key \in {Empty, Tombstone} /\ \A i \in Entries(m) : m.entries[i].key # x.key
<1> DEFINE n == m.capacity
<1> DEFINE k == x.key
<1>1. PICK d \in 0..n-1 :
           /\ p = At(m, k, d) /\ p \in 0..n-1
           /\ \A e \in 0..d-1 : m.entries[At(m, k, e)].key # Empty
           /\ \/ m.entries[p].key = k
              \/ /\ m.entries[p].key \in {Empty, Tombstone}
                 /\ \A i \in Entries(m) : m.entries[i].key # k
  BY FindSlotShape
<1>2. u = [m EXCEPT !.entries[p] = x]
  BY DEF Place
<1>3. n \in Nat /\ m.entries \in [0..n-1 -> Bucket] /\ n # 0
  BY <1>1, TableFacts
<1> HIDE DEF n
<1>4. u.capacity = n /\ u.count = m.count /\ u.tombstones = m.tombstones /\ u.entries = [m.entries EXCEPT ![p] = x]
  BY <1>2 DEF Table, n
<1>5. u.entries \in [0..n-1 -> Bucket] /\ u.entries[p] = x /\ \A j \in 0..n-1 : j # p => u.entries[j] = m.entries[j]
  BY <1>1, <1>3, <1>4
<1>6. Table(u)
  BY <1>2, <1>4, <1>5 DEF Table, n
<1>7. /\ Entries(m) = {i \in 0..n-1 : m.entries[i].key \in Key} /\ Entries(u) = {i \in 0..n-1 : u.entries[i].key \in Key}
      /\ Tombs(m) = {i \in 0..n-1 : m.entries[i].key = Tombstone} /\ Tombs(u) = {i \in 0..n-1 : u.entries[i].key = Tombstone}
  <2>1. Entries(m) = {i \in 0..n-1 : m.entries[i].key \in Key} /\ Tombs(m) = {i \in 0..n-1 : m.entries[i].key = Tombstone}
    BY TableFacts DEF n
  <2>2. /\ Entries(u) = {i \in 0..u.capacity-1 : u.entries[i].key \in Key}
        /\ Tombs(u) = {i \in 0..u.capacity-1 : u.entries[i].key = Tombstone}
    BY <1>6, TableFacts
  <2>3. u.capacity = n
    BY <1>4
  <2> HIDE DEF n
  <2>4. QED
    BY <2>1, <2>2, <2>3
<1>8. Entries(u) = Entries(m) \cup {p}
  <2>1. u.entries[p].key \in Key
    BY <1>5
  <2>2. \A i \in 0..n-1 : i # p => u.entries[i].key = m.entries[i].key
    BY <1>5
  <2>3. QED
    BY <2>1, <2>2, <1>1, <1>7
<1>9. Tombs(u) = Tombs(m) \ {p}
  BY <1>1, <1>5, <1>7, MapAssumption
<1>10. \A j \in Entries(m) : j # p => m.entries[j].key # k
  BY <1>1, <1>7 DEF Sound
<1>11. Pairs(u) = {q \in Pairs(m) : q[1] # k} \cup {<<k, x.value>>}
  <2>1. ASSUME NEW q \in Pairs(u) PROVE q \in {r \in Pairs(m) : r[1] # k} \cup {<<k, x.value>>}
    <3>1. PICK j \in Entries(u) : q = <<u.entries[j].key, u.entries[j].value>>
      BY DEF Pairs
    <3>2. CASE j = p
      BY <3>1, <3>2, <1>5
    <3>3. CASE j # p
      <4>1. j \in Entries(m) /\ u.entries[j] = m.entries[j]
        BY <3>3, <1>5, <1>7, <1>8
      <4>2. q \in Pairs(m) /\ q[1] = m.entries[j].key
        BY <4>1, <3>1 DEF Pairs
      <4>3. QED
        BY <4>1, <4>2, <3>3, <1>10
    <3>4. QED
      BY <3>2, <3>3
  <2>2. ASSUME NEW q \in Pairs(m), q[1] # k PROVE q \in Pairs(u)
    <3>1. PICK j \in Entries(m) : q = <<m.entries[j].key, m.entries[j].value>>
      BY DEF Pairs
    <3>2. j # p
      <4>1. m.entries[j].key # k /\ m.entries[j].key \in Key
        BY <3>1, <2>2, <1>7
      <4>2. QED
        BY <4>1, <1>1, MapAssumption
    <3>3. j \in Entries(u) /\ u.entries[j] = m.entries[j]
      BY <3>2, <1>5, <1>7, <1>8
    <3>4. QED
      BY <3>1, <3>3 DEF Pairs
  <2>3. <<k, x.value>> \in Pairs(u)
    BY <1>5, <1>8 DEF Pairs
  <2>4. QED
    BY <2>1, <2>2, <2>3
<1>12. \A i, j \in Entries(u) : u.entries[i].key = u.entries[j].key => i = j
  <2>1. \A i \in Entries(u) : i # p => i \in Entries(m) /\ u.entries[i] = m.entries[i] /\ u.entries[i].key # k
    BY <1>5, <1>7, <1>8, <1>10
  <2>2. u.entries[p].key = k
    BY <1>5
  <2>3. \A i, j \in Entries(m) : m.entries[i].key = m.entries[j].key => i = j
    BY DEF Sound
  <2>4. SUFFICES ASSUME NEW i \in Entries(u), NEW j \in Entries(u), u.entries[i].key = u.entries[j].key, i # j
                 PROVE  FALSE
    OBVIOUS
  <2>5. CASE i = p \/ j = p
    BY <2>1, <2>2, <2>4, <2>5
  <2>6. CASE i # p /\ j # p
    BY <2>1, <2>3, <2>4, <2>6
  <2>7. QED
    BY <2>5, <2>6
<1>13. ASSUME NEW i \in Entries(u), NEW e \in 0..Distance(u, i)-1
       PROVE  u.entries[At(u, u.entries[i].key, e)].key # Empty
  <2>1. \A a, b : At(u, a, b) = At(m, a, b)
    BY <1>4 DEF At, n
  <2>2. \A j \in 0..n-1 : m.entries[j].key # Empty => u.entries[j].key # Empty
    BY <1>5, MapAssumption
  <2>3. /\ \A a \in 0..n-1 : At(m, k, a) \in 0..n-1
        /\ \A a \in 0..n-1 : (At(m, k, a) - Hash[k]) % n = a
    BY <1>3, ProbeFacts DEF n
  <2>4. CASE i = p
    <3>1. Distance(u, i) = (p - Hash[k]) % n
      BY <2>4, <1>4, <1>5 DEF Distance
    <3>2. Distance(u, i) = d
      BY <3>1, <2>3, <1>1
    <3>3. e \in 0..d-1 /\ e \in 0..n-1
      BY <3>2, <1>3
    <3>4. m.entries[At(m, k, e)].key # Empty /\ At(m, k, e) \in 0..n-1
      BY <3>3, <1>1, <2>3
    <3>5. QED
      BY <3>4, <2>1, <2>2, <2>4, <1>5
  <2>5. CASE i # p
    <3>1. i \in Entries(m) /\ u.entries[i] = m.entries[i]
      BY <2>5, <1>5, <1>7, <1>8
    <3>2. Distance(u, i) = Distance(m, i)
      BY <3>1, <1>4 DEF Distance, n
    <3>3. /\ Distance(m, i) \in 0..n-1 /\ m.entries[i].key \in Key
          /\ m.entries[At(m, m.entries[i].key, e)].key # Empty
      BY <3>1, <3>2, KeyPlace DEF n
    <3>4. e \in 0..n-1
      BY <3>2, <3>3, <1>3
    <3>5. At(m, m.entries[i].key, e) \in 0..n-1
      BY <3>3, <3>4, <1>3, ProbeFacts DEF n
    <3>6. QED
      BY <3>1, <3>3, <3>5, <2>1, <2>2
  <2>6. QED
    BY <2>4, <2>5
<1>14. Sound(u)
  BY <1>12, <1>13 DEF Sound
<1>15. QED
  BY <1>1, <1>4, <1>6, <1>8, <1>9, <1>11, <1>14 DEF n

(***************************************************************************)
(* Growth.                                                                 *)
(***************************************************************************)

LEMMA BucketLeft ==
  ASSUME NEW m, Table(m), Cardinality(Entries(m)) + Cardinality(Tombs(m)) < m.capacity
  PROVE  \E i \in 0..m.capacity-1 : m.entries[i].key = Empty
<1> DEFINE A == Entries(m)
<1> DEFINE B == Tombs(m)
<1> DEFINE n == m.capacity
<1>1. /\ n \in Nat /\ A = {i \in 0..n-1 : m.entries[i].key \in Key} /\ B = {i \in 0..n-1 : m.entries[i].key = Tombstone}
      /\ \A i \in 0..n-1 : m.entries[i].key \in Key \cup {Empty, Tombstone}
  BY TableFacts
<1>2. IsFiniteSet(A) /\ IsFiniteSet(B) /\ Cardinality(A) \in Nat /\ Cardinality(B) \in Nat
  BY TableFinite
<1>3. Cardinality(A) + Cardinality(B) < n
  OBVIOUS
<1> HIDE DEF A, B, n
<1>4. A \cap B = {}
  BY <1>1, MapAssumption
<1>5. Cardinality(A \cup B) = Cardinality(A) + Cardinality(B)
  <2>1. Cardinality(A \cup B) = Cardinality(A) + Cardinality(B) - Cardinality(A \cap B)
    BY <1>2, FS_Union
  <2>2. Cardinality(A \cap B) = 0
    BY <1>4, FS_EmptySet
  <2>3. QED
    BY <2>1, <2>2, <1>2
<1>6. Cardinality(0..n-1) = n
  BY <1>1, IntervalCount
<1>7. A \cup B # 0..n-1
  <2>1. Cardinality(A \cup B) # Cardinality(0..n-1)
    BY <1>1, <1>2, <1>3, <1>5, <1>6
  <2>2. QED
    BY <2>1, Zenon
<1>8. PICK i \in 0..n-1 : i \notin A \cup B
  BY <1>1, <1>7
<1>9. m.entries[i].key = Empty
  BY <1>1, <1>8
<1>10. QED
  BY <1>9 DEF n

LEMMA BlankTable ==
  ASSUME NEW n \in Nat, NEW c \in Int, NEW m,
         m = [count |-> c, entries |-> Buckets(n), capacity |-> n, tombstones |-> 0]
  PROVE  Table(m) /\ Sound(m) /\ Entries(m) = {} /\ Tombs(m) = {} /\ Pairs(m) = {}
<1>1. Buckets(n) \in [0..n-1 -> Bucket] /\ \A i \in 0..n-1 : Buckets(n)[i].key = Empty
  BY DEF Buckets, Bucket
<1>2. Table(m) /\ m.capacity = n /\ m.entries = Buckets(n)
  BY <1>1 DEF Table
<1>3. Entries(m) = {} /\ Tombs(m) = {}
  BY <1>1, <1>2, TableFacts, MapAssumption
<1>4. QED
  BY <1>2, <1>3 DEF Sound, Pairs

Size(m) == IF m.capacity = 0 THEN FirstBuckets ELSE 2 * m.capacity

\* One step of the rebuild: entry i - 1 of m goes into the table built so far.
Regrown(m, f, i) ==
  IF i = 0 THEN [m EXCEPT !.entries = Buckets(Size(m)), !.capacity = Size(m), !.tombstones = 0]
  ELSE IF Live(m.entries[i-1]) THEN Place(f[i-1], m.entries[i-1])
  ELSE f[i-1]

LEMMA GrowDefined ==
  ASSUME NEW m, m.capacity \in Nat
  PROVE  \E f : (\A i \in 0..m.capacity : f[i] = Regrown(m, f, i)) /\ Grow(m) = f[m.capacity]
<1> DEFINE n == m.capacity
<1> DEFINE Upto(k) == \E f : f = [i \in 0..k |-> Regrown(m, f, i)]
<1> DEFINE S == {k \in 0..n : Upto(k)}
<1>1. Upto(0)
  <2> DEFINE f == [i \in 0..0 |-> Regrown(m, <<>>, 0)]
  <2>1. \A i \in 0..0 : Regrown(m, f, i) = Regrown(m, <<>>, 0)
    BY DEF Regrown
  <2>2. f = [i \in 0..0 |-> Regrown(m, f, i)]
    BY <2>1
  <2>3. QED
    BY <2>2
<1>2. ASSUME NEW k \in 0..n-1, Upto(k) PROVE Upto(k + 1)
  <2>1. PICK f : f = [i \in 0..k |-> Regrown(m, f, i)]
    BY <1>2
  <2> DEFINE g == [i \in 0..k+1 |-> Regrown(m, f, i)]
  <2>2. \A i \in 0..k : g[i] = f[i]
    BY <2>1
  <2>3. ASSUME NEW i \in 0..k+1 PROVE Regrown(m, g, i) = Regrown(m, f, i)
    <3>1. i # 0 => i - 1 \in 0..k
      OBVIOUS
    <3>2. i # 0 => g[i-1] = f[i-1]
      BY <3>1, <2>2
    <3> HIDE DEF g
    <3>3. QED
      BY <3>2 DEF Regrown
  <2>4. g = [i \in 0..k+1 |-> Regrown(m, g, i)]
    BY <2>3
  <2>5. QED
    BY <2>4
<1> HIDE DEF Upto
<1>3. 0 \in S /\ \A k \in 0..n-1 : k \in S => k + 1 \in S
  BY <1>1, <1>2
<1> HIDE DEF S
<1>4. n \in S
  BY <1>3, InductionTo
<1>5. Upto(n)
  BY <1>4 DEF S
<1> DEFINE F == CHOOSE f : f = [i \in 0..n |-> Regrown(m, f, i)]
<1>6. F = [i \in 0..n |-> Regrown(m, F, i)]
  BY <1>5 DEF Upto
<1>7. Grow(m) = F[n]
  BY DEF Grow, Regrown, Size
<1> HIDE DEF F
<1>8. \A i \in 0..n : F[i] = Regrown(m, F, i)
  BY <1>6
<1>9. QED
  BY <1>7, <1>8

\* The entries of a table below a place, and what they hold.
Below(m, i) == {j \in Entries(m) : j < i}
PairsBelow(m, i) == {<<m.entries[j].key, m.entries[j].value>> : j \in Below(m, i)}

LEMMA BelowFacts ==
  ASSUME NEW m, Table(m)
  PROVE  /\ Below(m, 0) = {} /\ Below(m, m.capacity) = Entries(m)
         /\ PairsBelow(m, 0) = {} /\ PairsBelow(m, m.capacity) = Pairs(m)
         /\ \A i \in 0..m.capacity :
              IsFiniteSet(Below(m, i)) /\ Cardinality(Below(m, i)) \in Nat /\ Cardinality(Below(m, i)) <= i
<1>1. m.capacity \in Nat /\ Entries(m) \subseteq 0..m.capacity-1
  BY TableFacts
<1>2. Below(m, 0) = {} /\ Below(m, m.capacity) = Entries(m)
  BY <1>1 DEF Below
<1>3. PairsBelow(m, 0) = {} /\ PairsBelow(m, m.capacity) = Pairs(m)
  BY <1>2 DEF PairsBelow, Pairs
<1>4. ASSUME NEW i \in 0..m.capacity
      PROVE  IsFiniteSet(Below(m, i)) /\ Cardinality(Below(m, i)) \in Nat /\ Cardinality(Below(m, i)) <= i
  <2>1. Below(m, i) \in SUBSET (0..i-1)
    BY <1>1 DEF Below
  <2>2. IsFiniteSet(0..i-1) /\ Cardinality(0..i-1) = i
    BY <1>1, IntervalCount
  <2>3. QED
    BY <2>1, <2>2, FS_Subset, FS_CardinalityType
<1>5. QED
  BY <1>2, <1>3, <1>4

\* One more place.
LEMMA BelowNext ==
  ASSUME NEW m, Table(m), Sound(m), NEW k \in 0..m.capacity-1
  PROVE  /\ k \notin Entries(m) => /\ ~ Live(m.entries[k]) /\ Below(m, k+1) = Below(m, k)
                                   /\ PairsBelow(m, k+1) = PairsBelow(m, k)
         /\ k \in Entries(m) =>
              /\ Live(m.entries[k]) /\ m.entries[k] \in Bucket /\ m.entries[k].key \in Key
              /\ Cardinality(Below(m, k+1)) = Cardinality(Below(m, k)) + 1
              /\ PairsBelow(m, k+1) = PairsBelow(m, k) \cup {<<m.entries[k].key, m.entries[k].value>>}
              /\ \A q \in PairsBelow(m, k) : q[1] # m.entries[k].key
<1>1. /\ m.capacity \in Nat /\ DOMAIN m.entries = 0..m.capacity-1 /\ Entries(m) \subseteq 0..m.capacity-1
      /\ \A i \in 0..m.capacity-1 : m.entries[i] \in Bucket
      /\ \A i \in Entries(m) : m.entries[i].key \in Key
  BY TableFacts
<1>2. k \in Entries(m) <=> Live(m.entries[k])
  BY <1>1 DEF Entries
<1>3. ASSUME k \notin Entries(m) PROVE Below(m, k+1) = Below(m, k) /\ PairsBelow(m, k+1) = PairsBelow(m, k)
  <2>1. Below(m, k+1) = Below(m, k)
    BY <1>1, <1>3 DEF Below
  <2>2. QED
    BY <2>1 DEF PairsBelow
<1>4. ASSUME k \in Entries(m)
      PROVE  /\ Cardinality(Below(m, k+1)) = Cardinality(Below(m, k)) + 1
             /\ PairsBelow(m, k+1) = PairsBelow(m, k) \cup {<<m.entries[k].key, m.entries[k].value>>}
             /\ \A q \in PairsBelow(m, k) : q[1] # m.entries[k].key
  <2>1. Below(m, k+1) = Below(m, k) \cup {k} /\ k \notin Below(m, k)
    BY <1>1, <1>4 DEF Below
  <2>2. IsFiniteSet(Below(m, k)) /\ Cardinality(Below(m, k)) \in Nat
    BY <1>1, BelowFacts
  <2>3. Cardinality(Below(m, k+1)) = Cardinality(Below(m, k)) + 1
    BY <2>1, <2>2, FS_AddElement
  <2>4. PairsBelow(m, k+1) = PairsBelow(m, k) \cup {<<m.entries[k].key, m.entries[k].value>>}
    BY <2>1 DEF PairsBelow
  <2>5. ASSUME NEW q \in PairsBelow(m, k) PROVE q[1] # m.entries[k].key
    <3>1. PICK j \in Below(m, k) : q = <<m.entries[j].key, m.entries[j].value>>
      BY DEF PairsBelow
    <3>2. j \in Entries(m) /\ j # k /\ q[1] = m.entries[j].key
      BY <3>1, <2>1 DEF Below
    <3>3. QED
      BY <3>2, <1>4 DEF Sound
  <2>6. QED
    BY <2>3, <2>4, <2>5
<1>5. QED
  BY <1>1, <1>2, <1>3, <1>4

\* A rebuild keeps the pairs and leaves no tombstone.
LEMMA GrowSound ==
  ASSUME NEW m, Good(m), NEW u, u = Grow(m)
  PROVE  /\ Table(u) /\ Sound(u) /\ Pairs(u) = Pairs(m)
         /\ u.count = m.count /\ u.tombstones = 0 /\ u.capacity = Size(m) /\ Tombs(u) = {}
         /\ Cardinality(Entries(u)) = Cardinality(Entries(m))
<1> DEFINE n == m.capacity
<1> DEFINE size == Size(m)
<1> DEFINE blank == [count |-> m.count, entries |-> Buckets(size), capacity |-> size, tombstones |-> 0]
<1>1. Table(m) /\ Sound(m) /\ n \in Nat /\ m.count \in Int
  BY TableFacts DEF Good
<1>2. size \in Nat /\ size > n
  <2>1. FirstBuckets \in Nat /\ FirstBuckets # 0
    BY MapAssumption
  <2>2. QED
    BY <1>1, <2>1 DEF Size
<1>3. PICK f : (\A i \in 0..n : f[i] = Regrown(m, f, i)) /\ Grow(m) = f[n]
  BY <1>1, GrowDefined
<1> HIDE DEF size, n
<1>4. f[0] = blank
  <2>1. f[0] = [m EXCEPT !.entries = Buckets(size), !.capacity = size, !.tombstones = 0]
    BY <1>1, <1>3 DEF Regrown, size
  <2>2. QED
    BY <2>1, <1>1 DEF Table
<1>5. \A k \in 0..n-1 : f[k+1] = IF Live(m.entries[k]) THEN Place(f[k], m.entries[k]) ELSE f[k]
  <2> SUFFICES ASSUME NEW k \in 0..n-1
               PROVE f[k+1] = IF Live(m.entries[k]) THEN Place(f[k], m.entries[k]) ELSE f[k]
    OBVIOUS
  <2>1. k + 1 \in 0..n /\ k + 1 # 0 /\ (k + 1) - 1 = k
    BY <1>1
  <2>2. f[k+1] = Regrown(m, f, k+1)
    BY <1>3, <2>1
  <2>3. QED
    BY <2>1, <2>2 DEF Regrown
<1> DEFINE Built(i) == /\ Table(f[i]) /\ Sound(f[i]) /\ Tombs(f[i]) = {}
                       /\ f[i].count = m.count /\ f[i].tombstones = 0 /\ f[i].capacity = size
                       /\ Pairs(f[i]) = PairsBelow(m, i)
                       /\ Cardinality(Entries(f[i])) = Cardinality(Below(m, i))
<1>6. Built(0)
  <2>1. Below(m, 0) = {} /\ PairsBelow(m, 0) = {}
    BY <1>1, BelowFacts
  <2>2. /\ Table(blank) /\ Sound(blank) /\ Entries(blank) = {} /\ Tombs(blank) = {} /\ Pairs(blank) = {}
        /\ blank.count = m.count /\ blank.tombstones = 0 /\ blank.capacity = size
    BY <1>1, <1>2, BlankTable
  <2> HIDE DEF blank
  <2>3. QED
    BY <2>1, <2>2, <1>4
<1>7. ASSUME NEW k \in 0..n-1, Built(k) PROVE Built(k + 1)
  <2>1. k \in 0..n
    BY <1>1
  <2> DEFINE v == f[k]
  <2> DEFINE w == f[k+1]
  <2>2. /\ Table(v) /\ Sound(v) /\ Tombs(v) = {}
        /\ v.count = m.count /\ v.tombstones = 0 /\ v.capacity = size
        /\ Pairs(v) = PairsBelow(m, k) /\ Cardinality(Entries(v)) = Cardinality(Below(m, k))
    BY <1>7
  <2>3. w = IF Live(m.entries[k]) THEN Place(v, m.entries[k]) ELSE v
    BY <1>5
  <2> HIDE DEF v, w
  <2>4. CASE k \notin Entries(m)
    <3>1. ~ Live(m.entries[k]) /\ Below(m, k+1) = Below(m, k) /\ PairsBelow(m, k+1) = PairsBelow(m, k)
      BY <2>4, <1>1, BelowNext DEF n
    <3>2. w = v
      BY <3>1, <2>3
    <3>3. QED
      BY <3>1, <3>2, <2>2 DEF w
  <2>5. CASE k \in Entries(m)
    <3> DEFINE x == m.entries[k]
    <3>1. /\ Live(x) /\ x \in Bucket /\ x.key \in Key
          /\ Cardinality(Below(m, k+1)) = Cardinality(Below(m, k)) + 1
          /\ PairsBelow(m, k+1) = PairsBelow(m, k) \cup {<<x.key, x.value>>}
          /\ \A q \in PairsBelow(m, k) : q[1] # x.key
      BY <2>5, <1>1, BelowNext DEF n
    <3>2. w = Place(v, x)
      BY <3>1, <2>3
    <3> HIDE DEF x
    <3>3. Cardinality(Entries(v)) + Cardinality(Tombs(v)) < v.capacity
      <4>1. Cardinality(Below(m, k)) \in Nat /\ Cardinality(Below(m, k)) <= k
        BY <1>1, <2>1, BelowFacts DEF n
      <4>2. Cardinality(Tombs(v)) = 0
        BY <2>2, FS_EmptySet
      <4>3. QED
        BY <4>1, <4>2, <2>2, <1>1, <1>2
    <3>4. \E i \in 0..v.capacity-1 : v.entries[i].key = Empty
      BY <2>2, <3>3, BucketLeft
    <3> DEFINE p == FindSlot(v, x.key)
    <3>5. /\ Table(w) /\ Sound(w)
          /\ w.capacity = v.capacity /\ w.count = v.count /\ w.tombstones = v.tombstones
          /\ Entries(w) = Entries(v) \cup {p} /\ Tombs(w) = Tombs(v) \ {p}
          /\ Pairs(w) = {q \in Pairs(v) : q[1] # x.key} \cup {<<x.key, x.value>>}
          /\ \/ v.entries[p].key = x.key
             \/ v.entries[p].key \in {Empty, Tombstone} /\ \A i \in Entries(v) : v.entries[i].key # x.key
          /\ p \in 0..v.capacity-1
      BY <2>2, <3>1, <3>2, <3>4, PlaceSound
    <3> HIDE DEF p
    <3>6. p \notin Entries(v)
      <4>1. SUFFICES ASSUME p \in Entries(v) PROVE FALSE
        OBVIOUS
      <4>2. <<v.entries[p].key, v.entries[p].value>> \in PairsBelow(m, k)
        BY <4>1, <2>2 DEF Pairs
      <4>3. v.entries[p].key # x.key
        BY <4>2, <3>1
      <4>4. v.entries[p].key \in Key
        BY <4>1, <2>2, TableFacts
      <4>5. QED
        BY <4>3, <4>4, <3>5, MapAssumption
    <3>7. Cardinality(Entries(w)) = Cardinality(Below(m, k+1))
      <4>1. IsFiniteSet(Entries(v))
        BY <2>2, TableFinite
      <4>2. Cardinality(Entries(w)) = Cardinality(Entries(v)) + 1
        BY <4>1, <3>5, <3>6, FS_AddElement
      <4>3. QED
        BY <4>2, <2>2, <3>1
    <3>8. Pairs(w) = PairsBelow(m, k+1)
      BY <3>1, <3>5, <2>2
    <3>9. Tombs(w) = {} /\ w.count = m.count /\ w.tombstones = 0 /\ w.capacity = size
      BY <3>5, <2>2
    <3>10. QED
      BY <3>5, <3>7, <3>8, <3>9 DEF w
  <2>6. QED
    BY <2>4, <2>5
<1> DEFINE S == {i \in 0..n : Built(i)}
<1> HIDE DEF Built
<1>8. 0 \in S /\ \A k \in 0..n-1 : k \in S => k + 1 \in S
  BY <1>1, <1>6, <1>7
<1> HIDE DEF S
<1>9. n \in S
  BY <1>1, <1>8, InductionTo
<1>10. Built(n)
  BY <1>9 DEF S
<1>11. Below(m, n) = Entries(m) /\ PairsBelow(m, n) = Pairs(m)
  BY <1>1, BelowFacts DEF n
<1>12. u = f[n]
  BY <1>3
<1>13. QED
  BY <1>10, <1>11, <1>12 DEF Built, size

(***************************************************************************)
(* Setting and deleting.                                                   *)
(***************************************************************************)

\* A map that festina_map_set has made room in: one more entry leaves a bucket unused.
LEMMA RoomyKeeps ==
  ASSUME NEW m, Good(m), NEW u, u = Roomy(m)
  PROVE  Good(u) /\ Pairs(u) = Pairs(m) /\ u.count + u.tombstones + 1 < u.capacity
<1>1. /\ Table(m) /\ Sound(m) /\ m.capacity \in Nat /\ m.count = Cardinality(Entries(m))
      /\ m.tombstones = Cardinality(Tombs(m)) /\ m.count \in Nat /\ m.tombstones \in Nat
      /\ m.capacity > 0 => m.count + m.tombstones < m.capacity
  BY TableFacts, TableFinite DEF Good, Counted
<1>2. CASE ~ Crowded(m)
  <2>1. u = m /\ m.capacity # 0 /\ ~ ((m.count + m.tombstones + 1) * 4 >= m.capacity * 3)
    BY <1>2 DEF Crowded, Roomy
  <2>2. m.count + m.tombstones + 1 < m.capacity
    BY <2>1, <1>1
  <2>3. QED
    BY <2>1, <2>2
<1>3. CASE Crowded(m)
  <2>1. u = Grow(m)
    BY <1>3 DEF Roomy
  <2>2. /\ Table(u) /\ Sound(u) /\ Pairs(u) = Pairs(m)
        /\ u.count = m.count /\ u.tombstones = 0 /\ u.capacity = Size(m) /\ Tombs(u) = {}
        /\ Cardinality(Entries(u)) = Cardinality(Entries(m))
    BY <2>1, GrowSound
  <2>3. Cardinality(Tombs(u)) = 0
    BY <2>2, FS_EmptySet
  <2>4. m.count + 1 < Size(m)
    <3>1. CASE m.capacity = 0
      <4>1. Entries(m) = {}
        BY <3>1, <1>1, TableFacts
      <4>2. m.count = 0
        BY <4>1, <1>1, FS_EmptySet
      <4>3. FirstBuckets \in Nat /\ FirstBuckets # 0 /\ FirstBuckets # 1
        BY MapAssumption
      <4>4. QED
        BY <3>1, <4>2, <4>3 DEF Size
    <3>2. CASE m.capacity # 0
      BY <3>2, <1>1 DEF Size
    <3>3. QED
      BY <3>1, <3>2
  <2>5. u.count + u.tombstones + 1 < u.capacity /\ u.count + u.tombstones < u.capacity
    <3>1. Size(m) \in Int
      <4>1. FirstBuckets \in Nat
        BY MapAssumption
      <4>2. QED
        BY <4>1, <1>1 DEF Size
    <3>2. u.count = m.count /\ u.tombstones = 0 /\ u.capacity = Size(m) /\ m.count \in Nat
      BY <1>1, <2>2
    <3>3. QED
      BY <3>1, <3>2, <2>4
  <2>6. Counted(u)
    BY <1>1, <2>2, <2>3, <2>5 DEF Counted
  <2>7. QED
    BY <2>2, <2>5, <2>6 DEF Good
<1>4. QED
  BY <1>2, <1>3

\* festina_map_set stores the pair in place of what its key had, and nothing else changes.
LEMMA SetSound ==
  ASSUME NEW m, Good(m), NEW x \in Bucket, x.key \in Key, NEW u, u = Set(m, x)
  PROVE  Good(u) /\ Pairs(u) = {q \in Pairs(m) : q[1] # x.key} \cup {<<x.key, x.value>>}
<1> DEFINE r == Roomy(m)
<1> DEFINE p == FindSlot(r, x.key)
<1> DEFINE v == Place(r, x)
<1> DEFINE old == r.entries[p].key
<1>1. Good(r) /\ Pairs(r) = Pairs(m) /\ r.count + r.tombstones + 1 < r.capacity
  BY RoomyKeeps
<1>2. u = [v EXCEPT !.count = IF old = x.key THEN @ ELSE @ + 1,
                    !.tombstones = IF old = Tombstone THEN @ - 1 ELSE @]
  BY DEF Set
<1> HIDE DEF r
<1>3. /\ Table(r) /\ Sound(r) /\ r.capacity \in Nat /\ r.count = Cardinality(Entries(r))
      /\ r.tombstones = Cardinality(Tombs(r)) /\ r.count \in Nat /\ r.tombstones \in Nat
      /\ IsFiniteSet(Entries(r)) /\ IsFiniteSet(Tombs(r))
  BY <1>1, TableFacts, TableFinite DEF Good, Counted
<1>4. Cardinality(Entries(r)) + Cardinality(Tombs(r)) < r.capacity
  BY <1>1, <1>3
<1>5. \E i \in 0..r.capacity-1 : r.entries[i].key = Empty
  BY <1>3, <1>4, BucketLeft
<1>6. /\ Table(v) /\ Sound(v)
      /\ v.capacity = r.capacity /\ v.count = r.count /\ v.tombstones = r.tombstones
      /\ p \in 0..r.capacity-1
      /\ Entries(v) = Entries(r) \cup {p} /\ Tombs(v) = Tombs(r) \ {p}
      /\ Pairs(v) = {q \in Pairs(r) : q[1] # x.key} \cup {<<x.key, x.value>>}
      /\ \/ old = x.key
         \/ old \in {Empty, Tombstone} /\ \A i \in Entries(r) : r.entries[i].key # x.key
  BY <1>3, <1>5, PlaceSound
<1>7. /\ p \in Entries(r) <=> old = x.key
      /\ p \in Tombs(r) <=> old = Tombstone
  <2>1. p \in Entries(r) <=> old \in Key
    BY <1>3, <1>6, TableFacts
  <2>2. p \in Tombs(r) <=> old = Tombstone
    BY <1>3, <1>6, TableFacts
  <2> HIDE DEF old, p
  <2>3. QED
    BY <2>1, <2>2, <1>6, MapAssumption
<1>8. /\ Cardinality(Entries(v)) = IF old = x.key THEN r.count ELSE r.count + 1
      /\ Cardinality(Tombs(v)) = IF old = Tombstone THEN r.tombstones - 1 ELSE r.tombstones
  <2> HIDE DEF old, p, v
  <2>1. Cardinality(Entries(v)) = IF p \in Entries(r) THEN Cardinality(Entries(r)) ELSE Cardinality(Entries(r)) + 1
    BY <1>3, <1>6, FS_AddElement
  <2>2. Cardinality(Tombs(v)) = IF p \in Tombs(r) THEN Cardinality(Tombs(r)) - 1 ELSE Cardinality(Tombs(r))
    BY <1>3, <1>6, FS_RemoveElement
  <2>3. QED
    BY <2>1, <2>2, <1>3, <1>7
<1> HIDE DEF old, p, v
<1>9. /\ u.entries = v.entries /\ u.capacity = v.capacity /\ Table(u)
      /\ u.count = IF old = x.key THEN r.count ELSE r.count + 1
      /\ u.tombstones = IF old = Tombstone THEN r.tombstones - 1 ELSE r.tombstones
  <2> DEFINE c == IF old = x.key THEN r.count ELSE r.count + 1
  <2> DEFINE t == IF old = Tombstone THEN r.tombstones - 1 ELSE r.tombstones
  <2>1. /\ v = [count |-> r.count, entries |-> v.entries, capacity |-> v.capacity, tombstones |-> r.tombstones]
        /\ v.capacity \in Nat /\ v.entries \in [0..v.capacity-1 -> Bucket]
    BY <1>6 DEF Table
  <2>2. c \in Int /\ t \in Int
    BY <1>3
  <2>3. u = [[v EXCEPT !.count = c] EXCEPT !.tombstones = t]
    <3>1. c = (IF old = x.key THEN v.count ELSE v.count + 1) /\ t = (IF old = Tombstone THEN v.tombstones - 1 ELSE v.tombstones)
      BY <1>6
    <3> HIDE DEF c, t
    <3>2. QED
      BY <3>1, <2>1, <1>2
  <2> HIDE DEF c, t
  <2>4. u = [count |-> c, entries |-> v.entries, capacity |-> v.capacity, tombstones |-> t]
    BY <2>1, <2>3
  <2>5. u.entries = v.entries /\ u.capacity = v.capacity /\ u.count = c /\ u.tombstones = t
    BY <2>4
  <2>6. Table(u)
    BY <2>1, <2>2, <2>4 DEF Table
  <2>7. QED
    BY <2>5, <2>6 DEF c, t
<1>10. Entries(u) = Entries(v) /\ Tombs(u) = Tombs(v) /\ Pairs(u) = Pairs(v)
  BY <1>9 DEF Entries, Tombs, Pairs
<1>11. Sound(u)
  <2>1. (\A i : Distance(u, i) = Distance(v, i)) /\ (\A k, e : At(u, k, e) = At(v, k, e))
    BY <1>9 DEF Distance, At
  <2>2. QED
    BY <2>1, <1>6, <1>9, <1>10 DEF Sound
<1>12. Counted(u)
  <2>1. u.count = Cardinality(Entries(u)) /\ u.tombstones = Cardinality(Tombs(u))
    BY <1>8, <1>9, <1>10
  <2>2. u.count \in Nat /\ u.tombstones \in Nat /\ u.count <= r.count + 1 /\ u.tombstones <= r.tombstones
    <3>1. u.count \in Nat /\ u.tombstones \in Nat
      BY <1>9, <2>1, TableFinite
    <3>2. QED
      BY <3>1, <1>3, <1>9
  <2>3. u.count + u.tombstones < u.capacity
    BY <2>2, <1>1, <1>3, <1>6, <1>9
  <2>4. QED
    BY <2>1, <2>3 DEF Counted
<1>13. QED
  BY <1>1, <1>6, <1>9, <1>10, <1>11, <1>12 DEF Good

\* festina_map_delete takes the key's pair out, if there is one, and nothing else changes.
LEMMA DeleteSound ==
  ASSUME NEW m, Good(m), NEW k \in Key, NEW u, u = Delete(m, k)
  PROVE  Good(u) /\ Pairs(u) = {q \in Pairs(m) : q[1] # k}
<1>1. /\ Table(m) /\ Sound(m) /\ m.capacity \in Nat /\ m.count = Cardinality(Entries(m))
      /\ m.tombstones = Cardinality(Tombs(m)) /\ m.count \in Nat /\ m.tombstones \in Nat
      /\ IsFiniteSet(Entries(m)) /\ IsFiniteSet(Tombs(m)) /\ m.entries \in [0..m.capacity-1 -> Bucket]
      /\ m.capacity > 0 => m.count + m.tombstones < m.capacity
      /\ Entries(m) = {i \in 0..m.capacity-1 : m.entries[i].key \in Key}
      /\ Tombs(m) = {i \in 0..m.capacity-1 : m.entries[i].key = Tombstone}
  BY TableFacts, TableFinite DEF Good, Counted
<1>2. CASE \A i \in Entries(m) : m.entries[i].key # k
  <2>1. u = m
    BY <1>1, <1>2, FindMisses DEF Delete
  <2>2. \A q \in Pairs(m) : q[1] # k
    BY <1>2 DEF Pairs
  <2>3. QED
    BY <2>1, <2>2
<1>3. CASE \E i \in Entries(m) : m.entries[i].key = k
  <2>1. PICK i \in Entries(m) : m.entries[i].key = k
    BY <1>3
  <2>2. Find(m, k) = {i}
    BY <2>1, <1>1, FindFinds
  <2>3. (CHOOSE j \in {i} : TRUE) = i
    OBVIOUS
  <2>4. u = [m EXCEPT !.entries[i].key = Tombstone, !.entries[i].value = 0,
                      !.count = @ - 1, !.tombstones = @ + 1]
    BY <2>2, <2>3 DEF Delete
  <2> DEFINE n == m.capacity
  <2>5. i \in 0..n-1 /\ n # 0 /\ m.entries[i] \in Bucket
    BY <1>1, <2>1
  <2>6. /\ u.entries = [m.entries EXCEPT ![i] = [key |-> Tombstone, value |-> 0]]
        /\ u.count = m.count - 1 /\ u.tombstones = m.tombstones + 1 /\ u.capacity = n
        /\ u = [count |-> m.count - 1, entries |-> u.entries, capacity |-> n, tombstones |-> m.tombstones + 1]
    <3> DEFINE e1 == [m.entries EXCEPT ![i].key = Tombstone]
    <3> DEFINE e2 == [e1 EXCEPT ![i].value = 0]
    <3>1. m = [count |-> m.count, entries |-> m.entries, capacity |-> n, tombstones |-> m.tombstones]
      BY <1>1 DEF Table
    <3>2. m.entries[i] = [key |-> m.entries[i].key, value |-> m.entries[i].value]
      BY <2>5 DEF Bucket
    <3>3. DOMAIN m.entries = 0..n-1 /\ m.entries = [j \in 0..n-1 |-> m.entries[j]]
      BY <1>1
    <3>4. u = [[[[m EXCEPT !.entries = e1] EXCEPT !.entries = e2] EXCEPT !.count = m.count - 1] EXCEPT !.tombstones = m.tombstones + 1]
      BY <2>4, <3>1
    <3>5. e1[i] = [key |-> Tombstone, value |-> m.entries[i].value]
      BY <2>5, <3>2, <3>3
    <3>6. e2 = [m.entries EXCEPT ![i] = [key |-> Tombstone, value |-> 0]]
      <4>1. e1 = [m.entries EXCEPT ![i] = [key |-> Tombstone, value |-> m.entries[i].value]]
        <5>1. [m.entries[i] EXCEPT !.key = Tombstone] = [key |-> Tombstone, value |-> m.entries[i].value]
          BY <3>2
        <5>2. e1 = [m.entries EXCEPT ![i] = [m.entries[i] EXCEPT !.key = Tombstone]]
          OBVIOUS
        <5>3. QED
          BY <5>1, <5>2
      <4>2. e2 = [e1 EXCEPT ![i] = [e1[i] EXCEPT !.value = 0]]
        OBVIOUS
      <4>3. [e1[i] EXCEPT !.value = 0] = [key |-> Tombstone, value |-> 0]
        BY <3>5
      <4> HIDE DEF e1, e2
      <4>4. e2 = [e1 EXCEPT ![i] = [key |-> Tombstone, value |-> 0]]
        BY <4>2, <4>3
      <4>5. QED
        BY <4>1, <4>4, <3>3, <2>5
    <3> HIDE DEF e1, e2, n
    <3>7. u = [count |-> m.count - 1, entries |-> e2, capacity |-> n, tombstones |-> m.tombstones + 1]
      <4> DEFINE m1 == [count |-> m.count, entries |-> e1, capacity |-> n, tombstones |-> m.tombstones]
      <4> DEFINE m2 == [count |-> m.count, entries |-> e2, capacity |-> n, tombstones |-> m.tombstones]
      <4> DEFINE m3 == [count |-> m.count - 1, entries |-> e2, capacity |-> n, tombstones |-> m.tombstones]
      <4>1. [m EXCEPT !.entries = e1] = m1
        BY <3>1
      <4>2. [m1 EXCEPT !.entries = e2] = m2
        OBVIOUS
      <4>3. [m2 EXCEPT !.count = m.count - 1] = m3
        OBVIOUS
      <4>4. [m3 EXCEPT !.tombstones = m.tombstones + 1]
              = [count |-> m.count - 1, entries |-> e2, capacity |-> n, tombstones |-> m.tombstones + 1]
        OBVIOUS
      <4> HIDE DEF m1, m2, m3
      <4>5. QED
        BY <4>1, <4>2, <4>3, <4>4, <3>4
    <3>8. QED
      BY <3>6, <3>7
  <2> HIDE DEF n
  <2>7. /\ u.entries \in [0..n-1 -> Bucket] /\ u.entries[i].key = Tombstone
        /\ \A j \in 0..n-1 : j # i => u.entries[j] = m.entries[j]
    <3>1. [key |-> Tombstone, value |-> 0] \in Bucket
      BY DEF Bucket
    <3>2. QED
      BY <3>1, <2>5, <2>6, <1>1 DEF n
  <2>8. Table(u)
    BY <2>6, <2>7, <1>1 DEF Table, n
  <2>9. Entries(u) = {j \in 0..n-1 : u.entries[j].key \in Key} /\ Tombs(u) = {j \in 0..n-1 : u.entries[j].key = Tombstone}
    BY <2>6, <2>8, TableFacts
  <2>10. Entries(u) = Entries(m) \ {i} /\ Tombs(u) = Tombs(m) \cup {i} /\ i \notin Tombs(m)
    <3>1. Entries(m) = {j \in 0..n-1 : m.entries[j].key \in Key} /\ Tombs(m) = {j \in 0..n-1 : m.entries[j].key = Tombstone}
      BY <1>1 DEF n
    <3>2. Tombstone \notin Key /\ m.entries[i].key # Tombstone
      BY <2>1, MapAssumption
    <3>3. \A j \in 0..n-1 : j # i => u.entries[j].key = m.entries[j].key
      BY <2>7
    <3>4. Entries(u) = Entries(m) \ {i}
      BY <3>1, <3>2, <3>3, <2>5, <2>7, <2>9
    <3>5. Tombs(u) = Tombs(m) \cup {i}
      BY <3>1, <3>3, <2>5, <2>7, <2>9
    <3>6. QED
      BY <3>1, <3>2, <3>4, <3>5
  <2>11. Cardinality(Entries(u)) = u.count /\ Cardinality(Tombs(u)) = u.tombstones
    <3>1. Cardinality(Entries(m) \ {i}) = Cardinality(Entries(m)) - 1
      BY <2>1, <1>1, FS_RemoveElement
    <3>2. Cardinality(Tombs(m) \cup {i}) = Cardinality(Tombs(m)) + 1
      BY <2>10, <1>1, FS_AddElement
    <3>3. QED
      BY <3>1, <3>2, <2>6, <2>10, <1>1
  <2>12. Counted(u)
    BY <2>5, <2>6, <2>11, <1>1 DEF Counted, n
  <2>13. \A j \in Entries(u) : j \in Entries(m) /\ u.entries[j] = m.entries[j]
    BY <2>7, <2>9, <2>10
  <2>14. ASSUME NEW j \in Entries(u), NEW e \in 0..Distance(u, j)-1
         PROVE  u.entries[At(u, u.entries[j].key, e)].key # Empty
    <3>1. /\ j \in Entries(m) /\ u.entries[j] = m.entries[j] /\ Distance(u, j) = Distance(m, j)
          /\ At(u, u.entries[j].key, e) = At(m, m.entries[j].key, e)
      BY <2>6, <2>13 DEF Distance, At, n
    <3>2. /\ n \in Nat \ {0} /\ Distance(m, j) \in 0..n-1 /\ m.entries[j].key \in Key
          /\ m.entries[At(m, m.entries[j].key, e)].key # Empty
      BY <3>1, <1>1, KeyPlace DEF n
    <3>3. e \in 0..n-1
      BY <3>1, <3>2
    <3>4. At(m, m.entries[j].key, e) \in 0..n-1
      BY <3>2, <3>3, ProbeFacts DEF n
    <3>5. QED
      BY <3>1, <3>2, <3>4, <2>7, MapAssumption
  <2>15. Sound(u)
    <3>1. \A a, b \in Entries(m) : m.entries[a].key = m.entries[b].key => a = b
      BY <1>1 DEF Sound
    <3>2. \A a, b \in Entries(u) : u.entries[a].key = u.entries[b].key => a = b
      BY <3>1, <2>13
    <3>3. QED
      BY <3>2, <2>14 DEF Sound
  <2>16. Pairs(u) = {q \in Pairs(m) : q[1] # k}
    <3>1. \A j \in Entries(u) : m.entries[j].key # k
      BY <2>1, <2>10, <2>13, <1>1 DEF Sound
    <3>2. \A q \in Pairs(u) : q \in Pairs(m) /\ q[1] # k
      BY <3>1, <2>13 DEF Pairs
    <3>3. ASSUME NEW q \in Pairs(m), q[1] # k PROVE q \in Pairs(u)
      <4>1. PICK j \in Entries(m) : q = <<m.entries[j].key, m.entries[j].value>>
        BY DEF Pairs
      <4>2. j # i
        BY <4>1, <3>3, <2>1
      <4>3. j \in Entries(u) /\ u.entries[j] = m.entries[j]
        BY <4>2, <2>10, <2>13
      <4>4. QED
        BY <4>1, <4>3 DEF Pairs
    <3>4. QED
      BY <3>2, <3>3
  <2>17. QED
    BY <2>8, <2>12, <2>15, <2>16 DEF Good
<1>4. QED
  BY <1>2, <1>3

(***************************************************************************)
(* Copies.                                                                 *)
(***************************************************************************)

\* One step of the copy: entry i - 1 of m is set into the copy made so far.
Cloned(m, f, i) ==
  IF i = 0 THEN EmptyMap
  ELSE IF Live(m.entries[i-1]) THEN Set(f[i-1], m.entries[i-1])
  ELSE f[i-1]

LEMMA CloneDefined ==
  ASSUME NEW m, m.capacity \in Nat
  PROVE  \E f : (\A i \in 0..m.capacity : f[i] = Cloned(m, f, i)) /\ Clone(m) = f[m.capacity]
<1> DEFINE n == m.capacity
<1> DEFINE Upto(k) == \E f : f = [i \in 0..k |-> Cloned(m, f, i)]
<1> DEFINE S == {k \in 0..n : Upto(k)}
<1>1. Upto(0)
  <2> DEFINE f == [i \in 0..0 |-> Cloned(m, <<>>, 0)]
  <2>1. \A i \in 0..0 : Cloned(m, f, i) = Cloned(m, <<>>, 0)
    BY DEF Cloned
  <2>2. f = [i \in 0..0 |-> Cloned(m, f, i)]
    BY <2>1
  <2>3. QED
    BY <2>2
<1>2. ASSUME NEW k \in 0..n-1, Upto(k) PROVE Upto(k + 1)
  <2>1. PICK f : f = [i \in 0..k |-> Cloned(m, f, i)]
    BY <1>2
  <2> DEFINE g == [i \in 0..k+1 |-> Cloned(m, f, i)]
  <2>2. \A i \in 0..k : g[i] = f[i]
    BY <2>1
  <2>3. ASSUME NEW i \in 0..k+1 PROVE Cloned(m, g, i) = Cloned(m, f, i)
    <3>1. i # 0 => i - 1 \in 0..k
      OBVIOUS
    <3>2. i # 0 => g[i-1] = f[i-1]
      BY <3>1, <2>2
    <3> HIDE DEF g
    <3>3. QED
      BY <3>2 DEF Cloned
  <2>4. g = [i \in 0..k+1 |-> Cloned(m, g, i)]
    BY <2>3
  <2>5. QED
    BY <2>4
<1> HIDE DEF Upto
<1>3. 0 \in S /\ \A k \in 0..n-1 : k \in S => k + 1 \in S
  BY <1>1, <1>2
<1> HIDE DEF S
<1>4. n \in S
  BY <1>3, InductionTo
<1>5. Upto(n)
  BY <1>4 DEF S
<1> DEFINE F == CHOOSE f : f = [i \in 0..n |-> Cloned(m, f, i)]
<1>6. F = [i \in 0..n |-> Cloned(m, F, i)]
  BY <1>5 DEF Upto
<1>7. Clone(m) = F[n]
  BY DEF Clone, Cloned
<1> HIDE DEF F
<1>8. \A i \in 0..n : F[i] = Cloned(m, F, i)
  BY <1>6
<1>9. QED
  BY <1>7, <1>8

LEMMA EmptyMapGood == Good(EmptyMap) /\ Pairs(EmptyMap) = {}
<1>1. EmptyMap = [count |-> 0, entries |-> Buckets(0), capacity |-> 0, tombstones |-> 0]
  BY DEF EmptyMap
<1>2. Table(EmptyMap) /\ Sound(EmptyMap) /\ Entries(EmptyMap) = {} /\ Tombs(EmptyMap) = {} /\ Pairs(EmptyMap) = {}
  BY <1>1, BlankTable
<1>3. EmptyMap.count = 0 /\ EmptyMap.tombstones = 0 /\ EmptyMap.capacity = 0
  BY <1>1
<1>4. Counted(EmptyMap)
  BY <1>2, <1>3, FS_EmptySet DEF Counted
<1>5. QED
  BY <1>2, <1>4 DEF Good

\* A copy holds the pairs of the map it was made from.
LEMMA CloneSound ==
  ASSUME NEW m, Good(m), NEW u, u = Clone(m)
  PROVE  Good(u) /\ Pairs(u) = Pairs(m)
<1> DEFINE n == m.capacity
<1>1. Table(m) /\ Sound(m) /\ n \in Nat
  BY TableFacts DEF Good
<1>2. PICK f : (\A i \in 0..n : f[i] = Cloned(m, f, i)) /\ Clone(m) = f[n]
  BY <1>1, CloneDefined
<1> HIDE DEF n
<1>3. f[0] = EmptyMap
  BY <1>1, <1>2 DEF Cloned
<1>4. \A k \in 0..n-1 : f[k+1] = IF Live(m.entries[k]) THEN Set(f[k], m.entries[k]) ELSE f[k]
  <2> SUFFICES ASSUME NEW k \in 0..n-1
               PROVE f[k+1] = IF Live(m.entries[k]) THEN Set(f[k], m.entries[k]) ELSE f[k]
    OBVIOUS
  <2>1. k + 1 \in 0..n /\ k + 1 # 0 /\ (k + 1) - 1 = k
    BY <1>1
  <2>2. f[k+1] = Cloned(m, f, k+1)
    BY <1>2, <2>1
  <2>3. QED
    BY <2>1, <2>2 DEF Cloned
<1> DEFINE Built(i) == Good(f[i]) /\ Pairs(f[i]) = PairsBelow(m, i)
<1>5. Built(0)
  BY <1>1, <1>3, BelowFacts, EmptyMapGood
<1>6. ASSUME NEW k \in 0..n-1, Built(k) PROVE Built(k + 1)
  <2> DEFINE v == f[k]
  <2> DEFINE w == f[k+1]
  <2>1. Good(v) /\ Pairs(v) = PairsBelow(m, k)
    BY <1>6
  <2>2. w = IF Live(m.entries[k]) THEN Set(v, m.entries[k]) ELSE v
    BY <1>4
  <2> HIDE DEF v, w
  <2>3. CASE k \notin Entries(m)
    <3>1. ~ Live(m.entries[k]) /\ PairsBelow(m, k+1) = PairsBelow(m, k)
      BY <2>3, <1>1, BelowNext DEF n
    <3>2. w = v
      BY <3>1, <2>2
    <3>3. QED
      BY <3>1, <3>2, <2>1 DEF w
  <2>4. CASE k \in Entries(m)
    <3> DEFINE x == m.entries[k]
    <3>1. /\ Live(x) /\ x \in Bucket /\ x.key \in Key
          /\ PairsBelow(m, k+1) = PairsBelow(m, k) \cup {<<x.key, x.value>>}
          /\ \A q \in PairsBelow(m, k) : q[1] # x.key
      BY <2>4, <1>1, BelowNext DEF n
    <3>2. w = Set(v, x)
      BY <3>1, <2>2
    <3> HIDE DEF x
    <3>3. Good(w) /\ Pairs(w) = {q \in Pairs(v) : q[1] # x.key} \cup {<<x.key, x.value>>}
      BY <2>1, <3>1, <3>2, SetSound
    <3>4. Pairs(w) = PairsBelow(m, k+1)
      BY <3>1, <3>3, <2>1
    <3>5. QED
      BY <3>3, <3>4 DEF w
  <2>5. QED
    BY <2>3, <2>4
<1> DEFINE S == {i \in 0..n : Built(i)}
<1> HIDE DEF Built
<1>7. 0 \in S /\ \A k \in 0..n-1 : k \in S => k + 1 \in S
  BY <1>1, <1>5, <1>6
<1> HIDE DEF S
<1>8. n \in S
  BY <1>1, <1>7, InductionTo
<1>9. Built(n)
  BY <1>8 DEF S
<1>10. PairsBelow(m, n) = Pairs(m)
  BY <1>1, BelowFacts DEF n
<1>11. u = f[n]
  BY <1>2
<1>12. QED
  BY <1>9, <1>10, <1>11 DEF Built

(***************************************************************************)
(* The variable that holds a map.                                          *)
(***************************************************************************)

Graph(c) == {<<k, c[k]>> : k \in DOMAIN c}

\* The pairs of the table are what the program stored and has not deleted.
MapInv ==
  /\ Good(map)
  /\ contents = [k \in DOMAIN contents |-> contents[k]] /\ DOMAIN contents \subseteq Key
  /\ Pairs(map) = Graph(contents)

LEMMA MapInitHolds == MapInit => MapInv
<1>1. SUFFICES ASSUME MapInit PROVE MapInv
  OBVIOUS
<1>2. map = EmptyMap /\ contents = [k \in {} |-> 0]
  BY <1>1 DEF MapInit
<1>3. Graph(contents) = {} /\ DOMAIN contents = {}
  BY <1>2 DEF Graph
<1>4. Good(map) /\ Pairs(map) = {}
  BY <1>2, EmptyMapGood
<1>5. contents = [k \in DOMAIN contents |-> contents[k]]
  BY <1>2
<1>6. QED
  BY <1>3, <1>4, <1>5 DEF MapInv

LEMMA MapNextHolds == MapInv /\ [MapNext]_mapVars => MapInv'
<1>1. SUFFICES ASSUME MapInv, [MapNext]_mapVars PROVE MapInv'
  OBVIOUS
<1> DEFINE m == map
<1> DEFINE c == contents
<1> DEFINE u == map'
<1> DEFINE d == contents'
<1>2. Good(m) /\ DOMAIN c \subseteq Key /\ Pairs(m) = Graph(c)
  BY <1>1 DEF MapInv
<1>3. SUFFICES /\ Good(u) /\ d = [k \in DOMAIN d |-> d[k]] /\ DOMAIN d \subseteq Key
               /\ Pairs(u) = Graph(d)
  BY DEF MapInv, Good, Table, Sound, Counted, Pairs, Graph, Entries, Tombs, Live, Distance, At
<1>4. ASSUME NEW k \in Key, NEW v \in Value, Assign(k, v)
      PROVE  /\ Good(u) /\ d = [x \in DOMAIN d |-> d[x]] /\ DOMAIN d \subseteq Key
             /\ Pairs(u) = Graph(d)
  <2> DEFINE x == [key |-> k, value |-> v]
  <2>1. u = Set(m, x)
    BY <1>4 DEF Assign
  <2>2. d = [y \in DOMAIN c \cup {k} |-> IF y = k THEN v ELSE c[y]]
    BY <1>4 DEF Assign
  <2>3. x \in Bucket /\ x.key = k /\ x.value = v
    BY DEF Bucket
  <2> HIDE DEF m, c, u, d, x
  <2>4. Good(u) /\ Pairs(u) = {q \in Pairs(m) : q[1] # k} \cup {<<k, v>>}
    <3>1. x.key \in Key
      BY <2>3
    <3>2. Good(u) /\ Pairs(u) = {q \in Pairs(m) : q[1] # x.key} \cup {<<x.key, x.value>>}
      BY <3>1, <2>1, <2>3, <1>2, SetSound
    <3>3. QED
      BY <3>2, <2>3
  <2>5. DOMAIN d = DOMAIN c \cup {k} /\ d = [y \in DOMAIN d |-> d[y]]
    BY <2>2
  <2>6. Graph(d) = {q \in Graph(c) : q[1] # k} \cup {<<k, v>>}
    BY <2>2 DEF Graph
  <2>7. QED
    BY <2>4, <2>5, <2>6, <1>2
<1>5. ASSUME NEW k \in Key, Unset(k)
      PROVE  /\ Good(u) /\ d = [x \in DOMAIN d |-> d[x]] /\ DOMAIN d \subseteq Key
             /\ Pairs(u) = Graph(d)
  <2>1. u = Delete(m, k)
    BY <1>5 DEF Unset
  <2>2. d = [y \in DOMAIN c \ {k} |-> c[y]]
    BY <1>5 DEF Unset
  <2> HIDE DEF m, c, u, d
  <2>3. Good(u) /\ Pairs(u) = {q \in Pairs(m) : q[1] # k}
    BY <2>1, <1>2, DeleteSound
  <2>4. DOMAIN d = DOMAIN c \ {k} /\ d = [y \in DOMAIN d |-> d[y]]
    BY <2>2
  <2>5. Graph(d) = {q \in Graph(c) : q[1] # k}
    BY <2>2 DEF Graph
  <2>6. QED
    BY <2>3, <2>4, <2>5, <1>2
<1>6. ASSUME Copy
      PROVE  /\ Good(u) /\ d = [x \in DOMAIN d |-> d[x]] /\ DOMAIN d \subseteq Key
             /\ Pairs(u) = Graph(d)
  <2>1. u = Clone(m) /\ d = c /\ c = [x \in DOMAIN c |-> c[x]]
    BY <1>1, <1>6 DEF Copy, MapInv
  <2> HIDE DEF m, c, u, d
  <2>2. Good(u) /\ Pairs(u) = Pairs(m)
    BY <2>1, <1>2, CloneSound
  <2>3. QED
    BY <2>1, <2>2, <1>2
<1>7. ASSUME UNCHANGED mapVars
      PROVE  /\ Good(u) /\ d = [x \in DOMAIN d |-> d[x]] /\ DOMAIN d \subseteq Key
             /\ Pairs(u) = Graph(d)
  <2>1. u = m /\ d = c /\ c = [x \in DOMAIN c |-> c[x]]
    BY <1>1, <1>7 DEF mapVars, MapInv
  <2> HIDE DEF m, c, u, d
  <2>2. QED
    BY <2>1, <1>2
<1>8. QED
  BY <1>1, <1>4, <1>5, <1>6, <1>7 DEF MapNext

\* A table whose pairs are the program's answers every question about them as it should.
LEMMA MapInvSuffices == MapInv => MapExact
<1>1. SUFFICES ASSUME MapInv PROVE MapExact
  OBVIOUS
<1> DEFINE E == Entries(map)
<1> DEFINE D == DOMAIN contents
<1> DEFINE key == [i \in E |-> map.entries[i].key]
<1>2. /\ Table(map) /\ Sound(map) /\ Counted(map) /\ D \subseteq Key /\ Pairs(map) = Graph(contents)
      /\ IsFiniteSet(E) /\ map.capacity \in Nat /\ DOMAIN map.entries = 0..map.capacity-1
      /\ \A i \in E : map.entries[i].key \in Key
  BY <1>1, TableFacts, TableFinite DEF MapInv, Good
<1>3. \A i \in E : map.entries[i].key \in D /\ map.entries[i].value = contents[map.entries[i].key]
  <2> SUFFICES ASSUME NEW i \in E
               PROVE  map.entries[i].key \in D /\ map.entries[i].value = contents[map.entries[i].key]
    OBVIOUS
  <2>1. <<map.entries[i].key, map.entries[i].value>> \in Graph(contents)
    BY <1>2 DEF Pairs
  <2>2. QED
    BY <2>1 DEF Graph
<1>4. ASSUME NEW k \in D PROVE \E i \in E : map.entries[i].key = k /\ map.entries[i].value = contents[k]
  <2>1. <<k, contents[k]>> \in Pairs(map)
    BY <1>2 DEF Graph
  <2>2. QED
    BY <2>1 DEF Pairs
<1>5. ASSUME NEW k \in Key
      PROVE  {map.entries[i].value : i \in Find(map, k)} = IF k \in DOMAIN contents THEN {contents[k]} ELSE {}
  <2>1. CASE k \in D
    <3>1. PICK i \in E : map.entries[i].key = k /\ map.entries[i].value = contents[k]
      BY <2>1, <1>4
    <3>2. Find(map, k) = {i}
      BY <3>1, <1>2, FindFinds
    <3>3. QED
      BY <3>1, <3>2, <2>1
  <2>2. CASE k \notin D
    <3>1. \A i \in E : map.entries[i].key # k
      BY <2>2, <1>3
    <3>2. Find(map, k) = {}
      BY <3>1, <1>2, FindMisses
    <3>3. QED
      BY <3>2, <2>2
  <2>3. QED
    BY <2>1, <2>2
<1>6. {map.entries[i].key : i \in E} = D
  BY <1>3, <1>4
<1>7. Cardinality(E) = Cardinality(D)
  <2>1. \A i, j \in E : key[i] = key[j] => i = j
    BY <1>2 DEF Sound
  <2>2. key \in [E -> D] /\ \A k \in D : \E i \in E : key[i] = k
    BY <1>3, <1>4
  <2> HIDE DEF E, D, key
  <2>3. key \in Bijection(E, D)
    BY <2>1, <2>2 DEF Bijection, Injection, Surjection, IsInjective
  <2>4. ExistsBijection(E, D)
    BY <2>3 DEF ExistsBijection
  <2>5. QED
    BY <2>4, <1>2, FS_Bijection
<1>8. map.count = Cardinality(E) /\ map.tombstones = Cardinality(Tombs(map))
  BY <1>2 DEF Counted
<1>9. map.capacity > 0 => \E i \in 0..map.capacity-1 : map.entries[i].key = Empty
  <2>1. map.capacity > 0 => Cardinality(Entries(map)) + Cardinality(Tombs(map)) < map.capacity
    BY <1>2 DEF Counted
  <2>2. QED
    BY <2>1, <1>2, BucketLeft
<1>10. QED
  BY <1>2, <1>5, <1>6, <1>7, <1>8, <1>9 DEF MapExact, Tombs

\* runtime/festina_runtime.c: a map answers what was stored last under a key and not deleted
\* since, meets every key once on a walk, counts its entries, and keeps a bucket that was
\* never used, through growth, reused tombstones and copies.
THEOREM MapIsExact == MapSpec => []MapExact
<1>1. MapSpec => []MapInv
  BY MapInitHolds, MapNextHolds, PTL DEF MapSpec
<1>2. QED
  BY <1>1, MapInvSuffices, PTL

Kinds == {"function", "block", "loop", "try", "catch", "builder"}
Values == Seq(Nat)
ScopeType == [kind : Kinds, guarded : Values, locals : Values, temps : Values]
FrameType == [depth : Nat, at : Nat]

\* The values of expressions that are not finished.
Unbound(s) == FlattenSeq([i \in DOMAIN s |-> s[i].temps])

\* How scopes lie in each other: a function's body begins a call, an expression is left
\* unfinished only by a call or a parse in it, and a parse runs nothing but itself.
Nested(s) ==
  /\ s # << >> => s[1].kind = "function"
  /\ \A i \in DOMAIN s : i + 1 \in DOMAIN s =>
       /\ s[i+1].kind \notin {"function", "builder"} => s[i].temps = << >>
       /\ s[i].kind = "builder" => s[i+1].kind = "builder"
  /\ \A i \in DOMAIN s : s[i].kind = "builder" =>
       Len(s[i].guarded) = 1 /\ s[i].locals = << >> /\ s[i].temps = << >>

\* One catch frame for each try body, in their order, with what was registered before it.
Framed(c, s) ==
  /\ {c[i].at + 1 : i \in DOMAIN c} = TryAt(s)
  /\ \A i, j \in DOMAIN c : i < j => c[i].at < c[j].at
  /\ \A i \in DOMAIN c : c[i].depth = Len(Owned(SubSeq(s, 1, c[i].at)))

\* Each value that was made is in one place: owned by a scope, in an unfinished expression,
\* lost, or released.
Conserved(s, m, r, l) ==
  \A v \in 1..MaxValues :
    r[v] + Occurrences(Owned(s), v) + Occurrences(Unbound(s), v) + (IF v \in l THEN 1 ELSE 0)
      = IF v <= m THEN 1 ELSE 0

UnwindTyped ==
  /\ scopes \in Seq(ScopeType) /\ catches \in Seq(FrameType) /\ made \in 0..MaxValues
  /\ released \in [1..MaxValues -> Nat]

UnwindInv ==
  /\ UnwindTyped /\ Nested(scopes) /\ cleanup = Owned(scopes) /\ Framed(catches, scopes)
  /\ Conserved(scopes, made, released, lost)

LEMMA InductionAt ==
  ASSUME NEW n \in Nat, NEW S, 0 \in S, \A k \in 0..n-1 : k \in S => k + 1 \in S
  PROVE  n \in S
<1>1. 0..n \subseteq S
  BY InductionTo
<1>2. n \in 0..n
  OBVIOUS
<1>3. QED
  BY <1>1, <1>2

(***************************************************************************)
(* Sequences, cut and put together.                                        *)
(***************************************************************************)

LEMMA Cut ==
  ASSUME NEW S, NEW s \in Seq(S), NEW b \in 0..Len(s)
  PROVE  /\ SubSeq(s, 1, b) \in Seq(S) /\ Len(SubSeq(s, 1, b)) = b
         /\ SubSeq(s, b + 1, Len(s)) \in Seq(S) /\ Len(SubSeq(s, b + 1, Len(s))) = Len(s) - b
         /\ s = SubSeq(s, 1, b) \o SubSeq(s, b + 1, Len(s))
         /\ \A i \in 1..b : SubSeq(s, 1, b)[i] = s[i]
         /\ \A i \in 1..Len(s)-b : SubSeq(s, b + 1, Len(s))[i] = s[b+i]
<1> DEFINE p == SubSeq(s, 1, b)
<1> DEFINE q == SubSeq(s, b + 1, Len(s))
<1>1. Len(s) \in Nat /\ b \in Nat /\ b <= Len(s)
  BY LenProperties
<1>2. p \in Seq(S) /\ Len(p) = b /\ \A i \in 1..b : p[i] = s[i]
  <2>1. \A i \in 1..b : s[i] \in S
    BY <1>1
  <2>2. /\ p \in Seq(S)
        /\ Len(p) = IF 1 <= b THEN b - 1 + 1 ELSE 0
        /\ \A i \in 1..b-1+1 : p[i] = s[1+i-1]
    BY <2>1, <1>1, SubSeqProperties
  <2>3. QED
    BY <2>2, <1>1
<1>3. q \in Seq(S) /\ Len(q) = Len(s) - b /\ \A i \in 1..Len(s)-b : q[i] = s[b+i]
  <2>1. \A i \in b+1..Len(s) : s[i] \in S
    BY <1>1
  <2>2. /\ q \in Seq(S)
        /\ Len(q) = IF b + 1 <= Len(s) THEN Len(s) - (b + 1) + 1 ELSE 0
        /\ \A i \in 1..Len(s)-(b+1)+1 : q[i] = s[(b+1)+i-1]
    BY <2>1, <1>1, SubSeqProperties
  <2>3. QED
    BY <2>2, <1>1
<1>4. s = p \o q
  <2>1. SubSeq(s, 1, b) \o SubSeq(s, b+1, Len(s)) = SubSeq(s, 1, Len(s))
    <3>1. 1 \in 1..Len(s)+1 /\ b \in 1-1..Len(s) /\ Len(s) \in b..Len(s)
      BY <1>1
    <3>2. QED
      BY <3>1, ConcatAdjacentSubSeq
  <2>2. QED
    BY <2>1, SubSeqFull
<1>5. QED
  BY <1>2, <1>3, <1>4

\* A sequence and its last element.
LEMMA FrontLast ==
  ASSUME NEW S, NEW s \in Seq(S), s # << >>
  PROVE  /\ Front(s) \in Seq(S) /\ Last(s) \in S /\ s = Append(Front(s), Last(s))
         /\ Len(s) \in Nat \ {0} /\ Len(Front(s)) = Len(s) - 1 /\ Last(s) = s[Len(s)]
         /\ \A i \in 1..Len(s)-1 : Front(s)[i] = s[i]
<1>1. Len(s) \in Nat \ {0} /\ Last(s) = s[Len(s)]
  BY EmptySeq DEF Last
<1>2. Len(s) - 1 \in 0..Len(s)
  BY <1>1
<1>3. /\ Front(s) \in Seq(S) /\ Len(Front(s)) = Len(s) - 1
      /\ \A i \in 1..Len(s)-1 : Front(s)[i] = s[i]
  BY <1>2, Cut DEF Front
<1>4. Last(s) \in S
  BY <1>1
<1>5. s = Append(Front(s), Last(s))
  <2> DEFINE t == Append(Front(s), Last(s))
  <2>1. /\ t \in Seq(S) /\ Len(t) = Len(s)
        /\ \A i \in 1..Len(s)-1 : t[i] = s[i]
        /\ t[Len(s)] = s[Len(s)]
    BY <1>1, <1>3, <1>4, AppendProperties
  <2> HIDE DEF t
  <2>2. \A i \in 1..Len(s) : s[i] = t[i]
    BY <2>1, <1>1
  <2>3. s = t
    BY <2>1, <2>2, SeqEqual
  <2>4. QED
    BY <2>3 DEF t
<1>6. QED
  BY <1>1, <1>3, <1>4, <1>5

\* The prefixes of a sequence: one more element, and the whole.
LEMMA OneMore ==
  ASSUME NEW S, NEW s \in Seq(S)
  PROVE  /\ SubSeq(s, 1, 0) = << >> /\ SubSeq(s, 1, Len(s)) = s /\ Len(s) \in Nat
         /\ \A k \in 0..Len(s)-1 : /\ SubSeq(s, 1, k) \in Seq(S) /\ s[k+1] \in S
                                   /\ SubSeq(s, 1, k+1) = Append(SubSeq(s, 1, k), s[k+1])
<1>1. SubSeq(s, 1, 0) = << >> /\ SubSeq(s, 1, Len(s)) = s /\ Len(s) \in Nat
  BY SubSeqEmpty, SubSeqFull, LenProperties
<1>2. ASSUME NEW k \in 0..Len(s)-1
      PROVE  /\ SubSeq(s, 1, k) \in Seq(S) /\ s[k+1] \in S
             /\ SubSeq(s, 1, k+1) = Append(SubSeq(s, 1, k), s[k+1])
  <2> DEFINE p == SubSeq(s, 1, k)
  <2> DEFINE t == SubSeq(s, 1, k+1)
  <2>1. k \in 0..Len(s) /\ k + 1 \in 0..Len(s) /\ k + 1 \in 1..Len(s)
    BY <1>1
  <2>2. p \in Seq(S) /\ Len(p) = k /\ \A i \in 1..k : p[i] = s[i]
    BY <2>1, Cut
  <2>3. t \in Seq(S) /\ Len(t) = k + 1 /\ \A i \in 1..k+1 : t[i] = s[i]
    BY <2>1, Cut
  <2>4. s[k+1] \in S
    BY <2>1
  <2> HIDE DEF p, t
  <2> DEFINE u == Append(p, s[k+1])
  <2>5. u \in Seq(S) /\ Len(u) = k + 1 /\ (\A i \in 1..k : u[i] = s[i]) /\ u[k+1] = s[k+1]
    BY <2>2, <2>4, AppendProperties
  <2> HIDE DEF u
  <2>6. \A i \in 1..k+1 : t[i] = u[i]
    BY <2>3, <2>5
  <2>7. t = u
    BY <2>3, <2>5, <2>6, SeqEqual
  <2>8. QED
    BY <2>2, <2>4, <2>7 DEF p, t, u
<1>3. QED
  BY <1>1, <1>2

\* What holds of the empty sequence and of one more element, for a set of prefixes.
LEMMA OverPrefixes ==
  ASSUME NEW S, NEW s \in Seq(S), NEW G, 0 \in G, \A k \in 0..Len(s)-1 : k \in G => k + 1 \in G
  PROVE  Len(s) \in G
<1>1. Len(s) \in Nat
  BY LenProperties
<1>2. QED
  BY <1>1, InductionAt

LEMMA AppendConcat ==
  ASSUME NEW S, NEW s \in Seq(S), NEW t \in Seq(S), NEW x \in S
  PROVE  s \o Append(t, x) = Append(s \o t, x)
<1>1. Append(t, x) = t \o <<x>> /\ <<x>> \in Seq(S)
  BY AppendIsConcat
<1>2. s \o t \in Seq(S)
  BY ConcatProperties
<1>3. Append(s \o t, x) = (s \o t) \o <<x>>
  BY <1>2, AppendIsConcat
<1>4. (s \o t) \o <<x>> = s \o (t \o <<x>>)
  BY <1>1, ConcatAssociative
<1>5. QED
  BY <1>1, <1>3, <1>4

\* The two parts of a concatenation.
LEMMA ConcatParts ==
  ASSUME NEW S, NEW s \in Seq(S), NEW t \in Seq(S)
  PROVE  /\ SubSeq(s \o t, 1, Len(s)) = s /\ SubSeq(s \o t, Len(s) + 1, Len(s \o t)) = t
         /\ Len(s \o t) = Len(s) + Len(t) /\ Len(s) \in Nat /\ Len(t) \in Nat
<1> DEFINE u == s \o t
<1> DEFINE p == SubSeq(u, 1, Len(s))
<1> DEFINE q == SubSeq(u, Len(s) + 1, Len(u))
<1>1. Len(s) \in Nat /\ Len(t) \in Nat
  BY LenProperties
<1>2. /\ u \in Seq(S) /\ Len(u) = Len(s) + Len(t)
      /\ \A i \in 1..Len(s)+Len(t) : u[i] = IF i <= Len(s) THEN s[i] ELSE t[i - Len(s)]
  BY ConcatProperties
<1> HIDE DEF u
<1>3. Len(s) \in 0..Len(u)
  BY <1>1, <1>2
<1>4. /\ p \in Seq(S) /\ q \in Seq(S) /\ Len(p) = Len(s) /\ Len(q) = Len(u) - Len(s)
      /\ \A i \in 1..Len(s) : p[i] = u[i]
      /\ \A i \in 1..Len(u)-Len(s) : q[i] = u[Len(s)+i]
  BY <1>2, <1>3, Cut
<1> HIDE DEF p, q
<1>5. p = s
  <2>1. \A i \in 1..Len(p) : p[i] = s[i]
    BY <1>1, <1>2, <1>4
  <2>2. QED
    BY <2>1, <1>4, SeqEqual
<1>6. q = t
  <2>1. Len(q) = Len(t)
    BY <1>1, <1>2, <1>4
  <2>2. ASSUME NEW i \in 1..Len(q) PROVE q[i] = t[i]
    <3>1. /\ i \in 1..Len(u)-Len(s) /\ Len(s) + i \in 1..Len(s)+Len(t)
          /\ ~(Len(s) + i <= Len(s)) /\ (Len(s) + i) - Len(s) = i
      BY <2>1, <1>1, <1>2
    <3>2. q[i] = u[Len(s)+i] /\ u[Len(s)+i] = t[(Len(s) + i) - Len(s)]
      BY <3>1, <1>2, <1>4
    <3>3. QED
      BY <3>1, <3>2
  <2>3. QED
    BY <2>1, <2>2, <1>4, SeqEqual
<1>7. QED
  BY <1>1, <1>2, <1>5, <1>6 DEF p, q, u

(***************************************************************************)
(* Sequences of sequences.                                                 *)
(***************************************************************************)

\* What is put together up to place i.
Flattened(t, f, i) == IF i = 1 THEN t[i] ELSE f[i-1] \o t[i]

LEMMA FlattenDefined ==
  ASSUME NEW t, Len(t) \in Nat \ {0}
  PROVE  \E f : /\ f[1] = t[1] /\ \A i \in 1..Len(t)-1 : f[i+1] = f[i] \o t[i+1]
                /\ FlattenSeq(t) = f[Len(t)]
<1> DEFINE n == Len(t)
<1> DEFINE Upto(k) == \E f : f = [i \in 1..k |-> Flattened(t, f, i)]
<1> DEFINE G == {k \in 0..n : Upto(k)}
<1>1. Upto(0)
  <2> DEFINE f == [i \in 1..0 |-> Flattened(t, << >>, 1)]
  <2>1. f = [i \in 1..0 |-> Flattened(t, f, i)]
    OBVIOUS
  <2>2. QED
    BY <2>1
<1>2. ASSUME NEW k \in 0..n-1, Upto(k) PROVE Upto(k + 1)
  <2>1. PICK f : f = [i \in 1..k |-> Flattened(t, f, i)]
    BY <1>2
  <2> DEFINE g == [i \in 1..k+1 |-> Flattened(t, f, i)]
  <2>2. \A i \in 1..k : g[i] = f[i]
    BY <2>1
  <2>3. ASSUME NEW i \in 1..k+1 PROVE Flattened(t, g, i) = Flattened(t, f, i)
    <3>1. i # 1 => i - 1 \in 1..k
      OBVIOUS
    <3>2. i # 1 => g[i-1] = f[i-1]
      BY <3>1, <2>2
    <3> HIDE DEF g
    <3>3. QED
      BY <3>2 DEF Flattened
  <2>4. g = [i \in 1..k+1 |-> Flattened(t, g, i)]
    BY <2>3
  <2>5. QED
    BY <2>4
<1> HIDE DEF Upto
<1>3. 0 \in G /\ \A k \in 0..n-1 : k \in G => k + 1 \in G
  BY <1>1, <1>2
<1> HIDE DEF G
<1>4. n \in G
  <2>1. n \in Nat
    OBVIOUS
  <2> HIDE DEF n
  <2>2. QED
    BY <2>1, <1>3, InductionAt
<1>5. Upto(n)
  BY <1>4 DEF G
<1> DEFINE F == CHOOSE f : f = [i \in 1..n |-> Flattened(t, f, i)]
<1>6. F = [i \in 1..n |-> Flattened(t, F, i)]
  BY <1>5 DEF Upto
<1>7. FlattenSeq(t) = F[n]
  BY DEF FlattenSeq, Flattened
<1> HIDE DEF F
<1>8. F[1] = t[1]
  <2>1. 1 \in 1..n
    OBVIOUS
  <2>2. F[1] = Flattened(t, F, 1)
    BY <2>1, <1>6
  <2>3. QED
    BY <2>2 DEF Flattened
<1>9. ASSUME NEW i \in 1..n-1 PROVE F[i+1] = F[i] \o t[i+1]
  <2>1. i + 1 \in 1..n /\ i + 1 # 1 /\ (i + 1) - 1 = i
    OBVIOUS
  <2>2. F[i+1] = Flattened(t, F, i+1)
    BY <2>1, <1>6
  <2>3. QED
    BY <2>1, <2>2 DEF Flattened
<1>10. QED
  BY <1>7, <1>8, <1>9

LEMMA FlattenAppend ==
  ASSUME NEW V, NEW t \in Seq(Seq(V)), NEW x \in Seq(V)
  PROVE  FlattenSeq(<< >>) = << >> /\ FlattenSeq(Append(t, x)) = FlattenSeq(t) \o x
<1> DEFINE u == Append(t, x)
<1> DEFINE n == Len(t)
<1>1. /\ n \in Nat /\ u \in Seq(Seq(V)) /\ Len(u) = n + 1 /\ \A i \in 1..n : u[i] = t[i]
      /\ u[n+1] = x
  BY LenProperties, AppendProperties
<1>2. FlattenSeq(<< >>) = << >>
  BY EmptySeq DEF FlattenSeq
<1> HIDE DEF u
<1>3. PICK g : /\ g[1] = u[1] /\ \A i \in 1..n : g[i+1] = g[i] \o u[i+1]
               /\ FlattenSeq(u) = g[n+1]
  <2>1. Len(u) \in Nat \ {0} /\ Len(u) - 1 = n
    BY <1>1
  <2>2. \E g : /\ g[1] = u[1] /\ \A i \in 1..Len(u)-1 : g[i+1] = g[i] \o u[i+1]
               /\ FlattenSeq(u) = g[Len(u)]
    BY <2>1, FlattenDefined
  <2>3. QED
    BY <2>1, <2>2, <1>1
<1>4. CASE n = 0
  <2>1. t = << >>
    BY <1>4
  <2>2. FlattenSeq(u) = x
    BY <1>1, <1>3, <1>4
  <2>3. << >> \o x = x
    BY ConcatEmptySeq
  <2>4. QED
    BY <2>1, <2>2, <2>3, <1>2 DEF u
<1>5. CASE n # 0
  <2>1. PICK f : /\ f[1] = t[1] /\ \A i \in 1..n-1 : f[i+1] = f[i] \o t[i+1]
                 /\ FlattenSeq(t) = f[n]
    BY <1>1, <1>5, FlattenDefined
  <2> DEFINE G == {k \in 0..n-1 : g[k+1] = f[k+1]}
  <2>2. 0 \in G
    BY <2>1, <1>1, <1>3, <1>5
  <2>3. ASSUME NEW k \in 0..(n-1)-1, k \in G PROVE k + 1 \in G
    <3>a. n \in Nat /\ k \in 0..(n-1)-1
      BY <1>1
    <3>1. k + 1 \in 1..n-1 /\ k + 1 \in 1..n /\ (k + 1) + 1 \in 1..n /\ k + 1 \in 0..n-1
      BY ONLY <3>a
    <3>2. g[(k+1)+1] = g[k+1] \o u[(k+1)+1] /\ f[(k+1)+1] = f[k+1] \o t[(k+1)+1]
      BY <3>1, <1>3, <2>1
    <3>3. g[k+1] = f[k+1]
      BY <2>3
    <3>4. QED
      BY <3>1, <3>2, <3>3, <1>1
  <2>4. n - 1 \in Nat /\ 0 \in G /\ \A k \in 0..(n-1)-1 : k \in G => k + 1 \in G
    BY <2>2, <2>3, <1>1, <1>5
  <2> HIDE DEF G
  <2>5. n - 1 \in G
    <3> DEFINE b == n - 1
    <3>1. b \in Nat /\ 0 \in G /\ \A k \in 0..b-1 : k \in G => k + 1 \in G
      BY <2>4
    <3> HIDE DEF b
    <3>2. b \in G
      BY <3>1, InductionAt
    <3>3. QED
      BY <3>2 DEF b
  <2>6. g[n] = f[n]
    BY <2>5, <1>1 DEF G
  <2>7. n \in 1..n
    BY <1>1, <1>5
  <2>8. g[n+1] = g[n] \o x
    BY <2>7, <1>1, <1>3
  <2>9. QED
    BY <2>1, <2>6, <2>8, <1>2, <1>3 DEF u
<1>6. QED
  BY <1>4, <1>5

LEMMA FlattenType ==
  ASSUME NEW V, NEW t \in Seq(Seq(V))
  PROVE  FlattenSeq(t) \in Seq(V)
<1> DEFINE G == {k \in 0..Len(t) : FlattenSeq(SubSeq(t, 1, k)) \in Seq(V)}
<1>1. /\ SubSeq(t, 1, 0) = << >> /\ SubSeq(t, 1, Len(t)) = t /\ Len(t) \in Nat
      /\ \A k \in 0..Len(t)-1 : /\ SubSeq(t, 1, k) \in Seq(Seq(V)) /\ t[k+1] \in Seq(V)
                                /\ SubSeq(t, 1, k+1) = Append(SubSeq(t, 1, k), t[k+1])
  BY OneMore
<1>2. 0 \in G
  <2>1. FlattenSeq(<< >>) = << >>
    BY EmptySeq DEF FlattenSeq
  <2>2. << >> \in Seq(V)
    BY EmptySeq
  <2>3. FlattenSeq(SubSeq(t, 1, 0)) \in Seq(V)
    BY <2>1, <2>2, <1>1
  <2>4. 0 \in 0..Len(t)
    BY <1>1
  <2>5. QED
    BY <2>3, <2>4
<1>3. ASSUME NEW k \in 0..Len(t)-1, k \in G PROVE k + 1 \in G
  <2> DEFINE p == SubSeq(t, 1, k)
  <2>1. p \in Seq(Seq(V)) /\ t[k+1] \in Seq(V) /\ SubSeq(t, 1, k+1) = Append(p, t[k+1])
    BY <1>1
  <2>2. FlattenSeq(p) \in Seq(V)
    BY <1>3
  <2> HIDE DEF p
  <2>3. FlattenSeq(Append(p, t[k+1])) = FlattenSeq(p) \o t[k+1]
    BY <2>1, FlattenAppend
  <2>4. FlattenSeq(p) \o t[k+1] \in Seq(V)
    BY <2>1, <2>2, ConcatProperties
  <2>5. FlattenSeq(SubSeq(t, 1, k+1)) \in Seq(V)
    BY <2>1, <2>3, <2>4
  <2>6. k + 1 \in 0..Len(t)
    BY <1>1
  <2>7. QED
    BY <2>5, <2>6
<1>4. 0 \in G /\ \A k \in 0..Len(t)-1 : k \in G => k + 1 \in G
  BY <1>2, <1>3
<1> HIDE DEF G
<1>5. Len(t) \in G
  BY <1>4, OverPrefixes
<1>6. QED
  BY <1>1, <1>5 DEF G

LEMMA FlattenConcat ==
  ASSUME NEW V, NEW s \in Seq(Seq(V)), NEW t \in Seq(Seq(V))
  PROVE  FlattenSeq(s \o t) = FlattenSeq(s) \o FlattenSeq(t)
<1> DEFINE H == {p \in Seq(Seq(V)) : FlattenSeq(s \o p) = FlattenSeq(s) \o FlattenSeq(p)}
<1> DEFINE G == {k \in 0..Len(t) : SubSeq(t, 1, k) \in H}
<1>1. /\ SubSeq(t, 1, 0) = << >> /\ SubSeq(t, 1, Len(t)) = t /\ Len(t) \in Nat
      /\ \A k \in 0..Len(t)-1 : /\ SubSeq(t, 1, k) \in Seq(Seq(V)) /\ t[k+1] \in Seq(V)
                                /\ SubSeq(t, 1, k+1) = Append(SubSeq(t, 1, k), t[k+1])
  BY OneMore
<1>2. << >> \in H
  <2>1. FlattenSeq(<< >>) = << >> /\ << >> \in Seq(Seq(V))
    BY EmptySeq DEF FlattenSeq
  <2>2. s \o << >> = s
    BY ConcatEmptySeq
  <2>3. FlattenSeq(s) \o << >> = FlattenSeq(s)
    BY FlattenType, ConcatEmptySeq
  <2>4. QED
    BY <2>1, <2>2, <2>3
<1>3. ASSUME NEW p \in H, NEW x \in Seq(V) PROVE Append(p, x) \in H
  <2>1. p \in Seq(Seq(V)) /\ FlattenSeq(s \o p) = FlattenSeq(s) \o FlattenSeq(p)
    BY <1>3
  <2>2. s \o Append(p, x) = Append(s \o p, x) /\ s \o p \in Seq(Seq(V)) /\ Append(p, x) \in Seq(Seq(V))
    BY <2>1, AppendConcat, ConcatProperties, AppendProperties
  <2>3. FlattenSeq(Append(s \o p, x)) = FlattenSeq(s \o p) \o x
    BY <2>2, FlattenAppend
  <2>4. FlattenSeq(Append(p, x)) = FlattenSeq(p) \o x
    BY <2>1, FlattenAppend
  <2>5. FlattenSeq(s) \in Seq(V) /\ FlattenSeq(p) \in Seq(V)
    BY <2>1, FlattenType
  <2>6. (FlattenSeq(s) \o FlattenSeq(p)) \o x = FlattenSeq(s) \o (FlattenSeq(p) \o x)
    <3> DEFINE fs == FlattenSeq(s)
    <3> DEFINE fp == FlattenSeq(p)
    <3>1. fs \in Seq(V) /\ fp \in Seq(V) /\ x \in Seq(V)
      BY <2>5
    <3> HIDE DEF fs, fp
    <3>2. (fs \o fp) \o x = fs \o (fp \o x)
      BY <3>1, ConcatAssociative, SMTT(60)
    <3>3. QED
      BY <3>2 DEF fs, fp
  <2>7. FlattenSeq(s \o Append(p, x)) = FlattenSeq(s) \o FlattenSeq(Append(p, x))
    <3>1. FlattenSeq(s \o Append(p, x)) = FlattenSeq(s \o p) \o x
      BY <2>2, <2>3, Zenon
    <3>2. FlattenSeq(s \o p) \o x = (FlattenSeq(s) \o FlattenSeq(p)) \o x
      BY <2>1, Zenon
    <3>3. FlattenSeq(s) \o (FlattenSeq(p) \o x) = FlattenSeq(s) \o FlattenSeq(Append(p, x))
      BY <2>4, Zenon
    <3>4. QED
      BY <3>1, <3>2, <3>3, <2>6, Zenon
  <2>8. QED
    BY <2>2, <2>7
<1> HIDE DEF H
<1>4. 0 \in G
  <2>1. 0 \in 0..Len(t)
    BY <1>1
  <2>2. SubSeq(t, 1, 0) \in H
    BY <1>1, <1>2, Zenon
  <2>3. QED
    BY <2>1, <2>2, Zenon
<1>5. ASSUME NEW k \in 0..Len(t)-1, k \in G PROVE k + 1 \in G
  <2>1. SubSeq(t, 1, k) \in H
    BY <1>5
  <2>2. Append(SubSeq(t, 1, k), t[k+1]) \in H
    BY <2>1, <1>1, <1>3
  <2>3. k + 1 \in 0..Len(t)
    BY <1>1
  <2>4. SubSeq(t, 1, k+1) \in H
    BY <2>2, <1>1, Zenon
  <2>5. QED
    BY <2>3, <2>4, Zenon
<1>6. 0 \in G /\ \A k \in 0..Len(t)-1 : k \in G => k + 1 \in G
  BY <1>4, <1>5
<1> HIDE DEF G
<1>7. Len(t) \in G
  BY <1>6, OverPrefixes
<1>8. t \in H
  BY <1>1, <1>7 DEF G
<1>9. QED
  BY <1>8 DEF H

(***************************************************************************)
(* How often a value occurs.                                               *)
(***************************************************************************)

LEMMA OccurrencesType ==
  ASSUME NEW V, NEW s \in Seq(V), NEW v
  PROVE  Occurrences(s, v) \in Nat /\ IsFiniteSet({i \in DOMAIN s : s[i] = v})
<1> DEFINE A == {i \in DOMAIN s : s[i] = v}
<1>1. A \in SUBSET (1..Len(s)) /\ Len(s) \in Nat
  BY LenProperties
<1>2. IsFiniteSet(1..Len(s))
  BY <1>1, FS_Interval
<1>3. IsFiniteSet(A)
  BY <1>1, <1>2, FS_Subset
<1>4. QED
  BY <1>3, FS_CardinalityType DEF Occurrences

LEMMA OccurrencesAppend ==
  ASSUME NEW V, NEW s \in Seq(V), NEW x \in V, NEW v
  PROVE  /\ Occurrences(<< >>, v) = 0
         /\ Occurrences(Append(s, x), v) = Occurrences(s, v) + (IF x = v THEN 1 ELSE 0)
<1> DEFINE n == Len(s)
<1> DEFINE A == {i \in DOMAIN s : s[i] = v}
<1> DEFINE t == Append(s, x)
<1> DEFINE B == {i \in DOMAIN t : t[i] = v}
<1>1. /\ t \in Seq(V) /\ Len(t) = n + 1 /\ (\A i \in 1..n : t[i] = s[i]) /\ t[n+1] = x
      /\ n \in Nat /\ DOMAIN s = 1..n /\ DOMAIN t = 1..n+1
  <2>1. t \in Seq(V) /\ Len(t) = n + 1 /\ (\A i \in 1..n : t[i] = s[i]) /\ t[n+1] = x
    BY AppendProperties
  <2>2. DOMAIN t = 1..n+1
    BY <2>1, LenProperties
  <2>3. QED
    BY <2>1, <2>2, LenProperties
<1>2. Occurrences(<< >>, v) = 0
  <2>1. {i \in DOMAIN << >> : << >>[i] = v} = {}
    OBVIOUS
  <2>2. QED
    BY <2>1, FS_EmptySet DEF Occurrences
<1> HIDE DEF t, n
<1>3. IsFiniteSet(A) /\ Cardinality(A) \in Nat
  BY OccurrencesType DEF Occurrences
<1>4. CASE x = v
  <2>1. B = A \cup {n+1} /\ n + 1 \notin A
    BY <1>1, <1>4
  <2>2. Cardinality(B) = Cardinality(A) + 1
    BY <2>1, <1>3, FS_AddElement
  <2>3. QED
    BY <2>2, <1>2, <1>4 DEF Occurrences, t
<1>5. CASE x # v
  <2>1. B = A
    BY <1>1, <1>5
  <2>2. Cardinality(B) = Cardinality(A)
    BY <2>1
  <2>3. Cardinality(B) = Cardinality(A) + 0
    BY <2>2, <1>3
  <2>4. QED
    BY <2>3, <1>2, <1>5 DEF Occurrences, t
<1>6. QED
  BY <1>4, <1>5

LEMMA OccurrencesConcat ==
  ASSUME NEW V, NEW s \in Seq(V), NEW t \in Seq(V), NEW v
  PROVE  Occurrences(s \o t, v) = Occurrences(s, v) + Occurrences(t, v)
<1> DEFINE H == {p \in Seq(V) : Occurrences(s \o p, v) = Occurrences(s, v) + Occurrences(p, v)}
<1> DEFINE G == {k \in 0..Len(t) : SubSeq(t, 1, k) \in H}
<1>1. /\ SubSeq(t, 1, 0) = << >> /\ SubSeq(t, 1, Len(t)) = t /\ Len(t) \in Nat
      /\ \A k \in 0..Len(t)-1 : /\ SubSeq(t, 1, k) \in Seq(V) /\ t[k+1] \in V
                                /\ SubSeq(t, 1, k+1) = Append(SubSeq(t, 1, k), t[k+1])
  BY OneMore
<1>2. << >> \in H
  <2>1. << >> \in Seq(V) /\ s \o << >> = s
    BY EmptySeq, ConcatEmptySeq
  <2>2. Occurrences(<< >>, v) = 0
    <3>1. {i \in DOMAIN << >> : << >>[i] = v} = {}
      OBVIOUS
    <3>2. QED
      BY <3>1, FS_EmptySet DEF Occurrences
  <2>3. Occurrences(s, v) \in Nat
    BY OccurrencesType
  <2>4. QED
    BY <2>1, <2>2, <2>3
<1>3. ASSUME NEW p \in H, NEW x \in V PROVE Append(p, x) \in H
  <2>1. p \in Seq(V) /\ Occurrences(s \o p, v) = Occurrences(s, v) + Occurrences(p, v)
    BY <1>3
  <2>2. s \o Append(p, x) = Append(s \o p, x) /\ s \o p \in Seq(V) /\ Append(p, x) \in Seq(V)
    BY <2>1, AppendConcat, ConcatProperties, AppendProperties
  <2>3. Occurrences(Append(s \o p, x), v) = Occurrences(s \o p, v) + (IF x = v THEN 1 ELSE 0)
    <3> DEFINE sp == s \o p
    <3>1. sp \in Seq(V)
      BY <2>2
    <3> HIDE DEF sp
    <3>2. Occurrences(Append(sp, x), v) = Occurrences(sp, v) + (IF x = v THEN 1 ELSE 0)
      BY <3>1, OccurrencesAppend
    <3>3. QED
      BY <3>2 DEF sp
  <2>4. Occurrences(Append(p, x), v) = Occurrences(p, v) + (IF x = v THEN 1 ELSE 0)
    BY <2>1, OccurrencesAppend
  <2>5. Occurrences(s, v) \in Nat /\ Occurrences(p, v) \in Nat
    BY <2>1, OccurrencesType
  <2> DEFINE a == Occurrences(s, v)
  <2> DEFINE b == Occurrences(p, v)
  <2> DEFINE c == Occurrences(s \o p, v)
  <2>6. Occurrences(s \o Append(p, x), v) = c + (IF x = v THEN 1 ELSE 0)
    BY <2>2, <2>3, Zenon
  <2>7. a \in Nat /\ b \in Nat /\ c = a + b
    BY <2>1, <2>5
  <2> HIDE DEF a, b, c
  <2>8. c + (IF x = v THEN 1 ELSE 0) = a + (b + (IF x = v THEN 1 ELSE 0))
    BY <2>7
  <2>9. Occurrences(Append(p, x), v) = b + (IF x = v THEN 1 ELSE 0)
    BY <2>4 DEF b
  <2>10. Occurrences(s \o Append(p, x), v) = Occurrences(s, v) + Occurrences(Append(p, x), v)
    BY <2>6, <2>8, <2>9, Zenon DEF a
  <2>11. QED
    BY <2>2, <2>10
<1> HIDE DEF H
<1>4. 0 \in G
  <2>1. 0 \in 0..Len(t)
    BY <1>1
  <2>2. SubSeq(t, 1, 0) \in H
    BY <1>1, <1>2, Zenon
  <2>3. QED
    BY <2>1, <2>2, Zenon
<1>5. ASSUME NEW k \in 0..Len(t)-1, k \in G PROVE k + 1 \in G
  <2>1. SubSeq(t, 1, k) \in H
    BY <1>5
  <2>2. Append(SubSeq(t, 1, k), t[k+1]) \in H
    BY <2>1, <1>1, <1>3
  <2>3. k + 1 \in 0..Len(t)
    BY <1>1
  <2>4. SubSeq(t, 1, k+1) \in H
    BY <2>2, <1>1, Zenon
  <2>5. QED
    BY <2>3, <2>4, Zenon
<1>6. 0 \in G /\ \A k \in 0..Len(t)-1 : k \in G => k + 1 \in G
  BY <1>4, <1>5
<1> HIDE DEF G
<1>7. Len(t) \in G
  BY <1>6, OverPrefixes
<1>8. t \in H
  BY <1>1, <1>7 DEF G
<1>9. QED
  BY <1>8 DEF H

\* A value occurs in a sequence that has it.
LEMMA OccurrencesMember ==
  ASSUME NEW V, NEW s \in Seq(V), NEW v
  PROVE  v \in ToSet(s) <=> Occurrences(s, v) # 0
<1> DEFINE A == {i \in DOMAIN s : s[i] = v}
<1>1. IsFiniteSet(A)
  BY OccurrencesType
<1>2. A = {} <=> Cardinality(A) = 0
  BY <1>1, FS_EmptySet
<1>3. v \in ToSet(s) <=> A # {}
  BY DEF ToSet
<1>4. QED
  BY <1>2, <1>3 DEF Occurrences

(***************************************************************************)
(* What scopes own, and what is unbound in them.                           *)
(***************************************************************************)

Mine(x) == x.guarded \o x.locals
Mines(s) == [i \in DOMAIN s |-> Mine(s[i])]
Temps(s) == [i \in DOMAIN s |-> s[i].temps]

LEMMA ScopeFacts ==
  ASSUME NEW x \in ScopeType
  PROVE  /\ x.kind \in Kinds /\ x.guarded \in Seq(Nat) /\ x.locals \in Seq(Nat)
         /\ x.temps \in Seq(Nat) /\ Mine(x) \in Seq(Nat)
         /\ x = [kind |-> x.kind, guarded |-> x.guarded, locals |-> x.locals, temps |-> x.temps]
<1>1. /\ x.kind \in Kinds /\ x.guarded \in Seq(Nat) /\ x.locals \in Seq(Nat) /\ x.temps \in Seq(Nat)
      /\ x = [kind |-> x.kind, guarded |-> x.guarded, locals |-> x.locals, temps |-> x.temps]
  BY DEF ScopeType, Values
<1>2. x.guarded \o x.locals \in Seq(Nat)
  BY <1>1, ConcatProperties
<1>3. QED
  BY <1>1, <1>2 DEF Mine

LEMMA PartsFacts ==
  ASSUME NEW s \in Seq(ScopeType)
  PROVE  /\ Mines(s) \in Seq(Seq(Nat)) /\ Temps(s) \in Seq(Seq(Nat))
         /\ Len(Mines(s)) = Len(s) /\ Len(Temps(s)) = Len(s) /\ Len(s) \in Nat
         /\ \A i \in 1..Len(s) : Mines(s)[i] = Mine(s[i]) /\ Temps(s)[i] = s[i].temps
         /\ Owned(s) = FlattenSeq(Mines(s)) /\ Unbound(s) = FlattenSeq(Temps(s))
         /\ Owned(s) \in Seq(Nat) /\ Unbound(s) \in Seq(Nat)
<1> DEFINE n == Len(s)
<1>1. n \in Nat /\ DOMAIN s = 1..n /\ \A i \in 1..n : s[i] \in ScopeType
  BY LenProperties
<1>2. \A i \in 1..n : Mine(s[i]) \in Seq(Nat) /\ s[i].temps \in Seq(Nat)
  BY <1>1, ScopeFacts
<1> HIDE DEF n
<1>3. /\ Mines(s) \in [1..n -> Seq(Nat)] /\ Temps(s) \in [1..n -> Seq(Nat)]
      /\ \A i \in 1..n : Mines(s)[i] = Mine(s[i]) /\ Temps(s)[i] = s[i].temps
  BY <1>1, <1>2 DEF Mines, Temps
<1>4. Mines(s) \in Seq(Seq(Nat)) /\ Temps(s) \in Seq(Seq(Nat)) /\ Len(Mines(s)) = n /\ Len(Temps(s)) = n
  <2> DEFINE V == Seq(Nat)
  <2> HIDE DEF V
  <2>1. \A f \in [1..n -> V] : f \in Seq(V) /\ Len(f) = n
    BY <1>1, SeqDef
  <2>2. QED
    BY <2>1, <1>3 DEF V
<1>5. Owned(s) = FlattenSeq(Mines(s)) /\ Unbound(s) = FlattenSeq(Temps(s))
  BY DEF Owned, Unbound, Mines, Temps, Mine
<1>6. Owned(s) \in Seq(Nat) /\ Unbound(s) \in Seq(Nat)
  BY <1>4, <1>5, FlattenType
<1>7. QED
  BY <1>1, <1>3, <1>4, <1>5, <1>6 DEF n

LEMMA PartsAppend ==
  ASSUME NEW s \in Seq(ScopeType), NEW x \in ScopeType
  PROVE  /\ Append(s, x) \in Seq(ScopeType)
         /\ Owned(Append(s, x)) = Owned(s) \o Mine(x) /\ Unbound(Append(s, x)) = Unbound(s) \o x.temps
<1> DEFINE u == Append(s, x)
<1> DEFINE n == Len(s)
<1>1. u \in Seq(ScopeType) /\ Len(u) = n + 1 /\ (\A i \in 1..n : u[i] = s[i]) /\ u[n+1] = x /\ n \in Nat
  BY AppendProperties, LenProperties
<1>2. Mine(x) \in Seq(Nat) /\ x.temps \in Seq(Nat)
  BY ScopeFacts
<1>3. /\ Mines(s) \in Seq(Seq(Nat)) /\ Temps(s) \in Seq(Seq(Nat)) /\ Len(Mines(s)) = n /\ Len(Temps(s)) = n
      /\ \A i \in 1..n : Mines(s)[i] = Mine(s[i]) /\ Temps(s)[i] = s[i].temps
      /\ Owned(s) = FlattenSeq(Mines(s)) /\ Unbound(s) = FlattenSeq(Temps(s))
  BY PartsFacts
<1> HIDE DEF u
<1>4. /\ Mines(u) \in Seq(Seq(Nat)) /\ Temps(u) \in Seq(Seq(Nat)) /\ Len(Mines(u)) = n + 1 /\ Len(Temps(u)) = n + 1
      /\ \A i \in 1..n+1 : Mines(u)[i] = Mine(u[i]) /\ Temps(u)[i] = u[i].temps
      /\ Owned(u) = FlattenSeq(Mines(u)) /\ Unbound(u) = FlattenSeq(Temps(u))
  <2>1. /\ Mines(u) \in Seq(Seq(Nat)) /\ Temps(u) \in Seq(Seq(Nat)) /\ Len(Mines(u)) = Len(u) /\ Len(Temps(u)) = Len(u)
        /\ \A i \in 1..Len(u) : Mines(u)[i] = Mine(u[i]) /\ Temps(u)[i] = u[i].temps
        /\ Owned(u) = FlattenSeq(Mines(u)) /\ Unbound(u) = FlattenSeq(Temps(u))
    BY <1>1, PartsFacts
  <2>2. QED
    BY <2>1, <1>1
<1> HIDE DEF n
<1>5. ASSUME NEW p \in Seq(Seq(Nat)), NEW q \in Seq(Seq(Nat)), NEW e \in Seq(Nat),
             Len(p) = n, Len(q) = n + 1, \A i \in 1..n : q[i] = p[i], q[n+1] = e
      PROVE  q = Append(p, e)
  <2> DEFINE V == Seq(Nat)
  <2> DEFINE r == Append(p, e)
  <2>1. p \in Seq(V) /\ q \in Seq(V) /\ e \in V
    BY <1>5
  <2> HIDE DEF V
  <2>2. r \in Seq(V) /\ Len(r) = n + 1 /\ (\A i \in 1..n : r[i] = p[i]) /\ r[n+1] = e
    BY <2>1, <1>5, AppendProperties
  <2> HIDE DEF r
  <2>3. ASSUME NEW i \in 1..n+1 PROVE q[i] = r[i]
    <3>1. i \in 1..n \/ i = n + 1
      BY ONLY <1>1, i \in 1..n+1
    <3>2. CASE i \in 1..n
      <4>1. q[i] = p[i]
        BY <3>2, <1>5
      <4>2. r[i] = p[i]
        BY <3>2, <2>2
      <4>3. QED
        BY <4>1, <4>2
    <3>3. CASE i = n + 1
      BY <3>3, <2>2, <1>5
    <3>4. QED
      BY <3>1, <3>2, <3>3
  <2>4. q = r
    BY <2>1, <2>2, <2>3, <1>5, SeqEqual
  <2>5. QED
    BY <2>4 DEF r
<1>6. Mines(u) = Append(Mines(s), Mine(x))
  <2>1. (\A i \in 1..n : Mines(u)[i] = Mines(s)[i]) /\ Mines(u)[n+1] = Mine(x)
    <3>1. n + 1 \in 1..n+1 /\ \A i \in 1..n : i \in 1..n+1
      BY <1>1
    <3>2. Mines(u)[n+1] = Mine(x)
      BY <3>1, <1>1, <1>4
    <3>3. ASSUME NEW i \in 1..n PROVE Mines(u)[i] = Mines(s)[i]
      BY <3>1, <1>1, <1>3, <1>4
    <3>4. QED
      BY <3>2, <3>3
  <2>2. QED
    BY <2>1, <1>2, <1>3, <1>4, <1>5
<1>7. Temps(u) = Append(Temps(s), x.temps)
  <2>1. (\A i \in 1..n : Temps(u)[i] = Temps(s)[i]) /\ Temps(u)[n+1] = x.temps
    <3>1. n + 1 \in 1..n+1 /\ \A i \in 1..n : i \in 1..n+1
      BY <1>1
    <3>2. Temps(u)[n+1] = x.temps
      BY <3>1, <1>1, <1>4
    <3>3. ASSUME NEW i \in 1..n PROVE Temps(u)[i] = Temps(s)[i]
      BY <3>1, <1>1, <1>3, <1>4
    <3>4. QED
      BY <3>2, <3>3
  <2>2. QED
    BY <2>1, <1>2, <1>3, <1>4, <1>5
<1>8. FlattenSeq(Mines(u)) = FlattenSeq(Mines(s)) \o Mine(x)
  BY <1>2, <1>3, <1>6, FlattenAppend
<1>9. FlattenSeq(Temps(u)) = FlattenSeq(Temps(s)) \o x.temps
  BY <1>2, <1>3, <1>7, FlattenAppend
<1>10. Owned(u) = Owned(s) \o Mine(x)
  BY <1>3, <1>4, <1>8, Zenon
<1>11. Unbound(u) = Unbound(s) \o x.temps
  BY <1>3, <1>4, <1>9, Zenon
<1>12. QED
  BY <1>1, <1>10, <1>11 DEF u

LEMMA PartsEmpty == Owned(<< >>) = << >> /\ Unbound(<< >>) = << >> /\ << >> \in Seq(ScopeType)
<1>1. [i \in DOMAIN << >> |-> << >>[i].guarded \o << >>[i].locals] = << >>
  OBVIOUS
<1>2. [i \in DOMAIN << >> |-> << >>[i].temps] = << >>
  OBVIOUS
<1>3. FlattenSeq(<< >>) = << >>
  BY EmptySeq DEF FlattenSeq
<1>4. QED
  BY <1>1, <1>2, <1>3, EmptySeq DEF Owned, Unbound

LEMMA ValuesAssociative ==
  ASSUME NEW a \in Seq(Nat), NEW b \in Seq(Nat), NEW c \in Seq(Nat)
  PROVE  (a \o b) \o c = a \o (b \o c)
  BY ConcatAssociative, SMTT(60)

LEMMA PartsConcat ==
  ASSUME NEW s \in Seq(ScopeType), NEW t \in Seq(ScopeType)
  PROVE  Owned(s \o t) = Owned(s) \o Owned(t) /\ Unbound(s \o t) = Unbound(s) \o Unbound(t)
<1> DEFINE H == {p \in Seq(ScopeType) : /\ Owned(s \o p) = Owned(s) \o Owned(p)
                                        /\ Unbound(s \o p) = Unbound(s) \o Unbound(p)}
<1> DEFINE G == {k \in 0..Len(t) : SubSeq(t, 1, k) \in H}
<1>1. /\ SubSeq(t, 1, 0) = << >> /\ SubSeq(t, 1, Len(t)) = t /\ Len(t) \in Nat
      /\ \A k \in 0..Len(t)-1 : /\ SubSeq(t, 1, k) \in Seq(ScopeType) /\ t[k+1] \in ScopeType
                                /\ SubSeq(t, 1, k+1) = Append(SubSeq(t, 1, k), t[k+1])
  BY OneMore
<1>0. Owned(s) \in Seq(Nat) /\ Unbound(s) \in Seq(Nat)
  BY PartsFacts
<1>2. << >> \in H
  <2>1. s \o << >> = s /\ Owned(<< >>) = << >> /\ Unbound(<< >>) = << >> /\ << >> \in Seq(ScopeType)
    BY ConcatEmptySeq, PartsEmpty
  <2>2. Owned(s) \o << >> = Owned(s) /\ Unbound(s) \o << >> = Unbound(s)
    BY <1>0, ConcatEmptySeq
  <2>3. Owned(s \o << >>) = Owned(s) \o Owned(<< >>) /\ Unbound(s \o << >>) = Unbound(s) \o Unbound(<< >>)
    BY <2>1, <2>2, Zenon
  <2>4. QED
    BY <2>1, <2>3
<1>3. ASSUME NEW p \in H, NEW x \in ScopeType PROVE Append(p, x) \in H
  <2>1. p \in Seq(ScopeType) /\ Owned(s \o p) = Owned(s) \o Owned(p) /\ Unbound(s \o p) = Unbound(s) \o Unbound(p)
    BY <1>3
  <2> HIDE DEF H
  <2>2. s \o Append(p, x) = Append(s \o p, x) /\ s \o p \in Seq(ScopeType) /\ Append(p, x) \in Seq(ScopeType)
    BY <2>1, AppendConcat, ConcatProperties, AppendProperties
  <2> DEFINE sp == s \o p
  <2>3. sp \in Seq(ScopeType)
    BY <2>2
  <2> HIDE DEF sp
  <2>4. Owned(Append(sp, x)) = Owned(sp) \o Mine(x) /\ Unbound(Append(sp, x)) = Unbound(sp) \o x.temps
    BY <2>3, PartsAppend
  <2>5. Owned(Append(p, x)) = Owned(p) \o Mine(x) /\ Unbound(Append(p, x)) = Unbound(p) \o x.temps
    BY <2>1, PartsAppend
  <2>6. Owned(p) \in Seq(Nat) /\ Unbound(p) \in Seq(Nat) /\ Mine(x) \in Seq(Nat) /\ x.temps \in Seq(Nat)
    BY <2>1, PartsFacts, ScopeFacts
  <2>7. (Owned(s) \o Owned(p)) \o Mine(x) = Owned(s) \o (Owned(p) \o Mine(x))
    <3> DEFINE a == Owned(s)
    <3> DEFINE b == Owned(p)
    <3> DEFINE c == Mine(x)
    <3>1. a \in Seq(Nat) /\ b \in Seq(Nat) /\ c \in Seq(Nat)
      BY <2>6, <1>0
    <3> HIDE DEF a, b, c
    <3>2. (a \o b) \o c = a \o (b \o c)
      BY <3>1, ValuesAssociative
    <3>3. QED
      BY <3>2 DEF a, b, c
  <2>8. (Unbound(s) \o Unbound(p)) \o x.temps = Unbound(s) \o (Unbound(p) \o x.temps)
    <3> DEFINE a == Unbound(s)
    <3> DEFINE b == Unbound(p)
    <3> DEFINE c == x.temps
    <3>1. a \in Seq(Nat) /\ b \in Seq(Nat) /\ c \in Seq(Nat)
      BY <2>6, <1>0
    <3> HIDE DEF a, b, c
    <3>2. (a \o b) \o c = a \o (b \o c)
      BY <3>1, ValuesAssociative
    <3>3. QED
      BY <3>2 DEF a, b, c
  <2>9. Owned(s \o Append(p, x)) = Owned(s) \o Owned(Append(p, x))
    <3>1. Owned(s \o Append(p, x)) = Owned(s \o p) \o Mine(x)
      BY <2>2, <2>4, Zenon DEF sp
    <3>2. Owned(s \o p) \o Mine(x) = (Owned(s) \o Owned(p)) \o Mine(x)
      BY <2>1, Zenon
    <3>3. Owned(s) \o (Owned(p) \o Mine(x)) = Owned(s) \o Owned(Append(p, x))
      BY <2>5, Zenon
    <3>4. QED
      BY <3>1, <3>2, <3>3, <2>7, Zenon
  <2>10. Unbound(s \o Append(p, x)) = Unbound(s) \o Unbound(Append(p, x))
    <3>1. Unbound(s \o Append(p, x)) = Unbound(s \o p) \o x.temps
      BY <2>2, <2>4, Zenon DEF sp
    <3>2. Unbound(s \o p) \o x.temps = (Unbound(s) \o Unbound(p)) \o x.temps
      BY <2>1, Zenon
    <3>3. Unbound(s) \o (Unbound(p) \o x.temps) = Unbound(s) \o Unbound(Append(p, x))
      BY <2>5, Zenon
    <3>4. QED
      BY <3>1, <3>2, <3>3, <2>8, Zenon
  <2>11. QED
    BY <2>2, <2>9, <2>10 DEF H
<1> HIDE DEF H
<1>4. 0 \in G
  <2>1. 0 \in 0..Len(t)
    BY <1>1
  <2>2. SubSeq(t, 1, 0) \in H
    BY <1>1, <1>2, Zenon
  <2>3. QED
    BY <2>1, <2>2, Zenon
<1>5. ASSUME NEW k \in 0..Len(t)-1, k \in G PROVE k + 1 \in G
  <2>1. SubSeq(t, 1, k) \in H
    BY <1>5
  <2>2. Append(SubSeq(t, 1, k), t[k+1]) \in H
    BY <2>1, <1>1, <1>3
  <2>3. k + 1 \in 0..Len(t)
    BY <1>1
  <2>4. SubSeq(t, 1, k+1) \in H
    BY <2>2, <1>1, Zenon
  <2>5. QED
    BY <2>3, <2>4, Zenon
<1>6. 0 \in G /\ \A k \in 0..Len(t)-1 : k \in G => k + 1 \in G
  BY <1>4, <1>5
<1> HIDE DEF G
<1>7. Len(t) \in G
  BY <1>6, OverPrefixes
<1>8. t \in H
  BY <1>1, <1>7 DEF G
<1>9. QED
  BY <1>8 DEF H

HeldIn(s) == UNION {ToSet(Mine(s[i]) \o s[i].temps) : i \in DOMAIN s}
UnboundIn(s) == UNION {ToSet(s[i].temps) : i \in DOMAIN s}

\* A value that scopes hold occurs among what they own or have unbound.
LEMMA HeldOccurs ==
  ASSUME NEW s \in Seq(ScopeType), NEW v
  PROVE  /\ v \in HeldIn(s) <=> Occurrences(Owned(s), v) + Occurrences(Unbound(s), v) # 0
         /\ v \in UnboundIn(s) <=> Occurrences(Unbound(s), v) # 0
<1> DEFINE H == {p \in Seq(ScopeType) :
                   /\ v \in HeldIn(p) <=> Occurrences(Owned(p), v) + Occurrences(Unbound(p), v) # 0
                   /\ v \in UnboundIn(p) <=> Occurrences(Unbound(p), v) # 0}
<1> DEFINE G == {k \in 0..Len(s) : SubSeq(s, 1, k) \in H}
<1>1. /\ SubSeq(s, 1, 0) = << >> /\ SubSeq(s, 1, Len(s)) = s /\ Len(s) \in Nat
      /\ \A k \in 0..Len(s)-1 : /\ SubSeq(s, 1, k) \in Seq(ScopeType) /\ s[k+1] \in ScopeType
                                /\ SubSeq(s, 1, k+1) = Append(SubSeq(s, 1, k), s[k+1])
  BY OneMore
<1>2. << >> \in H
  <2>1. HeldIn(<< >>) = {} /\ UnboundIn(<< >>) = {}
    BY DEF HeldIn, UnboundIn
  <2>2. Owned(<< >>) = << >> /\ Unbound(<< >>) = << >> /\ << >> \in Seq(ScopeType)
    BY PartsEmpty
  <2>3. Occurrences(<< >>, v) = 0
    BY EmptySeq, OccurrencesAppend
  <2>4. QED
    BY <2>1, <2>2, <2>3
<1>3. ASSUME NEW p \in H, NEW x \in ScopeType PROVE Append(p, x) \in H
  <2> DEFINE u == Append(p, x)
  <2>1. /\ p \in Seq(ScopeType)
        /\ v \in HeldIn(p) <=> Occurrences(Owned(p), v) + Occurrences(Unbound(p), v) # 0
        /\ v \in UnboundIn(p) <=> Occurrences(Unbound(p), v) # 0
    BY <1>3
  <2> HIDE DEF H
  <2>2. /\ u \in Seq(ScopeType) /\ Owned(u) = Owned(p) \o Mine(x) /\ Unbound(u) = Unbound(p) \o x.temps
        /\ Owned(p) \in Seq(Nat) /\ Unbound(p) \in Seq(Nat) /\ Mine(x) \in Seq(Nat) /\ x.temps \in Seq(Nat)
    BY <2>1, PartsAppend, PartsFacts, ScopeFacts
  <2>3. HeldIn(u) = HeldIn(p) \cup ToSet(Mine(x) \o x.temps) /\ UnboundIn(u) = UnboundIn(p) \cup ToSet(x.temps)
    <3> DEFINE n == Len(p)
    <3>1. /\ DOMAIN p = 1..n /\ n \in Nat /\ DOMAIN u = 1..n+1 /\ u[n+1] = x
          /\ \A i \in 1..n : u[i] = p[i]
      <4>1. Len(u) = n + 1 /\ u[n+1] = x /\ \A i \in 1..n : u[i] = p[i]
        BY <2>1, AppendProperties
      <4>2. DOMAIN u = 1..Len(u)
        BY <2>2, LenProperties
      <4>3. QED
        BY <4>1, <4>2, <2>1, LenProperties
    <3> HIDE DEF u, n
    <3>2. 1..n+1 = (1..n) \cup {n+1}
      BY <3>1
    <3>3. HeldIn(u) = HeldIn(p) \cup ToSet(Mine(x) \o x.temps)
      <4>1. {ToSet(Mine(u[i]) \o u[i].temps) : i \in 1..n+1}
              = {ToSet(Mine(p[i]) \o p[i].temps) : i \in 1..n} \cup {ToSet(Mine(x) \o x.temps)}
        BY <3>1, <3>2
      <4>2. QED
        BY <4>1, <3>1 DEF HeldIn
    <3>4. UnboundIn(u) = UnboundIn(p) \cup ToSet(x.temps)
      <4>1. {ToSet(u[i].temps) : i \in 1..n+1} = {ToSet(p[i].temps) : i \in 1..n} \cup {ToSet(x.temps)}
        BY <3>1, <3>2
      <4>2. QED
        BY <4>1, <3>1 DEF UnboundIn
    <3>5. QED
      BY <3>3, <3>4
  <2> DEFINE a == Occurrences(Owned(p), v)
  <2> DEFINE b == Occurrences(Unbound(p), v)
  <2> DEFINE c == Occurrences(Mine(x), v)
  <2> DEFINE d == Occurrences(x.temps, v)
  <2>4. a \in Nat /\ b \in Nat /\ c \in Nat /\ d \in Nat
    BY <2>2, OccurrencesType
  <2>5. Occurrences(Owned(p) \o Mine(x), v) = a + c
    BY <2>2, OccurrencesConcat
  <2>6. Occurrences(Unbound(p) \o x.temps, v) = b + d
    BY <2>2, OccurrencesConcat
  <2>7. v \in ToSet(Mine(x) \o x.temps) <=> c + d # 0
    <3> DEFINE w == Mine(x) \o x.temps
    <3>1. w \in Seq(Nat) /\ Occurrences(w, v) = c + d
      BY <2>2, ConcatProperties, OccurrencesConcat
    <3> HIDE DEF w, c, d
    <3>2. v \in ToSet(w) <=> Occurrences(w, v) # 0
      BY <3>1, OccurrencesMember
    <3>3. QED
      BY <3>1, <3>2 DEF w
  <2>8. v \in ToSet(x.temps) <=> d # 0
    BY <2>2, OccurrencesMember
  <2>9. Occurrences(Owned(u), v) = a + c /\ Occurrences(Unbound(u), v) = b + d
    BY <2>2, <2>5, <2>6, Zenon
  <2>10. (v \in HeldIn(p) <=> a + b # 0) /\ (v \in UnboundIn(p) <=> b # 0)
    BY <2>1
  <2> HIDE DEF a, b, c, d
  <2>11. v \in HeldIn(u) <=> Occurrences(Owned(u), v) + Occurrences(Unbound(u), v) # 0
    BY <2>3, <2>4, <2>7, <2>9, <2>10
  <2>12. v \in UnboundIn(u) <=> Occurrences(Unbound(u), v) # 0
    BY <2>3, <2>4, <2>8, <2>9, <2>10
  <2>13. QED
    BY <2>2, <2>11, <2>12 DEF H
<1> HIDE DEF H
<1>4. 0 \in G
  <2>1. 0 \in 0..Len(s)
    BY <1>1
  <2>2. SubSeq(s, 1, 0) \in H
    BY <1>1, <1>2, Zenon
  <2>3. QED
    BY <2>1, <2>2, Zenon
<1>5. ASSUME NEW k \in 0..Len(s)-1, k \in G PROVE k + 1 \in G
  <2>1. SubSeq(s, 1, k) \in H
    BY <1>5
  <2>2. Append(SubSeq(s, 1, k), s[k+1]) \in H
    BY <2>1, <1>1, <1>3
  <2>3. k + 1 \in 0..Len(s)
    BY <1>1
  <2>4. SubSeq(s, 1, k+1) \in H
    BY <2>2, <1>1, Zenon
  <2>5. QED
    BY <2>3, <2>4, Zenon
<1>6. 0 \in G /\ \A k \in 0..Len(s)-1 : k \in G => k + 1 \in G
  BY <1>4, <1>5
<1> HIDE DEF G
<1>7. Len(s) \in G
  BY <1>6, OverPrefixes
<1>8. s \in H
  BY <1>1, <1>7 DEF G
<1>9. QED
  BY <1>8 DEF H

\* Scopes of one function, with no call in progress among them: only the last has an
\* unfinished expression.
LEMMA UnboundOfLast ==
  ASSUME NEW s \in Seq(ScopeType), s # << >>, \A i \in 1..Len(s)-1 : s[i].temps = << >>
  PROVE  Unbound(s) = Last(s).temps
<1> DEFINE t == Front(s)
<1>1. /\ t \in Seq(ScopeType) /\ Last(s) \in ScopeType /\ s = Append(t, Last(s))
      /\ Len(s) \in Nat \ {0} /\ Len(t) = Len(s) - 1 /\ \A i \in 1..Len(s)-1 : t[i] = s[i]
  BY FrontLast
<1> HIDE DEF t
<1> DEFINE G == {k \in 0..Len(t) : Unbound(SubSeq(t, 1, k)) = << >>}
<1>2. /\ SubSeq(t, 1, 0) = << >> /\ SubSeq(t, 1, Len(t)) = t /\ Len(t) \in Nat
      /\ \A k \in 0..Len(t)-1 : /\ SubSeq(t, 1, k) \in Seq(ScopeType) /\ t[k+1] \in ScopeType
                                /\ SubSeq(t, 1, k+1) = Append(SubSeq(t, 1, k), t[k+1])
  BY <1>1, OneMore
<1>3. 0 \in G
  <2>1. 0 \in 0..Len(t)
    BY <1>2
  <2>2. Unbound(SubSeq(t, 1, 0)) = << >>
    BY <1>2, PartsEmpty, Zenon
  <2>3. QED
    BY <2>1, <2>2, Zenon
<1>4. ASSUME NEW k \in 0..Len(t)-1, k \in G PROVE k + 1 \in G
  <2> DEFINE p == SubSeq(t, 1, k)
  <2> DEFINE x == t[k+1]
  <2>1. p \in Seq(ScopeType) /\ x \in ScopeType /\ SubSeq(t, 1, k+1) = Append(p, x) /\ Unbound(p) = << >>
    BY <1>2, <1>4
  <2>2. k + 1 \in 1..Len(s)-1
    BY <1>1
  <2>3. x.temps = << >>
    BY <2>2, <1>1
  <2> HIDE DEF p, x
  <2>4. Unbound(Append(p, x)) = Unbound(p) \o x.temps
    BY <2>1, PartsAppend
  <2>5. << >> \o << >> = << >>
    BY EmptySeq, ConcatEmptySeq
  <2>6. Unbound(Append(p, x)) = << >>
    BY <2>1, <2>3, <2>4, <2>5, Zenon
  <2>7. k + 1 \in 0..Len(t)
    BY <1>2
  <2>8. QED
    BY <2>1, <2>6, <2>7
<1>5. 0 \in G /\ \A k \in 0..Len(t)-1 : k \in G => k + 1 \in G
  BY <1>3, <1>4
<1> HIDE DEF G
<1>6. Len(t) \in G
  BY <1>1, <1>5, OverPrefixes
<1>7. Unbound(t) = << >>
  BY <1>2, <1>6 DEF G
<1> DEFINE y == Last(s)
<1>8. Unbound(Append(t, y)) = Unbound(t) \o y.temps /\ y.temps \in Seq(Nat)
  BY <1>1, PartsAppend, ScopeFacts
<1> HIDE DEF y
<1>9. << >> \o y.temps = y.temps
  BY <1>8, ConcatEmptySeq
<1>10. Unbound(Append(t, y)) = y.temps
  BY <1>7, <1>8, <1>9, Zenon
<1>11. QED
  BY <1>1, <1>10, Zenon DEF y

\* Sequences that agree up to n have the same prefix of that length.
LEMMA SamePrefix ==
  ASSUME NEW S, NEW s \in Seq(S), NEW t \in Seq(S), NEW n \in 0..Len(s), n \in 0..Len(t),
         \A i \in 1..n : s[i] = t[i]
  PROVE  SubSeq(s, 1, n) = SubSeq(t, 1, n)
<1> DEFINE p == SubSeq(s, 1, n)
<1> DEFINE q == SubSeq(t, 1, n)
<1>1. p \in Seq(S) /\ Len(p) = n /\ \A i \in 1..n : p[i] = s[i]
  BY Cut
<1>2. q \in Seq(S) /\ Len(q) = n /\ \A i \in 1..n : q[i] = t[i]
  BY Cut
<1> HIDE DEF p, q
<1>3. \A i \in 1..Len(p) : p[i] = q[i]
  BY <1>1, <1>2
<1>4. p = q
  BY <1>1, <1>2, <1>3, SeqEqual
<1>5. QED
  BY <1>4 DEF p, q

LEMMA PrefixOfPrefix ==
  ASSUME NEW S, NEW s \in Seq(S), NEW b \in 0..Len(s), NEW n \in 0..b
  PROVE  SubSeq(SubSeq(s, 1, b), 1, n) = SubSeq(s, 1, n)
<1> DEFINE p == SubSeq(s, 1, b)
<1>1. p \in Seq(S) /\ Len(p) = b /\ \A i \in 1..b : p[i] = s[i]
  BY Cut
<1>2. Len(s) \in Nat
  BY LenProperties
<1> HIDE DEF p
<1>3. n \in 0..Len(p) /\ n \in 0..Len(s) /\ \A i \in 1..n : p[i] = s[i]
  BY <1>1, <1>2
<1>4. SubSeq(p, 1, n) = SubSeq(s, 1, n)
  BY <1>1, <1>3, SamePrefix
<1>5. QED
  BY <1>4 DEF p

LEMMA Single ==
  ASSUME NEW x \in ScopeType
  PROVE  <<x>> \in Seq(ScopeType) /\ Owned(<<x>>) = Mine(x) /\ Unbound(<<x>>) = x.temps
<1>1. Append(<< >>, x) = <<x>> /\ << >> \in Seq(ScopeType)
  BY PartsEmpty
<1>2. /\ <<x>> \in Seq(ScopeType) /\ Owned(<<x>>) = Owned(<< >>) \o Mine(x)
      /\ Unbound(<<x>>) = Unbound(<< >>) \o x.temps
  <2>1. /\ Append(<< >>, x) \in Seq(ScopeType)
        /\ Owned(Append(<< >>, x)) = Owned(<< >>) \o Mine(x)
        /\ Unbound(Append(<< >>, x)) = Unbound(<< >>) \o x.temps
    BY <1>1, PartsAppend
  <2>2. QED
    BY <1>1, <2>1, Zenon
<1>3. Mine(x) \in Seq(Nat) /\ x.temps \in Seq(Nat)
  BY ScopeFacts
<1>4. << >> \o Mine(x) = Mine(x) /\ << >> \o x.temps = x.temps
  BY <1>3, ConcatEmptySeq
<1>5. QED
  BY <1>2, <1>4, PartsEmpty, Zenon

\* How often a value is in the hands of the code.
Count(s, v) == Occurrences(Owned(s), v) + Occurrences(Unbound(s), v)

LEMMA ScopeCount ==
  ASSUME NEW x \in ScopeType, NEW v
  PROVE  /\ Occurrences(x.guarded, v) \in Nat /\ Occurrences(x.locals, v) \in Nat
         /\ Occurrences(x.temps, v) \in Nat
         /\ Occurrences(Mine(x), v) = Occurrences(x.guarded, v) + Occurrences(x.locals, v)
<1>1. x.guarded \in Seq(Nat) /\ x.locals \in Seq(Nat) /\ x.temps \in Seq(Nat)
  BY ScopeFacts
<1>2. QED
  BY <1>1, OccurrencesType, OccurrencesConcat DEF Mine

LEMMA CountAppend ==
  ASSUME NEW s \in Seq(ScopeType), NEW x \in ScopeType, NEW v
  PROVE  /\ Count(s, v) \in Nat
         /\ Count(Append(s, x), v)
              = Count(s, v) + Occurrences(x.guarded, v) + Occurrences(x.locals, v) + Occurrences(x.temps, v)
<1>1. /\ Owned(s) \in Seq(Nat) /\ Unbound(s) \in Seq(Nat) /\ Mine(x) \in Seq(Nat) /\ x.temps \in Seq(Nat)
      /\ Owned(Append(s, x)) = Owned(s) \o Mine(x) /\ Unbound(Append(s, x)) = Unbound(s) \o x.temps
  BY PartsFacts, PartsAppend, ScopeFacts
<1>2. Occurrences(Owned(s), v) \in Nat /\ Occurrences(Unbound(s), v) \in Nat
  BY <1>1, OccurrencesType
<1>3. Occurrences(Owned(s) \o Mine(x), v) = Occurrences(Owned(s), v) + Occurrences(Mine(x), v)
  BY <1>1, OccurrencesConcat
<1>4. Occurrences(Unbound(s) \o x.temps, v) = Occurrences(Unbound(s), v) + Occurrences(x.temps, v)
  BY <1>1, OccurrencesConcat
<1>5. /\ Occurrences(Owned(Append(s, x)), v) = Occurrences(Owned(s), v) + Occurrences(Mine(x), v)
      /\ Occurrences(Unbound(Append(s, x)), v) = Occurrences(Unbound(s), v) + Occurrences(x.temps, v)
  BY <1>1, <1>3, <1>4, Zenon
<1>6. QED
  BY <1>2, <1>5, ScopeCount DEF Count

LEMMA CountConcat ==
  ASSUME NEW s \in Seq(ScopeType), NEW t \in Seq(ScopeType), NEW v
  PROVE  /\ Count(s, v) \in Nat /\ Count(t, v) \in Nat
         /\ Count(s \o t, v) = Count(s, v) + Count(t, v)
<1>1. /\ Owned(s) \in Seq(Nat) /\ Unbound(s) \in Seq(Nat) /\ Owned(t) \in Seq(Nat) /\ Unbound(t) \in Seq(Nat)
      /\ Owned(s \o t) = Owned(s) \o Owned(t) /\ Unbound(s \o t) = Unbound(s) \o Unbound(t)
  BY PartsFacts, PartsConcat
<1>2. /\ Occurrences(Owned(s), v) \in Nat /\ Occurrences(Unbound(s), v) \in Nat
      /\ Occurrences(Owned(t), v) \in Nat /\ Occurrences(Unbound(t), v) \in Nat
  BY <1>1, OccurrencesType
<1>3. Occurrences(Owned(s) \o Owned(t), v) = Occurrences(Owned(s), v) + Occurrences(Owned(t), v)
  BY <1>1, OccurrencesConcat
<1>4. Occurrences(Unbound(s) \o Unbound(t), v) = Occurrences(Unbound(s), v) + Occurrences(Unbound(t), v)
  BY <1>1, OccurrencesConcat
<1>5. /\ Occurrences(Owned(s \o t), v) = Occurrences(Owned(s), v) + Occurrences(Owned(t), v)
      /\ Occurrences(Unbound(s \o t), v) = Occurrences(Unbound(s), v) + Occurrences(Unbound(t), v)
  BY <1>1, <1>3, <1>4, Zenon
<1>6. QED
  BY <1>2, <1>5 DEF Count

\* The scopes s may hold one more, x, as the innermost.
MayHold(s, x) ==
  /\ s = << >> => x.kind = "function"
  /\ s # << >> => /\ x.kind \notin {"function", "builder"} => Last(s).temps = << >>
                  /\ Last(s).kind = "builder" => x.kind = "builder"
  /\ x.kind = "builder" => Len(x.guarded) = 1 /\ x.locals = << >> /\ x.temps = << >>

LEMMA NestedStep ==
  ASSUME NEW s \in Seq(ScopeType), NEW x \in ScopeType
  PROVE  Nested(Append(s, x)) <=> Nested(s) /\ MayHold(s, x)
<1> DEFINE u == Append(s, x)
<1> DEFINE n == Len(s)
<1>1. /\ n \in Nat /\ DOMAIN s = 1..n /\ (\A i \in 1..n : u[i] = s[i]) /\ u[n+1] = x
      /\ u \in Seq(ScopeType) /\ Len(u) = n + 1
  BY AppendProperties, LenProperties
<1>2. DOMAIN u = 1..n+1
  BY <1>1, LenProperties
<1>3. (s = << >> <=> n = 0) /\ Last(s) = s[n]
  BY EmptySeq DEF Last
<1>4. u # << >>
  BY <1>1, EmptySeq
<1> HIDE DEF u, n
<1>5. (u # << >> => u[1].kind = "function")
        <=> (s # << >> => s[1].kind = "function") /\ (s = << >> => x.kind = "function")
  BY <1>1, <1>3, <1>4
<1>6. (\A i \in DOMAIN u : i + 1 \in DOMAIN u =>
         /\ u[i+1].kind \notin {"function", "builder"} => u[i].temps = << >>
         /\ u[i].kind = "builder" => u[i+1].kind = "builder")
       <=> /\ \A i \in DOMAIN s : i + 1 \in DOMAIN s =>
                /\ s[i+1].kind \notin {"function", "builder"} => s[i].temps = << >>
                /\ s[i].kind = "builder" => s[i+1].kind = "builder"
           /\ s # << >> => /\ x.kind \notin {"function", "builder"} => Last(s).temps = << >>
                           /\ Last(s).kind = "builder" => x.kind = "builder"
  <2>1. ASSUME NEW i \in 1..n+1, i + 1 \in 1..n+1, i # n
        PROVE  i \in 1..n /\ i + 1 \in 1..n /\ u[i] = s[i] /\ u[i+1] = s[i+1]
    BY <2>1, <1>1
  <2>2. ASSUME NEW i \in 1..n, i + 1 \in 1..n
        PROVE  i \in 1..n+1 /\ i + 1 \in 1..n+1 /\ i # n /\ u[i] = s[i] /\ u[i+1] = s[i+1]
    BY <2>2, <1>1
  <2>3. s # << >> => n \in 1..n+1 /\ n + 1 \in 1..n+1 /\ u[n] = Last(s) /\ u[n+1] = x
    BY <1>1, <1>3
  <2>4. s = << >> => ~\E i \in 1..n+1 : i + 1 \in 1..n+1
    BY <1>3, <1>1
  <2>5. QED
    BY <1>1, <1>2, <2>1, <2>2, <2>3, <2>4, Zenon
<1>7. (\A i \in DOMAIN u : u[i].kind = "builder" =>
         Len(u[i].guarded) = 1 /\ u[i].locals = << >> /\ u[i].temps = << >>)
       <=> /\ \A i \in DOMAIN s : s[i].kind = "builder" =>
                Len(s[i].guarded) = 1 /\ s[i].locals = << >> /\ s[i].temps = << >>
           /\ x.kind = "builder" => Len(x.guarded) = 1 /\ x.locals = << >> /\ x.temps = << >>
  <2>1. \A i \in 1..n+1 : i \in 1..n \/ i = n + 1
    BY <1>1
  <2>2. n + 1 \in 1..n+1 /\ \A i \in 1..n : i \in 1..n+1
    BY <1>1
  <2>3. QED
    BY <1>1, <1>2, <2>1, <2>2, Zenon
<1>8. Nested(u) <=> Nested(s) /\ MayHold(s, x)
  BY <1>5, <1>6, <1>7, Zenon DEF Nested, MayHold
<1>9. QED
  BY <1>8 DEF u

LEMMA NestedPrefix ==
  ASSUME NEW s \in Seq(ScopeType), NEW b \in 0..Len(s), Nested(s)
  PROVE  Nested(SubSeq(s, 1, b))
<1> DEFINE p == SubSeq(s, 1, b)
<1>1. p \in Seq(ScopeType) /\ Len(p) = b /\ \A i \in 1..b : p[i] = s[i]
  BY Cut
<1>2. DOMAIN p = 1..b /\ DOMAIN s = 1..Len(s) /\ Len(s) \in Nat
  BY <1>1, LenProperties
<1> HIDE DEF p
<1>3. p # << >> => s # << >> /\ 1 \in 1..b
  BY <1>1, <1>2, EmptySeq
<1>4. \A i \in 1..b : i \in 1..Len(s)
  BY <1>2
<1>5. (s # << >> => s[1].kind = "function")
        /\ (\A i \in DOMAIN s : i + 1 \in DOMAIN s =>
              /\ s[i+1].kind \notin {"function", "builder"} => s[i].temps = << >>
              /\ s[i].kind = "builder" => s[i+1].kind = "builder")
        /\ (\A i \in DOMAIN s : s[i].kind = "builder" =>
              Len(s[i].guarded) = 1 /\ s[i].locals = << >> /\ s[i].temps = << >>)
  BY DEF Nested
<1>6. p # << >> => p[1].kind = "function"
  BY <1>1, <1>3, <1>5
<1>7. \A i \in DOMAIN p : i + 1 \in DOMAIN p =>
        /\ p[i+1].kind \notin {"function", "builder"} => p[i].temps = << >>
        /\ p[i].kind = "builder" => p[i+1].kind = "builder"
  BY <1>1, <1>2, <1>4, <1>5, Zenon
<1>8. \A i \in DOMAIN p : p[i].kind = "builder" =>
        Len(p[i].guarded) = 1 /\ p[i].locals = << >> /\ p[i].temps = << >>
  BY <1>1, <1>2, <1>4, <1>5, Zenon
<1>9. Nested(p)
  BY <1>6, <1>7, <1>8, Zenon DEF Nested
<1>10. QED
  BY <1>9 DEF p

\* What runs is inside of no parse.
LEMMA NoBuilder ==
  ASSUME NEW s \in Seq(ScopeType), s # << >>, Nested(s), Last(s).kind # "builder"
  PROVE  \A i \in DOMAIN s : s[i].kind # "builder"
<1>1. Len(s) \in Nat \ {0} /\ DOMAIN s = 1..Len(s) /\ Last(s) = s[Len(s)]
  BY FrontLast, LenProperties
<1>2. SUFFICES ASSUME NEW i \in DOMAIN s, s[i].kind = "builder" PROVE FALSE
  OBVIOUS
<1> DEFINE d == Len(s) - i
<1> DEFINE G == {k \in 0..d : s[i+k].kind = "builder"}
<1>3. d \in Nat /\ 0 \in G
  BY <1>1, <1>2
<1>4. ASSUME NEW k \in 0..d-1, k \in G PROVE k + 1 \in G
  <2>1. i + k \in DOMAIN s /\ (i + k) + 1 \in DOMAIN s /\ i + (k + 1) = (i + k) + 1 /\ k + 1 \in 0..d
    BY <1>1, <1>3
  <2>2. s[i+k].kind = "builder"
    BY <1>4
  <2>3. s[(i+k)+1].kind = "builder"
    BY <2>1, <2>2 DEF Nested
  <2>4. QED
    BY <2>1, <2>3
<1>5. d \in G
  <2> HIDE DEF G, d
  <2>1. \A k \in 0..d-1 : k \in G => k + 1 \in G
    BY <1>4
  <2>2. QED
    BY <1>3, <2>1, InductionAt
<1>6. s[i+d].kind = "builder" /\ i + d = Len(s)
  BY <1>5, <1>1
<1>7. QED
  BY <1>1, <1>6

\* A set of places that is closed upwards is the end of the sequence.
LEMMA UpperSet ==
  ASSUME NEW n \in Nat, NEW U \in SUBSET (1..n), \A i \in U : \A j \in 1..n : i < j => j \in U
  PROVE  /\ Cardinality(U) \in 0..n /\ IsFiniteSet(U)
         /\ \A i \in 1..n : i \in U <=> i > n - Cardinality(U)
<1>1. CASE U = {}
  <2>1. Cardinality(U) = 0 /\ IsFiniteSet(U)
    BY <1>1, FS_EmptySet
  <2>2. QED
    BY <1>1, <2>1
<1>2. CASE U # {}
  <2>1. U \in SUBSET Nat
    OBVIOUS
  <2>2. PICK m \in U : \A i \in U : m <= i
    BY <1>2, <2>1, LeastNat
  <2>4. m \in 1..n /\ ~(m > n)
    BY <2>2
  <2>3. U = m..n
    <3>1. ASSUME NEW i \in U PROVE i \in m..n
      BY <2>2
    <3>2. ASSUME NEW i \in m..n PROVE i \in U
      <4>1. i \in 1..n /\ (i = m \/ m < i)
        BY <2>4
      <4>2. QED
        BY <4>1, <2>2
    <3>3. QED
      BY <3>1, <3>2
  <2>5. Cardinality(m..n) = (IF m > n THEN 0 ELSE n - m + 1) /\ IsFiniteSet(m..n)
    BY <2>4, FS_Interval
  <2>6. Cardinality(U) = n - m + 1 /\ IsFiniteSet(U)
    BY <2>3, <2>4, <2>5
  <2>7. QED
    BY <2>3, <2>4, <2>6
<1>3. QED
  BY <1>1, <1>2

LEMMA FrameFacts ==
  ASSUME NEW c \in Seq(FrameType), NEW s \in Seq(ScopeType), Framed(c, s)
  PROVE  /\ Len(c) \in Nat /\ DOMAIN c = 1..Len(c) /\ Len(s) \in Nat /\ DOMAIN s = 1..Len(s)
         /\ TryAt(s) \subseteq 1..Len(s)
         /\ \A i \in 1..Len(c) : /\ c[i] \in FrameType /\ c[i].at \in Nat /\ c[i].at + 1 \in TryAt(s)
                                 /\ c[i].depth = Len(Owned(SubSeq(s, 1, c[i].at)))
                                 /\ c[i].at \in 0..Len(s)-1
<1>1. Len(c) \in Nat /\ DOMAIN c = 1..Len(c) /\ Len(s) \in Nat /\ DOMAIN s = 1..Len(s)
  BY LenProperties
<1>2. TryAt(s) \subseteq 1..Len(s)
  BY <1>1 DEF TryAt
<1>3. ASSUME NEW i \in 1..Len(c)
      PROVE  /\ c[i] \in FrameType /\ c[i].at \in Nat /\ c[i].at + 1 \in TryAt(s)
             /\ c[i].depth = Len(Owned(SubSeq(s, 1, c[i].at)))
             /\ c[i].at \in 0..Len(s)-1
  <2>1. c[i] \in FrameType
    BY <1>1
  <2>2. c[i].at \in Nat
    BY <2>1 DEF FrameType
  <2>3. c[i].at + 1 \in TryAt(s) /\ c[i].depth = Len(Owned(SubSeq(s, 1, c[i].at)))
    BY <1>1 DEF Framed
  <2>4. QED
    BY <1>1, <1>2, <2>1, <2>2, <2>3
<1>4. QED
  BY <1>1, <1>2, <1>3

\* The frames stay right as long as the try bodies and what is below them stay.
LEMMA FramedSame ==
  ASSUME NEW c \in Seq(FrameType), NEW s \in Seq(ScopeType), NEW t \in Seq(ScopeType), Framed(c, s),
         NEW n \in 0..Len(s), n \in 0..Len(t), \A i \in 1..n : s[i] = t[i],
         TryAt(t) = TryAt(s), TryAt(s) \subseteq 1..n+1
  PROVE  Framed(c, t)
<1>1. /\ Len(c) \in Nat /\ DOMAIN c = 1..Len(c) /\ Len(s) \in Nat
      /\ \A i \in 1..Len(c) : /\ c[i].at \in Nat /\ c[i].at + 1 \in TryAt(s)
                              /\ c[i].depth = Len(Owned(SubSeq(s, 1, c[i].at)))
  BY FrameFacts
<1>2. ASSUME NEW i \in 1..Len(c) PROVE c[i].depth = Len(Owned(SubSeq(t, 1, c[i].at)))
  <2> DEFINE a == c[i].at
  <2>1. a \in Nat /\ a + 1 \in 1..n+1
    BY <1>1
  <2> HIDE DEF a
  <2>2. Len(t) \in Nat
    BY LenProperties
  <2>3. a \in 0..Len(s) /\ a \in 0..Len(t) /\ \A j \in 1..a : s[j] = t[j]
    BY <2>1, <2>2, <1>1
  <2>4. SubSeq(s, 1, a) = SubSeq(t, 1, a)
    BY <2>3, SamePrefix
  <2>5. QED
    BY <1>1, <2>4 DEF a
<1>3. QED
  BY <1>1, <1>2, Zenon DEF Framed

\* The frames of the try bodies among the first b scopes are the first k frames.
LEMMA FramedPrefix ==
  ASSUME NEW c \in Seq(FrameType), NEW s \in Seq(ScopeType), Framed(c, s),
         NEW b \in 0..Len(s), NEW k \in 0..Len(c), \A i \in 1..Len(c) : c[i].at < b <=> i <= k
  PROVE  SubSeq(c, 1, k) \in Seq(FrameType) /\ Framed(SubSeq(c, 1, k), SubSeq(s, 1, b))
<1> DEFINE d == SubSeq(c, 1, k)
<1> DEFINE p == SubSeq(s, 1, b)
<1>1. /\ Len(c) \in Nat /\ DOMAIN c = 1..Len(c) /\ Len(s) \in Nat /\ DOMAIN s = 1..Len(s)
      /\ \A i \in 1..Len(c) : /\ c[i].at \in Nat /\ c[i].at + 1 \in TryAt(s)
                              /\ c[i].depth = Len(Owned(SubSeq(s, 1, c[i].at)))
  BY FrameFacts
<1>2. d \in Seq(FrameType) /\ Len(d) = k /\ \A i \in 1..k : d[i] = c[i]
  BY Cut
<1>3. p \in Seq(ScopeType) /\ Len(p) = b /\ \A i \in 1..b : p[i] = s[i]
  BY Cut
<1>4. DOMAIN d = 1..k /\ DOMAIN p = 1..b
  BY <1>2, <1>3, LenProperties
<1>5. /\ {c[i].at + 1 : i \in DOMAIN c} = TryAt(s)
      /\ \A i, j \in DOMAIN c : i < j => c[i].at < c[j].at
  BY DEF Framed
<1>6. \A n \in 0..b : SubSeq(p, 1, n) = SubSeq(s, 1, n)
  BY PrefixOfPrefix
<1> HIDE DEF d, p
<1>7. TryAt(p) = {i \in TryAt(s) : i <= b}
  BY <1>1, <1>3, <1>4 DEF TryAt
<1>8. {d[i].at + 1 : i \in DOMAIN d} = TryAt(p)
  <2>1. ASSUME NEW i \in 1..k PROVE d[i].at + 1 \in TryAt(p)
    BY <1>1, <1>2, <1>7
  <2>2. ASSUME NEW t \in TryAt(p) PROVE \E i \in 1..k : t = d[i].at + 1
    <3>1. t \in TryAt(s) /\ t <= b
      BY <1>7
    <3>2. PICK i \in 1..Len(c) : t = c[i].at + 1
      BY <3>1, <1>1, <1>5
    <3>3. i \in 1..k
      BY <3>1, <3>2, <1>1
    <3>4. QED
      BY <3>2, <3>3, <1>2
  <2>3. QED
    BY <2>1, <2>2, <1>4
<1>9. \A i, j \in DOMAIN d : i < j => d[i].at < d[j].at
  BY <1>1, <1>2, <1>4, <1>5
<1>10. ASSUME NEW i \in DOMAIN d PROVE d[i].depth = Len(Owned(SubSeq(p, 1, d[i].at)))
  <2>1. i \in 1..Len(c) /\ d[i] = c[i] /\ c[i].at \in 0..b
    BY <1>1, <1>2, <1>4
  <2>2. SubSeq(p, 1, c[i].at) = SubSeq(s, 1, c[i].at)
    BY <2>1, <1>6
  <2>3. QED
    BY <2>1, <2>2, <1>1
<1>11. Framed(d, p)
  BY <1>8, <1>9, <1>10 DEF Framed
<1>12. QED
  BY <1>2, <1>11 DEF d, p

\* festina_try_pop for each try body that is left keeps the frames of the others.
LEMMA FramedCut ==
  ASSUME NEW c \in Seq(FrameType), NEW s \in Seq(ScopeType), Framed(c, s), NEW b \in 0..Len(s)
  PROVE  LET d == SubSeq(c, 1, Len(c) - TriesIn(SubSeq(s, b + 1, Len(s))))
         IN d \in Seq(FrameType) /\ Framed(d, SubSeq(s, 1, b))
<1> DEFINE q == SubSeq(s, b + 1, Len(s))
<1> DEFINE n == Len(c)
<1> DEFINE m == Len(s)
<1> DEFINE at == [i \in 1..n |-> c[i].at]
<1> DEFINE A == TryAt(s)
<1> DEFINE T == TryAt(q)
<1>1. /\ n \in Nat /\ DOMAIN c = 1..n /\ m \in Nat /\ DOMAIN s = 1..m
      /\ \A i \in 1..n : c[i].at \in Nat /\ c[i].at + 1 \in A
  BY FrameFacts
<1>2. /\ {c[i].at + 1 : i \in DOMAIN c} = A
      /\ \A i, j \in DOMAIN c : i < j => c[i].at < c[j].at
  BY DEF Framed
<1>3. q \in Seq(ScopeType) /\ Len(q) = m - b /\ \A i \in 1..m-b : q[i] = s[b+i]
  BY Cut
<1>4. DOMAIN q = 1..m-b
  BY <1>3, LenProperties
<1> HIDE DEF q
<1>6. \A t : t \in T <=> t \in 1..m-b /\ b + t \in A
  <2>1. \A t \in 1..m-b : b + t \in 1..m /\ q[t] = s[b+t]
    BY <1>1, <1>3
  <2>2. QED
    BY <2>1, <1>1, <1>4 DEF TryAt
<1>15. A \subseteq 1..m
  BY <1>1 DEF TryAt
<1> HIDE DEF n, m, A, T
<1>16. /\ at \in [1..n -> Nat] /\ \A i \in 1..n : at[i] = c[i].at /\ at[i] + 1 \in A
       /\ \A i, j \in 1..n : i < j => at[i] < at[j]
       /\ \A t \in A : \E i \in 1..n : t = at[i] + 1
  BY <1>1, <1>2
<1> HIDE DEF at
<1> DEFINE U == {i \in 1..n : at[i] >= b}
<1>17. b \in Nat /\ b <= m
  BY <1>1 DEF m
<1>5. /\ Cardinality(U) \in 0..n /\ IsFiniteSet(U)
      /\ \A i \in 1..n : i \in U <=> i > n - Cardinality(U)
  <2>1. ASSUME NEW i \in U, NEW j \in 1..n, i < j PROVE j \in U
    <3>1. at[i] \in Nat /\ at[j] \in Nat /\ at[i] < at[j] /\ at[i] >= b
      BY <2>1, <1>16
    <3>2. QED
      BY <3>1, <1>17
  <2>2. U \in SUBSET (1..n)
    OBVIOUS
  <2> HIDE DEF U
  <2>3. QED
    BY <2>1, <2>2, <1>1, UpperSet
<1>7. Cardinality(T) = Cardinality(U)
  <2> DEFINE f == [i \in U |-> at[i] + 1 - b]
  <2>1. ASSUME NEW i \in U PROVE at[i] + 1 - b \in T /\ f[i] = at[i] + 1 - b
    <3>1. at[i] \in Nat /\ at[i] >= b /\ at[i] + 1 \in A /\ at[i] + 1 \in 1..m
      BY <1>15, <1>16
    <3>2. at[i] + 1 - b \in 1..m-b /\ b + (at[i] + 1 - b) = at[i] + 1
      BY <3>1, <1>1, <1>17
    <3>3. QED
      BY <3>1, <3>2, <1>6
  <2>2. ASSUME NEW i \in U, NEW j \in U, f[i] = f[j] PROVE i = j
    <3>1. i \in 1..n /\ j \in 1..n /\ at[i] \in Nat /\ at[j] \in Nat
      BY <1>16
    <3>2. at[i] = at[j]
      BY <2>1, <2>2, <3>1, <1>17
    <3>3. QED
      BY <3>1, <3>2, <1>1, <1>16
  <2>3. ASSUME NEW t \in T PROVE \E i \in U : f[i] = t
    <3>1. t \in 1..m-b /\ b + t \in A
      BY <1>6
    <3>2. PICK i \in 1..n : b + t = at[i] + 1
      BY <3>1, <1>16
    <3>3. i \in U /\ at[i] + 1 - b = t
      <4>1. at[i] \in Nat
        BY <1>16
      <4>2. t \in Nat /\ t >= 1
        BY <3>1, <1>1, <1>17
      <4>3. at[i] >= b /\ at[i] + 1 - b = t
        <5> DEFINE z == at[i]
        <5>1. z \in Nat /\ b + t = z + 1 /\ t \in Nat /\ t >= 1 /\ b \in Nat
          BY <4>1, <4>2, <3>2, <1>17
        <5> HIDE DEF z
        <5>2. z >= b /\ z + 1 - b = t
          BY ONLY <5>1
        <5>3. QED
          BY <5>2 DEF z
      <4>4. QED
        BY <4>3
    <3>4. QED
      BY <3>3
  <2>4. f \in [U -> T]
    BY <2>1
  <2> HIDE DEF f, U
  <2>5. f \in Bijection(U, T)
    BY <2>2, <2>3, <2>4 DEF Bijection, Injection, Surjection, IsInjective
  <2>6. ExistsBijection(U, T)
    BY <2>5 DEF ExistsBijection
  <2>7. QED
    BY <2>6, <1>5, FS_Bijection
<1> DEFINE k == n - Cardinality(U)
<1>8. k \in 0..n /\ \A i \in 1..n : c[i].at < b <=> i <= k
  <2>1. k \in 0..n
    BY <1>1, <1>5
  <2>2. ASSUME NEW i \in 1..n PROVE c[i].at < b <=> i <= k
    <3>1. at[i] \in Nat /\ c[i].at = at[i] /\ (i \in U <=> at[i] >= b)
      BY <1>16
    <3> HIDE DEF U
    <3>2. i \in U <=> i > k
      BY <1>5
    <3>3. QED
      BY <3>1, <3>2, <2>1, <1>1, <1>17
  <2>3. QED
    BY <2>1, <2>2
<1>9. k = n - TriesIn(q)
  BY <1>7 DEF TriesIn, T
<1> HIDE DEF k, U
<1>10. SubSeq(c, 1, k) \in Seq(FrameType) /\ Framed(SubSeq(c, 1, k), SubSeq(s, 1, b))
  BY <1>8, FramedPrefix DEF n
<1>11. QED
  BY <1>9, <1>10 DEF q, n

\* setjmp and festina_try_push.
LEMMA FramedTry ==
  ASSUME NEW c \in Seq(FrameType), NEW s \in Seq(ScopeType), Framed(c, s),
         NEW x \in ScopeType, x.kind = "try", NEW f, f = [depth |-> Len(Owned(s)), at |-> Len(s)]
  PROVE  Append(c, f) \in Seq(FrameType) /\ Framed(Append(c, f), Append(s, x))
<1> DEFINE d == Append(c, f)
<1> DEFINE t == Append(s, x)
<1> DEFINE m == Len(c)
<1> DEFINE n == Len(s)
<1>1. /\ m \in Nat /\ DOMAIN c = 1..m /\ n \in Nat /\ DOMAIN s = 1..n
      /\ \A i \in 1..m : /\ c[i].at \in Nat /\ c[i].at + 1 \in TryAt(s) /\ c[i].at \in 0..n-1
                         /\ c[i].depth = Len(Owned(SubSeq(s, 1, c[i].at)))
  BY FrameFacts
<1>2. Owned(s) \in Seq(Nat)
  BY PartsFacts
<1>3. Len(Owned(s)) \in Nat
  BY <1>2, LenProperties
<1>4. f \in FrameType /\ f.at = n /\ f.depth = Len(Owned(s))
  BY <1>1, <1>3 DEF FrameType
<1>5. d \in Seq(FrameType) /\ Len(d) = m + 1 /\ d[m+1] = f /\ \A i \in 1..m : d[i] = c[i]
  BY <1>4, AppendProperties
<1>6. t \in Seq(ScopeType) /\ Len(t) = n + 1 /\ t[n+1] = x /\ \A i \in 1..n : t[i] = s[i]
  BY AppendProperties
<1>7. DOMAIN d = 1..m+1 /\ DOMAIN t = 1..n+1
  BY <1>5, <1>6, LenProperties
<1>8. /\ {c[i].at + 1 : i \in DOMAIN c} = TryAt(s)
      /\ \A i, j \in DOMAIN c : i < j => c[i].at < c[j].at
  BY DEF Framed
<1> HIDE DEF d, t, m
<1>9. ASSUME NEW a \in 0..n PROVE SubSeq(t, 1, a) = SubSeq(s, 1, a)
  <2>1. a \in 0..Len(t) /\ a \in 0..Len(s) /\ \A i \in 1..a : t[i] = s[i]
    BY <1>1, <1>6
  <2>2. QED
    BY <2>1, <1>6, SamePrefix
<1>10. SubSeq(s, 1, n) = s
  BY SubSeqFull
<1> HIDE DEF n
<1>11. TryAt(t) = TryAt(s) \cup {n+1}
  BY <1>1, <1>6, <1>7 DEF TryAt
<1>12. {d[i].at + 1 : i \in DOMAIN d} = TryAt(t)
  <2>1. {d[i].at + 1 : i \in 1..m+1} = {c[i].at + 1 : i \in 1..m} \cup {n + 1}
    <3>1. 1..m+1 = (1..m) \cup {m+1}
      BY <1>1
    <3>2. \A i \in 1..m : d[i].at + 1 = c[i].at + 1
      BY <1>5
    <3>3. d[m+1].at + 1 = n + 1
      BY <1>4, <1>5
    <3>4. QED
      BY <3>1, <3>2, <3>3, Zenon
  <2>2. QED
    BY <2>1, <1>1, <1>7, <1>8, <1>11
<1>13. ASSUME NEW i \in DOMAIN d, NEW j \in DOMAIN d, i < j PROVE d[i].at < d[j].at
  <2>1. i \in 1..m /\ (j \in 1..m \/ j = m + 1)
    <3>1. m \in Nat /\ i \in 1..m+1 /\ j \in 1..m+1 /\ i < j
      BY <1>13, <1>1, <1>7, Zenon
    <3>2. QED
      BY ONLY <3>1
  <2>2. CASE j \in 1..m
    <3>1. d[i] = c[i] /\ d[j] = c[j]
      BY <2>1, <2>2, <1>5
    <3>2. i \in DOMAIN c /\ j \in DOMAIN c
      BY <2>1, <2>2, <1>1
    <3>3. c[i].at < c[j].at
      BY <3>2, <1>8, <1>13, Zenon
    <3>4. QED
      BY <3>1, <3>3
  <2>3. CASE j = m + 1
    <3>1. d[i].at = c[i].at /\ d[j].at = n
      BY <2>1, <2>3, <1>4, <1>5
    <3>2. c[i].at \in 0..n-1
      BY <2>1, <1>1
    <3> DEFINE a == c[i].at
    <3> HIDE DEF a
    <3>3. a < n
      BY <3>2, <1>1 DEF a
    <3>4. QED
      BY <3>1, <3>3 DEF a
  <2>4. QED
    BY <2>1, <2>2, <2>3
<1>14. ASSUME NEW i \in DOMAIN d PROVE d[i].depth = Len(Owned(SubSeq(t, 1, d[i].at)))
  <2>1. CASE i \in 1..m
    <3>1. d[i] = c[i] /\ c[i].at \in 0..n
      BY <2>1, <1>1, <1>5
    <3>2. SubSeq(t, 1, c[i].at) = SubSeq(s, 1, c[i].at)
      BY <3>1, <1>9
    <3>3. QED
      BY <2>1, <3>1, <3>2, <1>1
  <2>2. CASE i = m + 1
    <3>1. d[i] = f /\ n \in 0..n
      BY <2>2, <1>1, <1>5
    <3>2. SubSeq(t, 1, n) = s
      BY <3>1, <1>9, <1>10
    <3>3. QED
      BY <3>1, <3>2, <1>4
  <2>3. QED
    BY <2>1, <2>2, <1>1, <1>7
<1>15. Framed(d, t)
  BY <1>12, <1>13, <1>14 DEF Framed
<1>16. QED
  BY <1>5, <1>15 DEF d, t

(***************************************************************************)
(* One scope more, one less, another in the last one's place.              *)
(***************************************************************************)
Opened(kind, guarded, locals, temps) ==
  [kind |-> kind, guarded |-> guarded, locals |-> locals, temps |-> temps]

LEMMA TryAtAppend ==
  ASSUME NEW s \in Seq(ScopeType), NEW x \in ScopeType
  PROVE  TryAt(Append(s, x)) = TryAt(s) \cup (IF x.kind = "try" THEN {Len(s) + 1} ELSE {})
<1> DEFINE t == Append(s, x)
<1> DEFINE n == Len(s)
<1>1. t \in Seq(ScopeType) /\ Len(t) = n + 1 /\ (\A i \in 1..n : t[i] = s[i]) /\ t[n+1] = x
      /\ n \in Nat /\ DOMAIN s = 1..n
  BY AppendProperties, LenProperties
<1>2. DOMAIN t = 1..n+1
  BY <1>1, LenProperties
<1> HIDE DEF t, n
<1>3. 1..n+1 = (1..n) \cup {n+1}
  BY <1>1
<1>4. TryAt(t) = TryAt(s) \cup (IF x.kind = "try" THEN {n + 1} ELSE {})
  BY <1>1, <1>2, <1>3 DEF TryAt
<1>5. QED
  BY <1>4 DEF t, n

LEMMA AppendAgrees ==
  ASSUME NEW s \in Seq(ScopeType), NEW x \in ScopeType, NEW y \in ScopeType
  PROVE  /\ Append(s, x) \in Seq(ScopeType) /\ Len(s) \in Nat
         /\ Len(s) \in 0..Len(s) /\ Len(s) \in 0..Len(Append(s, x))
         /\ \A i \in 1..Len(s) : Append(s, x)[i] = s[i] /\ Append(s, x)[i] = Append(s, y)[i]
<1>1. Len(s) \in Nat
  BY LenProperties
<1>2. Append(s, x) \in Seq(ScopeType) /\ Len(Append(s, x)) = Len(s) + 1
      /\ \A i \in 1..Len(s) : Append(s, x)[i] = s[i]
  BY AppendProperties
<1>3. \A i \in 1..Len(s) : Append(s, y)[i] = s[i]
  BY AppendProperties
<1>4. QED
  BY <1>1, <1>2, <1>3

LEMMA FramedAppend ==
  ASSUME NEW c \in Seq(FrameType), NEW s \in Seq(ScopeType), NEW x \in ScopeType
  PROVE  /\ Framed(c, s) /\ x.kind # "try" => Framed(c, Append(s, x))
         /\ Framed(c, Append(s, x)) /\ x.kind # "try" => Framed(c, s)
         /\ \A y \in ScopeType : Framed(c, Append(s, x)) /\ y.kind = x.kind => Framed(c, Append(s, y))
<1> DEFINE t == Append(s, x)
<1> DEFINE n == Len(s)
<1>1. /\ t \in Seq(ScopeType) /\ n \in Nat /\ n \in 0..Len(s) /\ n \in 0..Len(t)
      /\ \A i \in 1..n : t[i] = s[i]
  BY AppendAgrees
<1>2. TryAt(t) = TryAt(s) \cup (IF x.kind = "try" THEN {n + 1} ELSE {})
  BY TryAtAppend
<1>3. TryAt(s) \subseteq 1..n
  BY LenProperties DEF TryAt
<1>4. 1..n \subseteq 1..n+1 /\ n + 1 \in 1..n+1
  BY <1>1
<1>5. TryAt(s) \subseteq 1..n+1 /\ TryAt(t) \subseteq 1..n+1
  BY <1>2, <1>3, <1>4
<1>6. ASSUME NEW y \in ScopeType, Framed(c, t), y.kind = x.kind PROVE Framed(c, Append(s, y))
  <2> DEFINE u == Append(s, y)
  <2>1. u \in Seq(ScopeType) /\ n \in 0..Len(u) /\ \A i \in 1..n : t[i] = u[i]
    BY AppendAgrees
  <2>2. TryAt(u) = TryAt(s) \cup (IF y.kind = "try" THEN {n + 1} ELSE {})
    BY TryAtAppend
  <2> HIDE DEF u, t, n
  <2>3. TryAt(u) = TryAt(t)
    BY <2>2, <1>2, <1>6
  <2>4. Framed(c, u)
    BY <2>1, <2>3, <1>1, <1>5, <1>6, FramedSame
  <2>5. QED
    BY <2>4 DEF u
<1> HIDE DEF t, n
<1>7. ASSUME Framed(c, s), x.kind # "try" PROVE Framed(c, t)
  <2>1. TryAt(t) = TryAt(s) /\ \A i \in 1..n : s[i] = t[i]
    BY <1>1, <1>2, <1>7
  <2>2. QED
    BY <2>1, <1>1, <1>5, <1>7, FramedSame
<1>8. ASSUME Framed(c, t), x.kind # "try" PROVE Framed(c, s)
  <2>1. TryAt(t) = TryAt(s)
    BY <1>2, <1>8
  <2>2. QED
    BY <2>1, <1>1, <1>5, <1>8, FramedSame
<1>9. QED
  BY <1>6, <1>7, <1>8 DEF t

LEMMA FreedFacts ==
  ASSUME released \in [1..MaxValues -> Nat], NEW w \in Seq(Nat)
  PROVE  /\ Freed(w) \in [1..MaxValues -> Nat]
         /\ \A v \in 1..MaxValues : Freed(w)[v] = released[v] + Occurrences(w, v)
<1>1. \A v \in 1..MaxValues : Occurrences(w, v) \in Nat
  BY OccurrencesType
<1>2. DOMAIN released = 1..MaxValues /\ \A v \in 1..MaxValues : released[v] \in Nat
  OBVIOUS
<1>3. QED
  BY <1>1, <1>2 DEF Freed

LEMMA NoOccurrence ==
  ASSUME NEW v
  PROVE  Occurrences(<< >>, v) = 0 /\ << >> \in Seq(Nat)
<1>1. << >> \in Seq(Nat) /\ 0 \in Nat
  BY EmptySeq
<1>2. QED
  BY <1>1, OccurrencesAppend

LEMMA OneOccurrence ==
  ASSUME NEW n \in Nat, NEW v
  PROVE  <<n>> \in Seq(Nat) /\ Occurrences(<<n>>, v) = IF n = v THEN 1 ELSE 0
<1>1. Append(<< >>, n) = <<n>> /\ << >> \in Seq(Nat)
  BY EmptySeq
<1>2. Occurrences(Append(<< >>, n), v) = Occurrences(<< >>, v) + (IF n = v THEN 1 ELSE 0)
  <2> DEFINE e == << >>
  <2>1. e \in Seq(Nat)
    BY <1>1
  <2> HIDE DEF e
  <2>2. Occurrences(Append(e, n), v) = Occurrences(e, v) + (IF n = v THEN 1 ELSE 0)
    BY <2>1, OccurrencesAppend
  <2>3. QED
    BY <2>2 DEF e
<1>3. Append(<< >>, n) \in Seq(Nat)
  BY <1>1, AppendProperties
<1>4. Occurrences(<< >>, v) = 0
  BY NoOccurrence
<1>5. Occurrences(Append(<< >>, n), v) = IF n = v THEN 1 ELSE 0
  BY <1>2, <1>4
<1>6. QED
  BY <1>1, <1>3, <1>5, Zenon

\* A step that makes no value and loses none.
LEMMA KeepsAll ==
  ASSUME NEW s \in Seq(ScopeType), NEW t \in Seq(ScopeType), NEW m \in Nat, NEW l,
         NEW r \in [1..MaxValues -> Nat], NEW q \in [1..MaxValues -> Nat],
         Conserved(s, m, r, l), \A v \in 1..MaxValues : q[v] + Count(t, v) = r[v] + Count(s, v)
  PROVE  Conserved(t, m, q, l)
<1>1. SUFFICES ASSUME NEW v \in 1..MaxValues
               PROVE  q[v] + Occurrences(Owned(t), v) + Occurrences(Unbound(t), v) + (IF v \in l THEN 1 ELSE 0)
                        = IF v <= m THEN 1 ELSE 0
  BY DEF Conserved
<1>2. /\ Occurrences(Owned(t), v) \in Nat /\ Occurrences(Unbound(t), v) \in Nat
      /\ Occurrences(Owned(s), v) \in Nat /\ Occurrences(Unbound(s), v) \in Nat
  BY PartsFacts, OccurrencesType
<1>3. q[v] \in Nat /\ r[v] \in Nat
  OBVIOUS
<1>4. r[v] + Occurrences(Owned(s), v) + Occurrences(Unbound(s), v) + (IF v \in l THEN 1 ELSE 0)
        = IF v <= m THEN 1 ELSE 0
  BY DEF Conserved
<1>5. q[v] + (Occurrences(Owned(t), v) + Occurrences(Unbound(t), v))
        = r[v] + (Occurrences(Owned(s), v) + Occurrences(Unbound(s), v))
  BY DEF Count
<1>6. QED
  BY <1>2, <1>3, <1>4, <1>5

\* A step that makes a value, and may lose some.
LEMMA KeepsFresh ==
  ASSUME NEW s \in Seq(ScopeType), NEW t \in Seq(ScopeType), NEW m \in Nat, NEW l, NEW k,
         NEW r \in [1..MaxValues -> Nat], NEW q \in [1..MaxValues -> Nat], Conserved(s, m, r, l),
         \A v \in 1..MaxValues :
           q[v] + Count(t, v) + (IF v \in k THEN 1 ELSE 0)
             = r[v] + Count(s, v) + (IF v \in l THEN 1 ELSE 0) + (IF v = m + 1 THEN 1 ELSE 0)
  PROVE  Conserved(t, m + 1, q, k)
<1>1. SUFFICES ASSUME NEW v \in 1..MaxValues
               PROVE  q[v] + Occurrences(Owned(t), v) + Occurrences(Unbound(t), v) + (IF v \in k THEN 1 ELSE 0)
                        = IF v <= m + 1 THEN 1 ELSE 0
  BY DEF Conserved
<1>2. /\ Occurrences(Owned(t), v) \in Nat /\ Occurrences(Unbound(t), v) \in Nat
      /\ Occurrences(Owned(s), v) \in Nat /\ Occurrences(Unbound(s), v) \in Nat
  BY PartsFacts, OccurrencesType
<1>3. q[v] \in Nat /\ r[v] \in Nat
  OBVIOUS
<1>4. r[v] + Occurrences(Owned(s), v) + Occurrences(Unbound(s), v) + (IF v \in l THEN 1 ELSE 0)
        = IF v <= m THEN 1 ELSE 0
  BY DEF Conserved
<1>5. q[v] + (Occurrences(Owned(t), v) + Occurrences(Unbound(t), v)) + (IF v \in k THEN 1 ELSE 0)
        = r[v] + (Occurrences(Owned(s), v) + Occurrences(Unbound(s), v)) + (IF v \in l THEN 1 ELSE 0)
            + (IF v = m + 1 THEN 1 ELSE 0)
  BY DEF Count
<1>6. (IF v <= m + 1 THEN 1 ELSE 0) = (IF v <= m THEN 1 ELSE 0) + (IF v = m + 1 THEN 1 ELSE 0)
  OBVIOUS
<1> DEFINE isLost == IF v \in l THEN 1 ELSE 0
<1> DEFINE wasLost == IF v \in k THEN 1 ELSE 0
<1> DEFINE isMade == IF v <= m THEN 1 ELSE 0
<1> DEFINE isNew == IF v = m + 1 THEN 1 ELSE 0
<1>7. isLost \in Nat /\ wasLost \in Nat /\ isMade \in Nat /\ isNew \in Nat
  OBVIOUS
<1> HIDE DEF isLost, wasLost, isMade, isNew
<1>8. q[v] + Occurrences(Owned(t), v) + Occurrences(Unbound(t), v) + wasLost = isMade + isNew
  BY <1>2, <1>3, <1>4, <1>5, <1>7 DEF isLost, wasLost, isMade, isNew
<1>9. QED
  BY <1>6, <1>8 DEF wasLost, isMade, isNew

\* A set of places has a last one.
LEMMA LastPlace ==
  ASSUME NEW n \in Nat, NEW S \in SUBSET (1..n), S # {}
  PROVE  Max(S) \in S /\ \A i \in S : i <= Max(S)
<1> DEFINE D == {n - i : i \in S}
<1>1. D \in SUBSET Nat /\ D # {}
  <2>1. PICK i \in S : TRUE
    OBVIOUS
  <2>2. n - i \in D
    BY <2>1
  <2>3. \A j \in S : n - j \in Nat
    OBVIOUS
  <2>4. QED
    BY <2>2, <2>3
<1>2. PICK d \in D : \A k \in D : d <= k
  BY <1>1, LeastNat
<1>3. PICK m \in S : d = n - m
  BY <1>2
<1>4. \A i \in S : m >= i
  <2>1. \A i \in S : n - m <= n - i
    BY <1>2, <1>3
  <2>2. QED
    BY <2>1
<1>5. Max(S) \in S /\ \A i \in S : Max(S) >= i
  <2>1. \E x \in S : \A y \in S : x >= y
    BY <1>4
  <2>2. QED
    BY <2>1, Zenon DEF Max
<1>6. QED
  BY <1>5

(***************************************************************************)
(* The actions.                                                            *)
(***************************************************************************)
LEMMA InvFacts ==
  ASSUME UnwindInv
  PROVE  /\ scopes \in Seq(ScopeType) /\ catches \in Seq(FrameType) /\ made \in Nat /\ made <= MaxValues
         /\ released \in [1..MaxValues -> Nat] /\ MaxValues \in Nat
         /\ Nested(scopes) /\ cleanup = Owned(scopes) /\ Framed(catches, scopes)
         /\ Conserved(scopes, made, released, lost)
         /\ Len(scopes) \in Nat /\ DOMAIN scopes = 1..Len(scopes)
  BY CleanupAssumption, LenProperties DEF UnwindInv, UnwindTyped

LEMMA InvHolds ==
  ASSUME /\ scopes' \in Seq(ScopeType) /\ catches' \in Seq(FrameType)
         /\ made' \in Nat /\ made' <= MaxValues /\ released' \in [1..MaxValues -> Nat]
         /\ Nested(scopes') /\ cleanup' = Owned(scopes') /\ Framed(catches', scopes')
         /\ Conserved(scopes', made', released', lost')
  PROVE  UnwindInv'
<1>1. made' \in 0..MaxValues
  BY CleanupAssumption
<1>2. QED
  BY <1>1, Zenon DEF UnwindInv, UnwindTyped

LEMMA TopFacts ==
  ASSUME UnwindInv, scopes # << >>
  PROVE  /\ Front(scopes) \in Seq(ScopeType) /\ Top \in ScopeType /\ scopes = Append(Front(scopes), Top)
         /\ Nested(Front(scopes)) /\ MayHold(Front(scopes), Top)
         /\ cleanup = Owned(Front(scopes)) \o Mine(Top)
         /\ Framed(catches, Append(Front(scopes), Top))
         /\ Len(scopes) \in Nat \ {0} /\ Len(Front(scopes)) = Len(scopes) - 1 /\ Top = scopes[Len(scopes)]
<1>1. /\ Front(scopes) \in Seq(ScopeType) /\ Top \in ScopeType /\ scopes = Append(Front(scopes), Top)
      /\ Len(scopes) \in Nat \ {0} /\ Len(Front(scopes)) = Len(scopes) - 1 /\ Top = scopes[Len(scopes)]
  BY InvFacts, FrontLast DEF Top
<1> DEFINE A == Front(scopes)
<1> DEFINE x == Top
<1>2. A \in Seq(ScopeType) /\ x \in ScopeType /\ scopes = Append(A, x)
  BY <1>1
<1> HIDE DEF A, x
<1>3. Nested(A) /\ MayHold(A, x)
  BY <1>2, InvFacts, NestedStep
<1>4. cleanup = Owned(A) \o Mine(x)
  <2>1. Owned(Append(A, x)) = Owned(A) \o Mine(x)
    BY <1>2, PartsAppend
  <2>2. QED
    BY <2>1, <1>2, InvFacts, Zenon
<1>5. Framed(catches, Append(A, x))
  BY <1>2, InvFacts, Zenon
<1>6. QED
  BY <1>1, <1>3, <1>4, <1>5 DEF A, x

\* Another scope of the same kind in the place of the last.
LEMMA TopReplaced ==
  ASSUME UnwindInv, scopes # << >>, Top.kind # "builder",
         NEW A, A = Front(scopes), NEW x, x = Top, NEW y \in ScopeType, y.kind = x.kind
  PROVE  /\ Append(A, y) \in Seq(ScopeType) /\ Nested(Append(A, y)) /\ Framed(catches, Append(A, y))
         /\ Owned(Append(A, y)) = Owned(A) \o Mine(y)
         /\ A \in Seq(ScopeType) /\ x \in ScopeType /\ scopes = Append(A, x) /\ x.kind # "builder"
         /\ cleanup = Owned(A) \o Mine(x)
<1>1. /\ A \in Seq(ScopeType) /\ x \in ScopeType /\ scopes = Append(A, x) /\ Nested(A) /\ MayHold(A, x)
      /\ cleanup = Owned(A) \o Mine(x) /\ Framed(catches, Append(A, x))
  BY TopFacts, Zenon
<1>2. MayHold(A, y)
  BY <1>1 DEF MayHold
<1>3. catches \in Seq(FrameType)
  BY InvFacts
<1>4. Nested(Append(A, y))
  BY <1>1, <1>2, NestedStep
<1>5. Framed(catches, Append(A, y))
  BY <1>1, <1>3, FramedAppend
<1>6. QED
  BY <1>1, <1>4, <1>5, PartsAppend

LEMMA Retemped ==
  ASSUME NEW x \in ScopeType, NEW w \in Seq(Nat), NEW l \in Seq(Nat)
  PROVE  /\ [x EXCEPT !.temps = w] = Opened(x.kind, x.guarded, x.locals, w)
         /\ [x EXCEPT !.temps = w, !.locals = l] = Opened(x.kind, x.guarded, l, w)
<1> DEFINE k == x.kind
<1> DEFINE g == x.guarded
<1> DEFINE h == x.locals
<1> DEFINE t == x.temps
<1>1. x = [kind |-> k, guarded |-> g, locals |-> h, temps |-> t]
  BY ScopeFacts
<1> HIDE DEF k, g, h, t
<1>2. /\ [x EXCEPT !.temps = w] = [kind |-> k, guarded |-> g, locals |-> h, temps |-> w]
      /\ [x EXCEPT !.temps = w, !.locals = l] = [kind |-> k, guarded |-> g, locals |-> l, temps |-> w]
  <2>1. [x EXCEPT !.temps = w] = [kind |-> k, guarded |-> g, locals |-> h, temps |-> w]
    BY <1>1
  <2>2. [x EXCEPT !.temps = w, !.locals = l] = [[x EXCEPT !.temps = w] EXCEPT !.locals = l]
    OBVIOUS
  <2>3. [[kind |-> k, guarded |-> g, locals |-> h, temps |-> w] EXCEPT !.locals = l]
          = [kind |-> k, guarded |-> g, locals |-> l, temps |-> w]
    OBVIOUS
  <2>4. QED
    BY <2>1, <2>2, <2>3, Zenon
<1>3. QED
  BY <1>2 DEF k, g, h, t, Opened

LEMMA BuildInv == ASSUME UnwindInv, Build PROVE UnwindInv'
<1> DEFINE A == Front(scopes)
<1> DEFINE x == Top
<1> DEFINE w == Append(x.temps, made + 1)
<1> DEFINE y == Opened(x.kind, x.guarded, x.locals, w)
<1>1. scopes # << >> /\ Top.kind # "builder"
  BY DEF Build, Running
<1>2. /\ x \in ScopeType /\ made \in Nat /\ made' = made + 1
      /\ made + 1 \in Nat /\ made + 1 <= MaxValues
  BY <1>1, TopFacts, InvFacts DEF Build, Fresh
<1>3. x.kind \in Kinds /\ x.guarded \in Seq(Nat) /\ x.locals \in Seq(Nat) /\ x.temps \in Seq(Nat)
  BY <1>2, ScopeFacts
<1>4. w \in Seq(Nat)
  BY <1>2, <1>3, AppendProperties
<1>5. [x EXCEPT !.temps = w] = y
  BY <1>2, <1>3, <1>4, Retemped
<1>6. scopes' = Append(A, [x EXCEPT !.temps = w])
  BY <1>2 DEF Build, SetTop
<1>7. scopes' = Append(A, y) /\ UNCHANGED <<cleanup, catches, released, lost>>
  BY <1>5, <1>6 DEF Build
<1>8. ASSUME NEW v PROVE Occurrences(w, v) = Occurrences(x.temps, v) + (IF made + 1 = v THEN 1 ELSE 0)
  <2> DEFINE t == x.temps
  <2> DEFINE m == made + 1
  <2>1. t \in Seq(Nat) /\ m \in Nat
    BY <1>2, <1>3
  <2> HIDE DEF t, m
  <2>2. Occurrences(Append(t, m), v) = Occurrences(t, v) + (IF m = v THEN 1 ELSE 0)
    BY <2>1, OccurrencesAppend
  <2>3. QED
    BY <2>2 DEF t, m
<1> HIDE DEF w
<1>9. /\ y \in ScopeType /\ y.kind = x.kind /\ y.guarded = x.guarded /\ y.locals = x.locals
      /\ y.temps = w /\ Mine(y) = x.guarded \o x.locals
  <2>1. y = Opened(x.kind, x.guarded, x.locals, w)
    OBVIOUS
  <2> HIDE DEF x, y
  <2>2. QED
    BY <2>1, <1>3, <1>4 DEF Opened, ScopeType, Values, Mine
<1> HIDE DEF y
<1>10. /\ Append(A, y) \in Seq(ScopeType) /\ Nested(Append(A, y)) /\ Framed(catches, Append(A, y))
       /\ Owned(Append(A, y)) = Owned(A) \o Mine(y)
       /\ A \in Seq(ScopeType) /\ scopes = Append(A, x) /\ cleanup = Owned(A) \o Mine(x)
  BY <1>1, <1>9, TopReplaced
<1> HIDE DEF A, x
<1>11. cleanup' = Owned(scopes')
  BY <1>7, <1>9, <1>10, Zenon DEF Mine
<1>12. Conserved(scopes', made', released', lost')
  <2>1. ASSUME NEW v \in 1..MaxValues
        PROVE  released[v] + Count(Append(A, y), v) + (IF v \in lost THEN 1 ELSE 0)
                 = released[v] + Count(scopes, v) + (IF v \in lost THEN 1 ELSE 0) + (IF v = made + 1 THEN 1 ELSE 0)
    <3>1. /\ Count(A, v) \in Nat
          /\ Count(Append(A, y), v)
               = Count(A, v) + Occurrences(y.guarded, v) + Occurrences(y.locals, v) + Occurrences(y.temps, v)
          /\ Count(Append(A, x), v)
               = Count(A, v) + Occurrences(x.guarded, v) + Occurrences(x.locals, v) + Occurrences(x.temps, v)
      BY <1>2, <1>9, <1>10, CountAppend
    <3>2. Occurrences(x.guarded, v) \in Nat /\ Occurrences(x.locals, v) \in Nat /\ Occurrences(x.temps, v) \in Nat
      BY <1>2, ScopeCount
    <3>3. released[v] \in Nat
      BY InvFacts
    <3>4. Occurrences(y.guarded, v) = Occurrences(x.guarded, v) /\ Occurrences(y.locals, v) = Occurrences(x.locals, v)
          /\ Occurrences(y.temps, v) = Occurrences(x.temps, v) + (IF v = made + 1 THEN 1 ELSE 0)
      BY <1>8, <1>9
    <3>5. Count(Append(A, y), v) = Count(scopes, v) + (IF v = made + 1 THEN 1 ELSE 0) /\ Count(scopes, v) \in Nat
      BY <3>1, <3>2, <3>4, <1>10
    <3>6. QED
      BY <3>3, <3>5
  <2>2. Conserved(Append(A, y), made + 1, released, lost)
    BY <2>1, <1>2, <1>10, InvFacts, KeepsFresh
  <2>3. QED
    BY <2>2, <1>2, <1>7, Zenon
<1>13. QED
  BY <1>2, <1>7, <1>10, <1>11, <1>12, InvFacts, InvHolds

LEMMA BindInv == ASSUME UnwindInv, Bind PROVE UnwindInv'
<1> DEFINE A == Front(scopes)
<1> DEFINE x == Top
<1> DEFINE l == x.locals \o x.temps
<1> DEFINE y == Opened(x.kind, x.guarded, l, << >>)
<1>1. scopes # << >> /\ Top.kind # "builder"
  BY DEF Bind, Running
<1>2. x \in ScopeType
  BY <1>1, TopFacts
<1>3. x.kind \in Kinds /\ x.guarded \in Seq(Nat) /\ x.locals \in Seq(Nat) /\ x.temps \in Seq(Nat)
  BY <1>2, ScopeFacts
<1>4. l \in Seq(Nat) /\ << >> \in Seq(Nat)
  BY <1>3, ConcatProperties, EmptySeq
<1>5. [x EXCEPT !.temps = << >>, !.locals = l] = y
  BY <1>2, <1>3, <1>4, Retemped
<1>6. scopes' = Append(A, [x EXCEPT !.temps = << >>, !.locals = l])
  BY DEF Bind, SetTop
<1>7. scopes' = Append(A, y) /\ UNCHANGED <<catches, made, released, lost>> /\ cleanup' = cleanup \o x.temps
  BY <1>5, <1>6 DEF Bind
<1>8. \A v : Occurrences(l, v) = Occurrences(x.locals, v) + Occurrences(x.temps, v)
  BY <1>3, OccurrencesConcat
<1>9. /\ y \in ScopeType /\ y.kind = x.kind /\ y.guarded = x.guarded /\ y.locals = l
      /\ y.temps = << >> /\ Mine(y) = x.guarded \o l
  <2>1. y = Opened(x.kind, x.guarded, l, << >>)
    OBVIOUS
  <2> HIDE DEF x, y, l
  <2>2. QED
    BY <2>1, <1>3, <1>4 DEF Opened, ScopeType, Values, Mine
<1> HIDE DEF y
<1>10. /\ Append(A, y) \in Seq(ScopeType) /\ Nested(Append(A, y)) /\ Framed(catches, Append(A, y))
       /\ Owned(Append(A, y)) = Owned(A) \o Mine(y)
       /\ A \in Seq(ScopeType) /\ scopes = Append(A, x) /\ cleanup = Owned(A) \o Mine(x)
  BY <1>1, <1>9, TopReplaced
<1> HIDE DEF A, x
<1>11. cleanup' = Owned(scopes')
  <2> DEFINE o == Owned(A)
  <2> DEFINE g == x.guarded
  <2> DEFINE k == x.locals
  <2> DEFINE t == x.temps
  <2>1. o \in Seq(Nat) /\ g \in Seq(Nat) /\ k \in Seq(Nat) /\ t \in Seq(Nat)
    BY <1>3, <1>10, PartsFacts
  <2>2. cleanup = o \o (g \o k) /\ cleanup' = cleanup \o t /\ Owned(scopes') = o \o (g \o (k \o t))
    BY <1>7, <1>9, <1>10, Zenon DEF Mine
  <2> HIDE DEF o, g, k, t
  <2>3. g \o k \in Seq(Nat)
    BY <2>1, ConcatProperties
  <2>4. (o \o (g \o k)) \o t = o \o ((g \o k) \o t)
    <3> DEFINE e == g \o k
    <3>1. e \in Seq(Nat)
      BY <2>3
    <3> HIDE DEF e
    <3>2. (o \o e) \o t = o \o (e \o t)
      BY <3>1, <2>1, ValuesAssociative
    <3>3. QED
      BY <3>2 DEF e
  <2>5. (g \o k) \o t = g \o (k \o t)
    BY <2>1, ValuesAssociative
  <2>6. QED
    BY <2>2, <2>4, <2>5, Zenon
<1>12. Conserved(scopes', made', released', lost')
  <2>1. ASSUME NEW v \in 1..MaxValues
        PROVE  released[v] + Count(Append(A, y), v) = released[v] + Count(scopes, v)
    <3>1. /\ Count(A, v) \in Nat
          /\ Count(Append(A, y), v)
               = Count(A, v) + Occurrences(y.guarded, v) + Occurrences(y.locals, v) + Occurrences(y.temps, v)
          /\ Count(Append(A, x), v)
               = Count(A, v) + Occurrences(x.guarded, v) + Occurrences(x.locals, v) + Occurrences(x.temps, v)
      BY <1>2, <1>9, <1>10, CountAppend
    <3>2. Occurrences(x.guarded, v) \in Nat /\ Occurrences(x.locals, v) \in Nat /\ Occurrences(x.temps, v) \in Nat
      BY <1>2, ScopeCount
    <3>3. Occurrences(y.temps, v) = 0
      BY <1>9, NoOccurrence
    <3>4. Occurrences(y.guarded, v) = Occurrences(x.guarded, v)
          /\ Occurrences(y.locals, v) = Occurrences(x.locals, v) + Occurrences(x.temps, v)
      BY <1>8, <1>9
    <3>5. Count(Append(A, y), v) = Count(scopes, v)
      BY <3>1, <3>2, <3>3, <3>4, <1>10
    <3>6. QED
      BY <3>5
  <2>2. Conserved(Append(A, y), made, released, lost)
    BY <2>1, <1>10, InvFacts, KeepsAll
  <2>3. QED
    BY <2>2, <1>7, Zenon
<1>13. QED
  BY <1>7, <1>10, <1>11, <1>12, InvFacts, InvHolds

LEMMA DiscardInv == ASSUME UnwindInv, Discard PROVE UnwindInv'
<1> DEFINE A == Front(scopes)
<1> DEFINE x == Top
<1> DEFINE y == Opened(x.kind, x.guarded, x.locals, << >>)
<1>1. scopes # << >> /\ Top.kind # "builder"
  BY DEF Discard, Running
<1>2. x \in ScopeType
  BY <1>1, TopFacts
<1>3. x.kind \in Kinds /\ x.guarded \in Seq(Nat) /\ x.locals \in Seq(Nat) /\ x.temps \in Seq(Nat) /\ << >> \in Seq(Nat)
  BY <1>2, ScopeFacts, EmptySeq
<1>5. [x EXCEPT !.temps = << >>] = y
  BY <1>2, <1>3, Retemped
<1>6. scopes' = Append(A, [x EXCEPT !.temps = << >>])
  BY DEF Discard, SetTop
<1>7. scopes' = Append(A, y) /\ UNCHANGED <<cleanup, catches, made, lost>> /\ released' = Freed(x.temps)
  BY <1>5, <1>6 DEF Discard
<1>8. /\ released' \in [1..MaxValues -> Nat]
      /\ \A v \in 1..MaxValues : released'[v] = released[v] + Occurrences(x.temps, v)
  BY <1>3, <1>7, InvFacts, FreedFacts
<1>9. /\ y \in ScopeType /\ y.kind = x.kind /\ y.guarded = x.guarded /\ y.locals = x.locals
      /\ y.temps = << >> /\ Mine(y) = x.guarded \o x.locals
  <2>1. y = Opened(x.kind, x.guarded, x.locals, << >>)
    OBVIOUS
  <2> HIDE DEF x, y
  <2>2. QED
    BY <2>1, <1>3 DEF Opened, ScopeType, Values, Mine
<1> HIDE DEF y
<1>10. /\ Append(A, y) \in Seq(ScopeType) /\ Nested(Append(A, y)) /\ Framed(catches, Append(A, y))
       /\ Owned(Append(A, y)) = Owned(A) \o Mine(y)
       /\ A \in Seq(ScopeType) /\ scopes = Append(A, x) /\ cleanup = Owned(A) \o Mine(x)
  BY <1>1, <1>9, TopReplaced
<1> HIDE DEF A, x
<1>11. cleanup' = Owned(scopes')
  BY <1>7, <1>9, <1>10, Zenon DEF Mine
<1>12. Conserved(scopes', made', released', lost')
  <2>1. ASSUME NEW v \in 1..MaxValues
        PROVE  released'[v] + Count(Append(A, y), v) = released[v] + Count(scopes, v)
    <3>1. /\ Count(A, v) \in Nat
          /\ Count(Append(A, y), v)
               = Count(A, v) + Occurrences(y.guarded, v) + Occurrences(y.locals, v) + Occurrences(y.temps, v)
          /\ Count(Append(A, x), v)
               = Count(A, v) + Occurrences(x.guarded, v) + Occurrences(x.locals, v) + Occurrences(x.temps, v)
      BY <1>2, <1>9, <1>10, CountAppend
    <3>2. Occurrences(x.guarded, v) \in Nat /\ Occurrences(x.locals, v) \in Nat /\ Occurrences(x.temps, v) \in Nat
      BY <1>2, ScopeCount
    <3>3. Occurrences(y.temps, v) = 0
      BY <1>9, NoOccurrence
    <3>4. Occurrences(y.guarded, v) = Occurrences(x.guarded, v)
          /\ Occurrences(y.locals, v) = Occurrences(x.locals, v)
      BY <1>9
    <3>5. Count(Append(A, y), v) + Occurrences(x.temps, v) = Count(scopes, v) /\ Count(Append(A, y), v) \in Nat
      BY <3>1, <3>2, <3>3, <3>4, <1>10
    <3>6. released[v] \in Nat
      BY InvFacts
    <3>7. QED
      BY <3>2, <3>5, <3>6, <1>8
  <2> DEFINE q == released'
  <2>2. q \in [1..MaxValues -> Nat] /\ \A v \in 1..MaxValues : q[v] + Count(Append(A, y), v) = released[v] + Count(scopes, v)
    BY <2>1, <1>8
  <2> HIDE DEF q
  <2>3. Conserved(Append(A, y), made, q, lost)
    BY <2>2, <1>10, InvFacts, KeepsAll
  <2>4. QED
    BY <2>3, <1>7, Zenon DEF q
<1>13. QED
  BY <1>7, <1>8, <1>10, <1>11, <1>12, InvFacts, InvHolds

\* A new innermost scope, that is no try body.
LEMMA Pushed ==
  ASSUME NEW s \in Seq(ScopeType), NEW c \in Seq(FrameType), NEW z \in ScopeType,
         Nested(s), Framed(c, s), z.kind # "try", MayHold(s, z)
  PROVE  /\ Append(s, z) \in Seq(ScopeType) /\ Nested(Append(s, z)) /\ Framed(c, Append(s, z))
         /\ Owned(Append(s, z)) = Owned(s) \o Mine(z)
<1>1. Nested(Append(s, z))
  BY NestedStep
<1>2. Framed(c, Append(s, z))
  BY FramedAppend
<1>3. QED
  BY <1>1, <1>2, PartsAppend

\* Values go to the expression of the innermost scope.
Receive(s, w) == Append(Front(s), [Last(s) EXCEPT !.temps = Last(s).temps \o w])

LEMMA Received ==
  ASSUME NEW s \in Seq(ScopeType), s # << >>, NEW c \in Seq(FrameType), Nested(s), Framed(c, s),
         Last(s).kind # "builder", NEW w \in Seq(Nat),
         NEW t, t = Receive(s, w)
  PROVE  /\ t \in Seq(ScopeType) /\ Nested(t) /\ Framed(c, t) /\ Owned(t) = Owned(s)
         /\ \A v : Count(t, v) = Count(s, v) + Occurrences(w, v)
<1> DEFINE A == Front(s)
<1> DEFINE x == Last(s)
<1> DEFINE u == x.temps \o w
<1> DEFINE y == Opened(x.kind, x.guarded, x.locals, u)
<1>1. A \in Seq(ScopeType) /\ x \in ScopeType /\ s = Append(A, x)
  BY FrontLast
<1>2. x.kind \in Kinds /\ x.guarded \in Seq(Nat) /\ x.locals \in Seq(Nat) /\ x.temps \in Seq(Nat)
  BY <1>1, ScopeFacts
<1>3. u \in Seq(Nat)
  BY <1>2, ConcatProperties
<1>4. [x EXCEPT !.temps = u] = y
  BY <1>1, <1>2, <1>3, Retemped
<1>5. t = Append(A, y)
  BY <1>4 DEF Receive
<1>6. \A v : Occurrences(u, v) = Occurrences(x.temps, v) + Occurrences(w, v)
  BY <1>2, OccurrencesConcat
<1>7. /\ y \in ScopeType /\ y.kind = x.kind /\ y.guarded = x.guarded /\ y.locals = x.locals
      /\ y.temps = u /\ Mine(y) = Mine(x)
  <2>1. y = Opened(x.kind, x.guarded, x.locals, u)
    OBVIOUS
  <2> HIDE DEF x, y, u
  <2>2. QED
    BY <2>1, <1>2, <1>3 DEF Opened, ScopeType, Values, Mine
<1>8. x.kind # "builder"
  OBVIOUS
<1> HIDE DEF A, x, u, y
<1>9. Nested(A) /\ MayHold(A, x) /\ Framed(c, Append(A, x))
  <2>1. Nested(Append(A, x)) /\ Framed(c, Append(A, x))
    BY <1>1, Zenon
  <2>2. QED
    BY <2>1, <1>1, NestedStep
<1>10. MayHold(A, y)
  BY <1>7, <1>8, <1>9 DEF MayHold
<1>11. Nested(Append(A, y)) /\ Framed(c, Append(A, y))
  <2>1. Nested(Append(A, y))
    BY <1>1, <1>7, <1>9, <1>10, NestedStep
  <2>2. Framed(c, Append(A, y))
    BY <1>1, <1>7, <1>9, FramedAppend
  <2>3. QED
    BY <2>1, <2>2
<1>12. /\ Append(A, y) \in Seq(ScopeType) /\ Owned(Append(A, y)) = Owned(A) \o Mine(y)
       /\ Owned(Append(A, x)) = Owned(A) \o Mine(x)
  BY <1>1, <1>7, PartsAppend
<1>13. Owned(Append(A, y)) = Owned(s)
  BY <1>1, <1>7, <1>12, Zenon
<1>14. ASSUME NEW v PROVE Count(Append(A, y), v) = Count(s, v) + Occurrences(w, v)
  <2>1. /\ Count(A, v) \in Nat
        /\ Count(Append(A, y), v)
             = Count(A, v) + Occurrences(y.guarded, v) + Occurrences(y.locals, v) + Occurrences(y.temps, v)
        /\ Count(Append(A, x), v)
             = Count(A, v) + Occurrences(x.guarded, v) + Occurrences(x.locals, v) + Occurrences(x.temps, v)
    BY <1>1, <1>7, CountAppend
  <2>2. /\ Occurrences(x.guarded, v) \in Nat /\ Occurrences(x.locals, v) \in Nat
        /\ Occurrences(x.temps, v) \in Nat /\ Occurrences(w, v) \in Nat
    BY <1>1, ScopeCount, OccurrencesType
  <2>3. Occurrences(y.guarded, v) = Occurrences(x.guarded, v) /\ Occurrences(y.locals, v) = Occurrences(x.locals, v)
        /\ Occurrences(y.temps, v) = Occurrences(x.temps, v) + Occurrences(w, v)
    BY <1>6, <1>7
  <2>4. QED
    BY <2>1, <2>2, <2>3, <1>1
<1>15. QED
  BY <1>5, <1>11, <1>12, <1>13, <1>14

LEMMA LastAppend ==
  ASSUME NEW S, NEW s \in Seq(S), NEW x \in S
  PROVE  Append(s, x) # << >> /\ Last(Append(s, x)) = x
<1>1. Len(s) \in Nat /\ Len(Append(s, x)) = Len(s) + 1 /\ Append(s, x)[Len(s) + 1] = x
      /\ Append(s, x) \in Seq(S)
  BY LenProperties, AppendProperties
<1>2. QED
  BY <1>1, EmptySeq DEF Last

LEMMA CallInv == ASSUME UnwindInv, NEW n \in 0..MaxValues, Call(n) PROVE UnwindInv'
<1> DEFINE A == Front(scopes)
<1> DEFINE x == Top
<1> DEFINE k == Len(x.temps) - n
<1> DEFINE rest == SubSeq(x.temps, 1, k)
<1> DEFINE args == SubSeq(x.temps, k + 1, Len(x.temps))
<1> DEFINE y == Opened(x.kind, x.guarded, x.locals, rest)
<1> DEFINE z == Opened("function", args, << >>, << >>)
<1>1. scopes # << >> /\ Top.kind # "builder" /\ n \in 0..Len(x.temps)
  BY DEF Call, Running
<1>2. x \in ScopeType
  BY <1>1, TopFacts
<1>3. x.kind \in Kinds /\ x.guarded \in Seq(Nat) /\ x.locals \in Seq(Nat) /\ x.temps \in Seq(Nat) /\ << >> \in Seq(Nat)
  BY <1>2, ScopeFacts, EmptySeq
<1>4. rest \in Seq(Nat) /\ args \in Seq(Nat) /\ x.temps = rest \o args
  <2> DEFINE t == x.temps
  <2>1. t \in Seq(Nat) /\ Len(t) \in Nat
    BY <1>3, LenProperties
  <2>2. k \in 0..Len(t)
    BY <2>1, <1>1
  <2> HIDE DEF t, k
  <2>3. SubSeq(t, 1, k) \in Seq(Nat) /\ SubSeq(t, k + 1, Len(t)) \in Seq(Nat)
        /\ t = SubSeq(t, 1, k) \o SubSeq(t, k + 1, Len(t))
    BY <2>1, <2>2, Cut
  <2>4. QED
    BY <2>3 DEF t
<1>5. [x EXCEPT !.temps = rest] = y
  BY <1>2, <1>3, <1>4, Retemped
<1>6. /\ scopes' = A \o <<[x EXCEPT !.temps = rest], Scope("function", args)>>
      /\ cleanup' = cleanup \o args
      /\ UNCHANGED <<catches, made, released, lost>>
  BY DEF Call
<1>7. scopes' = A \o <<y, z>>
  BY <1>5, <1>6 DEF Scope, Opened
<1>8. /\ y \in ScopeType /\ y.kind = x.kind /\ y.guarded = x.guarded /\ y.locals = x.locals
      /\ y.temps = rest /\ Mine(y) = x.guarded \o x.locals
  <2>1. y = Opened(x.kind, x.guarded, x.locals, rest)
    OBVIOUS
  <2> HIDE DEF x, y, rest
  <2>2. QED
    BY <2>1, <1>3, <1>4 DEF Opened, ScopeType, Values, Mine
<1>9. /\ z \in ScopeType /\ z.kind = "function" /\ z.guarded = args /\ z.locals = << >> /\ z.temps = << >>
      /\ Mine(z) = args
  <2>1. z = Opened("function", args, << >>, << >>)
    OBVIOUS
  <2> HIDE DEF args, z
  <2>2. args \o << >> = args
    BY <1>4, ConcatEmptySeq
  <2>3. QED
    BY <2>1, <2>2, <1>3, <1>4 DEF Opened, ScopeType, Values, Mine, Kinds
<1> HIDE DEF y, z
<1>10. /\ Append(A, y) \in Seq(ScopeType) /\ Nested(Append(A, y)) /\ Framed(catches, Append(A, y))
       /\ Owned(Append(A, y)) = Owned(A) \o Mine(y)
       /\ A \in Seq(ScopeType) /\ scopes = Append(A, x) /\ cleanup = Owned(A) \o Mine(x)
  BY <1>1, <1>8, TopReplaced
<1>11. \A v : Occurrences(x.temps, v) = Occurrences(rest, v) + Occurrences(args, v)
  <2>1. \A v : Occurrences(rest \o args, v) = Occurrences(rest, v) + Occurrences(args, v)
    <3> HIDE DEF rest, args
    <3>1. QED
      BY <1>4, OccurrencesConcat
  <2>2. QED
    BY <2>1, <1>4, Zenon
<1> HIDE DEF rest, args, A, x
<1> DEFINE B == Append(A, y)
<1>12. B \in Seq(ScopeType) /\ Nested(B) /\ Framed(catches, B) /\ B # << >> /\ Last(B) = y
  BY <1>8, <1>10, LastAppend
<1>13. scopes' = Append(B, z)
  <2>1. <<y, z>> = Append(<<y>>, z) /\ <<y>> \in Seq(ScopeType)
    BY <1>8, Single
  <2>2. A \o Append(<<y>>, z) = Append(A \o <<y>>, z)
    BY <2>1, <1>9, <1>10, AppendConcat
  <2>3. A \o <<y>> = Append(A, y)
    BY <1>8, <1>10, AppendIsConcat
  <2>4. QED
    BY <2>1, <2>2, <2>3, <1>7, Zenon
<1> HIDE DEF B
<1>14. MayHold(B, z)
  BY <1>1, <1>8, <1>9, <1>12 DEF MayHold, x
<1>15. Append(B, z) \in Seq(ScopeType) /\ Nested(Append(B, z)) /\ Framed(catches, Append(B, z))
       /\ Owned(Append(B, z)) = Owned(B) \o Mine(z)
  <2>1. catches \in Seq(FrameType) /\ z.kind # "try"
    BY <1>9, InvFacts
  <2>2. QED
    BY <2>1, <1>9, <1>12, <1>14, Pushed
<1>16. cleanup' = Owned(scopes')
  <2>1. cleanup = Owned(B)
    BY <1>8, <1>10, Zenon DEF B, Mine
  <2>2. QED
    BY <2>1, <1>6, <1>9, <1>13, <1>15, Zenon
<1>17. Conserved(scopes', made', released', lost')
  <2>1. ASSUME NEW v \in 1..MaxValues
        PROVE  released[v] + Count(Append(B, z), v) = released[v] + Count(scopes, v)
    <3>1. /\ Count(A, v) \in Nat
          /\ Count(Append(A, y), v)
               = Count(A, v) + Occurrences(y.guarded, v) + Occurrences(y.locals, v) + Occurrences(y.temps, v)
          /\ Count(Append(A, x), v)
               = Count(A, v) + Occurrences(x.guarded, v) + Occurrences(x.locals, v) + Occurrences(x.temps, v)
      BY <1>2, <1>8, <1>10, CountAppend DEF x
    <3>2. Occurrences(x.guarded, v) \in Nat /\ Occurrences(x.locals, v) \in Nat
      BY <1>2, ScopeCount DEF x
    <3>3. Count(Append(B, z), v)
            = Count(B, v) + Occurrences(z.guarded, v) + Occurrences(z.locals, v) + Occurrences(z.temps, v)
      BY <1>9, <1>12, CountAppend
    <3>4. Occurrences(z.locals, v) = 0 /\ Occurrences(z.temps, v) = 0 /\ Occurrences(z.guarded, v) = Occurrences(args, v)
      BY <1>9, NoOccurrence
    <3>5. Occurrences(args, v) \in Nat /\ Occurrences(rest, v) \in Nat
      BY <1>4, OccurrencesType
    <3>6. Occurrences(x.temps, v) = Occurrences(rest, v) + Occurrences(args, v)
      BY <1>11
    <3>7. Occurrences(y.guarded, v) = Occurrences(x.guarded, v) /\ Occurrences(y.locals, v) = Occurrences(x.locals, v)
          /\ Occurrences(y.temps, v) = Occurrences(rest, v)
      BY <1>8
    <3>8. Count(B, v) = Count(Append(A, y), v) /\ Count(scopes, v) = Count(Append(A, x), v)
      BY <1>10 DEF B
    <3>9. QED
      BY <3>1, <3>2, <3>3, <3>4, <3>5, <3>6, <3>7, <3>8
  <2>2. Conserved(Append(B, z), made, released, lost)
    BY <2>1, <1>15, InvFacts, KeepsAll
  <2>3. QED
    BY <2>2, <1>6, <1>13, Zenon
<1>18. QED
  BY <1>6, <1>13, <1>15, <1>16, <1>17, InvFacts, InvHolds

LEMMA BeginParseInv == ASSUME UnwindInv, BeginParse PROVE UnwindInv'
<1> DEFINE m == made + 1
<1> DEFINE z == Opened("builder", <<m>>, << >>, << >>)
<1>1. scopes # << >> /\ made' = m /\ made < MaxValues
  BY DEF BeginParse, Running, Parsing, Fresh
<1>2. made \in Nat /\ m \in Nat /\ m <= MaxValues
  BY <1>1, InvFacts
<1>3. scopes' = Append(scopes, z) /\ cleanup' = Append(cleanup, m) /\ UNCHANGED <<catches, released, lost>>
  BY <1>1 DEF BeginParse, Scope, Opened
<1> HIDE DEF m
<1>4. <<m>> \in Seq(Nat) /\ << >> \in Seq(Nat) /\ Len(<<m>>) = 1
  BY <1>2, OneOccurrence, NoOccurrence
<1>5. <<m>> \o << >> = <<m>>
  BY <1>4, ConcatEmptySeq
<1>6. /\ z \in ScopeType /\ z.kind = "builder" /\ z.guarded = <<m>> /\ z.locals = << >> /\ z.temps = << >>
      /\ Mine(z) = <<m>>
  <2>1. z = Opened("builder", <<m>>, << >>, << >>)
    OBVIOUS
  <2> HIDE DEF z
  <2>2. QED
    BY <2>1, <1>4, <1>5 DEF Opened, ScopeType, Values, Mine, Kinds
<1> HIDE DEF z
<1>7. MayHold(scopes, z)
  BY <1>1, <1>4, <1>6 DEF MayHold
<1>8. Append(scopes, z) \in Seq(ScopeType) /\ Nested(Append(scopes, z)) /\ Framed(catches, Append(scopes, z))
      /\ Owned(Append(scopes, z)) = Owned(scopes) \o Mine(z)
  <2>1. z.kind # "try"
    BY <1>6
  <2>2. QED
    BY <2>1, <1>6, <1>7, InvFacts, Pushed
<1>9. cleanup' = Owned(scopes')
  <2>1. cleanup = Owned(scopes) /\ Owned(scopes) \in Seq(Nat)
    BY InvFacts, PartsFacts
  <2>2. Append(cleanup, m) = cleanup \o <<m>>
    BY <2>1, <1>2, AppendIsConcat
  <2>3. QED
    BY <2>1, <2>2, <1>3, <1>6, <1>8, Zenon
<1>10. Conserved(scopes', made', released', lost')
  <2>1. ASSUME NEW v \in 1..MaxValues
        PROVE  released[v] + Count(Append(scopes, z), v) + (IF v \in lost THEN 1 ELSE 0)
                 = released[v] + Count(scopes, v) + (IF v \in lost THEN 1 ELSE 0) + (IF v = made + 1 THEN 1 ELSE 0)
    <3>1. /\ Count(scopes, v) \in Nat
          /\ Count(Append(scopes, z), v)
               = Count(scopes, v) + Occurrences(z.guarded, v) + Occurrences(z.locals, v) + Occurrences(z.temps, v)
      BY <1>6, InvFacts, CountAppend
    <3>2. Occurrences(z.locals, v) = 0 /\ Occurrences(z.temps, v) = 0
      BY <1>6, NoOccurrence
    <3>3. Occurrences(z.guarded, v) = IF v = made + 1 THEN 1 ELSE 0
      <4>1. Occurrences(<<m>>, v) = IF m = v THEN 1 ELSE 0
        BY <1>2, OneOccurrence
      <4>2. QED
        BY <4>1, <1>6 DEF m
    <3>4. released[v] \in Nat
      BY InvFacts
    <3>5. Count(Append(scopes, z), v) = Count(scopes, v) + (IF v = made + 1 THEN 1 ELSE 0)
      BY <3>1, <3>2, <3>3
    <3>6. QED
      BY <3>1, <3>4, <3>5
  <2>2. Conserved(Append(scopes, z), made + 1, released, lost)
    BY <2>1, <1>2, <1>8, InvFacts, KeepsFresh
  <2>3. QED
    BY <2>2, <1>1, <1>3, Zenon DEF m
<1>11. QED
  BY <1>1, <1>2, <1>3, <1>8, <1>9, <1>10, InvFacts, InvHolds

LEMMA EndParseInv == ASSUME UnwindInv, EndParse PROVE UnwindInv'
<1> DEFINE A == Front(scopes)
<1> DEFINE x == Top
<1> DEFINE g == x.guarded
<1>1. scopes # << >> /\ x.kind = "builder"
  BY DEF EndParse, Parsing
<1>2. /\ A \in Seq(ScopeType) /\ x \in ScopeType /\ scopes = Append(A, x) /\ Nested(A) /\ MayHold(A, x)
      /\ cleanup = Owned(A) \o Mine(x) /\ Framed(catches, Append(A, x))
  BY <1>1, TopFacts
<1>3. g \in Seq(Nat) /\ Owned(A) \in Seq(Nat) /\ catches \in Seq(FrameType)
  BY <1>2, ScopeFacts, PartsFacts, InvFacts
<1>4. Len(g) = 1 /\ x.locals = << >> /\ x.temps = << >> /\ A # << >> /\ x.kind # "try"
  BY <1>1, <1>2 DEF MayHold
<1>5. Mine(x) = g
  <2> HIDE DEF x
  <2>1. x.guarded \o << >> = x.guarded
    BY <1>3, ConcatEmptySeq
  <2>2. QED
    BY <2>1, <1>4, Zenon DEF Mine
<1>6. /\ cleanup' = PopN(1) /\ UNCHANGED <<catches, made, lost>>
      /\ IF Last(A).kind = "builder"
           THEN scopes' = A /\ released' = Freed(g)
           ELSE /\ scopes' = Append(Front(A), [Last(A) EXCEPT !.temps = Last(A).temps \o g])
                /\ released' = released
  BY DEF EndParse
<1> HIDE DEF g, x, A
<1>7. cleanup' = Owned(A)
  <2> DEFINE o == Owned(A)
  <2>1. o \in Seq(Nat) /\ cleanup = o \o g /\ cleanup' = SubSeq(cleanup, 1, Len(cleanup) - 1)
    BY <1>2, <1>3, <1>5, <1>6, Zenon DEF PopN
  <2> HIDE DEF o
  <2>2. SubSeq(o \o g, 1, Len(o)) = o /\ Len(o \o g) = Len(o) + Len(g) /\ Len(o) \in Nat
    BY <2>1, <1>3, ConcatParts
  <2>3. Len(o \o g) - 1 = Len(o)
    BY <2>2, <1>4
  <2>4. QED
    BY <2>1, <2>2, <2>3, Zenon DEF o
<1>8. Framed(catches, A)
  BY <1>2, <1>3, <1>4, FramedAppend
<1>9. ASSUME NEW v PROVE Count(scopes, v) = Count(A, v) + Occurrences(g, v) /\ Count(A, v) \in Nat /\ Occurrences(g, v) \in Nat
  <2>1. /\ Count(A, v) \in Nat
        /\ Count(Append(A, x), v)
             = Count(A, v) + Occurrences(x.guarded, v) + Occurrences(x.locals, v) + Occurrences(x.temps, v)
    BY <1>2, CountAppend
  <2>2. Occurrences(x.locals, v) = 0 /\ Occurrences(x.temps, v) = 0 /\ Occurrences(x.guarded, v) \in Nat
    BY <1>2, <1>4, NoOccurrence, ScopeCount
  <2>3. QED
    BY <2>1, <2>2, <1>2 DEF g
<1>10. CASE Last(A).kind = "builder"
  <2> DEFINE q == released'
  <2>1. scopes' = A /\ released' = Freed(g)
    BY <1>6, <1>10
  <2>2. q \in [1..MaxValues -> Nat] /\ \A v \in 1..MaxValues : q[v] = released[v] + Occurrences(g, v)
    BY <2>1, <1>3, InvFacts, FreedFacts
  <2> HIDE DEF q
  <2>3. \A v \in 1..MaxValues : q[v] + Count(A, v) = released[v] + Count(scopes, v)
    <3>1. \A v \in 1..MaxValues : released[v] \in Nat
      BY InvFacts
    <3>2. QED
      BY <2>2, <3>1, <1>9
  <2>4. Conserved(A, made, q, lost)
    BY <2>2, <2>3, <1>2, InvFacts, KeepsAll
  <2>5. Conserved(scopes', made', released', lost')
    BY <2>1, <2>4, <1>6, Zenon DEF q
  <2>6. released' \in [1..MaxValues -> Nat]
    BY <2>2 DEF q
  <2>7. QED
    BY <2>1, <2>5, <2>6, <1>2, <1>6, <1>7, <1>8, InvFacts, InvHolds
<1>11. CASE Last(A).kind # "builder"
  <2> DEFINE t == Append(Front(A), [Last(A) EXCEPT !.temps = Last(A).temps \o g])
  <2>1. scopes' = t /\ released' = released
    BY <1>6, <1>11
  <2>0. t = Receive(A, g)
    BY DEF Receive
  <2> HIDE DEF t
  <2>2. /\ t \in Seq(ScopeType) /\ Nested(t) /\ Framed(catches, t) /\ Owned(t) = Owned(A)
        /\ \A v : Count(t, v) = Count(A, v) + Occurrences(g, v)
    BY <2>0, <1>2, <1>3, <1>4, <1>8, <1>11, Received
  <2>3. \A v \in 1..MaxValues : released[v] + Count(t, v) = released[v] + Count(scopes, v)
    BY <2>2, <1>9
  <2>4. Conserved(t, made, released, lost)
    BY <2>2, <2>3, InvFacts, KeepsAll
  <2>5. Conserved(scopes', made', released', lost')
    BY <2>1, <2>4, <1>6, Zenon
  <2>6. QED
    BY <2>1, <2>2, <2>5, <1>6, <1>7, InvFacts, InvHolds
<1>12. QED
  BY <1>10, <1>11

\* An empty scope.
LEMMA EmptyScope ==
  ASSUME NEW kind \in Kinds, NEW z, z = Opened(kind, << >>, << >>, << >>)
  PROVE  /\ z \in ScopeType /\ z.kind = kind /\ z.temps = << >> /\ Mine(z) = << >>
         /\ \A s \in Seq(ScopeType) : /\ Append(s, z) \in Seq(ScopeType) /\ Owned(Append(s, z)) = Owned(s)
                                      /\ \A v : Count(Append(s, z), v) = Count(s, v)
<1>1. << >> \in Seq(Nat) /\ << >> \o << >> = << >>
  BY EmptySeq, ConcatEmptySeq
<1>2. /\ z \in ScopeType /\ z.kind = kind /\ z.guarded = << >> /\ z.locals = << >> /\ z.temps = << >>
      /\ Mine(z) = << >>
  BY <1>1 DEF Opened, ScopeType, Values, Mine
<1>3. ASSUME NEW s \in Seq(ScopeType)
      PROVE  /\ Append(s, z) \in Seq(ScopeType) /\ Owned(Append(s, z)) = Owned(s)
             /\ \A v : Count(Append(s, z), v) = Count(s, v)
  <2>1. Append(s, z) \in Seq(ScopeType) /\ Owned(Append(s, z)) = Owned(s) \o Mine(z) /\ Owned(s) \in Seq(Nat)
    BY <1>2, PartsAppend, PartsFacts
  <2>2. Owned(s) \o << >> = Owned(s)
    BY <2>1, ConcatEmptySeq
  <2>3. Owned(Append(s, z)) = Owned(s)
    BY <2>1, <2>2, <1>2, Zenon
  <2>4. ASSUME NEW v PROVE Count(Append(s, z), v) = Count(s, v)
    <3>1. /\ Count(s, v) \in Nat
          /\ Count(Append(s, z), v)
               = Count(s, v) + Occurrences(z.guarded, v) + Occurrences(z.locals, v) + Occurrences(z.temps, v)
      BY <1>2, CountAppend
    <3>2. Occurrences(z.guarded, v) = 0 /\ Occurrences(z.locals, v) = 0 /\ Occurrences(z.temps, v) = 0
      BY <1>2, NoOccurrence
    <3>3. QED
      BY <3>1, <3>2
  <2>5. QED
    BY <2>1, <2>3, <2>4
<1>4. QED
  BY <1>2, <1>3

\* A step that opens an empty scope.
LEMMA OpenInv ==
  ASSUME UnwindInv, NEW kind \in Kinds, NEW z, z = Opened(kind, << >>, << >>, << >>),
         scopes' = Append(scopes, z), UNCHANGED <<cleanup, made, released, lost>>,
         catches' \in Seq(FrameType), Framed(catches', Append(scopes, z)), MayHold(scopes, z)
  PROVE  UnwindInv'
<1>1. /\ z \in ScopeType /\ Append(scopes, z) \in Seq(ScopeType) /\ Owned(Append(scopes, z)) = Owned(scopes)
      /\ \A v : Count(Append(scopes, z), v) = Count(scopes, v)
  BY InvFacts, EmptyScope
<1>2. Nested(Append(scopes, z))
  BY <1>1, InvFacts, NestedStep
<1>3. Conserved(Append(scopes, z), made, released, lost)
  BY <1>1, InvFacts, KeepsAll
<1>4. Conserved(scopes', made', released', lost') /\ Framed(catches', scopes') /\ cleanup' = Owned(scopes')
  <2>1. cleanup = Owned(scopes)
    BY InvFacts
  <2>2. QED
    BY <2>1, <1>1, <1>3, Zenon
<1>5. QED
  BY <1>1, <1>2, <1>4, InvFacts, InvHolds

LEMMA IdleFits ==
  ASSUME UnwindInv, Idle, NEW kind \in Kinds \ {"builder"}, NEW z, z = Opened(kind, << >>, << >>, << >>)
  PROVE  MayHold(scopes, z)
<1>1. scopes # << >> /\ Last(scopes).kind # "builder" /\ Last(scopes).temps = << >>
  BY DEF Idle, Running, Top
<1>2. z.kind = kind
  BY DEF Opened
<1>3. QED
  BY <1>1, <1>2 DEF MayHold

LEMMA OpenBlockInv == ASSUME UnwindInv, NEW kind \in {"block", "loop"}, OpenBlock(kind) PROVE UnwindInv'
<1> DEFINE z == Opened(kind, << >>, << >>, << >>)
<1>1. /\ kind \in Kinds /\ kind \in Kinds \ {"builder"} /\ kind # "try" /\ Idle
      /\ scopes' = Append(scopes, z) /\ UNCHANGED <<cleanup, made, released, lost>> /\ UNCHANGED catches
  BY DEF OpenBlock, Open, Scope, Opened, Kinds
<1>2. z = Opened(kind, << >>, << >>, << >>)
  OBVIOUS
<1> HIDE DEF z
<1>3. MayHold(scopes, z) /\ z \in ScopeType /\ z.kind = kind
  BY <1>1, <1>2, IdleFits, EmptyScope
<1>4. catches' \in Seq(FrameType) /\ Framed(catches', Append(scopes, z))
  <2>1. Framed(catches, Append(scopes, z))
    BY <1>1, <1>3, InvFacts, FramedAppend
  <2>2. QED
    BY <2>1, <1>1, InvFacts, Zenon
<1>5. QED
  BY <1>1, <1>2, <1>3, <1>4, OpenInv

LEMMA OpenTryInv == ASSUME UnwindInv, OpenTry PROVE UnwindInv'
<1> DEFINE z == Opened("try", << >>, << >>, << >>)
<1> DEFINE f == [depth |-> Len(Owned(scopes)), at |-> Len(scopes)]
<1>1. "try" \in Kinds /\ "try" \in Kinds \ {"builder"}
  BY DEF Kinds
<1>2. /\ Idle /\ scopes' = Append(scopes, z) /\ UNCHANGED <<cleanup, made, released, lost>>
      /\ catches' = Append(catches, f)
  BY InvFacts DEF OpenTry, Open, Scope, Opened
<1>3. z = Opened("try", << >>, << >>, << >>) /\ f = [depth |-> Len(Owned(scopes)), at |-> Len(scopes)]
  OBVIOUS
<1> HIDE DEF z, f
<1>4. MayHold(scopes, z) /\ z \in ScopeType /\ z.kind = "try"
  BY <1>1, <1>2, <1>3, IdleFits, EmptyScope
<1>5. Append(catches, f) \in Seq(FrameType) /\ Framed(Append(catches, f), Append(scopes, z))
  BY <1>3, <1>4, InvFacts, FramedTry
<1>6. QED
  BY <1>1, <1>2, <1>3, <1>4, <1>5, OpenInv

LEMMA HandleInv == ASSUME UnwindInv, Handle PROVE UnwindInv'
<1> DEFINE z == Opened("function", << >>, << >>, << >>)
<1>1. "function" \in Kinds
  BY DEF Kinds
<1>2. scopes = << >> /\ scopes' = <<z>> /\ UNCHANGED <<cleanup, catches, made, released, lost>>
  BY DEF Handle, Scope, Opened
<1>3. z = Opened("function", << >>, << >>, << >>)
  OBVIOUS
<1>4. scopes' = Append(scopes, z)
  BY <1>2
<1> HIDE DEF z
<1>5. z \in ScopeType /\ z.kind = "function"
  BY <1>1, <1>3, EmptyScope
<1>6. MayHold(scopes, z)
  BY <1>2, <1>5 DEF MayHold
<1>7. catches' \in Seq(FrameType) /\ Framed(catches', Append(scopes, z))
  <2>1. z.kind # "try"
    BY <1>5
  <2>2. Framed(catches, Append(scopes, z))
    BY <2>1, <1>5, InvFacts, FramedAppend
  <2>3. QED
    BY <2>2, <1>2, InvFacts, Zenon
<1>8. QED
  BY <1>1, <1>2, <1>3, <1>4, <1>6, <1>7, OpenInv

(***************************************************************************)
(* The ways out of scopes.                                                 *)
(***************************************************************************)
\* What leaving the scopes above b does to the runtime's stacks.
LEMMA Leaving ==
  ASSUME UnwindInv, NEW b \in 0..Len(scopes), LeaveTo(b),
         NEW A, A = SubSeq(scopes, 1, b), NEW L, L = SubSeq(scopes, b + 1, Len(scopes))
  PROVE  /\ A \in Seq(ScopeType) /\ L \in Seq(ScopeType) /\ scopes = A \o L /\ Len(A) = b
         /\ Nested(A) /\ cleanup' = Owned(A) /\ catches' \in Seq(FrameType) /\ Framed(catches', A)
         /\ released' \in [1..MaxValues -> Nat]
         /\ \A v \in 1..MaxValues :
              released'[v] + Count(A, v) + Occurrences(Unbound(L), v) = released[v] + Count(scopes, v)
<1>1. A \in Seq(ScopeType) /\ L \in Seq(ScopeType) /\ scopes = A \o L /\ Len(A) = b
  BY InvFacts, Cut
<1>2. Nested(A)
  BY InvFacts, NestedPrefix
<1>3. /\ released' = Freed(Owned(L)) /\ cleanup' = PopN(Len(Owned(L)))
      /\ catches' = SubSeq(catches, 1, Len(catches) - TriesIn(L))
  BY DEF LeaveTo
<1>4. Owned(A) \in Seq(Nat) /\ Owned(L) \in Seq(Nat) /\ Unbound(L) \in Seq(Nat)
  BY <1>1, PartsFacts
<1>5. cleanup' = Owned(A)
  <2> DEFINE o == Owned(A)
  <2> DEFINE p == Owned(L)
  <2>1. o \in Seq(Nat) /\ p \in Seq(Nat)
    BY <1>4
  <2>2. Owned(A \o L) = o \o p
    BY <1>1, PartsConcat
  <2>3. cleanup = o \o p
    BY <2>2, <1>1, InvFacts, Zenon
  <2>4. cleanup' = SubSeq(cleanup, 1, Len(cleanup) - Len(p))
    BY <1>3 DEF PopN
  <2> HIDE DEF o, p
  <2>5. SubSeq(o \o p, 1, Len(o)) = o /\ Len(o \o p) = Len(o) + Len(p) /\ Len(o) \in Nat /\ Len(p) \in Nat
    BY <2>1, ConcatParts
  <2>6. Len(o \o p) - Len(p) = Len(o)
    BY <2>5
  <2>7. QED
    BY <2>3, <2>4, <2>5, <2>6, Zenon DEF o
<1>6. catches' \in Seq(FrameType) /\ Framed(catches', A)
  <2>1. LET d == SubSeq(catches, 1, Len(catches) - TriesIn(SubSeq(scopes, b + 1, Len(scopes))))
        IN d \in Seq(FrameType) /\ Framed(d, SubSeq(scopes, 1, b))
    BY InvFacts, FramedCut
  <2>2. QED
    BY <2>1, <1>3, Zenon
<1> DEFINE q == released'
<1>7. q \in [1..MaxValues -> Nat] /\ \A v \in 1..MaxValues : q[v] = released[v] + Occurrences(Owned(L), v)
  BY <1>3, <1>4, InvFacts, FreedFacts
<1> HIDE DEF q
<1>8. ASSUME NEW v \in 1..MaxValues
      PROVE  q[v] + Count(A, v) + Occurrences(Unbound(L), v) = released[v] + Count(scopes, v)
  <2>1. Count(A, v) \in Nat /\ Count(A \o L, v) = Count(A, v) + Count(L, v)
    BY <1>1, CountConcat
  <2>2. Occurrences(Owned(L), v) \in Nat /\ Occurrences(Unbound(L), v) \in Nat
    BY <1>4, OccurrencesType
  <2>3. Count(L, v) = Occurrences(Owned(L), v) + Occurrences(Unbound(L), v)
    BY DEF Count
  <2>4. released[v] \in Nat
    BY InvFacts
  <2>5. Count(scopes, v) = Count(A, v) + Count(L, v)
    BY <2>1, <1>1, Zenon
  <2>6. q[v] = released[v] + Occurrences(Owned(L), v)
    BY <1>7
  <2>7. QED
    BY <2>1, <2>2, <2>3, <2>4, <2>5, <2>6
<1>9. QED
  BY <1>1, <1>2, <1>5, <1>6, <1>7, <1>8 DEF q

\* Within one call only the innermost scope has an unfinished expression.
LEMMA UnboundOfBody ==
  ASSUME UnwindInv, Running, NEW b \in 0..Len(scopes)-1,
         \A i \in b+2..Len(scopes) : scopes[i].kind # "function"
  PROVE  Unbound(SubSeq(scopes, b + 1, Len(scopes))) = Top.temps
<1> DEFINE L == SubSeq(scopes, b + 1, Len(scopes))
<1> DEFINE n == Len(scopes)
<1>1. n \in Nat /\ DOMAIN scopes = 1..n /\ scopes \in Seq(ScopeType) /\ b \in 0..n /\ b \in Nat /\ b < n
  BY InvFacts
<1>2. L \in Seq(ScopeType) /\ Len(L) = n - b /\ \A i \in 1..n-b : L[i] = scopes[b+i]
  BY <1>1, Cut
<1> HIDE DEF L
<1>3. \A i \in DOMAIN scopes : scopes[i].kind # "builder"
  BY InvFacts, NoBuilder DEF Running, Top
<1>4. \A i \in 1..n : i + 1 \in 1..n /\ scopes[i+1].kind \notin {"function", "builder"} => scopes[i].temps = << >>
  BY <1>1, InvFacts DEF Nested
<1>5. ASSUME NEW i \in 1..Len(L)-1 PROVE L[i].temps = << >>
  <2> DEFINE j == b + i
  <2>1. j \in 1..n /\ j + 1 \in 1..n /\ j + 1 \in b+2..n /\ L[i] = scopes[j]
    BY <1>1, <1>2
  <2> HIDE DEF j
  <2>2. scopes[j+1].kind # "function" /\ scopes[j+1].kind # "builder"
    BY <2>1, <1>1, <1>3 DEF n
  <2>3. QED
    BY <2>1, <2>2, <1>4
<1>6. L # << >> /\ Last(L) = Top
  <2>1. n - b \in 1..n-b /\ b + (n - b) = n
    BY <1>1
  <2>2. L[n - b] = scopes[n]
    BY <2>1, <1>2
  <2>3. L # << >>
    BY <1>1, <1>2, EmptySeq
  <2>4. QED
    BY <2>2, <2>3, <1>2 DEF Last, Top, n
<1>7. Unbound(L) = Last(L).temps
  BY <1>2, <1>5, <1>6, UnboundOfLast
<1>8. QED
  BY <1>6, <1>7 DEF L

\* Leaving scopes of one call for s, which owns what the scopes below own; w is what the
\* innermost expression has made, and s what is left with w in its hands.
LEMMA LeaveInv ==
  ASSUME UnwindInv, Running, NEW b \in 0..Len(scopes)-1, LeaveTo(b), UNCHANGED <<made, lost>>,
         \A i \in b+2..Len(scopes) : scopes[i].kind # "function",
         scopes' \in Seq(ScopeType), Nested(scopes'), Owned(scopes') = Owned(SubSeq(scopes, 1, b)),
         \A c \in Seq(FrameType) : Framed(c, SubSeq(scopes, 1, b)) => Framed(c, scopes'),
         \A v : Count(scopes', v) = Count(SubSeq(scopes, 1, b), v) + Occurrences(Top.temps, v)
  PROVE  UnwindInv'
<1> DEFINE A == SubSeq(scopes, 1, b)
<1> DEFINE L == SubSeq(scopes, b + 1, Len(scopes))
<1>1. b \in 0..Len(scopes) /\ A = SubSeq(scopes, 1, b) /\ L = SubSeq(scopes, b + 1, Len(scopes))
  BY InvFacts
<1>2. Unbound(L) = Top.temps
  BY UnboundOfBody
<1> HIDE DEF A, L
<1>3. /\ cleanup' = Owned(A) /\ catches' \in Seq(FrameType) /\ Framed(catches', A) /\ A \in Seq(ScopeType)
      /\ released' \in [1..MaxValues -> Nat]
      /\ \A v \in 1..MaxValues :
           released'[v] + Count(A, v) + Occurrences(Unbound(L), v) = released[v] + Count(scopes, v)
  BY <1>1, Leaving
<1>4. Top.temps \in Seq(Nat)
  <2>1. Top \in ScopeType
    BY TopFacts DEF Running
  <2>2. QED
    BY <2>1, ScopeFacts
<1> DEFINE q == released'
<1> DEFINE t == scopes'
<1>5. /\ q \in [1..MaxValues -> Nat] /\ t \in Seq(ScopeType)
      /\ \A v \in 1..MaxValues : q[v] + Count(A, v) + Occurrences(Top.temps, v) = released[v] + Count(scopes, v)
      /\ \A v : Count(t, v) = Count(A, v) + Occurrences(Top.temps, v)
  BY <1>2, <1>3, <1>1
<1> HIDE DEF q, t
<1>6. \A v \in 1..MaxValues : q[v] + Count(t, v) = released[v] + Count(scopes, v)
  <2>1. \A v \in 1..MaxValues : q[v] \in Nat /\ Count(A, v) \in Nat /\ Occurrences(Top.temps, v) \in Nat
    BY <1>3, <1>4, <1>5, CountConcat, OccurrencesType
  <2>2. QED
    BY <2>1, <1>5
<1>7. Conserved(t, made, q, lost)
  BY <1>5, <1>6, InvFacts, KeepsAll
<1>8. Conserved(scopes', made', released', lost')
  BY <1>7, Zenon DEF q, t
<1>9. Framed(catches', scopes') /\ cleanup' = Owned(scopes')
  BY <1>1, <1>3
<1>10. QED
  BY <1>3, <1>8, <1>9, InvFacts, InvHolds

LEMMA FunctionAtFacts ==
  ASSUME UnwindInv, scopes # << >>
  PROVE  /\ FunctionAt \in 1..Len(scopes) /\ scopes[FunctionAt].kind = "function"
         /\ \A i \in FunctionAt+1..Len(scopes) : scopes[i].kind # "function"
<1> DEFINE n == Len(scopes)
<1> DEFINE S == {i \in DOMAIN scopes : scopes[i].kind = "function"}
<1>1. n \in Nat /\ DOMAIN scopes = 1..n /\ n # 0
  BY InvFacts, EmptySeq
<1>2. 1 \in S /\ S \in SUBSET (1..n)
  BY <1>1, InvFacts DEF Nested
<1>3. Max(S) \in S /\ \A i \in S : i <= Max(S)
  <2> HIDE DEF S, n
  <2>1. S # {}
    BY <1>2
  <2>2. QED
    BY <2>1, <1>1, <1>2, LastPlace
<1>4. FunctionAt = Max(S)
  BY DEF FunctionAt
<1>5. FunctionAt \in 1..n /\ scopes[FunctionAt].kind = "function"
  BY <1>1, <1>3, <1>4
<1>6. ASSUME NEW i \in FunctionAt+1..n, scopes[i].kind = "function" PROVE FALSE
  <2>1. i \in 1..n /\ ~(i <= FunctionAt)
    BY <1>1, <1>5
  <2>2. i \in S
    BY <2>1, <1>1, <1>6
  <2>3. QED
    BY <2>1, <2>2, <1>3, <1>4
<1>7. QED
  BY <1>5, <1>6

LEMMA EndBlockInv == ASSUME UnwindInv, EndBlock PROVE UnwindInv'
<1> DEFINE n == Len(scopes)
<1> DEFINE b == n - 1
<1> DEFINE A == SubSeq(scopes, 1, b)
<1>1. /\ Running /\ Top.temps = << >> /\ LeaveTo(b) /\ UNCHANGED <<made, lost>> /\ scopes' = A
  BY DEF EndBlock, Idle, Front
<1>2. n \in Nat /\ n # 0 /\ scopes \in Seq(ScopeType)
  BY <1>1, InvFacts, EmptySeq DEF Running
<1>3. b \in 0..n-1 /\ b \in 0..n /\ ~\E i \in b+2..n : TRUE
  BY <1>2
<1> HIDE DEF b
<1>4. A \in Seq(ScopeType) /\ Nested(A)
  BY <1>2, <1>3, InvFacts, Cut, NestedPrefix
<1> HIDE DEF A
<1>5. \A v : Count(scopes', v) = Count(A, v) + Occurrences(Top.temps, v)
  <2>1. \A v : Occurrences(Top.temps, v) = 0
    BY <1>1, NoOccurrence
  <2>2. \A v : Count(A, v) \in Nat
    BY <1>4, CountConcat
  <2>3. QED
    BY <2>1, <2>2, <1>1
<1>6. /\ scopes' \in Seq(ScopeType) /\ Nested(scopes') /\ Owned(scopes') = Owned(A)
      /\ \A c \in Seq(FrameType) : Framed(c, A) => Framed(c, scopes')
  BY <1>1, <1>4
<1>7. b \in 0..Len(scopes)-1 /\ \A i \in b+2..Len(scopes) : scopes[i].kind # "function"
  BY <1>3
<1>8. QED
  BY <1>1, <1>5, <1>6, <1>7, LeaveInv DEF A

LEMMA BreakInv == ASSUME UnwindInv, Break PROVE UnwindInv'
<1> DEFINE n == Len(scopes)
<1> DEFINE k == Max(Loops)
<1> DEFINE b == k - 1
<1> DEFINE A == SubSeq(scopes, 1, b)
<1> DEFINE x == scopes[k]
<1> DEFINE z == Opened("loop", << >>, << >>, << >>)
<1>1. /\ Running /\ Idle /\ Top.temps = << >> /\ LeaveTo(b) /\ UNCHANGED <<made, lost>> /\ Loops # {}
      /\ scopes' = A \o << >> \/ scopes' = A \o <<z>>
  BY DEF Break, Idle, Scope, Opened
<1>2. /\ n \in Nat /\ n # 0 /\ scopes \in Seq(ScopeType) /\ DOMAIN scopes = 1..n /\ scopes # << >>
  BY <1>1, InvFacts, EmptySeq DEF Running
<1>3. FunctionAt \in 1..n /\ \A i \in FunctionAt+1..n : scopes[i].kind # "function"
  BY <1>2, FunctionAtFacts
<1>4. k \in Loops
  <2>1. Loops \in SUBSET (1..n)
    BY <1>2 DEF Loops
  <2>2. QED
    BY <2>1, <1>1, <1>2, LastPlace
<1>5. k \in 1..n /\ k > FunctionAt /\ x.kind = "loop"
  BY <1>2, <1>4 DEF Loops
<1> HIDE DEF k, n
<1>6. b \in 0..n-1 /\ b \in 0..n /\ b # 0 /\ k \in 0..n /\ k = b + 1 /\ b \in Nat
  BY <1>2, <1>3, <1>5
<1>7. \A i \in b+2..n : scopes[i].kind # "function"
  <2>1. \A i \in b+2..n : i \in FunctionAt+1..n
    BY <1>2, <1>3, <1>5, <1>6
  <2>2. QED
    BY <2>1, <1>3
<1> HIDE DEF b
<1>8. A \in Seq(ScopeType) /\ Nested(A) /\ Len(A) = b
  BY <1>2, <1>6, InvFacts, Cut, NestedPrefix DEF n
<1>9. x \in ScopeType
  BY <1>2, <1>5
<1>10. SubSeq(scopes, 1, b + 1) = Append(A, x)
  <2>1. b \in 0..Len(scopes)-1
    BY <1>6 DEF n
  <2>2. QED
    BY <2>1, <1>2, <1>6, OneMore
<1>11. "loop" \in Kinds
  BY DEF Kinds
<1>12. z = Opened("loop", << >>, << >>, << >>)
  OBVIOUS
<1> HIDE DEF A, x, z
<1>13. MayHold(A, x)
  <2>1. b + 1 \in 0..Len(scopes)
    BY <1>6 DEF n
  <2>2. Nested(SubSeq(scopes, 1, b + 1))
    BY <2>1, InvFacts, NestedPrefix
  <2>3. Nested(Append(A, x))
    BY <2>2, <1>10, Zenon
  <2>4. QED
    BY <2>3, <1>8, <1>9, NestedStep
<1>14. /\ z \in ScopeType /\ z.kind = "loop" /\ Append(A, z) \in Seq(ScopeType) /\ Owned(Append(A, z)) = Owned(A)
       /\ \A v : Count(Append(A, z), v) = Count(A, v)
  BY <1>8, <1>11, <1>12, EmptyScope
<1>15. MayHold(A, z)
  BY <1>5, <1>13, <1>14 DEF MayHold
<1>16. scopes' = A \/ scopes' = Append(A, z)
  <2>1. A \o << >> = A /\ A \o <<z>> = Append(A, z)
    BY <1>8, <1>14, ConcatEmptySeq, AppendIsConcat
  <2>2. QED
    BY <2>1, <1>1
<1>17. Nested(Append(A, z)) /\ \A c \in Seq(FrameType) : Framed(c, A) => Framed(c, Append(A, z))
  <2>1. z.kind # "try"
    BY <1>14
  <2>2. QED
    BY <2>1, <1>8, <1>14, <1>15, NestedStep, FramedAppend
<1>18. /\ scopes' \in Seq(ScopeType) /\ Nested(scopes') /\ Owned(scopes') = Owned(A)
       /\ \A c \in Seq(FrameType) : Framed(c, A) => Framed(c, scopes')
       /\ \A v : Count(scopes', v) = Count(A, v)
  BY <1>8, <1>14, <1>16, <1>17
<1>19. \A v : Count(scopes', v) = Count(A, v) + Occurrences(Top.temps, v)
  <2>1. \A v : Occurrences(Top.temps, v) = 0
    BY <1>1, NoOccurrence
  <2>2. \A v : Count(A, v) \in Nat
    BY <1>8, CountConcat
  <2>3. QED
    BY <2>1, <2>2, <1>18
<1>20. QED
  BY <1>1, <1>6, <1>7, <1>18, <1>19, LeaveInv DEF A, n

LEMMA ReturnInv == ASSUME UnwindInv, Running, NEW result \in BOOLEAN, Return(result) PROVE UnwindInv'
<1> DEFINE n == Len(scopes)
<1> DEFINE b == FunctionAt - 1
<1> DEFINE A == SubSeq(scopes, 1, b)
<1>1. /\ LeaveTo(b) /\ UNCHANGED <<made, lost>>
      /\ \/ A # << >> /\ scopes' = Append(Front(A), [Last(A) EXCEPT !.temps = Last(A).temps \o Top.temps])
         \/ Top.temps = << >> /\ scopes' = A
  BY DEF Return, Idle
<1>2. /\ n \in Nat /\ n # 0 /\ scopes \in Seq(ScopeType) /\ DOMAIN scopes = 1..n /\ scopes # << >>
  BY InvFacts, EmptySeq DEF Running
<1>3. FunctionAt \in 1..n /\ \A i \in FunctionAt+1..n : scopes[i].kind # "function"
  BY <1>2, FunctionAtFacts
<1>4. b \in 0..n-1 /\ b \in 0..n /\ b \in Nat /\ b + 2 = FunctionAt + 1
  BY <1>2, <1>3
<1>5. \A i \in b+2..n : scopes[i].kind # "function"
  BY <1>3, <1>4
<1> HIDE DEF b
<1>6. A \in Seq(ScopeType) /\ Nested(A) /\ Len(A) = b /\ \A i \in 1..b : A[i] = scopes[i]
  BY <1>2, <1>4, InvFacts, Cut, NestedPrefix
<1>7. ASSUME A # << >> PROVE Last(A).kind # "builder"
  <2>1. \A i \in DOMAIN scopes : scopes[i].kind # "builder"
    BY InvFacts, NoBuilder DEF Running, Top
  <2>2. b # 0
    BY <1>6, <1>7, EmptySeq
  <2>3. b \in 1..b /\ b \in 1..n
    BY <2>2, <1>4, <1>2
  <2>4. A[b] = scopes[b]
    BY <2>3, <1>6
  <2>5. QED
    BY <2>1, <2>3, <2>4, <1>2, <1>6 DEF Last
<1>8. Top.temps \in Seq(Nat)
  <2>1. Top \in ScopeType
    BY <1>2, TopFacts
  <2>2. QED
    BY <2>1, ScopeFacts
<1> HIDE DEF A
<1>9. /\ scopes' \in Seq(ScopeType) /\ Nested(scopes') /\ Owned(scopes') = Owned(A)
      /\ \A c \in Seq(FrameType) : Framed(c, A) => Framed(c, scopes')
      /\ \A v : Count(scopes', v) = Count(A, v) + Occurrences(Top.temps, v)
  <2>1. CASE A # << >> /\ scopes' = Append(Front(A), [Last(A) EXCEPT !.temps = Last(A).temps \o Top.temps])
    <3> DEFINE t == scopes'
    <3> DEFINE w == Top.temps
    <3>1. t = Receive(A, w) /\ A # << >> /\ w \in Seq(Nat)
      BY <2>1, <1>8 DEF Receive
    <3> HIDE DEF t, w
    <3>2. ASSUME NEW c \in Seq(FrameType), Framed(c, A)
          PROVE  /\ t \in Seq(ScopeType) /\ Nested(t) /\ Framed(c, t) /\ Owned(t) = Owned(A)
                 /\ \A v : Count(t, v) = Count(A, v) + Occurrences(w, v)
      BY <3>1, <3>2, <1>6, <1>7, Received
    <3>3. PICK c \in Seq(FrameType) : Framed(c, A)
      <4>1. b \in 0..Len(scopes) /\ A = SubSeq(scopes, 1, b)
        BY <1>4 DEF A
      <4>2. QED
        BY <4>1, <1>1, Leaving
    <3>4. QED
      BY <3>2, <3>3 DEF t, w
  <2>2. CASE Top.temps = << >> /\ scopes' = A
    <3>1. \A v : Occurrences(Top.temps, v) = 0
      BY <2>2, NoOccurrence
    <3>2. \A v : Count(A, v) \in Nat
      BY <1>6, CountConcat
    <3>3. QED
      BY <2>2, <3>1, <3>2, <1>6
  <2>3. QED
    BY <1>1, <2>1, <2>2
<1>10. QED
  BY <1>1, <1>4, <1>5, <1>9, LeaveInv DEF A

\* The innermost frame: where it is, and what is registered below it.
LEMMA LastFrame ==
  ASSUME UnwindInv, catches # << >>, NEW b, b = Last(catches).at, NEW A, A = SubSeq(scopes, 1, b)
  PROVE  /\ b \in 1..Len(scopes)-1 /\ scopes[b+1].kind = "try"
         /\ A \in Seq(ScopeType) /\ A # << >> /\ Nested(A)
         /\ SubSeq(scopes, b + 1, Len(scopes)) \in Seq(ScopeType)
         /\ scopes = A \o SubSeq(scopes, b + 1, Len(scopes))
         /\ Front(catches) \in Seq(FrameType) /\ Framed(Front(catches), A)
         /\ SubSeq(cleanup, 1, Last(catches).depth) = Owned(A)
         /\ SubSeq(cleanup, Last(catches).depth + 1, Len(cleanup)) = Owned(SubSeq(scopes, b + 1, Len(scopes)))
         /\ Last(A).temps = << >> /\ Last(A).kind # "builder"
<1> DEFINE L == SubSeq(scopes, b + 1, Len(scopes))
<1> DEFINE n == Len(scopes)
<1> DEFINE m == Len(catches)
<1> DEFINE x == scopes[b+1]
<1>1. /\ n \in Nat /\ DOMAIN scopes = 1..n /\ m \in Nat /\ DOMAIN catches = 1..m
      /\ scopes \in Seq(ScopeType) /\ catches \in Seq(FrameType)
      /\ \A i \in 1..m : /\ catches[i].at \in Nat /\ catches[i].at + 1 \in TryAt(scopes)
                         /\ catches[i].depth = Len(Owned(SubSeq(scopes, 1, catches[i].at)))
                         /\ catches[i].at \in 0..n-1
  BY InvFacts, FrameFacts
<1>2. m # 0 /\ m \in 1..m /\ b = catches[m].at /\ Last(catches) = catches[m]
  BY <1>1, EmptySeq DEF Last
<1>3. b \in 0..n-1 /\ b \in Nat /\ b + 1 \in TryAt(scopes) /\ Last(catches).depth = Len(Owned(A))
  BY <1>1, <1>2
<1>4. x.kind = "try" /\ b + 1 \in 1..n /\ x \in ScopeType
  BY <1>1, <1>3 DEF TryAt
<1>5. b # 0
  <2>1. scopes # << >>
    BY <1>1, <1>3, EmptySeq
  <2>2. scopes[1].kind = "function"
    BY <2>1, InvFacts DEF Nested
  <2>3. ASSUME b = 0 PROVE FALSE
    <3>1. b + 1 = 1
      BY <2>3
    <3>2. x = scopes[1]
      BY <3>1, Zenon
    <3>3. QED
      BY <3>2, <2>2, <1>4
  <2>4. QED
    BY <2>3
<1>6. b \in 0..Len(scopes) /\ b + 1 \in 0..Len(scopes)
  BY <1>1, <1>3
<1>7. A \in Seq(ScopeType) /\ L \in Seq(ScopeType) /\ scopes = A \o L /\ Len(A) = b /\ Nested(A)
  BY <1>1, <1>6, InvFacts, Cut, NestedPrefix
<1>8. A # << >>
  BY <1>5, <1>7, EmptySeq
<1>9. MayHold(A, x)
  <2>1. SubSeq(scopes, 1, b + 1) = Append(A, x)
    <3>1. SubSeq(scopes, 1, b + 1) = Append(SubSeq(scopes, 1, b), scopes[b+1])
      <4>1. \A k \in 0..Len(scopes)-1 : SubSeq(scopes, 1, k + 1) = Append(SubSeq(scopes, 1, k), scopes[k+1])
        BY <1>1, OneMore
      <4>2. QED
        BY <4>1, <1>3
    <3>2. QED
      BY <3>1
  <2>2. Nested(SubSeq(scopes, 1, b + 1))
    BY <1>1, <1>6, InvFacts, NestedPrefix
  <2> HIDE DEF x
  <2>3. Nested(Append(A, x))
    BY <2>1, <2>2, Zenon
  <2>4. QED
    BY <2>3, <1>4, <1>7, NestedStep
<1>10. Last(A).temps = << >> /\ Last(A).kind # "builder"
  BY <1>4, <1>8, <1>9 DEF MayHold
<1>11. Front(catches) \in Seq(FrameType) /\ Framed(Front(catches), A)
  <2>1. \A i, j \in 1..m : i < j => catches[i].at < catches[j].at
    BY <1>1, InvFacts DEF Framed
  <2>2. ASSUME NEW i \in 1..m PROVE catches[i].at < b <=> i <= m - 1
    <3>1. CASE i = m
      BY <3>1, <1>1, <1>2, <1>3
    <3>2. CASE i # m
      <4>0. m \in Nat /\ i \in 1..m
        BY <1>1
      <4> HIDE DEF m
      <4>1. i < m /\ i <= m - 1
        BY <4>0, <3>2
      <4>2. catches[i].at < catches[m].at
        BY <4>1, <2>1, <1>2
      <4>3. QED
        BY <4>1, <4>2, <1>2, Zenon
    <3>3. QED
      BY <3>1, <3>2
  <2>3. m - 1 \in 0..m
    BY <1>1, <1>2
  <2>4. SubSeq(catches, 1, m - 1) \in Seq(FrameType) /\ Framed(SubSeq(catches, 1, m - 1), SubSeq(scopes, 1, b))
    BY <2>2, <2>3, <1>1, <1>6, InvFacts, FramedPrefix
  <2>5. QED
    BY <2>4 DEF Front
<1>12. SubSeq(cleanup, 1, Last(catches).depth) = Owned(A)
       /\ SubSeq(cleanup, Last(catches).depth + 1, Len(cleanup)) = Owned(L)
  <2> DEFINE o == Owned(A)
  <2> DEFINE p == Owned(L)
  <2>1. o \in Seq(Nat) /\ p \in Seq(Nat)
    BY <1>7, PartsFacts
  <2>2. Owned(A \o L) = o \o p
    BY <1>7, PartsConcat
  <2>3. cleanup = o \o p
    BY <2>2, <1>7, InvFacts, Zenon
  <2>4. Last(catches).depth = Len(o)
    BY <1>3
  <2> HIDE DEF o, p
  <2>5. SubSeq(o \o p, 1, Len(o)) = o /\ SubSeq(o \o p, Len(o) + 1, Len(o \o p)) = p
    BY <2>1, ConcatParts
  <2>6. QED
    BY <2>3, <2>4, <2>5, Zenon DEF o, p
<1>13. b \in 1..Len(scopes)-1
  BY <1>1, <1>3, <1>5
<1>14. QED
  BY <1>4, <1>7, <1>8, <1>10, <1>11, <1>12, <1>13

LEMMA ThrowInv == ASSUME UnwindInv, Throw PROVE UnwindInv'
<1> DEFINE b == Last(catches).at
<1> DEFINE A == SubSeq(scopes, 1, b)
<1> DEFINE L == SubSeq(scopes, b + 1, Len(scopes))
<1> DEFINE m == made + 1
<1> DEFINE z == Opened("catch", << >>, <<m>>, << >>)
<1>1. /\ catches # << >> /\ made' = m /\ made < MaxValues
      /\ scopes' = Append(A, [Scope("catch", << >>) EXCEPT !.locals = <<m>>])
      /\ cleanup' = Append(SubSeq(cleanup, 1, Last(catches).depth), m)
      /\ released' = Freed(SubSeq(cleanup, Last(catches).depth + 1, Len(cleanup)))
      /\ lost' = lost \cup UnboundIn(L)
      /\ catches' = Front(catches)
  BY DEF Throw, Fresh, UnboundIn
<1>2. made \in Nat /\ m \in Nat /\ m <= MaxValues
  BY <1>1, InvFacts
<1>3. /\ A \in Seq(ScopeType) /\ L \in Seq(ScopeType) /\ scopes = A \o L /\ A # << >> /\ Nested(A)
      /\ Front(catches) \in Seq(FrameType) /\ Framed(Front(catches), A)
      /\ SubSeq(cleanup, 1, Last(catches).depth) = Owned(A)
      /\ SubSeq(cleanup, Last(catches).depth + 1, Len(cleanup)) = Owned(L)
      /\ Last(A).temps = << >> /\ Last(A).kind # "builder"
  <2>1. b = Last(catches).at /\ A = SubSeq(scopes, 1, b) /\ L = SubSeq(scopes, b + 1, Len(scopes))
    OBVIOUS
  <2> HIDE DEF b, A, L
  <2>2. catches # << >>
    BY <1>1
  <2>3. A \in Seq(ScopeType) /\ L \in Seq(ScopeType) /\ scopes = A \o L
    BY <2>1, <2>2, LastFrame
  <2>4. A # << >> /\ Nested(A) /\ Last(A).temps = << >> /\ Last(A).kind # "builder"
    BY <2>1, <2>2, LastFrame
  <2>5. Front(catches) \in Seq(FrameType) /\ Framed(Front(catches), A)
    BY <2>1, <2>2, LastFrame
  <2>6. /\ SubSeq(cleanup, 1, Last(catches).depth) = Owned(A)
        /\ SubSeq(cleanup, Last(catches).depth + 1, Len(cleanup)) = Owned(L)
    BY <2>1, <2>2, LastFrame
  <2>7. QED
    BY <2>3, <2>4, <2>5, <2>6
<1> HIDE DEF A, L, b, m
<1>4. scopes' = Append(A, z)
  <2>1. [Scope("catch", << >>) EXCEPT !.locals = <<m>>] = z
    BY DEF Scope, Opened
  <2>2. QED
    BY <2>1, <1>1
<1>5. <<m>> \in Seq(Nat) /\ << >> \in Seq(Nat)
  BY <1>2, OneOccurrence, NoOccurrence
<1>6. << >> \o <<m>> = <<m>>
  BY <1>5, ConcatEmptySeq
<1>7. /\ z \in ScopeType /\ z.kind = "catch" /\ z.guarded = << >> /\ z.locals = <<m>> /\ z.temps = << >>
      /\ Mine(z) = <<m>>
  <2>1. z = Opened("catch", << >>, <<m>>, << >>)
    OBVIOUS
  <2> HIDE DEF z
  <2>2. QED
    BY <2>1, <1>5, <1>6 DEF Opened, ScopeType, Values, Mine, Kinds
<1> HIDE DEF z
<1>8. MayHold(A, z)
  BY <1>3, <1>7 DEF MayHold
<1>9. /\ Append(A, z) \in Seq(ScopeType) /\ Nested(Append(A, z)) /\ Framed(Front(catches), Append(A, z))
      /\ Owned(Append(A, z)) = Owned(A) \o Mine(z)
  <2>1. z.kind # "try"
    BY <1>7
  <2>2. QED
    BY <2>1, <1>3, <1>7, <1>8, Pushed
<1>10. Owned(A) \in Seq(Nat) /\ Owned(L) \in Seq(Nat) /\ Unbound(L) \in Seq(Nat)
  BY <1>3, PartsFacts
<1>11. cleanup' = Owned(scopes')
  <2>1. Append(Owned(A), m) = Owned(A) \o <<m>>
    BY <1>2, <1>10, AppendIsConcat
  <2>2. QED
    BY <2>1, <1>1, <1>3, <1>4, <1>7, <1>9, Zenon
<1> DEFINE q == released'
<1>12. q \in [1..MaxValues -> Nat] /\ \A v \in 1..MaxValues : q[v] = released[v] + Occurrences(Owned(L), v)
  <2>1. released' = Freed(Owned(L))
    BY <1>1, <1>3, Zenon
  <2>2. QED
    BY <2>1, <1>10, InvFacts, FreedFacts
<1> HIDE DEF q
<1> DEFINE k == lost \cup UnboundIn(L)
<1>13. ASSUME NEW v \in 1..MaxValues
       PROVE  q[v] + Count(Append(A, z), v) + (IF v \in k THEN 1 ELSE 0)
                = released[v] + Count(scopes, v) + (IF v \in lost THEN 1 ELSE 0) + (IF v = made + 1 THEN 1 ELSE 0)
  <2> DEFINE o == Occurrences(Owned(L), v)
  <2> DEFINE u == Occurrences(Unbound(L), v)
  <2>1. o \in Nat /\ u \in Nat
    BY <1>10, OccurrencesType
  <2>2. v \in UnboundIn(L) <=> u # 0
    BY <1>3, HeldOccurs
  <2>3. /\ Count(A, v) \in Nat
        /\ Count(Append(A, z), v)
             = Count(A, v) + Occurrences(z.guarded, v) + Occurrences(z.locals, v) + Occurrences(z.temps, v)
    BY <1>3, <1>7, CountAppend
  <2>4. Occurrences(z.guarded, v) = 0 /\ Occurrences(z.temps, v) = 0
    BY <1>7, NoOccurrence
  <2>5. Occurrences(z.locals, v) = IF v = made + 1 THEN 1 ELSE 0
    <3>1. Occurrences(<<m>>, v) = IF m = v THEN 1 ELSE 0
      BY <1>2, OneOccurrence
    <3>2. QED
      BY <3>1, <1>7 DEF m
  <2>6. Count(Append(A, z), v) = Count(A, v) + (IF v = made + 1 THEN 1 ELSE 0)
    BY <2>3, <2>4, <2>5
  <2>7. Count(scopes, v) = Count(A, v) + (o + u)
    <3>1. Count(A \o L, v) = Count(A, v) + Count(L, v)
      BY <1>3, CountConcat
    <3>2. Count(L, v) = o + u
      BY DEF Count
    <3>3. QED
      BY <3>1, <3>2, <1>3, Zenon
  <2>8. released[v] + Count(scopes, v) + (IF v \in lost THEN 1 ELSE 0) = IF v <= made THEN 1 ELSE 0
    <3>1. released[v] + Occurrences(Owned(scopes), v) + Occurrences(Unbound(scopes), v) + (IF v \in lost THEN 1 ELSE 0)
            = IF v <= made THEN 1 ELSE 0
      BY InvFacts DEF Conserved
    <3>2. Occurrences(Owned(scopes), v) \in Nat /\ Occurrences(Unbound(scopes), v) \in Nat /\ released[v] \in Nat
      BY InvFacts, PartsFacts, OccurrencesType
    <3>3. QED
      BY <3>1, <3>2 DEF Count
  <2>9. q[v] = released[v] + o /\ released[v] \in Nat
    BY <1>12, InvFacts
  <2> HIDE DEF o, u, k
  <2>10. v \in k <=> v \in lost \/ u # 0
    BY <2>2 DEF k
  <2>11. released[v] + (Count(A, v) + (o + u)) + (IF v \in lost THEN 1 ELSE 0) <= 1
    BY <2>7, <2>8, Zenon, SMT
  <2>12. (IF v \in k THEN 1 ELSE 0) = u + (IF v \in lost THEN 1 ELSE 0)
    BY <2>1, <2>3, <2>9, <2>10, <2>11
  <2> DEFINE isNew == IF v = made + 1 THEN 1 ELSE 0
  <2> DEFINE wasLost == IF v \in lost THEN 1 ELSE 0
  <2> DEFINE isLost == IF v \in k THEN 1 ELSE 0
  <2>13. isNew \in Nat /\ wasLost \in Nat /\ isLost = u + wasLost /\ Count(Append(A, z), v) = Count(A, v) + isNew
    BY <2>6, <2>12
  <2> HIDE DEF isNew, wasLost, isLost
  <2>14. q[v] + Count(Append(A, z), v) + isLost = released[v] + Count(scopes, v) + wasLost + isNew
    BY <2>1, <2>3, <2>7, <2>9, <2>13
  <2>15. QED
    BY <2>14 DEF isNew, wasLost, isLost
<1>14. Conserved(Append(A, z), made + 1, q, k)
  <2> HIDE DEF k
  <2>1. QED
    BY <1>2, <1>9, <1>12, <1>13, InvFacts, KeepsFresh
<1>15. Conserved(scopes', made', released', lost')
  BY <1>14, <1>1, <1>4, Zenon DEF m, q
<1>16. released' \in [1..MaxValues -> Nat]
  BY <1>12 DEF q
<1>17. QED
  BY <1>1, <1>2, <1>3, <1>4, <1>9, <1>11, <1>15, <1>16, InvFacts, InvHolds

(***************************************************************************)
(* The theorem.                                                            *)
(***************************************************************************)
LEMMA UnwindInitHolds == UnwindInit => UnwindInv
<1>1. SUFFICES ASSUME UnwindInit PROVE UnwindInv
  OBVIOUS
<1>2. /\ scopes = << >> /\ cleanup = << >> /\ catches = << >> /\ made = 0
      /\ released = [v \in 1..MaxValues |-> 0] /\ lost = {}
  BY <1>1 DEF UnwindInit
<1>3. /\ << >> \in Seq(ScopeType) /\ << >> \in Seq(FrameType) /\ Owned(<< >>) = << >> /\ Unbound(<< >>) = << >>
      /\ DOMAIN << >> = {}
  BY PartsEmpty, EmptySeq
<1>4. UnwindTyped
  BY <1>2, <1>3, CleanupAssumption DEF UnwindTyped
<1>5. Nested(<< >>)
  BY <1>3 DEF Nested
<1>6. Framed(<< >>, << >>)
  BY <1>3 DEF Framed, TryAt
<1>7. Conserved(scopes, made, released, lost)
  <2>1. \A v \in 1..MaxValues : released[v] = 0 /\ v \notin lost /\ ~(v <= made)
    BY <1>2
  <2>2. \A v : Occurrences(Owned(scopes), v) = 0 /\ Occurrences(Unbound(scopes), v) = 0
    <3>1. Owned(scopes) = << >> /\ Unbound(scopes) = << >>
      BY <1>2, <1>3, Zenon
    <3>2. QED
      BY <3>1, NoOccurrence
  <2>3. QED
    BY <2>1, <2>2 DEF Conserved
<1>8. QED
  BY <1>2, <1>3, <1>4, <1>5, <1>6, <1>7, Zenon DEF UnwindInv

LEMMA UnwindStep == UnwindInv /\ [UnwindNext]_unwindVars => UnwindInv'
<1>1. SUFFICES ASSUME UnwindInv, [UnwindNext]_unwindVars PROVE UnwindInv'
  OBVIOUS
<1>2. CASE UNCHANGED unwindVars
  <2>1. /\ scopes' = scopes /\ cleanup' = cleanup /\ catches' = catches /\ made' = made
        /\ released' = released /\ lost' = lost
    BY <1>2 DEF unwindVars
  <2>2. QED
    BY <2>1, <1>1, InvFacts, InvHolds
<1>3. CASE UnwindNext
  <2>1. CASE Build
    BY <1>1, <2>1, BuildInv
  <2>2. CASE Bind
    BY <1>1, <2>2, BindInv
  <2>3. CASE Discard
    BY <1>1, <2>3, DiscardInv
  <2>4. CASE BeginParse
    BY <1>1, <2>4, BeginParseInv
  <2>5. CASE EndParse
    BY <1>1, <2>5, EndParseInv
  <2>6. ASSUME NEW n \in 0..MaxValues, Call(n) PROVE UnwindInv'
    BY <1>1, <2>6, CallInv
  <2>7. ASSUME NEW kind \in {"block", "loop"}, OpenBlock(kind) PROVE UnwindInv'
    BY <1>1, <2>7, OpenBlockInv
  <2>8. CASE OpenTry
    BY <1>1, <2>8, OpenTryInv
  <2>9. CASE EndBlock
    BY <1>1, <2>9, EndBlockInv
  <2>10. CASE Break
    BY <1>1, <2>10, BreakInv
  <2>11. ASSUME Running, NEW result \in BOOLEAN, Return(result) PROVE UnwindInv'
    BY <1>1, <2>11, ReturnInv
  <2>12. CASE Throw
    BY <1>1, <2>12, ThrowInv
  <2>13. CASE Handle
    BY <1>1, <2>13, HandleInv
  <2>14. QED
    BY <1>3, <2>1, <2>2, <2>3, <2>4, <2>5, <2>6, <2>7, <2>8, <2>9, <2>10, <2>11, <2>12, <2>13 DEF UnwindNext
<1>4. QED
  BY <1>1, <1>2, <1>3

LEMMA UnwindInvExact == UnwindInv => CleanupExact
<1>1. SUFFICES ASSUME UnwindInv PROVE CleanupExact
  OBVIOUS
<1>2. /\ cleanup = Owned(scopes) /\ {catches[i].at + 1 : i \in DOMAIN catches} = TryAt(scopes)
      /\ \A i, j \in DOMAIN catches : i < j => catches[i].at < catches[j].at
      /\ \A i \in DOMAIN catches : catches[i].depth = Len(Owned(SubSeq(scopes, 1, catches[i].at)))
  BY <1>1, InvFacts DEF Framed
<1>3. Held = HeldIn(scopes)
  BY DEF Held, HeldIn, Mine
<1>4. ASSUME NEW v \in 1..made PROVE released[v] = IF v \in Held \cup lost THEN 0 ELSE 1
  <2> DEFINE o == Occurrences(Owned(scopes), v)
  <2> DEFINE u == Occurrences(Unbound(scopes), v)
  <2>1. v \in 1..MaxValues /\ v <= made
    BY <1>1, InvFacts
  <2>2. o \in Nat /\ u \in Nat /\ released[v] \in Nat
    BY <1>1, <2>1, InvFacts, PartsFacts, OccurrencesType
  <2>3. released[v] + o + u + (IF v \in lost THEN 1 ELSE 0) = 1
    BY <1>1, <2>1, InvFacts DEF Conserved
  <2>4. v \in Held <=> o + u # 0
    <3>1. v \in HeldIn(scopes) <=> o + u # 0
      BY <1>1, InvFacts, HeldOccurs
    <3>2. QED
      BY <3>1, <1>3
  <2> HIDE DEF o, u
  <2>5. QED
    BY <2>2, <2>3, <2>4
<1>5. QED
  BY <1>2, <1>4, Zenon DEF CleanupExact

\* CleanupExact, for any number of values and of scopes: whatever mix of returns, breaks,
\* calls, parses and throws led there, the cleanup stack holds what the open scopes own, the
\* catch frames are those of the open try bodies, and a value is released exactly once, when
\* it is in no hands and was not lost.
THEOREM CleanupIsExact == UnwindSpec => []CleanupExact
<1>1. UnwindSpec => []UnwindInv
  BY UnwindInitHolds, UnwindStep, PTL DEF UnwindSpec
<1>2. QED
  BY <1>1, UnwindInvExact, PTL
-----------------------------------------------------------------------------
(***************************************************************************)
(* The HTTP client's pool: the inductive invariant.                        *)
(***************************************************************************)

\* A request has a socket while it writes and reads, and an origin from its start.
Stages ==
  /\ call.fd # None <=> phase \in {"write", "read"}
  /\ phase \in {"connect", "write", "read"} => call.id \in Request /\ call.origin \in Origin

\* A socket that is given out has nothing to read, and owes nothing.
Quiet ==
  /\ odd \subseteq opened
  /\ \A f \in Fd : f \notin opened => input[f] = None /\ asked[f] = {}

\* Unless the upstream spoke out of turn on it, a socket owes an answer only while it is the
\* one in use, and then to that request only.
Asked ==
  \A f \in Fd \ odd : asked[f] # {} =>
    phase = "read" /\ f = call.fd /\ asked[f] = {call.id} /\ input[f] = None

\* What there is to read there is the answer to that request.
Heard ==
  call.fd \notin odd =>
    /\ phase = "write" => input[call.fd] = None
    /\ (phase = "read" /\ input[call.fd] # None) => input[call.fd].to = call.id

\* The upstream has never heard of an arrival.
Unseen(a) == processed[a] = 0 /\ a \notin orphans /\ \A f \in Fd : a \notin Whole(asked[f])

\* The arrivals that a request to come may cause.
Coming ==
  {a \in Arrival :
     \/ a[1] > call.id
     \/ phase \in {"connect", "write"} /\ a = <<call.id, "last">>
     \/ phase = "write" /\ a = <<call.id, IF call.fromPool THEN "retried" ELSE "last">>}

Unwritten == \A a \in Coming : Unseen(a)

\* An arrival is in one place: on one socket, behind a closed one, or run.
OnePlace ==
  \A a \in Arrival :
    /\ processed[a] <= 1
    /\ (processed[a] = 1 \/ a \in orphans) => \A f \in Fd : a \notin Whole(asked[f])
    /\ processed[a] = 1 => a \notin orphans
    /\ \A f, g \in Fd : f # g => a \notin Whole(asked[f]) \/ a \notin Whole(asked[g])

IInv ==
  /\ TypeOK /\ HeldOnce /\ RightOrigin /\ OwnAnswer
  /\ Stages /\ Quiet /\ Asked /\ Heard /\ Unwritten /\ OnePlace

-----------------------------------------------------------------------------
LEMMA Bounds == Slots \in Nat \ {0} /\ MaxRequests \in Nat /\ Request \subseteq Nat
  BY KeepAliveAssumption DEF Request

LEMMA Nothing ==
  None \notin Origin /\ None \notin Fd /\ None \notin Request /\ None \notin Kept
  BY KeepAliveAssumption

LEMMA WholeFacts ==
  /\ Whole({}) = {}
  /\ \A S, r : Whole(S \cup {r}) = Whole(S) \cup {<<r, "last">>}
  /\ \A S, r : Whole(S \ {r}) = Whole(S) \ {<<r, "last">>}
  /\ \A S, r : r \in S => <<r, "last">> \in Whole(S)
  /\ \A S, a : a \in Whole(S) => a = <<a[1], "last">> /\ a[1] \in S
  /\ \A S \in SUBSET Request : Whole(S) \in SUBSET Arrival
<1>1. Whole({}) = {}
  BY DEF Whole
<1>2. \A S, r : r \in S => <<r, "last">> \in Whole(S)
  BY DEF Whole
<1>3. \A S, a : a \in Whole(S) => a = <<a[1], "last">> /\ a[1] \in S
  BY DEF Whole
<1>4. \A S, r : Whole(S \ {r}) = Whole(S) \ {<<r, "last">>}
  BY DEF Whole
<1>5. ASSUME NEW S, NEW r PROVE Whole(S \cup {r}) = Whole(S) \cup {<<r, "last">>}
  <2>1. \A a : a \in Whole(S \cup {r}) => a \in Whole(S) \cup {<<r, "last">>}
    BY <1>2, <1>3
  <2>2. \A a \in Whole(S) : a \in Whole(S \cup {r})
    BY <1>2, <1>3
  <2>3. QED BY <1>2, <2>1, <2>2
<1>6. \A S \in SUBSET Request : Whole(S) \in SUBSET Arrival
  BY DEF Whole, Arrival
<1>7. QED BY <1>1, <1>2, <1>3, <1>4, <1>5, <1>6

LEMMA InitInv == Init => IInv
<1> SUFFICES ASSUME Init PROVE IInv OBVIOUS
<1>1. TypeOK
  BY Bounds, Nothing DEF Init, TypeOK, Phases, Calls, Slot
<1>2. HeldOnce /\ RightOrigin /\ OwnAnswer
  BY Bounds, Nothing DEF Init, HeldOnce, RightOrigin, OwnAnswer, FdsOf, InUse
<1>3. Stages /\ Quiet /\ Asked /\ Heard
  BY Bounds, Nothing DEF Init, Stages, Quiet, Asked, Heard
<1>4. \A a \in Arrival : Unseen(a)
  BY WholeFacts DEF Init, Unseen
<1>5. Unwritten
  BY <1>4 DEF Unwritten, Coming
<1>6. OnePlace
  BY <1>4 DEF Unseen, OnePlace
<1>7. QED BY <1>1, <1>2, <1>3, <1>5, <1>6 DEF IInv

\* Nothing happens to an arrival: what is still to come only grows smaller.
LEMMA PlacesStay ==
  ASSUME OnePlace, Unwritten, asked' = asked, orphans' = orphans, processed' = processed,
         Coming' \subseteq Coming
  PROVE  Unwritten' /\ OnePlace'
<1>1. Unwritten'
  BY DEF Unwritten, Unseen
<1>2. OnePlace'
  BY DEF OnePlace
<1>3. QED BY <1>1, <1>2

LEMMA TakeNoneInv == ASSUME IInv, NEW o \in Origin, TakeNone(o) PROVE IInv'
<1> USE Bounds, Nothing DEF TakeNone, Begin, network, pool
<1>1. TypeOK'
  BY DEF IInv, TypeOK, Phases, Calls, Request
<1>2. HeldOnce' /\ RightOrigin' /\ OwnAnswer'
  BY DEF IInv, HeldOnce, RightOrigin, OwnAnswer, FdsOf, InUse, Stages
<1>3. Stages' /\ Quiet' /\ Asked' /\ Heard'
  BY DEF IInv, TypeOK, Calls, Stages, Quiet, Asked, Heard, Request
<1>4. Coming' \subseteq Coming
  <2>1. call.id \in Nat /\ call'.id = call.id + 1 /\ phase' = "connect"
    BY DEF IInv, TypeOK, Calls
  <2>2. ASSUME NEW a \in Coming' PROVE a \in Arrival /\ a[1] > call.id
    <3>1. a \in Arrival /\ (a[1] > call.id + 1 \/ a[1] = call.id + 1)
      BY <2>1, <2>2 DEF Coming
    <3>2. a[1] \in Nat
      BY <3>1 DEF Arrival
    <3>3. QED BY <2>1, <3>1, <3>2
  <2>3. QED BY <2>2 DEF Coming
<1>5. Unwritten' /\ OnePlace'
  BY <1>4, PlacesStay DEF IInv
<1>6. QED BY <1>1, <1>2, <1>3, <1>5 DEF IInv

LEMMA TakeAliveInv == ASSUME IInv, NEW o \in Origin, TakeAlive(o) PROVE IInv'
<1> USE Bounds, Nothing
<1> PICK s \in Slot :
      /\ IsFirst(s, o) /\ Alive(slot[s].fd)
      /\ slot' = [slot EXCEPT ![s] = None]
      /\ Begin(o, slot[s].fd, TRUE)
  BY DEF TakeAlive
<1>0. /\ slot[s] \in Kept /\ slot[s] # None /\ slot[s].origin = o /\ input[slot[s].fd] = None
      /\ phase = "idle" /\ phase' = "write" /\ UNCHANGED <<turn, network, given>>
      /\ call.id + 1 \in Request /\ call.id \in Nat
      /\ call.fd = None
  BY DEF TakeAlive, IsFirst, Leads, Alive, IInv, TypeOK, Calls, Request, Stages
<1>1. TypeOK'
  BY <1>0, SMTT(30) DEF IInv, TypeOK, Phases, Calls, Request, Begin, Kept, network
<1>2. HeldOnce' /\ RightOrigin' /\ OwnAnswer'
  BY <1>0 DEF IInv, TypeOK, HeldOnce, RightOrigin, OwnAnswer, FdsOf, InUse, Begin, Kept, network
<1>3. Stages' /\ Quiet' /\ Asked' /\ Heard'
  BY <1>0 DEF IInv, Stages, Quiet, Asked, Heard, Begin, network, Kept
<1>4. Coming' \subseteq Coming
  BY <1>0 DEF Coming, Arrival, Begin
<1>5. Unwritten' /\ OnePlace'
  BY <1>0, <1>4, PlacesStay DEF IInv, network
<1>6. QED BY <1>1, <1>2, <1>3, <1>5 DEF IInv

\* What closing some sockets and reading others does, socket by socket.
LEMMA DropShape ==
  ASSUME NEW closed, NEW read, NEW torn, closed \subseteq Fd, torn \subseteq Arrival,
         Drop(closed, read, torn), TypeOK
  PROVE  /\ opened' = opened \ closed /\ odd' = odd \ closed /\ orphans' \in SUBSET Arrival
         /\ \A a : a \in orphans' <=> a \in orphans \/ a \in torn \/ \E f \in closed : a \in Whole(asked[f])
         /\ server' \in [Fd -> Origin \cup {None}] /\ hung' \in [Fd -> BOOLEAN]
         /\ asked' \in [Fd -> SUBSET Request]
         /\ input' \in [Fd -> Answer \cup {None}]
         /\ \A f \in closed : asked'[f] = {} /\ input'[f] = None
         /\ \A f \in Fd \ closed :
              asked'[f] = asked[f] /\ server'[f] = server[f] /\ (f \notin read => input'[f] = input[f])
         /\ \A f \in read \cap Fd : input'[f] = None
<1>1. opened' = opened \ closed /\ odd' = odd \ closed
  BY DEF Drop
<1>2. \A a : a \in orphans' <=> a \in orphans \/ a \in torn \/ \E f \in closed : a \in Whole(asked[f])
  BY DEF Drop, Whole
<1>3. orphans' \in SUBSET Arrival
  BY <1>2, WholeFacts DEF TypeOK
<1>4. server' \in [Fd -> Origin \cup {None}] /\ asked' \in [Fd -> SUBSET Request]
  BY DEF Drop, TypeOK
<1>5. hung' \in [Fd -> BOOLEAN]
  BY DEF Drop, TypeOK
<1>6. input' \in [Fd -> Answer \cup {None}]
  BY DEF Drop, TypeOK
<1>7. /\ \A f \in closed : asked'[f] = {} /\ input'[f] = None
      /\ \A f \in Fd \ closed :
           asked'[f] = asked[f] /\ server'[f] = server[f] /\ (f \notin read => input'[f] = input[f])
      /\ \A f \in read \cap Fd : input'[f] = None
  BY DEF Drop
<1>8. QED BY <1>1, <1>2, <1>3, <1>4, <1>5, <1>6, <1>7

\* It moves arrivals from the sockets to the orphans, and adds what was torn.
LEMMA DropPlaces ==
  ASSUME NEW closed, NEW read, NEW torn, closed \subseteq Fd, torn \subseteq Arrival,
         Drop(closed, read, torn), TypeOK, OnePlace, Unwritten, torn \subseteq Coming,
         Coming' \subseteq Coming \ torn,
         \A a \in Coming' : \A f \in Fd : a \notin Whole(asked[f]),
         processed' = processed
  PROVE  Unwritten' /\ OnePlace'
<1>1. /\ \A a : a \in orphans' <=> a \in orphans \/ a \in torn \/ \E f \in closed : a \in Whole(asked[f])
      /\ \A f \in closed : asked'[f] = {}
      /\ \A f \in Fd \ closed : asked'[f] = asked[f]
  <2>1. \A a : a \in orphans' <=> a \in orphans \/ a \in torn \/ \E f \in closed : a \in Whole(asked[f])
    BY DropShape
  <2>2. \A f \in closed : asked'[f] = {}
    BY DropShape
  <2>3. \A f \in Fd \ closed : asked'[f] = asked[f]
    BY DropShape
  <2>4. QED BY <2>1, <2>2, <2>3
<1>2. ASSUME NEW f \in Fd, NEW a \in Whole(asked'[f])
      PROVE  f \notin closed /\ a \in Whole(asked[f])
  BY <1>1, <1>2, WholeFacts
<1>3. \A a \in torn : Unseen(a)
  BY DEF Unwritten
<1>4. ASSUME NEW a \in Coming' PROVE Unseen(a)'
  <2>1. Unseen(a) /\ a \notin torn
    BY <1>4 DEF Unwritten
  <2>2. a \notin orphans'
    BY <1>1, <2>1 DEF Unseen
  <2>3. \A f \in Fd : a \notin Whole(asked'[f])
    BY <1>2, <2>1 DEF Unseen
  <2>4. QED BY <2>1, <2>2, <2>3 DEF Unseen
<1>5. Unwritten'
  BY <1>4 DEF Unwritten
<1>6. ASSUME NEW a \in Arrival
      PROVE  /\ processed'[a] <= 1
             /\ (processed'[a] = 1 \/ a \in orphans') => \A f \in Fd : a \notin Whole(asked'[f])
             /\ processed'[a] = 1 => a \notin orphans'
             /\ \A f, g \in Fd : f # g => a \notin Whole(asked'[f]) \/ a \notin Whole(asked'[g])
  <2>1. /\ processed[a] <= 1
        /\ (processed[a] = 1 \/ a \in orphans) => \A f \in Fd : a \notin Whole(asked[f])
        /\ processed[a] = 1 => a \notin orphans
        /\ \A f, g \in Fd : f # g => a \notin Whole(asked[f]) \/ a \notin Whole(asked[g])
    BY DEF OnePlace
  <2>2. a \in torn => processed[a] = 0 /\ \A f \in Fd : a \notin Whole(asked[f])
    BY <1>3 DEF Unseen
  <2>3. processed'[a] <= 1
    BY <2>1
  <2>4. processed'[a] = 1 => \A f \in Fd : a \notin Whole(asked'[f])
    BY <1>2, <2>1
  <2>5. a \in orphans' => \A f \in Fd : a \notin Whole(asked'[f])
    BY <1>1, <1>2, <2>1, <2>2
  <2>6. processed'[a] = 1 => a \notin orphans'
    BY <1>1, <2>1, <2>2
  <2>7. \A f, g \in Fd : f # g => a \notin Whole(asked'[f]) \/ a \notin Whole(asked'[g])
    BY <1>2, <2>1
  <2>8. QED BY <2>3, <2>4, <2>5, <2>6, <2>7
<1>7. OnePlace'
  BY <1>6 DEF OnePlace
<1>8. QED BY <1>5, <1>7

LEMMA TakeDeadInv == ASSUME IInv, NEW o \in Origin, TakeDead(o) PROVE IInv'
<1> USE Bounds, Nothing
<1> PICK s \in Slot :
      /\ IsFirst(s, o) /\ ~Alive(slot[s].fd)
      /\ slot' = [slot EXCEPT ![s] = None]
      /\ Drop({slot[s].fd}, {}, {})
  BY DEF TakeDead
<1>a. slot[s] \in Kept /\ slot[s] # None
  BY DEF IsFirst, Leads, IInv, TypeOK
<1>b. slot[s].fd \in Fd
  BY <1>a DEF Kept
<1> PICK fd \in Fd : fd = slot[s].fd
  BY <1>b
<1>c. /\ phase = "idle" /\ phase' = "connect" /\ UNCHANGED <<turn, processed, given>>
      /\ call.id < MaxRequests /\ Begin(o, None, FALSE)
  BY DEF TakeDead
<1>0. /\ slot[s] \in Kept /\ slot[s] # None /\ fd \in Fd
      /\ phase = "idle" /\ phase' = "connect" /\ UNCHANGED <<turn, processed, given>>
      /\ call.id + 1 \in Request /\ call.id \in Nat
      /\ call.fd = None /\ Begin(o, None, FALSE)
  <2>1. call.id + 1 \in Request /\ call.id \in Nat
    BY <1>c DEF IInv, TypeOK, Calls, Request
  <2>2. call.fd = None
    BY <1>c DEF IInv, Stages
  <2>3. QED BY <1>a, <1>b, <1>c, <2>1, <2>2
<1>1. /\ opened' = opened \ {fd} /\ odd' = odd \ {fd} /\ orphans' \in SUBSET Arrival
      /\ server' \in [Fd -> Origin \cup {None}] /\ hung' \in [Fd -> BOOLEAN]
      /\ asked' \in [Fd -> SUBSET Request] /\ input' \in [Fd -> Answer \cup {None}]
      /\ asked'[fd] = {} /\ input'[fd] = None
      /\ \A f \in Fd \ {fd} : asked'[f] = asked[f] /\ server'[f] = server[f] /\ input'[f] = input[f]
  <2>1. Drop({fd}, {}, {})
    OBVIOUS
  <2>2. TypeOK
    BY DEF IInv
  <2>3. /\ opened' = opened \ {fd} /\ odd' = odd \ {fd} /\ orphans' \in SUBSET Arrival
        /\ server' \in [Fd -> Origin \cup {None}] /\ hung' \in [Fd -> BOOLEAN]
        /\ asked' \in [Fd -> SUBSET Request] /\ input' \in [Fd -> Answer \cup {None}]
        /\ \A f \in {fd} : asked'[f] = {} /\ input'[f] = None
        /\ \A f \in Fd \ {fd} :
             asked'[f] = asked[f] /\ server'[f] = server[f] /\ (f \notin {} => input'[f] = input[f])
    BY <2>1, <2>2, DropShape
  <2>4. QED BY <2>3
<1>2. TypeOK'
  BY <1>0, <1>1 DEF IInv, TypeOK, Phases, Calls, Request, Begin
<1>3. HeldOnce'
  BY <1>0, <1>1 DEF IInv, TypeOK, HeldOnce, FdsOf, InUse, Begin, Kept
<1>4. RightOrigin' /\ OwnAnswer'
  BY <1>0, <1>1 DEF IInv, TypeOK, HeldOnce, RightOrigin, OwnAnswer, Begin, Kept
<1>5. Stages' /\ Quiet' /\ Asked' /\ Heard'
  BY <1>0, <1>1 DEF IInv, TypeOK, Stages, Quiet, Asked, Heard, Begin
<1>6. Coming' \subseteq Coming /\ \A a \in Coming : Unseen(a)
  <2>1. Coming' \subseteq Coming
    BY <1>0 DEF Coming, Arrival, Begin
  <2>2. QED BY <2>1 DEF IInv, Unwritten
<1>7. \A a \in Coming' : \A f \in Fd : a \notin Whole(asked[f])
  BY <1>6 DEF Unseen
<1>8. Unwritten' /\ OnePlace'
  <2>1. Drop({fd}, {}, {}) /\ Coming' \subseteq Coming \ {} /\ {fd} \subseteq Fd
    BY <1>6
  <2>2. TypeOK /\ OnePlace /\ Unwritten
    BY DEF IInv
  <2>3. QED BY <1>0, <1>7, <2>1, <2>2, DropPlaces
<1>9. QED BY <1>2, <1>3, <1>4, <1>5, <1>8 DEF IInv

LEMMA ConnectInv == ASSUME IInv, Connect PROVE IInv'
<1> USE Bounds, Nothing
<1> PICK f \in Fd \ opened :
      /\ opened' = opened \cup {f}
      /\ server' = [server EXCEPT ![f] = call.origin]
      /\ call' = [call EXCEPT !.fd = f, !.fromPool = FALSE]
  BY DEF Connect
<1>0. /\ phase = "connect" /\ phase' = "write" /\ call.fd = None
      /\ call.origin \in Origin /\ call.id \in Request
      /\ UNCHANGED <<pool, hung, asked, input, odd, orphans, processed, given>>
  BY DEF Connect, IInv, Stages
<1>1. TypeOK'
  BY <1>0 DEF IInv, TypeOK, Phases, Calls, pool
<1>2. HeldOnce'
  BY <1>0 DEF IInv, TypeOK, HeldOnce, FdsOf, InUse, pool, Calls, Kept
<1>3. RightOrigin' /\ OwnAnswer'
  BY <1>0 DEF IInv, TypeOK, HeldOnce, RightOrigin, OwnAnswer, FdsOf, pool, Calls, Kept
<1>4. Stages' /\ Quiet' /\ Asked' /\ Heard'
  BY <1>0 DEF IInv, TypeOK, Calls, Stages, Quiet, Asked, Heard
<1>5. Coming' \subseteq Coming
  BY <1>0 DEF IInv, TypeOK, Calls, Coming
<1>6. Unwritten' /\ OnePlace'
  BY <1>0, <1>5, PlacesStay DEF IInv
<1>7. QED BY <1>1, <1>2, <1>3, <1>4, <1>6 DEF IInv

LEMMA ConnectFailsInv == ASSUME IInv, ConnectFails PROVE IInv'
<1> USE Bounds, Nothing DEF ConnectFails, pool, network
<1>1. TypeOK' /\ HeldOnce' /\ RightOrigin' /\ OwnAnswer'
  BY DEF IInv, TypeOK, Phases, HeldOnce, RightOrigin, OwnAnswer, FdsOf, InUse
<1>2. Stages' /\ Quiet' /\ Asked' /\ Heard'
  BY DEF IInv, Stages, Quiet, Asked, Heard
<1>3. Coming' \subseteq Coming
  BY DEF Coming
<1>4. Unwritten' /\ OnePlace'
  BY <1>3, PlacesStay DEF IInv
<1>5. QED BY <1>1, <1>2, <1>4 DEF IInv

\* A request that the upstream has not heard of is put on a socket.
LEMMA PlacesWritten ==
  ASSUME IInv, NEW f \in Fd, call.id \in Request, phase = "write", phase' = "read",
         UNCHANGED <<call, orphans, processed>>, asked' \in [Fd -> SUBSET Request],
         asked'[f] \in {asked[f], asked[f] \cup {call.id}},
         \A g \in Fd \ {f} : asked'[g] = asked[g]
  PROVE  Unwritten' /\ OnePlace'
<1> USE Bounds
<1> DEFINE new == <<call.id, "last">>
<1>1. new \in Arrival /\ new \in Coming
  BY DEF Arrival, Coming
<1>2. Unseen(new)
  BY <1>1 DEF IInv, Unwritten
<1>3. \A g \in Fd : \A a : a \in Whole(asked'[g]) => a \in Whole(asked[g]) \/ (g = f /\ a = new)
  BY WholeFacts
<1>4. Coming' \subseteq Coming /\ new \notin Coming'
  BY DEF IInv, TypeOK, Calls, Coming
<1> HIDE DEF new
<1>5. Unwritten'
  <2>1. ASSUME NEW a \in Coming' PROVE Unseen(a)'
    <3>1. Unseen(a) /\ a # new
      BY <1>4, <2>1 DEF IInv, Unwritten
    <3>2. QED BY <1>3, <3>1 DEF Unseen
  <2>2. QED BY <2>1 DEF Unwritten
<1>6. OnePlace'
  <2>1. ASSUME NEW a \in Arrival
        PROVE  /\ processed[a] <= 1
               /\ (processed[a] = 1 \/ a \in orphans) => \A g \in Fd : a \notin Whole(asked'[g])
               /\ processed[a] = 1 => a \notin orphans
               /\ \A g, h \in Fd : g # h => a \notin Whole(asked'[g]) \/ a \notin Whole(asked'[h])
    <3>1. /\ processed[a] <= 1
          /\ (processed[a] = 1 \/ a \in orphans) => \A g \in Fd : a \notin Whole(asked[g])
          /\ processed[a] = 1 => a \notin orphans
          /\ \A g, h \in Fd : g # h => a \notin Whole(asked[g]) \/ a \notin Whole(asked[h])
      BY DEF IInv, OnePlace
    <3>2. CASE a # new
      BY <1>3, <3>1, <3>2
    <3>3. CASE a = new
      <4>1. processed[a] = 0 /\ a \notin orphans /\ \A g \in Fd : a \notin Whole(asked[g])
        BY <1>2, <3>3 DEF Unseen
      <4>2. QED BY <1>3, <4>1
    <3>4. QED BY <3>2, <3>3
  <2>2. QED BY <2>1 DEF OnePlace
<1>7. QED BY <1>5, <1>6

LEMMA WriteInv == ASSUME IInv, Write PROVE IInv'
<1> USE Bounds, Nothing
<1>0. /\ phase = "write" /\ phase' = "read" /\ call.fd \in Fd /\ call.id \in Request
      /\ asked' = [asked EXCEPT ![call.fd] = @ \cup (IF hung[call.fd] THEN {} ELSE {call.id})]
      /\ UNCHANGED <<pool, call, opened, server, hung, input, odd, orphans, processed, given>>
  BY DEF Write, IInv, TypeOK, Calls, Stages
<1>a. /\ asked' \in [Fd -> SUBSET Request]
      /\ asked'[call.fd] \in {asked[call.fd], asked[call.fd] \cup {call.id}}
      /\ \A g \in Fd \ {call.fd} : asked'[g] = asked[g]
  BY <1>0 DEF IInv, TypeOK
<1>b. call.fd \in opened
  BY <1>0 DEF IInv, HeldOnce, InUse
<1>1. TypeOK' /\ HeldOnce' /\ RightOrigin' /\ OwnAnswer'
  BY <1>0, <1>a DEF IInv, TypeOK, Phases, HeldOnce, RightOrigin, OwnAnswer, FdsOf, InUse, pool
<1>2. Stages' /\ Quiet' /\ Heard'
  BY <1>0, <1>a, <1>b DEF IInv, Stages, Quiet, Heard
<1>3. Asked'
  <2>1. call.fd \notin odd => asked[call.fd] = {} /\ input[call.fd] = None
    BY <1>0 DEF IInv, Asked, Heard
  <2>2. \A g \in Fd \ odd : g # call.fd => asked[g] = {}
    BY <1>0 DEF IInv, Asked
  <2>3. QED BY <1>0, <1>a, <2>1, <2>2 DEF Asked
<1>4. Unwritten' /\ OnePlace'
  BY <1>0, <1>a, PlacesWritten
<1>5. QED BY <1>1, <1>2, <1>3, <1>4 DEF IInv

\* The request ends without a kept connection, or starts over on another.
LEMMA CloseInUse ==
  ASSUME IInv, phase \in {"write", "read"}, NEW torn, torn \subseteq Coming,
         Drop({call.fd}, {}, torn), Coming' \subseteq Coming \ torn,
         phase' \in {"idle", "connect"}, phase' = "connect" => phase = "write",
         call' \in Calls, call'.fd = None, call'.id = call.id, call'.origin = call.origin,
         UNCHANGED <<pool, processed>>,
         given' \in Result \cup {None}, OwnAnswer'
  PROVE  IInv'
<1> USE Bounds, Nothing
<1>1. call.fd \in Fd /\ call.id \in Request /\ call.origin \in Origin
  BY DEF IInv, TypeOK, Calls, Stages
<1> PICK fd \in Fd : fd = call.fd
  BY <1>1
<1>a. Drop({fd}, {}, torn) /\ {fd} \subseteq Fd /\ torn \subseteq Arrival
  BY DEF Coming
<1>b. TypeOK /\ OnePlace /\ Unwritten
  BY DEF IInv
<1>2. /\ opened' = opened \ {fd} /\ odd' = odd \ {fd} /\ orphans' \in SUBSET Arrival
      /\ server' \in [Fd -> Origin \cup {None}] /\ hung' \in [Fd -> BOOLEAN]
      /\ asked' \in [Fd -> SUBSET Request] /\ input' \in [Fd -> Answer \cup {None}]
      /\ asked'[fd] = {} /\ input'[fd] = None
      /\ \A f \in Fd \ {fd} : asked'[f] = asked[f] /\ server'[f] = server[f] /\ input'[f] = input[f]
  <2>1. /\ opened' = opened \ {fd} /\ odd' = odd \ {fd} /\ orphans' \in SUBSET Arrival
        /\ server' \in [Fd -> Origin \cup {None}] /\ hung' \in [Fd -> BOOLEAN]
        /\ asked' \in [Fd -> SUBSET Request] /\ input' \in [Fd -> Answer \cup {None}]
        /\ \A f \in {fd} : asked'[f] = {} /\ input'[f] = None
        /\ \A f \in Fd \ {fd} :
             asked'[f] = asked[f] /\ server'[f] = server[f] /\ (f \notin {} => input'[f] = input[f])
    BY <1>a, <1>b, DropShape
  <2>2. QED BY <2>1
<1>3. TypeOK'
  BY <1>2 DEF IInv, TypeOK, Phases, pool
<1>4. HeldOnce'
  BY <1>1, <1>2 DEF IInv, TypeOK, HeldOnce, FdsOf, InUse, Kept, pool
<1>5. RightOrigin'
  BY <1>1, <1>2 DEF IInv, TypeOK, HeldOnce, RightOrigin, FdsOf, InUse, Kept, pool
<1>6. Stages' /\ Quiet' /\ Asked' /\ Heard'
  BY <1>1, <1>2 DEF IInv, Stages, Quiet, Asked, Heard
<1>7. \A a \in Coming' : \A f \in Fd : a \notin Whole(asked[f])
  BY <1>b DEF Unwritten, Unseen
<1>8. Unwritten' /\ OnePlace'
  BY <1>a, <1>b, <1>7, DropPlaces
<1>9. QED BY <1>3, <1>4, <1>5, <1>6, <1>8 DEF IInv

LEMMA WriteFailsInv == ASSUME IInv, WriteFails PROVE IInv'
<1> USE Bounds
<1>1. /\ phase \in {"write", "read"}
      /\ phase' \in {"idle", "connect"} /\ (phase' = "connect" => phase = "write")
      /\ UNCHANGED <<pool, processed>>
  BY DEF WriteFails
<1>2. call' \in Calls /\ call'.fd = None /\ call'.id = call.id /\ call'.origin = call.origin
  BY DEF WriteFails, IInv, TypeOK, Calls
<1>3. given' \in Result \cup {None} /\ OwnAnswer'
  BY DEF WriteFails, IInv, TypeOK, OwnAnswer
<1>4. PICK arrived \in SUBSET {<<call.id, IF call.fromPool THEN "retried" ELSE "last">>} : Drop({call.fd}, {}, arrived)
  BY DEF WriteFails
<1>5. call.id \in Request /\ call.fromPool \in BOOLEAN /\ phase = "write"
  BY DEF WriteFails, IInv, TypeOK, Stages, Calls
<1>6. arrived \subseteq Coming
  BY <1>4, <1>5 DEF Coming, Arrival
<1>7. Coming' \subseteq Coming \ arrived
  <2>1. Coming' \subseteq {a \in Arrival : a[1] > call.id \/ (phase' = "connect" /\ a = <<call.id, "last">>)}
    BY <1>1, <1>2 DEF Coming
  <2>2. phase' = "connect" => call.fromPool
    BY <1>5 DEF WriteFails
  <2>3. \A a \in arrived : a = <<call.id, IF call.fromPool THEN "retried" ELSE "last">>
    BY <1>4
  <2>4. ASSUME NEW a \in Coming' PROVE a \in Coming \ arrived
    <3>1. CASE a[1] > call.id
      <4>1. a \in Coming
        BY <2>1, <2>4, <3>1 DEF Coming
      <4>2. a \in arrived => a[1] = call.id
        BY <2>3
      <4>3. call.id \in Nat
        BY <1>5
      <4>4. QED BY <3>1, <4>1, <4>2, <4>3
    <3>2. CASE ~(a[1] > call.id)
      <4>1. a \in Arrival /\ a = <<call.id, "last">> /\ call.fromPool
        BY <2>1, <2>2, <2>4, <3>2
      <4>2. a \in Coming
        BY <1>5, <4>1 DEF Coming
      <4>3. a \notin arrived
        BY <2>3, <4>1
      <4>4. QED BY <4>2, <4>3
    <3>3. QED BY <3>1, <3>2
  <2>5. QED BY <2>4
<1>8. QED BY <1>1, <1>2, <1>3, <1>4, <1>6, <1>7, CloseInUse

LEMMA ReadFailsInv == ASSUME IInv, ReadFails PROVE IInv'
<1>1. /\ phase \in {"write", "read"} /\ Drop({call.fd}, {}, {})
      /\ phase' \in {"idle", "connect"} /\ (phase' = "connect" => phase = "write")
      /\ UNCHANGED <<pool, processed>>
  BY DEF ReadFails
<1>2. call' \in Calls /\ call'.fd = None /\ call'.id = call.id /\ call'.origin = call.origin
  BY DEF ReadFails, IInv, TypeOK, Calls
<1>3. given' \in Result \cup {None} /\ OwnAnswer'
  BY DEF ReadFails, IInv, TypeOK, OwnAnswer
<1>4. Coming' \subseteq Coming \ {}
  BY <1>2 DEF ReadFails, Coming
<1>5. QED BY <1>1, <1>2, <1>3, <1>4, CloseInUse

LEMMA ReadInv == ASSUME IInv, Read PROVE IInv'
<1> USE Bounds, Nothing
<1>1. /\ phase = "read" /\ phase' = "idle" /\ input[call.fd] # None /\ processed' = processed
      /\ call.fd \in Fd /\ call.id \in Request /\ call.origin \in Origin
      /\ input[call.fd] \in Answer
      /\ call.fd \notin odd => input[call.fd].to = call.id
  BY DEF Read, IInv, TypeOK, Calls, Stages, Heard
<1>2. call' \in Calls /\ call'.fd = None /\ call'.id = call.id /\ call'.origin = call.origin
  BY DEF Read, IInv, TypeOK, Calls
<1>3. given' = [of |-> call.id, to |-> input[call.fd].to, odd |-> call.fd \in odd]
  BY DEF Read
<1>4. given' \in Result \cup {None} /\ OwnAnswer'
  <2>1. input[call.fd].to \in Request \cup {None} /\ (call.fd \in odd) \in BOOLEAN
    BY <1>1 DEF Answer
  <2>2. given' \in Result
    BY <1>1, <1>3, <2>1 DEF Result
  <2>3. given'.to = given'.of \/ given'.odd
    BY <1>1, <1>3
  <2>4. QED BY <2>2, <2>3 DEF OwnAnswer
<1>a. Coming' \subseteq Coming \ {}
  BY <1>1, <1>2 DEF Coming
<1>5. CASE ~input[call.fd].keep
  <2>1. Drop({call.fd}, {}, {}) /\ UNCHANGED pool
    BY <1>5 DEF Read
  <2>2. QED BY <1>1, <1>2, <1>4, <1>a, <2>1, CloseInUse
<1>6. CASE input[call.fd].keep
  <2> PICK fd \in Fd : fd = call.fd
    BY <1>1
  <2> PICK out : out = FdsOf({turn})
    OBVIOUS
  <2>1. /\ slot' = [slot EXCEPT ![turn] = [origin |-> call.origin, fd |-> fd]]
        /\ turn' = (turn % Slots) + 1
        /\ Drop(out, {fd}, {})
    BY <1>6 DEF Read, Put, Drop
  <2>2. /\ turn \in Slot /\ \A f : f \in out <=> slot[turn] # None /\ f = slot[turn].fd
        /\ out \subseteq Fd /\ fd \notin out
    BY <1>1 DEF FdsOf, IInv, TypeOK, HeldOnce, InUse, Kept
  <2>3. /\ opened' = opened \ out /\ odd' = odd \ out /\ orphans' \in SUBSET Arrival
        /\ server' \in [Fd -> Origin \cup {None}] /\ hung' \in [Fd -> BOOLEAN]
        /\ asked' \in [Fd -> SUBSET Request] /\ input' \in [Fd -> Answer \cup {None}]
        /\ \A f \in out : asked'[f] = {} /\ input'[f] = None
        /\ \A f \in Fd \ out :
             asked'[f] = asked[f] /\ server'[f] = server[f] /\ (f # fd => input'[f] = input[f])
        /\ input'[fd] = None
    <3>1. Drop(out, {fd}, {}) /\ out \subseteq Fd /\ {} \subseteq Arrival
      BY <2>1, <2>2
    <3>2. TypeOK
      BY DEF IInv
    <3>3. opened' = opened \ out /\ odd' = odd \ out /\ orphans' \in SUBSET Arrival
      <4>1. opened' = opened \ out
        BY <3>1, <3>2, DropShape
      <4>2. odd' = odd \ out
        BY <3>1, <3>2, DropShape
      <4>3. orphans' \in SUBSET Arrival
        BY <3>1, <3>2, DropShape
      <4>4. QED BY <4>1, <4>2, <4>3
    <3>4. server' \in [Fd -> Origin \cup {None}] /\ hung' \in [Fd -> BOOLEAN]
      <4>1. server' \in [Fd -> Origin \cup {None}]
        BY <3>1, <3>2, DropShape
      <4>2. hung' \in [Fd -> BOOLEAN]
        BY <3>1, <3>2 DEF Drop, TypeOK
      <4>3. QED BY <4>1, <4>2
    <3>5. asked' \in [Fd -> SUBSET Request] /\ input' \in [Fd -> Answer \cup {None}]
      BY <3>1, <3>2, DropShape
    <3>6. /\ \A f \in out : asked'[f] = {} /\ input'[f] = None
          /\ \A f \in Fd \ out :
               asked'[f] = asked[f] /\ server'[f] = server[f] /\ (f \notin {fd} => input'[f] = input[f])
      BY <3>1, <3>2, DropShape
    <3>7. \A f \in {fd} \cap Fd : input'[f] = None
      BY <3>1, <3>2, DropShape
    <3>8. QED BY <3>3, <3>4, <3>5, <3>6, <3>7
  <2>5. turn' \in Slot
    BY <2>1, <2>2 DEF Slot
  <2>6. slot' \in [Slot -> Kept \cup {None}]
    <3>1. [origin |-> call.origin, fd |-> fd] \in Kept
      BY <1>1 DEF Kept
    <3>2. QED BY <2>1, <3>1 DEF IInv, TypeOK
  <2>7. TypeOK'
    <3>1. opened' \in SUBSET Fd /\ odd' \in SUBSET Fd
      BY <2>3 DEF IInv, TypeOK
    <3>2. QED
      BY <1>1, <1>2, <1>4, <2>3, <2>5, <2>6, <3>1 DEF IInv, TypeOK, Phases
  <2>8. HeldOnce'
    <3>1. [origin |-> call.origin, fd |-> fd] \in Kept
      BY <1>1 DEF Kept
    <3>2. \A t \in Slot : t # turn => slot'[t] = slot[t]
      BY <2>1 DEF IInv, TypeOK
    <3>3. slot'[turn] # None /\ slot'[turn].fd = fd
      BY <2>1, <2>2, <3>1 DEF IInv, TypeOK
    <3>4. \A t \in Slot : (t # turn /\ slot[t] # None) => slot[t].fd # fd /\ slot[t].fd \notin out
      BY <1>1, <2>2 DEF IInv, HeldOnce, FdsOf, InUse
    <3>5. opened' = FdsOf(Slot)' /\ InUse' = {}
      <4>1. InUse' = {}
        BY <1>2 DEF InUse
      <4>2. opened = FdsOf(Slot) \cup {fd}
        BY <1>1 DEF IInv, HeldOnce, InUse
      <4>3. ASSUME NEW f \in opened' PROVE f \in FdsOf(Slot)'
        BY <4>2, <4>3, <2>2, <2>3, <3>2, <3>3 DEF FdsOf
      <4>4. ASSUME NEW f \in FdsOf(Slot)' PROVE f \in opened'
        BY <4>2, <4>4, <2>2, <2>3, <3>2, <3>3, <3>4 DEF FdsOf
      <4>5. QED BY <4>1, <4>3, <4>4
    <3>6. \A s, t \in Slot : (slot'[s] # None /\ slot'[t] # None /\ s # t) => slot'[s].fd # slot'[t].fd
      BY <3>2, <3>3, <3>4 DEF IInv, HeldOnce
    <3>7. QED BY <3>5, <3>6 DEF HeldOnce
  <2>9. RightOrigin'
    <3>1. server'[fd] = call.origin
      BY <1>1, <2>2, <2>3 DEF IInv, RightOrigin
    <3>2. \A t \in Slot : (t # turn /\ slot[t] # None) => slot[t].fd \in Fd \ out
      <4>1. \A t \in Slot : slot[t] # None => slot[t].fd \in Fd
        BY DEF IInv, TypeOK, Kept
      <4>2. \A t \in Slot : (t # turn /\ slot[t] # None) => slot[t].fd \notin out
        BY <2>2 DEF IInv, HeldOnce
      <4>3. QED BY <4>1, <4>2
    <3>3. \A t \in Slot : t # turn => slot'[t] = slot[t]
      BY <2>1 DEF IInv, TypeOK
    <3>4. slot'[turn].fd = fd /\ slot'[turn].origin = call.origin
      BY <2>1, <2>2 DEF IInv, TypeOK
    <3>5. ASSUME NEW t \in Slot, slot'[t] # None PROVE server'[slot'[t].fd] = slot'[t].origin
      <4>1. CASE t = turn
        BY <4>1, <3>1, <3>4
      <4>2. CASE t # turn
        <5>1. slot[t] # None /\ slot'[t] = slot[t]
          BY <4>2, <3>3, <3>5
        <5>2. server[slot[t].fd] = slot[t].origin
          BY <5>1 DEF IInv, RightOrigin
        <5>3. server'[slot[t].fd] = server[slot[t].fd]
          BY <4>2, <5>1, <3>2, <2>3
        <5>4. QED BY <5>1, <5>2, <5>3
      <4>3. QED BY <4>1, <4>2
    <3>6. QED BY <1>2, <3>5 DEF RightOrigin
  <2>10. Stages' /\ Heard'
    BY <1>1, <1>2 DEF Stages, Heard
  <2>11. Quiet'
    <3>1. fd \in opened
      BY <1>1 DEF IInv, HeldOnce, InUse
    <3>2. QED BY <2>2, <2>3, <3>1 DEF IInv, Quiet
  <2>12. Asked'
    <3>1. \A f \in Fd \ odd : asked[f] = {}
      BY <1>1 DEF IInv, Asked
    <3>2. QED BY <2>3, <3>1 DEF Asked
  <2>13. Unwritten' /\ OnePlace'
    <3>1. \A a \in Coming' : \A f \in Fd : a \notin Whole(asked[f])
      BY <1>a DEF IInv, Unwritten, Unseen
    <3>2. Drop(out, {fd}, {}) /\ out \subseteq Fd /\ {} \subseteq Arrival /\ {} \subseteq Coming
      BY <2>1, <2>2
    <3>3. TypeOK /\ OnePlace /\ Unwritten
      BY DEF IInv
    <3>4. QED BY <1>1, <1>a, <3>1, <3>2, <3>3, DropPlaces
  <2>14. QED BY <1>4, <2>7, <2>8, <2>9, <2>10, <2>11, <2>12, <2>13 DEF IInv
<1>7. QED BY <1>5, <1>6

LEMMA TeardownInv == ASSUME IInv, Teardown PROVE IInv'
<1> USE Bounds, Nothing
<1> PICK out : out = FdsOf(Slot)
  OBVIOUS
<1>1. /\ phase = "idle" /\ phase' = "ended" /\ slot' = [s \in Slot |-> None]
      /\ UNCHANGED <<turn, call, processed, given>> /\ call.fd = None
      /\ Drop(out, {}, {})
  BY DEF Teardown, IInv, Stages, Drop
<1>2. out \subseteq Fd /\ opened = out
  BY <1>1 DEF FdsOf, IInv, TypeOK, HeldOnce, InUse, Kept
<1>3. TypeOK /\ OnePlace /\ Unwritten
  BY DEF IInv
<1>4. /\ opened' = {} /\ odd' = {} /\ orphans' \in SUBSET Arrival
      /\ server' \in [Fd -> Origin \cup {None}] /\ hung' \in [Fd -> BOOLEAN]
      /\ asked' \in [Fd -> SUBSET Request] /\ input' \in [Fd -> Answer \cup {None}]
      /\ \A f \in Fd : asked'[f] = {} /\ input'[f] = None
  <2>1. /\ opened' = opened \ out /\ odd' = odd \ out /\ orphans' \in SUBSET Arrival
        /\ server' \in [Fd -> Origin \cup {None}] /\ hung' \in [Fd -> BOOLEAN]
        /\ asked' \in [Fd -> SUBSET Request] /\ input' \in [Fd -> Answer \cup {None}]
        /\ \A f \in out : asked'[f] = {} /\ input'[f] = None
        /\ \A f \in Fd \ out :
             asked'[f] = asked[f] /\ server'[f] = server[f] /\ (f \notin {} => input'[f] = input[f])
    BY <1>1, <1>2, <1>3, DropShape
  <2>2. odd' = {}
    BY <1>2, <2>1 DEF IInv, Quiet
  <2>3. \A f \in Fd : asked'[f] = {} /\ input'[f] = None
    BY <1>2, <2>1 DEF IInv, Quiet
  <2>4. QED BY <1>2, <2>1, <2>2, <2>3
<1>5. TypeOK'
  BY <1>1, <1>4 DEF IInv, TypeOK, Phases
<1>6. HeldOnce' /\ RightOrigin' /\ OwnAnswer'
  BY <1>1, <1>4 DEF IInv, HeldOnce, RightOrigin, OwnAnswer, FdsOf, InUse
<1>7. Stages' /\ Quiet' /\ Asked' /\ Heard'
  BY <1>1, <1>4 DEF IInv, Stages, Quiet, Asked, Heard
<1>8. Coming' \subseteq Coming \ {}
  BY <1>1 DEF Coming
<1>9. \A a \in Coming' : \A f \in Fd : a \notin Whole(asked[f])
  BY <1>3, <1>8 DEF Unwritten, Unseen
<1>10. Unwritten' /\ OnePlace'
  BY <1>1, <1>2, <1>3, <1>8, <1>9, DropPlaces
<1>11. QED BY <1>5, <1>6, <1>7, <1>10 DEF IInv

\* The upstream runs an arrival, and has it no longer.
LEMMA PlacesRun ==
  ASSUME TypeOK, OnePlace, Unwritten, NEW b \in Arrival, processed[b] = 0,
         processed' = [processed EXCEPT ![b] = @ + 1],
         UNCHANGED <<phase, call>>,
         b \in orphans \/ \E f \in Fd : b \in Whole(asked[f]),
         orphans' = orphans \ {b},
         \A f \in Fd : Whole(asked'[f]) = Whole(asked[f]) \ {b}
  PROVE  Unwritten' /\ OnePlace'
<1>1. processed'[b] = 1 /\ \A a \in Arrival : a # b => processed'[a] = processed[a]
  BY DEF TypeOK
<1>2. Coming' = Coming /\ Coming \subseteq Arrival
  BY DEF Coming
<1>3. Unwritten'
  <2>1. ASSUME NEW a \in Coming' PROVE Unseen(a)'
    <3>1. Unseen(a) /\ a \in Arrival
      BY <1>2, <2>1 DEF Unwritten
    <3>2. a # b
      BY <3>1 DEF Unseen
    <3>3. QED BY <1>1, <3>1, <3>2 DEF Unseen
  <2>2. QED BY <2>1 DEF Unwritten
<1>4. OnePlace'
  <2>1. ASSUME NEW a \in Arrival
        PROVE  /\ processed'[a] <= 1
               /\ (processed'[a] = 1 \/ a \in orphans') => \A f \in Fd : a \notin Whole(asked'[f])
               /\ processed'[a] = 1 => a \notin orphans'
               /\ \A f, g \in Fd : f # g => a \notin Whole(asked'[f]) \/ a \notin Whole(asked'[g])
    <3>1. /\ processed[a] <= 1
          /\ (processed[a] = 1 \/ a \in orphans) => \A f \in Fd : a \notin Whole(asked[f])
          /\ processed[a] = 1 => a \notin orphans
          /\ \A f, g \in Fd : f # g => a \notin Whole(asked[f]) \/ a \notin Whole(asked[g])
      BY DEF OnePlace
    <3>2. CASE a = b
      BY <1>1, <3>2
    <3>3. CASE a # b
      BY <1>1, <3>1, <3>3
    <3>4. QED BY <3>2, <3>3
  <2>2. QED BY <2>1 DEF OnePlace
<1>5. QED BY <1>3, <1>4

LEMMA ServeInv == ASSUME IInv, NEW f \in Fd, Serve(f) PROVE IInv'
<1> USE Bounds, Nothing
<1>1. PICK r \in asked[f], keep \in BOOLEAN :
        /\ Ran(<<r, "last">>)
        /\ asked' = [asked EXCEPT ![f] = @ \ {r}]
        /\ input' = [input EXCEPT ![f] = IF @ = None THEN [to |-> r, keep |-> keep] ELSE @]
  BY DEF Serve
<1>2. UNCHANGED <<pool, phase, call, opened, server, hung, odd, orphans, given>>
  BY DEF Serve
<1>3. r \in Request /\ [to |-> r, keep |-> keep] \in Answer /\ <<r, "last">> \in Arrival
  BY <1>1 DEF IInv, TypeOK, Answer, Arrival
<1>4. /\ asked' \in [Fd -> SUBSET Request] /\ asked'[f] = asked[f] \ {r}
      /\ \A g \in Fd \ {f} : asked'[g] = asked[g]
  BY <1>1 DEF IInv, TypeOK
<1>5. /\ input' \in [Fd -> Answer \cup {None}]
      /\ input'[f] = IF input[f] = None THEN [to |-> r, keep |-> keep] ELSE input[f]
      /\ \A g \in Fd \ {f} : input'[g] = input[g]
  BY <1>1, <1>3 DEF IInv, TypeOK
<1>6. processed' = [processed EXCEPT ![<<r, "last">>] = @ + 1]
  BY <1>1 DEF Ran
<1>7. processed' \in [Arrival -> Nat]
  BY <1>3, <1>6 DEF IInv, TypeOK
<1>8. TypeOK'
  BY <1>2, <1>4, <1>5, <1>7 DEF IInv, TypeOK, pool
<1>9. HeldOnce' /\ RightOrigin' /\ OwnAnswer' /\ Stages'
  BY <1>2 DEF IInv, HeldOnce, RightOrigin, OwnAnswer, FdsOf, InUse, pool, Stages
<1>10. f \in opened /\ (f \notin odd => phase = "read" /\ f = call.fd /\ asked[f] = {call.id} /\ input[f] = None)
  BY <1>1 DEF IInv, Quiet, Asked
<1>11. Quiet'
  BY <1>2, <1>4, <1>5, <1>10 DEF IInv, Quiet
<1>12. Asked'
  <2>1. ASSUME NEW g \in Fd \ odd, asked'[g] # {}
        PROVE  phase = "read" /\ g = call.fd /\ asked'[g] = {call.id} /\ input'[g] = None
    <3>1. CASE g = f
      <4>1. asked[f] = {call.id} /\ r = call.id
        BY <1>1, <1>10, <3>1
      <4>2. asked'[g] = {}
        BY <1>4, <3>1, <4>1
      <4>3. QED BY <2>1, <4>2
    <3>2. CASE g # f
      BY <1>4, <1>5, <2>1, <3>2 DEF IInv, Asked
    <3>3. QED BY <3>1, <3>2
  <2>2. QED BY <1>2, <2>1 DEF Asked
<1>13. Heard'
  <2>1. CASE f = call.fd /\ f \notin odd
    <3>1. r = call.id /\ phase = "read" /\ input'[f] = [to |-> r, keep |-> keep]
      BY <1>1, <1>5, <1>10, <2>1
    <3>2. QED BY <1>2, <2>1, <3>1 DEF Heard
  <2>2. CASE f # call.fd
    <3>1. phase \in {"write", "read"} => call.fd \in Fd
      BY DEF IInv, TypeOK, Calls, Stages
    <3>2. QED BY <1>2, <1>5, <2>2, <3>1 DEF IInv, Heard
  <2>3. CASE f \in odd
    BY <1>2, <1>5, <2>2, <2>3 DEF Heard
  <2>4. QED BY <2>1, <2>2, <2>3
<1>14. Unwritten' /\ OnePlace'
  <2>1. <<r, "last">> \in Whole(asked[f])
    BY <1>1, WholeFacts
  <2>2. processed[<<r, "last">>] \in Nat /\ processed[<<r, "last">>] <= 1
    BY <1>3 DEF IInv, TypeOK, OnePlace
  <2>3. processed[<<r, "last">>] # 1 /\ <<r, "last">> \notin orphans
    BY <1>3, <2>1 DEF IInv, OnePlace
  <2>4. orphans' = orphans \ {<<r, "last">>}
    BY <1>2, <2>3
  <2>5. \A g \in Fd \ {f} : <<r, "last">> \notin Whole(asked[g])
    BY <1>3, <2>1 DEF IInv, OnePlace
  <2>6. Whole(asked'[f]) = Whole(asked[f]) \ {<<r, "last">>}
    BY <1>4, WholeFacts
  <2>7. \A g \in Fd : Whole(asked'[g]) = Whole(asked[g]) \ {<<r, "last">>}
    <3>1. ASSUME NEW g \in Fd \ {f} PROVE Whole(asked'[g]) = Whole(asked[g]) \ {<<r, "last">>}
      BY <1>4, <2>5, <3>1
    <3>2. QED BY <2>6, <3>1
  <2>8. processed[<<r, "last">>] = 0
    BY <2>2, <2>3
  <2>9. TypeOK /\ OnePlace /\ Unwritten
    BY DEF IInv
  <2>10. QED BY <1>2, <1>3, <1>6, <2>1, <2>4, <2>7, <2>8, <2>9, PlacesRun
<1>15. QED BY <1>8, <1>9, <1>11, <1>12, <1>13, <1>14 DEF IInv

LEMMA ServeOrphanInv == ASSUME IInv, NEW b \in Arrival, ServeOrphan(b) PROVE IInv'
<1> USE Bounds, Nothing
<1>1. /\ b \in orphans /\ orphans' = orphans \ {b}
      /\ processed' = [processed EXCEPT ![b] = @ + 1]
      /\ UNCHANGED <<pool, phase, call, opened, server, hung, asked, input, odd, given>>
  BY DEF ServeOrphan, Ran
<1>2. processed[b] = 0 /\ \A f \in Fd : b \notin Whole(asked[f])
  BY <1>1 DEF IInv, TypeOK, OnePlace
<1>3. TypeOK' /\ HeldOnce' /\ RightOrigin' /\ OwnAnswer'
  BY <1>1 DEF IInv, TypeOK, HeldOnce, RightOrigin, OwnAnswer, FdsOf, InUse, pool
<1>4. Stages' /\ Quiet' /\ Asked' /\ Heard'
  BY <1>1 DEF IInv, Stages, Quiet, Asked, Heard
<1>5. TypeOK /\ OnePlace /\ Unwritten
  BY DEF IInv
<1>6. \A f \in Fd : Whole(asked'[f]) = Whole(asked[f]) \ {b}
  BY <1>1, <1>2
<1>7. Unwritten' /\ OnePlace'
  BY <1>1, <1>2, <1>5, <1>6, PlacesRun
<1>8. QED BY <1>3, <1>4, <1>7 DEF IInv

LEMMA HangUpInv == ASSUME IInv, NEW f \in Fd, HangUp(f) PROVE IInv'
<1> USE Bounds, Nothing
<1>1. /\ hung' = [hung EXCEPT ![f] = TRUE]
      /\ asked' = [asked EXCEPT ![f] = {}]
      /\ orphans' = orphans \cup Whole(asked[f])
      /\ UNCHANGED <<pool, phase, call, opened, server, input, odd, processed, given>>
  BY DEF HangUp
<1>2. asked'[f] = {} /\ \A g \in Fd \ {f} : asked'[g] = asked[g]
  BY <1>1 DEF IInv, TypeOK
<1>3. orphans' \in SUBSET Arrival
  <2>1. Whole(asked[f]) \in SUBSET Arrival
    BY WholeFacts DEF IInv, TypeOK
  <2>2. QED BY <1>1, <2>1 DEF IInv, TypeOK
<1>4. hung' \in [Fd -> BOOLEAN] /\ asked' \in [Fd -> SUBSET Request]
  BY <1>1 DEF IInv, TypeOK
<1>5. TypeOK' /\ HeldOnce' /\ RightOrigin' /\ OwnAnswer'
  BY <1>1, <1>3, <1>4 DEF IInv, TypeOK, HeldOnce, RightOrigin, OwnAnswer, FdsOf, InUse, pool
<1>6. Stages' /\ Quiet' /\ Asked' /\ Heard'
  BY <1>1, <1>2 DEF IInv, Stages, Quiet, Asked, Heard
<1>7. \A g \in Fd : \A a : a \in Whole(asked'[g]) => g # f /\ a \in Whole(asked[g])
  BY <1>2, WholeFacts
<1>8. Unwritten'
  <2>1. ASSUME NEW a \in Coming' PROVE Unseen(a)'
    <3>1. Unseen(a)
      BY <1>1, <2>1 DEF IInv, Unwritten, Coming
    <3>2. QED BY <1>1, <1>7, <3>1 DEF Unseen
  <2>2. QED BY <2>1 DEF Unwritten
<1>9. OnePlace'
  <2>1. ASSUME NEW a \in Arrival
        PROVE  /\ processed[a] <= 1
               /\ (processed[a] = 1 \/ a \in orphans') => \A g \in Fd : a \notin Whole(asked'[g])
               /\ processed[a] = 1 => a \notin orphans'
               /\ \A g, h \in Fd : g # h => a \notin Whole(asked'[g]) \/ a \notin Whole(asked'[h])
    <3>1. /\ processed[a] <= 1
          /\ (processed[a] = 1 \/ a \in orphans) => \A g \in Fd : a \notin Whole(asked[g])
          /\ processed[a] = 1 => a \notin orphans
          /\ \A g, h \in Fd : g # h => a \notin Whole(asked[g]) \/ a \notin Whole(asked[h])
      BY DEF IInv, OnePlace
    <3>2. QED BY <1>1, <1>7, <3>1
  <2>2. QED BY <1>1, <2>1 DEF OnePlace
<1>10. QED BY <1>5, <1>6, <1>8, <1>9 DEF IInv

LEMMA BabbleInv == ASSUME IInv, NEW f \in Fd, Babble(f) PROVE IInv'
<1> USE Bounds, Nothing
<1>1. PICK keep \in BOOLEAN : input' = [input EXCEPT ![f] = [to |-> None, keep |-> keep]]
  BY DEF Babble
<1>2. /\ f \in opened /\ odd' = odd \cup ({call.fd} \cap {f})
      /\ UNCHANGED <<pool, phase, call, opened, server, hung, asked, orphans, processed, given>>
  BY DEF Babble
<1>3. input' \in [Fd -> Answer \cup {None}] /\ \A g \in Fd \ {f} : input'[g] = input[g]
  <2>1. [to |-> None, keep |-> keep] \in Answer
    BY DEF Answer
  <2>2. QED BY <1>1, <2>1 DEF IInv, TypeOK
<1>4. odd' \in SUBSET Fd /\ odd \subseteq odd' /\ (f = call.fd => f \in odd') /\ odd' \subseteq odd \cup {f}
  BY <1>2 DEF IInv, TypeOK
<1>5. TypeOK' /\ HeldOnce' /\ RightOrigin' /\ OwnAnswer'
  BY <1>2, <1>3, <1>4 DEF IInv, TypeOK, HeldOnce, RightOrigin, OwnAnswer, FdsOf, InUse, pool
<1>6. Stages' /\ Quiet'
  BY <1>2, <1>3, <1>4 DEF IInv, Stages, Quiet
<1>7. Asked' /\ Heard'
  <2>1. phase \in {"write", "read"} => call.fd \in Fd
    BY DEF IInv, TypeOK, Calls, Stages
  <2>2. QED BY <1>2, <1>3, <1>4, <2>1 DEF IInv, Asked, Heard
<1>8. Coming' \subseteq Coming
  BY <1>2 DEF Coming
<1>9. Unwritten' /\ OnePlace'
  BY <1>2, <1>8, PlacesStay DEF IInv
<1>10. QED BY <1>5, <1>6, <1>7, <1>9 DEF IInv

LEMMA StepInv == IInv /\ [Next]_vars => IInv'
<1> SUFFICES ASSUME IInv, [Next]_vars PROVE IInv'
  OBVIOUS
<1>1. CASE Send
  BY <1>1, TakeNoneInv, TakeAliveInv, TakeDeadInv DEF Send
<1>2. CASE Connect \/ ConnectFails
  BY <1>2, ConnectInv, ConnectFailsInv
<1>3. CASE Write \/ WriteFails
  BY <1>3, WriteInv, WriteFailsInv
<1>4. CASE Read \/ ReadFails \/ Teardown
  BY <1>4, ReadInv, ReadFailsInv, TeardownInv
<1>5. CASE Upstream
  BY <1>5, ServeInv, HangUpInv, BabbleInv, ServeOrphanInv DEF Upstream
<1>6. CASE UNCHANGED vars
  <2> USE <1>6 DEF vars, pool, network
  <2>1. TypeOK' /\ HeldOnce' /\ RightOrigin' /\ OwnAnswer'
    BY DEF IInv, TypeOK, HeldOnce, RightOrigin, OwnAnswer, FdsOf, InUse
  <2>2. Stages' /\ Quiet' /\ Asked' /\ Heard'
    BY DEF IInv, Stages, Quiet, Asked, Heard
  <2>3. Coming' \subseteq Coming
    BY DEF Coming
  <2>4. Unwritten' /\ OnePlace'
    BY <2>3, PlacesStay DEF IInv
  <2>5. QED BY <2>1, <2>2, <2>4 DEF IInv
<1>7. QED BY <1>1, <1>2, <1>3, <1>4, <1>5, <1>6 DEF Next, Client

-----------------------------------------------------------------------------
LEMMA Invariant == Spec => []IInv
<1>1. QED BY InitInv, StepInv, PTL DEF Spec

\* Every reachable state of the client is well typed.
THEOREM ClientTyped == Spec => []TypeOK
<1>1. IInv => TypeOK
  BY DEF IInv
<1>2. QED BY <1>1, Invariant, PTL

\* For a pool of any size, any number of requests, and an upstream that closes and speaks out
\* of turn at any moment and may run a part of a request: every socket has one holder and
\* leads where its holder believes, every arrival of a request is run at most once, and a
\* request is given its own answer unless the upstream spoke out of turn on its connection
\* after the pool had checked it.
THEOREM PoolIsSound == Spec => []PoolSound
<1>1. IInv => PoolSound
  BY DEF IInv, PoolSound, RunOnce, OnePlace
<1>2. QED BY <1>1, Invariant, PTL
-----------------------------------------------------------------------------
(***************************************************************************)
(* Frames: what a stream of them carries, and one more.                    *)
(***************************************************************************)

\* The fragments of a message that is not finished.
Unfinished(s) == {i \in 1..Len(s) : Carries(s[i]) /\ \A j \in i..Len(s) : ~Ends(s[j])}
Least(S)  == CHOOSE i \in S : \A j \in S : i <= j

\* The kinds of frames.
LEMMA FrameKinds ==
  ASSUME NEW f \in Frame
  PROVE  /\ f.op \in Data \cup Control \cup {"continuation", "reserved"}
         /\ f.fin \in BOOLEAN /\ f.size \in Nat
<1>1. CASE f \in [op : Data \cup {"continuation", "ping"}, fin : BOOLEAN, size : Sizes]
  BY <1>1, FramesAssumption DEF Data, Control
<1>2. CASE f \in [op : {"close", "pong", "reserved"}, fin : BOOLEAN, size : {0}]
  BY <1>2 DEF Data, Control
<1>3. QED
  BY <1>1, <1>2 DEF Frame

\* The units of a payload.
LEMMA UnitsFacts ==
  ASSUME NEW f \in Frame, NEW i \in Nat
  PROVE  Units(f, i) \in Seq(Nat) /\ Len(Units(f, i)) = f.size
<1>1. f.size \in Nat
  BY FrameKinds
<1>2. Units(f, i) \in [1..f.size -> Nat]
  BY DEF Units
<1>3. QED
  BY <1>1, <1>2

\* The frames up to the last, and the last.
LEMMA FrameMore ==
  ASSUME NEW s \in Seq(Frame), NEW f \in Frame
  PROVE  /\ Append(s, f) \in Seq(Frame) /\ Len(Append(s, f)) = Len(s) + 1 /\ Len(s) \in Nat
         /\ \A i \in 1..Len(s) : Append(s, f)[i] = s[i] /\ s[i] \in Frame
         /\ Append(s, f)[Len(s)+1] = f
         /\ DOMAIN s = 1..Len(s) /\ DOMAIN Append(s, f) = 1..Len(s)+1
         /\ Front(Append(s, f)) = s
<1>1. /\ Append(s, f) \in Seq(Frame) /\ Len(Append(s, f)) = Len(s) + 1 /\ Len(s) \in Nat
      /\ \A i \in 1..Len(s) : Append(s, f)[i] = s[i]
      /\ Append(s, f)[Len(s)+1] = f
  BY AppendProperties
<1>2. DOMAIN s = 1..Len(s) /\ \A i \in 1..Len(s) : s[i] \in Frame
  BY ElementOfSeq
<1>3. DOMAIN Append(s, f) = 1..Len(s)+1
  BY <1>1, LenProperties
<1>4. Front(Append(s, f)) = s
  <2> DEFINE t == Append(s, f)
  <2>1. t # << >>
    BY <1>1, EmptySeq
  <2> HIDE DEF t
  <2>2. /\ Front(t) \in Seq(Frame) /\ Len(Front(t)) = Len(t) - 1
        /\ \A i \in 1..Len(t)-1 : Front(t)[i] = t[i]
    BY <2>1, <1>1, FrontLast DEF t
  <2>3. Len(Front(t)) = Len(s) /\ \A i \in 1..Len(s) : Front(t)[i] = s[i]
    BY <2>2, <1>1 DEF t
  <2>4. Front(t) = s
    BY <2>2, <2>3, SeqEqual
  <2>5. QED
    BY <2>4 DEF t
<1>5. QED
  BY <1>1, <1>2, <1>3, <1>4

\* One part for each frame, a sequence of V, all of them one after the other: with one
\* frame more there is one part more.
LEMMA PartsMore ==
  ASSUME NEW V, NEW n \in Nat, NEW p \in [1..n -> Seq(V)], NEW q \in [1..n+1 -> Seq(V)],
         \A i \in 1..n : q[i] = p[i]
  PROVE  FlattenSeq(p) \in Seq(V) /\ FlattenSeq(q) = FlattenSeq(p) \o q[n+1]
<1>2. p \in Seq(Seq(V)) /\ Len(p) = n
  OBVIOUS
<1>3. q \in Seq(Seq(V)) /\ Len(q) = n + 1 /\ q[n+1] \in Seq(V)
  OBVIOUS
<1>4. q = Append(p, q[n+1])
  <2> DEFINE x == q[n+1]
  <2>1. /\ Append(p, x) \in Seq(Seq(V)) /\ Len(Append(p, x)) = n + 1
        /\ \A i \in 1..n : Append(p, x)[i] = p[i]
        /\ Append(p, x)[n+1] = x
    BY <1>2, AppendProperties
  <2>2. \A i \in 1..n+1 : Append(p, x)[i] = q[i]
    <3>1. ASSUME NEW i \in 1..n+1 PROVE Append(p, x)[i] = q[i]
      <4>1. i \in 1..n \/ i = n + 1
        OBVIOUS
      <4>2. QED
        BY <4>1, <2>1
    <3>2. QED
      BY <3>1
  <2> HIDE DEF x
  <2>3. q = Append(p, x)
    BY <2>1, <2>2, <1>3, SeqEqual
  <2>4. QED
    BY <2>3 DEF x
<1>5. FlattenSeq(p) \in Seq(V)
  BY <1>2, FlattenType
<1>6. FlattenSeq(Append(p, q[n+1])) = FlattenSeq(p) \o q[n+1]
  BY <1>2, FlattenAppend
<1>7. QED
  BY <1>4, <1>5, <1>6

\* What frames carry, with one frame more.
LEMMA PayloadMore ==
  ASSUME NEW s \in Seq(Frame), NEW f \in Frame, NEW P
  PROVE  /\ Payload(s, P) \in Seq(Nat)
         /\ Payload(Append(s, f), P)
            = Payload(s, P) \o (IF Len(s)+1 \in P THEN Units(f, Len(s)+1) ELSE << >>)
<1> DEFINE t == Append(s, f)
<1> DEFINE p == [i \in DOMAIN s |-> IF i \in P THEN Units(s[i], i) ELSE << >>]
<1> DEFINE q == [i \in DOMAIN t |-> IF i \in P THEN Units(t[i], i) ELSE << >>]
<1>1. /\ Len(s) \in Nat /\ DOMAIN s = 1..Len(s) /\ DOMAIN t = 1..Len(s)+1
      /\ \A i \in 1..Len(s) : t[i] = s[i] /\ s[i] \in Frame
      /\ t[Len(s)+1] = f
  BY FrameMore
<1>2. << >> \in Seq(Nat)
  BY EmptySeq
<1>3. ASSUME NEW i \in 1..Len(s) PROVE p[i] \in Seq(Nat) /\ q[i] = p[i]
  <2>1. i \in Nat /\ i \in DOMAIN s /\ i \in DOMAIN t /\ t[i] = s[i] /\ s[i] \in Frame
    BY <1>1
  <2>2. p[i] = IF i \in P THEN Units(s[i], i) ELSE << >>
    BY <2>1
  <2>3. q[i] = IF i \in P THEN Units(s[i], i) ELSE << >>
    BY <2>1
  <2>4. Units(s[i], i) \in Seq(Nat)
    BY <2>1, UnitsFacts
  <2>5. QED
    BY <2>2, <2>3, <2>4, <1>2
<1>4. /\ q[Len(s)+1] = IF Len(s)+1 \in P THEN Units(f, Len(s)+1) ELSE << >>
      /\ q[Len(s)+1] \in Seq(Nat)
  <2>1. Len(s)+1 \in DOMAIN t /\ Len(s)+1 \in Nat
    BY <1>1
  <2>2. q[Len(s)+1] = IF Len(s)+1 \in P THEN Units(f, Len(s)+1) ELSE << >>
    BY <2>1, <1>1
  <2>3. Units(f, Len(s)+1) \in Seq(Nat)
    BY <2>1, UnitsFacts
  <2>4. QED
    BY <2>2, <2>3, <1>2
<1>5. p \in [1..Len(s) -> Seq(Nat)] /\ q \in [1..Len(s)+1 -> Seq(Nat)]
  <2>1. \A i \in 1..Len(s)+1 : i \in 1..Len(s) \/ i = Len(s)+1
    BY <1>1
  <2>2. \A i \in 1..Len(s)+1 : q[i] \in Seq(Nat)
    BY <2>1, <1>3, <1>4
  <2>3. DOMAIN q = 1..Len(s)+1 /\ q = [i \in DOMAIN q |-> q[i]]
    BY <1>1
  <2>4. DOMAIN p = 1..Len(s) /\ p = [i \in DOMAIN p |-> p[i]]
    BY <1>1
  <2> HIDE DEF p, q
  <2>5. QED
    BY <1>3, <2>2, <2>3, <2>4
<1>6. Payload(s, P) = FlattenSeq(p) /\ Payload(t, P) = FlattenSeq(q)
  BY DEF Payload
<1> HIDE DEF p, q
<1>7. FlattenSeq(p) \in Seq(Nat) /\ FlattenSeq(q) = FlattenSeq(p) \o q[Len(s)+1]
  <2>1. \A i \in 1..Len(s) : q[i] = p[i]
    BY <1>3
  <2>2. QED
    BY <2>1, <1>1, <1>5, PartsMore
<1>8. QED
  BY <1>4, <1>6, <1>7

\* Only the places of frames count.
LEMMA PayloadSame ==
  ASSUME NEW s \in Seq(Frame), NEW P, NEW Q, \A i \in 1..Len(s) : i \in P <=> i \in Q
  PROVE  Payload(s, P) = Payload(s, Q)
<1>1. DOMAIN s = 1..Len(s)
  BY ElementOfSeq
<1>2. [i \in DOMAIN s |-> IF i \in P THEN Units(s[i], i) ELSE << >>]
      = [i \in DOMAIN s |-> IF i \in Q THEN Units(s[i], i) ELSE << >>]
  BY <1>1
<1>3. QED
  BY <1>2 DEF Payload

\* No frames carry nothing.
LEMMA PayloadOfNone ==
  ASSUME NEW s \in Seq(Frame)
  PROVE  Payload(s, {}) = << >> /\ Payload(<< >>, {}) = << >>
<1> DEFINE G == {k \in 0..Len(s) : Payload(SubSeq(s, 1, k), {}) = << >>}
<1>1. /\ SubSeq(s, 1, 0) = << >> /\ SubSeq(s, 1, Len(s)) = s /\ Len(s) \in Nat
      /\ \A k \in 0..Len(s)-1 : /\ SubSeq(s, 1, k) \in Seq(Frame) /\ s[k+1] \in Frame
                                /\ SubSeq(s, 1, k+1) = Append(SubSeq(s, 1, k), s[k+1])
  BY OneMore
<1>2. Payload(<< >>, {}) = << >>
  <2>1. [i \in DOMAIN << >> |-> IF i \in {} THEN Units(<< >>[i], i) ELSE << >>] = << >>
    OBVIOUS
  <2>2. FlattenSeq(<< >>) = << >>
    BY EmptySeq DEF FlattenSeq
  <2>3. QED
    BY <2>1, <2>2 DEF Payload
<1>3. 0 \in G
  <2>1. 0 \in 0..Len(s)
    BY <1>1
  <2>2. Payload(SubSeq(s, 1, 0), {}) = << >>
    BY <1>1, <1>2
  <2>3. QED
    BY <2>1, <2>2
<1>4. ASSUME NEW k \in 0..Len(s)-1, k \in G PROVE k + 1 \in G
  <2> DEFINE r == SubSeq(s, 1, k)
  <2>1. r \in Seq(Frame) /\ s[k+1] \in Frame /\ SubSeq(s, 1, k+1) = Append(r, s[k+1])
    BY <1>1
  <2>2. Payload(Append(r, s[k+1]), {}) = Payload(r, {}) \o << >>
    BY <2>1, PayloadMore
  <2>3. Payload(r, {}) = << >>
    BY <1>4
  <2>4. << >> \o << >> = << >>
    OBVIOUS
  <2>5. Payload(SubSeq(s, 1, k+1), {}) = << >>
    BY <2>1, <2>2, <2>3, <2>4
  <2>6. QED
    BY <2>5, <1>1
<1> HIDE DEF G
<1>5. Len(s) \in G
  BY <1>3, <1>4, OverPrefixes
<1>6. QED
  BY <1>1, <1>2, <1>5 DEF G
\* The fragments of messages, with one frame more.
LEMMA FragmentsMore ==
  ASSUME NEW s \in Seq(Frame), NEW f \in Frame
  PROVE  LET t == Append(s, f)
             n == Len(s)
         IN
         /\ Unfinished(s) \in SUBSET (1..n)
         /\ \A e \in 1..n : Fragments(t, e) = Fragments(s, e) /\ Fragments(s, e) \in SUBSET (1..n)
         /\ Carries(f) => Fragments(t, n+1) = Unfinished(s) \cup {n+1}
         /\ Ends(f) => Unfinished(t) = {}
         /\ Carries(f) /\ ~Ends(f) => Unfinished(t) = Unfinished(s) \cup {n+1}
         /\ ~Carries(f) => Unfinished(t) = Unfinished(s)
<1> DEFINE t == Append(s, f)
<1> DEFINE n == Len(s)
<1>1. /\ n \in Nat /\ Len(t) = n + 1 /\ \A i \in 1..n : t[i] = s[i]
      /\ t[n+1] = f
  BY FrameMore
<1> HIDE DEF t
<1>2. Unfinished(s) \in SUBSET (1..n)
  BY DEF Unfinished
<1>3. ASSUME NEW e \in 1..n PROVE Fragments(t, e) = Fragments(s, e) /\ Fragments(s, e) \in SUBSET (1..n)
  <2>1. \A i \in 1..e : i \in 1..n /\ t[i] = s[i] /\ \A j \in i..e-1 : t[j] = s[j]
    BY <1>1
  <2>2. QED
    BY <2>1 DEF Fragments
<1>4. ASSUME NEW i PROVE i \in Fragments(t, n+1) <=> i \in Unfinished(s) \cup {k \in {n+1} : Carries(f)}
  <2>1. CASE i \in 1..n
    <3>1. i \in 1..n+1 /\ i # n + 1 /\ t[i] = s[i] /\ i..(n+1)-1 = i..n /\ \A j \in i..n : t[j] = s[j]
      BY <2>1, <1>1
    <3>2. QED
      BY <2>1, <3>1, <1>1 DEF Fragments, Unfinished
  <2>2. CASE i = n + 1
    <3>1. i \in 1..n+1 /\ i \notin 1..n /\ t[i] = f /\ i..(n+1)-1 = {}
      BY <2>2, <1>1
    <3>2. QED
      BY <2>2, <3>1, <1>1 DEF Fragments, Unfinished
  <2>3. CASE i \notin 1..n /\ i # n + 1
    <3>1. i \notin 1..n+1
      BY <2>3, <1>1
    <3>2. QED
      BY <2>3, <3>1, <1>1 DEF Fragments, Unfinished
  <2>4. QED
    BY <2>1, <2>2, <2>3
<1>5. ASSUME NEW i
      PROVE  i \in Unfinished(t) <=> ~Ends(f) /\ i \in Unfinished(s) \cup {k \in {n+1} : Carries(f)}
  <2>1. CASE i \in 1..n
    <3>1. i \in 1..n+1 /\ i # n + 1 /\ t[i] = s[i] /\ i..n+1 = (i..n) \cup {n+1} /\ \A j \in i..n : t[j] = s[j]
      BY <2>1, <1>1
    <3>2. (\A j \in i..n+1 : ~Ends(t[j])) <=> ~Ends(f) /\ \A j \in i..n : ~Ends(s[j])
      BY <3>1, <1>1
    <3>3. QED
      BY <2>1, <3>1, <3>2, <1>1 DEF Unfinished
  <2>2. CASE i = n + 1
    <3>1. i \in 1..n+1 /\ i \notin 1..n /\ t[i] = f /\ i..n+1 = {n+1} /\ t[n+1] = f
      BY <2>2, <1>1
    <3>2. QED
      BY <2>2, <3>1, <1>1 DEF Unfinished
  <2>3. CASE i \notin 1..n /\ i # n + 1
    <3>1. i \notin 1..n+1
      BY <2>3, <1>1
    <3>2. QED
      BY <2>3, <3>1, <1>1 DEF Unfinished
  <2>4. QED
    BY <2>1, <2>2, <2>3
<1>6. Carries(f) => Fragments(t, n+1) = Unfinished(s) \cup {n+1}
  BY <1>4
<1>7. Ends(f) => Unfinished(t) = {}
  BY <1>5
<1>8. Carries(f) /\ ~Ends(f) => Unfinished(t) = Unfinished(s) \cup {n+1}
  BY <1>5
<1>9. ~Carries(f) => Unfinished(t) = Unfinished(s)
  <2>1. ~Carries(f) => ~Ends(f)
    BY DEF Ends
  <2>2. QED
    BY <2>1, <1>5
<1>10. QED
  BY <1>2, <1>3, <1>6, <1>7, <1>8, <1>9 DEF t

\* The least of some numbers, and one that is greater.
LEMMA LeastIs ==
  ASSUME NEW n \in Nat, NEW S \in SUBSET (1..n)
  PROVE  /\ Least({n+1}) = n + 1
         /\ S # {} => Least(S) \in S /\ Least(S \cup {n+1}) = Least(S)
<1>1. Least({n+1}) = n + 1
  BY DEF Least
<1>2. ASSUME S # {} PROVE Least(S) \in S /\ Least(S \cup {n+1}) = Least(S)
  <2>1. PICK m \in S : \A k \in S : m <= k
    BY <1>2, LeastNat
  <2>2. ASSUME NEW i \in S, \A j \in S : i <= j PROVE i = m
    BY <2>1, <2>2
  <2>3. Least(S) = m
    BY <2>1, <2>2 DEF Least
  <2>4. m \in S \cup {n+1} /\ \A k \in S \cup {n+1} : m <= k
    BY <2>1
  <2>5. ASSUME NEW i \in S \cup {n+1}, \A j \in S \cup {n+1} : i <= j PROVE i = m
    <3>1. i <= m /\ m <= i
      BY <2>4, <2>5
    <3>2. QED
      BY <3>1
  <2>6. Least(S \cup {n+1}) = m
    BY <2>4, <2>5 DEF Least
  <2>7. QED
    BY <2>1, <2>3, <2>6
<1>3. QED
  BY <1>1, <1>2

\* The frame a message begins with is the least of its fragments.
LEMMA OpeningIsLeast == \A s, e : Opening(s, e) = Least(Fragments(s, e))
BY DEF Opening, Least

\* One frame more carries what the fragments before it began.
LEMMA CarriedMore ==
  ASSUME NEW s \in Seq(Frame), NEW f \in Frame
  PROVE  LET t == Append(s, f)
             n == Len(s)
         IN
         /\ \A P \in SUBSET (1..n) : Payload(t, P) = Payload(s, P)
         /\ \A e \in 1..n : Opening(t, e) = Opening(s, e)
         /\ Unfinished(s) # {} => Least(Unfinished(s)) \in Unfinished(s) /\ Least(Unfinished(s)) \in 1..n
         /\ Carries(f) /\ Unfinished(s) = {} => Opening(t, n+1) = n + 1
         /\ Carries(f) /\ Unfinished(s) # {} => Opening(t, n+1) = Least(Unfinished(s))
         /\ Carries(f) => Payload(t, Fragments(t, n+1)) = Payload(s, Unfinished(s)) \o Units(f, n+1)
<1> DEFINE t == Append(s, f)
<1> DEFINE n == Len(s)
<1>1. /\ n \in Nat /\ t \in Seq(Frame) /\ Len(t) = n + 1 /\ \A i \in 1..n : t[i] = s[i]
      /\ t[n+1] = f
  BY FrameMore
<1>2. /\ Unfinished(s) \in SUBSET (1..n)
      /\ \A e \in 1..n : Fragments(t, e) = Fragments(s, e) /\ Fragments(s, e) \in SUBSET (1..n)
      /\ Carries(f) => Fragments(t, n+1) = Unfinished(s) \cup {n+1}
  BY FragmentsMore
<1>3. ASSUME NEW P PROVE Payload(t, P) = Payload(s, P) \o (IF n+1 \in P THEN Units(f, n+1) ELSE << >>)
  BY PayloadMore
<1>4. ASSUME NEW P \in SUBSET (1..n) PROVE Payload(t, P) = Payload(s, P)
  <2>1. n + 1 \notin P
    BY <1>1
  <2>2. Payload(t, P) = Payload(s, P) \o << >> /\ Payload(s, P) \in Seq(Nat)
    BY <2>1, <1>3, PayloadMore
  <2>3. QED
    BY <2>2, ConcatEmptySeq
<1> HIDE DEF t, n
<1>5. \A e \in 1..n : Opening(t, e) = Opening(s, e)
  BY <1>2, OpeningIsLeast
<1>6. ASSUME Unfinished(s) # {}
      PROVE  /\ Least(Unfinished(s)) \in Unfinished(s) /\ Least(Unfinished(s)) \in 1..n
             /\ Carries(f) => Opening(t, n+1) = Least(Unfinished(s))
  <2>1. Least(Unfinished(s)) \in Unfinished(s) /\ Least(Unfinished(s) \cup {n+1}) = Least(Unfinished(s))
    BY <1>6, <1>1, <1>2, LeastIs
  <2>2. Carries(f) => Opening(t, n+1) = Least(Unfinished(s) \cup {n+1})
    BY <1>2, OpeningIsLeast
  <2>3. QED
    BY <2>1, <2>2, <1>2
<1>7. ASSUME Carries(f), Unfinished(s) = {} PROVE Opening(t, n+1) = n + 1
  <2>1. Opening(t, n+1) = Least({n+1})
    <3>1. Fragments(t, n+1) = {n+1}
      BY <1>2, <1>7
    <3>2. QED
      BY <3>1, OpeningIsLeast
  <2>2. Least({n+1}) = n + 1
    BY <1>1, <1>2, LeastIs
  <2>3. QED
    BY <2>1, <2>2
<1>8. ASSUME Carries(f) PROVE Payload(t, Fragments(t, n+1)) = Payload(s, Unfinished(s)) \o Units(f, n+1)
  <2> DEFINE P == Unfinished(s) \cup {n+1}
  <2>1. Fragments(t, n+1) = P /\ n + 1 \in P
    BY <1>2, <1>8
  <2>2. Payload(t, P) = Payload(s, P) \o Units(f, n+1)
    BY <2>1, <1>3
  <2>3. Payload(s, P) = Payload(s, Unfinished(s))
    <3>1. \A i \in 1..Len(s) : i \in P <=> i \in Unfinished(s)
      BY <1>1 DEF n
    <3>2. QED
      BY <3>1, PayloadSame
  <2>4. QED
    BY <2>1, <2>2, <2>3
<1>9. QED
  BY <1>4, <1>5, <1>6, <1>7, <1>8 DEF t, n

\* What becomes of the verdicts when there is one frame more, and the verdict on it.
LEMMA VerdictsMore ==
  ASSUME NEW s \in Seq(Frame), NEW f \in Frame
  PROVE  LET t == Append(s, f)
             n == Len(s)
             u == Payload(s, Unfinished(s)) \o Units(f, n+1)
         IN
         /\ \A i \in 1..n : Verdict(t, i) = Verdict(s, i)
         /\ f.op \in Control => Verdict(t, n+1) = IF ~f.fin THEN "protocol error"
                                                  ELSE IF f.op = "close" THEN "close" ELSE "none"
         /\ f.op = "reserved" => Verdict(t, n+1) = "unsupported"
         /\ f.op \in Data => Verdict(t, n+1) = IF Unfinished(s) = {} THEN "none" ELSE "protocol error"
         /\ f.op = "continuation" => Verdict(t, n+1) = IF Unfinished(s) = {} THEN "protocol error"
                                                       ELSE IF Len(u) > Limit THEN "too big" ELSE "none"
<1> DEFINE t == Append(s, f)
<1> DEFINE n == Len(s)
<1> DEFINE u == Payload(s, Unfinished(s)) \o Units(f, n+1)
<1>1. /\ n \in Nat /\ t \in Seq(Frame) /\ Len(t) = n + 1 /\ \A i \in 1..n : t[i] = s[i]
      /\ t[n+1] = f
  BY FrameMore
<1>2. /\ \A e \in 1..n : Fragments(t, e) = Fragments(s, e) /\ Fragments(s, e) \in SUBSET (1..n)
      /\ Carries(f) => Fragments(t, n+1) = Unfinished(s) \cup {n+1}
  BY FragmentsMore
<1>3. /\ \A P \in SUBSET (1..n) : Payload(t, P) = Payload(s, P)
      /\ \A e \in 1..n : Opening(t, e) = Opening(s, e)
  BY CarriedMore
<1>5. ASSUME Carries(f)
      PROVE  /\ Opening(t, n+1) = n + 1 <=> Unfinished(s) = {}
             /\ Payload(t, Fragments(t, n+1)) = u
  <2>1. /\ Unfinished(s) # {} => Least(Unfinished(s)) \in 1..n
        /\ Unfinished(s) = {} => Opening(t, n+1) = n + 1
        /\ Unfinished(s) # {} => Opening(t, n+1) = Least(Unfinished(s))
        /\ Payload(t, Fragments(t, n+1)) = u
    BY <1>5, CarriedMore
  <2> HIDE DEF t, u
  <2>2. QED
    BY <2>1, <1>1
<1> HIDE DEF t, n, u
<1>4. ASSUME NEW i \in 1..n PROVE Verdict(t, i) = Verdict(s, i)
  <2>1. t[i] = s[i] /\ Opening(t, i) = Opening(s, i)
    BY <1>1, <1>3
  <2>2. Payload(t, Fragments(t, i)) = Payload(s, Fragments(s, i))
    BY <1>2, <1>3
  <2>3. QED
    BY <2>1, <2>2 DEF Verdict
<1>6. ASSUME f.op \in Control
      PROVE  Verdict(t, n+1) = IF ~f.fin THEN "protocol error"
                               ELSE IF f.op = "close" THEN "close" ELSE "none"
  <2>1. t[n+1].op \in Control /\ t[n+1] = f
    BY <1>1, <1>6
  <2>2. f.op # "reserved" /\ f.op \notin Data /\ f.op # "continuation"
    BY <1>6 DEF Control, Data
  <2>3. QED
    BY <2>1, <2>2 DEF Verdict
<1>7. ASSUME f.op = "reserved" PROVE Verdict(t, n+1) = "unsupported"
  <2>1. f.op \notin Control /\ f.op \notin Data /\ f.op # "continuation"
    BY <1>7 DEF Control, Data
  <2>2. QED
    BY <1>1, <1>7, <2>1 DEF Verdict
<1>8. ASSUME f.op \in Data
      PROVE  Verdict(t, n+1) = IF Unfinished(s) = {} THEN "none" ELSE "protocol error"
  <2>1. f.op \notin Control /\ f.op # "reserved" /\ f.op # "continuation" /\ Carries(f)
    BY <1>8 DEF Control, Data, Carries
  <2>2. Opening(t, n+1) = n + 1 <=> Unfinished(s) = {}
    BY <2>1, <1>5
  <2>3. Verdict(t, n+1) = IF Opening(t, n+1) = n + 1 THEN "none" ELSE "protocol error"
    BY <1>1, <1>8, <2>1 DEF Verdict
  <2>4. QED
    BY <2>2, <2>3
<1>9. ASSUME f.op = "continuation"
      PROVE  Verdict(t, n+1) = IF Unfinished(s) = {} THEN "protocol error"
                               ELSE IF Len(u) > Limit THEN "too big" ELSE "none"
  <2>1. f.op \notin Control /\ f.op \notin Data /\ f.op # "reserved" /\ Carries(f)
    BY <1>9 DEF Control, Data, Carries
  <2>2. (Opening(t, n+1) = n + 1 <=> Unfinished(s) = {}) /\ Payload(t, Fragments(t, n+1)) = u
    BY <2>1, <1>5
  <2>3. Verdict(t, n+1) = IF Opening(t, n+1) = n + 1 THEN "protocol error"
                          ELSE IF Len(Payload(t, Fragments(t, n+1))) > Limit THEN "too big" ELSE "none"
    BY <1>1, <1>9, <2>1 DEF Verdict
  <2>4. QED
    BY <2>2, <2>3
<1>10. QED
  BY <1>4, <1>6, <1>7, <1>8, <1>9 DEF t, n, u

\* The messages that frames carry, with one frame more.
LEMMA MessagesMore ==
  ASSUME NEW s \in Seq(Frame), NEW f \in Frame
  PROVE  LET t == Append(s, f)
             n == Len(s)
             first == IF Unfinished(s) = {} THEN f ELSE s[Least(Unfinished(s))]
         IN
         /\ ~Ends(f) => Messages(t) = Messages(s)
         /\ Ends(f) =>
              Messages(t) = Append(Messages(s), [op |-> first.op,
                                                 payload |-> Payload(s, Unfinished(s)) \o Units(f, n+1)])
<1> DEFINE t == Append(s, f)
<1> DEFINE n == Len(s)
<1> DEFINE first == IF Unfinished(s) = {} THEN f ELSE s[Least(Unfinished(s))]
<1> DEFINE m == [op |-> first.op, payload |-> Payload(s, Unfinished(s)) \o Units(f, n+1)]
<1> DEFINE V == {Message(t, e) : e \in 1..n+1}
<1> DEFINE p == [e \in DOMAIN s |-> IF Ends(s[e]) THEN <<Message(s, e)>> ELSE << >>]
<1> DEFINE q == [e \in DOMAIN t |-> IF Ends(t[e]) THEN <<Message(t, e)>> ELSE << >>]
<1>1. /\ n \in Nat /\ DOMAIN s = 1..n /\ DOMAIN t = 1..n+1
      /\ \A i \in 1..n : t[i] = s[i] /\ s[i] \in Frame
      /\ t[n+1] = f
  BY FrameMore
<1>2. /\ Unfinished(s) \in SUBSET (1..n)
      /\ \A e \in 1..n : Fragments(t, e) = Fragments(s, e) /\ Fragments(s, e) \in SUBSET (1..n)
  BY FragmentsMore
<1>3. /\ \A P \in SUBSET (1..n) : Payload(t, P) = Payload(s, P)
      /\ \A e \in 1..n : Opening(t, e) = Opening(s, e)
      /\ Unfinished(s) # {} => Least(Unfinished(s)) \in 1..n
      /\ Carries(f) /\ Unfinished(s) = {} => Opening(t, n+1) = n + 1
      /\ Carries(f) /\ Unfinished(s) # {} => Opening(t, n+1) = Least(Unfinished(s))
      /\ Carries(f) => Payload(t, Fragments(t, n+1)) = Payload(s, Unfinished(s)) \o Units(f, n+1)
  BY CarriedMore
<1>4. Messages(s) = FlattenSeq(p) /\ Messages(t) = FlattenSeq(q)
  BY DEF Messages
<1> HIDE DEF t, n
<1>5. ASSUME Ends(f) PROVE Message(t, n+1) = m
  <2>1. Carries(f)
    BY <1>5 DEF Ends
  <2>2. t[Opening(t, n+1)].op = first.op
    BY <2>1, <1>1, <1>3
  <2>3. QED
    BY <2>1, <2>2, <1>3 DEF Message
<1>6. ASSUME NEW e \in 1..n, Ends(s[e]) PROVE Message(t, e) = Message(s, e)
  <2> DEFINE F == Fragments(s, e)
  <2>1. e \in F
    <3>1. e \in 1..e /\ e..e-1 = {} /\ Carries(s[e])
      BY <1>1, <1>6 DEF Ends
    <3>2. QED
      BY <3>1 DEF Fragments
  <2>2. F \in SUBSET (1..n) /\ F \in SUBSET Nat /\ F # {}
    BY <2>1, <1>1, <1>2
  <2> HIDE DEF F
  <2>3. PICK k \in F : \A j \in F : k <= j
    BY <2>2, LeastNat
  <2>4. Least(F) \in F
    BY <2>3 DEF Least
  <2>5. Opening(s, e) \in 1..n
    BY <2>2, <2>4, OpeningIsLeast DEF F
  <2>6. t[Opening(t, e)].op = s[Opening(s, e)].op
    BY <2>5, <1>1, <1>3
  <2>7. Payload(t, Fragments(t, e)) = Payload(s, Fragments(s, e))
    BY <1>2, <1>3
  <2>8. QED
    BY <2>6, <2>7 DEF Message
<1>7. << >> \in Seq(V)
  BY EmptySeq
<1>8. ASSUME NEW e \in 1..n PROVE p[e] \in Seq(V) /\ q[e] = p[e]
  <2>1. e \in DOMAIN s /\ e \in DOMAIN t /\ t[e] = s[e] /\ e \in 1..n+1
    BY <1>1
  <2>2. p[e] = IF Ends(s[e]) THEN <<Message(s, e)>> ELSE << >>
    BY <2>1
  <2>3. q[e] = IF Ends(s[e]) THEN <<Message(t, e)>> ELSE << >>
    BY <2>1
  <2>4. Message(t, e) \in V
    BY <2>1
  <2>5. CASE Ends(s[e])
    <3>1. Message(t, e) = Message(s, e)
      BY <2>5, <1>6
    <3>2. <<Message(t, e)>> \in Seq(V)
      BY <2>4
    <3>3. QED
      BY <2>2, <2>3, <2>5, <3>1, <3>2
  <2>6. CASE ~Ends(s[e])
    BY <2>2, <2>3, <2>6, <1>7
  <2>7. QED
    BY <2>5, <2>6
<1>9. /\ q[n+1] = IF Ends(f) THEN <<Message(t, n+1)>> ELSE << >>
      /\ q[n+1] \in Seq(V)
  <2>1. n + 1 \in DOMAIN t /\ n + 1 \in 1..n+1
    BY <1>1
  <2>2. q[n+1] = IF Ends(f) THEN <<Message(t, n+1)>> ELSE << >>
    BY <2>1, <1>1
  <2>3. Message(t, n+1) \in V
    BY <2>1
  <2>4. <<Message(t, n+1)>> \in Seq(V)
    BY <2>3
  <2>5. QED
    BY <2>2, <2>4, <1>7
<1>10. p \in [1..n -> Seq(V)] /\ q \in [1..n+1 -> Seq(V)]
  <2>1. \A i \in 1..n+1 : i \in 1..n \/ i = n+1
    BY <1>1
  <2>2. \A i \in 1..n+1 : q[i] \in Seq(V)
    BY <2>1, <1>8, <1>9
  <2>3. DOMAIN q = 1..n+1 /\ q = [i \in DOMAIN q |-> q[i]]
    BY <1>1
  <2>4. DOMAIN p = 1..n /\ p = [i \in DOMAIN p |-> p[i]]
    BY <1>1
  <2> HIDE DEF p, q, V
  <2>5. QED
    BY <1>8, <2>2, <2>3, <2>4
<1> HIDE DEF p, q, V, m
<1>11. FlattenSeq(p) \in Seq(V) /\ FlattenSeq(q) = FlattenSeq(p) \o q[n+1]
  <2>1. \A i \in 1..n : q[i] = p[i]
    BY <1>8
  <2>2. QED
    BY <2>1, <1>1, <1>10, PartsMore
<1>12. ~Ends(f) => Messages(t) = Messages(s)
  <2>1. FlattenSeq(p) \o << >> = FlattenSeq(p)
    BY <1>11, ConcatEmptySeq
  <2>2. QED
    BY <2>1, <1>4, <1>9, <1>11
<1>13. Ends(f) => Messages(t) = Append(Messages(s), m)
  <2>1. ASSUME Ends(f) PROVE Messages(t) = Append(Messages(s), m)
    <3>1. Message(t, n+1) = m
      BY <2>1, <1>5
    <3>2. q[n+1] = <<m>>
      BY <2>1, <3>1, <1>9
    <3>3. FlattenSeq(p) \o <<m>> = Append(FlattenSeq(p), m)
      BY <1>11
    <3>4. QED
      BY <3>2, <3>3, <1>4, <1>11
  <2>2. QED
    BY <2>1
<1>14. QED
  BY <1>12, <1>13 DEF t, n, m

\* The pongs that frames call for, with one frame more.
LEMMA PongsMore ==
  ASSUME NEW s \in Seq(Frame), NEW f \in Frame
  PROVE  /\ f.op # "ping" => Pongs(Append(s, f)) = Pongs(s)
         /\ f.op = "ping" => Pongs(Append(s, f)) = Append(Pongs(s), Units(f, Len(s)+1))
<1> DEFINE t == Append(s, f)
<1> DEFINE n == Len(s)
<1> DEFINE V == Seq(Nat)
<1> DEFINE p == [i \in DOMAIN s |-> IF s[i].op = "ping" THEN <<Units(s[i], i)>> ELSE << >>]
<1> DEFINE q == [i \in DOMAIN t |-> IF t[i].op = "ping" THEN <<Units(t[i], i)>> ELSE << >>]
<1>1. /\ n \in Nat /\ DOMAIN s = 1..n /\ DOMAIN t = 1..n+1
      /\ \A i \in 1..n : t[i] = s[i] /\ s[i] \in Frame
      /\ t[n+1] = f
  BY FrameMore
<1>4. Pongs(s) = FlattenSeq(p) /\ Pongs(t) = FlattenSeq(q)
  BY DEF Pongs
<1> HIDE DEF t, n
<1>7. << >> \in Seq(V)
  BY EmptySeq
<1>8. ASSUME NEW e \in 1..n PROVE p[e] \in Seq(V) /\ q[e] = p[e]
  <2>1. e \in DOMAIN s /\ e \in DOMAIN t /\ t[e] = s[e] /\ s[e] \in Frame /\ e \in Nat
    BY <1>1
  <2>2. p[e] = IF s[e].op = "ping" THEN <<Units(s[e], e)>> ELSE << >>
    BY <2>1
  <2>3. q[e] = IF s[e].op = "ping" THEN <<Units(s[e], e)>> ELSE << >>
    BY <2>1
  <2>4. Units(s[e], e) \in V
    BY <2>1, UnitsFacts
  <2>5. <<Units(s[e], e)>> \in Seq(V)
    BY <2>4
  <2>6. QED
    BY <2>2, <2>3, <2>5, <1>7
<1>9. /\ q[n+1] = IF f.op = "ping" THEN <<Units(f, n+1)>> ELSE << >>
      /\ q[n+1] \in Seq(V)
  <2>1. n + 1 \in DOMAIN t /\ n + 1 \in Nat
    BY <1>1
  <2>2. q[n+1] = IF f.op = "ping" THEN <<Units(f, n+1)>> ELSE << >>
    BY <2>1, <1>1
  <2>3. Units(f, n+1) \in V
    BY <2>1, UnitsFacts
  <2>4. <<Units(f, n+1)>> \in Seq(V)
    BY <2>3
  <2>5. QED
    BY <2>2, <2>4, <1>7
<1>10. p \in [1..n -> Seq(V)] /\ q \in [1..n+1 -> Seq(V)]
  <2>1. \A i \in 1..n+1 : i \in 1..n \/ i = n+1
    BY <1>1
  <2>2. \A i \in 1..n+1 : q[i] \in Seq(V)
    BY <2>1, <1>8, <1>9
  <2>3. DOMAIN q = 1..n+1 /\ q = [i \in DOMAIN q |-> q[i]]
    BY <1>1
  <2>4. DOMAIN p = 1..n /\ p = [i \in DOMAIN p |-> p[i]]
    BY <1>1
  <2> HIDE DEF p, q, V
  <2>5. QED
    BY <1>8, <2>2, <2>3, <2>4
<1> HIDE DEF p, q, V
<1>11. FlattenSeq(p) \in Seq(V) /\ FlattenSeq(q) = FlattenSeq(p) \o q[n+1]
  <2>1. \A i \in 1..n : q[i] = p[i]
    BY <1>8
  <2>2. QED
    BY <2>1, <1>1, <1>10, PartsMore
<1>12. f.op # "ping" => Pongs(t) = Pongs(s)
  <2>1. FlattenSeq(p) \o << >> = FlattenSeq(p)
    BY <1>11, ConcatEmptySeq
  <2>2. QED
    BY <2>1, <1>4, <1>9, <1>11
<1>13. f.op = "ping" => Pongs(t) = Append(Pongs(s), Units(f, n+1))
  <2>1. FlattenSeq(p) \o <<Units(f, n+1)>> = Append(FlattenSeq(p), Units(f, n+1))
    BY <1>11
  <2>2. QED
    BY <2>1, <1>4, <1>9, <1>11
<1>14. QED
  BY <1>12, <1>13 DEF t, n

-----------------------------------------------------------------------------
(***************************************************************************)
(* Frames: the messages heard are those that the frames mean.              *)
(***************************************************************************)

\* What the fields of the unfinished message hold after the frames s.
Standing(s) ==
  IF Unfinished(s) = {} THEN NoFragment
  ELSE [active |-> TRUE, op |-> s[Least(Unfinished(s))].op, payload |-> Payload(s, Unfinished(s))]

\* FramesExact, of the frames s.
Bad(s)   == Len(s) > 0 /\ Verdict(s, Len(s)) # "none"
Legal(s) == IF Bad(s) THEN Front(s) ELSE s
Exact(s, h, p, c, u) ==
  /\ \A i \in DOMAIN Legal(s) : Verdict(Legal(s), i) = "none"
  /\ h = Messages(Legal(s)) /\ p = Pongs(Legal(s))
  /\ c = IF Bad(s) THEN Verdict(s, Len(s)) ELSE "none"
  /\ Bad(s) => ~u

\* The inductive invariant.
FramesInv ==
  /\ consumed \in Seq(Frame) /\ buffered \in Seq(Frame) /\ up \in BOOLEAN
  /\ Exact(consumed, heard, pongs, code, up)
  /\ up => fragment = Standing(consumed)

\* While the connection is alive no frame broke the protocol.
LEMMA ExactAlive ==
  ASSUME NEW s \in Seq(Frame), NEW h, NEW p, NEW c, NEW u, ~Bad(s), Exact(s, h, p, c, u)
  PROVE  /\ \A i \in 1..Len(s) : Verdict(s, i) = "none"
         /\ h = Messages(s) /\ p = Pongs(s) /\ c = "none"
<1>1. ~Bad(s)
  OBVIOUS
<1>2. Legal(s) = s /\ DOMAIN s = 1..Len(s)
  BY <1>1, LenProperties DEF Legal
<1>3. QED
  BY <1>1, <1>2 DEF Exact

\* A frame that is taken.
LEMMA ExactTaken ==
  ASSUME NEW s \in Seq(Frame), NEW f \in Frame, NEW u,
         \A i \in 1..Len(s) : Verdict(s, i) = "none",
         Verdict(Append(s, f), Len(s)+1) = "none"
  PROVE  Exact(Append(s, f), Messages(Append(s, f)), Pongs(Append(s, f)), "none", u)
<1> DEFINE t == Append(s, f)
<1> DEFINE n == Len(s)
<1>1. Len(t) = n + 1 /\ n \in Nat /\ DOMAIN t = 1..n+1
  BY FrameMore
<1>2. \A i \in 1..n : Verdict(t, i) = Verdict(s, i)
  BY VerdictsMore
<1>3. Verdict(t, n+1) = "none" /\ \A i \in 1..n : Verdict(s, i) = "none"
  OBVIOUS
<1> HIDE DEF t, n
<1>4. ~Bad(t)
  BY <1>1, <1>3 DEF Bad
<1>5. Legal(t) = t
  BY <1>4 DEF Legal
<1>6. ASSUME NEW i \in 1..n+1 PROVE Verdict(t, i) = "none"
  <2>1. i \in 1..n \/ i = n + 1
    BY <1>1
  <2>2. QED
    BY <2>1, <1>2, <1>3
<1>7. Exact(t, Messages(t), Pongs(t), "none", u)
  BY <1>1, <1>4, <1>5, <1>6 DEF Exact
<1>8. QED
  BY <1>7 DEF t

\* A frame that ends the connection.
LEMMA ExactRefused ==
  ASSUME NEW s \in Seq(Frame), NEW f \in Frame, NEW c,
         \A i \in 1..Len(s) : Verdict(s, i) = "none",
         Verdict(Append(s, f), Len(s)+1) = c, c # "none"
  PROVE  Exact(Append(s, f), Messages(s), Pongs(s), c, FALSE)
<1> DEFINE t == Append(s, f)
<1> DEFINE n == Len(s)
<1>1. Len(t) = n + 1 /\ n \in Nat /\ DOMAIN s = 1..n /\ Front(t) = s
  BY FrameMore
<1>3. Verdict(t, n+1) = c /\ c # "none" /\ \A i \in 1..n : Verdict(s, i) = "none"
  OBVIOUS
<1> HIDE DEF t, n
<1>4. Bad(t) /\ Verdict(t, Len(t)) = c
  BY <1>1, <1>3 DEF Bad
<1>5. Legal(t) = s
  BY <1>1, <1>4 DEF Legal
<1>7. Exact(t, Messages(s), Pongs(s), c, FALSE)
  BY <1>1, <1>3, <1>4, <1>5 DEF Exact
<1>8. QED
  BY <1>7 DEF t

\* The unfinished message, with one frame more.
LEMMA StandingMore ==
  ASSUME NEW s \in Seq(Frame), NEW f \in Frame
  PROVE  LET t == Append(s, f)
             n == Len(s)
             began == s[Least(Unfinished(s))].op
         IN
         /\ ~Carries(f) => Standing(t) = Standing(s)
         /\ Ends(f) => Standing(t) = NoFragment
         /\ Carries(f) /\ ~Ends(f) /\ Unfinished(s) = {} =>
              Standing(t) = [active |-> TRUE, op |-> f.op, payload |-> Units(f, n+1)]
         /\ Carries(f) /\ ~Ends(f) /\ Unfinished(s) # {} =>
              Standing(t) = [active |-> TRUE, op |-> began,
                             payload |-> Payload(s, Unfinished(s)) \o Units(f, n+1)]
<1> DEFINE t == Append(s, f)
<1> DEFINE n == Len(s)
<1> DEFINE began == s[Least(Unfinished(s))].op
<1>1. n \in Nat /\ (\A i \in 1..n : t[i] = s[i]) /\ t[n+1] = f
  BY FrameMore
<1>2. /\ Unfinished(s) \in SUBSET (1..n)
      /\ Carries(f) => Fragments(t, n+1) = Unfinished(s) \cup {n+1}
      /\ Ends(f) => Unfinished(t) = {}
      /\ Carries(f) /\ ~Ends(f) => Unfinished(t) = Unfinished(s) \cup {n+1}
      /\ ~Carries(f) => Unfinished(t) = Unfinished(s)
  BY FragmentsMore
<1>3. /\ \A P \in SUBSET (1..n) : Payload(t, P) = Payload(s, P)
      /\ Unfinished(s) # {} => Least(Unfinished(s)) \in 1..n
      /\ Carries(f) => Payload(t, Fragments(t, n+1)) = Payload(s, Unfinished(s)) \o Units(f, n+1)
  BY CarriedMore
<1>4. Units(f, n+1) \in Seq(Nat)
  <2>1. n + 1 \in Nat
    BY <1>1
  <2>2. QED
    BY <2>1, UnitsFacts
<1>5. Payload(s, {}) = << >>
  BY PayloadOfNone
<1> HIDE DEF t, n
<1>6. ASSUME ~Carries(f) PROVE Standing(t) = Standing(s)
  <2>1. Unfinished(t) = Unfinished(s) /\ Payload(t, Unfinished(s)) = Payload(s, Unfinished(s))
    BY <1>2, <1>3, <1>6
  <2>2. Unfinished(s) # {} => t[Least(Unfinished(s))] = s[Least(Unfinished(s))]
    BY <1>1, <1>3
  <2>3. QED
    BY <2>1, <2>2 DEF Standing
<1>7. ASSUME Ends(f) PROVE Standing(t) = NoFragment
  BY <1>2, <1>7 DEF Standing
<1>8. ASSUME Carries(f), ~Ends(f), Unfinished(s) = {}
      PROVE  Standing(t) = [active |-> TRUE, op |-> f.op, payload |-> Units(f, n+1)]
  <2>1. Unfinished(t) = {n+1} /\ Fragments(t, n+1) = {n+1}
    BY <1>2, <1>8
  <2>2. Least({n+1}) = n + 1
    BY <1>1, <1>2, LeastIs
  <2>3. Payload(t, {n+1}) = Units(f, n+1)
    <3>1. Payload(t, {n+1}) = << >> \o Units(f, n+1)
      BY <2>1, <1>3, <1>5, <1>8
    <3>2. QED
      BY <3>1, <1>4, ConcatEmptySeq
  <2>4. t[Least(Unfinished(t))] = f
    BY <2>1, <2>2, <1>1
  <2>5. QED
    BY <2>1, <2>3, <2>4 DEF Standing
<1>9. ASSUME Carries(f), ~Ends(f), Unfinished(s) # {}
      PROVE  Standing(t) = [active |-> TRUE, op |-> began,
                            payload |-> Payload(s, Unfinished(s)) \o Units(f, n+1)]
  <2>1. Unfinished(t) = Unfinished(s) \cup {n+1} /\ Fragments(t, n+1) = Unfinished(t)
    BY <1>2, <1>9
  <2>2. Least(Unfinished(t)) = Least(Unfinished(s))
    BY <2>1, <1>1, <1>2, <1>9, LeastIs
  <2>3. Payload(t, Unfinished(t)) = Payload(s, Unfinished(s)) \o Units(f, n+1)
    BY <2>1, <1>3, <1>9
  <2>4. t[Least(Unfinished(t))].op = began
    BY <2>2, <1>1, <1>3, <1>9
  <2>5. Unfinished(t) # {}
    BY <2>1
  <2> HIDE DEF began
  <2>6. QED
    BY <2>3, <2>4, <2>5 DEF Standing
<1>10. QED
  BY <1>6, <1>7, <1>8, <1>9 DEF t, n

-----------------------------------------------------------------------------
\* Frames arrive.
LEMMA ReadFramesStep ==
  ASSUME FramesInv, ReadFrames PROVE FramesInv'
<1>1. PICK n \in 1..Burst : buffered' \in [1..n -> Frame]
  BY DEF ReadFrames
<1>2. n \in Nat
  BY <1>1, FramesAssumption
<1>3. buffered' \in Seq(Frame)
  BY <1>1, <1>2
<1>4. /\ consumed' = consumed /\ up' = up /\ heard' = heard /\ pongs' = pongs /\ code' = code
      /\ fragment' = fragment
  BY DEF ReadFrames
<1>5. QED
  BY <1>3, <1>4 DEF FramesInv

\* The connection is dropped between two frames.
LEMMA DroppedStep ==
  ASSUME FramesInv, StreamEnds \/ Oversized PROVE FramesInv'
<1>1. /\ consumed' = consumed /\ up' = FALSE /\ heard' = heard /\ pongs' = pongs /\ code' = code
      /\ buffered' \in {buffered, << >>}
  BY DEF StreamEnds, Oversized
<1>2. << >> \in Seq(Frame)
  BY EmptySeq
<1>3. consumed \in Seq(Frame) /\ buffered' \in Seq(Frame)
  BY <1>1, <1>2 DEF FramesInv
<1>4. Exact(consumed, heard, pongs, code, FALSE)
  BY DEF FramesInv, Exact
<1>5. Exact(consumed, heard, pongs, code, up)'
  BY <1>1, <1>4
<1>6. QED
  BY <1>1, <1>3, <1>5 DEF FramesInv

\* What is known when a frame is taken, and what is to be shown.
LEMMA FrameTaken ==
  ASSUME FramesInv, ProcessFrame
  PROVE  /\ consumed \in Seq(Frame) /\ Head(buffered) \in Frame
         /\ \A i \in 1..Len(consumed) : Verdict(consumed, i) = "none"
         /\ heard = Messages(consumed) /\ pongs = Pongs(consumed) /\ code = "none"
         /\ fragment = Standing(consumed) /\ up = TRUE
         /\ consumed' = Append(consumed, Head(buffered)) /\ consumed' \in Seq(Frame)
         /\ buffered' \in Seq(Frame)
<1>1. /\ consumed \in Seq(Frame) /\ buffered \in Seq(Frame) /\ up \in BOOLEAN
      /\ Exact(consumed, heard, pongs, code, up)
      /\ up => fragment = Standing(consumed)
  BY DEF FramesInv
<1>2. /\ up /\ buffered # << >>
      /\ consumed' = Append(consumed, Head(buffered))
      /\ buffered' = IF up' THEN Tail(buffered) ELSE << >>
  BY DEF ProcessFrame
<1>3. up = TRUE
  BY <1>1, <1>2
<1>5. /\ \A i \in 1..Len(consumed) : Verdict(consumed, i) = "none"
      /\ heard = Messages(consumed) /\ pongs = Pongs(consumed) /\ code = "none"
  <2>1. ~Bad(consumed)
    BY <1>1, <1>2 DEF Exact
  <2>2. QED
    BY <2>1, <1>1, ExactAlive
<1>6. Head(buffered) \in Frame /\ Tail(buffered) \in Seq(Frame)
  BY <1>1, <1>2, HeadTailProperties
<1>7. << >> \in Seq(Frame)
  BY EmptySeq
<1>8. buffered' \in Seq(Frame)
  BY <1>2, <1>6, <1>7
<1>9. consumed' \in Seq(Frame)
  BY <1>1, <1>2, <1>6, AppendProperties
<1>10. QED
  BY <1>1, <1>2, <1>3, <1>5, <1>6, <1>8, <1>9

\* A frame that is refused: its verdict is what the closing frame says.
LEMMA RefusedStep ==
  ASSUME FramesInv, ProcessFrame, NEW why, why # "none", Refuse(why),
         Verdict(Append(consumed, Head(buffered)), Len(consumed)+1) = why
  PROVE  FramesInv'
<1>1. /\ consumed \in Seq(Frame) /\ Head(buffered) \in Frame
      /\ \A i \in 1..Len(consumed) : Verdict(consumed, i) = "none"
      /\ heard = Messages(consumed) /\ pongs = Pongs(consumed)
      /\ consumed' = Append(consumed, Head(buffered)) /\ consumed' \in Seq(Frame)
      /\ buffered' \in Seq(Frame)
  BY FrameTaken
<1>2. code' = why /\ up' = FALSE /\ heard' = heard /\ pongs' = pongs
  BY DEF Refuse
<1>3. Exact(Append(consumed, Head(buffered)), Messages(consumed), Pongs(consumed), why, FALSE)
  BY <1>1, ExactRefused
<1>4. Exact(consumed, heard, pongs, code, up)'
  BY <1>1, <1>2, <1>3
<1>5. QED
  BY <1>1, <1>2, <1>4 DEF FramesInv

\* A frame that is not: what is heard and sent back is what it means.
LEMMA TakenStep ==
  ASSUME FramesInv, ProcessFrame, NEW t, t = Append(consumed, Head(buffered)),
         Verdict(t, Len(consumed)+1) = "none",
         heard' = Messages(t), pongs' = Pongs(t), code' = code, up' \in BOOLEAN,
         fragment' = Standing(t)
  PROVE  FramesInv'
<1>1. /\ consumed \in Seq(Frame) /\ Head(buffered) \in Frame /\ code = "none"
      /\ \A i \in 1..Len(consumed) : Verdict(consumed, i) = "none"
      /\ consumed' = Append(consumed, Head(buffered)) /\ consumed' \in Seq(Frame)
      /\ buffered' \in Seq(Frame)
  BY FrameTaken
<1>2. Exact(t, Messages(t), Pongs(t), "none", up')
  BY <1>1, ExactTaken
<1>3. Exact(consumed, heard, pongs, code, up)'
  BY <1>1, <1>2
<1>4. QED
  BY <1>1, <1>3 DEF FramesInv

\* A ping, a pong or a close: none of a message, even between its fragments.
LEMMA ControlStep ==
  ASSUME FramesInv, ProcessFrame, NEW f, f = Head(buffered), f.op \in Control,
         ControlFrame(f, Units(f, Len(consumed)+1))
  PROVE  FramesInv'
<1> DEFINE t == Append(consumed, f)
<1> DEFINE n == Len(consumed)
<1>1. /\ consumed \in Seq(Frame) /\ f \in Frame
      /\ heard = Messages(consumed) /\ pongs = Pongs(consumed)
      /\ fragment = Standing(consumed) /\ up = TRUE
  BY FrameTaken
<1>2. f.op \in Control => Verdict(t, n+1) = IF ~f.fin THEN "protocol error"
                                            ELSE IF f.op = "close" THEN "close" ELSE "none"
  BY <1>1, VerdictsMore
<1>3. ~Carries(f) /\ ~Ends(f)
  BY DEF Carries, Ends
<1>4. Messages(t) = Messages(consumed)
  BY <1>1, <1>3, MessagesMore
<1>5. Standing(t) = Standing(consumed)
  BY <1>1, <1>3, StandingMore
<1>6. /\ f.op # "ping" => Pongs(t) = Pongs(consumed)
      /\ f.op = "ping" => Pongs(t) = Append(Pongs(consumed), Units(f, n+1))
  BY <1>1, PongsMore
<1> HIDE DEF t, n
<1>7. CASE ~f.fin
  <2>1. Refuse("protocol error") /\ Verdict(t, n+1) = "protocol error"
    BY <1>2, <1>7 DEF ControlFrame
  <2>2. QED
    BY <2>1, RefusedStep DEF t, n
<1>8. CASE f.fin /\ f.op = "close"
  <2>1. Refuse("close") /\ Verdict(t, n+1) = "close"
    BY <1>2, <1>8 DEF ControlFrame
  <2>2. QED
    BY <2>1, RefusedStep DEF t, n
<1>9. CASE f.fin /\ f.op # "close"
  <2>1. Verdict(t, n+1) = "none"
    BY <1>2, <1>9
  <2>2. /\ pongs' = IF f.op = "ping" THEN Append(pongs, Units(f, n+1)) ELSE pongs
        /\ up' = up /\ fragment' = fragment /\ heard' = heard /\ code' = code
    BY <1>9 DEF ControlFrame, n
  <2>3. pongs' = Pongs(t) /\ heard' = Messages(t) /\ fragment' = Standing(t) /\ up' \in BOOLEAN
    BY <2>2, <1>1, <1>4, <1>5, <1>6
  <2>4. QED
    BY <2>1, <2>2, <2>3, TakenStep DEF t, n
<1>10. QED
  BY <1>7, <1>8, <1>9

\* A frame that begins a message, or is the whole of it.
LEMMA FirstFrameStep ==
  ASSUME FramesInv, ProcessFrame, NEW f, f = Head(buffered), f.op \in Data,
         FirstFrame(f, Units(f, Len(consumed)+1))
  PROVE  FramesInv'
<1> DEFINE t == Append(consumed, f)
<1> DEFINE n == Len(consumed)
<1>1. /\ consumed \in Seq(Frame) /\ f \in Frame
      /\ heard = Messages(consumed) /\ pongs = Pongs(consumed)
      /\ fragment = Standing(consumed) /\ up = TRUE
  BY FrameTaken
<1>2. f.op \in Data => Verdict(t, n+1) = IF Unfinished(consumed) = {} THEN "none" ELSE "protocol error"
  BY <1>1, VerdictsMore
<1>3. Carries(f) /\ (Ends(f) <=> f.fin) /\ f.op # "ping"
  BY DEF Carries, Ends, Data, Control
<1>4. /\ ~Ends(f) => Messages(t) = Messages(consumed)
      /\ Ends(f) =>
           Messages(t) = Append(Messages(consumed),
             [op |-> (IF Unfinished(consumed) = {} THEN f ELSE consumed[Least(Unfinished(consumed))]).op,
              payload |-> Payload(consumed, Unfinished(consumed)) \o Units(f, n+1)])
  BY <1>1, MessagesMore
<1>5. /\ Ends(f) => Standing(t) = NoFragment
      /\ Carries(f) /\ ~Ends(f) /\ Unfinished(consumed) = {} =>
           Standing(t) = [active |-> TRUE, op |-> f.op, payload |-> Units(f, n+1)]
  BY <1>1, StandingMore
<1>6. Pongs(t) = Pongs(consumed)
  BY <1>1, <1>3, PongsMore
<1>7. Payload(consumed, {}) \o Units(f, n+1) = Units(f, n+1)
  <2>1. n + 1 \in Nat
    BY <1>1, FrameMore
  <2>2. Units(f, n+1) \in Seq(Nat)
    BY <2>1, <1>1, UnitsFacts
  <2>3. Payload(consumed, {}) = << >>
    BY <1>1, PayloadOfNone
  <2>4. QED
    BY <2>2, <2>3, ConcatEmptySeq
<1> HIDE DEF t, n
<1>8. CASE Unfinished(consumed) # {}
  <2>1. fragment.active
    BY <1>1, <1>8 DEF Standing
  <2>2. Refuse("protocol error") /\ Verdict(t, n+1) = "protocol error"
    BY <2>1, <1>2, <1>8 DEF FirstFrame
  <2>3. QED
    BY <2>2, RefusedStep DEF t, n
<1>9. CASE Unfinished(consumed) = {}
  <2>1. fragment = NoFragment /\ ~fragment.active /\ Verdict(t, n+1) = "none"
    BY <1>1, <1>2, <1>9 DEF Standing, NoFragment
  <2>2. CASE f.fin
    <3>1. /\ heard' = Append(heard, [op |-> f.op, payload |-> Units(f, n+1)]) /\ up' \in BOOLEAN
          /\ pongs' = pongs /\ code' = code /\ fragment' = fragment
      BY <2>1, <2>2 DEF FirstFrame, Hear, n
    <3>2. Messages(t) = Append(Messages(consumed), [op |-> f.op, payload |-> Units(f, n+1)])
      BY <2>2, <1>3, <1>4, <1>7, <1>9
    <3>3. pongs' = Pongs(t) /\ heard' = Messages(t) /\ fragment' = Standing(t)
      BY <3>1, <3>2, <2>1, <2>2, <1>1, <1>3, <1>5, <1>6
    <3>4. QED
      BY <3>1, <3>3, <2>1, TakenStep DEF t, n
  <2>3. CASE ~f.fin
    <3>1. /\ fragment' = [active |-> TRUE, op |-> f.op, payload |-> Units(f, n+1)]
          /\ up' = up /\ heard' = heard /\ pongs' = pongs /\ code' = code
      BY <2>1, <2>3 DEF FirstFrame, n
    <3>2. /\ pongs' = Pongs(t) /\ heard' = Messages(t) /\ fragment' = Standing(t)
          /\ up' \in BOOLEAN
      BY <3>1, <2>3, <1>1, <1>3, <1>4, <1>5, <1>6, <1>9
    <3>3. QED
      BY <3>1, <3>2, <2>1, TakenStep DEF t, n
  <2>4. QED
    BY <2>2, <2>3
<1>10. QED
  BY <1>8, <1>9

\* A frame that continues a message.
LEMMA ContinuationStep ==
  ASSUME FramesInv, ProcessFrame, NEW f, f = Head(buffered), f.op = "continuation",
         Continuation(f, Units(f, Len(consumed)+1))
  PROVE  FramesInv'
<1> DEFINE t == Append(consumed, f)
<1> DEFINE n == Len(consumed)
<1> DEFINE P == Payload(consumed, Unfinished(consumed))
<1> DEFINE U == Units(f, n+1)
<1> DEFINE began == consumed[Least(Unfinished(consumed))].op
<1>1. /\ consumed \in Seq(Frame) /\ f \in Frame
      /\ heard = Messages(consumed) /\ pongs = Pongs(consumed)
      /\ fragment = Standing(consumed) /\ up = TRUE
  BY FrameTaken
<1>2. f.op = "continuation" =>
        Verdict(t, n+1) = IF Unfinished(consumed) = {} THEN "protocol error"
                          ELSE IF Len(P \o U) > Limit THEN "too big" ELSE "none"
  BY <1>1, VerdictsMore
<1>3. Carries(f) /\ (Ends(f) <=> f.fin) /\ f.op # "ping"
  BY DEF Carries, Ends, Control
<1>4. /\ ~Ends(f) => Messages(t) = Messages(consumed)
      /\ Ends(f) =>
           Messages(t) = Append(Messages(consumed),
             [op |-> (IF Unfinished(consumed) = {} THEN f ELSE consumed[Least(Unfinished(consumed))]).op,
              payload |-> P \o U])
  BY <1>1, MessagesMore
<1>5. /\ Ends(f) => Standing(t) = NoFragment
      /\ Carries(f) /\ ~Ends(f) /\ Unfinished(consumed) # {} =>
           Standing(t) = [active |-> TRUE, op |-> began, payload |-> P \o U]
  BY <1>1, StandingMore
<1>6. Pongs(t) = Pongs(consumed)
  BY <1>1, <1>3, PongsMore
<1>7. P \in Seq(Nat) /\ U \in Seq(Nat)
  <2>1. n + 1 \in Nat
    BY <1>1, FrameMore
  <2>2. QED
    BY <2>1, <1>1, UnitsFacts, PayloadMore
<1>8. Len(P \o U) = Len(P) + Len(U) /\ Len(P) \in Nat /\ Len(U) \in Nat /\ Limit \in Nat
  BY <1>7, FramesAssumption, LenProperties, ConcatProperties
<1>9. Continuation(f, U)
  OBVIOUS
<1> HIDE DEF t, n, P, U
<1>10. CASE Unfinished(consumed) = {}
  <2>1. ~fragment.active
    BY <1>1, <1>10 DEF Standing, NoFragment
  <2>2. Refuse("protocol error") /\ Verdict(t, n+1) = "protocol error"
    BY <2>1, <1>2, <1>9, <1>10 DEF Continuation
  <2>3. QED
    BY <2>2, RefusedStep DEF t, n
<1>11. CASE Unfinished(consumed) # {}
  <2>1. fragment = [active |-> TRUE, op |-> began, payload |-> P]
    BY <1>1, <1>11 DEF Standing, P
  <2> HIDE DEF began
  <2>2. fragment.active /\ fragment.op = began /\ fragment.payload = P
    BY <2>1
  <2>3. CASE Len(P \o U) > Limit
    <3>1. ~Fits(U)
      BY <2>2, <2>3, <1>8 DEF Fits
    <3>2. Refuse("too big") /\ Verdict(t, n+1) = "too big"
      BY <3>1, <2>2, <2>3, <1>2, <1>9, <1>11 DEF Continuation
    <3>3. QED
      BY <3>2, RefusedStep DEF t, n
  <2>4. CASE ~(Len(P \o U) > Limit)
    <3>1. Fits(U)
      BY <2>2, <2>4, <1>8 DEF Fits
    <3>2. Verdict(t, n+1) = "none"
      BY <2>4, <1>2, <1>11
    <3>3. CASE f.fin
      <4>1. Hear(fragment.op, fragment.payload \o U) /\ fragment' = NoFragment
        BY <3>1, <3>3, <2>2, <1>9 DEF Continuation
      <4>2. /\ heard' = Append(heard, [op |-> began, payload |-> P \o U]) /\ up' \in BOOLEAN
            /\ pongs' = pongs /\ code' = code
        BY <4>1, <2>2 DEF Hear
      <4>3. Messages(t) = Append(Messages(consumed), [op |-> began, payload |-> P \o U])
        BY <3>3, <1>3, <1>4, <1>11 DEF began
      <4>4. pongs' = Pongs(t) /\ heard' = Messages(t) /\ fragment' = Standing(t)
        BY <4>1, <4>2, <4>3, <3>3, <1>1, <1>3, <1>5, <1>6
      <4>5. QED
        BY <4>2, <4>4, <3>2, TakenStep DEF t, n
    <3>4. CASE ~f.fin
      <4>1. /\ fragment' = [fragment EXCEPT !.payload = @ \o U]
            /\ up' = up /\ heard' = heard /\ pongs' = pongs /\ code' = code
        BY <3>1, <3>4, <2>2, <1>9 DEF Continuation
      <4>2. fragment' = [active |-> TRUE, op |-> began, payload |-> P \o U]
        BY <4>1, <2>1
      <4>3. /\ pongs' = Pongs(t) /\ heard' = Messages(t) /\ fragment' = Standing(t)
            /\ up' \in BOOLEAN
        BY <4>1, <4>2, <3>4, <1>1, <1>3, <1>4, <1>5, <1>6, <1>11
      <4>4. QED
        BY <4>1, <4>3, <3>2, TakenStep DEF t, n
    <3>5. QED
      BY <3>3, <3>4
  <2>5. QED
    BY <2>3, <2>4
<1>12. QED
  BY <1>10, <1>11

\* A frame of a kind that is not known.
LEMMA ReservedStep ==
  ASSUME FramesInv, ProcessFrame, NEW f, f = Head(buffered), f.op = "reserved",
         Refuse("unsupported")
  PROVE  FramesInv'
<1>1. consumed \in Seq(Frame) /\ f \in Frame
  BY FrameTaken
<1>2. f.op = "reserved" => Verdict(Append(consumed, f), Len(consumed)+1) = "unsupported"
  BY <1>1, VerdictsMore
<1>3. QED
  BY <1>2, RefusedStep

\* A frame of any kind.
LEMMA ProcessFrameStep ==
  ASSUME FramesInv, ProcessFrame PROVE FramesInv'
<1> DEFINE f == Head(buffered)
<1> DEFINE payload == Units(f, Len(consumed)+1)
<1>1. \/ f.op \in Control /\ ControlFrame(f, payload)
      \/ f.op \in Data /\ FirstFrame(f, payload)
      \/ f.op = "continuation" /\ Continuation(f, payload)
      \/ f.op = "reserved" /\ Refuse("unsupported")
  BY DEF ProcessFrame
<1>2. CASE f.op \in Control /\ ControlFrame(f, payload)
  BY <1>2, ControlStep
<1>3. CASE f.op \in Data /\ FirstFrame(f, payload)
  BY <1>3, FirstFrameStep
<1>4. CASE f.op = "continuation" /\ Continuation(f, payload)
  BY <1>4, ContinuationStep
<1>5. CASE f.op = "reserved" /\ Refuse("unsupported")
  BY <1>5, ReservedStep
<1>6. QED
  BY <1>1, <1>2, <1>3, <1>4, <1>5

\* No frame means nothing.
LEMMA FramesStart ==
  ASSUME FramesInit PROVE FramesInv
<1>1. /\ buffered = << >> /\ up = TRUE /\ fragment = NoFragment
      /\ consumed = << >> /\ heard = << >> /\ pongs = << >> /\ code = "none"
  BY DEF FramesInit
<1>2. << >> \in Seq(Frame) /\ Len(<< >>) = 0 /\ DOMAIN << >> = {}
  BY EmptySeq
<1>3. ~Bad(<< >>) /\ Legal(<< >>) = << >>
  BY <1>2 DEF Bad, Legal
<1>4. FlattenSeq(<< >>) = << >>
  BY EmptySeq DEF FlattenSeq
<1>5. Messages(<< >>) = << >>
  <2>1. [e \in DOMAIN << >> |-> IF Ends(<< >>[e]) THEN <<Message(<< >>, e)>> ELSE << >>] = << >>
    OBVIOUS
  <2>2. QED
    BY <2>1, <1>4 DEF Messages
<1>6. Pongs(<< >>) = << >>
  <2>1. [i \in DOMAIN << >> |-> IF << >>[i].op = "ping" THEN <<Units(<< >>[i], i)>> ELSE << >>] = << >>
    OBVIOUS
  <2>2. QED
    BY <2>1, <1>4 DEF Pongs
<1>7. Exact(<< >>, << >>, << >>, "none", TRUE)
  BY <1>2, <1>3, <1>5, <1>6 DEF Exact
<1>8. Standing(<< >>) = NoFragment
  <2>1. Unfinished(<< >>) = {}
    BY <1>2 DEF Unfinished
  <2>2. QED
    BY <2>1 DEF Standing
<1>9. QED
  BY <1>1, <1>2, <1>7, <1>8 DEF FramesInv

\* What on message hears is exactly what the client's frames say, however they are cut into
\* fragments and arrive, and the first frame that breaks the protocol ends the connection
\* (festina_ws_process_one_frame, festina_ws_frag_append).
THEOREM FramesIsExact == FramesSpec => []FramesExact
<1>1. FramesInit => FramesInv
  BY FramesStart
<1>2. FramesInv /\ [FramesNext]_wsVars => FramesInv'
  <2> SUFFICES ASSUME FramesInv, [FramesNext]_wsVars PROVE FramesInv'
    OBVIOUS
  <2>1. CASE ReadFrames
    BY <2>1, ReadFramesStep
  <2>2. CASE StreamEnds
    BY <2>2, DroppedStep
  <2>3. CASE Oversized
    BY <2>3, DroppedStep
  <2>4. CASE ProcessFrame
    BY <2>4, ProcessFrameStep
  <2>5. CASE UNCHANGED wsVars
    BY <2>5 DEF FramesInv, wsVars
  <2>6. QED
    BY <2>1, <2>2, <2>3, <2>4, <2>5 DEF FramesNext
<1>3. FramesInv => FramesExact
  BY DEF FramesInv, Exact, FramesExact, Bad, Legal
<1>4. QED
  BY <1>1, <1>2, <1>3, PTL DEF FramesSpec
=============================================================================
