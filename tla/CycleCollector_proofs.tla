------------------------- MODULE CycleCollector_proofs -------------------------
(***************************************************************************)
(* The counts and the collection of cycles are exact (HeapExact), for any  *)
(* number of nodes, variables and fields: nothing reachable is freed, and  *)
(* after each statement nothing else exists and each count is the number   *)
(* of references.  Reachable is from the variables and from the static     *)
(* storages of the globals, those that their globals have left included.   *)
(* A run ends where the header of a freed node is taken for a white one.   *)
(*                                                                         *)
(* The argument.  The stack of calls is seen as what each traversal has    *)
(* begun: the nodes it is on, the fields it has still to visit (Open) and  *)
(* those it has behind it (Past).  StackInv says which traversals may lie  *)
(* on each other.  Then a count is the number of references it tells of    *)
(* (Counts): those of black nodes, but for the fields black has still to   *)
(* restore, and those of gray nodes that gray has not taken down.  What    *)
(* the program holds, and what any reference that is left points to, is    *)
(* live (Safe).                                                            *)
(*                                                                         *)
(* That a trial misses nothing is reachability, which is stated without    *)
(* paths: a set that has the roots and is closed under the fields that are *)
(* followed has every node in question.  RestPhase has it for all that is  *)
(* allocated, GrayPhase for what only the trial's own node may hold,       *)
(* ScanPhase for what keeps its count or is restored, for what is still to *)
(* be scanned and for what will be freed, and WhitePhase for what is still *)
(* to be freed.  A step gives one such set from another.                   *)
(***************************************************************************)
EXTENDS CycleCollector, SequencesExt, SequenceTheorems, FiniteSetTheorems, TLAPS

-----------------------------------------------------------------------------
(***************************************************************************)
(* The calls in progress.                                                  *)
(***************************************************************************)

VisitType == [op : Ops, node : Node, at : 0..Fields+1]
Slots == Node \X Field

\* The order in which the traversals of a trial lie on each other.
Rank == [gray |-> 1, black |-> 2, scan |-> 3, white |-> 4, release |-> 5]
Orderly(s) ==
  \A i, j \in DOMAIN s : i < j => s[i] # s[j] /\ Rank[s[i].op] <= Rank[s[j].op]

\* Calls that have begun, the topmost if it has not, and those below that have not.
Running  == {c \in ToSet(stack) : c.at > 0}
Starting == {c \in ToSet(stack) : c.at = 0 /\ c = Current}
Waiting  == {c \in ToSet(stack) : c.at = 0 /\ c # Current}
Phase    == IF stack = << >> THEN "release" ELSE Current.op

\* The nodes that calls of a traversal are on, and their fields that are not visited yet,
\* and that are.
On(R, op)    == {n \in Node : \E c \in R : c.op = op /\ c.node = n}
Open(R, op)  == {e \in Slots : \E c \in R : c.op = op /\ c.node = e[1] /\ e[2] >= c.at}
Past(R, op)  == {e \in Slots : \E c \in R : c.op = op /\ c.node = e[1] /\ e[2] < c.at}
Start(S, op) == {n \in Node : Visit(op, n) \in S}

\* The calls that a trial of x has still to make.
Agenda(phase, x) ==
  CASE phase = "gray"             -> {Visit("scan", x), Visit("white", x)}
    [] phase \in {"black", "scan"} -> {Visit("white", x)}
    [] OTHER                       -> {}
Below(phase) ==
  CASE phase = "gray"  -> {"gray", "release"}
    [] phase = "black" -> {"black", "scan", "release"}
    [] phase = "scan"  -> {"scan", "release"}
    [] phase = "white" -> {"white", "release"}
    [] OTHER           -> {"release"}

StackInv ==
  /\ stack \in Seq(VisitType) /\ Orderly(stack)
  /\ \A c, d \in Running : c.op = d.op /\ c.node = d.node => c = d
  /\ \A c \in Running : c.op \in Below(Phase)
  /\ Phase = "release" \/ \E x \in Node : Waiting = Agenda(Phase, x)
  /\ Phase \in {"release", "white"} => Waiting = {}

-----------------------------------------------------------------------------
(***************************************************************************)
(* What steps do to the calls.                                             *)
(***************************************************************************)

\* The five traversals have different ranks.
LEMMA OpsRank ==
  /\ \A op \in Ops : Rank[op] \in 1..5
  /\ Rank["gray"] = 1 /\ Rank["black"] = 2 /\ Rank["scan"] = 3 /\ Rank["white"] = 4 /\ Rank["release"] = 5
BY DEF Ops, Rank

LEMMA FieldIsFinite == Fields \in Nat /\ Field = 1..Fields
BY HeapAssumption DEF Field

\* The members of a sequence.
LEMMA ToSetOf ==
  ASSUME NEW T, NEW s \in Seq(T)
  PROVE  /\ \A i \in 1..Len(s) : s[i] \in ToSet(s)
         /\ \A c \in ToSet(s) : c \in T /\ \E i \in 1..Len(s) : c = s[i]
<1>1. DOMAIN s = 1..Len(s) /\ \A i \in 1..Len(s) : s[i] \in T
  BY LenProperties, ElementOfSeq
<1>2. QED
  BY <1>1 DEF ToSet

\* The topmost call replaced by others that come before it.
LEMMA Replaced ==
  ASSUME NEW s \in Seq(VisitType), s # << >>, Orderly(s),
         NEW u \in Seq(VisitType), Orderly(u),
         \A i \in 1..Len(u) : /\ u[i] \notin ToSet(s) \ {Head(s)}
                              /\ Rank[u[i].op] <= Rank[Head(s).op]
  PROVE  /\ u \o Tail(s) \in Seq(VisitType) /\ Orderly(u \o Tail(s))
         /\ ToSet(u \o Tail(s)) = ToSet(u) \cup (ToSet(s) \ {Head(s)})
<1> DEFINE w == Tail(s)
<1> DEFINE t == u \o w
<1> DEFINE n == Len(s)
<1> DEFINE m == Len(u)
<1>1. n \in Nat \ {0} /\ m \in Nat /\ DOMAIN s = 1..n /\ DOMAIN u = 1..m /\ Head(s) = s[1]
  BY EmptySeq, LenProperties
<1>2. w \in Seq(VisitType) /\ Len(w) = n - 1 /\ \A i \in 1..n-1 : w[i] = s[i+1]
  BY HeadTailProperties, <1>1
<1>3. t \in Seq(VisitType) /\ Len(t) = m + (n - 1) /\ DOMAIN t = 1..m+(n-1)
  BY <1>1, <1>2, ConcatProperties, LenProperties
<1>4. \A i \in 1..m : t[i] = u[i]
  BY <1>1, <1>2, ConcatProperties
<1>5. \A i \in 1..n-1 : t[m+i] = s[i+1]
  <2>1. \A i \in m+1..m+(n-1) : t[i] = w[i - m]
    BY <1>1, <1>2, ConcatProperties
  <2> HIDE DEF t, w
  <2>2. ASSUME NEW i \in 1..n-1 PROVE t[m+i] = s[i+1]
    <3>1. m + i \in m+1..m+(n-1) /\ (m + i) - m = i
      BY <1>1
    <3>2. QED
      BY <2>1, <3>1, <1>2
  <2>3. QED
    BY <2>2
<1> HIDE DEF t, w
<1>6. \A k \in 1..m+(n-1) : k \in 1..m \/ \E i \in 1..n-1 : k = m + i
  <2>1. ASSUME NEW k \in 1..m+(n-1), k \notin 1..m PROVE k - m \in 1..n-1 /\ k = m + (k - m)
    BY <1>1, <2>1
  <2>2. QED
    BY <2>1
<1>7. \A i, j \in 1..n : i < j => s[i] # s[j] /\ Rank[s[i].op] <= Rank[s[j].op]
  BY <1>1 DEF Orderly
<1>8. \A i, j \in 1..m : i < j => u[i] # u[j] /\ Rank[u[i].op] <= Rank[u[j].op]
  BY <1>1 DEF Orderly
<1>9. \A i \in 1..n : s[i] \in VisitType /\ s[i] \in ToSet(s) /\ Rank[s[i].op] \in 1..5
  <2>1. \A i \in 1..n : s[i] \in VisitType /\ s[i] \in ToSet(s)
    BY <1>1, ElementOfSeq, ToSetOf
  <2>2. QED
    BY <2>1, OpsRank DEF VisitType
<1>10. \A i \in 1..m : u[i] \in VisitType /\ u[i] \in ToSet(u) /\ Rank[u[i].op] \in 1..5
  <2>1. \A i \in 1..m : u[i] \in VisitType /\ u[i] \in ToSet(u)
    BY <1>1, ElementOfSeq, ToSetOf
  <2>2. QED
    BY <2>1, OpsRank DEF VisitType
<1>11. \A i \in 1..n-1 : s[i+1] \in ToSet(s) \ {s[1]} /\ Rank[s[1].op] <= Rank[s[i+1].op]
  <2>1. ASSUME NEW i \in 1..n-1 PROVE s[i+1] \in ToSet(s) \ {s[1]} /\ Rank[s[1].op] <= Rank[s[i+1].op]
    <3>1. 1 \in 1..n /\ i + 1 \in 1..n /\ 1 < i + 1
      BY <1>1
    <3>2. QED
      BY <3>1, <1>7, <1>9
  <2>2. QED
    BY <2>1
<1>12. Orderly(t)
  <2>1. SUFFICES ASSUME NEW i \in 1..m+(n-1), NEW j \in 1..m+(n-1), i < j
                 PROVE  t[i] # t[j] /\ Rank[t[i].op] <= Rank[t[j].op]
    BY <1>3 DEF Orderly
  <2>2. CASE j \in 1..m
    <3>1. i \in 1..m
      BY <1>1, <2>1, <2>2
    <3>2. QED
      BY <3>1, <2>1, <2>2, <1>4, <1>8
  <2>3. CASE i \in 1..m /\ j \notin 1..m
    <3>1. PICK b \in 1..n-1 : j = m + b
      BY <2>3, <1>6
    <3>2. t[j] = s[b+1] /\ t[i] = u[i]
      BY <3>1, <2>3, <1>4, <1>5
    <3>3. u[i] \notin ToSet(s) \ {s[1]} /\ Rank[u[i].op] <= Rank[s[1].op]
      BY <1>1, <2>3
    <3>4. b + 1 \in 1..n /\ 1 \in 1..n
      BY <1>1
    <3>5. Rank[u[i].op] \in 1..5 /\ Rank[s[1].op] \in 1..5 /\ Rank[s[b+1].op] \in 1..5
      BY <2>3, <3>4, <1>9, <1>10
    <3>6. s[b+1] \in ToSet(s) \ {s[1]} /\ Rank[s[1].op] <= Rank[s[b+1].op]
      BY <1>11
    <3>7. Rank[u[i].op] <= Rank[s[b+1].op]
      <4> DEFINE x == Rank[u[i].op]
      <4> DEFINE y == Rank[s[1].op]
      <4> DEFINE z == Rank[s[b+1].op]
      <4>1. x \in 1..5 /\ y \in 1..5 /\ z \in 1..5 /\ x <= y /\ y <= z
        BY <3>3, <3>5, <3>6
      <4> HIDE DEF x, y, z
      <4>2. x <= z
        BY <4>1
      <4>3. QED
        BY <4>2 DEF x, z
    <3>8. u[i] # s[b+1]
      BY <3>3, <3>6
    <3>9. QED
      BY <3>2, <3>7, <3>8
  <2>4. CASE i \notin 1..m
    <3>1. j \notin 1..m
      BY <1>1, <2>1, <2>4
    <3>2. PICK a \in 1..n-1 : i = m + a
      BY <2>4, <1>6
    <3>3. PICK b \in 1..n-1 : j = m + b
      BY <3>1, <1>6
    <3>4. a + 1 \in 1..n /\ b + 1 \in 1..n /\ a + 1 < b + 1
      BY <3>2, <3>3, <2>1, <1>1
    <3>5. t[i] = s[a+1] /\ t[j] = s[b+1]
      BY <3>2, <3>3, <1>5
    <3>6. QED
      BY <3>4, <3>5, <1>7
  <2>5. QED
    BY <2>2, <2>3, <2>4
<1>13. ToSet(t) = ToSet(u) \cup (ToSet(s) \ {s[1]})
  <2>1. ASSUME NEW c \in ToSet(t) PROVE c \in ToSet(u) \cup (ToSet(s) \ {s[1]})
    <3>1. PICK k \in 1..m+(n-1) : c = t[k]
      BY <1>3, ToSetOf
    <3>2. CASE k \in 1..m
      BY <3>1, <3>2, <1>4, <1>10
    <3>3. CASE k \notin 1..m
      BY <3>1, <3>3, <1>5, <1>6, <1>11
    <3>4. QED
      BY <3>2, <3>3
  <2>2. ASSUME NEW c \in ToSet(u) PROVE c \in ToSet(t)
    <3>1. PICK k \in 1..m : c = u[k]
      BY ToSetOf
    <3>2. k \in 1..m+(n-1)
      BY <1>1
    <3>3. t[k] \in ToSet(t)
      BY <3>2, <1>3, ToSetOf
    <3>4. QED
      BY <3>1, <3>3, <1>4
  <2>3. ASSUME NEW c \in ToSet(s), c # s[1] PROVE c \in ToSet(t)
    <3>1. PICK k \in 1..n : c = s[k]
      BY ToSetOf
    <3>2. k # 1
      BY <3>1, <2>3
    <3>3. k - 1 \in 1..n-1 /\ (k - 1) + 1 = k /\ m + (k - 1) \in 1..m+(n-1)
      BY <3>2, <1>1
    <3>4. t[m+(k-1)] \in ToSet(t)
      BY <3>3, <1>3, ToSetOf
    <3>5. t[m+(k-1)] = s[k]
      BY <3>3, <1>5
    <3>6. QED
      BY <3>1, <3>4, <3>5
  <2>4. QED
    BY <2>1, <2>2, <2>3
<1>14. QED
  BY <1>1, <1>3, <1>12, <1>13 DEF t, w


\* What a call that begins, visits a field or ends does to the nodes and fields in progress.
LEMMA OnBegin ==
  ASSUME NEW R \in SUBSET VisitType, NEW c \in VisitType, NEW o
  PROVE  On(R \cup {c}, o) = On(R, o) \cup {n \in {c.node} : c.op = o}
<1>1. c.node \in Node
  BY DEF VisitType
<1>2. QED
  BY <1>1 DEF On

\* A call that begins has all fields of its node to visit,
LEMMA OpenBegin ==
  ASSUME NEW R \in SUBSET VisitType, NEW c \in VisitType, c.at = 1, NEW o
  PROVE  Open(R \cup {c}, o) = Open(R, o) \cup {e \in {c.node} \X Field : c.op = o}
<1>1. \A e \in Slots : e[2] >= c.at
  BY FieldIsFinite DEF Slots
<1>2. \A e \in Slots : e[1] = c.node <=> e \in {c.node} \X Field
  BY DEF Slots
<1>3. {c.node} \X Field \subseteq Slots
  BY DEF Slots, VisitType
<1>4. QED
  BY <1>1, <1>2, <1>3 DEF Open

\* and none behind it.
LEMMA PastBegin ==
  ASSUME NEW R \in SUBSET VisitType, NEW c \in VisitType, c.at = 1, NEW o
  PROVE  Past(R \cup {c}, o) = Past(R, o)
<1>1. \A e \in Slots : ~(e[2] < c.at)
  BY FieldIsFinite DEF Slots
<1>2. QED
  BY <1>1 DEF Past

\* A call that goes on to its next field is on the same node,
LEMMA OnField ==
  ASSUME NEW R \in SUBSET VisitType, NEW c \in R, NEW d, d.op = c.op, d.node = c.node, NEW o
  PROVE  On((R \ {c}) \cup {d}, o) = On(R, o)
BY DEF On

\* has that field not to visit any more,
LEMMA OpenField ==
  ASSUME NEW R \in SUBSET VisitType, NEW c \in R, c.at \in Field,
         \A b \in R : b.op = c.op /\ b.node = c.node => b = c,
         NEW d, d.op = c.op, d.node = c.node, d.at = c.at + 1, NEW o
  PROVE  Open((R \ {c}) \cup {d}, o) = {e \in Open(R, o) : ~(c.op = o /\ e = <<c.node, c.at>>)}
<1>1. c.at \in Nat
  BY FieldIsFinite
<1>2. \A e \in Slots : e = <<e[1], e[2]>> /\ e[2] \in Nat
  BY FieldIsFinite DEF Slots
<1>3. \A e \in Slots : e[2] >= d.at <=> e[2] >= c.at /\ e[2] # c.at
  BY <1>1, <1>2
<1>4. ASSUME NEW e \in Slots
      PROVE  e \in Open((R \ {c}) \cup {d}, o) <=> e \in Open(R, o) /\ ~(c.op = o /\ e = <<c.node, c.at>>)
  <2>1. e \in Open((R \ {c}) \cup {d}, o) <=>
          \/ \E b \in R \ {c} : b.op = o /\ b.node = e[1] /\ e[2] >= b.at
          \/ c.op = o /\ c.node = e[1] /\ e[2] >= c.at /\ e[2] # c.at
    BY <1>3 DEF Open
  <2>2. e \in Open(R, o) <=>
          \/ \E b \in R \ {c} : b.op = o /\ b.node = e[1] /\ e[2] >= b.at
          \/ c.op = o /\ c.node = e[1] /\ e[2] >= c.at
    BY DEF Open
  <2>3. c.op = o /\ c.node = e[1] => \A b \in R \ {c} : ~(b.op = o /\ b.node = e[1])
    OBVIOUS
  <2>4. e = <<c.node, c.at>> <=> e[1] = c.node /\ e[2] = c.at
    BY <1>2
  <2>5. QED
    BY <2>1, <2>2, <2>3, <2>4
<1>5. Open((R \ {c}) \cup {d}, o) \subseteq Slots /\ Open(R, o) \subseteq Slots
  BY DEF Open
<1>6. QED
  BY <1>4, <1>5

\* but behind it.
LEMMA PastField ==
  ASSUME NEW R \in SUBSET VisitType, NEW c \in R, c.at \in Field,
         NEW d, d.op = c.op, d.node = c.node, d.at = c.at + 1, NEW o
  PROVE  Past((R \ {c}) \cup {d}, o) = Past(R, o) \cup {e \in {<<c.node, c.at>>} : c.op = o}
<1>1. c.node \in Node /\ c.at \in Nat
  BY FieldIsFinite DEF VisitType
<1>2. \A e \in Slots : e = <<e[1], e[2]>> /\ e[2] \in Nat
  BY FieldIsFinite DEF Slots
<1>3. \A e \in Slots : e[2] < d.at <=> e[2] < c.at \/ e[2] = c.at
  BY <1>1, <1>2
<1>4. ASSUME NEW e \in Slots
      PROVE  e \in Past((R \ {c}) \cup {d}, o) <=> e \in Past(R, o) \/ (c.op = o /\ e = <<c.node, c.at>>)
  <2>1. e \in Past((R \ {c}) \cup {d}, o) <=>
          \/ \E b \in R \ {c} : b.op = o /\ b.node = e[1] /\ e[2] < b.at
          \/ c.op = o /\ c.node = e[1] /\ (e[2] < c.at \/ e[2] = c.at)
    BY <1>3 DEF Past
  <2>2. e \in Past(R, o) <=>
          \/ \E b \in R \ {c} : b.op = o /\ b.node = e[1] /\ e[2] < b.at
          \/ c.op = o /\ c.node = e[1] /\ e[2] < c.at
    BY DEF Past
  <2>3. e = <<c.node, c.at>> <=> e[1] = c.node /\ e[2] = c.at
    BY <1>2
  <2>4. QED
    BY <2>1, <2>2, <2>3
<1>5. /\ Past((R \ {c}) \cup {d}, o) \subseteq Slots /\ Past(R, o) \subseteq Slots
      /\ <<c.node, c.at>> \in Slots
  BY <1>1 DEF Past, Slots
<1>6. QED
  BY <1>4, <1>5

\* A call that returns is on its node no more; it had no field left to visit,
LEMMA OnDone ==
  ASSUME NEW R \in SUBSET VisitType, NEW c \in R,
         \A b \in R : b.op = c.op /\ b.node = c.node => b = c, NEW o
  PROVE  On(R \ {c}, o) = {n \in On(R, o) : ~(c.op = o /\ n = c.node)}
BY DEF On

\* so that nothing is taken from what is to visit,
LEMMA OpenDone ==
  ASSUME NEW R \in SUBSET VisitType, NEW c \in R, c.at = Fields + 1, NEW o
  PROVE  Open(R \ {c}, o) = Open(R, o)
<1>1. \A e \in Slots : ~(e[2] >= c.at)
  BY FieldIsFinite DEF Slots
<1>2. QED
  BY <1>1 DEF Open

\* and takes what was behind it along.
LEMMA PastDone ==
  ASSUME NEW R \in SUBSET VisitType, NEW c \in R, c.at = Fields + 1,
         \A b \in R : b.op = c.op /\ b.node = c.node => b = c, NEW o
  PROVE  Past(R \ {c}, o) = {e \in Past(R, o) : ~(c.op = o /\ e[1] = c.node)}
<1>1. \A e \in Slots : e[2] < c.at
  BY FieldIsFinite DEF Slots
<1>2. ASSUME NEW e \in Slots
      PROVE  e \in Past(R \ {c}, o) <=> e \in Past(R, o) /\ ~(c.op = o /\ e[1] = c.node)
  <2>1. e \in Past(R \ {c}, o) <=> \E b \in R \ {c} : b.op = o /\ b.node = e[1] /\ e[2] < b.at
    BY DEF Past
  <2>2. e \in Past(R, o) <=>
          \/ \E b \in R \ {c} : b.op = o /\ b.node = e[1] /\ e[2] < b.at
          \/ c.op = o /\ c.node = e[1]
    BY <1>1 DEF Past
  <2>3. c.op = o /\ c.node = e[1] => \A b \in R \ {c} : ~(b.op = o /\ b.node = e[1])
    OBVIOUS
  <2>4. QED
    BY <2>1, <2>2, <2>3
<1>3. Past(R \ {c}, o) \subseteq Slots /\ Past(R, o) \subseteq Slots
  BY DEF Past
<1>4. QED
  BY <1>2, <1>3

\* What a traversal is on, has to visit and has behind it are nodes and fields.
LEMMA ViewsAre ==
  ASSUME NEW R \in SUBSET VisitType, NEW o
  PROVE  /\ On(R, o) \in SUBSET Node
         /\ Open(R, o) \in SUBSET Slots /\ Past(R, o) \in SUBSET Slots
         /\ \A e \in Open(R, o) : e[1] \in On(R, o)
         /\ \A e \in Past(R, o) : e[1] \in On(R, o)
BY DEF On, Open, Past, Slots
\* The topmost call, and the three kinds of calls on the stack.
LEMMA CurrentFacts ==
  ASSUME StackInv, stack # << >>
  PROVE  /\ Current \in VisitType /\ Current.op = Phase /\ Current.node \in Node
         /\ Phase \in Ops /\ Current.at \in Nat
         /\ Current \in ToSet(stack) /\ \A c \in ToSet(stack) : c \in VisitType
         /\ ToSet(stack) = Running \cup Starting \cup Waiting
         /\ Running \in SUBSET VisitType /\ Waiting \in SUBSET VisitType
         /\ \A c \in Running : c.at > 0
         /\ \A c \in Waiting : c.at = 0
         /\ Starting = IF Current.at = 0 THEN {Current} ELSE {}
         /\ Current.at > 0 => Current \in Running
         /\ Current.at = 0 => Current = Visit(Current.op, Current.node) /\ Current \notin Running
         /\ Current \notin Waiting
         /\ \A c \in ToSet(stack) : Rank[Phase] <= Rank[c.op]
<1>1. /\ stack \in Seq(VisitType) /\ Orderly(stack) /\ Len(stack) \in Nat \ {0}
      /\ DOMAIN stack = 1..Len(stack) /\ Current = stack[1]
  BY EmptySeq, LenProperties DEF StackInv, Current
<1>2. \A c \in ToSet(stack) : c \in VisitType /\ \E i \in 1..Len(stack) : c = stack[i]
  BY <1>1, ToSetOf
<1>3. Current \in ToSet(stack) /\ Current \in VisitType
  BY <1>1, ToSetOf
<1>4. \A c \in VisitType : c.at \in Nat /\ c.node \in Node /\ c.op \in Ops
  BY FieldIsFinite DEF VisitType
<1>5. \A c \in VisitType : c.at = 0 => c = Visit(c.op, c.node)
  BY DEF VisitType, Visit
<1>6. ASSUME NEW c \in ToSet(stack) PROVE Rank[Current.op] <= Rank[c.op]
  <2>1. PICK i \in 1..Len(stack) : c = stack[i]
    BY <1>2
  <2>2. CASE i = 1
    <3>1. Rank[Current.op] \in 1..5
      BY <1>3, <1>4, OpsRank
    <3>2. QED
      BY <2>1, <2>2, <3>1, <1>1
  <2>3. CASE i # 1
    <3>1. 1 \in 1..Len(stack) /\ 1 < i
      BY <2>3, <1>1
    <3>2. QED
      BY <2>1, <3>1, <1>1 DEF Orderly
  <2>4. QED
    BY <2>2, <2>3
<1>7. Phase = Current.op
  BY DEF Phase
<1>8. \A c \in ToSet(stack) : c.at > 0 \/ c.at = 0
  BY <1>2, <1>4
<1>9. Starting = IF Current.at = 0 THEN {Current} ELSE {}
  BY <1>3 DEF Starting
<1>10. /\ Current.at > 0 => Current \in Running
       /\ Current.at = 0 => Current \notin Running
       /\ Current \notin Waiting
  BY <1>3 DEF Running, Waiting
<1>11. /\ ToSet(stack) = Running \cup Starting \cup Waiting
       /\ Running \in SUBSET VisitType /\ Waiting \in SUBSET VisitType
       /\ \A c \in Running : c.at > 0
       /\ \A c \in Waiting : c.at = 0
  BY <1>2, <1>8 DEF Running, Starting, Waiting
<1>12. QED
  BY <1>3, <1>4, <1>5, <1>6, <1>7, <1>9, <1>10, <1>11, <1>2

\* A step that replaces the topmost call.
LEMMA Moved ==
  ASSUME StackInv, stack # << >>, NEW u \in Seq(VisitType), Orderly(u),
         \A c \in ToSet(u) : c \notin ToSet(stack) \ {Current} /\ Rank[c.op] <= Rank[Current.op],
         stack' = u \o Tail(stack)
  PROVE  /\ stack' \in Seq(VisitType) /\ Orderly(stack')
         /\ ToSet(stack') = ToSet(u) \cup (ToSet(stack) \ {Current})
         /\ u # << >> => stack' # << >> /\ Current' = u[1]
<1>1. stack \in Seq(VisitType) /\ Orderly(stack)
  BY DEF StackInv
<1>2. \A i \in 1..Len(u) : u[i] \in ToSet(u)
  BY ToSetOf
<1>3. \A i \in 1..Len(u) : u[i] \notin ToSet(stack) \ {Head(stack)} /\ Rank[u[i].op] <= Rank[Head(stack).op]
  BY <1>2 DEF Current
<1>4. /\ u \o Tail(stack) \in Seq(VisitType) /\ Orderly(u \o Tail(stack))
      /\ ToSet(u \o Tail(stack)) = ToSet(u) \cup (ToSet(stack) \ {Head(stack)})
  BY <1>1, <1>3, Replaced
<1>5. ASSUME u # << >> PROVE stack' # << >> /\ Current' = u[1]
  <2>1. Len(u) \in Nat \ {0} /\ Tail(stack) \in Seq(VisitType)
    BY <1>1, <1>5, EmptySeq, LenProperties, HeadTailProperties
  <2>2. Len(stack') \in Nat \ {0} /\ stack'[1] = u[1] /\ stack' \in Seq(VisitType)
    BY <2>1, <1>4, ConcatProperties
  <2>3. stack' # << >>
    BY <2>2, EmptySeq
  <2>4. QED
    BY <2>2, <2>3 DEF Current
<1>6. QED
  BY <1>4, <1>5 DEF Current

\* The topmost call belongs to the traversal of least rank.
LEMMA LeastFirst ==
  ASSUME NEW s \in Seq(VisitType), Orderly(s), s # << >>
  PROVE  Head(s) \in ToSet(s) /\ Head(s) \in VisitType /\ \A c \in ToSet(s) : Rank[Head(s).op] <= Rank[c.op]
<1>1. Len(s) \in Nat \ {0} /\ DOMAIN s = 1..Len(s) /\ Head(s) = s[1]
  BY EmptySeq, LenProperties
<1>2. Head(s) \in ToSet(s) /\ Head(s) \in VisitType
  BY <1>1, ToSetOf
<1>3. Rank[Head(s).op] \in 1..5
  BY <1>2, OpsRank DEF VisitType
<1>4. ASSUME NEW c \in ToSet(s) PROVE Rank[Head(s).op] <= Rank[c.op]
  <2>1. PICK i \in 1..Len(s) : c = s[i]
    BY ToSetOf
  <2>2. CASE i = 1
    BY <2>1, <2>2, <1>1, <1>3
  <2>3. CASE i # 1
    <3>1. 1 \in 1..Len(s) /\ 1 < i
      BY <2>3, <1>1
    <3>2. QED
      BY <2>1, <3>1, <1>1 DEF Orderly
  <2>4. QED
    BY <2>2, <2>3
<1>5. QED
  BY <1>2, <1>4

\* A stack of one call is orderly.
LEMMA OneCall ==
  ASSUME NEW c \in VisitType
  PROVE  <<c>> \in Seq(VisitType) /\ Orderly(<<c>>) /\ ToSet(<<c>>) = {c} /\ <<c>> # << >> /\ <<c>>[1] = c
<1>1. <<c>> \in Seq(VisitType) /\ Len(<<c>>) = 1 /\ <<c>>[1] = c /\ DOMAIN <<c>> = 1..1
  OBVIOUS
<1>2. \A i, j \in 1..1 : ~(i < j)
  OBVIOUS
<1>3. Orderly(<<c>>)
  BY <1>1, <1>2 DEF Orderly
<1>4. ToSet(<<c>>) = {c}
  BY <1>1 DEF ToSet
<1>5. QED
  BY <1>1, <1>3, <1>4

LEMMA NoCall == << >> \in Seq(VisitType) /\ Orderly(<< >>) /\ ToSet(<< >>) = {}
<1>1. << >> \in Seq(VisitType) /\ DOMAIN << >> = {}
  OBVIOUS
<1>2. QED
  BY <1>1 DEF Orderly, ToSet

\* So is one of two calls in order.
LEMMA TwoCalls ==
  ASSUME NEW a \in VisitType, NEW c \in VisitType, a # c, Rank[a.op] <= Rank[c.op]
  PROVE  /\ <<a>> \o <<c>> \in Seq(VisitType) /\ Orderly(<<a>> \o <<c>>)
         /\ ToSet(<<a>> \o <<c>>) = {a, c} /\ <<a>> \o <<c>> # << >> /\ (<<a>> \o <<c>>)[1] = a
<1> DEFINE s == <<a>> \o <<c>>
<1>1. <<a>> \in Seq(VisitType) /\ <<c>> \in Seq(VisitType) /\ Len(<<a>>) = 1 /\ Len(<<c>>) = 1 /\ <<a>>[1] = a /\ <<c>>[1] = c
  OBVIOUS
<1>2. s \in Seq(VisitType) /\ Len(s) = 2 /\ s[1] = a /\ s[2] = c
  BY <1>1, ConcatProperties
<1> HIDE DEF s
<1>3. DOMAIN s = 1..2
  BY <1>2, LenProperties
<1>4. \A i, j \in 1..2 : i < j => i = 1 /\ j = 2
  OBVIOUS
<1>5. Orderly(s)
  BY <1>2, <1>3, <1>4 DEF Orderly
<1>6. \A i \in 1..2 : i = 1 \/ i = 2
  OBVIOUS
<1>7. ToSet(s) = {a, c}
  BY <1>2, <1>3, <1>6 DEF ToSet
<1>8. s # << >>
  <2>1. s \in Seq(VisitType) /\ Len(s) # 0
    BY <1>2
  <2>2. QED
    BY <2>1, EmptySeq, Zenon
<1>9. QED
  BY <1>2, <1>5, <1>7, <1>8 DEF s

\* No call of the running traversal waits.
LEMMA WaitingFacts ==
  ASSUME StackInv, stack # << >>
  PROVE  \A c \in Waiting : c.op # Phase
<1>1. Phase \in Ops
  BY CurrentFacts
<1>2. \A x, p : \A c \in Agenda(p, x) : c.op # p
  BY DEF Agenda, Visit
<1>3. Phase = "release" => Waiting = {}
  BY DEF StackInv
<1>4. Phase # "release" => \E x \in Node : Waiting = Agenda(Phase, x)
  BY DEF StackInv
<1>5. QED
  BY <1>2, <1>3, <1>4

\* A traversal may lie on itself.
LEMMA BelowFacts ==
  ASSUME NEW p \in Ops
  PROVE  p \in Below(p) /\ Below(p) \subseteq Ops
BY DEF Below, Ops

\* A call begins.
LEMMA BeginMove ==
  ASSUME StackInv, stack # << >>, Current.at = 0, Current.node \notin On(Running, Current.op), Walk(<< >>)
  PROVE  /\ StackInv' /\ stack' # << >> /\ Phase' = Phase /\ Starting' = {} /\ Waiting' = Waiting
         /\ On(Running', Phase) = On(Running, Phase) \cup {Current.node}
         /\ Open(Running', Phase) = Open(Running, Phase) \cup ({Current.node} \X Field)
         /\ Past(Running', Phase) = Past(Running, Phase)
         /\ \A o : o # Phase => /\ On(Running', o) = On(Running, o)
                                /\ Open(Running', o) = Open(Running, o)
                                /\ Past(Running', o) = Past(Running, o)
<1> DEFINE d == [Current EXCEPT !.at = @ + 1]
<1>1. /\ Current \in VisitType /\ Current.op = Phase /\ Current.node \in Node /\ Phase \in Ops
      /\ ToSet(stack) = Running \cup Starting \cup Waiting /\ Starting = {Current}
      /\ Running \in SUBSET VisitType /\ Waiting \in SUBSET VisitType
      /\ \A c \in Running : c.at > 0
      /\ \A c \in Waiting : c.at = 0
      /\ Current \notin Running /\ Current \notin Waiting
  BY CurrentFacts
<1>2. d \in VisitType /\ d.at = 1 /\ d.op = Phase /\ d.node = Current.node
  BY <1>1, FieldIsFinite DEF VisitType
<1>3. stack' = <<d>> \o Tail(stack)
  <2>1. << >> \o <<d>> = <<d>>
    BY <1>2, OneCall, ConcatEmptySeq
  <2>2. QED
    BY <2>1 DEF Walk
<1> HIDE DEF d
<1>4. d \notin ToSet(stack)
  <2>1. d \notin Running
    BY <1>1, <1>2 DEF On
  <2>2. d # Current /\ d \notin Waiting
    BY <1>1, <1>2
  <2>3. QED
    BY <2>1, <2>2, <1>1
<1>5. <<d>> \in Seq(VisitType) /\ Orderly(<<d>>) /\ ToSet(<<d>>) = {d} /\ <<d>> # << >> /\ <<d>>[1] = d
  BY <1>2, OneCall
<1>6. Rank[d.op] <= Rank[Current.op]
  BY <1>1, <1>2, OpsRank
<1>7. /\ stack' \in Seq(VisitType) /\ Orderly(stack') /\ stack' # << >> /\ Current' = d
      /\ ToSet(stack') = {d} \cup (ToSet(stack) \ {Current})
  BY <1>3, <1>4, <1>5, <1>6, Moved
<1>8. Running' = Running \cup {d} /\ Starting' = {} /\ Waiting' = Waiting
  <2>1. ToSet(stack') = {d} \cup Running \cup Waiting
    BY <1>1, <1>7
  <2>2. QED
    BY <2>1, <1>1, <1>2, <1>7 DEF Running, Starting, Waiting
<1>9. Phase' = Phase
  BY <1>1, <1>2, <1>7 DEF Phase
<1>10. StackInv'
  <2>1. \A c, e \in Running' : c.op = e.op /\ c.node = e.node => c = e
    <3>1. \A c \in Running : ~(c.op = Current.op /\ c.node = Current.node)
      BY <1>1 DEF On
    <3>2. \A c, e \in Running : c.op = e.op /\ c.node = e.node => c = e
      BY DEF StackInv
    <3>3. QED
      BY <3>1, <3>2, <1>8, <1>2, <1>1
  <2>2. \A c \in Running' : c.op \in Below(Phase')
    BY <1>1, <1>2, <1>8, <1>9, BelowFacts DEF StackInv
  <2>3. QED
    BY <2>1, <2>2, <1>7, <1>8, <1>9 DEF StackInv
<1>11. ASSUME NEW o
       PROVE  /\ On(Running', o) = On(Running, o) \cup {n \in {d.node} : d.op = o}
              /\ Open(Running', o) = Open(Running, o) \cup {e \in {d.node} \X Field : d.op = o}
              /\ Past(Running', o) = Past(Running, o)
  <2>1. On(Running \cup {d}, o) = On(Running, o) \cup {n \in {d.node} : d.op = o}
    BY <1>1, <1>2, OnBegin
  <2>2. Open(Running \cup {d}, o) = Open(Running, o) \cup {e \in {d.node} \X Field : d.op = o}
    BY <1>1, <1>2, OpenBegin
  <2>3. Past(Running \cup {d}, o) = Past(Running, o)
    BY <1>1, <1>2, PastBegin
  <2>4. QED
    BY <2>1, <2>2, <2>3, <1>8
<1>12. /\ On(Running', Phase) = On(Running, Phase) \cup {Current.node}
       /\ Open(Running', Phase) = Open(Running, Phase) \cup ({Current.node} \X Field)
       /\ Past(Running', Phase) = Past(Running, Phase)
  BY <1>11, <1>2
<1>13. ASSUME NEW o, o # Phase
       PROVE  /\ On(Running', o) = On(Running, o)
              /\ Open(Running', o) = Open(Running, o)
              /\ Past(Running', o) = Past(Running, o)
  BY <1>11, <1>2, <1>13
<1>14. QED
  BY <1>7, <1>8, <1>9, <1>10, <1>12, <1>13

\* A call goes on to its next field, with or without a call on what the field points to.
LEMMA FieldMove ==
  ASSUME StackInv, stack # << >>, Current.at \in Field, NEW calls, Walk(calls),
         calls = << >> \/ \E x \in Node : calls = <<Visit(Phase, x)>>
  PROVE  /\ StackInv' /\ stack' # << >> /\ Phase' = Phase /\ Starting' = ToSet(calls) /\ Waiting' = Waiting
         /\ Current.node \in On(Running, Phase) /\ <<Current.node, Current.at>> \in Open(Running, Phase)
         /\ Starting = {}
         /\ On(Running', Phase) = On(Running, Phase)
         /\ Open(Running', Phase) = Open(Running, Phase) \ {<<Current.node, Current.at>>}
         /\ Past(Running', Phase) = Past(Running, Phase) \cup {<<Current.node, Current.at>>}
         /\ \A o : o # Phase => /\ On(Running', o) = On(Running, o)
                                /\ Open(Running', o) = Open(Running, o)
                                /\ Past(Running', o) = Past(Running, o)
<1> DEFINE d == [Current EXCEPT !.at = @ + 1]
<1>1. /\ Current \in VisitType /\ Current.op = Phase /\ Current.node \in Node /\ Phase \in Ops
      /\ Running \in SUBSET VisitType /\ Waiting \in SUBSET VisitType
      /\ \A c \in Running : c.at > 0
      /\ \A c \in Waiting : c.at = 0
      /\ Current \notin Waiting
  BY CurrentFacts
<1>2. Current.at \in Nat \ {0} /\ Current.at + 1 \in 0..Fields+1
  BY FieldIsFinite
<1>3. Starting = {} /\ ToSet(stack) = Running \cup Waiting /\ Current \in Running
  BY <1>2, CurrentFacts
<1>4. d \in VisitType /\ d.at = Current.at + 1 /\ d.at > 0 /\ d.op = Phase /\ d.node = Current.node /\ d # Current
  BY <1>1, <1>2, FieldIsFinite DEF VisitType
<1>5. \A c \in Running : c.op = Current.op /\ c.node = Current.node => c = Current
  BY <1>3 DEF StackInv
<1>7. stack' = (calls \o <<d>>) \o Tail(stack)
  BY DEF Walk
<1> HIDE DEF d
<1>6. d \notin ToSet(stack)
  <2>1. d \notin Waiting
    BY <1>1, <1>4
  <2>2. d \notin Running
    BY <1>1, <1>4, <1>5
  <2>3. QED
    BY <2>1, <2>2, <1>3
<1>8. \A x : Visit(Phase, x) \notin ToSet(stack)
  BY <1>1, <1>3, WaitingFacts DEF Visit
<1>9. /\ calls \o <<d>> \in Seq(VisitType) /\ Orderly(calls \o <<d>>) /\ calls \o <<d>> # << >>
      /\ ToSet(calls \o <<d>>) = ToSet(calls) \cup {d}
      /\ \A c \in ToSet(calls) : c \in VisitType /\ c.at = 0 /\ c.op = Phase /\ c \notin ToSet(stack)
      /\ (calls = << >> /\ (calls \o <<d>>)[1] = d) \/ ToSet(calls) = {(calls \o <<d>>)[1]}
  <2>1. CASE calls = << >>
    <3>1. calls \o <<d>> = <<d>>
      BY <2>1, <1>4, OneCall, ConcatEmptySeq
    <3>2. QED
      BY <2>1, <3>1, <1>4, OneCall, NoCall
  <2>2. CASE \E x \in Node : calls = <<Visit(Phase, x)>>
    <3>1. PICK x \in Node : calls = <<Visit(Phase, x)>>
      BY <2>2
    <3>2. Visit(Phase, x) \in VisitType /\ Visit(Phase, x).at = 0 /\ Visit(Phase, x).op = Phase
      BY <1>1, FieldIsFinite DEF Visit, VisitType
    <3> DEFINE a == Visit(Phase, x)
    <3>3. a # d /\ Rank[a.op] <= Rank[d.op] /\ a \notin ToSet(stack)
      BY <3>2, <1>1, <1>4, <1>8, OpsRank
    <3>4. a \in VisitType
      BY <3>2
    <3> HIDE DEF a
    <3>5. /\ <<a>> \o <<d>> \in Seq(VisitType) /\ Orderly(<<a>> \o <<d>>)
          /\ ToSet(<<a>> \o <<d>>) = {a, d} /\ <<a>> \o <<d>> # << >> /\ (<<a>> \o <<d>>)[1] = a
      BY <3>3, <3>4, <1>4, TwoCalls
    <3>6. ToSet(<<a>>) = {a}
      BY <3>4, OneCall
    <3>7. calls = <<a>> /\ a.at = 0 /\ a.op = Phase
      BY <3>1, <3>2 DEF a
    <3>8. QED
      BY <3>3, <3>4, <3>5, <3>6, <3>7
  <2>3. QED
    BY <2>1, <2>2
<1> DEFINE u == calls \o <<d>>
<1>10. \A c \in ToSet(u) : c \notin ToSet(stack) \ {Current} /\ Rank[c.op] <= Rank[Current.op]
  <2>1. Rank[Phase] <= Rank[Phase]
    BY <1>1, OpsRank
  <2>2. QED
    BY <2>1, <1>1, <1>4, <1>6, <1>9
<1>11. u \in Seq(VisitType) /\ Orderly(u) /\ u # << >> /\ stack' = u \o Tail(stack)
  BY <1>7, <1>9
<1> HIDE DEF u
<1>12. /\ stack' \in Seq(VisitType) /\ Orderly(stack') /\ stack' # << >> /\ Current' = u[1]
       /\ ToSet(stack') = ToSet(u) \cup (ToSet(stack) \ {Current})
  BY <1>10, <1>11, Moved
<1>13. ToSet(stack') = ToSet(calls) \cup {d} \cup (Running \ {Current}) \cup Waiting
  BY <1>1, <1>3, <1>9, <1>12 DEF u
<1>14. (calls = << >> /\ Current' = d) \/ ToSet(calls) = {Current'}
  BY <1>9, <1>12 DEF u
<1>15. Running' = (Running \ {Current}) \cup {d}
  BY <1>13, <1>1, <1>4, <1>9 DEF Running
<1>16. Starting' = ToSet(calls) /\ Waiting' = Waiting
  <2>1. calls = << >> => ToSet(calls) = {}
    BY NoCall
  <2>2. Current' \notin Waiting
    <3>1. CASE Current' = d
      BY <3>1, <1>1, <1>4
    <3>2. CASE ToSet(calls) = {Current'}
      BY <3>2, <1>3, <1>9
    <3>3. QED
      BY <3>1, <3>2, <1>14
  <2>3. \A c \in ToSet(stack') : c.at = 0 <=> c \in ToSet(calls) \cup Waiting
    BY <1>13, <1>1, <1>4, <1>9
  <2>4. QED
    BY <2>1, <2>2, <2>3, <1>13, <1>14, <1>4 DEF Starting, Waiting
<1>17. Phase' = Phase
  BY <1>4, <1>9, <1>12, <1>14 DEF Phase
<1>18. StackInv'
  <2>1. \A c, e \in Running' : c.op = e.op /\ c.node = e.node => c = e
    <3>1. \A c, e \in Running : c.op = e.op /\ c.node = e.node => c = e
      BY DEF StackInv
    <3>2. QED
      BY <3>1, <1>5, <1>15, <1>4, <1>1
  <2>2. \A c \in Running' : c.op \in Below(Phase')
    BY <1>1, <1>4, <1>15, <1>17, BelowFacts DEF StackInv
  <2>3. QED
    BY <2>1, <2>2, <1>12, <1>16, <1>17 DEF StackInv
<1>19. Current.node \in On(Running, Phase) /\ <<Current.node, Current.at>> \in Open(Running, Phase)
  <2>1. Current.at >= Current.at
    BY <1>2
  <2>2. QED
    BY <2>1, <1>1, <1>3 DEF On, Open, Slots
<1>20. ASSUME NEW o
       PROVE  /\ On(Running', o) = On(Running, o)
              /\ Open(Running', o) = {e \in Open(Running, o) : ~(Current.op = o /\ e = <<Current.node, Current.at>>)}
              /\ Past(Running', o) = Past(Running, o) \cup {e \in {<<Current.node, Current.at>>} : Current.op = o}
  <2> DEFINE c == Current
  <2>1. /\ c \in Running /\ c.at \in Field /\ d.op = c.op /\ d.node = c.node /\ d.at = c.at + 1
        /\ \A b \in Running : b.op = c.op /\ b.node = c.node => b = c
        /\ Running \in SUBSET VisitType /\ Running' = (Running \ {c}) \cup {d}
    BY <1>1, <1>3, <1>4, <1>5, <1>15
  <2> HIDE DEF c
  <2>2. On((Running \ {c}) \cup {d}, o) = On(Running, o)
    BY <2>1, OnField
  <2>3. Open((Running \ {c}) \cup {d}, o) = {e \in Open(Running, o) : ~(c.op = o /\ e = <<c.node, c.at>>)}
    BY <2>1, OpenField
  <2>4. Past((Running \ {c}) \cup {d}, o) = Past(Running, o) \cup {e \in {<<c.node, c.at>>} : c.op = o}
    BY <2>1, PastField
  <2>5. QED
    BY <2>1, <2>2, <2>3, <2>4 DEF c
<1>21. QED
  BY <1>1, <1>3, <1>12, <1>16, <1>17, <1>18, <1>19, <1>20


\* A traversal without a call is on no node.
LEMMA NoneOn ==
  ASSUME NEW R \in SUBSET VisitType, NEW o, \A c \in R : c.op # o
  PROVE  On(R, o) = {}
BY DEF On

\* The topmost call returns, and the next one goes on or begins.
LEMMA LeaveMove ==
  ASSUME StackInv, stack # << >>, Leave
  PROVE  /\ StackInv' /\ Running' = Running \ {Current}
         /\ \/ Phase' = Phase /\ Starting' = {} /\ Waiting' = Waiting
            \/ /\ Phase = "gray" /\ Phase' = "scan" /\ On(Running', "gray") = {}
               /\ \E x \in Node : /\ Waiting = {Visit("scan", x), Visit("white", x)}
                                  /\ Starting' = {Visit("scan", x)} /\ Waiting' = {Visit("white", x)}
            \/ /\ Phase = "black" /\ Phase' = "scan" /\ On(Running', "black") = {}
               /\ Starting' = {} /\ Waiting' = Waiting
            \/ /\ Phase \in {"black", "scan"} /\ Phase' = "white"
               /\ On(Running', "black") = {} /\ On(Running', "scan") = {}
               /\ \E x \in Node : /\ Waiting = {Visit("white", x)}
                                  /\ Starting' = {Visit("white", x)} /\ Waiting' = {}
            \/ /\ Phase = "white" /\ Phase' = "release" /\ On(Running', "white") = {}
               /\ Starting' = {} /\ Waiting' = {}
<1>1. /\ Current \in VisitType /\ Phase \in Ops
      /\ ToSet(stack) = Running \cup Starting \cup Waiting
      /\ Running \in SUBSET VisitType /\ Waiting \in SUBSET VisitType
      /\ \A c \in Running : c.at > 0
      /\ \A c \in Waiting : c.at = 0
      /\ Starting \subseteq {Current} /\ Current \notin Waiting
  BY CurrentFacts
<1>2. /\ stack' \in Seq(VisitType) /\ Orderly(stack') /\ ToSet(stack') = ToSet(stack) \ {Current}
  <2>1. << >> \in Seq(VisitType) /\ Orderly(<< >>) /\ ToSet(<< >>) = {}
    BY NoCall
  <2>2. << >> \o Tail(stack) = Tail(stack)
    BY EmptySeq, HeadTailProperties, ConcatEmptySeq DEF StackInv
  <2>3. stack' = << >> \o Tail(stack)
    BY <2>2 DEF Leave
  <2>4. /\ stack' \in Seq(VisitType) /\ Orderly(stack')
        /\ ToSet(stack') = ToSet(<< >>) \cup (ToSet(stack) \ {Current})
    BY <2>1, <2>3, Moved
  <2>5. QED
    BY <2>1, <2>4
<1>3. ToSet(stack') = (Running \ {Current}) \cup Waiting
  BY <1>1, <1>2
<1>4. \A c \in Running \ {Current} : c \notin Waiting /\ c.at > 0
  BY <1>1
<1>5. Running' = Running \ {Current}
  BY <1>1, <1>3, <1>4 DEF Running
<1>6. ASSUME stack' = << >>
      PROVE  Phase' = "release" /\ Starting' = {} /\ Waiting' = {} /\ Waiting = {} /\ Running' = {}
  <2>1. ToSet(stack') = {}
    BY <1>6, NoCall
  <2>2. QED
    BY <2>1, <1>3, <1>6, <1>5 DEF Phase, Starting, Waiting
<1>7. ASSUME stack' # << >>
      PROVE  /\ Current' \in Running' \/ Current' \in Waiting
             /\ Phase' = Current'.op /\ Phase' \in Ops
             /\ \A c \in Running' \cup Waiting : Rank[Phase'] <= Rank[c.op]
             /\ Current' \in Running' => Starting' = {} /\ Waiting' = Waiting
             /\ Current' \in Waiting => Starting' = {Current'} /\ Waiting' = Waiting \ {Current'}
  <2>1. /\ Head(stack') \in ToSet(stack') /\ Head(stack') \in VisitType
        /\ \A c \in ToSet(stack') : Rank[Head(stack').op] <= Rank[c.op]
    BY <1>2, <1>7, LeastFirst
  <2>2. Current' = Head(stack') /\ Phase' = Current'.op
    BY <1>7 DEF Current, Phase
  <2>3. Current' \in (Running \ {Current}) \cup Waiting /\ Current'.op \in Ops
    BY <2>1, <2>2, <1>3 DEF VisitType
  <2>4. CASE Current' \in Running'
    <3>1. Starting' = {}
      BY <2>4, <1>1, <1>5, <1>4 DEF Starting
    <3>2. \A c \in Waiting : c # Current'
      BY <2>4, <1>4, <1>5
    <3>3. Waiting' = Waiting
      BY <3>2, <1>1, <1>3, <1>4 DEF Waiting
    <3>4. Current' \notin Waiting
      BY <3>2
    <3>5. QED
      BY <2>4, <3>1, <3>3, <3>4, <2>1, <2>2, <2>3, <1>3, <1>5
  <2>5. CASE Current' \in Waiting
    <3>1. Starting' = {Current'}
      BY <2>5, <1>1, <1>3 DEF Starting
    <3>2. Waiting' = Waiting \ {Current'}
      BY <1>1, <1>3, <1>4 DEF Waiting
    <3>3. Current' \notin Running'
      BY <2>5, <1>4, <1>5
    <3>4. QED
      BY <2>5, <3>1, <3>2, <3>3, <2>1, <2>2, <2>3, <1>3, <1>5
  <2>6. QED
    BY <2>3, <2>4, <2>5, <1>5
<1>8. Running' \in SUBSET VisitType /\ \A c \in Running' : c.op \in Below(Phase)
  BY <1>1, <1>5 DEF StackInv
<1>9. \A c, e \in Running' : c.op = e.op /\ c.node = e.node => c = e
  BY <1>5 DEF StackInv
<1> DEFINE First == Rank[Phase']
<1>10. \A x : \A p : Visit(p, x).op = p /\ Visit(p, x).node = x
  BY DEF Visit
<1>11. CASE Phase = "release"
  <2>1. Waiting = {} /\ \A c \in Running' : c.op = "release"
    BY <1>11, <1>8 DEF StackInv, Below
  <2>2. Phase' = "release" /\ Starting' = {} /\ Waiting' = {}
    BY <2>1, <1>6, <1>7
  <2>3. StackInv'
    BY <2>1, <2>2, <1>2, <1>9 DEF StackInv, Below
  <2>4. QED
    BY <2>1, <2>2, <2>3, <1>5, <1>11
<1>12. CASE Phase = "white"
  <2>1. Waiting = {} /\ \A c \in Running' : c.op \in {"white", "release"}
    BY <1>12, <1>8 DEF StackInv, Below
  <2>2. Starting' = {} /\ Waiting' = {} /\ Phase' \in {"white", "release"}
    BY <2>1, <1>6, <1>7
  <2>3. ASSUME Phase' = "release" PROVE \A c \in Running' : c.op = "release"
    <3>1. stack' = << >> => Running' = {}
      BY <1>6
    <3>2. stack' # << >> => \A c \in Running' : c.op # "white"
      BY <2>3, <1>7, OpsRank
    <3>3. QED
      BY <3>1, <3>2, <2>1
  <2>4. Phase' = "release" => On(Running', "white") = {}
    <3>1. Phase' = "release" => \A c \in Running' : c.op # "white"
      BY <2>3
    <3>2. QED
      BY <3>1, <1>8, NoneOn
  <2>5. Phase' = "white" => \E x \in Node : Waiting' = Agenda(Phase', x)
    <3>1. Phase' = "white" => Current'.node \in Node
      BY <1>6, <1>7, <1>8, <2>1 DEF VisitType
    <3>2. QED
      BY <3>1, <2>2 DEF Agenda
  <2>6. StackInv'
    BY <2>1, <2>2, <2>3, <2>5, <1>2, <1>9 DEF StackInv, Below
  <2>7. QED
    BY <2>1, <2>2, <2>4, <2>6, <1>5, <1>12
<1>13. CASE Phase = "scan"
  <2>1. PICK x \in Node : Waiting = {Visit("white", x)}
    BY <1>13 DEF StackInv, Agenda
  <2>2. \A c \in Running' : c.op \in {"scan", "release"}
    BY <1>13, <1>8 DEF Below
  <2>3. stack' # << >> /\ Visit("white", x) \in Waiting /\ Visit("white", x).op = "white"
    BY <2>1, <1>6, <1>10
  <2>4. Phase' # "release"
    BY <2>3, <1>7, OpsRank
  <2>5. On(Running', "black") = {}
    <3>1. \A c \in Running' : c.op # "black"
      BY <2>2
    <3>2. QED
      BY <3>1, <1>8, NoneOn
  <2>6. CASE Current' \in Running'
    <3>1. Phase' = "scan" /\ Starting' = {} /\ Waiting' = Waiting
      BY <2>2, <2>3, <2>4, <2>6, <1>7
    <3>2. StackInv'
      BY <2>1, <2>2, <3>1, <1>2, <1>9 DEF StackInv, Below, Agenda
    <3>3. QED
      BY <3>1, <3>2, <1>5, <1>13
  <2>7. CASE Current' \in Waiting
    <3>1. Phase' = "white" /\ Starting' = {Visit("white", x)} /\ Waiting' = {}
      BY <2>1, <2>3, <2>7, <1>7
    <3>2. \A c \in Running' : c.op # "scan"
      BY <3>1, <2>3, <1>7, OpsRank
    <3>3. On(Running', "scan") = {}
      BY <3>2, <1>8, NoneOn
    <3>4. StackInv'
      BY <2>1, <2>2, <3>1, <3>2, <1>2, <1>9 DEF StackInv, Below, Agenda
    <3>5. QED
      BY <3>1, <3>3, <3>4, <2>1, <2>5, <1>5, <1>13
  <2>8. QED
    BY <2>3, <2>6, <2>7, <1>7
<1>14. CASE Phase = "black"
  <2>1. PICK x \in Node : Waiting = {Visit("white", x)}
    BY <1>14 DEF StackInv, Agenda
  <2>2. \A c \in Running' : c.op \in {"black", "scan", "release"}
    BY <1>14, <1>8 DEF Below
  <2>3. stack' # << >> /\ Visit("white", x) \in Waiting /\ Visit("white", x).op = "white"
    BY <2>1, <1>6, <1>10
  <2>4. Phase' # "release"
    BY <2>3, <1>7, OpsRank
  <2>5. ASSUME Phase' # "black" PROVE On(Running', "black") = {} /\ \A c \in Running' : c.op # "black"
    <3>1. Phase' \in Ops \ {"black", "gray"}
      BY <2>2, <2>3, <2>5, <2>1, <1>7
    <3>2. \A c \in Running' : c.op # "black"
      BY <3>1, <2>3, <1>7, OpsRank DEF Ops
    <3>3. QED
      BY <3>2, <1>8, NoneOn
  <2>6. CASE Current' \in Running'
    <3>1. Phase' \in {"black", "scan"} /\ Starting' = {} /\ Waiting' = Waiting
      BY <2>2, <2>3, <2>4, <2>6, <1>7
    <3>2. StackInv'
      BY <2>1, <2>2, <2>5, <3>1, <1>2, <1>9 DEF StackInv, Below, Agenda
    <3>3. QED
      BY <3>1, <3>2, <2>5, <1>5, <1>14
  <2>7. CASE Current' \in Waiting
    <3>1. Phase' = "white" /\ Starting' = {Visit("white", x)} /\ Waiting' = {}
      BY <2>1, <2>3, <2>7, <1>7
    <3>2. \A c \in Running' : c.op # "scan" /\ c.op # "black"
      BY <3>1, <2>3, <1>7, OpsRank
    <3>3. On(Running', "scan") = {} /\ On(Running', "black") = {}
      BY <3>2, <1>8, NoneOn
    <3>4. StackInv'
      BY <2>1, <2>2, <3>1, <3>2, <1>2, <1>9 DEF StackInv, Below, Agenda
    <3>5. QED
      BY <3>1, <3>3, <3>4, <2>1, <1>5, <1>14
  <2>8. QED
    BY <2>3, <2>6, <2>7, <1>7
<1>15. CASE Phase = "gray"
  <2>1. PICK x \in Node : Waiting = {Visit("scan", x), Visit("white", x)}
    BY <1>15 DEF StackInv, Agenda
  <2>2. \A c \in Running' : c.op \in {"gray", "release"}
    BY <1>15, <1>8 DEF Below
  <2>3. stack' # << >> /\ Visit("scan", x) \in Waiting /\ Visit("scan", x).op = "scan"
    BY <2>1, <1>6, <1>10
  <2>4. Phase' # "release" /\ Phase' # "white"
    BY <2>3, <1>7, OpsRank
  <2>5. CASE Current' \in Running'
    <3>1. Phase' = "gray" /\ Starting' = {} /\ Waiting' = Waiting
      BY <2>2, <2>3, <2>4, <2>5, <1>7
    <3>2. StackInv'
      BY <2>1, <2>2, <3>1, <1>2, <1>9 DEF StackInv, Below, Agenda
    <3>3. QED
      BY <3>1, <3>2, <1>5, <1>15
  <2>6. CASE Current' \in Waiting
    <3>1. Current' = Visit("scan", x)
      BY <2>1, <2>3, <2>4, <2>6, <1>7, <1>10
    <3>2. Visit("scan", x) # Visit("white", x)
      BY <1>10
    <3>3. Phase' = "scan" /\ Starting' = {Visit("scan", x)} /\ Waiting' = {Visit("white", x)}
      BY <3>1, <3>2, <2>1, <2>3, <1>7
    <3>4. \A c \in Running' : c.op # "gray"
      BY <3>3, <2>3, <1>7, OpsRank
    <3>5. On(Running', "gray") = {}
      BY <3>4, <1>8, NoneOn
    <3>6. StackInv'
      BY <2>1, <2>2, <3>3, <3>4, <1>2, <1>9 DEF StackInv, Below, Agenda
    <3>7. QED
      BY <3>3, <3>5, <3>6, <2>1, <1>5, <1>15
  <2>7. QED
    BY <2>3, <2>5, <2>6, <1>7
<1>16. QED
  BY <1>1, <1>11, <1>12, <1>13, <1>14, <1>15 DEF Ops

\* A release that leaves a reference becomes a trial.
LEMMA TrialMove ==
  ASSUME StackInv, stack # << >>, Phase = "release", Current.at = 0, NEW n \in Node, Become(Trial(n))
  PROVE  /\ StackInv' /\ Phase' = "gray" /\ Running' = Running /\ Starting' = {Visit("gray", n)}
         /\ Waiting' = {Visit("scan", n), Visit("white", n)}
<1> DEFINE a == Visit("gray", n)
<1> DEFINE b == Visit("scan", n)
<1> DEFINE c == Visit("white", n)
<1> DEFINE u == <<a, b, c>>
<1>1. /\ a \in VisitType /\ b \in VisitType /\ c \in VisitType
      /\ a.at = 0 /\ b.at = 0 /\ c.at = 0 /\ a.op = "gray" /\ b.op = "scan" /\ c.op = "white"
  BY FieldIsFinite DEF Visit, VisitType, Ops
<1>2. stack' = u \o Tail(stack)
  BY DEF Become, Trial
<1> HIDE DEF a, b, c
<1>3. u \in Seq(VisitType) /\ DOMAIN u = 1..3 /\ u[1] = a /\ u[2] = b /\ u[3] = c /\ Len(u) = 3
  BY <1>1
<1> HIDE DEF u
<1>4. \A i \in 1..3 : i = 1 \/ i = 2 \/ i = 3
  OBVIOUS
<1>5. ToSet(u) = {a, b, c}
  BY <1>3, <1>4 DEF ToSet
<1>6. Orderly(u)
  <2>1. SUFFICES ASSUME NEW i \in 1..3, NEW j \in 1..3, i < j
                 PROVE  u[i] # u[j] /\ Rank[u[i].op] <= Rank[u[j].op]
    BY <1>3 DEF Orderly
  <2>2. (i = 1 /\ j = 2) \/ (i = 1 /\ j = 3) \/ (i = 2 /\ j = 3)
    BY <2>1
  <2>3. Rank[a.op] = 1 /\ Rank[b.op] = 3 /\ Rank[c.op] = 4
    BY <1>1, OpsRank
  <2>4. QED
    BY <2>2, <2>3, <1>3
<1>7. u # << >>
  <2>1. u \in Seq(VisitType) /\ Len(u) # 0
    BY <1>3
  <2>2. QED
    BY <2>1, EmptySeq, Zenon
<1>8. /\ Current.op = Phase /\ ToSet(stack) = Running \cup Starting \cup Waiting
      /\ Starting = {Current} /\ Waiting = {} /\ Current \notin Running
      /\ \A d \in Running : d.at > 0
  BY CurrentFacts DEF StackInv
<1>9. \A d \in ToSet(u) : d \notin ToSet(stack) \ {Current} /\ Rank[d.op] <= Rank[Current.op]
  BY <1>1, <1>5, <1>8, OpsRank
<1>10. /\ stack' \in Seq(VisitType) /\ Orderly(stack') /\ stack' # << >> /\ Current' = a
       /\ ToSet(stack') = {a, b, c} \cup Running
  <2>1. /\ stack' \in Seq(VisitType) /\ Orderly(stack') /\ stack' # << >> /\ Current' = u[1]
        /\ ToSet(stack') = ToSet(u) \cup (ToSet(stack) \ {Current})
    BY <1>2, <1>3, <1>6, <1>7, <1>9, Moved
  <2>2. QED
    BY <2>1, <1>3, <1>5, <1>8
<1>11. a # b /\ a # c
  BY <1>1
<1>12. Phase' = "gray" /\ Running' = Running /\ Starting' = {a} /\ Waiting' = {b, c}
  <2>1. Phase' = "gray"
    BY <1>1, <1>10 DEF Phase
  <2>2. Running' = Running
    <3>1. \A d \in Running : d \in ToSet(stack)
      BY DEF Running
    <3>2. QED
      BY <3>1, <1>1, <1>8, <1>10 DEF Running
  <2>3. Starting' = {a}
    BY <1>1, <1>10 DEF Starting
  <2>4. Waiting' = {b, c}
    BY <1>1, <1>8, <1>10, <1>11 DEF Waiting
  <2>5. QED
    BY <2>1, <2>2, <2>3, <2>4
<1>13. StackInv'
  <2>1. \A d, e \in Running' : d.op = e.op /\ d.node = e.node => d = e
    BY <1>12 DEF StackInv
  <2>2. \A d \in Running' : d.op \in Below(Phase')
    BY <1>12 DEF StackInv, Below
  <2>3. Waiting' = Agenda(Phase', n)
    BY <1>12 DEF Agenda, b, c
  <2>4. QED
    BY <2>1, <2>2, <2>3, <1>10, <1>12 DEF StackInv
<1>14. QED
  BY <1>12, <1>13 DEF a, b, c

\* A scan that finds a node still counted becomes a call of black.
LEMMA BlackenMove ==
  ASSUME StackInv, stack # << >>, Phase = "scan", Current.at = 0, NEW n \in Node, Become(<<Visit("black", n)>>)
  PROVE  /\ StackInv' /\ Phase' = "black" /\ Running' = Running /\ Starting' = {Visit("black", n)}
         /\ Waiting' = Waiting
<1> DEFINE a == Visit("black", n)
<1> DEFINE u == <<a>>
<1>1. a \in VisitType /\ a.at = 0 /\ a.op = "black"
  BY FieldIsFinite DEF Visit, VisitType, Ops
<1>2. stack' = u \o Tail(stack)
  BY DEF Become
<1> HIDE DEF a
<1>3. u \in Seq(VisitType) /\ Orderly(u) /\ ToSet(u) = {a} /\ u # << >> /\ u[1] = a
  BY <1>1, OneCall
<1> HIDE DEF u
<1>4. /\ Current.op = Phase /\ ToSet(stack) = Running \cup Starting \cup Waiting
      /\ Starting = {Current} /\ Current \notin Running /\ Current \notin Waiting
      /\ \A d \in Running : d.at > 0
      /\ \A d \in Waiting : d.at = 0
  BY CurrentFacts
<1>5. PICK x \in Node : Waiting = {Visit("white", x)}
  BY DEF StackInv, Agenda
<1>6. a \notin Waiting /\ a # Current
  BY <1>1, <1>4, <1>5 DEF Visit
<1>7. \A d \in ToSet(u) : d \notin ToSet(stack) \ {Current} /\ Rank[d.op] <= Rank[Current.op]
  BY <1>1, <1>3, <1>4, <1>6, OpsRank
<1>8. /\ stack' \in Seq(VisitType) /\ Orderly(stack') /\ stack' # << >> /\ Current' = a
      /\ ToSet(stack') = {a} \cup Running \cup Waiting
  <2>1. /\ stack' \in Seq(VisitType) /\ Orderly(stack') /\ stack' # << >> /\ Current' = u[1]
        /\ ToSet(stack') = ToSet(u) \cup (ToSet(stack) \ {Current})
    BY <1>2, <1>3, <1>7, Moved
  <2>2. QED
    BY <2>1, <1>3, <1>4
<1>9. Phase' = "black" /\ Running' = Running /\ Starting' = {a} /\ Waiting' = Waiting
  <2>1. Phase' = "black"
    BY <1>1, <1>8 DEF Phase
  <2>2. Running' = Running
    <3>1. \A d \in Running : d \in ToSet(stack)
      BY DEF Running
    <3>2. QED
      BY <3>1, <1>1, <1>4, <1>8 DEF Running
  <2>3. Starting' = {a}
    BY <1>1, <1>8 DEF Starting
  <2>4. Waiting' = Waiting
    BY <1>1, <1>4, <1>6, <1>8 DEF Waiting
  <2>5. QED
    BY <2>1, <2>2, <2>3, <2>4
<1>10. StackInv'
  <2>1. \A d, e \in Running' : d.op = e.op /\ d.node = e.node => d = e
    BY <1>9 DEF StackInv
  <2>2. \A d \in Running' : d.op \in Below(Phase')
    BY <1>9 DEF StackInv, Below
  <2>3. Waiting' = Agenda(Phase', x)
    BY <1>5, <1>9 DEF Agenda
  <2>4. QED
    BY <2>1, <2>2, <2>3, <1>8, <1>9 DEF StackInv
<1>11. QED
  BY <1>9, <1>10 DEF a

\* A statement releases what it overwrites.
LEMMA StatementMove ==
  ASSUME StackInv, stack = << >>, NEW n \in Node \cup {Null}, stack' = CallsOn("release", n)
  PROVE  /\ Running = {} /\ Starting = {} /\ Waiting = {} /\ Phase = "release"
         /\ StackInv' /\ Running' = {} /\ Waiting' = {} /\ Phase' = "release"
         /\ Starting' = {c \in {Visit("release", n)} : n # Null}
<1>1. Running = {} /\ Starting = {} /\ Waiting = {} /\ Phase = "release"
  BY NoCall DEF Running, Starting, Waiting, Phase
<1>2. CASE n = Null
  <2>1. stack' = << >>
    BY <1>2 DEF CallsOn
  <2>2. Running' = {} /\ Starting' = {} /\ Waiting' = {} /\ Phase' = "release"
    BY <2>1, NoCall DEF Running, Starting, Waiting, Phase
  <2>3. StackInv'
    BY <2>1, <2>2, NoCall DEF StackInv
  <2>4. QED
    BY <1>1, <1>2, <2>2, <2>3
<1>3. CASE n # Null
  <2> DEFINE a == Visit("release", n)
  <2>1. a \in VisitType /\ a.at = 0 /\ a.op = "release"
    BY <1>3, FieldIsFinite DEF Visit, VisitType, Ops
  <2>2. stack' = <<a>>
    BY <1>3 DEF CallsOn
  <2> HIDE DEF a
  <2>3. stack' \in Seq(VisitType) /\ Orderly(stack') /\ ToSet(stack') = {a} /\ stack' # << >> /\ stack'[1] = a
    BY <2>1, <2>2, OneCall
  <2>4. Current' = a
    BY <2>2, <2>3 DEF Current
  <2>5. Running' = {} /\ Starting' = {a} /\ Waiting' = {} /\ Phase' = "release"
    BY <2>1, <2>3, <2>4 DEF Running, Starting, Waiting, Phase
  <2>6. StackInv'
    BY <2>3, <2>5 DEF StackInv
  <2>7. QED
    BY <1>1, <1>3, <2>5, <2>6 DEF a
<1>4. QED
  BY <1>2, <1>3

\* What the calls in progress can be.
LEMMA NotBelow ==
  ASSUME StackInv, NEW o, o \notin Below(Phase)
  PROVE  On(Running, o) = {} /\ Open(Running, o) = {} /\ Past(Running, o) = {}
<1>1. \A c \in Running : c.op # o
  BY DEF StackInv
<1>2. QED
  BY <1>1 DEF On, Open, Past

\* One call that is about to begin begins on its node,
LEMMA StartOne ==
  ASSUME NEW x \in Node, NEW p, NEW o
  PROVE  Start({Visit(p, x)}, o) = {n \in {x} : o = p}
BY DEF Start, Visit

\* and of the two that wait, white's is the node of the trial.
LEMMA StartTwo ==
  ASSUME NEW x \in Node
  PROVE  Start({Visit("scan", x), Visit("white", x)}, "white") = {x}
BY DEF Start, Visit

\* The calls made for a field begin on the node it points to, if there is one.
LEMMA StartCalls ==
  ASSUME NEW m \in Node \cup {Null}, NEW p, NEW o
  PROVE  Start(ToSet(CallsOn(p, m)), o) = {n \in {m} \ {Null} : o = p}
<1>1. CASE m = Null
  BY <1>1, NoCall DEF Start, CallsOn
<1>2. CASE m # Null
  <2>1. CallsOn(p, m) = <<Visit(p, m)>> /\ m \in Node
    BY <1>2 DEF CallsOn
  <2>2. ToSet(<<Visit(p, m)>>) = {Visit(p, m)}
    BY DEF ToSet
  <2>3. Start({Visit(p, m)}, o) = {n \in {m} : o = p}
    BY <2>1, StartOne
  <2>4. QED
    BY <1>2, <2>1, <2>2, <2>3
<1>3. QED
  BY <1>1, <1>2

\* No calls begin on no node.
LEMMA StartNone == \A o : Start({}, o) = {}
BY DEF Start
-----------------------------------------------------------------------------
(***************************************************************************)
(* What holds of the heap in the middle of a trial.                        *)
(***************************************************************************)

Points == [e \in Slots |-> field[e[1]][e[2]]]

\* Given up: what white frees or has still to free.
Doomed == On(Running, "white") \cup {n \in Node : Phase = "white" /\ color[n] = "white"}
Live   == allocated \ (On(Running, "release") \cup Doomed)

\* The references that fields hold: all but those already released, and those of the doomed;
\* those that the counts tell of; and those that a restored node holds.
Edges   == {e \in Slots : e[1] \in allocated \ Doomed /\ e \notin Past(Running, "release")}
Counted == {e \in Edges : \/ color[e[1]] = "black" /\ e \notin Open(Running, "black")
                          \/ color[e[1]] = "gray" /\ e \in Open(Running, "gray")}
Kept    == {e \in Edges : color[e[1]] = "black"}
Roots   == Rooted \cup On(Running, "release")

Painted(clr, c)         == {n \in Node : clr[n] = c}
Leads(E, pt, D)         == \A e \in E : pt[e] \in D \cup {Null}
Closed(E, pt, D)        == \A e \in E : e[1] \in D => pt[e] \in D \cup {Null}
ClosedIn(clr, c, pt, D) == \A e \in Slots : clr[e[1]] = c /\ e[1] \in D => pt[e] \in D \cup {Null}
\* What of E holds n.
Into(E, pt, n) == {e \in E : pt[e] = n}
Weight(S, n)   == IF n \in S THEN 1 ELSE 0

HeapTyped ==
  /\ immortal \subseteq allocated /\ allocated \subseteq Node
  /\ count \in [Node -> Int]
  /\ color \in [Node -> {"black", "gray", "white"}]
  /\ field \in [Node -> [Field -> Node \cup {Null}]]
  /\ var \in [Var -> Node \cup {Null}]
  /\ \A n \in Node \ allocated : color[n] = "black" /\ \A f \in Field : field[n][f] = Null

Safe ==
  /\ \A v \in Var : var[v] \in Live \cup {Null}
  /\ Leads(Edges, Points, Live)
  /\ Start(Starting, "release") \subseteq Live

Visited ==
  /\ \A n \in Node : color[n] # "black" => n \in allocated \ immortal /\ n \notin On(Running, "release")
  /\ \A o \in Ops : On(Running, o) \subseteq allocated \ immortal
  /\ \A n \in On(Running, "gray") : color[n] = "gray"
  /\ \A n \in On(Running, "scan") : color[n] # "gray" /\ n \in Live
  /\ \A n \in On(Running, "black") : color[n] = "black" /\ n \in Live
  /\ \A n \in On(Running, "white") : color[n] = "black" /\ n \notin On(Running, "release")
  /\ \A n \in On(Running, "release") : color[n] = "black"

Counts ==
  \A n \in Node \ immortal :
    count[n] = Cardinality(Into(Var, var, n)) + Cardinality(Into(Counted, Points, n))
               + Weight(Start(Starting, "release"), n)

RestPhase ==
  Phase = "release" =>
    /\ \A n \in Node : color[n] = "black"
    /\ \A D \in SUBSET Node :
         Roots \subseteq D /\ Start(Starting, "release") \subseteq D /\ Closed(Edges, Points, D)
         => allocated \subseteq D

GrayPhase ==
  Phase = "gray" =>
    /\ \A n \in Node : color[n] # "white"
    /\ Start(Starting, "gray") \subseteq Live
    /\ \A e \in Slots :
         color[e[1]] = "gray" /\ e \notin Open(Running, "gray") /\ Points[e] \in Node \ immortal
         => color[Points[e]] = "gray" \/ Points[e] \in Start(Starting, "gray")
    /\ \A x \in Start(Waiting, "white") :
         /\ x \in Live \ immortal
         /\ color[x] = "gray" \/ x \in Start(Starting, "gray")
         /\ \A D \in SUBSET Node :
              x \in D /\ ClosedIn(color, "gray", Points, D)
              => Painted(color, "gray") \subseteq D /\ Start(Starting, "gray") \subseteq D
         /\ \A D \in SUBSET Node :
              Roots \subseteq D /\ x \in D /\ Closed(Edges, Points, D) => allocated \subseteq D

ScanPhase ==
  Phase \in {"scan", "black"} =>
    /\ \A n \in Start(Starting, "black") : color[n] # "black"
    /\ Start(Starting, "scan") \subseteq Live
    /\ \A e \in Slots :
         /\ e[1] \in On(Running, "black") \/ (e[1] \in On(Running, "scan") /\ color[e[1]] = "black")
         /\ e \notin Open(Running, "black") /\ Points[e] \in Node \ immortal
         => color[Points[e]] = "black" \/ Points[e] \in Start(Starting, "black")
    /\ \A n \in Node : color[n] = "white" /\ n \notin Start(Starting, "black") => count[n] = 0
    /\ \A D \in SUBSET Node :
         /\ Start(Starting, "scan") \subseteq D /\ Start(Starting, "black") \subseteq D
         /\ Leads(Open(Running, "scan"), Points, D) /\ Leads(Open(Running, "black"), Points, D)
         /\ ClosedIn(color, "gray", Points, D)
         => Painted(color, "gray") \subseteq D
    /\ \A x \in Start(Waiting, "white") : \A D \in SUBSET Node :
         /\ x \in D /\ Start(Starting, "black") \subseteq D
         /\ Leads(Open(Running, "black"), Points, D) /\ ClosedIn(color, "white", Points, D)
         => /\ Painted(color, "white") \subseteq D
            /\ \A n \in Start(Starting, "scan") : color[n] = "gray" => n \in D
    /\ \A D \in SUBSET Node :
         Roots \subseteq D /\ Closed(Kept, Points, D)
         => \A n \in allocated : color[n] = "black" \/ n \in Start(Starting, "black") => n \in D

WhitePhase ==
  Phase = "white" =>
    /\ \A n \in Node : color[n] # "gray"
    /\ \A D \in SUBSET Node :
         /\ Start(Starting, "white") \subseteq D
         /\ Leads(Open(Running, "white"), Points, D) /\ ClosedIn(color, "white", Points, D)
         => Painted(color, "white") \subseteq D
    /\ \A D \in SUBSET Node :
         Roots \subseteq D /\ Closed(Edges, Points, D) => allocated \ Doomed \subseteq D

HeapInv ==
  /\ StackInv /\ HeapTyped /\ Safe /\ Visited /\ Counts
  /\ RestPhase /\ GrayPhase /\ ScanPhase /\ WhitePhase
-----------------------------------------------------------------------------
(***************************************************************************)
(* Counting what holds a node.                                             *)
(***************************************************************************)

\* Fields and variables are finitely many,
LEMMA FiniteHolders == IsFiniteSet(Slots) /\ IsFiniteSet(Var)
<1>1. IsFiniteSet(Node) /\ IsFiniteSet(Var) /\ IsFiniteSet(Field)
  BY HeapAssumption, FieldIsFinite, FS_Interval
<1>2. QED
  BY <1>1, FS_Product DEF Slots

\* so what holds a node can be counted.
LEMMA IntoFacts ==
  ASSUME NEW E, IsFiniteSet(E), NEW pt, NEW n
  PROVE  /\ IsFiniteSet(Into(E, pt, n)) /\ Cardinality(Into(E, pt, n)) \in Nat
         /\ Cardinality(Into(E, pt, n)) = 0 <=> Into(E, pt, n) = {}
<1>1. Into(E, pt, n) \subseteq E
  BY DEF Into
<1>2. IsFiniteSet(Into(E, pt, n))
  BY <1>1, FS_Subset
<1>3. QED
  BY <1>2, FS_CardinalityType, FS_EmptySet

\* One reference less.
LEMMA IntoLess ==
  ASSUME NEW E, IsFiniteSet(E), NEW e \in E, NEW pt, NEW n
  PROVE  Cardinality(Into(E \ {e}, pt, n)) = Cardinality(Into(E, pt, n)) - Weight({pt[e]}, n)
<1>1. IsFiniteSet(Into(E, pt, n)) /\ Cardinality(Into(E, pt, n)) \in Nat
  BY IntoFacts
<1>2. CASE pt[e] = n
  <2>1. Into(E \ {e}, pt, n) = Into(E, pt, n) \ {e} /\ e \in Into(E, pt, n)
    BY <1>2 DEF Into
  <2>2. Cardinality(Into(E, pt, n) \ {e}) = Cardinality(Into(E, pt, n)) - 1
    BY <1>1, <2>1, FS_RemoveElement
  <2>3. Weight({pt[e]}, n) = 1
    BY <1>2 DEF Weight
  <2>4. QED
    BY <2>1, <2>2, <2>3
<1>3. CASE pt[e] # n
  <2>1. Into(E \ {e}, pt, n) = Into(E, pt, n)
    BY <1>3 DEF Into
  <2>2. Weight({pt[e]}, n) = 0
    BY <1>3 DEF Weight
  <2>3. QED
    BY <2>1, <2>2, <1>1
<1>4. QED
  BY <1>2, <1>3

\* What holds a node depends on what the references are only.
LEMMA IntoSame ==
  ASSUME NEW E, NEW f, NEW g, \A e \in E : g[e] = f[e], NEW n
  PROVE  Into(E, g, n) = Into(E, f, n)
BY DEF Into

\* One holder now holds something else.
LEMMA IntoRetarget ==
  ASSUME NEW E, IsFiniteSet(E), NEW e \in E, NEW f, NEW g, \A d \in E \ {e} : g[d] = f[d], NEW n
  PROVE  Cardinality(Into(E, g, n)) =
           Cardinality(Into(E, f, n)) - Weight({f[e]}, n) + Weight({g[e]}, n)
<1>1. Into(E \ {e}, g, n) = Into(E \ {e}, f, n)
  BY IntoSame
<1>2. ASSUME NEW h
      PROVE  Cardinality(Into(E \ {e}, h, n)) = Cardinality(Into(E, h, n)) - Weight({h[e]}, n)
  BY IntoLess
<1>3. /\ Cardinality(Into(E \ {e}, f, n)) = Cardinality(Into(E, f, n)) - Weight({f[e]}, n)
      /\ Cardinality(Into(E \ {e}, g, n)) = Cardinality(Into(E, g, n)) - Weight({g[e]}, n)
  BY <1>2
<1>4. Cardinality(Into(E, f, n)) \in Nat /\ Cardinality(Into(E, g, n)) \in Nat
  BY IntoFacts
<1>5. Weight({f[e]}, n) \in Int /\ Weight({g[e]}, n) \in Int
  BY DEF Weight
<1> DEFINE a == Cardinality(Into(E, f, n))
<1> DEFINE b == Cardinality(Into(E, g, n))
<1> DEFINE c == Cardinality(Into(E \ {e}, f, n))
<1>6. c = a - Weight({f[e]}, n) /\ c = b - Weight({g[e]}, n)
  BY <1>1, <1>3
<1>7. a \in Nat /\ b \in Nat
  BY <1>4
<1> HIDE DEF a, b, c
<1>8. b = a - Weight({f[e]}, n) + Weight({g[e]}, n)
  BY <1>5, <1>6, <1>7
<1>9. QED
  BY <1>8 DEF a, b

\* The references that counts tell of are some of those there are.
LEMMA CountedIsFinite == IsFiniteSet(Counted) /\ Counted \subseteq Edges /\ Edges \subseteq Slots
<1>1. Counted \subseteq Slots /\ Counted \subseteq Edges /\ Edges \subseteq Slots
  BY DEF Counted, Edges
<1>2. QED
  BY <1>1, FiniteHolders, FS_Subset

\* A weight is 0 or 1.
LEMMA WeightIs == ASSUME NEW S, NEW n PROVE Weight(S, n) \in {0, 1} /\ (Weight(S, n) = 0 <=> n \notin S)
BY DEF Weight

\* A node that is counted is held by a variable, a field or a release about to begin, and
\* one that is not counted is not.
LEMMA CountMeans ==
  ASSUME Counts, NEW n \in Node \ immortal
  PROVE  /\ count[n] \in Nat
         /\ count[n] # 0 => \/ \E v \in Var : var[v] = n
                            \/ \E e \in Counted : Points[e] = n
                            \/ n \in Start(Starting, "release")
         /\ count[n] = 0 => \A v \in Var : var[v] # n
         /\ count[n] = 0 => \A e \in Counted : Points[e] # n
         /\ count[n] = 1 /\ n \in Start(Starting, "release") => \A v \in Var : var[v] # n
         /\ count[n] = 1 /\ n \in Start(Starting, "release") => \A e \in Counted : Points[e] # n
<1> DEFINE a == Cardinality(Into(Var, var, n))
<1> DEFINE b == Cardinality(Into(Counted, Points, n))
<1> DEFINE w == Weight(Start(Starting, "release"), n)
<1>1. a \in Nat /\ (a = 0 <=> Into(Var, var, n) = {})
  BY FiniteHolders, IntoFacts
<1>2. b \in Nat /\ (b = 0 <=> Into(Counted, Points, n) = {})
  BY CountedIsFinite, IntoFacts
<1>3. w \in {0, 1} /\ (w = 0 <=> n \notin Start(Starting, "release"))
  BY WeightIs
<1>4. count[n] = a + b + w
  BY DEF Counts
<1>5. Into(Var, var, n) = {} <=> \A v \in Var : var[v] # n
  BY DEF Into
<1>6. Into(Counted, Points, n) = {} <=> \A e \in Counted : Points[e] # n
  BY DEF Into
<1> HIDE DEF a, b, w
<1>7. QED
  BY <1>1, <1>2, <1>3, <1>4, <1>5, <1>6
-----------------------------------------------------------------------------
(***************************************************************************)
(* Gray.                                                                   *)
(***************************************************************************)

\* A topmost call that has not begun is the only one that starts.
LEMMA StartingIs ==
  ASSUME StackInv, stack # << >>, Current.at = 0
  PROVE  /\ Current.node \in Node /\ Start(Starting, Phase) = {Current.node}
         /\ \A o : o # Phase => Start(Starting, o) = {}
<1>1. /\ Current.node \in Node /\ Current.op = Phase /\ Starting = {Current}
      /\ Current = Visit(Current.op, Current.node)
  BY CurrentFacts
<1>2. Starting = {Visit(Phase, Current.node)}
  BY <1>1
<1>3. \A o : Start({Visit(Phase, Current.node)}, o) = {n \in {Current.node} : o = Phase}
  BY <1>1, StartOne
<1>4. QED
  BY <1>1, <1>2, <1>3

\* Gray colours a node.
LEMMA BeginGrayKeeps ==
  ASSUME HeapInv, BeginGray, Gray(Current.node)
  PROVE  HeapInv'
<1> DEFINE n == Current.node
<1>1. StackInv /\ HeapTyped /\ Safe /\ Visited /\ Counts /\ GrayPhase
  BY DEF HeapInv
<1>2. stack # << >> /\ Phase = "gray" /\ Current.at = 0 /\ Current.op = "gray"
  BY DEF BeginGray, Begins, Phase
<1>3. n \in Node /\ Start(Starting, "gray") = {n} /\ Start(Starting, "release") = {}
  BY <1>1, <1>2, StartingIs
<1>4. \A o \in {"black", "scan", "white"} : On(Running, o) = {} /\ Open(Running, o) = {}
  BY <1>1, <1>2, NotBelow DEF Below
<1>5. /\ color' = [color EXCEPT ![n] = "gray"] /\ Walk(<< >>)
      /\ UNCHANGED <<immortal, allocated, count, field, var>>
      /\ n \notin immortal /\ color[n] # "gray"
  BY <1>3 DEF BeginGray, Gray, Mortal
<1>6. n \in Live /\ n \in allocated \ immortal /\ color[n] = "black" /\ n \notin On(Running, "release")
  BY <1>1, <1>2, <1>3, <1>5 DEF GrayPhase, Live, HeapTyped
<1>7. n \notin On(Running, "gray")
  BY <1>1, <1>5 DEF Visited
<1>8. /\ StackInv' /\ Phase' = "gray" /\ Starting' = {} /\ Waiting' = Waiting
      /\ On(Running', "gray") = On(Running, "gray") \cup {n}
      /\ Open(Running', "gray") = Open(Running, "gray") \cup ({n} \X Field)
      /\ \A o : o # "gray" => /\ On(Running', o) = On(Running, o)
                              /\ Open(Running', o) = Open(Running, o)
                              /\ Past(Running', o) = Past(Running, o)
  BY <1>1, <1>2, <1>5, <1>7, BeginMove
<1> HIDE DEF n
<1>9. Start(Starting', "release") = {} /\ Start(Starting', "gray") = {} /\ Start(Waiting', "white") = Start(Waiting, "white")
  BY <1>8, StartNone
<1>10. color'[n] = "gray" /\ \A m \in Node \ {n} : color'[m] = color[m]
  BY <1>1, <1>3, <1>5 DEF HeapTyped
<1>11. /\ Doomed' = {} /\ Doomed = {} /\ Points' = Points /\ Live' = Live /\ Edges' = Edges /\ Roots' = Roots
  <2>1. Doomed' = {} /\ Doomed = {}
    BY <1>2, <1>4, <1>8 DEF Doomed
  <2>2. Points' = Points
    BY <1>5 DEF Points
  <2>3. Live' = Live /\ Edges' = Edges
    BY <2>1, <1>5, <1>8 DEF Live, Edges
  <2>4. Roots' = Roots
    BY <1>5, <1>8 DEF Roots, Rooted, Named
  <2>5. QED
    BY <2>1, <2>2, <2>3, <2>4
<1>12. Counted' = Counted
  <2>1. ASSUME NEW e \in Edges PROVE e \in Counted' <=> e \in Counted
    <3>1. e[1] \in Node /\ e \in Slots
      BY DEF Edges, Slots
    <3>2. e \in {n} \X Field <=> e[1] = n
      BY <3>1 DEF Slots
    <3>3. Open(Running', "black") = {} /\ Open(Running, "black") = {}
      BY <1>4, <1>8
    <3>4. e \in Open(Running', "gray") <=> e \in Open(Running, "gray") \/ e[1] = n
      BY <3>2, <1>8
    <3>5. e \in Edges'
      BY <1>11
    <3>6. CASE e[1] = n
      BY <3>3, <3>4, <3>5, <3>6, <1>6, <1>10 DEF Counted
    <3>7. CASE e[1] # n
      BY <3>1, <3>3, <3>4, <3>5, <3>7, <1>10 DEF Counted
    <3>8. QED
      BY <3>6, <3>7
  <2>2. Counted \subseteq Edges /\ Counted' \subseteq Edges
    BY <1>11 DEF Counted
  <2>3. QED
    BY <2>1, <2>2
<1>13. HeapTyped'
  BY <1>1, <1>5, <1>6, <1>10 DEF HeapTyped
<1>14. Safe'
  BY <1>1, <1>3, <1>5, <1>9, <1>11 DEF Safe
<1>15. Visited'
  BY <1>1, <1>4, <1>5, <1>6, <1>8, <1>10, <1>11 DEF Visited, Ops
<1>16. Counts'
  BY <1>1, <1>3, <1>5, <1>9, <1>11, <1>12 DEF Counts
<1>17. GrayPhase'
  <2>1. \A m \in Node : color'[m] # "white"
    BY <1>1, <1>2, <1>10 DEF GrayPhase
  <2>2. ASSUME NEW e \in Slots, color'[e[1]] = "gray", e \notin Open(Running', "gray"), Points'[e] \in Node \ immortal'
        PROVE  color'[Points'[e]] = "gray"
    <3>1. e[1] \in Node /\ e[1] # n /\ e \notin Open(Running, "gray")
      BY <2>2, <1>8 DEF Slots
    <3>2. color[e[1]] = "gray" /\ Points[e] \in Node \ immortal
      BY <3>1, <2>2, <1>5, <1>10, <1>11
    <3>3. color[Points[e]] = "gray" \/ Points[e] = n
      BY <3>1, <3>2, <1>1, <1>2, <1>3 DEF GrayPhase
    <3>4. QED
      BY <3>2, <3>3, <1>10, <1>11
  <2>3. ASSUME NEW x \in Start(Waiting, "white")
        PROVE  /\ x \in Live' \ immortal' /\ color'[x] = "gray"
               /\ \A D \in SUBSET Node :
                    x \in D /\ ClosedIn(color', "gray", Points', D) => Painted(color', "gray") \subseteq D
               /\ \A D \in SUBSET Node :
                    Roots' \subseteq D /\ x \in D /\ Closed(Edges', Points', D) => allocated' \subseteq D
    <3>1. /\ x \in Live \ immortal
          /\ color[x] = "gray" \/ x \in Start(Starting, "gray")
          /\ \A D \in SUBSET Node :
               x \in D /\ ClosedIn(color, "gray", Points, D)
               => Painted(color, "gray") \subseteq D /\ Start(Starting, "gray") \subseteq D
          /\ \A D \in SUBSET Node :
               Roots \subseteq D /\ x \in D /\ Closed(Edges, Points, D) => allocated \subseteq D
      BY <2>3, <1>1, <1>2 DEF GrayPhase
    <3>2. x \in Live' \ immortal' /\ color'[x] = "gray"
      BY <3>1, <1>3, <1>5, <1>10, <1>11 DEF Live, HeapTyped
    <3>3. ASSUME NEW D \in SUBSET Node, x \in D, ClosedIn(color', "gray", Points', D)
          PROVE  Painted(color', "gray") \subseteq D
      <4>1. ClosedIn(color, "gray", Points, D)
        BY <3>3, <1>5, <1>10, <1>11 DEF ClosedIn, Slots
      <4>2. Painted(color, "gray") \subseteq D /\ n \in D
        BY <3>1, <3>3, <4>1, <1>3
      <4>3. QED
        BY <4>2, <1>10 DEF Painted
    <3>4. \A D \in SUBSET Node :
             Roots' \subseteq D /\ x \in D /\ Closed(Edges', Points', D) => allocated' \subseteq D
      BY <3>1, <1>5, <1>11
    <3>5. QED
      BY <3>2, <3>3, <3>4
  <2>4. QED
    BY <2>1, <2>2, <2>3, <1>9 DEF GrayPhase
<1>18. RestPhase' /\ ScanPhase' /\ WhitePhase'
  BY <1>8 DEF RestPhase, ScanPhase, WhitePhase
<1>19. QED
  BY <1>8, <1>13, <1>14, <1>15, <1>16, <1>17, <1>18 DEF HeapInv

\* A call visits a field.
LEMMA VisitMove ==
  ASSUME StackInv, stack # << >>, Current.at \in Field,
         NEW m \in Node \cup {Null}, Walk(CallsOn(Phase, m)),
         NEW e, e = <<Current.node, Current.at>>
  PROVE  /\ StackInv' /\ Phase' = Phase
         /\ Start(Starting', Phase) = {m} \ {Null} /\ \A o : o # Phase => Start(Starting', o) = {}
         /\ \A o : Start(Starting, o) = {}
         /\ Start(Waiting', "white") = Start(Waiting, "white")
         /\ e \in Slots /\ e[1] = Current.node /\ e \in Open(Running, Phase) /\ e \notin Past(Running, Phase)
         /\ e[1] \in On(Running, Phase) /\ Points[e] = Child
         /\ \A o : On(Running', o) = On(Running, o)
         /\ Open(Running', Phase) = Open(Running, Phase) \ {e}
         /\ Past(Running', Phase) = Past(Running, Phase) \cup {e}
         /\ \A o : o # Phase => Open(Running', o) = Open(Running, o) /\ Past(Running', o) = Past(Running, o)
<1>1. CallsOn(Phase, m) = << >> \/ \E x \in Node : CallsOn(Phase, m) = <<Visit(Phase, x)>>
  BY DEF CallsOn
<1>2. /\ StackInv' /\ Phase' = Phase /\ Starting' = ToSet(CallsOn(Phase, m)) /\ Waiting' = Waiting
      /\ Current.node \in On(Running, Phase) /\ e \in Open(Running, Phase)
      /\ Starting = {}
      /\ On(Running', Phase) = On(Running, Phase)
      /\ Open(Running', Phase) = Open(Running, Phase) \ {e}
      /\ Past(Running', Phase) = Past(Running, Phase) \cup {e}
      /\ \A o : o # Phase => /\ On(Running', o) = On(Running, o)
                             /\ Open(Running', o) = Open(Running, o)
                             /\ Past(Running', o) = Past(Running, o)
  BY <1>1, FieldMove
<1>3. ASSUME NEW o
      PROVE  Start(Starting', o) = {n \in {m} \ {Null} : o = Phase}
  <2>1. Start(ToSet(CallsOn(Phase, m)), o) = {n \in {m} \ {Null} : o = Phase}
    BY StartCalls
  <2>2. QED
    BY <2>1, <1>2
<1>4. e \in Slots /\ e[1] = Current.node /\ e[2] = Current.at /\ Points[e] = Child
  BY CurrentFacts DEF Slots, Points, Child
<1>5. e \notin Past(Running, Phase)
  <2>1. ASSUME NEW c \in Running, c.op = Phase, c.node = e[1] PROVE c = Current
    <3>1. Current \in Running /\ Current.op = Phase
      BY CurrentFacts, FieldIsFinite
    <3>2. QED
      BY <2>1, <3>1, <1>4 DEF StackInv
  <2>2. ~(e[2] < Current.at)
    BY <1>4, FieldIsFinite
  <2>3. QED
    BY <2>1, <2>2 DEF Past
<1>6. \A o : Start(Starting, o) = {}
  BY <1>2, StartNone
<1>7. QED
  BY <1>2, <1>3, <1>4, <1>5, <1>6

\* Gray takes a count down for a field, and goes on to what it points to.
LEMMA GrayFieldKeeps ==
  ASSUME HeapInv, GrayField
  PROVE  HeapInv'
<1> DEFINE m == Child
<1> DEFINE e == <<Current.node, Current.at>>
<1>1. StackInv /\ HeapTyped /\ Safe /\ Visited /\ Counts /\ GrayPhase
  BY DEF HeapInv
<1>2. stack # << >> /\ Phase = "gray" /\ Current.at \in Field /\ Current.op = "gray"
  BY DEF GrayField, AtField, Phase
<1>3. \A o \in {"black", "scan", "white"} : On(Running, o) = {} /\ Open(Running, o) = {}
  BY <1>1, <1>2, NotBelow DEF Below
<1>4. /\ count' = (IF m \in Node \ immortal THEN [count EXCEPT ![m] = @ - 1] ELSE count)
      /\ Walk(CallsOn("gray", m))
      /\ UNCHANGED <<immortal, allocated, color, field, var>>
  BY DEF GrayField, Mortal
<1>5. m \in Node \cup {Null}
  BY <1>1, <1>2, CurrentFacts DEF HeapTyped, Child
<1>6. /\ StackInv' /\ Phase' = "gray"
      /\ Start(Starting', "gray") = {m} \ {Null} /\ \A o : o # "gray" => Start(Starting', o) = {}
      /\ \A o : Start(Starting, o) = {}
      /\ Start(Waiting', "white") = Start(Waiting, "white")
      /\ e \in Slots /\ e \in Open(Running, "gray")
      /\ e[1] \in On(Running, "gray") /\ Points[e] = m
      /\ \A o : On(Running', o) = On(Running, o)
      /\ Open(Running', "gray") = Open(Running, "gray") \ {e}
      /\ \A o : o # "gray" => Open(Running', o) = Open(Running, o) /\ Past(Running', o) = Past(Running, o)
  BY <1>1, <1>2, <1>4, <1>5, VisitMove
<1> HIDE DEF m, e
<1>7. /\ Start(Starting', "release") = {} /\ Start(Starting, "release") = {}
      /\ Start(Starting, "gray") = {} /\ Start(Starting', "gray") = {m} \ {Null}
  BY <1>6
<1>8. /\ Doomed' = {} /\ Doomed = {} /\ Points' = Points /\ Live' = Live /\ Edges' = Edges /\ Roots' = Roots
  <2>1. Doomed' = {} /\ Doomed = {}
    BY <1>2, <1>3, <1>6 DEF Doomed
  <2>2. Points' = Points
    BY <1>4 DEF Points
  <2>3. Live' = Live /\ Edges' = Edges
    BY <2>1, <1>4, <1>6 DEF Live, Edges
  <2>4. Roots' = Roots
    BY <1>4, <1>6 DEF Roots, Rooted, Named
  <2>5. QED
    BY <2>1, <2>2, <2>3, <2>4
<1>9. e[1] \in Node /\ color[e[1]] = "gray" /\ e[1] \in allocated /\ e[1] \notin On(Running, "release")
  BY <1>1, <1>6 DEF Visited, Ops, Slots
<1>10. e \in Counted
  <2>1. e \notin Past(Running, "release")
    <3>1. \A d \in Past(Running, "release") : d[1] \in On(Running, "release")
      BY DEF On, Past, Slots
    <3>2. QED
      BY <3>1, <1>9
  <2>2. QED
    BY <2>1, <1>6, <1>8, <1>9 DEF Counted, Edges
<1>11. Counted' = Counted \ {e}
  BY <1>3, <1>4, <1>6, <1>8, <1>9 DEF Counted
<1>12. HeapTyped'
  BY <1>1, <1>4 DEF HeapTyped
<1>13. Safe'
  BY <1>1, <1>4, <1>7, <1>8 DEF Safe
<1>14. Visited'
  BY <1>1, <1>4, <1>6, <1>8 DEF Visited
<1>15. Counts'
  <2>1. SUFFICES ASSUME NEW k \in Node \ immortal
                 PROVE  count'[k] = Cardinality(Into(Var, var, k)) + Cardinality(Into(Counted \ {e}, Points, k))
                                    + Weight({}, k)
    BY <1>4, <1>7, <1>8, <1>11 DEF Counts
  <2>2. count[k] = Cardinality(Into(Var, var, k)) + Cardinality(Into(Counted, Points, k))
    <3>1. Cardinality(Into(Var, var, k)) \in Nat /\ Cardinality(Into(Counted, Points, k)) \in Nat
      BY FiniteHolders, CountedIsFinite, IntoFacts
    <3>2. QED
      BY <3>1, <1>1, <1>7 DEF Counts, Weight
  <2>3. Cardinality(Into(Counted \ {e}, Points, k)) = Cardinality(Into(Counted, Points, k)) - Weight({m}, k)
    <3>1. Cardinality(Into(Counted \ {e}, Points, k)) = Cardinality(Into(Counted, Points, k)) - Weight({Points[e]}, k)
      BY <1>10, CountedIsFinite, IntoLess
    <3>2. QED
      BY <3>1, <1>6
  <2>4. count'[k] = count[k] - Weight({m}, k)
    BY <1>1, <1>4 DEF Weight, HeapTyped
  <2>5. /\ Cardinality(Into(Var, var, k)) \in Nat /\ Cardinality(Into(Counted, Points, k)) \in Nat /\ Weight({m}, k) \in {0, 1}
        /\ Weight({}, k) = 0
    BY FiniteHolders, CountedIsFinite, IntoFacts, WeightIs DEF Weight
  <2>6. QED
    BY <2>2, <2>3, <2>4, <2>5
<1>16. GrayPhase'
  <2>1. m \in Live \cup {Null}
    BY <1>1, <1>6, <1>10 DEF Safe, Leads, Counted
  <2>2. Start(Starting', "gray") \subseteq Live'
    BY <2>1, <1>7, <1>8
  <2>3. ASSUME NEW d \in Slots, color'[d[1]] = "gray", d \notin Open(Running', "gray"), Points'[d] \in Node \ immortal'
        PROVE  color'[Points'[d]] = "gray" \/ Points'[d] \in Start(Starting', "gray")
    <3>1. CASE d = e
      BY <3>1, <2>3, <1>5, <1>6, <1>7, <1>8, HeapAssumption
    <3>2. CASE d # e
      <4>1. color[d[1]] = "gray" /\ d \notin Open(Running, "gray") /\ Points[d] \in Node \ immortal
        BY <3>2, <2>3, <1>4, <1>6, <1>8
      <4>2. color[Points[d]] = "gray"
        BY <4>1, <1>1, <1>2, <1>7 DEF GrayPhase
      <4>3. QED
        BY <4>2, <1>4, <1>8
    <3>3. QED
      BY <3>1, <3>2
  <2>4. ASSUME NEW x \in Start(Waiting, "white")
        PROVE  /\ x \in Live' \ immortal' /\ color'[x] = "gray"
               /\ \A D \in SUBSET Node :
                    x \in D /\ ClosedIn(color', "gray", Points', D)
                    => Painted(color', "gray") \subseteq D /\ Start(Starting', "gray") \subseteq D
               /\ \A D \in SUBSET Node :
                    Roots' \subseteq D /\ x \in D /\ Closed(Edges', Points', D) => allocated' \subseteq D
    <3>1. /\ x \in Live \ immortal /\ color[x] = "gray"
          /\ \A D \in SUBSET Node :
               x \in D /\ ClosedIn(color, "gray", Points, D) => Painted(color, "gray") \subseteq D
          /\ \A D \in SUBSET Node :
               Roots \subseteq D /\ x \in D /\ Closed(Edges, Points, D) => allocated \subseteq D
      BY <2>4, <1>1, <1>2, <1>7 DEF GrayPhase
    <3>2. ASSUME NEW D \in SUBSET Node, x \in D, ClosedIn(color, "gray", Points, D)
          PROVE  Painted(color, "gray") \subseteq D /\ Start(Starting', "gray") \subseteq D
      <4>1. Painted(color, "gray") \subseteq D
        BY <3>1, <3>2
      <4>2. e[1] \in D
        BY <4>1, <1>9 DEF Painted
      <4>3. Points[e] \in D \cup {Null}
        BY <4>2, <3>2, <1>6, <1>9 DEF ClosedIn
      <4>4. QED
        BY <4>1, <4>3, <1>6, <1>7
    <3>3. QED
      BY <3>1, <3>2, <1>4, <1>8
  <2>5. \A k \in Node : color'[k] # "white"
    BY <1>1, <1>2, <1>4 DEF GrayPhase
  <2>6. QED
    BY <2>2, <2>3, <2>4, <2>5, <1>6 DEF GrayPhase
<1>17. RestPhase' /\ ScanPhase' /\ WhitePhase'
  BY <1>6 DEF RestPhase, ScanPhase, WhitePhase
<1>18. QED
  BY <1>6, <1>12, <1>13, <1>14, <1>15, <1>16, <1>17 DEF HeapInv

\* A call returns.
LEMMA LeaveViews ==
  ASSUME StackInv, stack # << >>, Leave, Current.at = 0 \/ Current.at = Fields + 1
  PROVE  /\ \A o : Open(Running', o) = Open(Running, o)
         /\ \A o : o # Phase => On(Running', o) = On(Running, o) /\ Past(Running', o) = Past(Running, o)
         /\ On(Running', Phase) \subseteq On(Running, Phase)
         /\ Current.at = 0 => /\ On(Running', Phase) = On(Running, Phase)
                              /\ Past(Running', Phase) = Past(Running, Phase)
         /\ Current.at = Fields + 1 =>
              /\ \A o : Start(Starting, o) = {}
              /\ Current.node \in On(Running, Phase)
              /\ \A f \in Field : <<Current.node, f>> \in Past(Running, Phase)
              /\ On(Running', Phase) = On(Running, Phase) \ {Current.node}
              /\ Past(Running', Phase) = {e \in Past(Running, Phase) : e[1] # Current.node}
<1>1. /\ Current.op = Phase /\ Current.node \in Node /\ Running \in SUBSET VisitType
      /\ Running' = Running \ {Current}
      /\ Current.at = 0 => Current \notin Running
      /\ Current.at > 0 => Current \in Running /\ Starting = {}
      /\ \A c, d \in Running : c.op = d.op /\ c.node = d.node => c = d
  BY CurrentFacts, LeaveMove DEF StackInv
<1>2. CASE Current.at = 0
  <2>1. Running' = Running
    BY <1>1, <1>2
  <2>2. Current.at # Fields + 1
    BY <1>2, FieldIsFinite
  <2>3. QED
    BY <2>1, <2>2
<1>3. CASE Current.at = Fields + 1
  <2> DEFINE c == Current
  <2>1. /\ c.at = Fields + 1 /\ c \in Running /\ Starting = {} /\ c.at # 0
        /\ Running \in SUBSET VisitType /\ Running' = Running \ {c} /\ c.op = Phase /\ c.node \in Node
        /\ \A b \in Running : b.op = c.op /\ b.node = c.node => b = c
    BY <1>1, <1>3, FieldIsFinite
  <2> HIDE DEF c
  <2>2. ASSUME NEW o
        PROVE  /\ On(Running', o) = {n \in On(Running, o) : ~(c.op = o /\ n = c.node)}
               /\ Open(Running', o) = Open(Running, o)
               /\ Past(Running', o) = {e \in Past(Running, o) : ~(c.op = o /\ e[1] = c.node)}
    <3>1. On(Running \ {c}, o) = {n \in On(Running, o) : ~(c.op = o /\ n = c.node)}
      BY <2>1, OnDone
    <3>2. Open(Running \ {c}, o) = Open(Running, o)
      BY <2>1, OpenDone
    <3>3. Past(Running \ {c}, o) = {e \in Past(Running, o) : ~(c.op = o /\ e[1] = c.node)}
      BY <2>1, PastDone
    <3>4. QED
      BY <3>1, <3>2, <3>3, <2>1
  <2>3. c.node \in On(Running, Phase)
    BY <2>1 DEF On
  <2>4. \A f \in Field : <<c.node, f>> \in Past(Running, Phase)
    BY <2>1, FieldIsFinite DEF Past, Slots
  <2>5. \A o : Start(Starting, o) = {}
    BY <2>1, StartNone
  <2>6. /\ On(Running', Phase) = On(Running, Phase) \ {c.node}
        /\ Past(Running', Phase) = {e \in Past(Running, Phase) : e[1] # c.node}
    BY <2>1, <2>2
  <2>7. \A o : o # Phase => On(Running', o) = On(Running, o) /\ Past(Running', o) = Past(Running, o)
    BY <2>1, <2>2
  <2>8. QED
    BY <2>1, <2>2, <2>3, <2>4, <2>5, <2>6, <2>7 DEF c
<1>4. QED
  BY <1>2, <1>3

\* A traversal that is on no node has nothing to visit.
LEMMA OpenIsOn == \A R, o : On(R, o) = {} => Open(R, o) = {}
BY DEF On, Open, Slots

\* Gray returns, from a node it does not take or has done; after the last, scan begins.
LEMMA GrayLeaves ==
  ASSUME HeapInv, stack # << >>, Phase = "gray", Leave, UNCHANGED <<heap, var>>,
         (Current.at = 0 /\ ~Gray(Current.node)) \/ Current.at = Fields + 1
  PROVE  HeapInv'
<1>1. StackInv /\ HeapTyped /\ Safe /\ Visited /\ Counts /\ GrayPhase
  BY DEF HeapInv
<1>2. \A o \in {"black", "scan", "white"} : On(Running, o) = {} /\ Open(Running, o) = {}
  BY <1>1, NotBelow DEF Below
<1>3. PICK x \in Node : Waiting = {Visit("scan", x), Visit("white", x)}
  BY <1>1 DEF StackInv, Agenda
<1>4. Start(Waiting, "white") = {x}
  BY <1>3, StartTwo
<1>5. UNCHANGED <<immortal, allocated, count, color, field, var>>
  BY DEF heap
<1>6. /\ \A o : Open(Running', o) = Open(Running, o)
      /\ \A o : o # "gray" => On(Running', o) = On(Running, o) /\ Past(Running', o) = Past(Running, o)
      /\ On(Running', "gray") \subseteq On(Running, "gray")
  BY <1>1, LeaveViews
<1>7. Start(Starting, "release") = {} /\ \A k \in Start(Starting, "gray") : k \notin immortal => color[k] = "gray"
  <2>1. CASE Current.at = 0 /\ ~Gray(Current.node)
    BY <2>1, <1>1, StartingIs DEF Gray, Mortal
  <2>2. CASE Current.at = Fields + 1
    BY <2>2, <1>1, LeaveViews
  <2>3. QED
    BY <2>1, <2>2
<1>8. \/ StackInv' /\ Phase' = "gray" /\ Starting' = {} /\ Waiting' = Waiting
      \/ /\ StackInv' /\ Phase' = "scan" /\ On(Running', "gray") = {}
         /\ Starting' = {Visit("scan", x)} /\ Waiting' = {Visit("white", x)}
  <2>1. \A y \in Node : Waiting = {Visit("scan", y), Visit("white", y)} => y = x
    <3>1. ASSUME NEW y \in Node, Waiting = {Visit("scan", y), Visit("white", y)} PROVE y = x
      <4>1. Start(Waiting, "white") = {y}
        BY <3>1, StartTwo
      <4>2. QED
        BY <4>1, <1>4
    <3>2. QED
      BY <3>1
  <2>2. QED
    BY <2>1, <1>1, LeaveMove
<1>9. /\ \A e \in Slots :
           color[e[1]] = "gray" /\ e \notin Open(Running, "gray") /\ Points[e] \in Node \ immortal
           => color[Points[e]] = "gray"
      /\ x \in Live \ immortal /\ color[x] = "gray"
      /\ \A D \in SUBSET Node :
           x \in D /\ ClosedIn(color, "gray", Points, D) => Painted(color, "gray") \subseteq D
      /\ \A D \in SUBSET Node :
           Roots \subseteq D /\ x \in D /\ Closed(Edges, Points, D) => allocated \subseteq D
  <2>1. /\ x \in Live \ immortal
        /\ color[x] = "gray" \/ x \in Start(Starting, "gray")
        /\ \A D \in SUBSET Node :
             x \in D /\ ClosedIn(color, "gray", Points, D) => Painted(color, "gray") \subseteq D
        /\ \A D \in SUBSET Node :
             Roots \subseteq D /\ x \in D /\ Closed(Edges, Points, D) => allocated \subseteq D
    BY <1>1, <1>4 DEF GrayPhase
  <2>2. \A e \in Slots :
          color[e[1]] = "gray" /\ e \notin Open(Running, "gray") /\ Points[e] \in Node \ immortal
          => color[Points[e]] = "gray" \/ Points[e] \in Start(Starting, "gray")
    BY <1>1 DEF GrayPhase
  <2>3. QED
    BY <2>1, <2>2, <1>7
<1>10. \A k \in Node : color[k] # "white"
  BY <1>1 DEF GrayPhase
<1>11. Start(Starting', "release") = {} /\ Start(Starting', "black") = {}
  <2>1. Start({Visit("scan", x)}, "release") = {} /\ Start({Visit("scan", x)}, "black") = {}
    BY DEF Start, Visit
  <2>2. QED
    BY <2>1, <1>8, StartNone
<1>12. /\ Doomed' = {} /\ Doomed = {} /\ Points' = Points /\ Live' = Live /\ Edges' = Edges /\ Roots' = Roots
       /\ Counted' = Counted /\ Kept' = Kept
  <2>1. Doomed' = {} /\ Doomed = {}
    BY <1>2, <1>6, <1>8 DEF Doomed
  <2>2. Points' = Points
    BY <1>5 DEF Points
  <2>3. Live' = Live /\ Edges' = Edges
    BY <2>1, <1>5, <1>6 DEF Live, Edges
  <2>4. Roots' = Roots
    BY <1>5, <1>6 DEF Roots, Rooted, Named
  <2>5. Counted' = Counted /\ Kept' = Kept
    BY <2>3, <1>5, <1>6 DEF Counted, Kept
  <2>6. QED
    BY <2>1, <2>2, <2>3, <2>4, <2>5
<1>13. HeapTyped'
  BY <1>1, <1>5 DEF HeapTyped
<1>14. Safe'
  BY <1>1, <1>5, <1>7, <1>11, <1>12 DEF Safe
<1>15. Visited'
  BY <1>1, <1>5, <1>6, <1>12 DEF Visited
<1>16. Counts'
  BY <1>1, <1>5, <1>7, <1>11, <1>12 DEF Counts
<1>17. CASE Phase' = "gray" /\ Starting' = {} /\ Waiting' = Waiting
  <2>1. Start(Starting', "gray") = {} /\ Start(Waiting', "white") = {x}
    BY <1>4, <1>17, StartNone
  <2>2. GrayPhase'
    BY <2>1, <1>5, <1>6, <1>9, <1>10, <1>12 DEF GrayPhase
  <2>3. RestPhase' /\ ScanPhase' /\ WhitePhase'
    BY <1>17 DEF RestPhase, ScanPhase, WhitePhase
  <2>4. QED
    BY <2>2, <2>3, <1>8, <1>13, <1>14, <1>15, <1>16 DEF HeapInv
<1>18. CASE /\ Phase' = "scan" /\ On(Running', "gray") = {}
            /\ Starting' = {Visit("scan", x)} /\ Waiting' = {Visit("white", x)}
  <2>1. Start(Starting', "scan") = {x} /\ Start(Waiting', "white") = {x}
    BY <1>18, StartOne
  <2>2. Open(Running, "gray") = {}
    BY <1>6, <1>18, OpenIsOn
  <2>3. On(Running', "black") = {} /\ On(Running', "scan") = {} /\ Open(Running', "black") = {} /\ Open(Running', "scan") = {}
    BY <1>2, <1>6
  <2>4. \A D \in SUBSET Node :
          Roots \subseteq D /\ Closed(Kept, Points, D) => \A n \in allocated : color[n] = "black" => n \in D
    <3>1. SUFFICES ASSUME NEW D \in SUBSET Node, Roots \subseteq D, Closed(Kept, Points, D),
                          NEW n \in allocated, color[n] = "black"
                   PROVE  n \in D
      OBVIOUS
    <3> DEFINE E == D \cup Painted(color, "gray")
    <3>2. E \in SUBSET Node /\ Roots \subseteq E /\ x \in E
      BY <3>1, <1>9 DEF Painted
    <3>3. ASSUME NEW e \in Edges, e[1] \in E PROVE Points[e] \in E \cup {Null}
      <4>1. e \in Slots /\ e[1] \in Node /\ Points[e] \in Node \cup {Null}
        BY <1>1 DEF Edges, Points, Slots, HeapTyped
      <4>2. CASE color[e[1]] = "gray"
        <5>1. Points[e] \in Node \ immortal => color[Points[e]] = "gray"
          BY <4>1, <4>2, <2>2, <1>9
        <5>2. Points[e] \in immortal /\ Points[e] # Null => Points[e] \in Roots
          BY DEF Roots, Rooted, Named
        <5>3. QED
          BY <5>1, <5>2, <4>1, <3>1 DEF Painted
      <4>3. CASE color[e[1]] = "black"
        <5>1. e \in Kept /\ e[1] \in D
          BY <4>3, <3>3 DEF Kept, Painted
        <5>2. QED
          BY <5>1, <3>1 DEF Closed
      <4>4. QED
        BY <4>1, <4>2, <4>3, <1>1, <1>10 DEF HeapTyped
    <3>4. Closed(Edges, Points, E)
      BY <3>3 DEF Closed
    <3> HIDE DEF E
    <3>5. allocated \subseteq E
      BY <3>2, <3>4, <1>9
    <3>6. QED
      BY <3>1, <3>5 DEF E, Painted
  <2>5. \A D \in SUBSET Node :
          x \in D /\ ClosedIn(color, "gray", Points, D) => Painted(color, "gray") \subseteq D
    BY <1>9
  <2>6. Painted(color, "white") = {}
    BY <1>10 DEF Painted
  <2>7. x \in Live
    BY <1>9
  <2>8. ScanPhase'
    BY <2>1, <2>3, <2>4, <2>5, <2>6, <2>7, <1>5, <1>10, <1>11, <1>12 DEF ScanPhase
  <2>9. RestPhase' /\ GrayPhase' /\ WhitePhase'
    BY <1>18 DEF RestPhase, GrayPhase, WhitePhase
  <2>10. QED
    BY <2>8, <2>9, <1>8, <1>13, <1>14, <1>15, <1>16 DEF HeapInv
<1>19. QED
  BY <1>8, <1>17, <1>18
-----------------------------------------------------------------------------
(***************************************************************************)
(* Scan and black.                                                         *)
(***************************************************************************)

\* Scan finds a node still counted.
LEMMA BeginScanRestores ==
  ASSUME HeapInv, BeginScan, color[Current.node] = "gray", Mortal(Current.node),
         count[Current.node] > 0
  PROVE  HeapInv'
<1> DEFINE n == Current.node
<1>1. StackInv /\ HeapTyped /\ Safe /\ Visited /\ Counts /\ ScanPhase
  BY DEF HeapInv
<1>2. stack # << >> /\ Phase = "scan" /\ Current.at = 0 /\ Current.op = "scan"
  BY DEF BeginScan, Begins, Phase
<1>3. n \in Node /\ Start(Starting, "scan") = {n} /\ Start(Starting, "release") = {} /\ Start(Starting, "black") = {}
  BY <1>1, <1>2, StartingIs
<1>4. \A o \in {"black", "gray", "white"} : On(Running, o) = {} /\ Open(Running, o) = {}
  BY <1>1, <1>2, NotBelow DEF Below
<1>5. n \notin immortal /\ color[n] = "gray" /\ n # Null
  BY <1>3, HeapAssumption DEF Mortal
<1>6. Become(<<Visit("black", n)>>) /\ UNCHANGED <<immortal, allocated, count, color, field, var>>
  BY <1>3, <1>5 DEF BeginScan, Mortal, CallsOn
<1>7. /\ StackInv' /\ Phase' = "black" /\ Running' = Running /\ Starting' = {Visit("black", n)}
      /\ Waiting' = Waiting
  BY <1>1, <1>2, <1>3, <1>6, BlackenMove
<1>8. count[n] > 0
  OBVIOUS
<1> HIDE DEF n
<1>9. /\ Start(Starting', "black") = {n} /\ Start(Starting', "release") = {} /\ Start(Starting', "scan") = {}
  BY <1>3, <1>7 DEF Start, Visit
<1>10. /\ Doomed' = {} /\ Doomed = {} /\ Points' = Points /\ Live' = Live /\ Edges' = Edges /\ Roots' = Roots
       /\ Counted' = Counted /\ Kept' = Kept
  <2>1. Doomed' = {} /\ Doomed = {}
    BY <1>2, <1>4, <1>7 DEF Doomed
  <2>2. Points' = Points
    BY <1>6 DEF Points
  <2>3. Live' = Live /\ Edges' = Edges
    BY <2>1, <1>6, <1>7 DEF Live, Edges
  <2>4. Roots' = Roots
    BY <1>6, <1>7 DEF Roots, Rooted, Named
  <2>5. Counted' = Counted /\ Kept' = Kept
    BY <2>3, <1>6, <1>7 DEF Counted, Kept
  <2>6. QED
    BY <2>1, <2>2, <2>3, <2>4, <2>5
<1>11. HeapTyped'
  BY <1>1, <1>6 DEF HeapTyped
<1>12. Safe'
  BY <1>1, <1>3, <1>6, <1>9, <1>10 DEF Safe
<1>13. Visited'
  BY <1>1, <1>6, <1>7, <1>10 DEF Visited
<1>14. Counts'
  BY <1>1, <1>3, <1>6, <1>9, <1>10 DEF Counts
<1>15. /\ \A e \in Slots :
            /\ e[1] \in On(Running, "black") \/ (e[1] \in On(Running, "scan") /\ color[e[1]] = "black")
            /\ e \notin Open(Running, "black") /\ Points[e] \in Node \ immortal
            => color[Points[e]] = "black"
       /\ \A k \in Node : color[k] = "white" => count[k] = 0
       /\ \A D \in SUBSET Node :
            /\ n \in D /\ Leads(Open(Running, "scan"), Points, D) /\ Leads(Open(Running, "black"), Points, D)
            /\ ClosedIn(color, "gray", Points, D)
            => Painted(color, "gray") \subseteq D
       /\ \A x \in Start(Waiting, "white") : \A D \in SUBSET Node :
            /\ x \in D /\ Leads(Open(Running, "black"), Points, D) /\ ClosedIn(color, "white", Points, D)
            => Painted(color, "white") \subseteq D
       /\ \A D \in SUBSET Node :
            Roots \subseteq D /\ Closed(Kept, Points, D) => \A k \in allocated : color[k] = "black" => k \in D
  BY <1>1, <1>2, <1>3 DEF ScanPhase
<1>16. ASSUME NEW D \in SUBSET Node, Roots \subseteq D, Closed(Kept, Points, D)
       PROVE  n \in D
  <2>1. \/ \E v \in Var : var[v] = n
        \/ \E e \in Counted : Points[e] = n
    <3>1. count[n] # 0
      BY <1>1, <1>3, <1>8 DEF HeapTyped
    <3>2. QED
      BY <3>1, <1>1, <1>3, <1>5, CountMeans
  <2>2. CASE \E v \in Var : var[v] = n
    BY <2>2, <1>5, <1>16 DEF Roots, Rooted, Named
  <2>3. CASE \E e \in Counted : Points[e] = n
    <3>1. PICK e \in Counted : Points[e] = n
      BY <2>3
    <3>2. e \in Kept
      BY <3>1, <1>4 DEF Counted, Kept
    <3>3. e[1] \in allocated /\ color[e[1]] = "black"
      BY <3>2 DEF Kept, Edges
    <3>4. e[1] \in D
      BY <3>3, <1>15, <1>16
    <3>5. QED
      BY <3>1, <3>2, <3>4, <1>5, <1>16 DEF Closed
  <2>4. QED
    BY <2>1, <2>2, <2>3
<1>17. ScanPhase'
  <2>1. \A D \in SUBSET Node :
          Roots \subseteq D /\ Closed(Kept, Points, D)
          => \A k \in allocated : color[k] = "black" \/ k \in {n} => k \in D
    BY <1>15, <1>16
  <2>2. n \in Node /\ color[n] # "black" /\ color[n] # "white"
    BY <1>3, <1>5
  <2>3. QED
    BY <2>1, <2>2, <1>6, <1>7, <1>9, <1>10, <1>15 DEF ScanPhase
<1>18. RestPhase' /\ GrayPhase' /\ WhitePhase'
  BY <1>7 DEF RestPhase, GrayPhase, WhitePhase
<1>19. QED
  BY <1>7, <1>11, <1>12, <1>13, <1>14, <1>17, <1>18 DEF HeapInv

\* Scan gives a node up.
LEMMA BeginScanGivesUp ==
  ASSUME HeapInv, BeginScan, color[Current.node] = "gray", Mortal(Current.node), ~(count[Current.node] > 0)
  PROVE  HeapInv'
<1> DEFINE n == Current.node
<1>1. StackInv /\ HeapTyped /\ Safe /\ Visited /\ Counts /\ ScanPhase
  BY DEF HeapInv
<1>2. stack # << >> /\ Phase = "scan" /\ Current.at = 0 /\ Current.op = "scan"
  BY DEF BeginScan, Begins, Phase
<1>3. n \in Node /\ Start(Starting, "scan") = {n} /\ Start(Starting, "release") = {} /\ Start(Starting, "black") = {}
  BY <1>1, <1>2, StartingIs
<1>4. \A o \in {"black", "gray", "white"} : On(Running, o) = {} /\ Open(Running, o) = {}
  BY <1>1, <1>2, NotBelow DEF Below
<1>5. n \notin immortal /\ color[n] = "gray" /\ ~(count[n] > 0)
  BY DEF Mortal
<1>6. /\ color' = [color EXCEPT ![n] = "white"] /\ Walk(<< >>)
      /\ UNCHANGED <<immortal, allocated, count, field, var>>
  BY <1>3, <1>5 DEF BeginScan, Mortal
<1>7. n \notin On(Running, "scan")
  BY <1>1, <1>5 DEF Visited
<1>8. /\ StackInv' /\ Phase' = "scan" /\ Starting' = {} /\ Waiting' = Waiting
      /\ On(Running', "scan") = On(Running, "scan") \cup {n}
      /\ Open(Running', "scan") = Open(Running, "scan") \cup ({n} \X Field)
      /\ \A o : o # "scan" => /\ On(Running', o) = On(Running, o)
                              /\ Open(Running', o) = Open(Running, o)
                              /\ Past(Running', o) = Past(Running, o)
  BY <1>1, <1>2, <1>6, <1>7, BeginMove
<1> HIDE DEF n
<1>9. /\ Start(Starting', "release") = {} /\ Start(Starting', "black") = {} /\ Start(Starting', "scan") = {}
      /\ Start(Waiting', "white") = Start(Waiting, "white")
  BY <1>8, StartNone
<1>10. color'[n] = "white" /\ \A m \in Node \ {n} : color'[m] = color[m]
  BY <1>1, <1>3, <1>6 DEF HeapTyped
<1>11. n \in Live /\ n \in allocated /\ n \notin On(Running, "release")
  BY <1>1, <1>2, <1>3 DEF ScanPhase, Live
<1>12. /\ Doomed' = {} /\ Doomed = {} /\ Points' = Points /\ Live' = Live /\ Edges' = Edges /\ Roots' = Roots
  <2>1. Doomed' = {} /\ Doomed = {}
    BY <1>2, <1>4, <1>8 DEF Doomed
  <2>2. Points' = Points
    BY <1>6 DEF Points
  <2>3. Live' = Live /\ Edges' = Edges
    BY <2>1, <1>6, <1>8 DEF Live, Edges
  <2>4. Roots' = Roots
    BY <1>6, <1>8 DEF Roots, Rooted, Named
  <2>5. QED
    BY <2>1, <2>2, <2>3, <2>4
<1>13. Counted' = Counted /\ Kept' = Kept
  <2>1. \A e \in Edges : e[1] \in Node
    BY DEF Edges, Slots
  <2>2. \A e \in Edges : color'[e[1]] = "black" <=> color[e[1]] = "black"
    BY <2>1, <1>5, <1>10
  <2>3. Open(Running', "gray") = {} /\ Open(Running, "gray") = {} /\ Open(Running', "black") = Open(Running, "black")
    BY <1>4, <1>8
  <2>4. QED
    BY <2>2, <2>3, <1>12 DEF Counted, Kept
<1>14. HeapTyped'
  BY <1>1, <1>6, <1>10, <1>11 DEF HeapTyped
<1>15. Safe'
  BY <1>1, <1>3, <1>6, <1>9, <1>12 DEF Safe
<1>16. Visited'
  BY <1>1, <1>4, <1>5, <1>6, <1>8, <1>10, <1>11, <1>12 DEF Visited, Ops
<1>17. Counts'
  BY <1>1, <1>3, <1>6, <1>9, <1>12, <1>13 DEF Counts
<1>18. ScanPhase'
  <2>1. /\ \A e \in Slots :
             /\ e[1] \in On(Running, "black") \/ (e[1] \in On(Running, "scan") /\ color[e[1]] = "black")
             /\ e \notin Open(Running, "black") /\ Points[e] \in Node \ immortal
             => color[Points[e]] = "black"
        /\ \A k \in Node : color[k] = "white" => count[k] = 0
        /\ \A D \in SUBSET Node :
             /\ n \in D /\ Leads(Open(Running, "scan"), Points, D) /\ Leads(Open(Running, "black"), Points, D)
             /\ ClosedIn(color, "gray", Points, D)
             => Painted(color, "gray") \subseteq D
        /\ \A x \in Start(Waiting, "white") : \A D \in SUBSET Node :
             /\ x \in D /\ Leads(Open(Running, "black"), Points, D) /\ ClosedIn(color, "white", Points, D)
             => Painted(color, "white") \subseteq D /\ n \in D
        /\ \A D \in SUBSET Node :
             Roots \subseteq D /\ Closed(Kept, Points, D) => \A k \in allocated : color[k] = "black" => k \in D
    BY <1>1, <1>2, <1>3, <1>5 DEF ScanPhase
  <2>2. ASSUME NEW e \in Slots,
               e[1] \in On(Running', "black") \/ (e[1] \in On(Running', "scan") /\ color'[e[1]] = "black"),
               Points'[e] \in Node \ immortal'
        PROVE  color'[Points'[e]] = "black"
    <3>1. e[1] \in Node /\ e \notin Open(Running, "black")
      BY <1>4 DEF Slots
    <3>2. e[1] \in On(Running, "scan") /\ color[e[1]] = "black"
      BY <3>1, <2>2, <1>4, <1>8, <1>10
    <3>3. Points[e] \in Node \ immortal /\ color[Points[e]] = "black"
      BY <3>1, <3>2, <2>1, <2>2, <1>6, <1>12
    <3>4. QED
      BY <3>3, <1>5, <1>10, <1>12
  <2>3. \A k \in Node : color'[k] = "white" => count'[k] = 0
    <3>1. count[n] = 0
      BY <1>1, <1>3, <1>5, CountMeans
    <3>2. QED
      BY <3>1, <2>1, <1>6, <1>10
  <2>4. ASSUME NEW D \in SUBSET Node, Leads(Open(Running', "scan"), Points', D),
               Leads(Open(Running', "black"), Points', D), ClosedIn(color', "gray", Points', D)
        PROVE  Painted(color', "gray") \subseteq D
    <3> DEFINE E == D \cup {n}
    <3>1. E \in SUBSET Node /\ n \in E
      BY <1>3
    <3>2. Leads(Open(Running, "scan"), Points, E) /\ Leads(Open(Running, "black"), Points, E)
      BY <2>4, <1>8, <1>12 DEF Leads
    <3>3. ClosedIn(color, "gray", Points, E)
      <4>1. SUFFICES ASSUME NEW e \in Slots, color[e[1]] = "gray", e[1] \in E PROVE Points[e] \in E \cup {Null}
        BY DEF ClosedIn
      <4>2. CASE e[1] = n
        <5>1. e \in {n} \X Field
          BY <4>2 DEF Slots
        <5>2. QED
          BY <5>1, <2>4, <1>8, <1>12 DEF Leads
      <4>3. CASE e[1] # n
        BY <4>1, <4>3, <2>4, <1>10, <1>12 DEF ClosedIn, Slots
      <4>4. QED
        BY <4>2, <4>3
    <3> HIDE DEF E
    <3>4. Painted(color, "gray") \subseteq E
      BY <3>1, <3>2, <3>3, <2>1
    <3>5. QED
      BY <3>4, <1>10 DEF E, Painted
  <2>5. ASSUME NEW x \in Start(Waiting, "white"), NEW D \in SUBSET Node,
               x \in D, Leads(Open(Running', "black"), Points', D), ClosedIn(color', "white", Points', D)
        PROVE  Painted(color', "white") \subseteq D
    <3>1. ClosedIn(color, "white", Points, D)
      BY <2>5, <1>5, <1>10, <1>12 DEF ClosedIn, Slots
    <3>2. Leads(Open(Running, "black"), Points, D)
      BY <2>5, <1>8, <1>12
    <3>3. Painted(color, "white") \subseteq D /\ n \in D
      BY <3>1, <3>2, <2>1, <2>5
    <3>4. QED
      BY <3>3, <1>10 DEF Painted
  <2>6. ASSUME NEW D \in SUBSET Node, Roots' \subseteq D, Closed(Kept', Points', D), NEW k \in allocated', color'[k] = "black"
        PROVE  k \in D
    <3>1. k \in allocated /\ k \in Node /\ k # n
      BY <2>6, <1>1, <1>6, <1>10 DEF HeapTyped
    <3>2. QED
      BY <3>1, <2>1, <2>6, <1>10, <1>12, <1>13
  <2>7. QED
    BY <2>2, <2>3, <2>4, <2>5, <2>6, <1>9 DEF ScanPhase
<1>19. RestPhase' /\ GrayPhase' /\ WhitePhase'
  BY <1>8 DEF RestPhase, GrayPhase, WhitePhase
<1>20. QED
  BY <1>8, <1>14, <1>15, <1>16, <1>17, <1>18, <1>19 DEF HeapInv

\* Scan goes on to what a field points to.
LEMMA ScanFieldKeeps ==
  ASSUME HeapInv, ScanField
  PROVE  HeapInv'
<1> DEFINE m == Child
<1> DEFINE e == <<Current.node, Current.at>>
<1>1. StackInv /\ HeapTyped /\ Safe /\ Visited /\ Counts /\ ScanPhase
  BY DEF HeapInv
<1>2. stack # << >> /\ Phase = "scan" /\ Current.at \in Field /\ Current.op = "scan"
  BY DEF ScanField, AtField, Phase
<1>3. \A o \in {"black", "gray", "white"} : On(Running, o) = {} /\ Open(Running, o) = {}
  BY <1>1, <1>2, NotBelow DEF Below
<1>4. Walk(CallsOn("scan", m)) /\ UNCHANGED <<immortal, allocated, count, color, field, var>>
  BY DEF ScanField, heap
<1>5. m \in Node \cup {Null}
  BY <1>1, <1>2, CurrentFacts DEF HeapTyped, Child
<1>6. /\ StackInv' /\ Phase' = "scan"
      /\ Start(Starting', "scan") = {m} \ {Null} /\ \A o : o # "scan" => Start(Starting', o) = {}
      /\ \A o : Start(Starting, o) = {}
      /\ Start(Waiting', "white") = Start(Waiting, "white")
      /\ e \in Slots /\ e \in Open(Running, "scan")
      /\ e[1] \in On(Running, "scan") /\ Points[e] = m
      /\ \A o : On(Running', o) = On(Running, o)
      /\ Open(Running', "scan") = Open(Running, "scan") \ {e}
      /\ \A o : o # "scan" => Open(Running', o) = Open(Running, o) /\ Past(Running', o) = Past(Running, o)
  BY <1>1, <1>2, <1>4, <1>5, VisitMove
<1> HIDE DEF m, e
<1>7. /\ Start(Starting', "release") = {} /\ Start(Starting, "release") = {}
      /\ Start(Starting', "black") = {} /\ Start(Starting, "black") = {}
      /\ Start(Starting, "scan") = {} /\ Start(Starting', "scan") = {m} \ {Null}
  BY <1>6
<1>8. /\ Doomed' = {} /\ Doomed = {} /\ Points' = Points /\ Live' = Live /\ Edges' = Edges /\ Roots' = Roots
      /\ Counted' = Counted /\ Kept' = Kept
  <2>1. Doomed' = {} /\ Doomed = {}
    BY <1>2, <1>3, <1>6 DEF Doomed
  <2>2. Points' = Points
    BY <1>4 DEF Points
  <2>3. Live' = Live /\ Edges' = Edges
    BY <2>1, <1>4, <1>6 DEF Live, Edges
  <2>4. Roots' = Roots
    BY <1>4, <1>6 DEF Roots, Rooted, Named
  <2>5. Counted' = Counted /\ Kept' = Kept
    BY <2>3, <1>4, <1>6 DEF Counted, Kept
  <2>6. QED
    BY <2>1, <2>2, <2>3, <2>4, <2>5
<1>9. e[1] \in Node /\ color[e[1]] # "gray" /\ e[1] \in Live /\ e \in Edges
  <2>1. e[1] \in Node /\ color[e[1]] # "gray" /\ e[1] \in Live
    BY <1>1, <1>6 DEF Visited, Slots
  <2>2. e \notin Past(Running, "release")
    <3>1. \A d \in Past(Running, "release") : d[1] \in On(Running, "release")
      BY DEF On, Past, Slots
    <3>2. QED
      BY <3>1, <2>1 DEF Live
  <2>3. QED
    BY <2>1, <2>2, <1>6, <1>8 DEF Edges, Live
<1>10. HeapTyped'
  BY <1>1, <1>4 DEF HeapTyped
<1>11. Safe'
  BY <1>1, <1>4, <1>7, <1>8 DEF Safe
<1>12. Visited'
  BY <1>1, <1>4, <1>6, <1>8 DEF Visited
<1>13. Counts'
  BY <1>1, <1>4, <1>7, <1>8 DEF Counts
<1>14. ScanPhase'
  <2>1. /\ \A d \in Slots :
             /\ d[1] \in On(Running, "black") \/ (d[1] \in On(Running, "scan") /\ color[d[1]] = "black")
             /\ d \notin Open(Running, "black") /\ Points[d] \in Node \ immortal
             => color[Points[d]] = "black"
        /\ \A k \in Node : color[k] = "white" => count[k] = 0
        /\ \A D \in SUBSET Node :
             /\ Leads(Open(Running, "scan"), Points, D) /\ Leads(Open(Running, "black"), Points, D)
             /\ ClosedIn(color, "gray", Points, D)
             => Painted(color, "gray") \subseteq D
        /\ \A x \in Start(Waiting, "white") : \A D \in SUBSET Node :
             /\ x \in D /\ Leads(Open(Running, "black"), Points, D) /\ ClosedIn(color, "white", Points, D)
             => Painted(color, "white") \subseteq D
        /\ \A D \in SUBSET Node :
             Roots \subseteq D /\ Closed(Kept, Points, D) => \A k \in allocated : color[k] = "black" => k \in D
    BY <1>1, <1>2, <1>7 DEF ScanPhase
  <2>2. {m} \ {Null} \subseteq Live
    BY <1>1, <1>6, <1>9 DEF Safe, Leads
  <2>3. ASSUME NEW D \in SUBSET Node, {m} \ {Null} \subseteq D, Leads(Open(Running, "scan") \ {e}, Points, D)
        PROVE  Leads(Open(Running, "scan"), Points, D)
    BY <2>3, <1>6 DEF Leads
  <2>4. ASSUME NEW x \in Start(Waiting, "white"), NEW D \in SUBSET Node, x \in D,
               Leads(Open(Running, "black"), Points, D), ClosedIn(color, "white", Points, D),
               m # Null, color[m] = "gray"
        PROVE  m \in D
    <3>1. Painted(color, "white") \subseteq D
      BY <2>1, <2>4
    <3>2. color[e[1]] # "black"
      <4>1. m \in Node \ immortal
        BY <2>4, <1>1, <1>5 DEF Visited
      <4>2. e \notin Open(Running, "black")
        BY <1>3
      <4>3. color[e[1]] = "black" => color[m] = "black"
        BY <4>1, <4>2, <2>1, <1>6
      <4>4. QED
        BY <4>3, <2>4
    <3>3. color[e[1]] = "white" /\ e[1] \in D
      BY <3>1, <3>2, <1>1, <1>9 DEF HeapTyped, Painted
    <3>4. Points[e] \in D \cup {Null}
      BY <3>3, <2>4, <1>6 DEF ClosedIn
    <3>5. QED
      BY <3>4, <2>4, <1>6
  <2>5. ASSUME NEW D \in SUBSET Node, Start(Starting', "scan") \subseteq D,
               Leads(Open(Running', "scan"), Points', D), Leads(Open(Running', "black"), Points', D),
               ClosedIn(color', "gray", Points', D)
        PROVE  Painted(color', "gray") \subseteq D
    <3>1. /\ {m} \ {Null} \subseteq D /\ Leads(Open(Running, "scan") \ {e}, Points, D)
          /\ Leads(Open(Running, "black"), Points, D) /\ ClosedIn(color, "gray", Points, D)
      BY <2>5, <1>4, <1>6, <1>7, <1>8
    <3>2. Painted(color, "gray") \subseteq D
      BY <3>1, <2>1, <2>3
    <3>3. QED
      BY <3>2, <1>4
  <2>6. ASSUME NEW x \in Start(Waiting', "white"), NEW D \in SUBSET Node, x \in D,
               Leads(Open(Running', "black"), Points', D), ClosedIn(color', "white", Points', D)
        PROVE  /\ Painted(color', "white") \subseteq D
               /\ \A k \in Start(Starting', "scan") : color'[k] = "gray" => k \in D
    <3>1. x \in Start(Waiting, "white") /\ Leads(Open(Running, "black"), Points, D) /\ ClosedIn(color, "white", Points, D)
      BY <2>6, <1>4, <1>6, <1>8
    <3>2. Painted(color, "white") \subseteq D /\ (m # Null /\ color[m] = "gray" => m \in D)
      BY <3>1, <2>1, <2>4, <2>6
    <3>3. QED
      BY <3>2, <1>4, <1>7
  <2>7. /\ \A d \in Slots :
             /\ d[1] \in On(Running', "black") \/ (d[1] \in On(Running', "scan") /\ color'[d[1]] = "black")
             /\ d \notin Open(Running', "black") /\ Points'[d] \in Node \ immortal'
             => color'[Points'[d]] = "black"
        /\ \A k \in Node : color'[k] = "white" => count'[k] = 0
        /\ \A D \in SUBSET Node :
             Roots' \subseteq D /\ Closed(Kept', Points', D) => \A k \in allocated' : color'[k] = "black" => k \in D
    BY <2>1, <1>4, <1>6, <1>8
  <2>8. Start(Starting', "scan") \subseteq Live'
    BY <2>2, <1>7, <1>8
  <2>9. QED
    BY <2>5, <2>6, <2>7, <2>8, <1>7 DEF ScanPhase
<1>15. RestPhase' /\ GrayPhase' /\ WhitePhase'
  BY <1>6 DEF RestPhase, GrayPhase, WhitePhase
<1>16. QED
  BY <1>6, <1>10, <1>11, <1>12, <1>13, <1>14, <1>15 DEF HeapInv

\* Black colours a node.
LEMMA BeginBlackKeeps ==
  ASSUME HeapInv, BeginBlack
  PROVE  HeapInv'
<1> DEFINE n == Current.node
<1>1. StackInv /\ HeapTyped /\ Safe /\ Visited /\ Counts /\ ScanPhase
  BY DEF HeapInv
<1>2. stack # << >> /\ Phase = "black" /\ Current.at = 0 /\ Current.op = "black"
  BY DEF BeginBlack, Begins, Phase
<1>3. n \in Node /\ Start(Starting, "black") = {n} /\ Start(Starting, "release") = {} /\ Start(Starting, "scan") = {}
  BY <1>1, <1>2, StartingIs
<1>4. \A o \in {"gray", "white"} : On(Running, o) = {} /\ Open(Running, o) = {}
  BY <1>1, <1>2, NotBelow DEF Below
<1>5. color[n] # "black" /\ n \in allocated /\ n \notin immortal /\ n \notin On(Running, "release")
  <2>1. color[n] # "black"
    BY <1>1, <1>2, <1>3 DEF ScanPhase
  <2>2. QED
    BY <2>1, <1>1, <1>3 DEF Visited
<1>6. /\ color' = [color EXCEPT ![n] = "black"] /\ Walk(<< >>)
      /\ UNCHANGED <<immortal, allocated, count, field, var>>
  BY <1>3, <1>5 DEF BeginBlack, Mortal
<1>7. n \notin On(Running, "black")
  BY <1>1, <1>5 DEF Visited
<1>8. /\ StackInv' /\ Phase' = "black" /\ Starting' = {} /\ Waiting' = Waiting
      /\ On(Running', "black") = On(Running, "black") \cup {n}
      /\ Open(Running', "black") = Open(Running, "black") \cup ({n} \X Field)
      /\ \A o : o # "black" => /\ On(Running', o) = On(Running, o)
                               /\ Open(Running', o) = Open(Running, o)
                               /\ Past(Running', o) = Past(Running, o)
  BY <1>1, <1>2, <1>6, <1>7, BeginMove
<1> HIDE DEF n
<1>9. /\ Start(Starting', "release") = {} /\ Start(Starting', "black") = {} /\ Start(Starting', "scan") = {}
      /\ Start(Waiting', "white") = Start(Waiting, "white")
  BY <1>8, StartNone
<1>10. color'[n] = "black" /\ \A m \in Node \ {n} : color'[m] = color[m]
  BY <1>1, <1>3, <1>6 DEF HeapTyped
<1>11. /\ Doomed' = {} /\ Doomed = {} /\ Points' = Points /\ Live' = Live /\ Edges' = Edges /\ Roots' = Roots
  <2>1. Doomed' = {} /\ Doomed = {}
    BY <1>2, <1>4, <1>8 DEF Doomed
  <2>2. Points' = Points
    BY <1>6 DEF Points
  <2>3. Live' = Live /\ Edges' = Edges
    BY <2>1, <1>6, <1>8 DEF Live, Edges
  <2>4. Roots' = Roots
    BY <1>6, <1>8 DEF Roots, Rooted, Named
  <2>5. QED
    BY <2>1, <2>2, <2>3, <2>4
<1>12. n \in Live
  BY <1>5, <1>11 DEF Live
<1>13. \A e \in Slots : e \in {n} \X Field <=> e[1] = n
  BY DEF Slots
<1>14. Counted' = Counted
  <2>1. ASSUME NEW e \in Edges PROVE e \in Counted' <=> e \in Counted
    <3>1. e[1] \in Node /\ e \in Slots
      BY DEF Edges, Slots
    <3>2. Open(Running', "gray") = {} /\ Open(Running, "gray") = {}
      BY <1>4, <1>8
    <3>3. e \in Open(Running', "black") <=> e \in Open(Running, "black") \/ e[1] = n
      BY <3>1, <1>8, <1>13
    <3>4. e \in Edges'
      BY <1>11
    <3>5. CASE e[1] = n
      BY <3>2, <3>3, <3>4, <3>5, <1>5, <1>10 DEF Counted
    <3>6. CASE e[1] # n
      BY <3>1, <3>2, <3>3, <3>4, <3>6, <1>10 DEF Counted
    <3>7. QED
      BY <3>5, <3>6
  <2>2. Counted \subseteq Edges /\ Counted' \subseteq Edges
    BY <1>11 DEF Counted
  <2>3. QED
    BY <2>1, <2>2
<1>15. \A e \in Kept : e \in Kept'
  <2>1. \A e \in Kept : e \in Edges' /\ e[1] \in Node /\ color[e[1]] = "black"
    BY <1>11 DEF Kept, Edges, Slots
  <2>2. QED
    BY <2>1, <1>10 DEF Kept
<1>16. HeapTyped'
  BY <1>1, <1>6, <1>10 DEF HeapTyped
<1>17. Safe'
  BY <1>1, <1>3, <1>6, <1>9, <1>11 DEF Safe
<1>18. Visited'
  BY <1>1, <1>4, <1>5, <1>6, <1>8, <1>10, <1>11, <1>12 DEF Visited, Ops
<1>19. Counts'
  BY <1>1, <1>3, <1>6, <1>9, <1>11, <1>14 DEF Counts
<1>20. ScanPhase'
  <2>1. /\ \A e \in Slots :
             /\ e[1] \in On(Running, "black") \/ (e[1] \in On(Running, "scan") /\ color[e[1]] = "black")
             /\ e \notin Open(Running, "black") /\ Points[e] \in Node \ immortal
             => color[Points[e]] = "black" \/ Points[e] = n
        /\ \A k \in Node : color[k] = "white" /\ k # n => count[k] = 0
        /\ \A D \in SUBSET Node :
             /\ n \in D /\ Leads(Open(Running, "scan"), Points, D) /\ Leads(Open(Running, "black"), Points, D)
             /\ ClosedIn(color, "gray", Points, D)
             => Painted(color, "gray") \subseteq D
        /\ \A x \in Start(Waiting, "white") : \A D \in SUBSET Node :
             /\ x \in D /\ n \in D
             /\ Leads(Open(Running, "black"), Points, D) /\ ClosedIn(color, "white", Points, D)
             => Painted(color, "white") \subseteq D
        /\ \A D \in SUBSET Node :
             Roots \subseteq D /\ Closed(Kept, Points, D)
             => \A k \in allocated : color[k] = "black" \/ k = n => k \in D
    BY <1>1, <1>2, <1>3 DEF ScanPhase
  <2>2. ASSUME NEW e \in Slots,
               e[1] \in On(Running', "black") \/ (e[1] \in On(Running', "scan") /\ color'[e[1]] = "black"),
               e \notin Open(Running', "black"), Points'[e] \in Node \ immortal'
        PROVE  color'[Points'[e]] = "black"
    <3>1. e[1] \in Node /\ e \notin Open(Running, "black") /\ e[1] # n
      BY <2>2, <1>8, <1>13 DEF Slots
    <3>2. e[1] \in On(Running, "black") \/ (e[1] \in On(Running, "scan") /\ color[e[1]] = "black")
      BY <3>1, <2>2, <1>8, <1>10
    <3>3. Points[e] \in Node \ immortal /\ (color[Points[e]] = "black" \/ Points[e] = n)
      BY <3>1, <3>2, <2>1, <2>2, <1>6, <1>11
    <3>4. QED
      BY <3>3, <1>10, <1>11
  <2>3. \A k \in Node : color'[k] = "white" => count'[k] = 0
    BY <2>1, <1>6, <1>10
  <2>4. ASSUME NEW D \in SUBSET Node, NEW c, Leads(Open(Running', "black"), Points', D), ClosedIn(color', c, Points', D)
        PROVE  ClosedIn(color, c, Points, D \cup {n})
    <3>1. SUFFICES ASSUME NEW e \in Slots, color[e[1]] = c, e[1] \in D \cup {n} PROVE Points[e] \in D \cup {Null}
      BY DEF ClosedIn
    <3>2. CASE e[1] = n
      BY <3>2, <2>4, <1>8, <1>11, <1>13 DEF Leads
    <3>3. CASE e[1] # n
      <4>1. e[1] \in Node /\ color'[e[1]] = c /\ e[1] \in D
        BY <3>1, <3>3, <1>10 DEF Slots
      <4>2. QED
        BY <4>1, <2>4, <1>11 DEF ClosedIn
    <3>4. QED
      BY <3>2, <3>3
  <2>5. \A D, P : Leads(Open(Running', "black"), P, D) => Leads(Open(Running, "black"), P, D \cup {n})
    BY <1>8 DEF Leads
  <2>6. ASSUME NEW D \in SUBSET Node, Leads(Open(Running', "scan"), Points', D),
               Leads(Open(Running', "black"), Points', D), ClosedIn(color', "gray", Points', D)
        PROVE  Painted(color', "gray") \subseteq D
    <3> DEFINE E == D \cup {n}
    <3>1. E \in SUBSET Node /\ n \in E
      BY <1>3
    <3>2. Leads(Open(Running, "scan"), Points, E)
      BY <2>6, <1>8, <1>11 DEF Leads
    <3>3. Leads(Open(Running, "black"), Points, E) /\ ClosedIn(color, "gray", Points, E)
      BY <2>4, <2>5, <2>6, <1>11
    <3> HIDE DEF E
    <3>4. Painted(color, "gray") \subseteq E
      BY <3>1, <3>2, <3>3, <2>1
    <3>5. QED
      BY <3>4, <1>10 DEF E, Painted
  <2>7. ASSUME NEW x \in Start(Waiting, "white"), NEW D \in SUBSET Node,
               x \in D, Leads(Open(Running', "black"), Points', D), ClosedIn(color', "white", Points', D)
        PROVE  Painted(color', "white") \subseteq D
    <3> DEFINE E == D \cup {n}
    <3>1. E \in SUBSET Node /\ n \in E /\ x \in E
      BY <2>7, <1>3
    <3>2. Leads(Open(Running, "black"), Points, E) /\ ClosedIn(color, "white", Points, E)
      BY <2>4, <2>5, <2>7, <1>11
    <3> HIDE DEF E
    <3>3. Painted(color, "white") \subseteq E
      BY <3>1, <3>2, <2>1
    <3>4. QED
      BY <3>3, <1>10 DEF E, Painted
  <2>8. ASSUME NEW D \in SUBSET Node, Roots' \subseteq D, Closed(Kept', Points', D), NEW k \in allocated', color'[k] = "black"
        PROVE  k \in D
    <3>1. k \in allocated /\ k \in Node /\ (color[k] = "black" \/ k = n)
      BY <2>8, <1>1, <1>6, <1>10 DEF HeapTyped
    <3>2. Roots \subseteq D /\ Closed(Kept, Points, D)
      BY <2>8, <1>11, <1>15 DEF Closed
    <3>3. QED
      BY <3>1, <3>2, <2>1
  <2>9. QED
    BY <2>2, <2>3, <2>6, <2>7, <2>8, <1>9 DEF ScanPhase
<1>21. RestPhase' /\ GrayPhase' /\ WhitePhase'
  BY <1>8 DEF RestPhase, GrayPhase, WhitePhase
<1>22. QED
  BY <1>8, <1>16, <1>17, <1>18, <1>19, <1>20, <1>21 DEF HeapInv

\* Black restores a count for a field, and goes on to what it points to unless it is black.
LEMMA BlackFieldKeeps ==
  ASSUME HeapInv, BlackField
  PROVE  HeapInv'
<1> DEFINE m == Child
<1> DEFINE e == <<Current.node, Current.at>>
<1> DEFINE b == IF NeedsBlack(m) THEN m ELSE Null
<1>1. StackInv /\ HeapTyped /\ Safe /\ Visited /\ Counts /\ ScanPhase
  BY DEF HeapInv
<1>2. stack # << >> /\ Phase = "black" /\ Current.at \in Field /\ Current.op = "black"
  BY DEF BlackField, AtField, Phase
<1>3. \A o \in {"gray", "white"} : On(Running, o) = {} /\ Open(Running, o) = {}
  BY <1>1, <1>2, NotBelow DEF Below
<1>4. m \in Node \cup {Null}
  BY <1>1, <1>2, CurrentFacts DEF HeapTyped, Child
<1>5. /\ count' = Retained(m) /\ Walk(CallsOn("black", b))
      /\ UNCHANGED <<immortal, allocated, color, field, var>>
  BY DEF BlackField, CallsOn
<1>6. b \in Node \cup {Null}
  BY <1>4
<1>7. /\ StackInv' /\ Phase' = "black"
      /\ Start(Starting', "black") = {b} \ {Null} /\ \A o : o # "black" => Start(Starting', o) = {}
      /\ \A o : Start(Starting, o) = {}
      /\ Start(Waiting', "white") = Start(Waiting, "white")
      /\ e \in Slots /\ e \in Open(Running, "black")
      /\ e[1] \in On(Running, "black") /\ Points[e] = m
      /\ \A o : On(Running', o) = On(Running, o)
      /\ Open(Running', "black") = Open(Running, "black") \ {e}
      /\ \A o : o # "black" => Open(Running', o) = Open(Running, o) /\ Past(Running', o) = Past(Running, o)
  BY <1>1, <1>2, <1>5, <1>6, VisitMove
<1> HIDE DEF m, e, b
<1>8. \/ b = m /\ m # Null /\ m \in Node \ immortal /\ color[m] # "black"
      \/ b = Null /\ (m = Null \/ m \in immortal \/ color[m] = "black")
  BY <1>4, HeapAssumption DEF b, NeedsBlack, Mortal
<1>9. /\ Start(Starting', "release") = {} /\ Start(Starting, "release") = {}
      /\ Start(Starting', "scan") = {} /\ Start(Starting, "scan") = {}
      /\ Start(Starting, "black") = {} /\ Start(Starting', "black") = {b} \ {Null}
  BY <1>7
<1>10. /\ Doomed' = {} /\ Doomed = {} /\ Points' = Points /\ Live' = Live /\ Edges' = Edges /\ Roots' = Roots
       /\ Kept' = Kept
  <2>1. Doomed' = {} /\ Doomed = {}
    BY <1>2, <1>3, <1>7 DEF Doomed
  <2>2. Points' = Points
    BY <1>5 DEF Points
  <2>3. Live' = Live /\ Edges' = Edges
    BY <2>1, <1>5, <1>7 DEF Live, Edges
  <2>4. Roots' = Roots
    BY <1>5, <1>7 DEF Roots, Rooted, Named
  <2>5. Kept' = Kept
    BY <2>3, <1>5 DEF Kept
  <2>6. QED
    BY <2>1, <2>2, <2>3, <2>4, <2>5
<1>11. e[1] \in Node /\ color[e[1]] = "black" /\ e[1] \in Live /\ e[1] \in allocated /\ e \in Kept
  <2>1. e[1] \in Node /\ color[e[1]] = "black" /\ e[1] \in Live
    BY <1>1, <1>7 DEF Visited, Slots
  <2>2. e \notin Past(Running, "release")
    <3>1. \A d \in Past(Running, "release") : d[1] \in On(Running, "release")
      BY DEF On, Past, Slots
    <3>2. QED
      BY <3>1, <2>1 DEF Live
  <2>3. QED
    BY <2>1, <2>2, <1>7, <1>10 DEF Kept, Edges, Live
<1>12. Counted' = Counted \cup {e} /\ e \notin Counted
  <2>1. Open(Running', "gray") = {} /\ Open(Running, "gray") = {}
    BY <1>3, <1>7
  <2>2. QED
    BY <2>1, <1>5, <1>7, <1>10, <1>11 DEF Counted, Kept
<1>13. HeapTyped'
  BY <1>1, <1>5 DEF HeapTyped, Retained, Mortal
<1>14. Safe'
  BY <1>1, <1>5, <1>9, <1>10 DEF Safe
<1>15. Visited'
  BY <1>1, <1>5, <1>7, <1>10 DEF Visited
<1>16. \A k \in Node \ immortal : count'[k] = count[k] + Weight({m}, k)
  BY <1>1, <1>5 DEF Weight, HeapTyped, Retained, Mortal
<1>17. Counts'
  <2>1. SUFFICES ASSUME NEW k \in Node \ immortal
                 PROVE  count'[k] = Cardinality(Into(Var, var, k)) + Cardinality(Into(Counted', Points, k))
                                    + Weight({}, k)
    BY <1>5, <1>9, <1>10 DEF Counts
  <2>2. IsFiniteSet(Counted) /\ IsFiniteSet(Counted')
    BY CountedIsFinite, <1>12, FS_AddElement
  <2>3. /\ Cardinality(Into(Var, var, k)) \in Nat /\ Cardinality(Into(Counted, Points, k)) \in Nat
        /\ Cardinality(Into(Counted', Points, k)) \in Nat /\ Weight({m}, k) \in {0, 1} /\ Weight({}, k) = 0
    BY <2>2, FiniteHolders, IntoFacts, WeightIs DEF Weight
  <2>4. Cardinality(Into(Counted, Points, k)) = Cardinality(Into(Counted', Points, k)) - Weight({m}, k)
    <3>1. Cardinality(Into(Counted' \ {e}, Points, k)) = Cardinality(Into(Counted', Points, k)) - Weight({Points[e]}, k)
      BY <2>2, <1>12, IntoLess
    <3>2. Counted' \ {e} = Counted
      BY <1>12
    <3>3. QED
      BY <3>1, <3>2, <1>7
  <2>5. count[k] = Cardinality(Into(Var, var, k)) + Cardinality(Into(Counted, Points, k)) + Weight({}, k)
    BY <1>1, <1>9 DEF Counts
  <2>6. count'[k] = count[k] + Weight({m}, k)
    BY <1>16
  <2> DEFINE v == Cardinality(Into(Var, var, k))
  <2> DEFINE o == Cardinality(Into(Counted, Points, k))
  <2> DEFINE p == Cardinality(Into(Counted', Points, k))
  <2> DEFINE w == Weight({m}, k)
  <2>7. /\ v \in Nat /\ o \in Nat /\ p \in Nat /\ w \in {0, 1} /\ Weight({}, k) = 0
        /\ o = p - w /\ count[k] = v + o + Weight({}, k) /\ count'[k] = count[k] + w
    BY <2>3, <2>4, <2>5, <2>6
  <2> HIDE DEF v, o, p, w
  <2>8. count'[k] = v + p + Weight({}, k)
    BY <2>7
  <2>9. QED
    BY <2>8 DEF v, p
<1>18. ScanPhase'
  <2>1. /\ \A d \in Slots :
             /\ d[1] \in On(Running, "black") \/ (d[1] \in On(Running, "scan") /\ color[d[1]] = "black")
             /\ d \notin Open(Running, "black") /\ Points[d] \in Node \ immortal
             => color[Points[d]] = "black"
        /\ \A k \in Node : color[k] = "white" => count[k] = 0
        /\ \A D \in SUBSET Node :
             /\ Leads(Open(Running, "scan"), Points, D) /\ Leads(Open(Running, "black"), Points, D)
             /\ ClosedIn(color, "gray", Points, D)
             => Painted(color, "gray") \subseteq D
        /\ \A x \in Start(Waiting, "white") : \A D \in SUBSET Node :
             /\ x \in D /\ Leads(Open(Running, "black"), Points, D) /\ ClosedIn(color, "white", Points, D)
             => Painted(color, "white") \subseteq D
        /\ \A D \in SUBSET Node :
             Roots \subseteq D /\ Closed(Kept, Points, D) => \A k \in allocated : color[k] = "black" => k \in D
    BY <1>1, <1>2, <1>9 DEF ScanPhase
  <2>2. \A k \in Start(Starting', "black") : color'[k] # "black"
    BY <1>5, <1>8, <1>9
  <2>3. ASSUME NEW d \in Slots,
               d[1] \in On(Running', "black") \/ (d[1] \in On(Running', "scan") /\ color'[d[1]] = "black"),
               d \notin Open(Running', "black"), Points'[d] \in Node \ immortal'
        PROVE  color'[Points'[d]] = "black" \/ Points'[d] \in Start(Starting', "black")
    <3>1. CASE d = e
      BY <3>1, <2>3, <1>5, <1>7, <1>8, <1>9, <1>10, HeapAssumption
    <3>2. CASE d # e
      <4>1. /\ d[1] \in On(Running, "black") \/ (d[1] \in On(Running, "scan") /\ color[d[1]] = "black")
            /\ d \notin Open(Running, "black") /\ Points[d] \in Node \ immortal
        BY <3>2, <2>3, <1>5, <1>7, <1>10
      <4>2. color[Points[d]] = "black"
        BY <4>1, <2>1
      <4>3. QED
        BY <4>2, <1>5, <1>10
    <3>3. QED
      BY <3>1, <3>2
  <2>4. ASSUME NEW k \in Node, color'[k] = "white", k \notin Start(Starting', "black")
        PROVE  count'[k] = 0
    <3>1. color[k] = "white" /\ k \notin immortal
      BY <2>4, <1>1, <1>5 DEF Visited
    <3>2. count[k] = 0 /\ k # m
      <4>1. count[k] = 0
        BY <3>1, <2>1
      <4>2. k # m
        BY <3>1, <2>4, <1>8, <1>9, HeapAssumption
      <4>3. QED
        BY <4>1, <4>2
    <3>3. QED
      <4>1. Weight({m}, k) = 0 /\ count'[k] = count[k] + Weight({m}, k)
        BY <3>1, <3>2, <1>16 DEF Weight
      <4>2. QED
        BY <4>1, <3>2
  <2>5. ASSUME NEW D \in SUBSET Node, Start(Starting', "black") \subseteq D, NEW c \in {"gray", "white"},
               Leads(Open(Running', "black"), Points', D), ClosedIn(color', c, Points', D)
        PROVE  \E E \in SUBSET Node : /\ D \subseteq E /\ Leads(Open(Running, "black"), Points, E)
                                      /\ ClosedIn(color, c, Points, E)
                                      /\ Painted(color, c) \subseteq E => Painted(color, c) \subseteq D
    <3> DEFINE E == D \cup ({m} \ {Null})
    <3>1. E \in SUBSET Node /\ D \subseteq E
      BY <1>4
    <3>2. Leads(Open(Running, "black"), Points, E)
      BY <2>5, <1>7, <1>10 DEF Leads
    <3>3. ASSUME m # Null, m \notin D PROVE m \in Node /\ color[m] # c
      <4>1. m \in Node /\ (m \in immortal \/ color[m] = "black")
        BY <3>3, <2>5, <1>4, <1>8, <1>9
      <4>2. QED
        BY <4>1, <2>5, <1>1 DEF Visited
    <3>4. ClosedIn(color, c, Points, E)
      BY <3>3, <2>5, <1>5, <1>10 DEF ClosedIn
    <3>5. Painted(color, c) \subseteq E => Painted(color, c) \subseteq D
      BY <3>3 DEF Painted
    <3> HIDE DEF E
    <3>6. QED
      BY <3>1, <3>2, <3>4, <3>5
  <2>6. ASSUME NEW D \in SUBSET Node, Start(Starting', "black") \subseteq D, Leads(Open(Running', "scan"), Points', D),
               Leads(Open(Running', "black"), Points', D), ClosedIn(color', "gray", Points', D)
        PROVE  Painted(color', "gray") \subseteq D
    <3>1. PICK E \in SUBSET Node : /\ D \subseteq E /\ Leads(Open(Running, "black"), Points, E)
                                   /\ ClosedIn(color, "gray", Points, E)
                                   /\ Painted(color, "gray") \subseteq E => Painted(color, "gray") \subseteq D
      BY <2>5, <2>6
    <3>2. Leads(Open(Running, "scan"), Points, E)
      BY <3>1, <2>6, <1>7, <1>10 DEF Leads
    <3>3. QED
      BY <3>1, <3>2, <2>1, <1>5
  <2>7. ASSUME NEW x \in Start(Waiting, "white"), NEW D \in SUBSET Node, Start(Starting', "black") \subseteq D,
               x \in D, Leads(Open(Running', "black"), Points', D), ClosedIn(color', "white", Points', D)
        PROVE  Painted(color', "white") \subseteq D
    <3>1. PICK E \in SUBSET Node : /\ D \subseteq E /\ Leads(Open(Running, "black"), Points, E)
                                   /\ ClosedIn(color, "white", Points, E)
                                   /\ Painted(color, "white") \subseteq E => Painted(color, "white") \subseteq D
      BY <2>5, <2>7
    <3>2. QED
      BY <3>1, <2>1, <2>7, <1>5
  <2>8. ASSUME NEW D \in SUBSET Node, Roots \subseteq D, Closed(Kept, Points, D), NEW k \in allocated,
               color[k] = "black" \/ k \in Start(Starting', "black")
        PROVE  k \in D
    <3>1. e[1] \in D
      BY <2>1, <2>8, <1>11
    <3>2. m \in D \cup {Null}
      BY <3>1, <2>8, <1>7, <1>11 DEF Closed
    <3>3. QED
      BY <3>2, <2>1, <2>8, <1>8, <1>9
  <2>9. \A D \in SUBSET Node :
          Roots' \subseteq D /\ Closed(Kept', Points', D)
          => \A k \in allocated' : color'[k] = "black" \/ k \in Start(Starting', "black") => k \in D
    BY <2>8, <1>5, <1>10
  <2>10. QED
    BY <2>2, <2>3, <2>4, <2>6, <2>7, <2>9, <1>7, <1>9 DEF ScanPhase
<1>19. RestPhase' /\ GrayPhase' /\ WhitePhase'
  BY <1>7 DEF RestPhase, GrayPhase, WhitePhase
<1>20. QED
  BY <1>7, <1>13, <1>14, <1>15, <1>17, <1>18, <1>19 DEF HeapInv

\* Scan or black returns; after the last call white begins.
LEMMA ScanLeaves ==
  ASSUME HeapInv, stack # << >>, Leave, UNCHANGED <<heap, var>>,
         \/ Phase = "scan" /\ Current.at = 0 /\ (~Mortal(Current.node) \/ color[Current.node] # "gray")
         \/ Phase \in {"scan", "black"} /\ Current.at = Fields + 1
  PROVE  HeapInv'
<1>1. StackInv /\ HeapTyped /\ Safe /\ Visited /\ Counts /\ ScanPhase /\ Phase \in {"scan", "black"}
  BY DEF HeapInv
<1>2. \A o \in {"gray", "white"} : On(Running, o) = {} /\ Open(Running, o) = {}
  BY <1>1, NotBelow DEF Below
<1>3. UNCHANGED <<immortal, allocated, count, color, field, var>>
  BY DEF heap
<1>4. /\ \A o : Open(Running', o) = Open(Running, o)
      /\ \A o : o # Phase => On(Running', o) = On(Running, o) /\ Past(Running', o) = Past(Running, o)
      /\ On(Running', Phase) \subseteq On(Running, Phase)
  BY <1>1, LeaveViews
<1>5. /\ \A o : On(Running', o) \subseteq On(Running, o)
      /\ On(Running', "release") = On(Running, "release") /\ Past(Running', "release") = Past(Running, "release")
      /\ On(Running', "white") = {}
  BY <1>1, <1>2, <1>4
<1>6. /\ Start(Starting, "release") = {} /\ Start(Starting, "black") = {}
      /\ \A k \in Start(Starting, "scan") : color[k] # "gray"
  <2>1. CASE Phase = "scan" /\ Current.at = 0 /\ (~Mortal(Current.node) \/ color[Current.node] # "gray")
    <3>1. /\ Current.node \in Node /\ Start(Starting, "scan") = {Current.node}
          /\ Start(Starting, "release") = {} /\ Start(Starting, "black") = {}
      BY <2>1, <1>1, StartingIs
    <3>2. color[Current.node] # "gray"
      BY <2>1, <3>1, <1>1 DEF Mortal, Visited
    <3>3. QED
      BY <3>1, <3>2
  <2>2. CASE Current.at = Fields + 1
    BY <2>2, <1>1, LeaveViews
  <2>3. QED
    BY <2>1, <2>2
<1>7. /\ StackInv'
      /\ \/ Phase' \in {"scan", "black"} /\ Starting' = {} /\ Waiting' = Waiting
         \/ /\ Phase' = "white" /\ On(Running', "black") = {} /\ On(Running', "scan") = {}
            /\ \E x \in Node : /\ Waiting = {Visit("white", x)}
                               /\ Starting' = {Visit("white", x)} /\ Waiting' = {}
  BY <1>1, LeaveMove
<1>8. /\ \A e \in Slots :
           /\ e[1] \in On(Running, "black") \/ (e[1] \in On(Running, "scan") /\ color[e[1]] = "black")
           /\ e \notin Open(Running, "black") /\ Points[e] \in Node \ immortal
           => color[Points[e]] = "black"
      /\ \A k \in Node : color[k] = "white" => count[k] = 0
      /\ \A x \in Start(Waiting, "white") : \A D \in SUBSET Node :
           /\ x \in D /\ Leads(Open(Running, "black"), Points, D) /\ ClosedIn(color, "white", Points, D)
           => Painted(color, "white") \subseteq D
      /\ \A D \in SUBSET Node :
           Roots \subseteq D /\ Closed(Kept, Points, D) => \A k \in allocated : color[k] = "black" => k \in D
  BY <1>1, <1>6 DEF ScanPhase
<1>9. ASSUME NEW D \in SUBSET Node, Leads(Open(Running, "scan"), Points, D), Leads(Open(Running, "black"), Points, D),
             ClosedIn(color, "gray", Points, D)
      PROVE  Painted(color, "gray") \subseteq D
  <2> DEFINE E == D \cup Start(Starting, "scan")
  <2>1. E \in SUBSET Node /\ Start(Starting, "scan") \subseteq E
    BY DEF Start
  <2>2. Leads(Open(Running, "scan"), Points, E) /\ Leads(Open(Running, "black"), Points, E)
    BY <1>9 DEF Leads
  <2>3. ClosedIn(color, "gray", Points, E)
    BY <1>6, <1>9 DEF ClosedIn
  <2>4. Painted(color, "gray") \subseteq E
    <3> HIDE DEF E
    <3>1. QED
      BY <2>1, <2>2, <2>3, <1>1, <1>6 DEF ScanPhase
  <2>5. QED
    BY <2>4, <1>6 DEF Painted
<1>10. Points' = Points /\ Roots' = Roots /\ Doomed = {}
  BY <1>1, <1>2, <1>3, <1>5 DEF Points, Roots, Rooted, Named, Doomed
<1>11. HeapTyped'
  BY <1>1, <1>3 DEF HeapTyped
<1>12. CASE Phase' \in {"scan", "black"} /\ Starting' = {} /\ Waiting' = Waiting
  <2>1. /\ Start(Starting', "release") = {} /\ Start(Starting', "black") = {} /\ Start(Starting', "scan") = {}
        /\ Start(Waiting', "white") = Start(Waiting, "white")
    BY <1>12, StartNone
  <2>2. Doomed' = {} /\ Live' = Live /\ Edges' = Edges /\ Counted' = Counted /\ Kept' = Kept
    <3>1. Doomed' = {}
      BY <1>5, <1>12 DEF Doomed
    <3>2. Live' = Live /\ Edges' = Edges
      BY <3>1, <1>3, <1>5, <1>10 DEF Live, Edges
    <3>3. Counted' = Counted /\ Kept' = Kept
      BY <3>2, <1>3, <1>4 DEF Counted, Kept
    <3>4. QED
      BY <3>1, <3>2, <3>3
  <2>3. Safe'
    BY <2>1, <2>2, <1>1, <1>3, <1>6, <1>10 DEF Safe
  <2>4. Visited'
    BY <2>2, <1>1, <1>3, <1>5 DEF Visited, Ops
  <2>5. Counts'
    BY <2>1, <2>2, <1>1, <1>3, <1>6, <1>10 DEF Counts
  <2>6. ScanPhase'
    <3>1. \A e \in Slots :
           /\ e[1] \in On(Running', "black") \/ (e[1] \in On(Running', "scan") /\ color'[e[1]] = "black")
           /\ e \notin Open(Running', "black") /\ Points'[e] \in Node \ immortal'
           => color'[Points'[e]] = "black"
      BY <1>3, <1>4, <1>5, <1>8, <1>10
    <3>2. \A D \in SUBSET Node :
             /\ Leads(Open(Running', "scan"), Points', D) /\ Leads(Open(Running', "black"), Points', D)
             /\ ClosedIn(color', "gray", Points', D)
             => Painted(color', "gray") \subseteq D
      BY <1>3, <1>4, <1>9, <1>10
    <3>3. /\ \A k \in Node : color'[k] = "white" => count'[k] = 0
          /\ \A x \in Start(Waiting', "white") : \A D \in SUBSET Node :
               /\ x \in D /\ Leads(Open(Running', "black"), Points', D) /\ ClosedIn(color', "white", Points', D)
               => Painted(color', "white") \subseteq D
          /\ \A D \in SUBSET Node :
               Roots' \subseteq D /\ Closed(Kept', Points', D) => \A k \in allocated' : color'[k] = "black" => k \in D
      BY <2>1, <2>2, <1>3, <1>4, <1>8, <1>10
    <3>4. QED
      BY <2>1, <3>1, <3>2, <3>3 DEF ScanPhase
  <2>7. RestPhase' /\ GrayPhase' /\ WhitePhase'
    BY <1>12 DEF RestPhase, GrayPhase, WhitePhase
  <2>8. QED
    BY <2>3, <2>4, <2>5, <2>6, <2>7, <1>7, <1>11 DEF HeapInv
<1>13. CASE /\ Phase' = "white" /\ On(Running', "black") = {} /\ On(Running', "scan") = {}
            /\ \E x \in Node : /\ Waiting = {Visit("white", x)}
                               /\ Starting' = {Visit("white", x)} /\ Waiting' = {}
  <2>1. PICK x \in Node : Waiting = {Visit("white", x)} /\ Starting' = {Visit("white", x)}
    BY <1>13
  <2>2. Start(Waiting, "white") = {x} /\ Start(Starting', "white") = {x} /\ Start(Starting', "release") = {}
    BY <2>1, StartOne
  <2>3. Open(Running, "scan") = {} /\ Open(Running, "black") = {}
    BY <1>4, <1>13, OpenIsOn
  <2>4. Painted(color, "gray") = {}
    <3>1. Leads({}, Points, {}) /\ ClosedIn(color, "gray", Points, {}) /\ {} \in SUBSET Node
      BY DEF Leads, ClosedIn
    <3>2. Painted(color, "gray") \subseteq {}
      BY <3>1, <2>3, <1>9
    <3>3. QED
      BY <3>2
  <2>5. \A k \in Node : color[k] = "black" \/ color[k] = "white"
    BY <2>4, <1>1 DEF Painted, HeapTyped
  <2>6. Doomed' = Painted(color, "white")
    BY <1>3, <1>5, <1>13 DEF Doomed, Painted
  <2>7. Live' = Live \ Painted(color, "white")
    BY <2>6, <1>3, <1>5, <1>10 DEF Live
  <2>8. Edges' = Kept
    <3>1. \A e \in Slots : e[1] \in Node /\ (e[1] \in Painted(color, "white") <=> color[e[1]] # "black")
      BY <2>5 DEF Slots, Painted
    <3>2. QED
      BY <3>1, <2>6, <1>3, <1>5, <1>10 DEF Edges, Kept
  <2>9. Counted = Kept /\ Counted' = Kept
    <3>1. Open(Running, "gray") = {}
      BY <1>2
    <3>2. Counted = Kept
      BY <3>1, <2>3 DEF Counted, Kept
    <3>3. Counted' = Kept
      BY <3>1, <2>3, <2>8, <1>3, <1>4 DEF Counted, Kept
    <3>4. QED
      BY <3>2, <3>3
  <2>10. ASSUME NEW k \in Node, color[k] = "white"
         PROVE  (\A v \in Var : var[v] # k) /\ (\A e \in Kept : Points[e] # k)
    <3>1. k \in Node \ immortal /\ count[k] = 0
      BY <2>10, <1>1, <1>8 DEF Visited
    <3>2. QED
      BY <3>1, <2>9, <1>1, CountMeans
  <2>11. Safe'
    <3>1. \A v \in Var : var[v] \in (Live \ Painted(color, "white")) \cup {Null}
      BY <2>10, <1>1 DEF Safe, Painted
    <3>2. Leads(Kept, Points, Live \ Painted(color, "white"))
      <4>1. \A e \in Kept : Points[e] \in Live \cup {Null}
        BY <1>1 DEF Safe, Leads, Kept
      <4>2. QED
        BY <4>1, <2>10 DEF Leads, Painted
    <3>3. QED
      BY <3>1, <3>2, <2>2, <2>7, <2>8, <1>3, <1>10 DEF Safe
  <2>12. Visited'
    BY <1>1, <1>2, <1>3, <1>5, <1>13 DEF Visited, Ops
  <2>13. Counts'
    BY <2>2, <2>9, <1>1, <1>3, <1>6, <1>10 DEF Counts
  <2>14. WhitePhase'
    <3>1. \A k \in Node : color'[k] # "gray"
      BY <2>5, <1>3
    <3>2. \A D \in SUBSET Node :
            {x} \subseteq D /\ ClosedIn(color, "white", Points, D) => Painted(color, "white") \subseteq D
      <4>1. \A D : Leads(Open(Running, "black"), Points, D)
        BY <2>3 DEF Leads
      <4>2. QED
        BY <4>1, <2>2, <1>8
    <3>3. \A D \in SUBSET Node :
            Roots \subseteq D /\ Closed(Kept, Points, D) => allocated \ Painted(color, "white") \subseteq D
      <4>1. \A k \in allocated \ Painted(color, "white") : color[k] = "black"
        BY <2>5, <1>1 DEF Painted, HeapTyped
      <4>2. QED
        BY <4>1, <1>8
    <3>4. QED
      BY <3>1, <3>2, <3>3, <2>2, <2>6, <2>8, <1>3, <1>10 DEF WhitePhase
  <2>15. RestPhase' /\ GrayPhase' /\ ScanPhase'
    BY <1>13 DEF RestPhase, GrayPhase, ScanPhase
  <2>16. QED
    BY <2>11, <2>12, <2>13, <2>14, <2>15, <1>7, <1>11 DEF HeapInv
<1>14. QED
  BY <1>7, <1>12, <1>13
-----------------------------------------------------------------------------
(***************************************************************************)
(* White.                                                                  *)
(***************************************************************************)

\* White takes a node that is to be freed.
LEMMA BeginWhiteKeeps ==
  ASSUME HeapInv, BeginWhite, White(Current.node)
  PROVE  HeapInv'
<1> DEFINE n == Current.node
<1>1. StackInv /\ HeapTyped /\ Safe /\ Visited /\ Counts /\ WhitePhase
  BY DEF HeapInv
<1>2. stack # << >> /\ Phase = "white" /\ Current.at = 0 /\ Current.op = "white"
  BY DEF BeginWhite, Begins, Phase
<1>3. n \in Node /\ Start(Starting, "white") = {n} /\ Start(Starting, "release") = {}
  BY <1>1, <1>2, StartingIs
<1>4. \A o \in {"black", "gray", "scan"} : On(Running, o) = {} /\ Open(Running, o) = {}
  BY <1>1, <1>2, NotBelow DEF Below
<1>5. color[n] = "white" /\ n \in allocated /\ n \notin immortal /\ n \notin On(Running, "release")
  BY <1>1, <1>3 DEF White, Mortal, Visited
<1>6. /\ color' = [color EXCEPT ![n] = "black"] /\ Walk(<< >>)
      /\ UNCHANGED <<immortal, allocated, count, field, var>>
  BY DEF BeginWhite
<1>7. n \notin On(Running, "white")
  BY <1>1, <1>5 DEF Visited
<1>8. /\ StackInv' /\ Phase' = "white" /\ Starting' = {} /\ Waiting' = Waiting
      /\ On(Running', "white") = On(Running, "white") \cup {n}
      /\ Open(Running', "white") = Open(Running, "white") \cup ({n} \X Field)
      /\ \A o : o # "white" => /\ On(Running', o) = On(Running, o)
                               /\ Open(Running', o) = Open(Running, o)
                               /\ Past(Running', o) = Past(Running, o)
  BY <1>1, <1>2, <1>6, <1>7, BeginMove
<1> HIDE DEF n
<1>9. Start(Starting', "release") = {} /\ Start(Starting', "white") = {}
  BY <1>8, StartNone
<1>10. color'[n] = "black" /\ \A m \in Node \ {n} : color'[m] = color[m]
  BY <1>1, <1>3, <1>6 DEF HeapTyped
<1>11. /\ Doomed' = Doomed /\ n \in Doomed /\ Points' = Points /\ Live' = Live /\ Edges' = Edges /\ Roots' = Roots
  <2>1. Doomed' = Doomed /\ n \in Doomed
    BY <1>2, <1>3, <1>5, <1>8, <1>10 DEF Doomed
  <2>2. Points' = Points
    BY <1>6 DEF Points
  <2>3. Live' = Live /\ Edges' = Edges
    BY <2>1, <1>6, <1>8 DEF Live, Edges
  <2>4. Roots' = Roots
    BY <1>6, <1>8 DEF Roots, Rooted, Named
  <2>5. QED
    BY <2>1, <2>2, <2>3, <2>4
<1>12. Counted' = Counted
  <2>1. \A e \in Edges : e[1] \in Node /\ e[1] # n
    BY <1>11 DEF Edges, Slots
  <2>2. \A e \in Edges : color'[e[1]] = color[e[1]]
    BY <2>1, <1>10
  <2>3. QED
    BY <2>2, <1>8, <1>11 DEF Counted
<1>13. HeapTyped'
  BY <1>1, <1>6, <1>10 DEF HeapTyped
<1>14. Safe'
  BY <1>1, <1>3, <1>6, <1>9, <1>11 DEF Safe
<1>15. Visited'
  BY <1>1, <1>4, <1>5, <1>6, <1>8, <1>10, <1>11 DEF Visited, Ops
<1>16. Counts'
  BY <1>1, <1>3, <1>6, <1>9, <1>11, <1>12 DEF Counts
<1>17. WhitePhase'
  <2>1. /\ \A k \in Node : color[k] # "gray"
        /\ \A D \in SUBSET Node :
             /\ n \in D /\ Leads(Open(Running, "white"), Points, D) /\ ClosedIn(color, "white", Points, D)
             => Painted(color, "white") \subseteq D
        /\ \A D \in SUBSET Node :
             Roots \subseteq D /\ Closed(Edges, Points, D) => allocated \ Doomed \subseteq D
    BY <1>1, <1>2, <1>3 DEF WhitePhase
  <2>2. ASSUME NEW D \in SUBSET Node, Leads(Open(Running', "white"), Points', D), ClosedIn(color', "white", Points', D)
        PROVE  Painted(color', "white") \subseteq D
    <3> DEFINE E == D \cup {n}
    <3>1. E \in SUBSET Node /\ n \in E
      BY <1>3
    <3>2. Leads(Open(Running, "white"), Points, E)
      BY <2>2, <1>8, <1>11 DEF Leads
    <3>3. ClosedIn(color, "white", Points, E)
      <4>1. SUFFICES ASSUME NEW e \in Slots, color[e[1]] = "white", e[1] \in E PROVE Points[e] \in E \cup {Null}
        BY DEF ClosedIn
      <4>2. CASE e[1] = n
        <5>1. e \in {n} \X Field
          BY <4>2 DEF Slots
        <5>2. QED
          BY <5>1, <2>2, <1>8, <1>11 DEF Leads
      <4>3. CASE e[1] # n
        BY <4>1, <4>3, <2>2, <1>10, <1>11 DEF ClosedIn, Slots
      <4>4. QED
        BY <4>2, <4>3
    <3> HIDE DEF E
    <3>4. Painted(color, "white") \subseteq E
      BY <3>1, <3>2, <3>3, <2>1
    <3>5. QED
      BY <3>4, <1>10 DEF E, Painted
  <2>3. \A k \in Node : color'[k] # "gray"
    BY <2>1, <1>10
  <2>4. \A D \in SUBSET Node :
          Roots' \subseteq D /\ Closed(Edges', Points', D) => allocated' \ Doomed' \subseteq D
    BY <2>1, <1>6, <1>11
  <2>5. QED
    BY <2>2, <2>3, <2>4, <1>9 DEF WhitePhase
<1>18. RestPhase' /\ GrayPhase' /\ ScanPhase'
  BY <1>8 DEF RestPhase, GrayPhase, ScanPhase
<1>19. QED
  BY <1>8, <1>13, <1>14, <1>15, <1>16, <1>17, <1>18 DEF HeapInv

\* White goes on to what a field points to.
LEMMA WhiteFieldKeeps ==
  ASSUME HeapInv, WhiteField
  PROVE  HeapInv'
<1> DEFINE m == Child
<1> DEFINE e == <<Current.node, Current.at>>
<1>1. StackInv /\ HeapTyped /\ Safe /\ Visited /\ Counts /\ WhitePhase
  BY DEF HeapInv
<1>2. stack # << >> /\ Phase = "white" /\ Current.at \in Field /\ Current.op = "white"
  BY DEF WhiteField, AtField, Phase
<1>3. Walk(CallsOn("white", m)) /\ UNCHANGED <<immortal, allocated, count, color, field, var>>
  BY DEF WhiteField, heap
<1>4. m \in Node \cup {Null}
  BY <1>1, <1>2, CurrentFacts DEF HeapTyped, Child
<1>5. /\ StackInv' /\ Phase' = "white"
      /\ Start(Starting', "white") = {m} \ {Null} /\ \A o : o # "white" => Start(Starting', o) = {}
      /\ \A o : Start(Starting, o) = {}
      /\ e \in Open(Running, "white") /\ Points[e] = m
      /\ \A o : On(Running', o) = On(Running, o)
      /\ Open(Running', "white") = Open(Running, "white") \ {e}
      /\ \A o : o # "white" => Open(Running', o) = Open(Running, o) /\ Past(Running', o) = Past(Running, o)
  BY <1>1, <1>2, <1>3, <1>4, VisitMove
<1> HIDE DEF m, e
<1>6. /\ Start(Starting', "release") = {} /\ Start(Starting, "release") = {}
      /\ Start(Starting, "white") = {} /\ Start(Starting', "white") = {m} \ {Null}
  BY <1>5
<1>7. /\ Doomed' = Doomed /\ Points' = Points /\ Live' = Live /\ Edges' = Edges /\ Roots' = Roots
      /\ Counted' = Counted
  <2>1. Doomed' = Doomed /\ Points' = Points
    BY <1>2, <1>3, <1>5 DEF Doomed, Points
  <2>2. Live' = Live /\ Edges' = Edges
    BY <2>1, <1>3, <1>5 DEF Live, Edges
  <2>3. Roots' = Roots
    BY <1>3, <1>5 DEF Roots, Rooted, Named
  <2>4. Counted' = Counted
    BY <2>2, <1>3, <1>5 DEF Counted
  <2>5. QED
    BY <2>1, <2>2, <2>3, <2>4
<1>8. HeapTyped'
  BY <1>1, <1>3 DEF HeapTyped
<1>9. Safe'
  BY <1>1, <1>3, <1>6, <1>7 DEF Safe
<1>10. Visited'
  BY <1>1, <1>3, <1>5, <1>7 DEF Visited
<1>11. Counts'
  BY <1>1, <1>3, <1>6, <1>7 DEF Counts
<1>12. WhitePhase'
  <2>1. /\ \A k \in Node : color[k] # "gray"
        /\ \A D \in SUBSET Node :
             /\ Leads(Open(Running, "white"), Points, D) /\ ClosedIn(color, "white", Points, D)
             => Painted(color, "white") \subseteq D
        /\ \A D \in SUBSET Node :
             Roots \subseteq D /\ Closed(Edges, Points, D) => allocated \ Doomed \subseteq D
    BY <1>1, <1>2, <1>6 DEF WhitePhase
  <2>2. ASSUME NEW D \in SUBSET Node, {m} \ {Null} \subseteq D, Leads(Open(Running, "white") \ {e}, Points, D)
        PROVE  Leads(Open(Running, "white"), Points, D)
    BY <2>2, <1>5 DEF Leads
  <2>3. \A D \in SUBSET Node :
          /\ Start(Starting', "white") \subseteq D
          /\ Leads(Open(Running', "white"), Points', D) /\ ClosedIn(color', "white", Points', D)
          => Painted(color', "white") \subseteq D
    BY <2>1, <2>2, <1>3, <1>5, <1>6, <1>7
  <2>4. /\ \A k \in Node : color'[k] # "gray"
        /\ \A D \in SUBSET Node :
             Roots' \subseteq D /\ Closed(Edges', Points', D) => allocated' \ Doomed' \subseteq D
    BY <2>1, <1>3, <1>7
  <2>5. QED
    BY <2>3, <2>4 DEF WhitePhase
<1>13. RestPhase' /\ GrayPhase' /\ ScanPhase'
  BY <1>5 DEF RestPhase, GrayPhase, ScanPhase
<1>14. QED
  BY <1>5, <1>8, <1>9, <1>10, <1>11, <1>12, <1>13 DEF HeapInv

\* White has nothing to do, or gives a node back.
LEMMA WhiteLeaves ==
  ASSUME HeapInv, stack # << >>, Phase = "white", Leave,
         \/ Current.at = 0 /\ ~White(Current.node) /\ UNCHANGED <<heap, var>>
         \/ Current.at = Fields + 1 /\ FreeNode
  PROVE  HeapInv'
<1> DEFINE F == On(Running, "white") \ On(Running', "white")
<1>1. StackInv /\ HeapTyped /\ Safe /\ Visited /\ Counts /\ WhitePhase
  BY DEF HeapInv
<1>2. \A o \in {"black", "gray", "scan"} : On(Running, o) = {} /\ Open(Running, o) = {}
  BY <1>1, NotBelow DEF Below
<1>3. /\ \A o : Open(Running', o) = Open(Running, o)
      /\ \A o : o # "white" => On(Running', o) = On(Running, o) /\ Past(Running', o) = Past(Running, o)
      /\ On(Running', "white") = On(Running, "white") \ F
  BY <1>1, LeaveViews
<1>4. /\ F \subseteq On(Running, "white") /\ F \subseteq Node
      /\ allocated' = allocated \ F /\ immortal' = immortal /\ color' = color /\ var' = var
      /\ count' \in [Node -> Int] /\ field' \in [Node -> [Field -> Node \cup {Null}]]
      /\ \A k \in Node \ F : count'[k] = count[k] /\ field'[k] = field[k]
      /\ \A k \in F : count'[k] = 0 /\ \A f \in Field : field'[k][f] = Null
  <2>1. On(Running, "white") \subseteq Node
    BY DEF On
  <2>2. CASE Current.at = 0 /\ ~White(Current.node) /\ UNCHANGED <<heap, var>>
    <3>1. F = {}
      BY <2>2, <1>1, LeaveViews
    <3> HIDE DEF F
    <3>2. UNCHANGED <<immortal, allocated, count, color, field, var>>
      BY <2>2 DEF heap
    <3>3. QED
      BY <3>1, <3>2, <1>1 DEF HeapTyped
  <2>3. CASE Current.at = Fields + 1 /\ FreeNode
    <3>1. F = {Current.node} /\ Current.node \in On(Running, "white")
      BY <2>3, <1>1, LeaveViews
    <3> HIDE DEF F
    <3>2. /\ allocated' = allocated \ {Current.node}
          /\ count' = [count EXCEPT ![Current.node] = 0]
          /\ field' = [field EXCEPT ![Current.node] = [f \in Field |-> Null]]
          /\ UNCHANGED <<immortal, color, var>>
      BY <2>3 DEF FreeNode
    <3>3. Current.node \in Node
      BY <2>1, <3>1
    <3>4. [f \in Field |-> Null] \in [Field -> Node \cup {Null}]
      OBVIOUS
    <3>5. /\ count' \in [Node -> Int] /\ field' \in [Node -> [Field -> Node \cup {Null}]]
          /\ \A k \in Node \ {Current.node} : count'[k] = count[k] /\ field'[k] = field[k]
          /\ count'[Current.node] = 0 /\ field'[Current.node] = [f \in Field |-> Null]
      BY <3>2, <3>3, <3>4, <1>1 DEF HeapTyped
    <3>6. QED
      BY <3>1, <3>2, <3>3, <3>5
  <2>4. QED
    BY <2>2, <2>3
<1>5. /\ Start(Starting, "release") = {}
      /\ \A k \in Start(Starting, "white") : k \in Node /\ color[k] # "white"
  <2>1. CASE Current.at = 0 /\ ~White(Current.node)
    <3>1. Current.node \in Node /\ Start(Starting, "white") = {Current.node} /\ Start(Starting, "release") = {}
      BY <2>1, <1>1, StartingIs
    <3>2. color[Current.node] # "white"
      BY <2>1, <3>1, <1>1 DEF White, Mortal, Visited
    <3>3. QED
      BY <3>1, <3>2
  <2>2. CASE Current.at = Fields + 1
    BY <2>2, <1>1, LeaveViews
  <2>3. QED
    BY <2>1, <2>2
<1>6. /\ StackInv' /\ Starting' = {} /\ Waiting' = {}
      /\ Phase' = "white" \/ (Phase' = "release" /\ On(Running', "white") = {})
  BY <1>1, LeaveMove DEF StackInv
<1> HIDE DEF F
<1>7. \A o : Start(Starting', o) = {}
  BY <1>6, StartNone
<1>8. /\ \A k \in Node : color[k] # "gray"
      /\ \A D \in SUBSET Node :
           Roots \subseteq D /\ Closed(Edges, Points, D) => allocated \ Doomed \subseteq D
  BY <1>1 DEF WhitePhase
<1>9. ASSUME NEW D \in SUBSET Node, Leads(Open(Running, "white"), Points, D), ClosedIn(color, "white", Points, D)
      PROVE  Painted(color, "white") \subseteq D
  <2> DEFINE E == D \cup Start(Starting, "white")
  <2>1. E \in SUBSET Node /\ Start(Starting, "white") \subseteq E
    BY <1>5
  <2>2. Leads(Open(Running, "white"), Points, E)
    BY <1>9 DEF Leads
  <2>3. ClosedIn(color, "white", Points, E)
    BY <1>5, <1>9 DEF ClosedIn
  <2>4. Painted(color, "white") \subseteq E
    <3> HIDE DEF E
    <3>1. QED
      BY <2>1, <2>2, <2>3, <1>1 DEF WhitePhase
  <2>5. QED
    BY <2>4, <1>5 DEF Painted
<1>10. Phase' = "release" => Painted(color, "white") = {}
  <2>1. SUFFICES ASSUME Phase' = "release" PROVE Painted(color, "white") = {}
    OBVIOUS
  <2>2. Open(Running, "white") = {}
    BY <2>1, <1>3, <1>6, OpenIsOn
  <2>3. Leads({}, Points, {}) /\ ClosedIn(color, "white", Points, {}) /\ {} \in SUBSET Node
    BY DEF Leads, ClosedIn
  <2>4. Painted(color, "white") \subseteq {}
    BY <2>2, <2>3, <1>9
  <2>5. QED
    BY <2>4
<1>11. \A k \in F : color[k] = "black" /\ k \notin On(Running, "release") /\ k \notin immortal /\ k \notin Live
  BY <1>1, <1>4 DEF Visited, Live, Doomed, Ops
<1>12. Doomed' = Doomed \ F /\ F \subseteq Doomed
  <2>1. Doomed = On(Running, "white") \cup Painted(color, "white")
    BY DEF Doomed, Painted
  <2>2. \A k \in F : k \notin Painted(color, "white")
    BY <1>11 DEF Painted
  <2>3. Doomed' = (On(Running, "white") \ F) \cup Painted(color, "white")
    <3>1. CASE Phase' = "white"
      BY <3>1, <1>3, <1>4 DEF Doomed, Painted
    <3>2. CASE Phase' = "release"
      BY <3>2, <1>3, <1>10 DEF Doomed
    <3>3. QED
      BY <3>1, <3>2, <1>6
  <2>4. QED
    BY <2>1, <2>2, <2>3, <1>4
<1>13. Live' = Live /\ Edges' = Edges /\ allocated' \ Doomed' = allocated \ Doomed
  <2>1. allocated' \ Doomed' = allocated \ Doomed
    BY <1>4, <1>12
  <2>2. Live' = Live
    BY <2>1, <1>3 DEF Live
  <2>3. Edges' = Edges
    BY <2>1, <1>3 DEF Edges
  <2>4. QED
    BY <2>1, <2>2, <2>3
<1>14. \A e \in Slots : e[1] \in Node /\ (e[1] \notin F => Points'[e] = Points[e]) /\ (e[1] \in F => Points'[e] = Null)
  BY <1>4 DEF Points, Slots
<1>15. \A e \in Edges : Points'[e] = Points[e]
  BY <1>12, <1>14 DEF Edges
<1>16. Roots' = Roots /\ Counted' = Counted /\ Counted \subseteq Edges
  <2>1. Roots' = Roots
    BY <1>3, <1>4 DEF Roots, Rooted, Named
  <2>2. Counted' = Counted
    BY <1>3, <1>4, <1>13 DEF Counted
  <2>3. QED
    BY <2>1, <2>2 DEF Counted
<1>17. HeapTyped'
  <2>1. immortal' \subseteq allocated' /\ allocated' \subseteq Node
    BY <1>1, <1>4, <1>11 DEF HeapTyped
  <2>2. \A k \in Node \ allocated' : color'[k] = "black" /\ \A f \in Field : field'[k][f] = Null
    BY <1>1, <1>4, <1>11 DEF HeapTyped
  <2>3. QED
    BY <2>1, <2>2, <1>1, <1>4 DEF HeapTyped
<1>18. Safe'
  <2>1. Leads(Edges, Points', Live)
    BY <1>1, <1>15 DEF Safe, Leads
  <2>2. QED
    BY <2>1, <1>1, <1>4, <1>7, <1>13 DEF Safe
<1>19. Visited'
  <2>1. \A k \in Node : color'[k] # "black" => k \in allocated' \ immortal' /\ k \notin On(Running', "release")
    BY <1>1, <1>3, <1>4, <1>11 DEF Visited
  <2>2. \A o \in Ops : On(Running', o) \subseteq allocated' \ immortal'
    <3>1. On(Running', "white") \subseteq allocated' \ immortal'
      BY <1>1, <1>3, <1>4 DEF Visited, Ops
    <3>2. On(Running', "release") \subseteq allocated' \ immortal'
      BY <1>1, <1>3, <1>4, <1>11 DEF Visited, Ops
    <3>3. QED
      BY <3>1, <3>2, <1>2, <1>3 DEF Ops
  <2>3. QED
    BY <2>1, <2>2, <1>1, <1>2, <1>3, <1>4 DEF Visited
<1>20. Counts'
  <2>1. SUFFICES ASSUME NEW k \in Node \ immortal
                 PROVE  count'[k] = Cardinality(Into(Var, var, k)) + Cardinality(Into(Counted, Points, k)) + Weight({}, k)
    <3>1. \A k \in Node : Into(Counted, Points', k) = Into(Counted, Points, k)
      BY <1>15, <1>16, IntoSame
    <3>2. QED
      BY <3>1, <1>4, <1>7, <1>16 DEF Counts
  <2>2. CASE k \notin F
    BY <2>2, <1>1, <1>4, <1>5 DEF Counts
  <2>3. CASE k \in F
    <3>1. k \notin Live /\ k # Null
      BY <2>3, <1>11, HeapAssumption
    <3>2. Into(Var, var, k) = {}
      BY <3>1, <1>1 DEF Safe, Into
    <3>3. Into(Counted, Points, k) = {}
      BY <3>1, <1>1, <1>16 DEF Safe, Leads, Into
    <3>4. Cardinality(Into(Var, var, k)) = 0 /\ Cardinality(Into(Counted, Points, k)) = 0 /\ Weight({}, k) = 0
      BY <3>2, <3>3, FS_EmptySet DEF Weight
    <3>5. count'[k] = 0
      BY <2>3, <1>4
    <3>6. QED
      BY <3>4, <3>5
  <2>4. QED
    BY <2>2, <2>3
<1>21. ASSUME NEW D \in SUBSET Node, Roots' \subseteq D, Closed(Edges', Points', D)
       PROVE  allocated' \ Doomed' \subseteq D
  <2>1. Roots \subseteq D /\ Closed(Edges, Points, D)
    BY <1>13, <1>15, <1>16, <1>21 DEF Closed
  <2>2. QED
    BY <2>1, <1>8, <1>13
<1>22. CASE Phase' = "white"
  <2>1. ASSUME NEW D \in SUBSET Node, Leads(Open(Running', "white"), Points', D), ClosedIn(color', "white", Points', D)
        PROVE  Painted(color', "white") \subseteq D
    <3>1. ClosedIn(color, "white", Points, D)
      BY <2>1, <1>4, <1>11, <1>14 DEF ClosedIn
    <3>2. Leads(Open(Running', "white"), Points, D)
      <4>1. \A e \in Open(Running', "white") : e[1] \in On(Running', "white") /\ e \in Slots
        BY DEF Open, On, Slots
      <4>2. \A e \in Open(Running', "white") : Points'[e] = Points[e]
        BY <4>1, <1>3, <1>14
      <4>3. QED
        BY <4>2, <2>1 DEF Leads
    <3>3. QED
      BY <3>1, <3>2, <1>3, <1>4, <1>9
  <2>2. WhitePhase'
    BY <2>1, <1>4, <1>8, <1>21 DEF WhitePhase
  <2>3. RestPhase' /\ GrayPhase' /\ ScanPhase'
    BY <1>22 DEF RestPhase, GrayPhase, ScanPhase
  <2>4. QED
    BY <2>2, <2>3, <1>6, <1>17, <1>18, <1>19, <1>20 DEF HeapInv
<1>23. CASE Phase' = "release" /\ On(Running', "white") = {}
  <2>1. Painted(color, "white") = {}
    BY <1>10, <1>23
  <2>2. \A k \in Node : color'[k] = "black"
    BY <2>1, <1>1, <1>4, <1>8 DEF Painted, HeapTyped
  <2>3. Doomed' = {}
    BY <2>1, <1>4, <1>23 DEF Doomed
  <2>4. RestPhase'
    BY <2>2, <2>3, <1>21 DEF RestPhase
  <2>5. GrayPhase' /\ ScanPhase' /\ WhitePhase'
    BY <1>23 DEF GrayPhase, ScanPhase, WhitePhase
  <2>6. QED
    BY <2>4, <2>5, <1>6, <1>17, <1>18, <1>19, <1>20 DEF HeapInv
<1>24. QED
  BY <1>6, <1>22, <1>23
-----------------------------------------------------------------------------
(***************************************************************************)
(* Release.                                                                *)
(***************************************************************************)

\* While no trial is under way, every reference counts.
LEMMA AllCounted ==
  ASSUME StackInv, Phase = "release", RestPhase
  PROVE  /\ \A o \in {"black", "gray", "scan", "white"} : On(Running, o) = {} /\ Open(Running, o) = {}
         /\ Doomed = {} /\ Counted = Edges
         /\ \A k \in Node : color[k] = "black"
<1>1. \A o \in {"black", "gray", "scan", "white"} : On(Running, o) = {} /\ Open(Running, o) = {}
  BY NotBelow DEF Below
<1>2. \A k \in Node : color[k] = "black"
  BY DEF RestPhase
<1>3. Doomed = {}
  BY <1>1 DEF Doomed
<1>4. Counted = Edges
  <2>1. \A e \in Edges : e[1] \in Node
    BY DEF Edges, Slots
  <2>2. QED
    BY <2>1, <1>1, <1>2 DEF Counted
<1>5. QED
  BY <1>1, <1>2, <1>3, <1>4

\* The last reference: the node's fields come next.
LEMMA ReleaseLast ==
  ASSUME HeapInv, Release, Mortal(Current.node), count[Current.node] = 1
  PROVE  HeapInv'
<1> DEFINE n == Current.node
<1>1. StackInv /\ HeapTyped /\ Safe /\ Visited /\ Counts /\ RestPhase
  BY DEF HeapInv
<1>2. stack # << >> /\ Phase = "release" /\ Current.at = 0 /\ Current.op = "release"
  BY DEF Release, Begins, Phase
<1>3. n \in Node /\ Start(Starting, "release") = {n}
  BY <1>1, <1>2, StartingIs
<1>4. /\ \A o \in {"black", "gray", "scan", "white"} : On(Running, o) = {} /\ Open(Running, o) = {}
      /\ Doomed = {} /\ Counted = Edges
      /\ \A k \in Node : color[k] = "black"
  BY <1>1, <1>2, AllCounted
<1>5. /\ count' = [count EXCEPT ![n] = @ - 1] /\ Walk(<< >>) /\ count[n] = 1 /\ n \notin immortal
      /\ UNCHANGED <<immortal, allocated, color, field, var>>
  BY DEF Release, Mortal
<1>6. n \in Live /\ n \notin On(Running, "release") /\ n \in allocated
  BY <1>1, <1>3 DEF Safe, Live
<1>7. /\ StackInv' /\ Phase' = "release" /\ Starting' = {}
      /\ On(Running', "release") = On(Running, "release") \cup {n}
      /\ Past(Running', "release") = Past(Running, "release")
      /\ \A o : o # "release" => On(Running', o) = On(Running, o) /\ Open(Running', o) = Open(Running, o)
  BY <1>1, <1>2, <1>5, <1>6, BeginMove
<1> HIDE DEF n
<1>8. Start(Starting', "release") = {}
  BY <1>7, StartNone
<1>9. /\ Doomed' = {} /\ Points' = Points /\ Live' = Live \ {n} /\ Edges' = Edges /\ Roots' = Roots \cup {n}
      /\ Counted' = Counted
  <2>1. Doomed' = {} /\ Points' = Points
    BY <1>4, <1>5, <1>7 DEF Doomed, Points
  <2>2. Live' = Live \ {n} /\ Edges' = Edges
    BY <2>1, <1>4, <1>5, <1>7 DEF Live, Edges
  <2>3. Roots' = Roots \cup {n}
    BY <1>5, <1>7 DEF Roots, Rooted, Named
  <2>4. Counted' = Counted
    BY <2>2, <1>5, <1>7 DEF Counted
  <2>5. QED
    BY <2>1, <2>2, <2>3, <2>4
<1>10. (\A v \in Var : var[v] # n) /\ (\A e \in Edges : Points[e] # n)
  BY <1>1, <1>3, <1>4, <1>5, CountMeans
<1>11. HeapTyped'
  BY <1>1, <1>3, <1>5 DEF HeapTyped
<1>12. Safe'
  BY <1>1, <1>5, <1>8, <1>9, <1>10 DEF Safe, Leads
<1>13. Visited'
  <2>1. \A k \in Node : color'[k] = "black"
    BY <1>4, <1>5
  <2>2. \A o \in Ops : On(Running', o) \subseteq allocated' \ immortal'
    BY <1>1, <1>5, <1>6, <1>7 DEF Visited, Ops
  <2>3. \A o \in {"black", "gray", "scan", "white"} : On(Running', o) = {}
    BY <1>4, <1>7
  <2>4. On(Running', "release") \subseteq Node
    BY <2>2, <1>1, <1>5 DEF HeapTyped, Ops
  <2>5. QED
    BY <2>1, <2>2, <2>3, <2>4 DEF Visited
<1>14. Counts'
  <2>1. SUFFICES ASSUME NEW k \in Node \ immortal
                 PROVE  count'[k] = Cardinality(Into(Var, var, k)) + Cardinality(Into(Counted, Points, k)) + Weight({}, k)
    BY <1>5, <1>8, <1>9 DEF Counts
  <2>2. /\ Cardinality(Into(Var, var, k)) \in Nat /\ Cardinality(Into(Counted, Points, k)) \in Nat
        /\ Weight({}, k) = 0 /\ (k = n => Weight({n}, k) = 1) /\ (k # n => Weight({n}, k) = 0)
    BY FiniteHolders, CountedIsFinite, IntoFacts DEF Weight
  <2>3. count[k] = Cardinality(Into(Var, var, k)) + Cardinality(Into(Counted, Points, k)) + Weight({n}, k)
    BY <1>1, <1>3 DEF Counts
  <2>4. /\ k = n => count'[k] = count[k] - 1
        /\ k # n => count'[k] = count[k]
    BY <1>1, <1>3, <1>5 DEF HeapTyped
  <2>5. QED
    BY <2>2, <2>3, <2>4
<1>15. RestPhase'
  <2>1. \A D \in SUBSET Node : Roots \subseteq D /\ n \in D /\ Closed(Edges, Points, D) => allocated \subseteq D
    BY <1>1, <1>2, <1>3 DEF RestPhase
  <2>2. QED
    BY <2>1, <1>4, <1>5, <1>8, <1>9 DEF RestPhase
<1>16. GrayPhase' /\ ScanPhase' /\ WhitePhase'
  BY <1>7 DEF GrayPhase, ScanPhase, WhitePhase
<1>17. QED
  BY <1>7, <1>11, <1>12, <1>13, <1>14, <1>15, <1>16 DEF HeapInv

\* A reference is left: the node is the suspect of a trial.
LEMMA ReleaseSuspects ==
  ASSUME HeapInv, Release, Mortal(Current.node), count[Current.node] # 1
  PROVE  HeapInv'
<1> DEFINE n == Current.node
<1>1. StackInv /\ HeapTyped /\ Safe /\ Visited /\ Counts /\ RestPhase
  BY DEF HeapInv
<1>2. stack # << >> /\ Phase = "release" /\ Current.at = 0 /\ Current.op = "release"
  BY DEF Release, Begins, Phase
<1>3. n \in Node /\ Start(Starting, "release") = {n}
  BY <1>1, <1>2, StartingIs
<1>4. /\ \A o \in {"black", "gray", "scan", "white"} : On(Running, o) = {} /\ Open(Running, o) = {}
      /\ Doomed = {} /\ Counted = Edges
      /\ \A k \in Node : color[k] = "black"
  BY <1>1, <1>2, AllCounted
<1>5. /\ count' = [count EXCEPT ![n] = @ - 1] /\ Become(Trial(n)) /\ n \notin immortal
      /\ UNCHANGED <<immortal, allocated, color, field, var>>
  BY DEF Release, Mortal
<1>6. n \in Live
  BY <1>1, <1>3 DEF Safe
<1>7. /\ StackInv' /\ Phase' = "gray" /\ Running' = Running /\ Starting' = {Visit("gray", n)}
      /\ Waiting' = {Visit("scan", n), Visit("white", n)}
  BY <1>1, <1>2, <1>3, <1>5, TrialMove
<1> HIDE DEF n
<1>8. Start(Starting', "release") = {} /\ Start(Starting', "gray") = {n} /\ Start(Waiting', "white") = {n}
  BY <1>3, <1>7, StartTwo DEF Start, Visit
<1>9. /\ Doomed' = {} /\ Points' = Points /\ Live' = Live /\ Edges' = Edges /\ Roots' = Roots
      /\ Counted' = Counted
  <2>1. Doomed' = {} /\ Points' = Points
    BY <1>4, <1>5, <1>7 DEF Doomed, Points
  <2>2. Live' = Live /\ Edges' = Edges
    BY <2>1, <1>4, <1>5, <1>7 DEF Live, Edges
  <2>3. Roots' = Roots
    BY <1>5, <1>7 DEF Roots, Rooted, Named
  <2>4. Counted' = Counted
    BY <2>2, <1>5, <1>7 DEF Counted
  <2>5. QED
    BY <2>1, <2>2, <2>3, <2>4
<1>10. HeapTyped'
  BY <1>1, <1>3, <1>5 DEF HeapTyped
<1>11. Safe'
  BY <1>1, <1>5, <1>8, <1>9 DEF Safe
<1>12. Visited'
  BY <1>1, <1>5, <1>7, <1>9 DEF Visited
<1>13. Counts'
  <2>1. SUFFICES ASSUME NEW k \in Node \ immortal
                 PROVE  count'[k] = Cardinality(Into(Var, var, k)) + Cardinality(Into(Counted, Points, k)) + Weight({}, k)
    BY <1>5, <1>8, <1>9 DEF Counts
  <2>2. /\ Cardinality(Into(Var, var, k)) \in Nat /\ Cardinality(Into(Counted, Points, k)) \in Nat
        /\ Weight({}, k) = 0 /\ (k = n => Weight({n}, k) = 1) /\ (k # n => Weight({n}, k) = 0)
    BY FiniteHolders, CountedIsFinite, IntoFacts DEF Weight
  <2>3. count[k] = Cardinality(Into(Var, var, k)) + Cardinality(Into(Counted, Points, k)) + Weight({n}, k)
    BY <1>1, <1>3 DEF Counts
  <2>4. /\ k = n => count'[k] = count[k] - 1
        /\ k # n => count'[k] = count[k]
    BY <1>1, <1>3, <1>5 DEF HeapTyped
  <2>5. QED
    BY <2>2, <2>3, <2>4
<1>14. GrayPhase'
  <2>1. \A D \in SUBSET Node : Roots \subseteq D /\ n \in D /\ Closed(Edges, Points, D) => allocated \subseteq D
    BY <1>1, <1>2, <1>3 DEF RestPhase
  <2>2. Painted(color', "gray") = {} /\ \A k \in Node : color'[k] = "black"
    BY <1>4, <1>5 DEF Painted
  <2>3. \A e \in Slots : color'[e[1]] # "gray"
    BY <2>2 DEF Slots
  <2>4. \A D \in SUBSET Node :
          Roots' \subseteq D /\ n \in D /\ Closed(Edges', Points', D) => allocated' \subseteq D
    BY <2>1, <1>5, <1>9
  <2>5. n \in Live' \ immortal'
    BY <1>5, <1>6, <1>9
  <2>6. QED
    BY <2>2, <2>3, <2>4, <2>5, <1>8 DEF GrayPhase
<1>15. RestPhase' /\ ScanPhase' /\ WhitePhase'
  BY <1>7 DEF RestPhase, ScanPhase, WhitePhase
<1>16. QED
  BY <1>7, <1>10, <1>11, <1>12, <1>13, <1>14, <1>15 DEF HeapInv

\* A release goes on to what a field of a node to be freed points to.
LEMMA ReleaseFieldKeeps ==
  ASSUME HeapInv, ReleaseField
  PROVE  HeapInv'
<1> DEFINE m == Child
<1> DEFINE e == <<Current.node, Current.at>>
<1>1. StackInv /\ HeapTyped /\ Safe /\ Visited /\ Counts /\ RestPhase
  BY DEF HeapInv
<1>2. stack # << >> /\ Phase = "release" /\ Current.at \in Field /\ Current.op = "release"
  BY DEF ReleaseField, AtField, Phase
<1>3. /\ \A o \in {"black", "gray", "scan", "white"} : On(Running, o) = {} /\ Open(Running, o) = {}
      /\ Doomed = {} /\ Counted = Edges
      /\ \A k \in Node : color[k] = "black"
  BY <1>1, <1>2, AllCounted
<1>4. Walk(CallsOn("release", m)) /\ UNCHANGED <<immortal, allocated, count, color, field, var>>
  BY DEF ReleaseField, heap
<1>5. m \in Node \cup {Null}
  BY <1>1, <1>2, CurrentFacts DEF HeapTyped, Child
<1>6. /\ StackInv' /\ Phase' = "release"
      /\ Start(Starting', "release") = {m} \ {Null}
      /\ \A o : Start(Starting, o) = {}
      /\ e \in Slots /\ e \notin Past(Running, "release")
      /\ e[1] \in On(Running, "release") /\ Points[e] = m
      /\ \A o : On(Running', o) = On(Running, o)
      /\ Past(Running', "release") = Past(Running, "release") \cup {e}
      /\ \A o : o # "release" => Open(Running', o) = Open(Running, o)
  BY <1>1, <1>2, <1>4, <1>5, VisitMove
<1> HIDE DEF m, e
<1>7. e \in Edges
  BY <1>1, <1>3, <1>6 DEF Edges, Visited, Ops
<1>8. /\ Doomed' = {} /\ Points' = Points /\ Live' = Live /\ Edges' = Edges \ {e} /\ Roots' = Roots
      /\ Counted' = Edges \ {e}
  <2>1. Doomed' = {} /\ Points' = Points
    BY <1>3, <1>4, <1>6 DEF Doomed, Points
  <2>2. Live' = Live /\ Edges' = Edges \ {e}
    BY <2>1, <1>3, <1>4, <1>6 DEF Live, Edges
  <2>3. Roots' = Roots
    BY <1>4, <1>6 DEF Roots, Rooted, Named
  <2>4. Counted' = Edges'
    <3>1. \A d \in Edges : color'[d[1]] = "black"
      BY <1>3, <1>4 DEF Edges, Slots
    <3>2. Open(Running', "black") = {}
      BY <1>3, <1>6
    <3>3. QED
      BY <2>2, <3>1, <3>2 DEF Counted
  <2>5. QED
    BY <2>1, <2>2, <2>3, <2>4
<1>9. m \in Live \cup {Null}
  BY <1>1, <1>6, <1>7 DEF Safe, Leads
<1>10. HeapTyped'
  BY <1>1, <1>4 DEF HeapTyped
<1>11. Safe'
  BY <1>1, <1>4, <1>6, <1>8, <1>9 DEF Safe, Leads
<1>12. Visited'
  BY <1>1, <1>4, <1>6, <1>8 DEF Visited
<1>13. Counts'
  <2>1. SUFFICES ASSUME NEW k \in Node \ immortal
                 PROVE  count[k] = Cardinality(Into(Var, var, k)) + Cardinality(Into(Edges \ {e}, Points, k))
                                   + Weight({m} \ {Null}, k)
    BY <1>4, <1>6, <1>8 DEF Counts
  <2>2. IsFiniteSet(Edges)
    BY CountedIsFinite, <1>3
  <2>3. Cardinality(Into(Edges \ {e}, Points, k)) = Cardinality(Into(Edges, Points, k)) - Weight({m}, k)
    <3>1. Cardinality(Into(Edges \ {e}, Points, k)) = Cardinality(Into(Edges, Points, k)) - Weight({Points[e]}, k)
      BY <2>2, <1>7, IntoLess
    <3>2. QED
      BY <3>1, <1>6
  <2>4. count[k] = Cardinality(Into(Var, var, k)) + Cardinality(Into(Edges, Points, k)) + Weight({}, k)
    BY <1>1, <1>3, <1>6 DEF Counts
  <2>5. /\ Cardinality(Into(Var, var, k)) \in Nat /\ Cardinality(Into(Edges, Points, k)) \in Nat
        /\ Weight({}, k) = 0 /\ Weight({m}, k) \in {0, 1} /\ Weight({m} \ {Null}, k) = Weight({m}, k)
    BY <2>2, FiniteHolders, IntoFacts, WeightIs, HeapAssumption DEF Weight
  <2>6. QED
    BY <2>3, <2>4, <2>5
<1>14. RestPhase'
  <2>1. \A D \in SUBSET Node : Roots \subseteq D /\ Closed(Edges, Points, D) => allocated \subseteq D
    BY <1>1, <1>2, <1>6 DEF RestPhase
  <2>2. ASSUME NEW D \in SUBSET Node, Roots' \subseteq D, Start(Starting', "release") \subseteq D, Closed(Edges', Points', D)
        PROVE  allocated' \subseteq D
    <3>1. Closed(Edges, Points, D)
      BY <2>2, <1>6, <1>8 DEF Closed
    <3>2. QED
      BY <3>1, <2>1, <2>2, <1>4, <1>8
  <2>3. QED
    BY <2>2, <1>3, <1>4 DEF RestPhase
<1>15. GrayPhase' /\ ScanPhase' /\ WhitePhase'
  BY <1>6 DEF GrayPhase, ScanPhase, WhitePhase
<1>16. QED
  BY <1>6, <1>10, <1>11, <1>12, <1>13, <1>14, <1>15 DEF HeapInv

\* Release of static storage, or the end of a release: the node is given back.
LEMMA ReleaseLeaves ==
  ASSUME HeapInv, stack # << >>, Phase = "release", Leave,
         \/ Current.at = 0 /\ ~Mortal(Current.node) /\ UNCHANGED <<heap, var>>
         \/ Current.at = Fields + 1 /\ FreeNode
  PROVE  HeapInv'
<1> DEFINE F == On(Running, "release") \ On(Running', "release")
<1>1. StackInv /\ HeapTyped /\ Safe /\ Visited /\ Counts /\ RestPhase
  BY DEF HeapInv
<1>2. /\ \A o \in {"black", "gray", "scan", "white"} : On(Running, o) = {} /\ Open(Running, o) = {}
      /\ Doomed = {} /\ Counted = Edges
      /\ \A k \in Node : color[k] = "black"
  BY <1>1, AllCounted
<1>3. /\ \A o : Open(Running', o) = Open(Running, o)
      /\ \A o : o # "release" => On(Running', o) = On(Running, o)
      /\ On(Running', "release") = On(Running, "release") \ F
  BY <1>1, LeaveViews
<1>4. /\ F \subseteq On(Running, "release") /\ F \subseteq Node
      /\ allocated' = allocated \ F /\ immortal' = immortal /\ color' = color /\ var' = var
      /\ count' \in [Node -> Int] /\ field' \in [Node -> [Field -> Node \cup {Null}]]
      /\ \A k \in Node \ F : count'[k] = count[k] /\ field'[k] = field[k]
      /\ \A k \in F : count'[k] = 0 /\ \A f \in Field : field'[k][f] = Null
      /\ Past(Running', "release") = {e \in Past(Running, "release") : e[1] \notin F}
      /\ \A k \in F, f \in Field : <<k, f>> \in Past(Running, "release")
  <2>1. On(Running, "release") \subseteq Node
    BY DEF On
  <2>2. CASE Current.at = 0 /\ ~Mortal(Current.node) /\ UNCHANGED <<heap, var>>
    <3>1. F = {} /\ Past(Running', "release") = Past(Running, "release")
      BY <2>2, <1>1, LeaveViews
    <3> HIDE DEF F
    <3>2. UNCHANGED <<immortal, allocated, count, color, field, var>>
      BY <2>2 DEF heap
    <3>3. QED
      BY <3>1, <3>2, <1>1 DEF HeapTyped
  <2>3. CASE Current.at = Fields + 1 /\ FreeNode
    <3>1. /\ F = {Current.node} /\ Current.node \in On(Running, "release")
          /\ Past(Running', "release") = {e \in Past(Running, "release") : e[1] # Current.node}
          /\ \A f \in Field : <<Current.node, f>> \in Past(Running, "release")
      BY <2>3, <1>1, LeaveViews
    <3> HIDE DEF F
    <3>2. /\ allocated' = allocated \ {Current.node}
          /\ count' = [count EXCEPT ![Current.node] = 0]
          /\ field' = [field EXCEPT ![Current.node] = [f \in Field |-> Null]]
          /\ UNCHANGED <<immortal, color, var>>
      BY <2>3 DEF FreeNode
    <3>3. Current.node \in Node
      BY <2>1, <3>1
    <3>4. [f \in Field |-> Null] \in [Field -> Node \cup {Null}]
      OBVIOUS
    <3>5. /\ count' \in [Node -> Int] /\ field' \in [Node -> [Field -> Node \cup {Null}]]
          /\ \A k \in Node \ {Current.node} : count'[k] = count[k] /\ field'[k] = field[k]
          /\ count'[Current.node] = 0 /\ field'[Current.node] = [f \in Field |-> Null]
      BY <3>2, <3>3, <3>4, <1>1 DEF HeapTyped
    <3>6. QED
      BY <3>1, <3>2, <3>3, <3>5
  <2>4. QED
    BY <2>2, <2>3
<1>5. Start(Starting, "release") \subseteq immortal
  <2>1. CASE Current.at = 0 /\ ~Mortal(Current.node)
    BY <2>1, <1>1, StartingIs DEF Mortal
  <2>2. CASE Current.at = Fields + 1
    BY <2>2, <1>1, LeaveViews
  <2>3. QED
    BY <2>1, <2>2
<1>6. StackInv' /\ Starting' = {} /\ Phase' = "release"
  BY <1>1, LeaveMove
<1> HIDE DEF F
<1>7. Start(Starting', "release") = {}
  BY <1>6, StartNone
<1>8. F \subseteq allocated \ immortal /\ \A k \in F : k \notin Live
  BY <1>1, <1>4 DEF Visited, Live, Ops
<1>9. Doomed' = {} /\ Live' = Live /\ Edges' = Edges /\ \A e \in Edges : e[1] \notin F /\ e \in Slots
  <2>1. Doomed' = {}
    BY <1>2, <1>3, <1>6 DEF Doomed
  <2>2. Live' = Live
    BY <2>1, <1>2, <1>3, <1>4 DEF Live
  <2>3. \A e \in Slots : e[1] \in F => e \in Past(Running, "release")
    BY <1>4 DEF Slots
  <2>4. Edges' = Edges
    BY <2>1, <2>3, <1>2, <1>4 DEF Edges
  <2>5. \A e \in Edges : e[1] \notin F /\ e \in Slots
    BY <2>3 DEF Edges
  <2>6. QED
    BY <2>1, <2>2, <2>4, <2>5
<1>10. \A e \in Edges : Points'[e] = Points[e]
  <2>1. \A e \in Slots : e[1] \notin F => Points'[e] = Points[e]
    BY <1>4 DEF Points, Slots
  <2>2. QED
    BY <2>1, <1>9
<1>11. Counted' = Edges
  <2>1. \A e \in Edges : color'[e[1]] = "black"
    BY <1>2, <1>4 DEF Edges, Slots
  <2>2. Open(Running', "black") = {}
    BY <1>2, <1>3
  <2>3. QED
    BY <2>1, <2>2, <1>9 DEF Counted
<1>12. HeapTyped'
  <2>1. \A k \in Node \ allocated' : color'[k] = "black" /\ \A f \in Field : field'[k][f] = Null
    BY <1>1, <1>2, <1>4 DEF HeapTyped
  <2>2. immortal' \subseteq allocated' /\ allocated' \subseteq Node
    BY <1>1, <1>4, <1>8 DEF HeapTyped
  <2>3. QED
    BY <2>1, <2>2, <1>1, <1>4 DEF HeapTyped
<1>13. Safe'
  <2>1. Leads(Edges, Points', Live)
    BY <1>1, <1>10 DEF Safe, Leads
  <2>2. QED
    BY <2>1, <1>1, <1>4, <1>7, <1>9 DEF Safe
<1>14. Visited'
  <2>1. \A o \in Ops : On(Running', o) \subseteq allocated' \ immortal'
    BY <1>1, <1>2, <1>3, <1>4 DEF Visited, Ops
  <2>2. \A o \in {"black", "gray", "scan", "white"} : On(Running', o) = {}
    BY <1>2, <1>3
  <2>3. \A k \in Node : color'[k] = "black"
    BY <1>2, <1>4
  <2>4. On(Running', "release") \subseteq Node
    BY DEF On
  <2>5. QED
    BY <2>1, <2>2, <2>3, <2>4 DEF Visited
<1>15. Counts'
  <2>1. SUFFICES ASSUME NEW k \in Node \ immortal
                 PROVE  count'[k] = Cardinality(Into(Var, var, k)) + Cardinality(Into(Edges, Points, k)) + Weight({}, k)
    <3>1. \A k \in Node : Into(Edges, Points', k) = Into(Edges, Points, k)
      BY <1>10, IntoSame
    <3>2. QED
      BY <3>1, <1>4, <1>7, <1>11 DEF Counts
  <2>2. CASE k \notin F
    <3>1. Weight({}, k) = Weight(Start(Starting, "release"), k)
      BY <1>5 DEF Weight
    <3>2. QED
      BY <3>1, <2>2, <1>1, <1>2, <1>4 DEF Counts
  <2>3. CASE k \in F
    <3>1. k \notin Live /\ k # Null
      BY <2>3, <1>8, HeapAssumption
    <3>2. Into(Var, var, k) = {}
      BY <3>1, <1>1 DEF Safe, Into
    <3>3. Into(Edges, Points, k) = {}
      BY <3>1, <1>1 DEF Safe, Leads, Into
    <3>4. Cardinality(Into(Var, var, k)) = 0 /\ Cardinality(Into(Edges, Points, k)) = 0 /\ Weight({}, k) = 0
      BY <3>2, <3>3, FS_EmptySet DEF Weight
    <3>5. count'[k] = 0
      BY <2>3, <1>4
    <3>6. QED
      BY <3>4, <3>5
  <2>4. QED
    BY <2>2, <2>3
<1>16. RestPhase'
  <2>1. ASSUME NEW D \in SUBSET Node, Roots' \subseteq D, Closed(Edges', Points', D)
        PROVE  allocated' \subseteq D
    <3> DEFINE E == D \cup F
    <3>1. E \in SUBSET Node /\ Roots \subseteq E
      BY <2>1, <1>3, <1>4 DEF Roots, Rooted, Named
    <3>2. Closed(Edges, Points, E)
      BY <2>1, <1>9, <1>10 DEF Closed
    <3>3. Start(Starting, "release") \subseteq E
      <4>1. immortal \subseteq Rooted
        BY <1>1, HeapAssumption DEF Rooted, Named, HeapTyped
      <4>2. QED
        BY <4>1, <3>1, <1>5 DEF Roots
    <3> HIDE DEF E
    <3>4. allocated \subseteq E
      BY <3>1, <3>2, <3>3, <1>1 DEF RestPhase
    <3>5. QED
      BY <3>4, <1>4 DEF E
  <2>2. \A k \in Node : color'[k] = "black"
    BY <1>2, <1>4
  <2>3. QED
    BY <2>1, <2>2 DEF RestPhase
<1>17. GrayPhase' /\ ScanPhase' /\ WhitePhase'
  BY <1>6 DEF GrayPhase, ScanPhase, WhitePhase
<1>18. QED
  BY <1>6, <1>12, <1>13, <1>14, <1>15, <1>16, <1>17 DEF HeapInv
-----------------------------------------------------------------------------
(***************************************************************************)
(* Statements.                                                             *)
(***************************************************************************)

\* Where no call is running, none is on a node.
LEMMA NothingOn == \A o : On({}, o) = {} /\ Open({}, o) = {} /\ Past({}, o) = {}
BY DEF On, Open, Past

\* Between statements, and what a statement leaves behind.
LEMMA Quiet ==
  ASSUME HeapInv, stack = << >>
  PROVE  /\ \A k \in Node : color[k] = "black"
         /\ Live = allocated /\ Edges = {e \in Slots : e[1] \in allocated} /\ Counted = Edges
         /\ \A v \in Var : var[v] \in allocated \cup {Null}
         /\ \A e \in Edges : Points[e] \in allocated \cup {Null}
         /\ \A k \in Node \ immortal :
              count[k] = Cardinality(Into(Var, var, k)) + Cardinality(Into(Edges, Points, k))
         /\ \A D \in SUBSET Node : Rooted \subseteq D /\ Closed(Edges, Points, D) => allocated \subseteq D
<1>1. StackInv /\ HeapTyped /\ Safe /\ Counts /\ RestPhase
  BY DEF HeapInv
<1>2. Running = {} /\ Starting = {} /\ Phase = "release"
  <2>1. ToSet(stack) = {}
    BY NoCall
  <2>2. QED
    BY <2>1 DEF Running, Starting, Phase
<1>3. \A o : On(Running, o) = {} /\ Open(Running, o) = {} /\ Past(Running, o) = {} /\ Start(Starting, o) = {}
  BY <1>2, NothingOn, StartNone
<1>4. Doomed = {} /\ Counted = Edges /\ \A k \in Node : color[k] = "black"
  BY <1>1, <1>2, AllCounted
<1>5. Live = allocated /\ Edges = {e \in Slots : e[1] \in allocated} /\ Roots = Rooted
  BY <1>3, <1>4 DEF Live, Edges, Roots
<1>6. \A D \in SUBSET Node : Rooted \subseteq D /\ Closed(Edges, Points, D) => allocated \subseteq D
  BY <1>1, <1>2, <1>3, <1>5 DEF RestPhase
<1>7. ASSUME NEW k \in Node \ immortal
      PROVE  count[k] = Cardinality(Into(Var, var, k)) + Cardinality(Into(Edges, Points, k))
  <2>1. count[k] = Cardinality(Into(Var, var, k)) + Cardinality(Into(Edges, Points, k)) + Weight({}, k)
    BY <1>1, <1>3, <1>4 DEF Counts
  <2>2. IsFiniteSet(Edges)
    BY <1>4, CountedIsFinite
  <2>3. /\ Cardinality(Into(Var, var, k)) \in Nat /\ Cardinality(Into(Edges, Points, k)) \in Nat
        /\ Weight({}, k) = 0
    BY <2>2, FiniteHolders, IntoFacts DEF Weight
  <2>4. QED
    BY <2>1, <2>3
<1>8. /\ \A v \in Var : var[v] \in allocated \cup {Null}
      /\ \A e \in Edges : Points[e] \in allocated \cup {Null}
  BY <1>1, <1>5 DEF Safe, Leads
<1>9. QED
  BY <1>4, <1>5, <1>6, <1>7, <1>8

\* What a statement leaves behind satisfies the invariant, if it has counted what it stored
\* and is about to release what it overwrote.
LEMMA Stated ==
  ASSUME StackInv, stack = << >>, NEW old \in Node \cup {Null}, stack' = CallsOn("release", old),
         HeapTyped', \A k \in Node : color'[k] = "black",
         NEW E, E = {e \in Slots : e[1] \in allocated'},
         \A v \in Var : var'[v] \in allocated' \cup {Null},
         \A e \in E : Points'[e] \in allocated' \cup {Null},
         old \in allocated' \cup {Null},
         \A k \in Node \ immortal' :
           count'[k] = Cardinality(Into(Var, var', k)) + Cardinality(Into(E, Points', k)) + Weight({old}, k),
         \A D \in SUBSET Node : Rooted' \subseteq D /\ {old} \ {Null} \subseteq D /\ Closed(E, Points', D)
                                => allocated' \subseteq D
  PROVE  HeapInv'
<1>1. /\ StackInv' /\ Running' = {} /\ Phase' = "release"
      /\ Starting' = {c \in {Visit("release", old)} : old # Null}
  BY StatementMove
<1>2. \A o : On(Running', o) = {} /\ Open(Running', o) = {} /\ Past(Running', o) = {}
  BY <1>1, NothingOn
<1>3. Start(Starting', "release") = {old} \ {Null}
  <2>1. CASE old = Null
    BY <2>1, <1>1, StartNone
  <2>2. CASE old # Null
    <3>1. Starting' = {Visit("release", old)} /\ old \in Node
      BY <2>2, <1>1
    <3>2. Start({Visit("release", old)}, "release") = {old}
      BY <3>1, StartOne
    <3>3. QED
      BY <2>2, <3>1, <3>2
  <2>3. QED
    BY <2>1, <2>2
<1>4. Doomed' = {} /\ Live' = allocated' /\ Edges' = E /\ Roots' = Rooted'
  <2>1. Doomed' = {}
    BY <1>1, <1>2 DEF Doomed
  <2>2. QED
    BY <2>1, <1>2 DEF Live, Edges, Roots
<1>5. Counted' = E
  <2>1. \A e \in E : color'[e[1]] = "black"
    BY DEF Slots
  <2>2. QED
    BY <2>1, <1>2, <1>4 DEF Counted
<1>6. Safe'
  BY <1>3, <1>4 DEF Safe, Leads
<1>7. Visited'
  BY <1>2 DEF Visited
<1>8. Counts'
  <2>1. \A k \in Node : Weight({old} \ {Null}, k) = Weight({old}, k)
    BY HeapAssumption DEF Weight
  <2>2. QED
    BY <2>1, <1>3, <1>5 DEF Counts
<1>9. RestPhase'
  BY <1>3, <1>4 DEF RestPhase
<1>10. GrayPhase' /\ ScanPhase' /\ WhitePhase'
  BY <1>1 DEF GrayPhase, ScanPhase, WhitePhase
<1>11. QED
  BY <1>1, <1>6, <1>7, <1>8, <1>9, <1>10 DEF HeapInv

\* What a value can be, and what becomes of the heap when it is taken.
LEMMA Taken ==
  ASSUME HeapInv, stack = << >>, NEW value \in Values, Take(value),
         NEW E, E = {e \in Slots : e[1] \in allocated'}
  PROVE  /\ value \in Node \cup {Null} /\ value \in allocated' \cup {Null}
         /\ allocated \subseteq allocated' /\ allocated' = allocated \cup ({value} \ {Null}) /\ allocated' \subseteq Node
         /\ Named \subseteq Rooted /\ Named \subseteq allocated
         /\ count' \in [Node -> Int]
         /\ \A k \in Node \ immortal : count'[k] = count[k] + Weight({value}, k)
         /\ Edges \subseteq E /\ E \subseteq Slots /\ IsFiniteSet(E)
         /\ \A e \in E \ Edges : Points[e] = Null
         /\ \A k \in Node : Into(E, Points, k) = Into(Edges, Points, k)
<1>1. HeapTyped /\ Safe
  BY DEF HeapInv
<1>2. /\ \A v \in Var : var[v] \in allocated \cup {Null}
      /\ Edges = {e \in Slots : e[1] \in allocated}
      /\ \A e \in Edges : Points[e] \in allocated \cup {Null}
  BY Quiet
<1>3. Named \subseteq Rooted /\ Named \subseteq allocated
  BY <1>1, <1>2, HeapAssumption DEF Named, Rooted, HeapTyped
<1>4. \A n \in Named, f \in Field : field[n][f] \in allocated \cup {Null}
  <2>1. ASSUME NEW n \in Named, NEW f \in Field PROVE field[n][f] \in allocated \cup {Null}
    <3>1. <<n, f>> \in Edges
      BY <1>1, <1>2, <1>3 DEF Slots, HeapTyped
    <3>2. Points[<<n, f>>] = field[n][f]
      BY <3>1, <1>2 DEF Points
    <3>3. QED
      BY <3>1, <3>2, <1>2
  <2>2. QED
    BY <2>1
<1>5. value \in Node \cup {Null}
  <2>1. value \in {Null} \cup (Node \ allocated) \cup Named \/ \E n \in Named, f \in Field : value = field[n][f]
    BY DEF Values
  <2>2. QED
    BY <2>1, <1>1, <1>3, <1>4 DEF HeapTyped
<1>6. /\ allocated' = allocated \cup ({value} \ {Null}) /\ allocated \subseteq allocated'
      /\ allocated' \subseteq Node /\ value \in allocated' \cup {Null}
  BY <1>1, <1>5 DEF Take, HeapTyped
<1>7. /\ count' \in [Node -> Int]
      /\ \A k \in Node \ immortal : count'[k] = count[k] + Weight({value}, k)
  <2>1. count' = IF value \in Node \ immortal THEN [count EXCEPT ![value] = @ + 1] ELSE count
    BY DEF Take, Retained, Mortal
  <2>2. QED
    BY <2>1, <1>1 DEF Weight, HeapTyped
<1>8. Edges \subseteq E /\ E \subseteq Slots /\ IsFiniteSet(E)
  <2>1. Edges \subseteq E /\ E \subseteq Slots
    BY <1>2, <1>6
  <2>2. QED
    BY <2>1, FiniteHolders, FS_Subset
<1>9. \A e \in E \ Edges : Points[e] = Null
  BY <1>1, <1>2, <1>6 DEF HeapTyped, Points, Slots
<1>10. \A k \in Node : Into(E, Points, k) = Into(Edges, Points, k)
  BY <1>8, <1>9, HeapAssumption DEF Into
<1>11. QED
  BY <1>3, <1>5, <1>6, <1>7, <1>8, <1>9, <1>10

\* An assignment to a variable keeps the invariant.
LEMMA AssignVarKeeps ==
  ASSUME HeapInv, NEW v \in Var, NEW value \in Values, AssignVar(v, value)
  PROVE  HeapInv'
<1> DEFINE E == {e \in Slots : e[1] \in allocated'}
<1> DEFINE old == var[v]
<1>1. StackInv /\ HeapTyped
  BY DEF HeapInv
<1>2. /\ stack = << >> /\ Take(value) /\ var' = [var EXCEPT ![v] = value] /\ stack' = CallsOn("release", old)
      /\ UNCHANGED <<immortal, color, field>>
  BY DEF AssignVar
<1>3. /\ \A k \in Node : color[k] = "black"
      /\ Edges = {e \in Slots : e[1] \in allocated}
      /\ \A w \in Var : var[w] \in allocated \cup {Null}
      /\ \A e \in Edges : Points[e] \in allocated \cup {Null}
      /\ \A k \in Node \ immortal :
           count[k] = Cardinality(Into(Var, var, k)) + Cardinality(Into(Edges, Points, k))
      /\ \A D \in SUBSET Node : Rooted \subseteq D /\ Closed(Edges, Points, D) => allocated \subseteq D
  BY <1>2, Quiet
<1>4. /\ value \in Node \cup {Null} /\ value \in allocated' \cup {Null}
      /\ allocated \subseteq allocated' /\ allocated' = allocated \cup ({value} \ {Null}) /\ allocated' \subseteq Node
      /\ count' \in [Node -> Int]
      /\ \A k \in Node \ immortal : count'[k] = count[k] + Weight({value}, k)
      /\ Edges \subseteq E /\ IsFiniteSet(E)
      /\ \A e \in E \ Edges : Points[e] = Null
      /\ \A k \in Node : Into(E, Points, k) = Into(Edges, Points, k)
  BY <1>2, Taken
<1>5. old \in Node \cup {Null} /\ old \in allocated' \cup {Null}
  BY <1>1, <1>3, <1>4 DEF HeapTyped
<1> HIDE DEF E, old
<1>6. Points' = Points
  BY <1>2 DEF Points
<1>7. var' \in [Var -> Node \cup {Null}] /\ var'[v] = value /\ \A w \in Var \ {v} : var'[w] = var[w]
  BY <1>1, <1>2, <1>4 DEF HeapTyped
<1>8. HeapTyped'
  BY <1>1, <1>2, <1>4, <1>7 DEF HeapTyped
<1>9. ASSUME NEW k \in Node \ immortal
      PROVE  count'[k] = Cardinality(Into(Var, var', k)) + Cardinality(Into(E, Points, k)) + Weight({old}, k)
  <2>1. Cardinality(Into(Var, var', k)) = Cardinality(Into(Var, var, k)) - Weight({var[v]}, k) + Weight({var'[v]}, k)
    BY <1>7, FiniteHolders, IntoRetarget
  <2>2. /\ Cardinality(Into(Var, var, k)) \in Nat /\ Cardinality(Into(E, Points, k)) \in Nat
        /\ Weight({old}, k) \in {0, 1} /\ Weight({value}, k) \in {0, 1}
    BY <1>4, FiniteHolders, IntoFacts, WeightIs
  <2>3. Cardinality(Into(Var, var', k)) = Cardinality(Into(Var, var, k)) - Weight({old}, k) + Weight({value}, k)
    BY <2>1, <1>7 DEF old
  <2>4. count[k] = Cardinality(Into(Var, var, k)) + Cardinality(Into(E, Points, k))
    BY <1>3, <1>4
  <2>5. count'[k] = count[k] + Weight({value}, k)
    BY <1>4
  <2>6. QED
    BY <2>2, <2>3, <2>4, <2>5
<1>10. ASSUME NEW D \in SUBSET Node, Rooted' \subseteq D, {old} \ {Null} \subseteq D, Closed(E, Points', D)
       PROVE  allocated' \subseteq D
  <2>1. Rooted \subseteq D
    BY <1>2, <1>7, <1>10 DEF Rooted, Named, old
  <2>2. Closed(Edges, Points, D)
    BY <1>4, <1>6, <1>10 DEF Closed
  <2>3. allocated \subseteq D
    BY <2>1, <2>2, <1>3
  <2>4. value \in D \cup {Null}
    BY <1>7, <1>10 DEF Rooted, Named
  <2>5. QED
    BY <2>3, <2>4, <1>4
<1>11. \A w \in Var : var'[w] \in allocated' \cup {Null}
  BY <1>3, <1>4, <1>7
<1>12. \A e \in E : Points'[e] \in allocated' \cup {Null}
  BY <1>3, <1>4, <1>6
<1>13. \A k \in Node : color'[k] = "black"
  BY <1>2, <1>3
<1>14. \A k \in Node \ immortal' :
         count'[k] = Cardinality(Into(Var, var', k)) + Cardinality(Into(E, Points', k)) + Weight({old}, k)
  BY <1>2, <1>6, <1>9
<1>15. E = {e \in Slots : e[1] \in allocated'}
  BY DEF E
<1>16. stack' = CallsOn("release", old) /\ stack = << >>
  BY <1>2
<1>17. QED
  BY <1>1, <1>5, <1>8, <1>10, <1>11, <1>12, <1>13, <1>14, <1>15, <1>16, Stated

\* An assignment to a field keeps the invariant.
LEMMA StoreFieldKeeps ==
  ASSUME HeapInv, NEW n \in Named, NEW f \in Field, NEW value \in Values, StoreField(n, f, value)
  PROVE  HeapInv'
<1> DEFINE E == {e \in Slots : e[1] \in allocated'}
<1> DEFINE old == field[n][f]
<1> DEFINE d == <<n, f>>
<1>1. StackInv /\ HeapTyped
  BY DEF HeapInv
<1>2. /\ stack = << >> /\ Take(value) /\ field' = [field EXCEPT ![n][f] = value] /\ stack' = CallsOn("release", old)
      /\ UNCHANGED <<immortal, color, var>>
  BY DEF StoreField
<1>3. /\ \A k \in Node : color[k] = "black"
      /\ Edges = {e \in Slots : e[1] \in allocated}
      /\ \A w \in Var : var[w] \in allocated \cup {Null}
      /\ \A e \in Edges : Points[e] \in allocated \cup {Null}
      /\ \A k \in Node \ immortal :
           count[k] = Cardinality(Into(Var, var, k)) + Cardinality(Into(Edges, Points, k))
      /\ \A D \in SUBSET Node : Rooted \subseteq D /\ Closed(Edges, Points, D) => allocated \subseteq D
  BY <1>2, Quiet
<1>4. /\ value \in Node \cup {Null} /\ value \in allocated' \cup {Null}
      /\ allocated \subseteq allocated' /\ allocated' = allocated \cup ({value} \ {Null}) /\ allocated' \subseteq Node
      /\ Named \subseteq Rooted /\ Named \subseteq allocated
      /\ count' \in [Node -> Int]
      /\ \A k \in Node \ immortal : count'[k] = count[k] + Weight({value}, k)
      /\ Edges \subseteq E /\ E \subseteq Slots /\ IsFiniteSet(E)
      /\ \A e \in E \ Edges : Points[e] = Null
      /\ \A k \in Node : Into(E, Points, k) = Into(Edges, Points, k)
  BY <1>2, Taken
<1>5. n \in Node /\ n \in allocated /\ n \in Rooted /\ d \in Slots /\ d[1] = n
  BY <1>1, <1>4 DEF Slots, HeapTyped
<1>6. d \in Edges /\ d \in E /\ Points[d] = old
  BY <1>3, <1>4, <1>5 DEF Points
<1>7. old \in Node \cup {Null} /\ old \in allocated' \cup {Null}
  BY <1>1, <1>3, <1>4, <1>6 DEF HeapTyped
<1>8. /\ field' \in [Node -> [Field -> Node \cup {Null}]]
      /\ \A k \in Node \ {n} : field'[k] = field[k]
      /\ field'[n][f] = value /\ \A g \in Field \ {f} : field'[n][g] = field[n][g]
  <2>1. field[n] \in [Field -> Node \cup {Null}]
    BY <1>1, <1>5 DEF HeapTyped
  <2>2. [field[n] EXCEPT ![f] = value] \in [Field -> Node \cup {Null}]
    BY <2>1, <1>4
  <2>3. field' = [field EXCEPT ![n] = [field[n] EXCEPT ![f] = value]]
    BY <1>2
  <2>4. /\ field' \in [Node -> [Field -> Node \cup {Null}]]
        /\ field'[n] = [field[n] EXCEPT ![f] = value]
        /\ \A k \in Node \ {n} : field'[k] = field[k]
    BY <2>2, <2>3, <1>1, <1>5 DEF HeapTyped
  <2>5. QED
    BY <2>1, <2>4
<1>9. Points'[d] = value /\ \A e \in Slots \ {d} : Points'[e] = Points[e]
  BY <1>5, <1>8 DEF Points, Slots
<1> HIDE DEF E, old, d
<1>10. HeapTyped'
  BY <1>1, <1>2, <1>4, <1>5, <1>8 DEF HeapTyped
<1>11. ASSUME NEW k \in Node \ immortal
       PROVE  count'[k] = Cardinality(Into(Var, var, k)) + Cardinality(Into(E, Points', k)) + Weight({old}, k)
  <2>1. \A e \in E \ {d} : Points'[e] = Points[e]
    BY <1>4, <1>9
  <2>2. Cardinality(Into(E, Points', k)) = Cardinality(Into(E, Points, k)) - Weight({Points[d]}, k) + Weight({Points'[d]}, k)
    BY <2>1, <1>4, <1>6, IntoRetarget
  <2>3. /\ Cardinality(Into(Var, var, k)) \in Nat /\ Cardinality(Into(E, Points, k)) \in Nat
        /\ Weight({old}, k) \in {0, 1} /\ Weight({value}, k) \in {0, 1}
    BY <1>4, FiniteHolders, IntoFacts, WeightIs
  <2>4. Cardinality(Into(E, Points', k)) = Cardinality(Into(E, Points, k)) - Weight({old}, k) + Weight({value}, k)
    BY <2>2, <1>6, <1>9
  <2>5. count[k] = Cardinality(Into(Var, var, k)) + Cardinality(Into(E, Points, k))
    BY <1>3, <1>4
  <2>6. count'[k] = count[k] + Weight({value}, k)
    BY <1>4
  <2>7. QED
    BY <2>3, <2>4, <2>5, <2>6
<1>12. ASSUME NEW D \in SUBSET Node, Rooted' \subseteq D, {old} \ {Null} \subseteq D, Closed(E, Points', D)
       PROVE  allocated' \subseteq D
  <2>1. Rooted \subseteq D
    BY <1>2, <1>12 DEF Rooted, Named
  <2>2. Closed(Edges, Points, D)
    <3>1. \A e \in Edges : e # d => Points[e] = Points'[e] /\ e \in E
      BY <1>4, <1>9
    <3>2. QED
      BY <3>1, <1>6, <1>12 DEF Closed
  <2>3. allocated \subseteq D
    BY <2>1, <2>2, <1>3
  <2>4. value \in D \cup {Null}
    BY <2>3, <1>5, <1>6, <1>9, <1>12 DEF Closed
  <2>5. QED
    BY <2>3, <2>4, <1>4
<1>13. \A w \in Var : var'[w] \in allocated' \cup {Null}
  BY <1>2, <1>3, <1>4
<1>14. \A e \in E : Points'[e] \in allocated' \cup {Null}
  BY <1>3, <1>4, <1>9
<1>15. \A k \in Node : color'[k] = "black"
  BY <1>2, <1>3
<1>16. \A k \in Node \ immortal' :
         count'[k] = Cardinality(Into(Var, var', k)) + Cardinality(Into(E, Points', k)) + Weight({old}, k)
  BY <1>2, <1>11
<1>17. E = {e \in Slots : e[1] \in allocated'}
  BY DEF E
<1>18. stack' = CallsOn("release", old) /\ stack = << >>
  BY <1>2
<1>19. QED
  BY <1>1, <1>7, <1>10, <1>12, <1>13, <1>14, <1>15, <1>16, <1>17, <1>18, Stated
-----------------------------------------------------------------------------
(***************************************************************************)
(* The invariant of the heap, and that it is exact.                        *)
(***************************************************************************)

\* The invariant holds in the beginning.
LEMMA StartsWell == ASSUME HeapInit PROVE HeapInv
<1>1. /\ immortal \in SUBSET Node /\ allocated = immortal /\ stack = << >>
      /\ count = [n \in Node |-> 0] /\ color = [n \in Node |-> "black"]
      /\ field = [n \in Node |-> [f \in Field |-> Null]]
      /\ var \in [Var -> immortal \cup {Null}]
  BY DEF HeapInit, Named
<1>2. Running = {} /\ Starting = {} /\ Waiting = {} /\ Phase = "release"
  <2>1. ToSet(stack) = {}
    BY <1>1, NoCall
  <2>2. QED
    BY <2>1, <1>1 DEF Running, Starting, Waiting, Phase
<1>3. \A o : On(Running, o) = {} /\ Open(Running, o) = {} /\ Past(Running, o) = {} /\ Start(Starting, o) = {}
  BY <1>2, NothingOn, StartNone
<1>4. StackInv
  BY <1>1, <1>2, NoCall DEF StackInv
<1>5. HeapTyped
  BY <1>1 DEF HeapTyped
<1>6. Doomed = {} /\ Live = immortal /\ \A e \in Edges : Points[e] = Null
  <2>1. Doomed = {}
    BY <1>2, <1>3 DEF Doomed
  <2>2. \A e \in Edges : Points[e] = Null
    BY <1>1 DEF Edges, Points, Slots
  <2>3. QED
    BY <2>1, <2>2, <1>1, <1>3 DEF Live
<1>7. Safe
  BY <1>1, <1>3, <1>6 DEF Safe, Leads
<1>8. Visited
  BY <1>1, <1>3 DEF Visited
<1>9. Counts
  <2>1. ASSUME NEW n \in Node \ immortal
        PROVE  /\ Cardinality(Into(Var, var, n)) = 0 /\ Cardinality(Into(Counted, Points, n)) = 0
               /\ Weight(Start(Starting, "release"), n) = 0
    <3>1. n # Null
      BY HeapAssumption
    <3>2. Into(Var, var, n) = {}
      BY <3>1, <1>1 DEF Into
    <3>3. Into(Counted, Points, n) = {}
      BY <3>1, <1>6, CountedIsFinite DEF Into
    <3>4. QED
      BY <3>2, <3>3, <1>3, FS_EmptySet DEF Weight
  <2>2. QED
    BY <2>1, <1>1 DEF Counts
<1>10. RestPhase
  <2>1. immortal \subseteq Rooted
    BY <1>1, HeapAssumption DEF Rooted, Named
  <2>2. QED
    BY <2>1, <1>1 DEF RestPhase, Roots
<1>11. GrayPhase /\ ScanPhase /\ WhitePhase
  BY <1>2 DEF GrayPhase, ScanPhase, WhitePhase
<1>12. QED
  BY <1>4, <1>5, <1>7, <1>8, <1>9, <1>10, <1>11 DEF HeapInv

\* A step that changes nothing of the heap.
LEMMA HeapIdles == ASSUME HeapInv, UNCHANGED <<heap, var, stack>> PROVE HeapInv'
<1>1. /\ immortal' = immortal /\ allocated' = allocated /\ count' = count /\ color' = color
      /\ field' = field /\ var' = var /\ stack' = stack
  BY DEF heap
<1>2. /\ Running' = Running /\ Starting' = Starting /\ Waiting' = Waiting /\ Phase' = Phase
      /\ Points' = Points /\ Rooted' = Rooted
  BY <1>1 DEF Running, Starting, Waiting, Phase, Current, Points, Rooted, Named
<1>3. Doomed' = Doomed /\ Roots' = Roots
  BY <1>1, <1>2 DEF Doomed, Roots
<1>4. Live' = Live /\ Edges' = Edges
  BY <1>1, <1>2, <1>3 DEF Live, Edges
<1>5. Counted' = Counted /\ Kept' = Kept
  BY <1>1, <1>2, <1>4 DEF Counted, Kept
<1>6. StackInv' /\ HeapTyped' /\ Safe' /\ Visited' /\ Counts'
  <2>1. StackInv /\ HeapTyped /\ Safe /\ Visited /\ Counts
    BY DEF HeapInv
  <2>2. StackInv' /\ HeapTyped'
    BY <2>1, <1>1, <1>2 DEF StackInv, HeapTyped
  <2>3. Safe' /\ Visited'
    BY <2>1, <1>1, <1>2, <1>4 DEF Safe, Visited
  <2>4. Counts'
    BY <2>1, <1>1, <1>2, <1>5 DEF Counts
  <2>5. QED
    BY <2>2, <2>3, <2>4
<1>7. RestPhase' /\ GrayPhase' /\ ScanPhase' /\ WhitePhase'
  <2>1. RestPhase /\ GrayPhase /\ ScanPhase /\ WhitePhase
    BY DEF HeapInv
  <2>2. RestPhase'
    BY <2>1, <1>1, <1>2, <1>3, <1>4 DEF RestPhase
  <2>3. GrayPhase'
    BY <2>1, <1>1, <1>2, <1>3, <1>4 DEF GrayPhase
  <2>4. ScanPhase'
    <3> USE DEF ScanPhase
    <3>1. SUFFICES ASSUME (Phase \in {"scan", "black"})' PROVE ScanPhase'
      OBVIOUS
    <3>2. Phase \in {"scan", "black"} /\ ScanPhase
      BY <3>1, <2>1, <1>2
    <3>3. (/\ \A n \in Start(Starting, "black") : color[n] # "black"
           /\ Start(Starting, "scan") \subseteq Live
           /\ \A e \in Slots :
                /\ e[1] \in On(Running, "black") \/ (e[1] \in On(Running, "scan") /\ color[e[1]] = "black")
                /\ e \notin Open(Running, "black") /\ Points[e] \in Node \ immortal
                => color[Points[e]] = "black" \/ Points[e] \in Start(Starting, "black"))'
      BY <3>2, <1>1, <1>2, <1>4
    <3>4. (\A n \in Node : color[n] = "white" /\ n \notin Start(Starting, "black") => count[n] = 0)'
      BY <3>2, <1>1, <1>2
    <3>5. (\A D \in SUBSET Node :
             /\ Start(Starting, "scan") \subseteq D /\ Start(Starting, "black") \subseteq D
             /\ Leads(Open(Running, "scan"), Points, D) /\ Leads(Open(Running, "black"), Points, D)
             /\ ClosedIn(color, "gray", Points, D)
             => Painted(color, "gray") \subseteq D)'
      BY <3>2, <1>1, <1>2
    <3>6. (\A x \in Start(Waiting, "white") : \A D \in SUBSET Node :
             /\ x \in D /\ Start(Starting, "black") \subseteq D
             /\ Leads(Open(Running, "black"), Points, D) /\ ClosedIn(color, "white", Points, D)
             => /\ Painted(color, "white") \subseteq D
                /\ \A n \in Start(Starting, "scan") : color[n] = "gray" => n \in D)'
      BY <3>2, <1>1, <1>2
    <3>7. (\A D \in SUBSET Node :
             Roots \subseteq D /\ Closed(Kept, Points, D)
             => \A n \in allocated : color[n] = "black" \/ n \in Start(Starting, "black") => n \in D)'
      BY <3>2, <1>1, <1>2, <1>3, <1>5
    <3>8. QED
      BY <3>3, <3>4, <3>5, <3>6, <3>7
  <2>5. WhitePhase'
    BY <2>1, <1>1, <1>2, <1>3, <1>4 DEF WhitePhase
  <2>6. QED
    BY <2>2, <2>3, <2>4, <2>5
<1>8. QED
  BY <1>6, <1>7 DEF HeapInv

\* Every step keeps the invariant: one case for each action.
LEMMA HeapStep == ASSUME HeapInv, [HeapNext]_heapVars PROVE HeapInv'
<1>1. CASE Statement
  <2>1. PICK value \in Values : \/ \E v \in Var : AssignVar(v, value)
                                \/ \E n \in Named, f \in Field : StoreField(n, f, value)
    BY <1>1 DEF Statement
  <2>2. CASE \E v \in Var : AssignVar(v, value)
    BY <2>2, AssignVarKeeps
  <2>3. CASE \E n \in Named, f \in Field : StoreField(n, f, value)
    BY <2>3, StoreFieldKeeps
  <2>4. QED
    BY <2>1, <2>2, <2>3
<1>2. CASE Release
  <2>1. stack # << >> /\ Phase = "release" /\ Current.at = 0
    BY <1>2 DEF Release, Begins, Phase
  <2>2. CASE Mortal(Current.node)
    BY <2>2, <1>2, ReleaseLast, ReleaseSuspects
  <2>3. CASE ~Mortal(Current.node)
    <3>1. Leave /\ UNCHANGED <<heap, var>>
      BY <2>3, <1>2 DEF Release, heap
    <3>2. QED
      BY <3>1, <2>1, <2>3, ReleaseLeaves
  <2>4. QED
    BY <2>2, <2>3
<1>3. CASE BeginGray
  <2>1. CASE Gray(Current.node)
    BY <2>1, <1>3, BeginGrayKeeps
  <2>2. CASE ~Gray(Current.node)
    <3>1. stack # << >> /\ Phase = "gray" /\ Current.at = 0
      BY <1>3 DEF BeginGray, Begins, Phase
    <3>2. Leave /\ UNCHANGED <<heap, var>>
      BY <2>2, <1>3 DEF BeginGray, heap
    <3>3. QED
      BY <2>2, <3>1, <3>2, GrayLeaves
  <2>3. QED
    BY <2>1, <2>2
<1>4. CASE BeginScan
  <2>1. CASE ~Mortal(Current.node) \/ color[Current.node] # "gray"
    <3>1. stack # << >> /\ Phase = "scan" /\ Current.at = 0
      BY <1>4 DEF BeginScan, Begins, Phase
    <3>2. Leave /\ UNCHANGED <<heap, var>>
      BY <2>1, <1>4 DEF BeginScan, heap
    <3>3. QED
      BY <2>1, <3>1, <3>2, ScanLeaves
  <2>2. CASE Mortal(Current.node) /\ color[Current.node] = "gray"
    BY <2>2, <1>4, BeginScanRestores, BeginScanGivesUp
  <2>3. QED
    BY <2>1, <2>2
<1>5. CASE BeginWhite
  <2>1. CASE White(Current.node)
    BY <2>1, <1>5, BeginWhiteKeeps
  <2>2. CASE ~White(Current.node)
    <3>1. stack # << >> /\ Phase = "white" /\ Current.at = 0
      BY <1>5 DEF BeginWhite, Begins, Phase
    <3>2. Leave /\ UNCHANGED <<heap, var>>
      BY <2>2, <1>5 DEF BeginWhite, heap
    <3>3. QED
      BY <2>2, <3>1, <3>2, WhiteLeaves
  <2>3. QED
    BY <2>1, <2>2
<1>6. CASE FreeNode
  <2>1. stack # << >> /\ Leave /\ Current.at = Fields + 1 /\ Phase \in {"release", "white"}
    BY <1>6 DEF FreeNode, Done, Phase
  <2>2. QED
    BY <2>1, <1>6, ReleaseLeaves, WhiteLeaves
<1>7. CASE CallReturns
  <2>1. /\ stack # << >> /\ Leave /\ Current.at = Fields + 1 /\ Phase \in {"gray", "scan", "black"}
        /\ UNCHANGED <<heap, var>>
    BY <1>7 DEF CallReturns, Done, Phase
  <2>2. QED
    BY <2>1, GrayLeaves, ScanLeaves
<1>8. CASE ReleaseField \/ GrayField \/ ScanField \/ BlackField \/ WhiteField \/ BeginBlack
  BY <1>8, ReleaseFieldKeeps, GrayFieldKeeps, ScanFieldKeeps, BlackFieldKeeps, WhiteFieldKeeps, BeginBlackKeeps
<1>9. CASE FreedLooksWhite \/ UNCHANGED heapVars
  <2>1. UNCHANGED <<heap, var, stack>>
    BY <1>9 DEF FreedLooksWhite, heapVars
  <2>2. QED
    BY <2>1, HeapIdles
<1>10. QED
  BY <1>1, <1>2, <1>3, <1>4, <1>5, <1>6, <1>7, <1>8, <1>9 DEF HeapNext, Collect

\* The counts, colours and calls of a trial satisfy the inductive invariant throughout, for
\* any number of nodes, variables and fields, until a freed header is taken for a white one.
THEOREM HeapInvariant == HeapSpec => []HeapInv
<1>1. HeapInit => HeapInv
  BY StartsWell
<1>2. HeapInv /\ [HeapNext]_heapVars => HeapInv'
  BY HeapStep
<1>3. QED
  BY <1>1, <1>2, PTL DEF HeapSpec

\* Reachable is the least set that has what is rooted and what its fields point to.
LEMMA ReachableIs ==
  /\ Reachable \in SUBSET Node
  /\ \A S \in SUBSET Node : Rooted \subseteq S /\ Targets(S) \subseteq S => Reachable \subseteq S
  /\ \A n \in Node : n \in Rooted => n \in Reachable
  /\ \A n \in Node : n \in Targets(Reachable) => n \in Reachable
<1>1. \A S \in SUBSET Node : Rooted \subseteq S /\ Targets(S) \subseteq S => Reachable \subseteq S
  BY DEF Reachable
<1>2. ASSUME NEW n \in Node, n \in Targets(Reachable) PROVE n \in Reachable
  <2>1. ASSUME NEW S \in SUBSET Node, Rooted \subseteq S /\ Targets(S) \subseteq S PROVE n \in S
    <3>1. Reachable \subseteq S
      BY <1>1, <2>1
    <3>2. Targets(Reachable) \subseteq Targets(S)
      BY <3>1 DEF Targets
    <3>3. QED
      BY <3>2, <2>1, <1>2
  <2>2. QED
    BY <2>1 DEF Reachable
<1>3. Reachable \in SUBSET Node /\ \A n \in Node : n \in Rooted => n \in Reachable
  BY DEF Reachable
<1>4. QED
  BY <1>1, <1>2, <1>3

\* What the program holds is live: not given up, and not being released.
LEMMA RootedIsLive == ASSUME HeapInv PROVE Rooted \subseteq Live /\ Live \subseteq allocated /\ Live \subseteq Node
<1>1. HeapTyped /\ Safe /\ Visited
  BY DEF HeapInv
<1>2. immortal \subseteq Live
  <2>1. \A n \in immortal : n \notin On(Running, "release") /\ n \notin On(Running, "white") /\ color[n] # "white"
    BY <1>1 DEF Visited, HeapTyped, Ops
  <2>2. QED
    BY <2>1, <1>1 DEF Live, Doomed, HeapTyped
<1>3. QED
  BY <1>1, <1>2 DEF Rooted, Named, Safe, HeapTyped, Live

\* What is reachable is live.
LEMMA ReachableIsLive == ASSUME HeapInv PROVE Reachable \subseteq allocated
<1>1. HeapTyped /\ Safe /\ Rooted \subseteq Live /\ Live \subseteq allocated /\ Live \in SUBSET Node
  BY RootedIsLive DEF HeapInv
<1>2. Targets(Live) \subseteq Live
  <2>1. ASSUME NEW n \in Live, NEW f \in Field PROVE field[n][f] \in Live \cup {Null}
    <3>1. n \in allocated /\ n \notin Doomed /\ n \notin On(Running, "release") /\ <<n, f>> \in Slots
      BY <1>1 DEF Live, Slots
    <3>2. <<n, f>> \notin Past(Running, "release")
      BY <3>1 DEF Past, On, Slots
    <3>3. <<n, f>> \in Edges /\ Points[<<n, f>>] = field[n][f]
      BY <3>1, <3>2 DEF Edges, Points
    <3>4. QED
      BY <3>3, <1>1 DEF Safe, Leads
  <2>2. QED
    BY <2>1 DEF Targets
<1>3. QED
  BY <1>1, <1>2, ReachableIs

\* Between statements, everything allocated is reachable.
LEMMA AllocatedIsReachable == ASSUME HeapInv, stack = << >> PROVE allocated \subseteq Reachable
<1>1. HeapTyped
  BY DEF HeapInv
<1>2. \A D \in SUBSET Node : Rooted \subseteq D /\ Closed(Edges, Points, D) => allocated \subseteq D
  BY Quiet
<1>3. Rooted \subseteq Reachable
  BY <1>1, ReachableIs DEF Rooted, Named, HeapTyped
<1>4. Closed(Edges, Points, Reachable)
  <2>1. ASSUME NEW e \in Edges, e[1] \in Reachable, Points[e] # Null PROVE Points[e] \in Reachable
    <3>1. e \in Slots /\ e[1] \in Node /\ e[2] \in Field /\ Points[e] = field[e[1]][e[2]]
      BY DEF Edges, Slots, Points
    <3>2. Points[e] \in Targets(Reachable) /\ Points[e] \in Node
      BY <3>1, <2>1, <1>1 DEF Targets, HeapTyped
    <3>3. QED
      BY <3>2, ReachableIs
  <2>2. QED
    BY <2>1 DEF Closed
<1>5. QED
  BY <1>2, <1>3, <1>4, ReachableIs

\* The invariant says that the heap is exact.
LEMMA InvIsExact == ASSUME HeapInv PROVE HeapExact
<1>1. Reachable \subseteq allocated
  BY ReachableIsLive
<1>2. ASSUME stack = << >>, NEW n \in allocated \ immortal
      PROVE  count[n] = References(n) /\ color[n] = "black"
  <2>1. HeapTyped
    BY DEF HeapInv
  <2>2. /\ color[n] = "black" /\ Edges = {e \in Slots : e[1] \in allocated}
        /\ count[n] = Cardinality(Into(Var, var, n)) + Cardinality(Into(Edges, Points, n))
    BY <1>2, <2>1, Quiet DEF HeapTyped
  <2>3. Into(Var, var, n) = {v \in Var : var[v] = n}
    BY DEF Into
  <2>4. Into(Edges, Points, n) = {e \in allocated \X Field : field[e[1]][e[2]] = n}
    <3>1. Edges = allocated \X Field
      BY <2>1, <2>2 DEF Slots, HeapTyped
    <3>2. \A e \in Edges : Points[e] = field[e[1]][e[2]]
      BY <2>2 DEF Points
    <3>3. QED
      BY <3>1, <3>2 DEF Into
  <2>5. QED
    BY <2>2, <2>3, <2>4 DEF References
<1>3. QED
  BY <1>1, <1>2, AllocatedIsReachable DEF HeapExact

\* However many nodes, variables and fields there are, until white takes the header of a node
\* it has freed for a white one: nothing the program can reach is freed, in the middle of a
\* trial either; after every statement nothing else exists, cycles included, but what the
\* static storage of a global leads to, also when the global has moved on and nothing names
\* that storage any more; and each header is a plain count of the references there are.
THEOREM HeapIsExact == HeapSpec => []HeapExact
<1>1. HeapInv => HeapExact
  BY InvIsExact
<1>2. QED
  BY <1>1, HeapInvariant, PTL
=============================================================================
