--------------------------- MODULE CycleCollector ---------------------------
(***************************************************************************)
(* Reference counts and the collection of cycles: the counts of            *)
(* runtime/festina_runtime.c (festina_retain, festina_release_check, the   *)
(* festina_cycle_* helpers) driven by the release wrappers and traversals  *)
(* that codegen.py generates for a struct type that can reach itself.      *)
(*                                                                         *)
(* A release that leaves a count above zero runs a trial deletion: gray    *)
(* takes down every count inside the subgraph, scan finds the nodes that   *)
(* keep one and has black restore what they reach, white frees the rest.   *)
(* The traversals call each other and themselves; `stack' is the stack of  *)
(* their calls, and a step runs the topmost one up to its next call.       *)
(* Statements run while no release is under way.                           *)
(*                                                                         *)
(* White may read the header of a node that it has freed already.  What is *)
(* there is the allocator's; if it looks white, the node is freed again,   *)
(* and nothing is said of what happens then (twice).                       *)
(***************************************************************************)
EXTENDS Integers, Sequences, FiniteSets

CONSTANTS
  Node,       \* the blocks the allocator gives out
  Var,        \* variables of the program, each counted for what it holds
  Fields,     \* how many fields the type has
  Null

ASSUME HeapAssumption ==
  /\ IsFiniteSet(Node) /\ IsFiniteSet(Var) /\ Null \notin Node
  /\ Fields \in Nat

Field == 1..Fields

VARIABLES
  immortal,   \* the nodes that are the static storage of a global: their headers are negative
  allocated,  \* the nodes that exist
  count,      \* the low 61 bits of their headers
  color,      \* bits 61 and 62
  field,      \* what their fields point to
  var,        \* what the variables point to
  stack,      \* the calls in progress, the topmost first
  twice       \* a freed node is about to be freed again

heap == <<immortal, allocated, count, color, field>>
heapVars == <<heap, var, stack, twice>>

Ops == {"release", "gray", "scan", "black", "white"}
\* A call on a node: not begun (0), at a field, or past the last.
Visit(op, n) == [op |-> op, node |-> n, at |-> 0]
CallsOn(op, n) == IF n = Null THEN << >> ELSE <<Visit(op, n)>>

Current == Head(stack)
Child == field[Current.node][Current.at]
AtField(op) == stack # << >> /\ Current.op = op /\ Current.at \in Field
Begins(op) == stack # << >> /\ Current.op = op /\ Current.at = 0
Done(op) == stack # << >> /\ Current.op = op /\ Current.at = Fields + 1

\* The topmost call goes on to its next field, after the calls it makes first.
Walk(calls) == stack' = calls \o <<[Current EXCEPT !.at = @ + 1]>> \o Tail(stack)
Leave == stack' = Tail(stack)
Become(calls) == stack' = calls \o Tail(stack)

Mortal(n) == n \in Node \ immortal
-----------------------------------------------------------------------------
(* Statements.                                                              *)

Retained(n) == IF Mortal(n) THEN [count EXCEPT ![n] = @ + 1] ELSE count

\* What a statement can name: what a variable holds.
Named == {var[v] : v \in Var} \ {Null}

\* What an expression gives: one of these, a field of one, null, or a fresh T().
Values ==
  {Null} \cup (Node \ allocated) \cup Named \cup {field[n][f] : n \in Named, f \in Field}

\* The reference to a value that is about to be stored: festina_retain, or the one a
\* fresh value comes with.
Take(value) ==
  /\ count' = Retained(value)
  /\ allocated' = allocated \cup ({value} \ {Null})

\* v = value.
AssignVar(v, value) ==
  /\ stack = << >>
  /\ Take(value)
  /\ var' = [var EXCEPT ![v] = value]
  /\ stack' = CallsOn("release", var[v])
  /\ UNCHANGED <<immortal, color, field, twice>>

\* n.f = value: stored before the old one is released, which may walk the graph.
StoreField(n, f, value) ==
  /\ stack = << >>
  /\ Take(value)
  /\ field' = [field EXCEPT ![n][f] = value]
  /\ stack' = CallsOn("release", field[n][f])
  /\ UNCHANGED <<immortal, color, var, twice>>

-----------------------------------------------------------------------------
(* The release wrapper, and the trial it runs.                              *)

\* festina_release_check; the fields come first when it was the last reference, and a
\* block that is still referenced is a candidate.
Trial(n) == <<Visit("gray", n), Visit("scan", n), Visit("white", n)>>

Release ==
  /\ Begins("release")
  /\ LET n == Current.node IN
     IF Mortal(n)
       THEN /\ count' = [count EXCEPT ![n] = @ - 1]
            /\ IF count[n] = 1 THEN Walk(<< >>) ELSE Become(Trial(n))
       ELSE Leave /\ count' = count
  /\ UNCHANGED <<immortal, allocated, color, field, var, twice>>

ReleaseField == AtField("release") /\ Walk(CallsOn("release", Child)) /\ UNCHANGED <<heap, var, twice>>

Gray(n) == Mortal(n) /\ color[n] # "gray"

\* festina_cycle_begin_gray.
BeginGray ==
  /\ Begins("gray")
  /\ IF Gray(Current.node)
       THEN color' = [color EXCEPT ![Current.node] = "gray"] /\ Walk(<< >>)
       ELSE Leave /\ color' = color
  /\ UNCHANGED <<immortal, allocated, count, field, var, twice>>

\* festina_cycle_dec, on every edge.
GrayField ==
  /\ AtField("gray")
  /\ count' = IF Mortal(Child) THEN [count EXCEPT ![Child] = @ - 1] ELSE count
  /\ Walk(CallsOn("gray", Child))
  /\ UNCHANGED <<immortal, allocated, color, field, var, twice>>

\* festina_cycle_begin_scan.
BeginScan ==
  /\ Begins("scan")
  /\ LET n == Current.node IN
     IF ~Mortal(n) \/ color[n] # "gray" THEN Leave /\ color' = color
     ELSE IF count[n] > 0 THEN Become(CallsOn("black", n)) /\ color' = color
     ELSE color' = [color EXCEPT ![n] = "white"] /\ Walk(<< >>)
  /\ UNCHANGED <<immortal, allocated, count, field, var, twice>>

ScanField == AtField("scan") /\ Walk(CallsOn("scan", Child)) /\ UNCHANGED <<heap, var, twice>>

\* festina_cycle_set_black.
BeginBlack ==
  /\ Begins("black")
  /\ color' = IF Mortal(Current.node) THEN [color EXCEPT ![Current.node] = "black"] ELSE color
  /\ Walk(<< >>)
  /\ UNCHANGED <<immortal, allocated, count, field, var, twice>>

\* festina_cycle_needs_black: what scan had given up is taken back. (Bug: only what it
\* has not seen yet is.)
NeedsBlack_Gray(n) == Mortal(n) /\ color[n] = "gray"
NeedsBlack(n) == Mortal(n) /\ color[n] # "black"

\* festina_cycle_inc, on every edge of what survives.
BlackField ==
  /\ AtField("black")
  /\ count' = Retained(Child)
  /\ Walk(IF NeedsBlack(Child) THEN CallsOn("black", Child) ELSE << >>)
  /\ UNCHANGED <<immortal, allocated, color, field, var, twice>>

\* festina_cycle_begin_white, on a node that exists or whose freed header is not white.
White(n) == Mortal(n) /\ n \in allocated /\ color[n] = "white"

BeginWhite ==
  /\ Begins("white")
  /\ IF White(Current.node)
       THEN color' = [color EXCEPT ![Current.node] = "black"] /\ Walk(<< >>)
       ELSE Leave /\ color' = color
  /\ UNCHANGED <<immortal, allocated, count, field, var, twice>>

\* A second edge to a node that is freed already, whose header looks white: what the
\* allocator keeps in a free block is its own affair, and differs from one read to the next.
FreedLooksWhite ==
  /\ Begins("white") /\ Mortal(Current.node) /\ Current.node \notin allocated
  /\ twice' = TRUE
  /\ UNCHANGED <<heap, var, stack>>

WhiteField == AtField("white") /\ Walk(CallsOn("white", Child)) /\ UNCHANGED <<heap, var, twice>>

\* The node is given back, after its fields.
FreeNode ==
  /\ Done("release") \/ Done("white")
  /\ allocated' = allocated \ {Current.node}
  /\ count' = [count EXCEPT ![Current.node] = 0]
  /\ field' = [field EXCEPT ![Current.node] = [f \in Field |-> Null]]
  /\ Leave
  /\ UNCHANGED <<immortal, color, var, twice>>

CallReturns ==
  /\ Done("gray") \/ Done("scan") \/ Done("black")
  /\ Leave /\ UNCHANGED <<heap, var, twice>>

-----------------------------------------------------------------------------
\* A global of the type holds its own static storage; other variables hold nothing yet.
HeapInit ==
  /\ var \in [Var -> Node \cup {Null}]
  /\ \A v, w \in Var : v # w /\ var[v] # Null => var[v] # var[w]
  /\ immortal = Named /\ allocated = Named
  /\ count = [n \in Node |-> 0]
  /\ color = [n \in Node |-> "black"]
  /\ field = [n \in Node |-> [f \in Field |-> Null]]
  /\ stack = << >> /\ twice = FALSE

Statement ==
  \E value \in Values :
    \/ \E v \in Var : AssignVar(v, value)
    \/ \E n \in Named, f \in Field : StoreField(n, f, value)
Collect ==
  \/ Release \/ ReleaseField
  \/ BeginGray \/ GrayField \/ BeginScan \/ ScanField \/ BeginBlack \/ BlackField
  \/ BeginWhite \/ FreedLooksWhite \/ WhiteField \/ FreeNode \/ CallReturns

HeapNext == ~twice /\ (Statement \/ Collect)
HeapSpec == HeapInit /\ [][HeapNext]_heapVars
-----------------------------------------------------------------------------
\* What is kept: the least set that has what the variables hold and the static storages, and
\* whatever a field of its members points to.  A static storage is never given back, nor are
\* its fields released, when its global has moved on to another value.
Rooted == Named \cup immortal
Targets(S) == {field[n][f] : n \in S, f \in Field} \ {Null}
Reachable ==
  LET closed == {S \in SUBSET Node : Rooted \subseteq S /\ Targets(S) \subseteq S}
  IN  {n \in Node : \A S \in closed : n \in S}

References(n) ==
  Cardinality({v \in Var : var[v] = n})
  + Cardinality({e \in allocated \X Field : field[e[1]][e[2]] = n})

\* As long as no freed header was taken for a white one: nothing the program can reach is
\* ever freed, in the middle of a trial either; and when a statement has run, what it made
\* unreachable is gone, cycles included, but for what only the static storage of a global
\* leads to, and every header is a plain count of the references there are.
HeapExact ==
  ~twice =>
    /\ Reachable \subseteq allocated
    /\ stack = << >> =>
         /\ allocated = Reachable
         /\ \A n \in allocated \ immortal : count[n] = References(n) /\ color[n] = "black"
=============================================================================
