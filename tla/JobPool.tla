------------------------------- MODULE JobPool -------------------------------
(***************************************************************************)
(* What a background pool promises the program that uses it: every job     *)
(* handed over is worked on, and its callback runs once, in the order in   *)
(* which the jobs were completed.                                          *)
(***************************************************************************)
EXTENDS Integers, Sequences

CONSTANT Job   \* the jobs of this pool

VARIABLES
  pending,     \* handed over, not completed
  ready,       \* completed, in this order, callback not run
  delivered    \* callback run

vars == <<pending, ready, delivered>>

Init == pending = {} /\ ready = << >> /\ delivered = {}

InReady(j) == \E i \in 1..Len(ready) : ready[i] = j

Submit(j) ==
  /\ j \notin pending \cup delivered /\ ~InReady(j)
  /\ pending' = pending \cup {j}
  /\ UNCHANGED <<ready, delivered>>

Complete(j) ==
  /\ j \in pending
  /\ pending' = pending \ {j}
  /\ ready' = Append(ready, j)
  /\ UNCHANGED delivered

Deliver ==
  /\ ready # << >>
  /\ delivered' = delivered \cup {Head(ready)}
  /\ ready' = Tail(ready)
  /\ UNCHANGED pending

Next == Deliver \/ \E j \in Job : Submit(j) \/ Complete(j)

Spec == Init /\ [][Next]_vars
=============================================================================
