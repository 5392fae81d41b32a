---------------------------- MODULE PendingTimers ----------------------------
(***************************************************************************)
(* What setTimeout, setInterval, clearTimeout and clearInterval promise a  *)
(* program (api.md, "Timers"): a timer fires once, or every so often,      *)
(* never before its time, never after it was cleared, whatever the         *)
(* callbacks of others do; every timer has a number of its own; and the    *)
(* timers take the room that those alive at once need.                     *)
(***************************************************************************)
EXTENDS Integers, FiniteSets

CONSTANTS Delays, FirstRoom

VARIABLES
  pending,  \* timers that were set, and neither cleared nor, a timeout, fired
  lastId,   \* the number of the last one set
  clock,    \* the time
  running,  \* the timer whose callback runs, 0 if none
  room      \* how many timers there is room for

Timer == [id : Nat, due : Nat, every : Delays, again : BOOLEAN]

Init == pending = {} /\ lastId = 0 /\ clock = 0 /\ running = 0 /\ room = 0

\* There is room for more only when all that there was is taken.
Set(delay, again) ==
  /\ lastId' = lastId + 1
  /\ pending' = pending \cup {[id |-> lastId', due |-> clock + delay, every |-> delay, again |-> again]}
  /\ room' = IF Cardinality(pending) < room THEN room
             ELSE IF room = 0 THEN FirstRoom ELSE 2 * room
  /\ UNCHANGED <<clock, running>>

Clear(t) == pending' = pending \ {t} /\ UNCHANGED <<lastId, clock, running, room>>

\* A timeout is done; an interval has its next time counted from a moment at which it
\* was due, so that a late one is not made up for.
Fire(t) ==
  /\ running = 0 /\ t.due <= clock
  /\ running' = t.id
  /\ \E seen \in t.due..clock :
       pending' = (pending \ {t}) \cup (IF t.again THEN {[t EXCEPT !.due = seen + t.every]} ELSE {})
  /\ UNCHANGED <<lastId, clock, room>>

Return == running' = 0 /\ UNCHANGED <<pending, lastId, clock, room>>

Tick == clock' = clock + 1 /\ UNCHANGED <<pending, lastId, running, room>>

Next ==
  \/ \E delay \in Delays, again \in BOOLEAN : Set(delay, again)
  \/ \E t \in pending : Clear(t) \/ Fire(t)
  \/ Return \/ Tick

Spec == Init /\ [][Next]_<<pending, lastId, clock, running, room>>
=============================================================================
