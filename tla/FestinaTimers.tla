---------------------------- MODULE FestinaTimers ----------------------------
(***************************************************************************)
(* The timers of runtime/festina_runtime.c: one table for timeouts and     *)
(* intervals, that a pass of the event loop walks by index                 *)
(* (festina_fire_expired_timers).  A callback in the middle of the walk    *)
(* may set timers, which compacts the table or grows it, and clear any.    *)
(* Main alone touches them.  The program sets and clears timers while no   *)
(* walk is on (top-level code, other handlers) or from a callback.         *)
(***************************************************************************)
EXTENDS Integers, Sequences, FiniteSets

CONSTANTS
  Delays,        \* the delays the program asks for, in ticks
  FirstCapacity, \* the first size of the table: 8
  MaxTimers,     \* bound: timers ever set
  MaxClock       \* bound: ticks

VARIABLES
  table,     \* g_timers, up to g_timer_count
  capacity,  \* g_timer_capacity
  nextId,    \* g_next_timer_id
  time,      \* CLOCK_MONOTONIC
  cursor,    \* the walk's index, 0 while there is none
  now,       \* the walk's reading of the clock
  firing     \* the timer whose callback the walk is inside, 0 if none

walk == <<cursor, now, firing>>
timerVars == <<table, capacity, nextId, time, walk>>

InUserCode == cursor = 0 \/ firing # 0

\* festina_add_timer makes room by leaving out what is cleared or done; if that gives
\* none, by doubling. (Bug: it goes by their time.)
Compacted_Future(t) == SelectSeq(t, LAMBDA entry : entry.due > time)
Compacted(t) ==
  LET upTo[i \in 0..Len(t)] ==
        IF i = 0 THEN << >>
        ELSE IF t[i].active THEN Append(upTo[i-1], t[i]) ELSE upTo[i-1]
  IN upTo[Len(t)]
Doubled == IF capacity = 0 THEN FirstCapacity ELSE 2 * capacity

AddTimer(delay, interval) ==
  /\ InUserCode /\ nextId <= MaxTimers
  /\ LET kept == IF Len(table) = capacity THEN Compacted(table) ELSE table IN
       /\ capacity' = IF Len(kept) = capacity THEN Doubled ELSE capacity
       /\ table' = Append(kept, [id |-> nextId, due |-> time + delay, every |-> delay,
                                 again |-> interval, active |-> TRUE])
  /\ nextId' = nextId + 1
  /\ UNCHANGED <<time, walk>>

\* clearTimeout and clearInterval, of any number ever given out.
ClearTimer(id) ==
  /\ InUserCode
  /\ table' = [i \in DOMAIN table |->
                 IF table[i].id = id THEN [table[i] EXCEPT !.active = FALSE] ELSE table[i]]
  /\ UNCHANGED <<capacity, nextId, time, walk>>

\* The event loop calls festina_fire_expired_timers.
StartWalk ==
  /\ cursor = 0 /\ table # << >>
  /\ cursor' = 1 /\ now' = time
  /\ UNCHANGED <<table, capacity, nextId, time, firing>>

\* An interval's next time and a timeout's end are settled before the callback runs.
\* (Bug: a timeout is left as it is.)
Fired_Kept(entry) == IF entry.again THEN [entry EXCEPT !.due = now + entry.every] ELSE entry
Fired(entry) ==
  IF entry.again THEN [entry EXCEPT !.due = now + entry.every]
  ELSE [entry EXCEPT !.active = FALSE]

Due(entry) == entry.active /\ entry.due <= now

WalkStep ==
  /\ cursor > 0 /\ firing = 0
  /\ IF cursor > Len(table) THEN cursor' = 0 /\ now' = 0 /\ UNCHANGED <<table, firing>>
     ELSE IF ~Due(table[cursor]) THEN cursor' = cursor + 1 /\ UNCHANGED <<table, now, firing>>
     ELSE /\ table' = [table EXCEPT ![cursor] = Fired(@)]
          /\ firing' = table[cursor].id /\ UNCHANGED <<cursor, now>>
  /\ UNCHANGED <<capacity, nextId, time>>

\* The clock is read again; the walk goes on behind where it was, in the table as it is.
CallbackReturns ==
  /\ firing # 0 /\ firing' = 0
  /\ cursor' = cursor + 1 /\ now' = time
  /\ UNCHANGED <<table, capacity, nextId, time>>

TimePasses ==
  /\ time < MaxClock /\ time' = time + 1
  /\ UNCHANGED <<table, capacity, nextId, walk>>

TimersInit ==
  /\ table = << >> /\ capacity = 0 /\ nextId = 1 /\ time = 0
  /\ cursor = 0 /\ now = 0 /\ firing = 0

TimersNext ==
  \/ \E delay \in Delays, interval \in BOOLEAN : AddTimer(delay, interval)
  \/ \E id \in 1..MaxTimers : id < nextId /\ ClearTimer(id)
  \/ StartWalk \/ WalkStep \/ CallbackReturns \/ TimePasses

TimersSpec == TimersInit /\ [][TimersNext]_timerVars
-----------------------------------------------------------------------------
Pending ==
  {[id |-> table[i].id, due |-> table[i].due, every |-> table[i].every, again |-> table[i].again] :
     i \in {i \in DOMAIN table : table[i].active}}

Promise == INSTANCE PendingTimers WITH
  pending <- Pending, lastId <- nextId - 1, clock <- time, room <- capacity,
  running <- firing, FirstRoom <- FirstCapacity

\* The table keeps the program's timers, through compaction and growth under a walk, as
\* the promise says: each fires when it is due and no more often, none is lost, doubled,
\* or fired after it was cleared, and the table grows only when every entry is alive.
TimersKept == Promise!Spec
=============================================================================
