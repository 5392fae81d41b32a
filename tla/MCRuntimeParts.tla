--------------------------- MODULE MCRuntimeParts ---------------------------
(***************************************************************************)
(* Small instances of the runtime's sequential parts for TLC, in one       *)
(* state space: `part' names the one that moves, the others stay as they   *)
(* began.  The parts share no state in the code, so this loses nothing.    *)
(***************************************************************************)
EXTENDS KeepAlivePool, FestinaTimers, MapTable, CleanupStack, CycleCollector,
        WebSocketFrames, TLC

CONSTANTS
  n1, n2, n3, x, y, a, b, f1, f2, k1, k2, k3, k4, k5

VARIABLE part

\* k1 and k2 meet in a table of 4 and one of 8, all but k4 and k5 one after the other.
Hashes == [k \in Key |-> CASE k = k1 -> 3 [] k = k2 -> 11 [] k = k3 -> 4 [] k = k4 -> 1 [] k = k5 -> 2]

partVars == <<part, heapVars, timerVars, wsVars, mapVars, unwindVars, vars>>

\* One node, or none, is the storage of a global.
PartsInit ==
  /\ part \in {"heap", "timers", "frames", "map", "unwind", "pool"}
  /\ HeapInit /\ var[y] = Null
  /\ IF part = "heap" THEN Cardinality(immortal) <= 1 ELSE immortal = {}
  /\ TimersInit /\ FramesInit /\ MapInit /\ UnwindInit /\ Init

\* Beside a global there is one variable, which holds the storage of that global or nothing.
FewVariables == immortal = {} \/ var'[y] \in immortal \cup {Null}

PartsNext ==
  /\ UNCHANGED part
  /\ \/ part = "heap"   /\ HeapNext    /\ FewVariables /\ UNCHANGED <<timerVars, wsVars, mapVars, unwindVars, vars>>
     \/ part = "timers" /\ TimersNext  /\ UNCHANGED <<heapVars, wsVars, mapVars, unwindVars, vars>>
     \/ part = "frames" /\ FramesNext  /\ UNCHANGED <<heapVars, timerVars, mapVars, unwindVars, vars>>
     \/ part = "map"    /\ MapNext     /\ UNCHANGED <<heapVars, timerVars, wsVars, unwindVars, vars>>
     \/ part = "unwind" /\ UnwindNext  /\ UNCHANGED <<heapVars, timerVars, wsVars, mapVars, vars>>
     \/ part = "pool"   /\ Next        /\ UNCHANGED <<heapVars, timerVars, wsVars, mapVars, unwindVars>>

PartsSpec == PartsInit /\ [][PartsNext]_partVars

Symmetry == Permutations({n1, n2, n3})
=============================================================================
