---------------------------- MODULE CleanupStack ----------------------------
(***************************************************************************)
(* try, throw and the release of what a throw jumps over: the catch frames *)
(* and the cleanup stack of runtime/festina_runtime.c, one pair for each   *)
(* OS thread, and the calls codegen.py emits into them.                    *)
(*                                                                         *)
(* The compiler knows the scopes it is inside of and releases their locals *)
(* on every ordinary way out; a throw knows the cleanup stack only.  The   *)
(* program is any sequence of statements: it opens and leaves scopes,      *)
(* builds values in expressions, binds them, calls, returns and throws.    *)
(***************************************************************************)
EXTENDS Integers, FiniteSets, SequencesExt

CONSTANTS
  MaxValues, \* bound: values ever made
  MaxScopes  \* bound: scopes open at once, over all calls in progress

ASSUME CleanupAssumption == MaxValues \in Nat

VARIABLES
  scopes,   \* the scopes the running code is inside of, callers' first
  cleanup,  \* g_festina_cleanup_stack, up to g_festina_cleanup_len
  catches,  \* g_festina_catch_top and what it links to, newest last
  made,     \* values made so far; a value is its number
  released, \* history: how often each was released
  lost      \* history: values that a throw left without an owner

unwindVars == <<scopes, cleanup, catches, made, released, lost>>

\* A scope has its locals, the values its unfinished expressions have made, and the
\* temporaries registered for it: a function's arguments, what a JSON builder is building.
Scope(kind, guarded) == [kind |-> kind, guarded |-> guarded, locals |-> << >>, temps |-> << >>]

Top == Last(scopes)
Parsing == scopes # << >> /\ Top.kind = "builder"
Running == scopes # << >> /\ Top.kind # "builder"
\* Between two statements.
Idle == Running /\ Top.temps = << >>

Occurrences(s, v) == Cardinality({i \in DOMAIN s : s[i] = v})
Freed(values) == [v \in DOMAIN released |-> released[v] + Occurrences(values, v)]

\* What scopes own: every local has its entry on the cleanup stack, and so has everything
\* that is registered for a scope itself.
Owned(s) == FlattenSeq([i \in DOMAIN s |-> s[i].guarded \o s[i].locals])

TryAt(s) == {i \in DOMAIN s : s[i].kind = "try"}

\* festina_cleanup_pop_n.
PopN(n) == SubSeq(cleanup, 1, Len(cleanup) - n)

Fresh == made < MaxValues /\ made' = made + 1
-----------------------------------------------------------------------------
(* Expressions.                                                             *)

SetTop(scope) == scopes' = Append(Front(scopes), scope)

\* A literal, a template, a fresh result.
Build ==
  /\ Running /\ Fresh
  /\ SetTop([Top EXCEPT !.temps = Append(@, made')])
  /\ UNCHANGED <<cleanup, catches, released, lost>>

\* _track_local: a declaration takes what its expression made.
Bind ==
  /\ Running /\ Len(Top.temps) = 1
  /\ SetTop([Top EXCEPT !.temps = << >>, !.locals = @ \o Top.temps])
  /\ cleanup' = cleanup \o Top.temps
  /\ UNCHANGED <<catches, made, released, lost>>

\* The result of an expression statement is nobody's.
Discard ==
  /\ Running /\ Len(Top.temps) = 1
  /\ SetTop([Top EXCEPT !.temps = << >>])
  /\ released' = Freed(Top.temps)
  /\ UNCHANGED <<cleanup, catches, made, lost>>

\* _guard_call_arg_temps: the last n temporaries are arguments of the call; they are on
\* the stack while it lasts.
Call(n) ==
  /\ Running /\ n \in 0..Len(Top.temps) /\ Len(scopes) < MaxScopes
  /\ LET rest == SubSeq(Top.temps, 1, Len(Top.temps) - n)
         args == SubSeq(Top.temps, Len(Top.temps) - n + 1, Len(Top.temps))
     IN /\ scopes' = Front(scopes) \o <<[Top EXCEPT !.temps = rest], Scope("function", args)>>
        /\ cleanup' = cleanup \o args
  /\ UNCHANGED <<catches, made, released, lost>>
\* .toStruct() and .toArr(): the value being built is registered, and so is each key text
\* while its value is read; nothing but the parse runs, and it may throw.
BeginParse ==
  /\ Running \/ Parsing
  /\ Len(scopes) < MaxScopes /\ Fresh
  /\ scopes' = Append(scopes, Scope("builder", <<made'>>))
  /\ cleanup' = Append(cleanup, made')
  /\ UNCHANGED <<catches, released, lost>>

\* festina_cleanup_pop: a key is freed, the finished value is the expression's.
EndParse ==
  /\ Parsing
  /\ LET outer == Front(scopes) IN
     IF Last(outer).kind = "builder"
       THEN scopes' = outer /\ released' = Freed(Top.guarded)
       ELSE /\ scopes' = Append(Front(outer), [Last(outer) EXCEPT !.temps = @ \o Top.guarded])
            /\ released' = released
  /\ cleanup' = PopN(1)
  /\ UNCHANGED <<catches, made, lost>>

-----------------------------------------------------------------------------
(* Scopes.                                                                  *)

Open(kind) ==
  /\ Idle /\ Len(scopes) < MaxScopes
  /\ scopes' = Append(scopes, Scope(kind, << >>))
  /\ UNCHANGED <<cleanup, made, released, lost>>

OpenBlock(kind) == Open(kind) /\ UNCHANGED catches

\* setjmp and festina_try_push: where a throw comes back to, and how much is registered.
OpenTry ==
  /\ Open("try")
  /\ catches' = Append(catches, [depth |-> Len(cleanup), at |-> Len(scopes)])

\* festina_try_pop, for each try body among the scopes that are left. (Bug: only where a
\* try body ends, not where a return, break or continue leaves it.)
TriesIn_Innermost(left) == IF Len(left) = 1 /\ left[1].kind = "try" THEN 1 ELSE 0
TriesIn(left) == Cardinality(TryAt(left))

\* _emit_free_active_locals, and at the end of a call _release_call_arg_temps: the locals
\* of every scope above the base are released, with their entries on the stack.
LeaveTo(base) ==
  LET left == SubSeq(scopes, base + 1, Len(scopes))
  IN /\ released' = Freed(Owned(left))
     /\ cleanup' = PopN(Len(Owned(left)))
     /\ catches' = SubSeq(catches, 1, Len(catches) - TriesIn(left))

FunctionAt == Max({i \in DOMAIN scopes : scopes[i].kind = "function"})
Loops == {i \in DOMAIN scopes : i > FunctionAt /\ scopes[i].kind = "loop"}

EndBlock ==
  /\ Idle /\ Top.kind # "function"
  /\ LeaveTo(Len(scopes) - 1) /\ scopes' = Front(scopes)
  /\ UNCHANGED <<made, lost>>

\* break, and continue, which begins the loop's body anew.
Break ==
  /\ Idle /\ Loops # {}
  /\ LeaveTo(Max(Loops) - 1)
  /\ \E next \in {<< >>, <<Scope("loop", << >>)>>} :
       scopes' = SubSeq(scopes, 1, Max(Loops) - 1) \o next
  /\ UNCHANGED <<made, lost>>

\* A value that is returned goes to the caller's expression.
Return(result) ==
  LET callers == SubSeq(scopes, 1, FunctionAt - 1) IN
  /\ IF result /\ callers # << >>
       THEN /\ Len(Top.temps) = 1
            /\ scopes' = Append(Front(callers),
                                [Last(callers) EXCEPT !.temps = @ \o Top.temps])
       ELSE Idle /\ scopes' = callers
  /\ LeaveTo(FunctionAt - 1)
  /\ UNCHANGED <<made, lost>>

\* festina_throw, by a statement or by the runtime in the middle of an expression: what
\* is registered above the catching frame is released, and the catch variable is bound.
\* With no frame to go to it is fail(), and the program is over.
Throw ==
  /\ Running \/ Parsing
  /\ catches # << >> /\ Fresh
  /\ LET frame == Last(catches)
         over  == SubSeq(scopes, frame.at + 1, Len(scopes))
     IN /\ scopes' = Append(SubSeq(scopes, 1, frame.at),
                            [Scope("catch", << >>) EXCEPT !.locals = <<made'>>])
        /\ cleanup' = Append(SubSeq(cleanup, 1, frame.depth), made')
        /\ released' = Freed(SubSeq(cleanup, frame.depth + 1, Len(cleanup)))
        /\ lost' = lost \cup UNION {ToSet(over[i].temps) : i \in DOMAIN over}
  /\ catches' = Front(catches)

\* The event loop calls a handler.
Handle ==
  /\ scopes = << >> /\ scopes' = <<Scope("function", << >>)>>
  /\ UNCHANGED <<cleanup, catches, made, released, lost>>

-----------------------------------------------------------------------------
UnwindInit ==
  /\ scopes = << >> /\ cleanup = << >> /\ catches = << >> /\ made = 0
  /\ released = [v \in 1..MaxValues |-> 0] /\ lost = {}

UnwindNext ==
  \/ Build \/ Bind \/ Discard \/ BeginParse \/ EndParse \/ (\E n \in 0..MaxValues : Call(n))
  \/ (\E kind \in {"block", "loop"} : OpenBlock(kind)) \/ OpenTry
  \/ EndBlock \/ Break
  \/ (Running /\ \E result \in BOOLEAN : Return(result))
  \/ Throw \/ Handle

UnwindSpec == UnwindInit /\ [][UnwindNext]_unwindVars
-----------------------------------------------------------------------------
Held == UNION {ToSet(scopes[i].guarded \o scopes[i].locals \o scopes[i].temps) : i \in DOMAIN scopes}

\* The runtime's stacks are always those of the scopes the code is in, whatever mix of
\* returns, breaks, rethrows and calls led there: a throw finds the innermost open try
\* and releases what the code in between owns, and each value that was ever bound or
\* passed is released once, when nobody holds it any more.
CleanupExact ==
  /\ cleanup = Owned(scopes)
  /\ {catches[i].at + 1 : i \in DOMAIN catches} = TryAt(scopes)
  /\ \A i, j \in DOMAIN catches : i < j => catches[i].at < catches[j].at
  /\ \A i \in DOMAIN catches : catches[i].depth = Len(Owned(SubSeq(scopes, 1, catches[i].at)))
  /\ \A v \in 1..made : released[v] = IF v \in Held \cup lost THEN 0 ELSE 1
=============================================================================
