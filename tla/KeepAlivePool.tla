---------------------------- MODULE KeepAlivePool ----------------------------
(***************************************************************************)
(* The blocking HTTP client of runtime/festina_runtime_http.c              *)
(* (festina_http_send_client) over plain HTTP, and the connections one OS  *)
(* thread keeps for reuse (g_client_pool): take one and check it, or       *)
(* connect; write; once more on a fresh connection if a kept one refuses   *)
(* the write; read one answer; keep the connection or close it.            *)
(*                                                                         *)
(* External: the upstream.  It answers the requests of a connection in     *)
(* their order, in its own time, even after the client has gone, and may   *)
(* run a request of which it has only a part.  It may close and speak out  *)
(* of turn at any moment: it knows nothing of the client's pool.           *)
(***************************************************************************)
EXTENDS Integers, FiniteSets

CONSTANTS
  Origin,       \* host:port pairs
  Fd,           \* socket numbers; one that was closed is given out again
  Slots,        \* FESTINA_CLIENT_POOL_SIZE
  MaxRequests,  \* bound: requests the program sends
  None          \* an empty slot; no socket; nothing to read; no request

Slot    == 1..Slots
Request == 1..MaxRequests
Kept    == [origin : Origin, fd : Fd]

\* What reads as an answer: one to a request, or one that nobody asked for (to None).
Answer  == [to : Request \cup {None}, keep : BOOLEAN]

\* An arrival of a request at an upstream: "retried" is the part of it that was there when the
\* write on a kept connection failed and was tried again, "last" is all else.
Arrival == Request \X {"last", "retried"}

\* A request, what it was given, and whether the upstream spoke out of turn on its socket.
Result  == [of : Request, to : Request \cup {None}, odd : BOOLEAN]

ASSUME KeepAliveAssumption ==
  /\ Slots \in Nat \ {0} /\ MaxRequests \in Nat
  /\ None \notin Origin \cup Fd \cup Request \cup Kept \cup Answer \cup Result

VARIABLES
  slot, turn,     \* g_client_pool, g_client_pool_cursor
  phase,          \* where festina_http_send_client is
  call,           \* its locals: the request, its origin, fd, from_pool
  opened, server, \* sockets the client has open; the origin each is connected to
  hung, asked,    \* the upstream closed it; the requests it has yet to answer
  input,          \* what the client reads from it next
  odd,            \* history: the upstream spoke out of turn while a request had it
  orphans,        \* arrivals on connections that were closed since
  processed,      \* history: how often the upstream ran each arrival
  given           \* history: what the last request to be answered was given

pool    == <<slot, turn>>
network == <<opened, server, hung, asked, input, odd, orphans, processed>>
vars    == <<pool, phase, call, network, given>>

Phases == {"idle", "connect", "write", "read", "ended"}
Calls  == [id : 0..MaxRequests, origin : Origin \cup {None}, fd : Fd \cup {None},
           fromPool : BOOLEAN]

Whole(requests) == requests \X {"last"}

\* The client closes some sockets and reads what there is on others; what is still inside a
\* closed one, and the part of a request that reached it (torn), may be run all the same.
Drop(closed, read, torn) ==
  /\ opened' = opened \ closed /\ odd' = odd \ closed
  /\ orphans' = orphans \cup torn \cup Whole(UNION {asked[f] : f \in closed})
  /\ asked' = [f \in Fd |-> IF f \in closed THEN {} ELSE asked[f]]
  /\ input' = [f \in Fd |-> IF f \in closed \cup read THEN None ELSE input[f]]
  /\ hung' = [f \in Fd |-> hung[f] /\ f \notin closed]
  /\ server' = [f \in Fd |-> IF f \in closed THEN None ELSE server[f]]

FdsOf(slots) == {slot[s].fd : s \in {s \in slots : slot[s] # None}}

-----------------------------------------------------------------------------
(* A request.                                                               *)

\* Only the first slot of the origin is looked at.
Leads(s, o) == slot[s] # None /\ slot[s].origin = o
IsFirst(s, o) == Leads(s, o) /\ \A t \in Slot : t < s => ~Leads(t, o)

\* The peek: nothing to read, and no end of file.
Alive_OpenOnly(f) == ~hung[f]
Alive(f) == ~hung[f] /\ input[f] = None

Begin(o, f, reused) ==
  call' = [id |-> call.id + 1, origin |-> o, fd |-> f, fromPool |-> reused]

\* festina_client_pool_take finds nothing.
TakeNone(o) ==
  /\ phase = "idle" /\ call.id < MaxRequests
  /\ \A s \in Slot : ~Leads(s, o)
  /\ Begin(o, None, FALSE) /\ phase' = "connect"
  /\ UNCHANGED <<pool, network, given>>

\* It finds a connection that is still good.
TakeAlive(o) ==
  /\ phase = "idle" /\ call.id < MaxRequests
  /\ \E s \in Slot :
       /\ IsFirst(s, o) /\ Alive(slot[s].fd)
       /\ slot' = [slot EXCEPT ![s] = None]
       /\ Begin(o, slot[s].fd, TRUE)
  /\ phase' = "write"
  /\ UNCHANGED <<turn, network, given>>

\* It finds one that is not.
TakeDead(o) ==
  /\ phase = "idle" /\ call.id < MaxRequests
  /\ \E s \in Slot :
       /\ IsFirst(s, o) /\ ~Alive(slot[s].fd)
       /\ slot' = [slot EXCEPT ![s] = None]
       /\ Drop({slot[s].fd}, {}, {})
  /\ Begin(o, None, FALSE) /\ phase' = "connect"
  /\ UNCHANGED <<turn, processed, given>>

Connect ==
  /\ phase = "connect"
  /\ \E f \in Fd \ opened :
       /\ opened' = opened \cup {f}
       /\ server' = [server EXCEPT ![f] = call.origin]
       /\ call' = [call EXCEPT !.fd = f, !.fromPool = FALSE]
  /\ phase' = "write"
  /\ UNCHANGED <<pool, hung, asked, input, odd, orphans, processed, given>>

\* The call throws: it could not connect.
ConnectFails ==
  /\ phase = "connect" /\ phase' = "idle"
  /\ UNCHANGED <<pool, call, network, given>>

\* The kernel takes the head and the body; an upstream that has closed never sees them.
Write ==
  /\ phase = "write" /\ phase' = "read"
  /\ asked' = [asked EXCEPT ![call.fd] = @ \cup (IF hung[call.fd] THEN {} ELSE {call.id})]
  /\ UNCHANGED <<pool, call, opened, server, hung, input, odd, orphans, processed, given>>

\* A write fails: a kept connection gives way to a fresh one, once; else it throws.  The head
\* and the body are two writes, so a part of the request may have arrived.
WriteFails ==
  /\ phase = "write"
  /\ \E arrived \in SUBSET {<<call.id, IF call.fromPool THEN "retried" ELSE "last">>} :
       (hung[call.fd] => arrived = {}) /\ Drop({call.fd}, {}, arrived)
  /\ phase' = IF call.fromPool THEN "connect" ELSE "idle"
  /\ call' = [call EXCEPT !.fd = None, !.fromPool = FALSE]
  /\ UNCHANGED <<pool, processed, given>>

\* festina_client_pool_put, at the cursor: what is there is evicted, and closed.
Put(f) ==
  /\ slot' = [slot EXCEPT ![turn] = [origin |-> call.origin, fd |-> f]]
  /\ turn' = (turn % Slots) + 1

\* An answer is complete, or what is taken for one.  Its connection is kept if it allows it.
Read ==
  /\ phase = "read" /\ input[call.fd] # None
  /\ given' = [of |-> call.id, to |-> input[call.fd].to, odd |-> call.fd \in odd]
  /\ IF input[call.fd].keep
       THEN Put(call.fd) /\ Drop(FdsOf({turn}), {call.fd}, {})
       ELSE Drop({call.fd}, {}, {}) /\ UNCHANGED pool
  /\ call' = [call EXCEPT !.fd = None] /\ phase' = "idle"
  /\ UNCHANGED processed

\* The end of file, an error, or 30 seconds without a byte: it throws, and is not retried.
ReadFails_Retried ==
  /\ phase = "read" /\ input[call.fd] = None
  /\ Drop({call.fd}, {}, {})
  /\ phase' = IF call.fromPool THEN "connect" ELSE "idle"
  /\ call' = [call EXCEPT !.fd = None]
  /\ UNCHANGED <<pool, processed, given>>
ReadFails ==
  /\ phase = "read" /\ input[call.fd] = None
  /\ Drop({call.fd}, {}, {})
  /\ phase' = "idle"
  /\ call' = [call EXCEPT !.fd = None]
  /\ UNCHANGED <<pool, processed, given>>

\* festina_client_pool_teardown, when a killed thread ends; main never does.
Teardown ==
  /\ phase = "idle" /\ phase' = "ended"
  /\ slot' = [s \in Slot |-> None]
  /\ Drop(FdsOf(Slot), {}, {})
  /\ UNCHANGED <<turn, call, processed, given>>

-----------------------------------------------------------------------------
(* The upstream.                                                            *)

Ran(arrival) == processed' = [processed EXCEPT ![arrival] = @ + 1]

\* An answer that arrives behind something unread is read with it, and lost.  (One that is
\* left in the socket is as one that is sent later.)
Serve(f) ==
  /\ \E r \in asked[f], keep \in BOOLEAN :
       /\ \A q \in asked[f] : r <= q
       /\ Ran(<<r, "last">>)
       /\ asked' = [asked EXCEPT ![f] = @ \ {r}]
       /\ input' = [input EXCEPT ![f] = IF @ = None THEN [to |-> r, keep |-> keep] ELSE @]
  /\ UNCHANGED <<pool, phase, call, opened, server, hung, odd, orphans, given>>

ServeOrphan(arrival) ==
  /\ arrival \in orphans /\ orphans' = orphans \ {arrival} /\ Ran(arrival)
  /\ UNCHANGED <<pool, phase, call, opened, server, hung, asked, input, odd, given>>

HangUp(f) ==
  /\ f \in opened /\ ~hung[f]
  /\ hung' = [hung EXCEPT ![f] = TRUE]
  /\ orphans' = orphans \cup Whole(asked[f])
  /\ asked' = [asked EXCEPT ![f] = {}]
  /\ UNCHANGED <<pool, phase, call, opened, server, input, odd, processed, given>>

Babble(f) ==
  /\ f \in opened /\ ~hung[f] /\ input[f] = None
  /\ \E keep \in BOOLEAN : input' = [input EXCEPT ![f] = [to |-> None, keep |-> keep]]
  /\ odd' = odd \cup ({call.fd} \cap {f})
  /\ UNCHANGED <<pool, phase, call, opened, server, hung, asked, orphans, processed, given>>

-----------------------------------------------------------------------------
Init ==
  /\ slot = [s \in Slot |-> None] /\ turn = 1
  /\ phase = "idle"
  /\ call = [id |-> 0, origin |-> None, fd |-> None, fromPool |-> FALSE]
  /\ opened = {} /\ odd = {} /\ orphans = {} /\ given = None
  /\ server = [f \in Fd |-> None] /\ hung = [f \in Fd |-> FALSE]
  /\ asked = [f \in Fd |-> {}] /\ input = [f \in Fd |-> None]
  /\ processed = [arrival \in Arrival |-> 0]

Send == \E o \in Origin : TakeNone(o) \/ TakeAlive(o) \/ TakeDead(o)
Client == Send \/ Connect \/ ConnectFails \/ Write \/ WriteFails \/ Read \/ ReadFails \/ Teardown
Upstream ==
  \/ \E f \in Fd : Serve(f) \/ HangUp(f) \/ Babble(f)
  \/ \E arrival \in Arrival : ServeOrphan(arrival)

Next == Client \/ Upstream
Spec == Init /\ [][Next]_vars
-----------------------------------------------------------------------------
TypeOK ==
  /\ slot \in [Slot -> Kept \cup {None}] /\ turn \in Slot
  /\ phase \in Phases /\ call \in Calls
  /\ opened \in SUBSET Fd /\ server \in [Fd -> Origin \cup {None}]
  /\ hung \in [Fd -> BOOLEAN] /\ asked \in [Fd -> SUBSET Request]
  /\ input \in [Fd -> Answer \cup {None}] /\ odd \in SUBSET Fd
  /\ orphans \in SUBSET Arrival
  /\ processed \in [Arrival -> Nat]
  /\ given \in Result \cup {None}

InUse == IF call.fd = None THEN {} ELSE {call.fd}

\* Every open socket has one holder, a slot or the request under way, and none is lost.
HeldOnce ==
  /\ opened = FdsOf(Slot) \cup InUse
  /\ FdsOf(Slot) \cap InUse = {}
  /\ \A s, t \in Slot : (slot[s] # None /\ slot[t] # None /\ s # t) => slot[s].fd # slot[t].fd

\* A socket leads where its holder believes it does.
RightOrigin ==
  /\ \A s \in Slot : slot[s] # None => server[slot[s].fd] = slot[s].origin
  /\ call.fd # None => server[call.fd] = call.origin

\* The upstream runs a request at most once.  Only what it had of one when a write on a kept
\* connection failed may be run besides the retry, and that once.
RunOnce == \A arrival \in Arrival : processed[arrival] <= 1

\* A request is given its own answer, whatever a connection brought while it was kept, unless
\* the upstream spoke out of turn on it after the pool had checked it: the client takes that
\* for the answer, and the answer for that of a later request.
OwnAnswer == given # None => given.to = given.of \/ given.odd

\* What the pool must not break, in any order of closes, failures and evictions.
PoolSound == HeldOnce /\ RightOrigin /\ RunOnce /\ OwnAnswer
=============================================================================
