--------------------------- MODULE HttpConnections ---------------------------
(***************************************************************************)
(* The connections of the HTTP server (runtime/festina_runtime_http.c).    *)
(* Main and every thread with an HTTP context own a private table of       *)
(* connections: slots, a free list of slots and an open-addressing index   *)
(* from conn_id to slot.  Only the conn_id counter is shared.  User code   *)
(* runs in the middle of a pass over the table and may tear connections    *)
(* down, hand one to another thread (giveRequest), or kill a thread.       *)
(*                                                                         *)
(* What a context is doing is a stack of calls: the function that parses   *)
(* a connection, the handler it called, the close handler that one caused. *)
(* A C frame's pointer into the table is kept as the slot it points to.    *)
(***************************************************************************)
EXTENDS Integers, Sequences, FiniteSets, SequencesExt

CONSTANTS
  Main, Worker,   \* the contexts: main and the threads with an HTTP handler
  Listening,      \* the contexts whose on load opens a port
  Hash,           \* festina_conn_index_hash
  IndexSize,      \* the index's first capacity (16)
  Kinds,          \* the requests the clients send
  Uses,           \* what the program's handlers do
  MaxConn,        \* bound: connections ever accepted
  MaxReq,         \* bound: requests ever sent by the clients
  MaxFrame        \* bound: frames ever sent by the clients

Ctx  == {Main} \cup Worker
Conn == 1..MaxConn
Req  == 1..MaxReq

\* A request as its line and headers announce it: whether the connection stays open after
\* the answer, whether it is a WebSocket handshake, whether it can be parsed at all.
Heads == {"keep", "close", "upgrade", "malformed"}

ASSUME ConnAssumption ==
  /\ Main \notin Worker
  /\ Listening \subseteq Ctx
  /\ Hash \in [0..MaxConn -> Nat]
  /\ IndexSize \in Nat \ {0, 1}
  /\ Kinds \subseteq Heads
  /\ Uses \subseteq {"answer", "upgrade", "give", "kill", "live", "close", "closeAgain", "slow"}
  /\ MaxConn \in Nat /\ MaxReq \in Nat /\ MaxFrame \in Nat

VARIABLES
  slots, free,         \* g_conns; g_conn_free_slots, per context
  index, used,         \* g_conn_index; g_conn_index_used, per context
  nextId,              \* g_next_conn_id, for the whole process
  pc, calls,           \* where a context's loop is; its stack of calls
  ready,               \* the connections the last poll reported, in slot order
  inbox, killing,      \* given requests queued at a thread; its kill_requested
  lastDetached,        \* g_last_detached_conn_id of main
  wire, eof,           \* bytes the kernel holds for a connection; the peer has closed
  phase, nextReq, nextFrame,  \* what the client of a connection sends next
  asked, answers,      \* history: requests sent and requests answered, in order
  cut,                 \* history: answers that were sent in part: connection, place
  shut, closeEvents,   \* history: close(fd) and on socketClose, per connection
  switched, given,     \* history: connections upgraded; connections handed off
  lost,                \* history: given requests that a kill discarded
  dispatched, released \* history: http values made; releases of each

tables  == <<slots, free, index, used>>
control == <<pc, calls, ready>>
handoff == <<inbox, killing, lastDetached, given, lost>>
sending == <<eof, phase, nextReq, nextFrame, asked>>
client  == <<wire, sending>>
fates   == <<shut, closeEvents>>
ending  == <<wire, fates>>
replies == <<answers, cut, switched>>
values  == <<dispatched, released>>
outcome == <<fates, replies, values>>
vars    == <<tables, nextId, control, handoff, client, outcome>>

\* A piece of the byte stream that the parser tells apart: a request's line and
\* headers, the rest of it, a WebSocket message, or a frame that ends the socket.
Item  == [kind : Heads \cup {"body", "message", "end"}, req : 0..MaxReq]

\* A FestinaConn. Blank is a slot that memset zeroed.
Record == [id : 0..MaxConn, alive : BOOLEAN, mode : {"http", "ws"},
           upgraded : BOOLEAN, responded : BOOLEAN, buf : Seq(Item)]
Blank  == [id |-> 0, alive |-> FALSE, mode |-> "http",
           upgraded |-> FALSE, responded |-> FALSE, buf |-> << >>]
Fresh(id) == [Blank EXCEPT !.id = id, !.alive = TRUE]

\* A C call in progress: the parsing loops, and the user code they call.
UserCode == {"request", "upgrade", "message", "closing", "callback"}
Call  == [at : UserCode \cup {"reading", "framing", "join"},
          slot : 0..MaxConn, id : 0..MaxConn, req : 0..MaxReq, thread : Ctx]
Doing(at) == [at |-> at, slot |-> 0, id |-> 0, req |-> 0, thread |-> Main]
Handler(at, id) == [Doing(at) EXCEPT !.id = id]
Request(id, r)  == [Handler("request", id) EXCEPT !.req = r]
Top(c)    == calls[c][Len(calls[c])]
Beneath(c) == Front(calls[c])
Idle(c)   == calls[c] = << >>
InCode(c, places) == ~Idle(c) /\ Top(c).at \in places

Pc == {"round", "serve", "reap", "teardown", "dead"}

-----------------------------------------------------------------------------
(* The index: open addressing with linear probing and tombstones.           *)

Empty     == -1
Tombstone == -2

Cap(t) == Cardinality(DOMAIN t)
At(t, id, d) == (Hash[id] + d) % Cap(t)
EmptyTable(n) == [i \in 0..n-1 |-> [id |-> Empty, slot |-> 0]]

\* festina_conn_index_insert_raw: the first entry that holds no connection.
InsertRaw(t, id, s) ==
  LET d == CHOOSE d \in 0..Cap(t)-1 :
             /\ t[At(t, id, d)].id < 0
             /\ \A e \in 0..d-1 : t[At(t, id, e)].id >= 0
  IN [t EXCEPT ![At(t, id, d)] = [id |-> id, slot |-> s]]

Occupied(t) == {i \in DOMAIN t : t[i].id >= 0}

\* festina_conn_index_grow: tombstones do not survive the rebuild.
Grown(t) ==
  LET size == IF Cap(t) = 0 THEN IndexSize ELSE 2 * Cap(t)
      upTo[i \in 0..Cap(t)] ==
        IF i = 0 THEN EmptyTable(size)
        ELSE IF t[i-1].id >= 0 THEN InsertRaw(upTo[i-1], t[i-1].id, t[i-1].slot)
        ELSE upTo[i-1]
  IN upTo[Cap(t)]

\* Whether festina_conn_index_put grows first: a load of three quarters.
MustGrow(t, n) == Cap(t) = 0 \/ (n + 1) * 4 >= Cap(t) * 3

\* The entries a probe for id stops at with success: none, or the nearest of those that hold
\* it, if no empty entry comes before. (Bug: a tombstone ends the probe.)
Hits_Tombstone(t, id) ==
  {At(t, id, d) : d \in {d \in 0..Cap(t)-1 :
     t[At(t, id, d)].id = id /\ \A e \in 0..d-1 : t[At(t, id, e)].id >= 0}}
Hits(t, id) ==
  {i \in {i \in DOMAIN t : t[i].id = id} :
     \A e \in 0..((i - Hash[id]) % Cap(t))-1 : t[At(t, id, e)].id \notin {Empty, id}}

\* festina_conn_index_get, 0 for none; festina_conn_index_remove.
IndexGet(t, id) == LET hits == Hits(t, id)
                   IN IF hits = {} THEN 0 ELSE t[CHOOSE i \in hits : TRUE].slot
IndexRemove(t, id) == [i \in DOMAIN t |-> IF i \in Hits(t, id)
                                          THEN [t[i] EXCEPT !.id = Tombstone] ELSE t[i]]

\* festina_conn_by_id, 0 for none.
ById(c, id) ==
  LET s == IndexGet(index[c], id)
  IN IF s # 0 /\ slots[c][s].alive /\ slots[c][s].id = id THEN s ELSE 0

-----------------------------------------------------------------------------
(* Taking and giving up a slot.                                             *)

\* The slot freed last, else the next beyond the high-water mark.
SlotFor(c) == IF free[c] = << >> THEN Len(slots[c]) + 1 ELSE Last(free[c])

\* What festina_conn_new_slot and festina_conn_attach share.
Install(c, conn) ==
  LET s == SlotFor(c)
      grow == MustGrow(index[c], used[c])
      table == IF grow THEN Grown(index[c]) ELSE index[c]
      count == IF grow THEN Cardinality(Occupied(table)) ELSE used[c]
  IN /\ free' = [free EXCEPT ![c] = IF @ = << >> THEN @ ELSE Front(@)]
     /\ slots' = [slots EXCEPT ![c] = IF s > Len(@) THEN Append(@, conn)
                                     ELSE [@ EXCEPT ![s] = conn]]
     /\ index' = [index EXCEPT ![c] = InsertRaw(table, conn.id, s)]
     /\ used' = [used EXCEPT ![c] = count + 1]

\* The slot s leaves the index and holds `left` from now on. (Bugs: the slot is not cleared;
\* the slot is not put on the free list.)
Vacate_Kept(c, s, left) ==
  /\ index' = [index EXCEPT ![c] = IndexRemove(@, slots[c][s].id)]
  /\ free' = [free EXCEPT ![c] = Append(@, s)]
  /\ UNCHANGED <<slots, used>>
Vacate_NotFreed(c, s, left) ==
  /\ slots' = [slots EXCEPT ![c][s] = left]
  /\ index' = [index EXCEPT ![c] = IndexRemove(@, slots[c][s].id)]
  /\ UNCHANGED <<free, used>>
Vacate(c, s, left) ==
  /\ slots' = [slots EXCEPT ![c][s] = left]
  /\ index' = [index EXCEPT ![c] = IndexRemove(@, slots[c][s].id)]
  /\ free' = [free EXCEPT ![c] = Append(@, s)]
  /\ UNCHANGED used

\* The rest of festina_conn_teardown, after the close handler: the fields it frees are
\* not read again, the conn_id stays. With the fd goes what the kernel holds for it.
Dispose(c, s) ==
  LET id == slots[c][s].id
  IN /\ Vacate(c, s, [Blank EXCEPT !.id = id])
     /\ shut' = [shut EXCEPT ![id] = @ + 1]
     /\ wire' = [wire EXCEPT ![id] = << >>]

\* Whether on socketClose runs. (Bug: for every connection.)
RunsCloseHandler_Any(c, s) == TRUE
RunsCloseHandler(c, s) == slots[c][s].upgraded

\* festina_conn_teardown of a live connection, called with `rest` on the stack.
Teardown(c, s, rest) ==
  LET id == slots[c][s].id
  IN IF RunsCloseHandler(c, s)
     THEN /\ calls' = [calls EXCEPT ![c] =
                         Append(rest, [Handler("closing", id) EXCEPT !.slot = s])]
          /\ closeEvents' = [closeEvents EXCEPT ![id] = @ + 1]
          /\ UNCHANGED <<tables, wire, shut>>
     ELSE /\ calls' = [calls EXCEPT ![c] = rest]
          /\ Dispose(c, s)
          /\ UNCHANGED closeEvents

-----------------------------------------------------------------------------
(* A pass over the table: festina_run_http_loop, festina_thread_http_service_pass. *)

\* What makes poll() report a connection. (Bug: POLLHUP is ignored.)
Readable_NoHangup(id) == wire[id] # << >>
Readable(id) == wire[id] # << >> \/ eof[id]
LiveSlots(c) == {s \in DOMAIN slots[c] : slots[c][s].alive}

\* A context about to poll, when it has no message to take first.
Polling(c) == pc[c] = "round" /\ Idle(c) /\ (c \in Worker => ~killing[c] /\ inbox[c] = << >>)

\* The conn_ids of the poll set that poll() reports, in slot order.
Reported(c) ==
  LET upTo[s \in 0..Len(slots[c])] ==
        IF s = 0 THEN << >>
        ELSE IF slots[c][s].alive /\ Readable(slots[c][s].id)
             THEN Append(upTo[s-1], slots[c][s].id)
        ELSE upTo[s-1]
  IN upTo[Len(slots[c])]

\* poll() returns with an event; the listeners' connections are accepted first. One at
\* most: several are as many passes with nothing else to do.
Poll(c) ==
  /\ Polling(c)
  /\ pc' = [pc EXCEPT ![c] = "serve"]
  /\ ready' = [ready EXCEPT ![c] = Reported(c)]
  /\ \/ Reported(c) # << >> /\ UNCHANGED <<tables, nextId>>
     \/ /\ c \in Listening /\ nextId <= MaxConn
        /\ Install(c, Fresh(nextId))
        /\ nextId' = nextId + 1
  /\ UNCHANGED <<calls, handoff, client, outcome>>

\* festina_conn_readable up to its parsing loops: all there is to read is read, and an
\* end of file tears the connection down with what came before it.
Serve(c) ==
  /\ pc[c] = "serve" /\ Idle(c) /\ ready[c] # << >>
  /\ ready' = [ready EXCEPT ![c] = Tail(@)]
  /\ LET id == Head(ready[c])
         s == ById(c, id)
     IN \/ /\ s = 0
           /\ UNCHANGED <<tables, calls, ending>>
        \/ /\ s # 0 /\ eof[id]
           /\ Teardown(c, s, << >>)
        \/ /\ s # 0 /\ ~eof[id]
           /\ slots' = [slots EXCEPT ![c][s].buf = @ \o wire[id]]
           /\ wire' = [wire EXCEPT ![id] = << >>]
           /\ calls' = [calls EXCEPT ![c] = <<[Doing(IF slots[c][s].mode = "http" THEN "reading"
                                                     ELSE "framing") EXCEPT !.slot = s]>>]
           /\ UNCHANGED <<free, index, used, fates>>
  /\ UNCHANGED <<nextId, pc, handoff, sending, replies, values>>

\* User code that no connection called, where the program has any that matters here.
Callbacks == IF Uses \cap {"close", "kill", "live"} = {} THEN {} ELSE {<<Doing("callback")>>}

\* All that poll() reported is served, or it timed out.
Served(c) ==
  /\ Idle(c) /\ ready[c] = << >>
  /\ pc[c] = "serve" \/ (Polling(c) /\ Reported(c) = << >>)

\* The connections are served; main's loop runs timers, completed jobs and messages.
RunCallbacks ==
  /\ Served(Main)
  /\ pc' = [pc EXCEPT ![Main] = "reap"]
  /\ \E stack \in Callbacks : calls' = [calls EXCEPT ![Main] = stack]
  /\ UNCHANGED <<tables, nextId, ready, handoff, client, outcome>>

\* festina_reap_idle_keepalive_connections ends the pass. Time is not modelled: any
\* connection with no request in flight may be due, one at a time.
Reap(c) ==
  /\ Served(c) \/ (pc[c] = "reap" /\ Idle(c))
  /\ pc' = [pc EXCEPT ![c] = "round"]
  /\ \/ UNCHANGED <<tables, calls, ending>>
     \/ \E s \in LiveSlots(c) :
          /\ slots[c][s].mode = "http" /\ slots[c][s].buf = << >>
          /\ Teardown(c, s, << >>)
  /\ UNCHANGED <<nextId, ready, handoff, sending, replies, values>>

-----------------------------------------------------------------------------
(* The parsing loops, one turn at a time.                                   *)

\* What festina_try_parse_request, or the frame parser, makes of a buffer.
Complete(buf) == Len(buf) >= 2 /\ buf[1].kind \in Heads \ {"malformed"}
Parsed(buf) == CASE buf # << >> /\ buf[1].kind \in {"malformed", "message", "end"} -> buf[1].kind
                 [] Complete(buf) -> "request"
                 [] OTHER         -> "nothing"

\* A new http value for the request at the head of the connection's buffer, and the call of
\* on request. (Bug: the loop over requests ends after one.)
Dispatch_Once(c, conn, stack) ==
  LET r == conn.buf[1].req
  IN /\ calls' = [calls EXCEPT ![c] =
                    Append(Front(stack), Request(conn.id, r))]
     /\ dispatched' = dispatched \cup {r}
Dispatch(c, conn, stack) ==
  LET r == conn.buf[1].req
  IN /\ calls' = [calls EXCEPT ![c] = Append(stack, Request(conn.id, r))]
     /\ dispatched' = dispatched \cup {r}

\* The loop of festina_conn_readable over requests. The connection is looked up again, by
\* the conn_id its slot now holds: the handler may have closed it or handed it off.
ReadingTurn(c) ==
  /\ InCode(c, {"reading"})
  /\ LET s == ById(c, slots[c][Top(c).slot].id)
         conn == slots[c][s]
         reading == IF s = 0 THEN FALSE ELSE conn.mode = "http"
         found == IF reading THEN Parsed(conn.buf) ELSE "nothing"
     IN \/ /\ found = "nothing"
           /\ calls' = [calls EXCEPT ![c] = Beneath(c)]
           /\ UNCHANGED <<tables, ending, dispatched>>
        \/ /\ found = "malformed"
           /\ Teardown(c, s, Beneath(c))
           /\ UNCHANGED dispatched
        \/ /\ found = "request"
           /\ Dispatch(c, conn, calls[c])
           /\ UNCHANGED <<tables, ending>>
  /\ UNCHANGED <<nextId, pc, ready, handoff, sending, replies, released>>

\* The loop over frames: festina_ws_process_one_frame, then the lookup.
FramingTurn(c) ==
  /\ InCode(c, {"framing"})
  /\ LET s == ById(c, slots[c][Top(c).slot].id)
         conn == slots[c][s]
         found == IF s = 0 THEN "nothing" ELSE Parsed(conn.buf)
     IN \/ /\ found = "nothing"
           /\ calls' = [calls EXCEPT ![c] = Beneath(c)]
           /\ UNCHANGED <<tables, ending>>
        \/ /\ found = "message"
           /\ slots' = [slots EXCEPT ![c][s].buf = Tail(@)]
           /\ calls' = [calls EXCEPT ![c] = Append(@, Handler("message", conn.id))]
           /\ UNCHANGED <<free, index, used, ending>>
        \/ /\ found = "end"
           /\ Teardown(c, s, calls[c])
  /\ UNCHANGED <<nextId, pc, ready, handoff, sending, replies, values>>

\* The connection is gone because this handler gave it away. (Bug: the flag is not there.)
HandedOff_Ignored(c, id) == FALSE
HandedOff(c, id) == ById(c, id) = 0 /\ c = Main /\ lastDetached = id

\* festina_send_all: a write that would block, to a client that reads slowly, ends the
\* answer, and no caller looks at what it returns.
SendAll(id, req) ==
  /\ answers' = [answers EXCEPT ![id] = Append(@, req)]
  /\ \E whole \in {TRUE, "slow" \notin Uses} :
       cut' = IF whole THEN cut ELSE cut \cup {<<id, Len(answers'[id])>>}

\* festina_finish_request_dispatch, when the request's handler returns.
FinishRequest(c) ==
  /\ InCode(c, {"request"})
  /\ LET id == Top(c).id
         s == ById(c, id)
         conn == slots[c][s]
     IN /\ lastDetached' = IF HandedOff(c, id) THEN 0 ELSE lastDetached
        /\ released' = [released EXCEPT ![Top(c).req] = IF HandedOff(c, id) THEN @ ELSE @ + 1]
        /\ IF s # 0 /\ ~conn.responded THEN SendAll(id, conn.buf[1].req)
           ELSE UNCHANGED <<answers, cut>>
        /\ \/ /\ s = 0
              /\ calls' = [calls EXCEPT ![c] = Beneath(c)]
              /\ UNCHANGED <<tables, ending>>
           \/ /\ s # 0 /\ conn.mode = "ws"
              /\ slots' = [slots EXCEPT ![c][s].upgraded = TRUE]
              /\ calls' = [calls EXCEPT ![c] = Append(Beneath(c), Handler("upgrade", id))]
              /\ UNCHANGED <<free, index, used, ending>>
           \/ /\ s # 0 /\ conn.mode = "http" /\ conn.buf[1].kind = "close"
              /\ Teardown(c, s, Beneath(c))
           \/ /\ s # 0 /\ conn.mode = "http" /\ conn.buf[1].kind # "close"
              /\ slots' = [slots EXCEPT ![c][s].buf = SubSeq(@, 3, Len(@)),
                                      ![c][s].responded = FALSE]
              /\ calls' = [calls EXCEPT ![c] = Beneath(c)]
              /\ UNCHANGED <<free, index, used, ending>>
  /\ UNCHANGED <<nextId, pc, ready, inbox, killing, given, lost, sending, switched, dispatched>>

-----------------------------------------------------------------------------
(* What user code may call.                                                 *)

\* The handler's connection is still here and its request unanswered. (Bug: answered or not.)
Answerable_Again(c) == LET s == ById(c, Top(c).id) IN s # 0 /\ slots[c][s].mode = "http"
Answerable(c) == LET s == ById(c, Top(c).id) IN s # 0 /\ ~slots[c][s].responded

\* ok(), redirect() and send(res) on the handler's own request.
Answer(c) ==
  /\ "answer" \in Uses /\ InCode(c, {"request"}) /\ Answerable(c)
  /\ LET id == Top(c).id
         s == ById(c, id)
     IN /\ slots' = [slots EXCEPT ![c][s].responded = TRUE]
        /\ SendAll(id, slots[c][s].buf[1].req)
  /\ UNCHANGED <<free, index, used, nextId, control, handoff, client, fates, switched, values>>

\* festina_http_upgrade: a no-op unless the request asks for it.
Upgrade(c) ==
  /\ "upgrade" \in Uses /\ InCode(c, {"request"}) /\ Answerable(c)
  /\ LET id == Top(c).id
         s == ById(c, id)
         conn == slots[c][s]
     IN /\ conn.buf[1].kind = "upgrade"
        /\ slots' = [slots EXCEPT ![c][s] =
                       [@ EXCEPT !.responded = TRUE, !.mode = "ws", !.buf = << >>]]
        /\ SendAll(id, conn.buf[1].req)
        /\ switched' = switched \cup {id}
  /\ UNCHANGED <<free, index, used, nextId, control, handoff, client, fates, values>>

\* giveRequest(r): festina_conn_detach, then the message for the thread.
GiveRequest(w) ==
  /\ "give" \in Uses /\ InCode(Main, {"request"}) /\ Answerable(Main)
  /\ LET id == Top(Main).id
         s == ById(Main, id)
         conn == slots[Main][s]
     IN /\ conn.mode = "http"
        /\ Vacate(Main, s, Blank)
        /\ inbox' = [inbox EXCEPT ![w] = Append(@, [conn |-> conn, req |-> Top(Main).req])]
        /\ lastDetached' = id
        /\ given' = given \cup {id}
  /\ UNCHANGED <<nextId, control, killing, lost, client, outcome>>

\* s.close() on any socket the program still holds; in its own close handler only if the
\* program does that, and then once.
SocketClose(c) ==
  /\ "close" \in Uses /\ InCode(c, UserCode)
  /\ \E s \in LiveSlots(c) :
       LET id == slots[c][s].id
           closing == {i \in DOMAIN calls[c] : calls[c][i].at = "closing" /\ calls[c][i].id = id}
       IN /\ slots[c][s].upgraded
          /\ Cardinality(closing) <= IF "closeAgain" \in Uses THEN 1 ELSE 0
          /\ Teardown(c, s, calls[c])
  /\ UNCHANGED <<nextId, pc, ready, handoff, sending, replies, values>>

\* A handler returns to its caller.
Return(c) ==
  /\ InCode(c, {"upgrade", "message", "callback"})
  /\ calls' = [calls EXCEPT ![c] = Beneath(c)]
  /\ UNCHANGED <<tables, nextId, pc, ready, handoff, client, outcome>>

CloseReturns(c) ==
  /\ InCode(c, {"closing"})
  /\ calls' = [calls EXCEPT ![c] = Beneath(c)]
  /\ Dispose(c, Top(c).slot)
  /\ UNCHANGED <<nextId, pc, ready, handoff, sending, closeEvents, replies, values>>

-----------------------------------------------------------------------------
(* A thread's part: requests it is given, its end, its next life.           *)

\* The call of on request for a given request p, and what follows its return. (Bug: nothing
\* does, as after any other message.)
Given_NotFinished(p) == Doing("callback")
Given(p) == Request(p.conn.id, p.req)

\* festina_thread_deliver_given_request up to the handler.
Deliver(w) ==
  /\ pc[w] = "round" /\ Idle(w) /\ ~killing[w] /\ inbox[w] # << >>
  /\ LET p == Head(inbox[w])
     IN /\ Install(w, p.conn)
        /\ calls' = [calls EXCEPT ![w] = <<Given(p)>>]
  /\ inbox' = [inbox EXCEPT ![w] = Tail(@)]
  /\ UNCHANGED <<nextId, pc, ready, killing, lastDetached, given, lost, client, outcome>>

\* A message that is not a request, at the top of a thread's loop.
Message(w) ==
  /\ pc[w] = "round" /\ Idle(w) /\ ~killing[w]
  /\ \E stack \in Callbacks : calls' = [calls EXCEPT ![w] = stack]
  /\ UNCHANGED <<tables, nextId, pc, ready, handoff, client, outcome>>

\* kill_requested is seen: on exit runs, and then the connections are torn down.
KillSeen(w) ==
  /\ pc[w] = "round" /\ Idle(w) /\ killing[w]
  /\ pc' = [pc EXCEPT ![w] = "teardown"]
  /\ \E stack \in {<< >>} \cup Callbacks : calls' = [calls EXCEPT ![w] = stack]
  /\ UNCHANGED <<tables, nextId, ready, handoff, client, outcome>>

\* festina_thread_http_teardown: every live connection in slot order, then the tables.
TeardownNext(w) ==
  /\ pc[w] = "teardown" /\ Idle(w)
  /\ \E s \in LiveSlots(w) :
       /\ \A other \in LiveSlots(w) : s <= other
       /\ Teardown(w, s, << >>)
  /\ UNCHANGED <<nextId, pc, ready, handoff, sending, replies, values>>

FreeTables(w) ==
  /\ pc[w] = "teardown" /\ Idle(w) /\ LiveSlots(w) = {}
  /\ slots' = [slots EXCEPT ![w] = << >>]
  /\ free' = [free EXCEPT ![w] = << >>]
  /\ index' = [index EXCEPT ![w] = EmptyTable(0)]
  /\ used' = [used EXCEPT ![w] = 0]
  /\ pc' = [pc EXCEPT ![w] = "dead"]
  /\ UNCHANGED <<nextId, calls, ready, handoff, client, outcome>>

\* kill(): flag and join; then what is still queued is thrown away.
Kill(w) ==
  /\ "kill" \in Uses /\ InCode(Main, UserCode)
  /\ pc[w] # "dead"
  /\ killing' = [killing EXCEPT ![w] = TRUE]
  /\ calls' = [calls EXCEPT ![Main] = Append(@, [Doing("join") EXCEPT !.thread = w])]
  /\ UNCHANGED <<tables, nextId, pc, ready, inbox, lastDetached, given, lost, client, outcome>>

Discarded(w) == {[id |-> inbox[w][i].conn.id, req |-> inbox[w][i].req] : i \in DOMAIN inbox[w]}

JoinReturns ==
  /\ InCode(Main, {"join"})
  /\ LET w == Top(Main).thread
     IN /\ pc[w] = "dead"
        /\ lost' = lost \cup Discarded(w)
        /\ inbox' = [inbox EXCEPT ![w] = << >>]
        /\ killing' = [killing EXCEPT ![w] = FALSE]
  /\ calls' = [calls EXCEPT ![Main] = Beneath(Main)]
  /\ UNCHANGED <<tables, nextId, pc, ready, lastDetached, given, client, outcome>>

Live(w) ==
  /\ "live" \in Uses /\ InCode(Main, UserCode)
  /\ pc[w] = "dead"
  /\ killing' = [killing EXCEPT ![w] = FALSE]
  /\ pc' = [pc EXCEPT ![w] = "round"]
  /\ UNCHANGED <<tables, nextId, calls, ready, inbox, lastDetached, given, lost, client, outcome>>

-----------------------------------------------------------------------------
(* The clients: environment.                                                *)

Reachable(id) == id < nextId /\ shut[id] = 0 /\ ~eof[id] /\ \A l \in lost : l.id # id

\* A client that asked for an upgrade waits for the answer; any other may pipeline.
Waits(id) ==
  /\ asked[id] # << >>
  /\ Last(asked[id]).kind = "upgrade" /\ Len(answers[id]) < Len(asked[id])

SendHead(id) ==
  /\ Reachable(id) /\ phase[id] = "request" /\ id \notin switched /\ ~Waits(id)
  /\ nextReq <= MaxReq
  /\ \E kind \in Kinds :
       LET head == [kind |-> kind, req |-> nextReq]
       IN /\ wire' = [wire EXCEPT ![id] = Append(@, head)]
          /\ asked' = [asked EXCEPT ![id] = IF kind = "malformed" THEN @ ELSE Append(@, head)]
          /\ phase' = [phase EXCEPT ![id] = IF kind = "malformed" THEN "quiet" ELSE "body"]
  /\ nextReq' = nextReq + 1
  /\ UNCHANGED <<tables, nextId, control, handoff, eof, nextFrame, outcome>>

SendBody(id) ==
  /\ Reachable(id) /\ phase[id] = "body"
  /\ wire' = [wire EXCEPT ![id] = Append(@, [kind |-> "body", req |-> Last(asked[id]).req])]
  /\ phase' = [phase EXCEPT ![id] = IF Last(asked[id]).kind = "close" THEN "quiet" ELSE "request"]
  /\ UNCHANGED <<tables, nextId, control, handoff, eof, nextReq, nextFrame, asked, outcome>>

SendFrame(id) ==
  /\ Reachable(id) /\ id \in switched
  /\ nextFrame <= MaxFrame
  /\ \E kind \in {"message", "end"} :
       wire' = [wire EXCEPT ![id] = Append(@, [kind |-> kind, req |-> 0])]
  /\ nextFrame' = nextFrame + 1
  /\ UNCHANGED <<tables, nextId, control, handoff, eof, phase, nextReq, asked, outcome>>

Hangup(id) ==
  /\ Reachable(id)
  /\ eof' = [eof EXCEPT ![id] = TRUE]
  /\ UNCHANGED <<tables, nextId, control, handoff, wire, phase, nextReq, nextFrame, asked,
                 outcome>>

-----------------------------------------------------------------------------
Init ==
  /\ slots = [c \in Ctx |-> << >>] /\ free = [c \in Ctx |-> << >>]
  /\ index = [c \in Ctx |-> EmptyTable(0)] /\ used = [c \in Ctx |-> 0]
  /\ nextId = 1
  /\ pc = [c \in Ctx |-> "round"] /\ calls = [c \in Ctx |-> << >>] /\ ready = [c \in Ctx |-> << >>]
  /\ inbox = [w \in Worker |-> << >>] /\ killing = [w \in Worker |-> FALSE]
  /\ lastDetached = 0 /\ given = {} /\ lost = {}
  /\ wire = [id \in Conn |-> << >>] /\ eof = [id \in Conn |-> FALSE]
  /\ phase = [id \in Conn |-> "request"] /\ nextReq = 1 /\ nextFrame = 1
  /\ asked = [id \in Conn |-> << >>] /\ answers = [id \in Conn |-> << >>]
  /\ shut = [id \in Conn |-> 0] /\ closeEvents = [id \in Conn |-> 0]
  /\ switched = {} /\ cut = {} /\ dispatched = {} /\ released = [r \in Req |-> 0]

HandlerReturns(c) == Return(c) \/ CloseReturns(c) \/ FinishRequest(c)

\* What a context does when it is scheduled; the handlers' own calls are not among it.
Step(c) ==
  \/ Poll(c) \/ Serve(c) \/ Reap(c)
  \/ ReadingTurn(c) \/ FramingTurn(c) \/ HandlerReturns(c)
  \/ c \in Worker /\ (Deliver(c) \/ KillSeen(c) \/ TeardownNext(c) \/ FreeTables(c))
  \/ c = Main /\ JoinReturns

ProgramCall ==
  \/ RunCallbacks
  \/ \E c \in Ctx : Answer(c) \/ Upgrade(c) \/ SocketClose(c)
  \/ \E w \in Worker : Message(w) \/ GiveRequest(w) \/ Kill(w) \/ Live(w)

ClientStep == \E id \in Conn : SendHead(id) \/ SendBody(id) \/ SendFrame(id) \/ Hangup(id)

Next ==
  \/ \E c \in Ctx : Step(c)
  \/ ProgramCall
  \/ ClientStep

\* Every context is an OS thread that keeps running. User code returns, however often it
\* kills and revives a thread. The messages of a thread come from a queue: other messages
\* do not keep it for ever from a given request, nor from its connections.
Fairness ==
  /\ \A c \in Ctx : WF_vars(Step(c)) /\ SF_vars(HandlerReturns(c))
  /\ \A w \in Worker : SF_vars(Poll(w) \/ Deliver(w))

Spec == Init /\ [][Next]_vars /\ Fairness

-----------------------------------------------------------------------------
(* Properties.                                                              *)

QueuedConns(w) == {inbox[w][i].conn.id : i \in DOMAIN inbox[w]}

\* Types.
TypeOK ==
  /\ slots \in [Ctx -> Seq(Record)] /\ free \in [Ctx -> Seq(1..MaxConn)]
  /\ \A c \in Ctx :
       index[c] \in [DOMAIN index[c] -> [id : {Empty, Tombstone} \cup Conn, slot : 0..MaxConn]]
  /\ used \in [Ctx -> Nat] /\ nextId \in 1..MaxConn+1
  /\ pc \in [Ctx -> Pc] /\ calls \in [Ctx -> Seq(Call)] /\ ready \in [Ctx -> Seq(Conn)]
  /\ inbox \in [Worker -> Seq([conn : Record, req : Req])]
  /\ killing \in [Worker -> BOOLEAN] /\ lastDetached \in 0..MaxConn
  /\ given \subseteq Conn /\ lost \subseteq [id : Conn, req : Req]
  /\ wire \in [Conn -> Seq(Item)] /\ eof \in [Conn -> BOOLEAN]
  /\ phase \in [Conn -> {"request", "body", "quiet"}]
  /\ nextReq \in 1..MaxReq+1 /\ nextFrame \in 1..MaxFrame+1
  /\ asked \in [Conn -> Seq(Item)] /\ answers \in [Conn -> Seq(Req)]
  /\ shut \in [Conn -> 0..1] /\ closeEvents \in [Conn -> 0..1] /\ switched \subseteq Conn
  /\ cut \subseteq Conn \X (1..MaxReq)
  /\ dispatched \subseteq Req /\ released \in [Req -> 0..1]

\* In every context a conn_id finds its live connection, in its slot, and nothing else,
\* across collisions, tombstones and growth, and a probe for an absent one ends; the free
\* list holds each dead slot once, so that no slot is given to two connections.
TablesExact ==
  \A c \in Ctx :
    /\ {<<slots[c][s].id, s>> : s \in LiveSlots(c)} =
         {e \in {<<id, IndexGet(index[c], id)>> : id \in Conn} : e[2] # 0}
    /\ Cap(index[c]) > 0 => \E i \in DOMAIN index[c] : index[c][i].id = Empty
    /\ IsInjective(free[c])
    /\ ToSet(free[c]) = DOMAIN slots[c] \ LiveSlots(c)

\* Where in a family of sequences there is an element that Is accepts.
Where(family, Is(_)) ==
  UNION {{<<c, i>> : i \in {i \in DOMAIN family[c] : Is(family[c][i])}} : c \in DOMAIN family}

\* Across accept, close, hand-off, kill and restart an accepted connection is in one
\* table, in one thread's queue, discarded with such a queue, or its fd closed once.
OneOwner ==
  \A id \in Conn :
    Cardinality(Where(slots, LAMBDA conn : conn.alive /\ conn.id = id))
    + Cardinality(Where(inbox, LAMBDA p : p.conn.id = id))
    + Cardinality({l \in lost : l.id = id})
    + shut[id] = IF id < nextId THEN 1 ELSE 0

\* on socketClose fires once for a WebSocket, before its fd is closed, however it ends, and
\* never for a connection that did not upgrade.
SocketCloseOnce ==
  \A id \in Conn : /\ closeEvents[id] <= 1
                   /\ closeEvents[id] = 1 => id \in switched
                   /\ shut[id] > 0 /\ id \in switched => closeEvents[id] = 1

\* A client reads the answers to its requests in the order it sent them, one for each,
\* although it pipelines and although another thread may write some of them.
AnswersInOrder ==
  \A id \in Conn :
    /\ Len(answers[id]) <= Len(asked[id])
    /\ \A i \in DOMAIN answers[id] : answers[id][i] = asked[id][i].req

\* The calls of on request for r that will release its value.
Handling(r) ==
  {h \in Where(calls, LAMBDA call : call.at = "request" /\ call.req = r) :
     ~(h[1] = Main /\ lastDetached = calls[Main][h[2]].id)}
QueuedAt(w) == {inbox[w][i].req : i \in DOMAIN inbox[w]}

\* The http value of a request is released by one context and once, whoever runs the
\* handler to its end; only kill() leaks it, with the queue it was in.
ValueReleasedOnce ==
  \A r \in Req :
    Cardinality(Handling(r)) + Cardinality(Where(inbox, LAMBDA p : p.req = r))
    + Cardinality({l \in lost : l.req = r}) + released[r] = IF r \in dispatched THEN 1 ELSE 0

Stranded(c) == {s \in LiveSlots(c) : slots[c][s].mode = "http" /\ Complete(slots[c][s].buf)}

\* When a context goes back to its loop, no request is left whole in the buffer of a
\* connection: nothing may ever arrive that would make the loop look at it again.
RequestsServed ==
  \A c \in Ctx : Idle(c) => \A s \in Stranded(c) : slots[c][s].id \in given

\* An answer that could be sent only in part is the last thing its client reads: what
\* followed would be taken for the rest of it.
CutIsLast == \A p \in cut : Len(answers[p[1]]) = p[2]

\* The thread is dead, or about to be.
Stopping(w) == killing[w] \/ pc[w] = "dead"

\* The end of a client's side is noticed: the connection is closed, wherever it has gone
\* by then, unless a kill threw it away or it waits at a thread that was killed.
HangupNoticed ==
  \A id \in Conn :
    eof[id] ~> \/ shut[id] = 1
               \/ \E l \in lost : l.id = id
               \/ \E w \in Worker : Stopping(w) /\ id \in QueuedConns(w)

\* A request handed to a running thread is handled there, however busy its connections are.
GivenHandled ==
  \A w \in Worker, r \in Req :
    r \in QueuedAt(w) /\ ~Stopping(w) ~> released[r] = 1 \/ Stopping(w)
=============================================================================
