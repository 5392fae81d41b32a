# Verification of the Festina runtime

Festina compiles a small event-driven language to C. The compiler
(`src/festina/*.py`) is a sequential translator; what is hard to get right is the
C runtime a compiled program is linked with (`src/runtime/*.c`): OS threads with
message queues and reply callbacks, an event loop that owns main's state, worker
pools whose results come back to that loop, an HTTP server whose connections can
be handed from thread to thread, audio
channels with a playback thread each, a timer table that user callbacks change while it
is walked, and the sequential machinery below all of it: counts and cycles, hash tables,
`try`. The modules here model that runtime; `PROJECT.json` maps every
definition to the lines it stands for.

## 1. Inventory

| Component | Source | State | Operations | Talks to |
|---|---|---|---|---|
| Thread runtime | `festina_runtime_thread.c` | per `thread`: inbound queue, outbound queue, `kill_requested`, `alive`, `dispatching`, `drain_waiters`, pending callbacks and their tail; `g_next_txn_id`; thread-local `g_current_reply_txn`; `g_registry` | `postMessage` in and out, `.callback`, `reply`, `giveRequest`, `kill`, `live`, `drain`, `isAlive`, the worker loop, main's drain of the outbound queues | main loop (hooks), async-io pool (marshaled callbacks), HTTP context of a thread |
| Main loop and lifetime | `festina_runtime.c` 1370-1440, 4507-4653 | shutdown flag, timers, registered drain hooks | one round: signal, anything outstanding?, timers, async-io results, thread messages, sleep; `close(code)` | everything |
| Async-io pool | `festina_runtime_async.c` | queue, done list, `g_outstanding`, `g_pool_started` | run a job on a worker, deliver its completion on main | main loop |
| Startup prologue | `codegen.py` 14050-14120 | order of register and spawn | one handle after the other | thread runtime |
| Timers | `festina_runtime.c` 4287-4400 | timer table | set, clear, compact, fire while walking | main loop, every worker |
| HTTP server | `festina_runtime_http.c` | per context: connection slots, free list, `conn_id` index; keep-alive timeouts | accept, poll, parse, answer, close, reap, upgrade | thread runtime (`giveRequest`) |
| Non-blocking HTTP client | `festina_runtime_http.c` 4047-4180 | job queue, done list, self-pipe | dispatch, run, wake the loop, deliver | main loop |
| Keep-alive pool of the HTTP client | `festina_runtime_http.c` 3300-3500, 3850-4040 | per OS thread: a fixed number of idle sockets and a cursor | take and check, connect, write, retry, read, keep or close | upstream servers |
| WebSockets | `festina_runtime_http.c` 1500-1800 | fragment state of a connection | frames in and out, ping, close | HTTP server |
| Audio channels | `festina_runtime_audio.c` | fixed table of channels, one player thread each | claim, steal, stop, reap, join | OS threads |
| Reference counts and cycles | `festina_runtime.c` 5540-5700, traversals generated by `codegen.py` | counts and colours in the header of each value | retain, release, trial deletion | all values |
| Containers | `festina_runtime.c` 4750-5000 | hash table with tombstones, arrays | get, set, delete, grow | all values |
| `try`/`throw` | `festina_runtime.c` 440-560 | per OS thread: catch frames, cleanup stack | push, pop, unwind | generated code |
| sqlite cache, schema sync | `festina_runtime.c` | prepared statements under a mutex | prepare, reset, migrate | sqlite |
| json, url, regex, text, files | `festina_runtime.c` | none between calls | pure functions | - |
| Graphics, windows, TLS | `festina_runtime_graphics.c`, `_window_win32.c`, `_https.c` | windows, sessions | I/O | - |
| Compiler, code generation, command line, bootstrap | `festina/*.py`, `bootstrap/` | the program text | translation | - |

What is hard about them: workers and main interleave at every lock; three flags and
two queues of a handle are read and written by different OS threads; a reply may
arrive after the sender was killed, restarted, or has moved on; callbacks travel
over a second pool to reach main; main sleeps in `drain()` or `pthread_join` while
the thread it waits for posts to main; user code runs inside every one of these
steps and can call back into them. `PROJECT.json` lists each hazard at its line,
with the property that covers it, or the reason why none does.

| Module | Component | Kind |
|---|---|---|
| `FestinaThread` | thread runtime, main loop | concurrent: main and the workers |
| `CallbackPools`, `JobPool` | the two callback pools; what a pool promises | concurrent: dispatchers, workers, main |
| `HttpConnections` | HTTP server, hand-off | concurrent: main, threads, clients |
| `AudioChannels` | audio channels | concurrent: callers and playback threads |
| `KeepAlivePool` | HTTP client's pool | a client and its upstream |
| `FestinaTimers`, `PendingTimers` | timers; what they promise | sequential, re-entered by callbacks |
| `WebSocketFrames` | frames of a connection | sequential, against the meaning of a stream |
| `CycleCollector` | counts and cycles | sequential, against reachability |
| `MapTable` | map[T] | sequential, against a function |
| `CleanupStack` | try/throw | sequential, against lexical scopes |
| `MC...` | instances for TLC; `MCRuntimeParts` has those of the last six lines above | |
| `..._proofs` | theorems of `FestinaThread`, `CallbackPools`, `HttpConnections`, `KeepAlivePool`, `AudioChannels`, `FestinaTimers`, `MapTable`, `CleanupStack`, `WebSocketFrames`, `CycleCollector` | |

## 2. `FestinaThread`

One module for the whole thread runtime together with main's loop, because the
interesting failures need both sides.

### State

| Variables | Code |
|---|---|
| `inQueue`, `outQueue` | `in_head`.. and `out_head`.. of a `FestinaThreadHandle`, as sequences |
| `killRequested`, `alive`, `dispatching`, `drainWaiters` | the fields of the same names, guarded by `in_lock` |
| `pending`, `pendingTail` | `pending_callbacks` and `pending_callbacks_tail`; the list is a set, its order is the order of transaction ids; the tail pointer is kept apart, so that a dangling one loses a callback as it would in C |
| `nextTxn`, `replyTxn` | `g_next_txn_id`; `g_current_reply_txn`, one for each OS thread |
| `pc`, `cur`, `signal` | where a worker stands in `festina_thread_main`, the message it took, and the `pthread_cond_signal` it still owes |
| `mpc`, `stage`, `target`, `mcur`, `done`, `at` | where main stands; which part of its loop runs user code; the handle it kills or drains; the message it handles; the list it detached; its position in `g_registry` |
| `jobs`, `completed` | the async-io pool, as far as marshaled callbacks see it |
| `freed`, `fires`, `asker`, `asked`, `askerKilled`, `askedKilled`, `snapshot` | history, read only by properties |

A payload is a number handed out when it is boxed, so that leaks and double frees
can be seen. A message is a record with its kind, payload, sender and transaction.

### Actions

One action is one critical section, one blocking point or one stretch of user code
up to its next runtime call. User code is any sequence of the calls of its place:
`Post`, `PostOutbound`, `Reply`, `GiveRequest`, `Live`, `Drain`, `Kill`, `Close`,
and its return. `TryDispatchOne` is the part of `festina_thread_try_dispatch_one`
under `in_lock`, `Dispatch` the part after it; `Signal` is the signal sent after the
unlock, so that every step may come between. `KillTest`, `KillSignal`, `Join` and
`Reap` are the four phases of `festina_thread_kill`; `UserReturns` and `KillReturns`
chain them for `festina_thread_kill_all_impl` on the way to `exit()`. `LoopTop`,
`Gather`, `ListDone` and `Deliver` are a round of `festina_run_timer_loop`, in its
order: shutdown flag, nothing outstanding, timers, async-io results, then the
outbound queue of each handle of `g_registry`.

### Runs

All instantiate `MCFestinaThread`; the set `Uses` names the calls the program's code
makes, so that each run can afford larger bounds for the question it asks.

| Run | Instance | Question |
|---|---|---|
| `thread_callbacks` | 2 threads, 3 messages, 2 callbacks, 1 kill | Callbacks between main and two threads, replies through the current and through stashed thread values, a kill anywhere: nothing lost, run twice, run on the wrong OS thread, reordered or leaked |
| `thread_life` | 1 thread that polls (it has an HTTP context), 3 messages, 2 callbacks, 3 life-cycle calls, fair | kill, live, kill: what the next incarnation inherits; `close()`, a signal and an idle loop, the three ways to end the process, from any state of the thread; the loop outlives marshaled callbacks |
| `thread_queues` | 1 thread that sleeps, 3 messages, 3 life-cycle calls, fair | No lost wake-up: `drain()` and `kill()` return, queued messages are taken, outbound ones delivered |

The bounds: two threads are enough for every pair of roles (asker and replier,
killed and survivor, first and last of the registry, sleeping and polling). Three
messages let a reply meet a queue that is not empty and a second reply the first;
two callbacks let a list have a first and a last node, which is what the tail pointer
is about. Three life-cycle calls give kill, live, kill. `MaxMessages`, `MaxTxn` and
`MaxCalls` are the only caps on behaviour. Between them the runs fire every action
and every disjunct.

### Fairness

`Fairness` gives weak fairness to each worker's own steps (the OS schedules every
thread; a handler that never returns is excluded, as is a timer that fires forever),
to pending signals, to main's own steps and to the async-io pool. Calls made by user
code are not fair: the program may never make them. Nothing is assumed about
spurious wake-ups. A user handler that loops forever would make every claim of
liveness fail, and it would in the code.

### Properties

* `PayloadOwnedOnce`: each boxed payload is in exactly one place or released once.
* `CallbackHeldOnce`, `TailNamesLast`: the list of pending callbacks neither loses
  nor duplicates; its tail pointer never dangles.
* `ReplyTxnScoped`: the ambient transaction always belongs to the message being
  handled, so a stashed thread value answers nothing.
* `CallbackOnItsThread`: a callback that touches main's state runs on main.
* `LanesInOrder`: no message overtakes another on its lane, through queue, worker,
  detached list.
* `OnlyMarshaledAfterKill`: what may still run after `kill()`.
* `DrainWaitsForQueued`: what `drain()` waited for is done when it returns.
* `NoOrphanThread`: the process never ends under a running worker.
* `MainReturns`, `QueuesServed`, `MarshaledServed`: liveness. Main comes back from
  `drain()`, `kill()` and the kills at exit; a queued message is taken or discarded; a
  marshaled callback runs unless the program is ended on purpose.

### Where texts and code differ

Read while modelling, harmless or a matter of wording, and without a run:

* `festina_thread_wait_drained`'s comment says that it does not wait for messages posted
  after the call; the predicate is "queue empty and nothing dispatched", so they prolong it.
* The manual says that `kill()` drops callbacks waiting on the killed thread and those it
  was waiting on (`api.md`); one marshaled to main before the kill still runs, and one
  another actor registered stays on its list. `OnlyMarshaledAfterKill` states what holds.
* `festina_thread_reply`'s comment says that a second reply in a handler is released at
  once. The transaction stays set until the handler returns (`Reply`), so it is queued and
  dropped on arrival, which `CallbackHeldOnce` and `PayloadOwnedOnce` show to be harmless.

### Proofs: `FestinaThread_proofs`

`TypeCorrect` proves `Spec => []TypeOK` for every set of threads, every registry,
every vocabulary of calls and every bound, from `ThreadAssumption` alone. `TypeOK`
is a conjunction of named groups of variables; it is inductive as it stands. There is
one lemma for each action, or each group of disjuncts of a large one, and lemmas for
the helpers (`TailTyped`, `BoxedTyped`, `UnlinkTyped`, `RegisterTyped`, ...), which
are cited by name.

The same module proves five of the safety properties, each through an invariant
that is inductive where the property is not:

| Theorem | Property | Why it needs more than itself |
|---|---|---|
| `BusyIsMarked` | `DispatchingWhileBusy`: a worker with a message in hand is marked as dispatching, which `drain()` trusts (a theorem only, no run states it) | the flag is cleared and set at places that depend on where the worker stands: `Working` ties the message in hand to `pc` and the flag, `Living` ties `alive` to `pc` |
| `DrainIsHonest` | `DrainWaitsForQueued` | main returns when the queue is empty and nothing is dispatched; that this leaves no message of the snapshot in a worker's hands is `Working` |
| `NoOrphan` | `NoOrphanThread` | `exit()` kills the handles one by one: `KillAll` says which are dead already, `Joined` that main passed `pthread_join`, `Over` what the ended process looks like |
| `RepliesAreScoped` | `ReplyTxnScoped` | the ambient transaction is set on entry to a handler and cleared on return, separately for main and the workers |
| `TailIsLast` | `TailNamesLast` | `Numbered`: a registered callback carries a transaction below `g_next_txn_id`, so the one linked last is the greatest |

The second module proves five more, about messages, callbacks and payloads on their way:

| Theorem | Property | Why it needs more than itself |
|---|---|---|
| `LanesAreInOrder` | `LanesInOrder` | `Boxes`: payloads are numbered as they are boxed, so what is queued next is younger than all that is queued; `Marked`: jobs of the pool are not messages and take no place on a lane |
| `NoCallbackLost` | `CallbackHeldOnce` | `HeldInv`: a transaction below `g_next_txn_id` that has neither run nor been dropped is on a list or in a job; the copies of a job (pool, detached list, in hand) exclude each other (`Copies`); what main detached is used up before it detaches again (`UsedUp`); no job is ever in a thread's queue for main (`NoJobOut`) |
| `CallbacksStayHome` | `CallbackOnItsThread` | `Addressed`: an entry of a list is marked for main exactly when its message asks main, and only such entries become jobs; the rest main registered itself or the asking worker runs |
| `KilledStaySilent` | `OnlyMarshaledAfterKill` | `Silenced`: no list holds a transaction that a killed thread registered, and what was marshaled before the kill is remembered |
| `NothingFreedTwice` | `PayloadOwnedOnce` | `Balance`: releases and places of a payload add up to one once it is boxed, and to nothing before; each step moves what it takes from one place to one other, which needs that a worker takes a message with empty hands (`Working`), that main detaches with nothing left (`UsedUp`) and delivers with nothing in hand (`MainIdle`), and that main is never the one to answer itself (`FromWorkers`) |

The last one rests on lemmas about counting: what `Append`, `Tail` and the emptying of one
queue do to the number of places a payload takes in all of them (`SlotsTail`,
`QueueSlotsChange`, `HandsChange`, `JobTaken`). Liveness under fairness is out of the proof
system's reach.

### Left out of the module

* Code inside the callback of a worker-to-worker reply may only post. It is compiled
  as main's code but runs on a worker, and its own `.callback` would touch main's
  list without a lock: that is listed as a hazard.
* `close()` called again inside `on exit`, uncaught `throw` (exits at once, without
  killing threads), and signals while main is inside user code.
* Timers are nondeterministic: any round may run timer code, and an idle loop may
  end. Main is assumed to have an `on message` handler for each thread.
* The connection that `giveRequest` carries (section 4); the statement-cache mutex;
  `festina_thread_pool_select` and `isAlive`, which only read.
* The wasm and Windows variants of the same functions.

## 3. `CallbackPools` and `JobPool`

Two background pools have the same shape and nearly the same code: the generic one
(`festina_runtime_async.c`: file loads and marshaled thread callbacks) and that of the
non-blocking HTTP client (`festina_runtime_http.c` 4047-4180). `CallbackPools` models
both, as functions of `Pool == {"io", "http"}`, with the loop that hosts them
(`festina_run_http_loop`). `JobPool` is the abstract statement: jobs are submitted,
completed, and their callbacks run once, in the order of completion.

| Variables | Code |
|---|---|
| `queue`, `finished`, `outstanding`, `started` | the lists, the counter and the flag of each pool |
| `wpc`, `wjob` | where a worker stands in its loop; the job it took |
| `pipeOpen`, `pipe` | the wake pipe of the HTTP pool: created, unread bytes |
| `dpc`, `djob` | where a dispatcher stands in `festina_async_io_run` or `festina_http_send_client_dispatch` |
| `mpc`, `side`, `batch`, `watching`, `bounded` | where main stands in a round of the loop; the pool whose callbacks run; the detached list; what the `poll()` in progress reacts to |
| `threads` | a `thread` of the program is alive (`festina_thread_outstanding`) |
| `used`, `delivered` | history |

A dispatcher is main, from user code (timers, connections, callbacks, messages), or a
thread. `EnsurePool`, `OpenPipe`, `Spawn`, `Enqueue` and `SignalWork` are the steps of a
send between which others may come; `Take`, `Finish` and `WriteWake` those of a worker;
`BuildPollSet`, `PollReturns`, `Detach`, `ReadPipe`, `Deliver` and `UserReturns` a round
of the loop in its order. `OtherEvent` is anything else that ends a `poll()`
(connection, timer, signal); it is not fair, for nothing has to come.

`callback_pools` checks it with two generic jobs, one request, two and one workers, main
and a thread: both dispatchers can race to start the pool, two workers can finish out of
order, and a second job can be queued while the callback of the first runs. Fairness is
that of the OS scheduler for dispatchers, workers and main, and jobs end.

* `IoIsJobPool`, `HttpIsJobPool`: each pool implements `JobPool`, under the refinement
  mapping `Pending` (queue and workers), `Ready` (main's batch, then the done list) and
  `Delivered`.
* `EndsIdle`: the loop does not return under a job.
* `CallbacksRun`: a job that was handed over has its callback run; in the HTTP pool, if the
  program has a live thread. Without that condition it is `HttpDelivered`, which fails.

Finding: without a live thread, a timer or another connection, the callback of a request
may never run (`http_callback_lost`). `festina_async_drain_completed` detaches the done
list, then empties the pipe; a worker that finishes in between loses its wake byte, and
the loop sleeps in `poll(-1)` while the job stays on the done list. With a live thread
the loop polls every 20 ms, which is why `CallbacksRun` holds.

`CallbackPools_proofs` proves for every number of jobs, workers and dispatchers that each
pool implements `JobPool` (`IoImplementsJobPool`, `HttpImplementsJobPool`), `TypeOK`
(`PoolsTyped`) and `EndsIdle` (`LoopEndsIdle`). The invariant `IInv` says that each pool
holds only its own jobs (`Sorted`), none twice (`Distinct`), that a job on its way to a
pool is nowhere else (`Fresh`, with `Known`), and that main changes sides with no batch
in hand (`Between`). `Kinds` reduces the steps to the eight that move a job, an effect
lemma for each says what the pool's user sees, and the refinement follows. `Counted`
(the counter is the length of the lists, plus the busy workers, plus the callback in
progress) gives `TypeOK`, whose counters are natural numbers, and, with `OnDuty` and
`Over`, `EndsIdle`. The assumption `PoolAssumption` names the constants' roles and that
there are finitely many workers. Delivery itself is liveness, and model-checked.

Left out: a failed `malloc`, `pipe` or `pthread_create` (the program ends); the
unlocked read of `g_pool_started` on the drain's fast path is one atomic read; the other
two loops (`festina_run_timer_loop`, `festina_run_event_loop`) drain the same pools and
never sleep longer than 20 ms while a job is outstanding; threads are not revived, and
the fullness of the pipe (a failed `write` leaves it readable). On Windows there is no
HTTP pool.

## 4. `HttpConnections`

The connections of the HTTP server. Main and every thread with an `on request` handler
own a table of their own (`__thread` in C); a connection is accepted into one, and
`giveRequest` moves it to another through the thread's message queue. What makes it hard
is that a pass over the table runs user code in the middle: a request handler may close
any socket, give its connection away, kill the thread that has another one; the close
handler runs inside the teardown of the connection it is told about. The pass goes on
with pointers it held before.

### State

| Variables | Code |
|---|---|
| `slots`, `free` | `g_conns` up to `g_conn_count`; the free list, last freed first reused |
| `index`, `used` | the open-addressing table from `conn_id` to slot, with its tombstones; `g_conn_index_used` |
| `nextId` | `g_next_conn_id`, the only state the contexts share |
| `pc`, `calls`, `ready` | where a context's loop stands; its C stack, from the parsing loop to the handler that runs; what `poll()` reported and is not served yet |
| `inbox`, `killing` | given requests in a thread's queue; `kill_requested` |
| `lastDetached` | `g_last_detached_conn_id` of main, which tells the end of a handler whether its connection was closed or given away |
| `wire`, `eof`, `phase`, `nextReq`, `nextFrame` | the kernel's receive buffer and the clients |
| the rest | history, read only by properties and by the clients |

A byte stream is a sequence of items: a request's head, its rest, a message, a frame that
ends the socket. A head says what the parser finds out: keep open, close, handshake,
malformed. A pointer to a connection that lives on the C stack across a call of user code
is kept as a slot, and the `conn_id` in it is read when the code reads it: after a
hand-off it is the zeroed one.

### Actions

`Poll`, `Serve`, `Reap` are a pass (`festina_run_http_loop` and
`festina_thread_http_service_pass` do the same); `ReadingTurn` and `FramingTurn` are one
turn of the two parsing loops of `festina_conn_readable`; `FinishRequest` is
`festina_finish_request_dispatch`. `Teardown` either calls the close handler, and
`CloseReturns` does the rest of it later, or does all at once. `Install` and `Vacate` are
what accepting, attaching, detaching and tearing down share, with the index's growth and
tombstones. Handlers call `Answer`, `Upgrade`, `GiveRequest`, `SocketClose`, `Kill`,
`Live`, in any order and number. `Deliver`, `Message`, `KillSeen`, `TeardownNext` and
`FreeTables` are a thread's loop and its end. The clients are the environment: they
pipeline, send half requests, and hang up at any time.

### Runs and bounds

| Run | Instance | Question |
|---|---|---|
| `http_connections` | main listens, 1 thread, 2 connections, 2 requests (keep, upgrade, malformed) | the tables, who owns a connection, the order of answers, who releases a request's value |
| `http_liveness` | the same, 1 connection, 2 requests (also with `Connection: close`), 2 frames, fair | frames and the close handler; hang-ups and hand-offs are served |
| `answer_cut` | 1 connection, 2 requests, a client that reads slowly | Finding 1 |
| `close_in_close` | 1 connection, a close handler that closes its socket | Finding 2 |

All `conn_id`s hash to one entry of an index that starts with two: two connections give a
collision, a probe past a tombstone, and a growth that drops tombstones. Two connections
are a slot reused by another `conn_id` and a handler that acts on a connection other than
its own. Two requests are pipelining: the second is in the buffer while the first is
answered, closed, upgraded or given away. One thread is enough, for threads do not hand
connections to each other. `MaxConn`, `MaxReq`, `MaxFrame` are the only caps.

### Fairness

Each context is an OS thread: weak fairness of its own steps. User code returns, however
often it kills and revives a thread in between (strong fairness of `HandlerReturns`). A
thread that is sent other messages without end still comes to the given requests in its
queue, which is first-in first-out, and to its connections (strong fairness of
`Poll \/ Deliver`): a program that floods a thread faster than it handles messages would
starve its connections, as the loop takes every message before it polls. What handlers
call and what clients send is not fair.

### Properties

* `TablesExact`: a `conn_id` finds its live connection, in its slot, and nothing else;
  a probe always ends; the free list holds every dead slot, once.
* `OneOwner`: a connection is in one table, in one queue, lost with a queue, or closed
  once, across accept, hand-off, kill and restart.
* `SocketCloseOnce`: one call of `on socketClose` for each WebSocket, before its fd goes.
* `AnswersInOrder`: one answer to each request, in their order, whoever writes it.
* `ValueReleasedOnce`: one context releases the value of a request; both hold it for a
  while after `giveRequest`.
* `RequestsServed`: no whole request waits in a buffer while its context polls.
* `HangupNoticed`, `GivenHandled`: liveness.

### Findings

1. `answer_cut` (`CutIsLast`): server sockets are non-blocking, and `festina_send_all`
   gives up when a send would block, with part of the answer sent. The callers that answer
   a request ignore its result: the connection counts as answered and is kept, and the
   next answer follows the cut one, whose missing bytes the client takes it for.
2. `close_in_close`: the close handler runs while its connection is alive and can be
   found. `s.close()` in it enters the teardown again: the handler is called twice, and
   the fd, the buffers and the slot are given up twice. The manual says it fires once.
   The other runs assume that a close handler does not close its own socket.

Read while modelling, without a run:

* `festina_thread_deliver_given_request` handles the request it was given and returns. A
  second, pipelined one that is whole in the buffer is not looked at until the client
  sends more. `RequestsServed` excepts connections that were given away.
* A read pass that meets the end of file, or fills the buffer, ends the connection before
  the requests or frames that the same pass had read are looked at.
* A `throw` out of an `on socketClose` handler that `s.close()` called inside a `try`
  would jump across the rest of the teardown; `api.md` says that such handlers fire from
  the event loop, where no `try` is live.

### Left out

TLS; the drain of a graceful shutdown; the 8 MB limits; `openPort` and `closePort`
while a pass is in progress, which would shift the indices it uses; fragmented messages
and control frames (`WebSocketFrames`); an http value used after its request was answered (it names the
connection, and would answer the next request); `giveRequest` of a request other than the
handler's own. A `send` fails in `answer_cut` only. A program that uses this has an `on upgrade` and an
`on socketClose` handler. Idle connections are reaped one a pass, at any time.

### Proofs: `HttpConnections_proofs`, `HttpOrder_proofs`, `HttpValues_proofs`

`HttpConnections_proofs` begins with the index alone, for every hash function and capacity: a lookup
finds exactly the pairs the index holds (`IndexGetExact`), an insertion adds one, growing
first where it must (`IndexPutExact`), and a removal takes one out (`IndexRemoveExact`).
What makes it inductive is `Sound` (no empty entry on the way from an id's hash to where it
is, and no id twice) and `Loaded` (the count of entries ever filled, tombstones included,
stays below the capacity, so that a probe meets an empty one). The growth is a recursive
function over the old entries; that it is defined at all is the first step of its proof.

It goes on to prove `TablesExact`, `OneOwner`, `SocketCloseOnce` and
`RequestsServed` for every number of contexts, connections, requests and frames, from
`ConnAssumption` and one hypothesis, `"closeAgain" \notin Uses`: `close_in_close` shows why.
The invariant `IInv` has the types of what handlers read and four parts:

* `Contexts`: in each context the index and the free list fit the slots (`Table`), and the
  frames' pointers are good (`Stack`): a parsing loop is only ever the outermost call, a
  close handler's slot is alive, upgraded and no other frame's, and a connection that has
  switched to WebSocket without its `on upgrade` having run has its request's handler on
  the stack. The last is why a connection that is torn down outside a handler is either
  plain HTTP or has its close handler called.
* `Owners`: every accepted connection has one place (`OwnedOnce`).
* `Queued`: what is in a queue has not been upgraded.
* `Closed`: a close handler has run once for the connections it is running for and for
  the closed ones that had switched.

`RequestsServed` rests on a second invariant, `Looking`, inductive on top of `IInv`: a
whole request in the buffer of a live HTTP connection is of one that is being given away,
or its parsing loop is on the stack, and the handler above that loop has the same
connection. The loop finds its connection again by the id its slot had; it is `Looking`
that says a slot which is no longer alive has no id or a closed one, so that the lookup
cannot find another connection, and that the slot of a frame loop speaks WebSocket, so
that no request is left to it.

Each action has a lemma. Most of them rest on what a teardown, an accept or a change to
one slot keeps (`TeardownKeeps`, `AcceptKeeps`, `UpdateKeeps`, `QuietKeeps`).

`HttpOrder_proofs` proves `AnswersInOrder` from a third invariant, `Order`, on top of `IInv`.
Nothing in the code numbers a request: that an answer is to the right one is a matter of
what is left in the buffer. `Fits` says it: the bytes that a connection has in its buffer
and in the kernel are the requests asked of it beyond those it is finished with, in order,
a head and a rest each (`Finished` counts the answers, less the one that a handler has sent
and not returned from). `Ordered` says it of every live connection of a context and
`Parcelled` of those in a queue; that `giveRequest` moves buffer and answers together is why
the order survives a hand-off. `Busy` says that of all the calls on a context's stack one at
most is a request's handler, and that the request it serves is the first in its
connection's buffer: without that an answer could be read off the wrong head.

`HttpValues_proofs` proves `ValueReleasedOnce` from a fourth invariant, `Values`, on top of
`Order`. `Places` gives every value one place, as `Owners` does for connections: the stack
of the context whose handler will release it, a queue, what a kill threw away, or released.
Three parts keep it so. `Sent` and `Ahead`: all requests differ, and of those a connection is
not finished with only the first may have been dispatched, and only while its handler runs
or it waits in a queue; so what a parsing loop dispatches has no value yet. `Gave`: the
connection that main gave away last (`lastDetached`) is the one whose handler is still on
main's stack, and it is not in main's table any more, so that the handler which returns next
leaves alone exactly the value it no longer has.

The types of all variables (`HttpTyped`, property `TypeOK`) come last, for their bounds need
the rest. `Fitted` bounds a context's slots by `MaxConn`: a table grows only when its free list
is empty, when every slot has a live connection, and these differ, so that the new one makes
at most `MaxConn` (`FullTable`, by the pigeonhole principle); a tombstone and a call in progress
keep the slot they had. `Tallies` bounds what is counted: that the place of a cut answer is at
most `MaxReq` takes `Order` and `Sent`, for answers are to requests sent, and these differ.
`Families` says that nothing but the contexts' entries is ever written.

## 5. `AudioChannels`

A fixed table of channels; a clip that plays has a channel, a device handle and an OS
thread of its own that streams it. `play()` claims a channel below the limit, else a
released one, else it takes the oldest; `play(n)` and `playLoop(n)` name one, which
`playLoop(n)` reserves and `play(n)` gives back;
`stop`, `stopAudioPlayer` and the release of a clip halt what they name.
What makes it hard is `festina_audio_reap_locked`: it forgets that a thread is joinable,
drops the table's lock, joins, and takes the lock again, while playback threads end, fail
or loop on by themselves.

| Variables | Code |
|---|---|
| `lock` | who holds `g_audio_lock`: a caller from the first line of a call to its last, except across a join |
| `limit`, `nextSeq` | `g_max_audio_players`, `g_next_seq` |
| `clip`, `thread`, `pcm`, `active`, `joinable`, `stop`, `looping`, `locked` | the fields of a `FestinaAudioChannel`, one function each |
| `tpc`, `on`, `tclip`, `frame`, `open` | a playback thread: where it is, its channel, its copy of the clip, its position; the device handles open |
| `pc`, `call`, `at`, `halting`, `release`, `joins` | a caller: where it is in a call, what it visits, halts and joins |
| `freed`, `joined`, `ended` | history, and the end of the program by `fail()` |

A step of a caller is the code up to the next channel it visits or the next place where
the lock is free; a critical section of a playback thread is one step. `Halt`, `Join`,
`Halted` are `festina_audio_halt_locked`, shared by every call, which comes back to the
place `call.back` names. The device takes or refuses what it is given.

`audio_channels`: main and two clips of one chunk and of none, two channels, limits below
and above the table, channel numbers in and out of range, three playbacks: the third meets
a table that is full, with one channel to steal and one that is reserved. Fairness is the
scheduler's: of a caller inside a call, and of each playback thread.

* `StreamedClipAlive`: no thread streams a clip whose samples are freed.
* `OneStreamPerChannel`: an active channel has one thread, the last it started, and one
  device; no other device is open.
* `NoThreadLost`: every thread is joined, being joined, or can still be.
* `ReservedKept`: a reserved channel is cut off only by a call that names it or the clip it
  was given, or by `stopAudioPlayer()`, which names them all.
* `StopReturnsIdle`: when `stop`, a release, `stopAudioPlayer(n)` or `stopAudioPlayer()`
  returns, nothing it names streams, a thread that has yet to run for the first time included.
* `CallReturns`: liveness of every call, though it joins threads that loop.

Finding (`audio_clip_freed`): with a second calling thread, which the compiler allows, a
halt that meets a channel another caller is joining sees nothing to join and returns at
once; the clip is freed while it is streamed. The comment on `g_max_audio_players` assumes
one calling thread. Read without a run: `play()` may return -1 although a channel above the
limit plays unreserved, which the manual's account of stealing does not exclude clearly.

Left out: decoding, cloned clips, the device backends, and the queries that only read.

### Proofs: `AudioChannels_proofs`

The six safety properties are theorems for every size of the table, every set of clips and
every number of playbacks, from the assumptions of `AudioChannels` and one hypothesis,
`Caller = {Main}`: one calling thread, as the comment on `g_max_audio_players` has it.
Without it they are false (`audio_clip_freed`).

The argument is about the one place where main drops the lock, the join. `IInv` adds to
`TypeOK`: `Places` (what each place in a call says of its locals), `Streams` (an active
channel and its thread name each other, so nothing else runs on it), `Joinable` (a channel
with a running thread can be joined, unless main joins it now, and a channel about to get a
new thread has none left), `NoThreadLost`, `Clips` (no channel keeps a clip
that was freed), `Walked` (no channel
behind the walk streams what the call names) and `Reserved` (a channel that is chosen for
stealing is not reserved and the lock was held since). `Named` is proved on top of it: an
automatic play walks without naming a channel, a call that names one works on it alone, a stop
or a release halts only channels with its clip, and `stopAudioPlayer(n)` walks on only from
an idle channel; main's `ReservedKept` and `StopReturnsIdle` rest on it. Between two steps
of main, playback
threads only end, and each ends by clearing `active` of its own channel. That a full table
has an oldest channel is the well-foundedness of `<` on Nat. `CallReturns` is liveness and
stays with TLC.

## 6. The sequential parts

`MCRuntimeParts` puts six components into one run. They share no variable in the code and
none here: `part` is chosen in the initial state and says which of them moves, so that the
state space is the sum of theirs. The run (`runtime_parts`) asks of each whether every
sequence of its operations leaves what a simple mathematical object says. Deadlock is not
checked: each of these programs may stop at its bound.

| Module | Detailed | Compared with | Bounds |
|---|---|---|---|
| `FestinaTimers` | table walked by index, compacted and doubled by callbacks in the middle of the walk | `PendingTimers`: a set of timers; refinement `TimersKept` | 3 timers, delays 0 and 1, 2 ticks, first capacity 1 |
| `WebSocketFrames` | `festina_ws_process_frame`: fragments, control frames, limits, pings | `FramesExact`: what RFC 6455 says a stream of frames means | every stream of 4 frames, sizes 0, 1, 3 with limit 2, 2 frames a read |
| `CycleCollector` | counts, colours, the four traversals with an explicit stack of calls | `HeapExact`: reachability, and the number of references | 3 nodes, 2 fields; 2 variables, or a global's storage and 1 variable, which may hold that storage |
| `MapTable` | probing, tombstones, growth, clone | `MapExact`: a function from keys to values | 5 keys that collide, 2 values, 4 to 16 buckets |
| `CleanupStack` | catch frames and the cleanup stack, as the compiler emits their calls | `CleanupExact`: the lexical scopes | 4 values, 4 scopes open at once |
| `KeepAlivePool` | take, check, connect, write, retry, read, evict | `PoolSound`: one holder for each socket, one run of each arrival of a request, the own answer unless the upstream spoke out of turn | 1 slot, 2 origins, 2 sockets, 3 requests |

How each corresponds to the code, and why the bounds are enough:

* **Timers.** `StartWalk`, `WalkStep` and `CallbackReturns` are
  `festina_fire_expired_timers`; between the last two the callback sets and clears timers
  (`AddTimer`, `ClearTimer`). Three timers are one that fires, one before it that
  compaction drops (the walk's index then points one too far) and one after it.
  `TimersKept` says that no timer is lost, doubled, early or fired after it was cleared,
  and that the table grows only when every entry is alive. It does not say that a due timer
  fires in this walk: one shifted below the index fires in the next, as in the code.
* **Frames.** Five kinds of error and the reassembly of fragments; the client is the
  environment and sends anything. Four frames are a fragment, a control frame between, a
  continuation, and one more. `Fragments`, `Payload`, `Messages` and `Verdict` say what a
  stream means without any state: which frames carry the message that ends at one, what they
  carry together, and why a frame after legal ones ends the connection.
* **Counts and cycles.** A step is one call of a traversal up to its next call, so the
  order in which generated code visits fields is the code's. Three nodes with two fields
  are every shape of two linked cycles, self-loops and diamonds. A global's storage is a node
  whose header marks it as immortal (`immortal`); `FewVariables` gives a program that has one
  a single variable beside it.

  Two things here the documents deny, and both are findings. `festina_cycle_collect_white` frees
  a node after its fields, so with a second edge to one garbage node it reads the header of a
  block it has freed. What is there is the allocator's: an untagged struct's header is the
  first word of its block, where glibc keeps a pointer, which does not look white; a tagged
  one's is the second word, where it keeps a random key, which may. `FreedLooksWhite` is that
  read; it sets `twice`, the program goes no further, and `HeapExact` speaks of what comes
  before. And when a global of the type moves on from its static storage, releasing an immortal
  header does nothing: what the fields of the storage lead to is kept for ever. `Rooted` counts
  the storage as a root, so `HeapExact` says that this is all that is kept.
* **Map.** `Crowded` counts tombstones: without them a table could fill up with keys and
  tombstones, and a probe for an absent key would not end.
* **try/throw.** The program is any nest of scopes left by falling out, `break`, `return`
  or `throw`, with values bound, passed, returned or dropped on the way; `BeginParse` and
  `EndParse` are the JSON builders, which may throw with half a value built.
  `lost` has the values a throw leaves without an owner: an argument that was built before
  its call registers it, when a later argument throws (`f([1,2,3], risky(-1))`). `api.md`
  says that a throw leaks nothing on its way out, and names argument temporaries among what it
  releases; that is a finding. `CleanupExact` counts everything else.
* **Client pool.** The upstream is external: it answers at most once per arrival, closes and
  speaks out of turn at any moment (`Babble`), between the pool's check and the request too,
  and runs requests whose client has gone. Head and body are two sends, so when a write fails
  a part of the request may have arrived, which the upstream may run (`WriteFails`). A pooled
  connection that dies after it was taken is tried again only when the write fails, so what
  was sent whole runs once and some requests fail that a retry would have saved, which
  `decisions.md` accepts. `RunOnce` counts each arrival apart: only the part that was there
  before a retry (`"retried"`) may run besides it. `OwnAnswer` covers whatever a connection
  brought while it was kept; what comes unasked after the check is taken for the answer, and
  `odd` marks the sockets where that may be so, the later answers on them included. One slot
  and two sockets suffice for eviction, reuse of a socket number, and a dead connection
  found; three requests, for a second one after an answer that came late.

The three disagreements with comments and manual above are listed as findings of this run.
They have no run that fails: each property grants exactly the behaviour in question, through
`twice`, `immortal` and `lost`, and is violated without that (`~twice`, the variables as the
only roots, and `lost = {}`).

Left out: arrays; maps and arrays inside cycles, fields whose type takes no part in one,
manually managed `T?` values; a cycle through an enum's fields, which the compiler does not
treat as one; frames the program sends; TLS in the client, which never pools.

### Proofs: `RuntimeParts_proofs`

`TimersImplementPromise` is the refinement `TimersKept` for every set of delays, every first
capacity, and any number of timers and ticks; as hypotheses it has that delays are not
negative and that the first capacity is not 0. The invariant it needs is that every entry has
a number of its own (`Numbered`), that the entries fit the capacity, and that the walk's
reading of the clock is not ahead of the clock. `CompactionKeeps` says that compaction keeps
the active entries, each once; with `HeldCount`, that a table full of active entries has as
many timers, it is why the table grows only when it must. Nothing is assumed of the walk's
index: a step of the walk is right wherever the index points.

`MapIsExact` (`MapExact`) holds for all sets of keys and values, every hash of the keys into
the naturals, and a first table of at least 2 buckets (`MapAssumption`). The invariant
`MapInv` says that the pairs in the table are the graph of the abstract function, and that
the table is `Good`: `Table` (types and sizes), `Sound` (no key is in it twice, and none lies
beyond a never-used bucket of its own probe) and `Counted` (the counters are those of the
table, and a never-used bucket is left, so that every probe ends). `Sound` is why a deletion
must leave a tombstone. `FindFinds` and `FindMisses` say what a probe answers in such a
table; `GrowSound`, `SetSound`, `DeleteSound` and `CloneSound` keep it. Growth and clone are
recursive functions over the buckets, and their lemmas inductions over the buckets inserted
so far.

`CleanupIsExact` (`CleanupExact`) holds for every number of values (`CleanupAssumption`) and
for scopes nested to any depth. `CleanupExact` says nothing of how scopes may be nested, so
it is not inductive; `UnwindInv` adds what the compiler keeps. `Nested`: a function's body
is opened by a call, only a call or a JSON builder leaves the expression around it
unfinished, and nothing is opened inside a builder. `Framed`: one catch frame for each open
try body, in their order, with the height of the stack at its opening. `Conserved`: each
value made is owned by one scope, or in one unfinished expression, or lost, or was released
once. What a jump does follows from `FramedCut` (the frames it pops are as many as the try
bodies it leaves, by a bijection between the two), `Leaving` (what it cuts from the stack is
what the scopes it leaves owned) and `UnboundOfBody` (within a call only the innermost scope
has an unfinished expression); `LeaveInv` puts these together for `EndBlock`, `Break` and
`Return`. `Throw` goes to the last frame, so `LastFrame` says where that is. `Owned` and the
count of a value are recursive functions over the scopes: `PartsConcat` and `CountConcat`,
by induction over prefixes, say what they give for a sequence that is cut or extended.

`FramesIsExact` (`FramesExact`) holds for every limit, every set of payload sizes, any number
of frames and any portions in which they arrive (`FramesAssumption` says only that these are
naturals). `FramesExact` compares the histories with the whole stream and says nothing of the
fields of the unfinished message, so it is not inductive; `FramesInv` adds that, while the
connection is alive, they hold the `Standing` of the frames taken: whether any fragments
stand, the kind the first of them named, and their payloads put together. What a stream means
is a definition over all of it, so each part has a lemma about one frame more:
`FragmentsMore` (the fragments that stand, and those of the new frame), `CarriedMore` (their
payload and the frame they begin with), `VerdictsMore`, `MessagesMore` and `PongsMore` (what
was said of the earlier frames stays, and what the new one adds). `TakenStep` and
`RefusedStep` are the two outcomes of a frame; `ControlStep`, `FirstFrameStep`,
`ContinuationStep` and `ReservedStep` show that the code takes the one the verdict says.

`ClientTyped` and `PoolIsSound` hold for every pool size, every finite or infinite set of
sockets and origins, and every number of requests, from `KeepAliveAssumption`. `PoolSound`
is not inductive: that a request gets its own answer depends on what is in the socket it
reads. `IInv` adds to `TypeOK`, `HeldOnce`, `RightOrigin` and `OwnAnswer`: `Stages` (which
phase holds a socket), `Quiet` (a closed socket has no input and owes nothing), `Asked` and
`Heard` (on a socket where the upstream did not speak out of turn, a request or an answer
belongs to the call that uses it), `Unwritten` (what the request under way and those after it
may still cause, `Coming`, the upstream has never heard of) and `OnePlace` (an arrival is on one
socket, behind a closed one, or run, once). There is one lemma for each action; `DropShape`,
`DropPlaces` and `CloseInUse` say what closing a set of sockets does, to the sockets and to
what had arrived on them.

### Proofs: `CycleCollector_proofs`

`HeapIsExact` (`HeapExact`) holds for any finite sets of nodes and variables and any number
of fields (`HeapAssumption`), and any sequence of assignments, until a freed header is taken
for a white one (`twice`); the roots are what the variables hold and the static storages
(`Rooted`). `HeapExact` says nothing of the middle of a trial but that what is reachable is
there; the invariant that is inductive,
`HeapInv`, was first checked by TLC on an instance of its own (3 nodes, 1 variable, 2 fields,
a global or none) and has these parts.

| Part | What it says |
|---|---|
| `StackInv` | the stack of calls as what each traversal has begun: no two calls are alike, a traversal is on a node once at a time, black runs only inside scan, scan and white wait while gray runs, white while scan does, and all three are about the same node |
| `HeapTyped` | types; what does not exist is black and points to nothing |
| `Safe` | variables, every reference that is left (`Edges`) and the release about to begin point to live nodes: not given up (`Doomed`), not being released |
| `Visited` | what colour a node has that a traversal is on |
| `Counts` | a count is the number of references it tells of: variables, the reference of a release about to begin, fields of black nodes but those black has still to restore (`Open`), fields of gray nodes that gray has still to take down |
| `RestPhase`, `GrayPhase`, `ScanPhase`, `WhitePhase` | what each pass reaches |

The last four are the heart of it. A traversal is a search in a graph, and what it must do is
about paths: what gray has coloured is reached from the trial's node; all that is gray will
still be scanned; all that is white will still be freed, or be restored from a node that keeps
its count; what is black is held by something the program has. None of this is said with
paths. A set of nodes that has the roots of a search and is closed under the fields it
follows has every node in question: "reached" is a statement for all such sets, a step
gives for each set of the new state one of the old, and no induction over paths or over the
nested calls is needed. `Reachable` in `HeapExact` is defined alike, as the least set
that has the roots and is closed. That scan keeps what must be kept takes `Counts` in the
middle of the trial: a count that gray did not bring to zero is a reference from outside what
it took down (`CountMeans`). That scan may give up a node black takes back
later is why `festina_cycle_needs_black` asks for anything not black, not only for gray.

There is one lemma for each action, or for each of its outcomes (`BeginScanRestores`,
`BeginScanGivesUp`, `ReleaseLast`, `ReleaseSuspects`); they rest on lemmas about the stack
(`BeginMove`, `FieldMove`, `LeaveMove`: what a step does to what each traversal is on, has to
visit and has behind it) and about counting references (`IntoLess`, `IntoRetarget`).

## 7. What proofs and model checking leave to each other

Proved for every value of the constants: types and ten safety properties of `FestinaThread`;
refinement, types and `EndsIdle` of `CallbackPools`; types and six safety properties of
`HttpConnections`; types and soundness of `KeepAlivePool`; types and five safety properties
of `AudioChannels`; the refinement of `FestinaTimers`; `MapExact` of `MapTable`;
`CleanupExact` of `CleanupStack`; `FramesExact` of `WebSocketFrames`; `HeapExact` of
`CycleCollector`. These are all the invariants that a passing run checks.

Only model-checked: every liveness property (fairness and ENABLED are out of the prover's
reach).

## 8. Not modelled

* Startup: each thread is spawned before the next is registered, so an `on load` handler
  can post to a thread that is not there yet; `FestinaThread` starts after the prologue.
* The body of a worker-to-worker reply's callback (section 2).
* An http value used after its request was answered (section 4), and a bound on the size of
  the connection index, which nothing promises.
* sqlite's statement cache and schema sync: most of it is sqlite.
* json, url, regex, text, files: sequential functions without state between calls.
* Graphics, windows, TLS: I/O. Compiler, command line, bootstrap compiler: translation, as
  far as it does not decide which runtime calls are made. sqlite for wasm: third party, and
  by far the largest source file.

## 9. Plan

| Next | Why |
|---|---|
| thread startup; code inside worker-side callbacks | the two hazards of the thread runtime that no property covers |
| stale http values | needs handlers that keep the value of an earlier request |
