---------------------------- MODULE CallbackPools ----------------------------
(***************************************************************************)
(* The two background pools of the runtime and the loop that runs their    *)
(* callbacks.  "io" is the generic pool of runtime/festina_runtime_async.c *)
(* (file loads, marshaled thread callbacks), "http" the pool of the        *)
(* non-blocking HTTP client in runtime/festina_runtime_http.c; main is in  *)
(* festina_run_http_loop, which sleeps in poll().  The http pool wakes the *)
(* loop through a pipe; for the io pool the loop polls every 20 ms.        *)
(*                                                                         *)
(* Both pools are started by their first job.  A dispatcher is main, when  *)
(* it runs user code, or a thread of the program (io only: the http form   *)
(* does not compile inside a thread).                                      *)
(***************************************************************************)
EXTENDS Integers, Sequences, FiniteSets

CONSTANTS
  IoJob, HttpJob,  \* the jobs the program ever hands to either pool
  IoWorker,        \* the workers of the generic pool (FESTINA_ASYNC_IO_WORKERS)
  HttpWorker,      \* the workers of the http pool (FESTINA_HTTP_ASYNC_WORKERS)
  NoJob,           \* no job
  Main,            \* main's OS thread
  Peer             \* the program's threads that hand jobs to the io pool

ASSUME PoolAssumption ==
  /\ IoJob \cap HttpJob = {}
  /\ NoJob \notin IoJob \cup HttpJob
  /\ Main \notin Peer
  /\ IsFiniteSet(IoWorker \cup HttpWorker)

Pool       == {"io", "http"}
Job        == IoJob \cup HttpJob
JobsOf(p)  == IF p = "io" THEN IoJob ELSE HttpJob
PoolOf(j)  == IF j \in IoJob THEN "io" ELSE "http"
WorkersOf(p) == IF p = "io" THEN IoWorker ELSE HttpWorker
Worker     == IoWorker \cup HttpWorker
Dispatcher == {Main} \cup Peer

VARIABLES
  queue, finished,   \* g_queue_head.. and g_done_head.. of each pool
  outstanding,       \* g_outstanding, g_async_outstanding
  started,           \* g_pool_started, g_async_pool_started
  wpc, wjob,         \* where each worker is; the job it took
  pipeOpen, pipe,    \* g_async_wake_fds: created yet; unread bytes
  dpc, djob,         \* where each dispatcher is inside a send; its job
  mpc, side,         \* where main is; the pool whose callbacks it runs
  batch,             \* the finished jobs main detached
  watching, bounded, \* the poll in progress watches the pipe; has a timeout
  threads,           \* festina_thread_outstanding() > 0
  used, delivered    \* history: jobs handed over; jobs whose callback ran

pools      == <<queue, finished, outstanding, started>>
workers    == <<wpc, wjob>>
wake       == <<pipeOpen, pipe>>
dispatcher == <<dpc, djob>>
loop       == <<mpc, side, batch, watching, bounded>>
vars       == <<pools, workers, wake, dispatcher, loop, threads, used, delivered>>

WorkerPc == {"unborn", "test", "wait", "work", "write"}
DispPc   == {"idle", "ensure", "pipe", "spawn", "enqueue", "signal"}
UserPc   == {"top", "timers", "callback", "inbox"}
MainPc   == UserPc \cup {"check", "poll", "drain", "read", "deliver", "ended"}

-----------------------------------------------------------------------------
(* Handing a job over: festina_async_io_run and                             *)
(* festina_http_send_client_dispatch.                                       *)

Runs(a) ==
  /\ dpc[a] = "idle"
  /\ IF a = Main THEN mpc \in UserPc ELSE threads

Send(a, j) ==
  /\ Runs(a)
  /\ j \in Job \ used
  /\ a = Main \/ j \in IoJob
  /\ used' = used \cup {j}
  /\ dpc' = [dpc EXCEPT ![a] = "ensure"]
  /\ djob' = [djob EXCEPT ![a] = j]
  /\ UNCHANGED <<pools, workers, wake, loop, threads, delivered>>

\* The pool of the job that dispatcher a hands over.
P(a) == PoolOf(djob[a])

\* The test-and-set of the started flag, under the pool's lock.
EnsurePool(a) ==
  /\ dpc[a] = "ensure"
  /\ started' = [started EXCEPT ![P(a)] = TRUE]
  /\ dpc' = [dpc EXCEPT ![a] =
               IF started[P(a)] THEN "enqueue" ELSE IF P(a) = "http" THEN "pipe" ELSE "spawn"]
  /\ UNCHANGED <<queue, finished, outstanding, workers, wake, djob, loop, threads, used, delivered>>

\* The flag is up before the pipe and the workers exist.
OpenPipe(a) ==
  /\ dpc[a] = "pipe"
  /\ pipeOpen' = TRUE
  /\ dpc' = [dpc EXCEPT ![a] = "spawn"]
  /\ UNCHANGED <<pools, workers, pipe, djob, loop, threads, used, delivered>>

Spawn(a) ==
  /\ dpc[a] = "spawn"
  /\ \/ \E w \in WorkersOf(P(a)) :
          /\ wpc[P(a)][w] = "unborn"
          /\ wpc' = [wpc EXCEPT ![P(a)][w] = "test"]
          /\ UNCHANGED dpc
     \/ /\ \A w \in WorkersOf(P(a)) : wpc[P(a)][w] # "unborn"
        /\ dpc' = [dpc EXCEPT ![a] = "enqueue"]
        /\ UNCHANGED wpc
  /\ UNCHANGED <<pools, wjob, wake, djob, loop, threads, used, delivered>>

Enqueue(a) ==
  /\ dpc[a] = "enqueue"
  /\ outstanding' = [outstanding EXCEPT ![P(a)] = @ + 1]
  /\ queue' = [queue EXCEPT ![P(a)] = Append(@, djob[a])]
  /\ dpc' = [dpc EXCEPT ![a] = "signal"]
  /\ UNCHANGED <<finished, started, workers, wake, djob, loop, threads, used, delivered>>

\* pthread_cond_signal wakes one of the waiting workers, if there is one.
Wakes_None(p, w) == FALSE
Wakes(p, w) == wpc[p][w] = "wait"

SignalWork(a) ==
  /\ dpc[a] = "signal"
  /\ dpc' = [dpc EXCEPT ![a] = "idle"]
  /\ djob' = [djob EXCEPT ![a] = NoJob]
  /\ IF \E w \in Worker : Wakes(P(a), w)
     THEN \E w \in Worker : Wakes(P(a), w) /\ wpc' = [wpc EXCEPT ![P(a)][w] = "test"]
     ELSE UNCHANGED wpc
  /\ UNCHANGED <<pools, wjob, wake, loop, threads, used, delivered>>

-----------------------------------------------------------------------------
(* The workers: festina_async_io_worker and festina_async_worker.           *)

\* Under the lock: sleep on an empty queue, or take the oldest job.
Take(p, w) ==
  /\ wpc[p][w] = "test"
  /\ \/ /\ queue[p] = << >>
        /\ wpc' = [wpc EXCEPT ![p][w] = "wait"]
        /\ UNCHANGED <<queue, wjob>>
     \/ /\ queue[p] # << >>
        /\ wpc' = [wpc EXCEPT ![p][w] = "work"]
        /\ wjob' = [wjob EXCEPT ![p][w] = Head(queue[p])]
        /\ queue' = [queue EXCEPT ![p] = Tail(@)]
  /\ UNCHANGED <<finished, outstanding, started, wake, dispatcher, loop, threads, used, delivered>>

SpuriousWakeup(p, w) ==
  /\ wpc[p][w] = "wait"
  /\ wpc' = [wpc EXCEPT ![p][w] = "test"]
  /\ UNCHANGED <<pools, wjob, wake, dispatcher, loop, threads, used, delivered>>

\* Where a finished job goes: the end of the done list.  A request that throws
\* is caught on the worker and finishes with its message as the body.
Listed_First(l, j) == <<j>> \o l
Listed(l, j) == Append(l, j)

Finish(p, w) ==
  /\ wpc[p][w] = "work"
  /\ finished' = [finished EXCEPT ![p] = Listed(@, wjob[p][w])]
  /\ wpc' = [wpc EXCEPT ![p][w] = IF p = "http" THEN "write" ELSE "test"]
  /\ wjob' = [wjob EXCEPT ![p][w] = NoJob]
  /\ UNCHANGED <<queue, outstanding, started, wake, dispatcher, loop, threads, used, delivered>>

\* The http worker's byte, written after the lock is released.
WriteWake(w) ==
  /\ wpc["http"][w] = "write"
  /\ pipe' = pipe + 1
  /\ wpc' = [wpc EXCEPT !["http"][w] = "test"]
  /\ UNCHANGED <<pools, wjob, pipeOpen, dispatcher, loop, threads, used, delivered>>

-----------------------------------------------------------------------------
(* Main: festina_run_http_loop, festina_async_drain_completed and           *)
(* festina_async_io_drain_impl.                                             *)

NothingOutstanding_HttpOnly == outstanding["http"] = 0 /\ ~threads
NothingOutstanding == outstanding["http"] = 0 /\ outstanding["io"] = 0 /\ ~threads

\* The loop polls every 20 ms for what has no descriptor to wait on.
TimeoutBound_None == FALSE
TimeoutBound == outstanding["io"] > 0 \/ threads

\* With no listener, connection or timer either, the loop returns; else it
\* builds the poll set: the pipe is in it only once the pool is started.
BuildPollSet ==
  /\ mpc = "check"
  /\ \/ NothingOutstanding /\ mpc' = "ended" /\ UNCHANGED <<watching, bounded>>
     \/ /\ mpc' = "poll"
        /\ watching' = (started["http"] /\ pipeOpen)
        /\ bounded' = TimeoutBound
  /\ UNCHANGED <<pools, workers, wake, dispatcher, side, batch, threads, used, delivered>>

\* poll() returns: the pipe is readable or the timeout is over ...
PollReturns ==
  /\ mpc = "poll"
  /\ bounded \/ (watching /\ pipe > 0)
  /\ mpc' = "timers" /\ watching' = FALSE /\ bounded' = FALSE
  /\ UNCHANGED <<pools, workers, wake, dispatcher, side, batch, threads, used, delivered>>

\* ... or a connection, a timer or a signal ends the sleep, which may never happen.
OtherEvent ==
  /\ mpc = "poll"
  /\ mpc' = "timers" /\ watching' = FALSE /\ bounded' = FALSE
  /\ UNCHANGED <<pools, workers, wake, dispatcher, side, batch, threads, used, delivered>>

\* A piece of main's user code returns: timers and connections, a callback, or
\* the thread messages.  A callback's job is released and no longer counted.
UserReturns ==
  /\ Runs(Main)
  /\ mpc' = CASE mpc = "timers" -> "drain" [] mpc = "callback" -> "deliver" [] OTHER -> "check"
  /\ side' = IF mpc = "timers" THEN "http" ELSE side
  /\ outstanding' = [outstanding EXCEPT ![side] = IF mpc = "callback" THEN @ - 1 ELSE @]
  /\ UNCHANGED <<queue, finished, started, workers, wake, dispatcher, batch, watching, bounded,
                 threads, used, delivered>>

\* The pool whose callbacks come next; after io, the thread messages.
NextSide ==
  /\ side' = "io"
  /\ mpc' = IF side = "http" THEN "drain" ELSE "inbox"

\* Detach the done list of a pool that was started.
Detach ==
  /\ mpc = "drain"
  /\ \/ /\ ~started[side]
        /\ NextSide
        /\ UNCHANGED <<finished, batch>>
     \/ /\ started[side]
        /\ batch' = finished[side]
        /\ finished' = [finished EXCEPT ![side] = << >>]
        /\ mpc' = IF side = "http" THEN "read" ELSE "deliver"
        /\ UNCHANGED side
  /\ UNCHANGED <<queue, outstanding, started, workers, wake, dispatcher, watching, bounded,
                 threads, used, delivered>>

\* Empty the pipe, after the list was detached and the lock released.
ReadPipe ==
  /\ mpc = "read"
  /\ pipe' = 0
  /\ mpc' = "deliver"
  /\ UNCHANGED <<pools, workers, pipeOpen, dispatcher, side, batch, watching, bounded,
                 threads, used, delivered>>

RestOf_Same(l) == l
RestOf(l) == Tail(l)

Deliver ==
  /\ mpc = "deliver"
  /\ \/ /\ batch # << >>
        /\ delivered' = delivered \cup {Head(batch)}
        /\ batch' = RestOf(batch)
        /\ mpc' = "callback"
        /\ UNCHANGED side
     \/ /\ batch = << >>
        /\ NextSide
        /\ UNCHANGED <<batch, delivered>>
  /\ UNCHANGED <<pools, workers, wake, dispatcher, watching, bounded, threads, used>>

\* Main's user code kills the program's threads, which it joins.
KillThreads ==
  /\ Runs(Main)
  /\ threads /\ \A a \in Peer : dpc[a] = "idle"
  /\ threads' = FALSE
  /\ UNCHANGED <<pools, workers, wake, dispatcher, loop, used, delivered>>

-----------------------------------------------------------------------------

Init ==
  /\ queue = [p \in Pool |-> << >>] /\ finished = [p \in Pool |-> << >>]
  /\ outstanding = [p \in Pool |-> 0] /\ started = [p \in Pool |-> FALSE]
  /\ wpc = [p \in Pool |-> [w \in Worker |-> "unborn"]]
  /\ wjob = [p \in Pool |-> [w \in Worker |-> NoJob]]
  /\ pipeOpen = FALSE /\ pipe = 0
  /\ dpc = [a \in Dispatcher |-> "idle"] /\ djob = [a \in Dispatcher |-> NoJob]
  /\ mpc = "top" /\ side = "io" /\ batch = << >>
  /\ watching = FALSE /\ bounded = FALSE
  /\ threads = (Peer # {})
  /\ used = {} /\ delivered = {}

DispatchStep(a) == EnsurePool(a) \/ OpenPipe(a) \/ Spawn(a) \/ Enqueue(a) \/ SignalWork(a)
WorkerStep(p, w) == Take(p, w) \/ Finish(p, w) \/ (p = "http" /\ WriteWake(w))
MainStep == BuildPollSet \/ PollReturns \/ UserReturns \/ Detach \/ ReadPipe \/ Deliver
Ended == mpc = "ended" /\ UNCHANGED vars

Next ==
  \/ \E a \in Dispatcher : DispatchStep(a) \/ \E j \in Job : Send(a, j)
  \/ \E p \in Pool, w \in Worker : WorkerStep(p, w) \/ SpuriousWakeup(p, w)
  \/ MainStep \/ OtherEvent \/ KillThreads \/ Ended

Spec == Init /\ [][Next]_vars

\* The OS runs every thread, jobs and callbacks come to an end, and poll()
\* returns when it has a reason to.
Fairness ==
  /\ \A a \in Dispatcher : WF_vars(DispatchStep(a))
  /\ \A p \in Pool, w \in Worker : WF_vars(WorkerStep(p, w))
  /\ WF_vars(MainStep)

FairSpec == Spec /\ Fairness

-----------------------------------------------------------------------------
(* Properties.                                                              *)

TypeOK ==
  /\ queue \in [Pool -> Seq(Job)] /\ finished \in [Pool -> Seq(Job)]
  /\ outstanding \in [Pool -> Nat] /\ started \in [Pool -> BOOLEAN]
  /\ wpc \in [Pool -> [Worker -> WorkerPc]]
  /\ wjob \in [Pool -> [Worker -> Job \cup {NoJob}]]
  /\ pipeOpen \in BOOLEAN /\ pipe \in Nat
  /\ dpc \in [Dispatcher -> DispPc] /\ djob \in [Dispatcher -> Job \cup {NoJob}]
  /\ mpc \in MainPc /\ side \in Pool /\ batch \in Seq(Job)
  /\ watching \in BOOLEAN /\ bounded \in BOOLEAN /\ threads \in BOOLEAN
  /\ used \in SUBSET Job /\ delivered \in SUBSET Job

Members(l) == {l[i] : i \in 1..Len(l)}

\* A pool as the program sees it: the jobs handed over and not completed, those
\* whose callback waits (main's batch is of the pool it serves), those served.
Working(p)   == {wjob[p][w] : w \in Worker} \ {NoJob}
Pending(p)   == Members(queue[p]) \cup Working(p)
BatchOf(p)   == IF side = p THEN batch ELSE << >>
Ready(p)     == BatchOf(p) \o finished[p]
Delivered(p) == delivered \cap JobsOf(p)

\* The generic pool keeps the promise of JobPool: no callback is lost, run
\* twice or run out of order, however the pool's start, its workers, the
\* dispatchers and the loop interleave (festina_async_io_run ... _drain_impl).
IoPool == INSTANCE JobPool WITH
  Job <- IoJob, pending <- Pending("io"), ready <- Ready("io"), delivered <- Delivered("io")
IoIsJobPool == IoPool!Spec

\* So does the pool of the HTTP client (festina_http_send_client_dispatch ...
\* festina_async_drain_completed).
HttpPool == INSTANCE JobPool WITH
  Job <- HttpJob, pending <- Pending("http"), ready <- Ready("http"), delivered <- Delivered("http")
HttpIsJobPool == HttpPool!Spec

\* The loop never returns while a callback has yet to run.
EndsIdle == mpc = "ended" => \A p \in Pool : Pending(p) = {} /\ Ready(p) = << >>

Queued(j) == \E i \in 1..Len(queue[PoolOf(j)]) : queue[PoolOf(j)][i] = j

\* A queued job has its callback run: the signal sent after the unlock finds the workers
\* awake or wakes one, even while the pool is being started, and the loop does not sleep
\* longer than 20 ms while a generic job is outstanding.  For a request that is so only
\* while a thread of the program is alive, for the loop then polls.
CallbacksRun ==
  /\ \A j \in IoJob : Queued(j) ~> j \in delivered
  /\ \A j \in HttpJob : Queued(j) ~> j \in delivered \/ ~threads

\* api.md: the callback of a request fires once the request completes.
HttpDelivered == \A j \in HttpJob : Queued(j) ~> j \in delivered
=============================================================================
