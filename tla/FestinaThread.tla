--------------------------- MODULE FestinaThread ---------------------------
(***************************************************************************)
(* The thread runtime of runtime/festina_runtime_thread.c: every declared  *)
(* `thread' of a Festina program is an OS thread with an inbound queue, an *)
(* outbound queue to main and a list of pending reply callbacks; main owns *)
(* the life cycle (kill, live, drain) and empties the outbound queues from *)
(* its event loop (festina_run_timer_loop in runtime/festina_runtime.c).   *)
(*                                                                         *)
(* One action is one critical section, one blocking point or one call into *)
(* user code, so every interleaving of the lock-protected sections of main *)
(* and the workers is a behaviour.  pthread_cond_signal is issued after    *)
(* the unlock in the code and is a step of its own here.                   *)
(*                                                                         *)
(* User code (handlers, timers, top-level statements) is any sequence of   *)
(* the runtime calls it may make; Uses restricts the calls, so that a      *)
(* small instance can concentrate on one part of the interface.            *)
(***************************************************************************)
EXTENDS Integers, Sequences, FiniteSets

CONSTANTS
  Thread,        \* the declared threads
  Main,          \* g_main_handle, main's own identity token
  HttpThread,    \* the threads with an HTTP context: they poll, never block
  Registry,      \* g_registry: the threads, last registered first
  Uses,          \* the calls the program's code makes
  MaxMessages,   \* bound: messages and replies ever allocated
  MaxTxn,        \* bound: callbacks ever registered
  MaxCalls       \* bound: kill, live and drain calls main ever makes

Calls == {"post", "ask", "report", "askMain", "reply", "stashedReply",
          "giveRequest", "kill", "live", "drain", "close", "signal"}

ASSUME ThreadAssumption ==
  /\ Main \notin Thread
  /\ HttpThread \subseteq Thread
  /\ Registry \in Seq(Thread)
  /\ \A t \in Thread : \E i \in 1..Len(Registry) : Registry[i] = t
  /\ Registry # << >>
  /\ Uses \subseteq Calls
  /\ MaxMessages \in Nat /\ MaxTxn \in Nat /\ MaxCalls \in Nat

Actor   == Thread \cup {Main}
Payload == 1..MaxMessages
Txn     == 1..MaxTxn

\* A FestinaThreadMsg.  txn 0 means that no callback is expected; a "job" is a
\* reply whose callback is being marshaled onto main through the async-io pool.
Kinds   == {"none", "ordinary", "giveRequest", "reply", "job"}
Msg     == [kind : Kinds, pid : 0..MaxMessages, from : Actor, txn : 0..MaxTxn]
NoMsg   == [kind |-> "none", pid |-> 0, from |-> Main, txn |-> 0]

\* A FestinaPendingCallback.  A handle's list is kept as a set: ids are handed
\* out in increasing order, so the list is the set in the order of its txn.
Callback == [txn : Txn, onMain : BOOLEAN]

VARIABLES
  inQueue, outQueue,            \* in_head.., out_head..
  killRequested, alive,         \* the flags of a handle ...
  dispatching, drainWaiters,    \* ... all guarded by its in_lock
  pending, pendingTail,         \* pending_callbacks and its tail pointer (a txn, 0: NULL)
  nextTxn, nextPid,             \* g_next_txn_id; the payloads boxed so far
  replyTxn,                     \* g_current_reply_txn, one per OS thread
  pc, cur,                      \* where each worker is; the message it dispatches
  signal,                       \* the thread whose in_cond an actor is about to signal
  mpc, stage, target, mcur,     \* where main is; what its loop is doing; the handle it works on
  done, at,                     \* the list main detached; its position in the registry
  jobs, completed,              \* the async-io pool: jobs taken in; the done list
  calls,                        \* life-cycle calls made so far
  freed, fires,                 \* history: releases per payload, runs per callback
  asker, asked,                 \* history: who registered a txn, whom its message asks
  askerKilled,                  \* history: unanswered txns whose asker was killed
  snapshot                      \* history: the payloads drain() found when it was called

queues  == <<inQueue, outQueue>>
flags   == <<killRequested, alive, dispatching, drainWaiters>>
lists   == <<pending, pendingTail>>
worker  == <<pc, cur>>
main    == <<mpc, stage, target, mcur, done, at>>
pool    == <<jobs, completed>>
counters == <<nextTxn, nextPid, calls>>
history == <<freed, fires, asker, asked, askerKilled, snapshot>>
vars    == <<queues, flags, lists, worker, main, pool, counters, history, replyTxn, signal>>

UserPc  == {"load", "handle", "callback", "give", "service", "exit"}
WorkerPc == UserPc \cup {"look", "wait", "got", "final", "dead"}
DrainPc == {"drainEnter", "drainWait", "drainCheck"}
KillPc  == {"killTest", "killSignal", "join", "reap"}
MainPc  == {"user", "check", "gather", "deliver", "ended"} \cup DrainPc \cup KillPc
Stage   == {"top", "timers", "async", "sweep", "onExit", "killAll"}

-----------------------------------------------------------------------------
(* The lists of pending callbacks.                                          *)

Txns(cbs) == {cb.txn : cb \in cbs}

\* festina_thread_register_callback: link after the node the tail pointer
\* names; through a dangling tail pointer the node would be lost, and with a
\* NULL one the list would start afresh.
LinkAtTail(cbs, tail, cb) ==
  CASE tail = 0            -> {cb}
    [] tail \in Txns(cbs)  -> cbs \cup {cb}
    [] OTHER               -> cbs

LastTxn(cbs) == IF cbs = {} THEN 0 ELSE CHOOSE x \in Txns(cbs) : \A y \in Txns(cbs) : y <= x

\* The tail pointer after festina_thread_dispatch_reply unlinked txn.
TailAfterUnlink_Stale(cbs, tail, txn) == tail
TailAfterUnlink(cbs, tail, txn) ==
  IF tail = txn THEN LastTxn({cb \in cbs : cb.txn # txn}) ELSE tail

Unlink(a, txn) ==
  /\ pending' = [pending EXCEPT ![a] = {cb \in @ : cb.txn # txn}]
  /\ pendingTail' = [pendingTail EXCEPT ![a] = TailAfterUnlink(pending[a], @, txn)]

-----------------------------------------------------------------------------
(* Conditions and wake-ups.                                                 *)

\* The predicate festina_thread_wait_drained sleeps on.
Undrained_QueueOnly(t) == alive[t] /\ inQueue[t] # << >>
Undrained(t) == alive[t] /\ (inQueue[t] # << >> \/ dispatching[t])

\* pthread_cond_broadcast(&h->drained_cond), skipped when nobody waits.
MainAfterBroadcast_Lost(t) == mpc
MainAfterBroadcast(t) ==
  IF drainWaiters[t] > 0 /\ mpc = "drainWait" /\ target = t THEN "drainCheck" ELSE mpc

\* festina_thread_note_dispatch_finished_locked: clear the flag the last
\* dispatch left set, and release a drain() that waits for it.
NoteDispatchFinished(t) ==
  /\ dispatching' = [dispatching EXCEPT ![t] = FALSE]
  /\ mpc' = IF dispatching[t] THEN MainAfterBroadcast(t) ELSE mpc

\* Where a worker stands once its in_cond is signalled.
Woken_Never(p) == p
Woken(p) == IF p = "wait" THEN "look" ELSE p

\* pthread_cond_signal(&h->in_cond), after in_lock was released.
SignalTarget_None(t) == Main
SignalTarget(t) == t

Signal(a) ==
  /\ signal[a] # Main
  /\ signal' = [signal EXCEPT ![a] = Main]
  /\ pc' = [pc EXCEPT ![signal[a]] = Woken(@)]
  /\ UNCHANGED <<queues, flags, lists, cur, main, pool, counters, history, replyTxn>>

\* A condition variable may wake its waiter for no reason.
SpuriousWakeup(t) ==
  /\ pc[t] = "wait"
  /\ pc' = [pc EXCEPT ![t] = "look"]
  /\ UNCHANGED <<queues, flags, lists, cur, main, pool, counters, history, replyTxn, signal>>

-----------------------------------------------------------------------------
(* User code on actor a: it runs until it returns, and makes the calls      *)
(* below in any order.                                                      *)

Running(a) ==
  /\ signal[a] = Main
  /\ IF a = Main THEN mpc = "user" ELSE pc[a] \in UserPc

\* Code of a thread's own body; the callback of a worker-to-worker reply is a
\* top-level function and is compiled as main's code, whatever thread runs it.
InBody(a) == a \in Thread /\ pc[a] # "callback"
Self(a)   == IF a = Main \/ InBody(a) THEN a ELSE Main

Boxed(kind, from, txn) == [kind |-> kind, pid |-> nextPid, from |-> from, txn |-> txn]

Box == nextPid <= MaxMessages /\ nextPid' = nextPid + 1

Release(pids) == freed' = [p \in Payload |-> freed[p] + (IF p \in pids THEN 1 ELSE 0)]

\* The one payload of a message nobody will ever handle.
Dropped_Leaked(pid) == {}
Dropped(pid) == {pid}

\* g_current_reply_txn once user code on actor a returned.
ReplyTxnAfter_Kept(a) == replyTxn[a]
ReplyTxnAfter(a) == 0

\* festina_thread_alloc_txn_id and festina_thread_register_callback, before
\* the send, so that the slot exists when the reply arrives.
RegisterCallback(a, dest, onMain) ==
  /\ nextTxn <= MaxTxn
  /\ nextTxn' = nextTxn + 1
  /\ pending' = [pending EXCEPT ![a] =
                   LinkAtTail(@, pendingTail[a], [txn |-> nextTxn, onMain |-> onMain])]
  /\ pendingTail' = [pendingTail EXCEPT ![a] = nextTxn]
  /\ asker' = [asker EXCEPT ![nextTxn] = a]
  /\ asked' = [asked EXCEPT ![nextTxn] = dest]

NoCallback == UNCHANGED <<nextTxn, lists, asker, asked>>

\* The inbound queue after a message joined it.
Enqueue_Front(q, m) == <<m>> \o q
Enqueue(q, m) == Append(q, m)

\* NAME.postMessage(x) and NAME.postMessage(x).callback(fn)
Post(a, t) ==
  /\ Running(a)
  /\ Box
  /\ \/ "post" \in Uses /\ NoCallback
        /\ inQueue' = [inQueue EXCEPT ![t] = Enqueue(@, Boxed("ordinary", Self(a), 0))]
     \/ "ask" \in Uses /\ Self(a) = a /\ RegisterCallback(a, t, FALSE)
        /\ inQueue' = [inQueue EXCEPT ![t] = Enqueue(@, Boxed("ordinary", a, nextTxn))]
  /\ signal' = [signal EXCEPT ![a] = SignalTarget(t)]
  /\ UNCHANGED <<outQueue, flags, worker, main, pool, calls, replyTxn,
                 freed, fires, askerKilled, snapshot>>

\* Bare postMessage(x) and postMessage(x).callback(fn) in thread t's body.
PostOutbound(t) ==
  /\ Running(t) /\ InBody(t)
  /\ Box
  /\ \/ "report" \in Uses /\ NoCallback
        /\ outQueue' = [outQueue EXCEPT ![t] = Append(@, Boxed("ordinary", t, 0))]
     \/ "askMain" \in Uses /\ RegisterCallback(t, Main, TRUE)
        /\ outQueue' = [outQueue EXCEPT ![t] = Append(@, Boxed("ordinary", t, nextTxn))]
  /\ UNCHANGED <<inQueue, flags, worker, main, pool, calls, replyTxn, signal,
                 freed, fires, askerKilled, snapshot>>

\* The thread value a reply goes to: the sender of the message being handled,
\* or one stashed earlier (never main's own handle on main).
ReplyTo(a, dest) ==
  \/ "reply" \in Uses /\ replyTxn[a] # 0
     /\ dest = IF a = Main THEN mcur.from ELSE cur[a].from
  \/ "stashedReply" \in Uses /\ ~(a = Main /\ dest = Main)

\* t.reply(x): nothing to answer, then the payload goes at once; to main through
\* the replier's own outbound queue; else into the destination's inbound queue.
Reply(a, dest) ==
  /\ Running(a)
  /\ ReplyTo(a, dest)
  /\ Box
  /\ \/ /\ replyTxn[a] = 0
        /\ Release(Dropped(nextPid))
        /\ UNCHANGED <<queues, signal>>
     \/ /\ replyTxn[a] # 0 /\ dest = Main
        /\ outQueue' = [outQueue EXCEPT ![a] = Append(@, Boxed("reply", a, replyTxn[a]))]
        /\ UNCHANGED <<inQueue, signal, freed>>
     \/ /\ replyTxn[a] # 0 /\ dest # Main
        /\ inQueue' = [inQueue EXCEPT ![dest] = Enqueue(@, Boxed("reply", a, replyTxn[a]))]
        /\ signal' = [signal EXCEPT ![a] = SignalTarget(dest)]
        /\ UNCHANGED <<outQueue, freed>>
  /\ UNCHANGED <<flags, lists, worker, main, pool, nextTxn, calls, replyTxn,
                 fires, asker, asked, askerKilled, snapshot>>

\* NAME.giveRequest(r), main only: hands a connection to an HTTP thread.
GiveRequest(t) ==
  /\ "giveRequest" \in Uses
  /\ Running(Main)
  /\ t \in HttpThread
  /\ Box
  /\ inQueue' = [inQueue EXCEPT ![t] = Enqueue(@, Boxed("giveRequest", Main, 0))]
  /\ signal' = [signal EXCEPT ![Main] = SignalTarget(t)]
  /\ UNCHANGED <<outQueue, flags, lists, worker, main, pool, nextTxn, calls, replyTxn, history>>

-----------------------------------------------------------------------------
(* The worker: festina_thread_main and festina_thread_try_dispatch_one.     *)

\* Whether the dequeue marks the worker as dispatching under the same lock.
DispatchingAfterTake_Late == FALSE
DispatchingAfterTake == TRUE

\* One pass through in_lock: settle the previous dispatch, then stop, sleep
\* (or service the HTTP context), or take the oldest message.
TryDispatchOne(t) ==
  /\ pc[t] = "look"
  /\ \/ /\ killRequested[t]
        /\ NoteDispatchFinished(t)
        /\ pc' = [pc EXCEPT ![t] = "exit"]
        /\ UNCHANGED <<inQueue, cur>>
     \/ /\ ~killRequested[t] /\ inQueue[t] = << >>
        /\ NoteDispatchFinished(t)
        /\ pc' = [pc EXCEPT ![t] = IF t \in HttpThread THEN "service" ELSE "wait"]
        /\ UNCHANGED <<inQueue, cur>>
     \/ /\ ~killRequested[t] /\ inQueue[t] # << >>
        /\ dispatching' = [dispatching EXCEPT ![t] = DispatchingAfterTake]
        /\ mpc' = IF dispatching[t] THEN MainAfterBroadcast(t) ELSE mpc
        /\ pc' = [pc EXCEPT ![t] = "got"]
        /\ cur' = [cur EXCEPT ![t] = Head(inQueue[t])]
        /\ inQueue' = [inQueue EXCEPT ![t] = Tail(@)]
  /\ UNCHANGED <<outQueue, killRequested, alive, drainWaiters, lists, stage, target, mcur,
                 done, at, pool, counters, history, replyTxn, signal>>

Found(a, txn) == \E cb \in pending[a] : cb.txn = txn
OnMain_Ignored(a, txn) == FALSE
OnMain(a, txn) == [txn |-> txn, onMain |-> TRUE] \in pending[a]
Fire(txn) == fires' = [fires EXCEPT ![txn] = @ + 1]

\* festina_thread_dispatch_reply on worker t: run the callback here, marshal it
\* onto main through festina_async_io_dispatch, or drop a reply nobody awaits.
DispatchReply(t, m) ==
  \/ /\ ~Found(t, m.txn)
     /\ pc' = [pc EXCEPT ![t] = "look"]
     /\ cur' = [cur EXCEPT ![t] = NoMsg]
     /\ Release(Dropped(m.pid))
     /\ UNCHANGED <<lists, jobs, fires>>
  \/ /\ Found(t, m.txn) /\ OnMain(t, m.txn)
     /\ Unlink(t, m.txn)
     /\ jobs' = jobs \cup {[m EXCEPT !.kind = "job"]}
     /\ pc' = [pc EXCEPT ![t] = "look"]
     /\ cur' = [cur EXCEPT ![t] = NoMsg]
     /\ UNCHANGED <<freed, fires>>
  \/ /\ Found(t, m.txn) /\ ~OnMain(t, m.txn)
     /\ Unlink(t, m.txn)
     /\ Fire(m.txn)
     /\ pc' = [pc EXCEPT ![t] = "callback"]
     /\ UNCHANGED <<cur, jobs, freed>>

\* The dispatch of the message just taken, outside in_lock.
Dispatch(t) ==
  /\ pc[t] = "got"
  /\ \/ /\ cur[t].kind = "ordinary"
        /\ replyTxn' = [replyTxn EXCEPT ![t] = cur[t].txn]
        /\ pc' = [pc EXCEPT ![t] = "handle"]
        /\ UNCHANGED <<cur, lists, jobs, freed, fires>>
     \/ /\ cur[t].kind = "giveRequest"
        /\ pc' = [pc EXCEPT ![t] = "give"]
        /\ UNCHANGED <<cur, lists, jobs, replyTxn, freed, fires>>
     \/ /\ cur[t].kind = "reply"
        /\ DispatchReply(t, cur[t])
        /\ UNCHANGED replyTxn
  /\ UNCHANGED <<queues, flags, main, completed, counters, signal,
                 asker, asked, askerKilled, snapshot>>

\* What the worker's user code returns to.
PcAfter_Loop(p) == "look"
PcAfter(p) == IF p = "exit" THEN "final" ELSE "look"

\* User code on worker t returns: the message it handled is released and
\* g_current_reply_txn is reset.
HandlerReturns(t) ==
  /\ pc[t] \in UserPc /\ signal[t] = Main
  /\ pc' = [pc EXCEPT ![t] = PcAfter(@)]
  /\ cur' = [cur EXCEPT ![t] = NoMsg]
  /\ replyTxn' = [replyTxn EXCEPT ![t] = ReplyTxnAfter(t)]
  /\ Release({cur[t].pid})
  /\ UNCHANGED <<queues, flags, lists, main, pool, counters, signal,
                 fires, asker, asked, askerKilled, snapshot>>

\* After on_exit: close the database, tear the HTTP context down, and, under
\* in_lock, stop being alive and release a drain() that waits.
WorkerStops(t) ==
  /\ pc[t] = "final"
  /\ pc' = [pc EXCEPT ![t] = "dead"]
  /\ alive' = [alive EXCEPT ![t] = FALSE]
  /\ dispatching' = [dispatching EXCEPT ![t] = FALSE]
  /\ mpc' = MainAfterBroadcast(t)
  /\ UNCHANGED <<queues, killRequested, drainWaiters, lists, cur, stage, target, mcur,
                 done, at, pool, counters, history, replyTxn, signal>>

\* A worker of the async-io pool finishes a job (FestinaAsync has the detail).
PoolWork(j) ==
  /\ jobs' = jobs \ {j}
  /\ completed' = Append(completed, j)
  /\ UNCHANGED <<queues, flags, lists, worker, main, counters, history, replyTxn, signal>>

-----------------------------------------------------------------------------
(* The life cycle, called by main's user code.                              *)

Call(name) ==
  /\ name \in Uses
  /\ Running(Main)
  /\ calls < MaxCalls
  /\ calls' = calls + 1

\* festina_thread_live: spawn again unless the thread is alive.
Live(t) ==
  /\ Call("live")
  /\ IF alive[t]
     THEN UNCHANGED <<killRequested, alive, pc>>
     ELSE /\ killRequested' = [killRequested EXCEPT ![t] = FALSE]
          /\ alive' = [alive EXCEPT ![t] = TRUE]
          /\ pc' = [pc EXCEPT ![t] = "load"]
  /\ UNCHANGED <<queues, dispatching, drainWaiters, lists, cur, main, pool, nextTxn, nextPid,
                 history, replyTxn, signal>>

Unprocessed(t) == {inQueue[t][i].pid : i \in 1..Len(inQueue[t])} \cup ({cur[t].pid} \ {0})

\* festina_thread_wait_drained: main enters it ...
Drain(t) ==
  /\ Call("drain")
  /\ mpc' = "drainEnter"
  /\ target' = t
  /\ snapshot' = Unprocessed(t)
  /\ UNCHANGED <<queues, flags, lists, worker, stage, mcur, done, at, pool, nextTxn, nextPid,
                 freed, fires, asker, asked, askerKilled, replyTxn, signal>>

\* ... tests the predicate under in_lock, and sleeps or returns.  It counts
\* itself in drain_waiters while it is inside the wait loop.
WaitDrained ==
  /\ mpc \in {"drainEnter", "drainCheck"}
  /\ IF Undrained(target)
     THEN /\ drainWaiters' = [drainWaiters EXCEPT ![target] = IF mpc = "drainEnter" THEN @ + 1 ELSE @]
          /\ mpc' = "drainWait"
     ELSE /\ drainWaiters' = [drainWaiters EXCEPT ![target] = IF mpc = "drainEnter" THEN @ ELSE @ - 1]
          /\ mpc' = "user"
  /\ UNCHANGED <<queues, killRequested, alive, dispatching, lists, worker, stage, target, mcur,
                 done, at, pool, counters, history, replyTxn, signal>>

\* The walk over g_registry, which kill_all and main's drain share.
FirstHandle == 1
NextHandle_Skip(i) == i + 2
NextHandle(i) == i + 1

\* festina_thread_kill, as called by user code; festina_program_exit calls it
\* for every thread in turn.
Kill(t) ==
  /\ Call("kill")
  /\ mpc' = "killTest"
  /\ target' = t
  /\ UNCHANGED <<queues, flags, lists, worker, stage, mcur, done, at, pool, nextTxn, nextPid,
                 history, replyTxn, signal>>

\* Main leaves festina_thread_kill: back to user code, or on to the next handle
\* of festina_thread_kill_all_impl and then to exit().
KillReturns ==
  \/ /\ stage # "killAll"
     /\ mpc' = "user"
     /\ UNCHANGED <<target, at>>
  \/ /\ stage = "killAll" /\ at < Len(Registry)
     /\ at' = NextHandle(at)
     /\ target' = Registry[NextHandle(at)]
     /\ mpc' = "killTest"
  \/ /\ stage = "killAll" /\ at >= Len(Registry)
     /\ mpc' = "ended"
     /\ UNCHANGED <<target, at>>

KillTest ==
  /\ mpc = "killTest"
  /\ \/ ~alive[target] /\ KillReturns /\ UNCHANGED killRequested
     \/ /\ alive[target]
        /\ killRequested' = [killRequested EXCEPT ![target] = TRUE]
        /\ mpc' = "killSignal"
        /\ UNCHANGED <<target, at>>
  /\ UNCHANGED <<queues, alive, dispatching, drainWaiters, lists, worker, stage, mcur, done, pool,
                 counters, history, replyTxn, signal>>

KillSignal ==
  /\ mpc = "killSignal"
  /\ mpc' = "join"
  /\ pc' = [pc EXCEPT ![target] = Woken(@)]
  /\ UNCHANGED <<queues, flags, lists, cur, stage, target, mcur, done, at, pool,
                 counters, history, replyTxn, signal>>

\* pthread_join
Join ==
  /\ mpc = "join"
  /\ pc[target] = "dead"
  /\ mpc' = "reap"
  /\ UNCHANGED <<queues, flags, lists, worker, stage, target, mcur, done, at, pool,
                 counters, history, replyTxn, signal>>

\* What becomes of the callbacks the killed thread had registered.
PendingAfterKill_Kept(t) == pending[t]
PendingAfterKill(t) == {}

PidsOf_Kept(q) == {}
PidsOf(q) == {q[i].pid : i \in 1..Len(q)}
Unanswered == {x \in Txn : x < nextTxn /\ fires[x] = 0}

\* Under in_lock take what is still queued and reset kill_requested, then free
\* it (festina_thread_free_msg_list) and the callbacks, never invoking one.
Reap ==
  /\ mpc = "reap"
  /\ inQueue' = [inQueue EXCEPT ![target] = << >>]
  /\ killRequested' = [killRequested EXCEPT ![target] = FALSE]
  /\ Release(PidsOf(inQueue[target]))
  /\ pending' = [pending EXCEPT ![target] = PendingAfterKill(target)]
  /\ pendingTail' = [pendingTail EXCEPT ![target] = 0]
  /\ askerKilled' = askerKilled \cup {x \in Unanswered : asker[x] = target}
  /\ KillReturns
  /\ UNCHANGED <<outQueue, alive, dispatching, drainWaiters, worker, stage, mcur, done, pool,
                 counters, fires, asker, asked, snapshot, replyTxn, signal>>

-----------------------------------------------------------------------------
(* Main's event loop: festina_run_timer_loop, festina_async_io_drain_impl   *)
(* and festina_thread_drain_impl.                                           *)

\* close(code): on exit runs, then every thread is killed, then exit().
Close ==
  /\ "close" \in Uses
  /\ Running(Main)
  /\ stage \notin {"onExit", "killAll"}
  /\ stage' = "onExit"
  /\ UNCHANGED <<queues, flags, lists, worker, mpc, target, mcur, done, at, pool,
                 counters, history, replyTxn, signal>>

\* A piece of main's user code returns to what called it.
UserReturns ==
  /\ Running(Main)
  /\ IF stage = "onExit"
     THEN /\ stage' = "killAll" /\ at' = FirstHandle /\ target' = Registry[FirstHandle] /\ mpc' = "killTest"
          /\ UNCHANGED <<mcur, replyTxn, freed>>
     ELSE /\ mpc' = CASE stage = "top" -> "check" [] stage = "timers" -> "gather" [] OTHER -> "deliver"
          /\ stage' = IF stage = "timers" THEN "async" ELSE stage
          /\ mcur' = NoMsg
          /\ replyTxn' = [replyTxn EXCEPT ![Main] = ReplyTxnAfter(Main)]
          /\ Release({mcur.pid})
          /\ UNCHANGED <<target, at>>
  /\ UNCHANGED <<queues, flags, lists, worker, done, pool, counters, signal,
                 fires, asker, asked, askerKilled, snapshot>>

\* festina_async_io_outstanding() and festina_thread_outstanding() are both 0.
NothingOutstanding_PoolOnly == jobs = {} /\ completed = << >>
NothingOutstanding_ThreadsOnly == \A t \in Thread : ~alive[t]
NothingOutstanding == jobs = {} /\ completed = << >> /\ \A t \in Thread : ~alive[t]

\* The top of the loop: a shutdown signal takes close()'s path; with nothing
\* outstanding (and no timer) main returns; else the timers' callbacks run.
LoopTop ==
  /\ mpc = "check"
  /\ \/ /\ "signal" \in Uses
        /\ stage' = "onExit" /\ mpc' = "user"
     \/ NothingOutstanding /\ mpc' = "ended" /\ UNCHANGED stage
     \/ stage' = "timers" /\ mpc' = "user"
  /\ UNCHANGED <<queues, flags, lists, worker, target, mcur, done, at, pool,
                 counters, history, replyTxn, signal>>

\* Detach the pool's done list, or the next handle's whole outbound queue.
Gather ==
  /\ mpc = "gather"
  /\ \/ /\ stage = "async"
        /\ done' = completed /\ completed' = << >>
        /\ mpc' = "deliver"
        /\ UNCHANGED <<outQueue, stage, at>>
     \/ /\ stage = "sweep" /\ at <= Len(Registry)
        /\ done' = outQueue[Registry[at]]
        /\ outQueue' = [outQueue EXCEPT ![Registry[at]] = << >>]
        /\ at' = NextHandle(at)
        /\ mpc' = "deliver"
        /\ UNCHANGED <<completed, stage>>
     \/ /\ stage = "sweep" /\ at > Len(Registry)
        /\ mpc' = "check"
        /\ UNCHANGED <<done, at, stage, outQueue, completed>>
  /\ UNCHANGED <<inQueue, flags, lists, worker, target, mcur, jobs, counters, history,
                 replyTxn, signal>>

\* The detached list is used up.
ListDone ==
  /\ mpc = "deliver" /\ done = << >>
  /\ mpc' = "gather"
  /\ stage' = "sweep"
  /\ at' = IF stage = "async" THEN FirstHandle ELSE at
  /\ UNCHANGED <<queues, flags, lists, worker, target, mcur, done, pool, counters, history,
                 replyTxn, signal>>

\* The head of the detached list: a message goes to main's on message, a
\* reply or a marshaled job to its callback, a reply nobody awaits is dropped.
Deliver ==
  /\ mpc = "deliver" /\ done # << >>
  /\ done' = Tail(done)
  /\ LET m == Head(done) IN
       \/ /\ m.kind = "ordinary"
          /\ mcur' = m /\ mpc' = "user"
          /\ replyTxn' = [replyTxn EXCEPT ![Main] = m.txn]
          /\ UNCHANGED <<lists, freed, fires>>
       \/ /\ m.kind = "job"
          /\ mcur' = m /\ mpc' = "user"
          /\ Fire(m.txn)
          /\ UNCHANGED <<lists, freed, replyTxn>>
       \/ /\ m.kind = "reply" /\ Found(Main, m.txn)
          /\ Unlink(Main, m.txn)
          /\ mcur' = m /\ mpc' = "user"
          /\ Fire(m.txn)
          /\ UNCHANGED <<freed, replyTxn>>
       \/ /\ m.kind = "reply" /\ ~Found(Main, m.txn)
          /\ Release(Dropped(m.pid))
          /\ UNCHANGED <<lists, mcur, mpc, fires, replyTxn>>
  /\ UNCHANGED <<queues, flags, worker, stage, target, at, pool, counters, signal,
                 asker, asked, askerKilled, snapshot>>

-----------------------------------------------------------------------------
(* main()'s prologue has registered and spawned every thread.               *)

Init ==
  /\ inQueue = [t \in Thread |-> << >>] /\ outQueue = [t \in Thread |-> << >>]
  /\ killRequested = [t \in Thread |-> FALSE] /\ alive = [t \in Thread |-> TRUE]
  /\ dispatching = [t \in Thread |-> FALSE] /\ drainWaiters = [t \in Thread |-> 0]
  /\ pending = [a \in Actor |-> {}] /\ pendingTail = [a \in Actor |-> 0]
  /\ nextTxn = 1 /\ nextPid = 1 /\ calls = 0
  /\ replyTxn = [a \in Actor |-> 0] /\ signal = [a \in Actor |-> Main]
  /\ pc = [t \in Thread |-> "load"] /\ cur = [t \in Thread |-> NoMsg]
  /\ mpc = "user" /\ stage = "top" /\ target = Registry[1] /\ mcur = NoMsg
  /\ done = << >> /\ at = 1
  /\ jobs = {} /\ completed = << >>
  /\ freed = [p \in Payload |-> 0] /\ fires = [x \in Txn |-> 0]
  /\ asker = [x \in Txn |-> Main] /\ asked = [x \in Txn |-> Main]
  /\ askerKilled = {} /\ snapshot = {}

\* The steps a worker and main take by themselves; calls are user code's choice.
WorkerStep(t) == TryDispatchOne(t) \/ Dispatch(t) \/ HandlerReturns(t) \/ WorkerStops(t)

MainStep ==
  \/ UserReturns \/ LoopTop \/ Gather \/ ListDone \/ Deliver
  \/ WaitDrained \/ KillTest \/ KillSignal \/ Join \/ Reap

UserCall(a) ==
  \/ \E t \in Thread : Post(a, t)
  \/ \E dest \in Actor : Reply(a, dest)

LifeCycleCall == \E t \in Thread : Live(t) \/ Drain(t) \/ Kill(t) \/ GiveRequest(t)

\* The process is over.
Ended == mpc = "ended" /\ UNCHANGED vars

Next ==
  \/ \E t \in Thread : WorkerStep(t) \/ SpuriousWakeup(t) \/ PostOutbound(t)
  \/ \E a \in Actor : Signal(a) \/ UserCall(a)
  \/ \E j \in jobs : PoolWork(j)
  \/ MainStep \/ LifeCycleCall \/ Close \/ Ended

Spec == Init /\ [][Next]_vars

\* The OS runs every thread; every handler returns; the pool's workers run.
Fairness ==
  /\ \A t \in Thread : WF_vars(WorkerStep(t))
  /\ \A a \in Actor : WF_vars(Signal(a))
  /\ WF_vars(MainStep)
  /\ WF_vars(\E j \in jobs : PoolWork(j))

FairSpec == Spec /\ Fairness

-----------------------------------------------------------------------------
(* Properties.                                                              *)

\* Every variable has its type.
QueuesOK == inQueue \in [Thread -> Seq(Msg)] /\ outQueue \in [Thread -> Seq(Msg)]
FlagsOK ==
  /\ killRequested \in [Thread -> BOOLEAN] /\ alive \in [Thread -> BOOLEAN]
  /\ dispatching \in [Thread -> BOOLEAN] /\ drainWaiters \in [Thread -> Int]
ListsOK == pending \in [Actor -> SUBSET Callback] /\ pendingTail \in [Actor -> 0..MaxTxn]
WorkerOK == pc \in [Thread -> WorkerPc] /\ cur \in [Thread -> Msg]
ActorsOK == replyTxn \in [Actor -> 0..MaxTxn] /\ signal \in [Actor -> Actor]
MainOK ==
  /\ mpc \in MainPc /\ stage \in Stage /\ target \in Thread /\ mcur \in Msg
  /\ done \in Seq(Msg) /\ at \in 1..Len(Registry) + 1
PoolOK == jobs \in SUBSET Msg /\ completed \in Seq(Msg)
CountersOK ==
  nextTxn \in 1..MaxTxn + 1 /\ nextPid \in 1..MaxMessages + 1 /\ calls \in 0..MaxCalls
HistoryOK ==
  /\ freed \in [Payload -> Nat] /\ fires \in [Txn -> Nat]
  /\ asker \in [Txn -> Actor] /\ asked \in [Txn -> Actor]
  /\ askerKilled \in SUBSET Txn /\ snapshot \in SUBSET (0..MaxMessages)

TypeOK ==
  /\ QueuesOK /\ FlagsOK /\ ListsOK /\ WorkerOK /\ ActorsOK
  /\ MainOK /\ PoolOK /\ CountersOK /\ HistoryOK

Slots(q, p) == {i \in 1..Len(q) : q[i].pid = p}
QueueSlots(qs, p) == UNION {{t} \X Slots(qs[t], p) : t \in Thread}

\* How many queues, workers, lists of main and of the async-io pool hold p.
Holders(p) ==
  Cardinality(QueueSlots(inQueue, p)) + Cardinality(QueueSlots(outQueue, p))
  + Cardinality(Slots(done, p)) + Cardinality(Slots(completed, p))
  + Cardinality({j \in jobs : j.pid = p}) + Cardinality({t \in Thread : cur[t].pid = p})
  + (IF mcur.pid = p THEN 1 ELSE 0)

\* A boxed payload is held in exactly one place until it is released, and is
\* released exactly once: no leak and no double free across kill(), dropped
\* replies and marshaled callbacks (festina_thread_free_msg_list).
PayloadOwnedOnce == \A p \in 1..nextPid - 1 : freed[p] + Holders(p) = 1

Marshaled(x) ==
  \/ \E j \in jobs : j.txn = x
  \/ \E i \in 1..Len(completed) : completed[i].txn = x
  \/ \E i \in 1..Len(done) : done[i].kind = "job" /\ done[i].txn = x

\* A registered callback is on its sender's list, on its way to main, has run
\* once, or was dropped by killing its sender: never lost, never run twice
\* (the pending-callback list of festina_thread_dispatch_reply).
CallbackHeldOnce ==
  \A x \in 1..nextTxn - 1 :
    LET listed == \E a \in Actor : x \in Txns(pending[a])
    IN /\ fires[x] <= 1
       /\ listed => /\ x \in Txns(pending[asker[x]])
                    /\ \A a \in Actor \ {asker[x]} : x \notin Txns(pending[a])
                    /\ fires[x] = 0 /\ ~Marshaled(x)
       /\ Marshaled(x) => fires[x] = 0
       /\ ~listed /\ ~Marshaled(x) /\ fires[x] = 0 => x \in askerKilled

\* The tail pointer of a list of callbacks names its last node, NULL when the
\* list is empty: the next callback is linked behind a node that still exists
\* (festina_thread_register_callback after unlinking, after kill()).
TailNamesLast == \A a \in Actor : pendingTail[a] = LastTxn(pending[a])

Increasing(q) == \A i, j \in 1..Len(q) : i < j => q[i].pid < q[j].pid

\* Each lane is first in, first out: what a worker handles is older than all it
\* has queued, and what main detached from a thread is older than what that
\* thread queued since (festina_thread_post, festina_thread_drain_impl).
LanesInOrder ==
  \A t \in Thread :
    /\ Increasing(inQueue[t]) /\ Increasing(outQueue[t])
    /\ \A i \in 1..Len(inQueue[t]) : cur[t].pid < inQueue[t][i].pid
    /\ \A i \in 1..Len(done), j \in 1..Len(outQueue[t]) :
          done[i].kind # "job" /\ done[i].from = t => done[i].pid < outQueue[t][j].pid

\* drain() never returns while a message that was queued or in progress when
\* it was called is unprocessed, unless the thread is dead.
DrainWaitsForQueued ==
  [][(mpc \in DrainPc /\ mpc' = "user")
       => (~alive[target] \/ snapshot \cap Unprocessed(target)' = {})]_vars

\* A worker that has a message in hand is marked as dispatching: what lets
\* drain() and pool selection trust the flag (#231).
DispatchingWhileBusy == \A t \in Thread : cur[t] # NoMsg => dispatching[t]

\* A reply can only be tagged with the message its actor is handling now, so a
\* stashed thread value replies to nothing.
ReplyTxnScoped ==
  \A a \in Actor :
    replyTxn[a] # 0 =>
      LET m == IF a = Main THEN mcur ELSE cur[a]
      IN m.kind = "ordinary" /\ m.txn = replyTxn[a] /\ (a # Main => pc[a] = "handle")

\* A callback runs on main if main asked or was asked, else on the worker that
\* asked, and on no other OS thread (#222).
CallbackOnItsThread ==
  [][\A x \in Txn :
       fires'[x] # fires[x] =>
         IF Main \in {asker[x], asked[x]}
         THEN mpc = "deliver" /\ mpc' = "user"
         ELSE pc[asker[x]] = "got" /\ pc'[asker[x]] = "callback"]_vars

\* After kill() no callback of the killed thread runs, or is handed to the
\* async-io pool, other than one whose reply had been handed over before.
OnlyMarshaledAfterKill ==
  [][\A x \in askerKilled :
       /\ Marshaled(x)' => Marshaled(x)
       /\ fires'[x] # fires[x] =>
            done # << >> /\ Head(done).kind = "job" /\ Head(done).txn = x]_vars

\* The process never ends while a worker still runs.
NoOrphanThread == mpc = "ended" => \A t \in Thread : pc[t] = "dead" /\ cur[t] = NoMsg

\* Main, blocked in drain(), in kill() or in the kills at the program's end, always
\* comes back: the worker it waits for is woken from its sleep and wakes main
\* (festina_thread_wait_drained, festina_thread_kill).
MainReturns ==
  /\ mpc \in DrainPc ~> mpc = "user"
  /\ mpc \in KillPc ~> mpc \in {"user", "ended"}

Holds(q, p) == \E i \in 1..Len(q) : q[i].pid = p

\* A message queued for a live thread is taken, or discarded by kill(): no lost
\* wake-up leaves a worker asleep on a full queue.  What a thread sent to main is
\* delivered while main's loop runs.
QueuesServed ==
  \A p \in Payload, t \in Thread :
    /\ alive[t] /\ Holds(inQueue[t], p) ~> ~Holds(inQueue[t], p)
    /\ Holds(outQueue[t], p) ~> ~Holds(outQueue[t], p) \/ mpc = "ended"

\* The loop outlives every marshaled callback, unless close() or a signal ends it.
MarshaledServed ==
  \A x \in Txn : Marshaled(x) ~> fires[x] = 1 \/ stage \in {"onExit", "killAll"}

=============================================================================
