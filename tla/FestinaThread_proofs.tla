----------------------- MODULE FestinaThread_proofs -----------------------
(***************************************************************************)
(* Proofs about FestinaThread for every set of threads, every registry,    *)
(* every vocabulary of calls and every bound: type correctness, and, each  *)
(* from an inductive strengthening of its own, what a worker has in hand,  *)
(* the program's end, the ambient reply transaction and the tail pointers  *)
(* of the lists of callbacks; then the order of messages and the fate of   *)
(* callbacks and payloads.                                                 *)
(***************************************************************************)
EXTENDS FestinaThread, FiniteSetTheorems, WellFoundedInduction, TLAPS

(***************************************************************************)
(* The pending-callback lists.                                             *)
(***************************************************************************)

\* A nonempty set of transaction ids has a largest one.
LEMMA MaxTxnExists ==
  ASSUME NEW S, S \subseteq Txn, S # {}
  PROVE  \E x \in S : \A y \in S : y <= x
<1> DEFINE T == {MaxTxn - x : x \in S}
<1>1. MaxTxn \in Nat
  BY ThreadAssumption
<1>2. T \subseteq Nat /\ T # {}
  <2>1. \A x \in S : MaxTxn - x \in Nat
    BY <1>1 DEF Txn
  <2>2. PICK x \in S : TRUE
    OBVIOUS
  <2>3. MaxTxn - x \in T
    BY <2>2
  <2>4. QED
    BY <2>1, <2>3
<1>3. PICK m \in T : \A n \in T : ~ (<<n, m>> \in OpToRel(<, Nat))
  BY <1>2, NatLessThanWellFounded, WFMin
<1>4. \A n \in T : m <= n
  <2> SUFFICES ASSUME NEW n \in T, n < m PROVE FALSE
    BY <1>2
  <2>1. <<n, m>> \in OpToRel(<, Nat)
    <3>1. n \in Nat /\ m \in Nat /\ n < m
      BY <1>2
    <3> HIDE DEF T
    <3>2. QED
      BY <3>1 DEF OpToRel
  <2>2. QED
    BY <1>3, <2>1
<1>5. PICK x \in S : m = MaxTxn - x
  BY <1>3
<1>6. \A y \in S : MaxTxn - x <= MaxTxn - y
  BY <1>4, <1>5
<1>7. QED
  BY <1>1, <1>5, <1>6 DEF Txn

\* The tail pointer always names a transaction or is NULL.
LEMMA TailTyped ==
  ASSUME NEW cbs \in SUBSET Callback, NEW tail \in 0..MaxTxn, NEW txn
  PROVE  TailAfterUnlink(cbs, tail, txn) \in 0..MaxTxn
<1> DEFINE rest == {cb \in cbs : cb.txn # txn}
<1>1. Txns(rest) \subseteq Txn
  BY DEF Txns, Callback
<1>2. CASE rest = {}
  BY <1>2, ThreadAssumption DEF TailAfterUnlink, LastTxn
<1>3. CASE rest # {}
  <2>1. Txns(rest) # {}
    BY <1>3 DEF Txns
  <2>2. \E x \in Txns(rest) : \A y \in Txns(rest) : y <= x
    BY <1>1, <2>1, MaxTxnExists
  <2>3. LastTxn(rest) \in Txns(rest)
    BY <1>3, <2>2 DEF LastTxn
  <2>4. QED
    BY <1>1, <2>3, ThreadAssumption DEF TailAfterUnlink, Txn
<1>4. QED
  BY <1>2, <1>3

(***************************************************************************)
(* Type correctness.                                                       *)
(***************************************************************************)

\* What a program may box is a message.
LEMMA BoxedTyped ==
  ASSUME TypeOK, Box, NEW kind \in Kinds, NEW from \in Actor, NEW txn \in 0..MaxTxn
  PROVE  Boxed(kind, from, txn) \in Msg /\ nextPid' \in 1..MaxMessages + 1
BY ThreadAssumption DEF TypeOK, CountersOK, Box, Boxed, Msg

LEMMA NoMsgTyped == NoMsg \in Msg
BY ThreadAssumption DEF NoMsg, Msg, Kinds, Actor

\* The release counters stay natural numbers.
LEMMA ReleaseTyped ==
  ASSUME TypeOK, NEW pids, Release(pids)
  PROVE  freed' \in [Payload -> Nat]
BY DEF TypeOK, HistoryOK, Release

LEMMA UnlinkTyped ==
  ASSUME TypeOK, NEW a \in Actor, NEW txn, Unlink(a, txn)
  PROVE  pending' \in [Actor -> SUBSET Callback] /\ pendingTail' \in [Actor -> 0..MaxTxn]
<1>1. TailAfterUnlink(pending[a], pendingTail[a], txn) \in 0..MaxTxn
  BY TailTyped DEF TypeOK, ListsOK
<1>2. {cb \in pending[a] : cb.txn # txn} \in SUBSET Callback
  BY DEF TypeOK, ListsOK
<1>3. QED
  BY <1>1, <1>2 DEF TypeOK, ListsOK, Unlink

LEMMA RegisterTyped ==
  ASSUME TypeOK, NEW a \in Actor, NEW dest \in Actor, NEW onMain \in BOOLEAN,
         RegisterCallback(a, dest, onMain)
  PROVE  /\ pending' \in [Actor -> SUBSET Callback] /\ pendingTail' \in [Actor -> 0..MaxTxn]
         /\ nextTxn' \in 1..MaxTxn + 1 /\ nextTxn \in Txn
         /\ asker' \in [Txn -> Actor] /\ asked' \in [Txn -> Actor]
<1>1. nextTxn \in Txn /\ nextTxn' \in 1..MaxTxn + 1
  BY ThreadAssumption DEF TypeOK, CountersOK, RegisterCallback, Txn
<1>2. [txn |-> nextTxn, onMain |-> onMain] \in Callback
  BY <1>1 DEF Callback
<1>3. LinkAtTail(pending[a], pendingTail[a], [txn |-> nextTxn, onMain |-> onMain]) \in SUBSET Callback
  BY <1>2 DEF TypeOK, ListsOK, LinkAtTail
<1>4. pending' \in [Actor -> SUBSET Callback] /\ pendingTail' \in [Actor -> 0..MaxTxn]
  BY <1>1, <1>3 DEF TypeOK, ListsOK, RegisterCallback, Txn
<1>5. asker' \in [Txn -> Actor] /\ asked' \in [Txn -> Actor]
  BY <1>1 DEF TypeOK, HistoryOK, RegisterCallback
<1>6. QED
  BY <1>1, <1>4, <1>5

LEMMA SelfTyped == \A a \in Actor : Self(a) \in Actor
BY DEF Self, Actor

LEMMA UnprocessedTyped ==
  ASSUME TypeOK, NEW t \in Thread
  PROVE  Unprocessed(t) \in SUBSET (0..MaxMessages)
<1>1. \A i \in 1..Len(inQueue[t]) : inQueue[t][i] \in Msg
  BY DEF TypeOK, QueuesOK
<1>2. cur[t] \in Msg
  BY DEF TypeOK, WorkerOK
<1>3. \A m \in Msg : m.pid \in 0..MaxMessages
  BY DEF Msg
<1>4. QED
  BY <1>1, <1>2, <1>3 DEF Unprocessed

\* What the assumptions on the constants say, in the form the steps use.
LEMMA Bounds ==
  /\ MaxTxn \in Nat /\ MaxMessages \in Nat /\ MaxCalls \in Nat
  /\ 0 \in 0..MaxTxn /\ 0 \in 0..MaxMessages
BY ThreadAssumption

LEMMA RegistryTyped ==
  /\ Len(Registry) \in Nat /\ 1 \in 1..Len(Registry) /\ 1 \in 1..Len(Registry) + 1
  /\ \A i \in 1..Len(Registry) : Registry[i] \in Thread
BY ThreadAssumption

\* A queue of messages stays one.
LEMMA QueueTyped ==
  ASSUME NEW q \in Seq(Msg)
  PROVE  /\ q # << >> => Head(q) \in Msg /\ Tail(q) \in Seq(Msg)
         /\ \A m \in Msg : Append(q, m) \in Seq(Msg)
OBVIOUS

\* The fields of a message that user code and the dispatch read.
LEMMA FieldsTyped ==
  ASSUME NEW m \in Msg
  PROVE  /\ m.txn \in 0..MaxTxn /\ m.pid \in 0..MaxMessages /\ m.from \in Actor
         /\ [m EXCEPT !.kind = "job"] \in Msg
BY DEF Msg, Kinds

\* A cleared or newly started worker is at a known place.
LEMMA WorkerPcs ==
  /\ \A p \in WorkerPc : Woken(p) \in WorkerPc /\ PcAfter(p) \in WorkerPc
  /\ {"look", "wait", "got", "final", "dead", "load", "handle", "callback", "give", "service", "exit"}
       \subseteq WorkerPc
BY DEF Woken, PcAfter, WorkerPc, UserPc

\* Every reachable state is well typed.
THEOREM TypeCorrect == Spec => []TypeOK
<1> USE DEF queues, flags, lists, worker, main, pool, counters, history
<1>1. Init => TypeOK
  <2> SUFFICES ASSUME Init PROVE TypeOK
    OBVIOUS
  <2>1. Registry[1] \in Thread /\ 1 \in 1..Len(Registry) + 1
    BY ThreadAssumption
  <2>2. QED
    BY <2>1, NoMsgTyped, ThreadAssumption
    DEF Init, TypeOK, QueuesOK, FlagsOK, ListsOK, WorkerOK, ActorsOK, MainOK, PoolOK, CountersOK,
        HistoryOK, Actor, WorkerPc, UserPc, MainPc, Stage, Txn, Payload
<1>2. TypeOK /\ [Next]_vars => TypeOK'
  <2> SUFFICES ASSUME TypeOK, [Next]_vars PROVE TypeOK'
    OBVIOUS
  <2> USE Bounds, RegistryTyped
  <2>1. ASSUME NEW t \in Thread, TryDispatchOne(t) PROVE TypeOK'
    <3>1. ListsOK' /\ ActorsOK' /\ PoolOK' /\ CountersOK' /\ HistoryOK'
      BY <2>1 DEF TypeOK, TryDispatchOne, ListsOK, ActorsOK, PoolOK, CountersOK, HistoryOK
    <3>2. QueuesOK'
      <4>1. \/ inQueue' = inQueue
            \/ inQueue[t] # << >> /\ inQueue' = [inQueue EXCEPT ![t] = Tail(inQueue[t])]
        BY <2>1 DEF TryDispatchOne
      <4>2. outQueue' = outQueue
        BY <2>1 DEF TryDispatchOne
      <4>3. inQueue[t] # << >> => Tail(inQueue[t]) \in Seq(Msg)
        BY DEF TypeOK, QueuesOK
      <4>4. QED
        BY <4>1, <4>2, <4>3 DEF TypeOK, QueuesOK
    <3>3. FlagsOK'
      BY <2>1 DEF TypeOK, FlagsOK, TryDispatchOne, NoteDispatchFinished, DispatchingAfterTake
    <3>4. WorkerOK'
      <4>1. \E p \in WorkerPc : pc' = [pc EXCEPT ![t] = p]
        BY <2>1, WorkerPcs DEF TryDispatchOne
      <4>2. \/ cur' = cur
            \/ inQueue[t] # << >> /\ cur' = [cur EXCEPT ![t] = Head(inQueue[t])]
        BY <2>1 DEF TryDispatchOne
      <4>3. QED
        <5>1. inQueue[t] # << >> => Head(inQueue[t]) \in Msg
          BY DEF TypeOK, QueuesOK
        <5>2. pc' \in [Thread -> WorkerPc]
          BY <4>1 DEF TypeOK, WorkerOK
        <5>3. cur' \in [Thread -> Msg]
          BY <4>2, <5>1 DEF TypeOK, WorkerOK
        <5>4. QED
          BY <5>2, <5>3 DEF WorkerOK
    <3>5. MainOK'
      BY <2>1 DEF TypeOK, MainOK, TryDispatchOne, NoteDispatchFinished, MainAfterBroadcast,
         MainPc, DrainPc
    <3>6. QED
      BY <3>1, <3>2, <3>3, <3>4, <3>5 DEF TypeOK
  <2>2. ASSUME NEW t \in Thread, Dispatch(t) PROVE TypeOK'
    <3>1. QueuesOK' /\ FlagsOK' /\ MainOK' /\ CountersOK'
      BY <2>2 DEF TypeOK, Dispatch, QueuesOK, FlagsOK, MainOK, CountersOK
    <3>2. ListsOK'
      BY <2>2, UnlinkTyped DEF TypeOK, ListsOK, Dispatch, DispatchReply, Actor
    <3>3. WorkerOK'
      BY <2>2, NoMsgTyped DEF TypeOK, WorkerOK, Dispatch, DispatchReply, WorkerPc, UserPc
    <3>4. ActorsOK'
      BY <2>2 DEF TypeOK, ActorsOK, Dispatch, DispatchReply, WorkerOK, Msg, Actor
    <3>5. PoolOK'
      BY <2>2 DEF TypeOK, PoolOK, Dispatch, DispatchReply, WorkerOK, Msg, Kinds
    <3>6. HistoryOK'
      <4>1. freed' = freed \/ Release(Dropped(cur[t].pid))
        BY <2>2 DEF Dispatch, DispatchReply
      <4>2. fires' = fires \/ fires' = [fires EXCEPT ![cur[t].txn] = @ + 1]
        BY <2>2 DEF Dispatch, DispatchReply, Fire
      <4>3. UNCHANGED <<asker, asked, askerKilled, snapshot>>
        BY <2>2 DEF Dispatch
      <4>4. freed' \in [Payload -> Nat] /\ fires' \in [Txn -> Nat]
        BY <4>1, <4>2, ReleaseTyped DEF TypeOK, HistoryOK
      <4>5. QED
        BY <4>3, <4>4 DEF TypeOK, HistoryOK
    <3>7. QED
      BY <3>1, <3>2, <3>3, <3>4, <3>5, <3>6 DEF TypeOK
  <2>3. ASSUME NEW t \in Thread, HandlerReturns(t) PROVE TypeOK'
    <3>1. QueuesOK' /\ FlagsOK' /\ ListsOK' /\ MainOK' /\ PoolOK' /\ CountersOK'
      BY <2>3 DEF TypeOK, HandlerReturns, QueuesOK, FlagsOK, ListsOK, MainOK, PoolOK, CountersOK
    <3>2. WorkerOK'
      BY <2>3, NoMsgTyped, WorkerPcs DEF TypeOK, WorkerOK, HandlerReturns
    <3>3. ActorsOK'
      BY <2>3 DEF TypeOK, ActorsOK, HandlerReturns, ReplyTxnAfter
    <3>4. HistoryOK'
      BY <2>3, ReleaseTyped DEF TypeOK, HistoryOK, HandlerReturns
    <3>5. QED
      BY <3>1, <3>2, <3>3, <3>4 DEF TypeOK
  <2>4. ASSUME NEW t \in Thread, WorkerStops(t) PROVE TypeOK'
    <3>1. QueuesOK' /\ ListsOK' /\ ActorsOK' /\ PoolOK' /\ CountersOK' /\ HistoryOK'
      BY <2>4 DEF TypeOK, WorkerStops, QueuesOK, ListsOK, ActorsOK, PoolOK, CountersOK, HistoryOK
    <3>2. FlagsOK'
      BY <2>4 DEF TypeOK, FlagsOK, WorkerStops
    <3>3. WorkerOK'
      BY <2>4 DEF TypeOK, WorkerOK, WorkerStops, WorkerPc
    <3>4. MainOK'
      BY <2>4 DEF TypeOK, MainOK, WorkerStops, MainAfterBroadcast, MainPc, DrainPc
    <3>5. QED
      BY <3>1, <3>2, <3>3, <3>4 DEF TypeOK
  <2>5. ASSUME NEW t \in Thread, SpuriousWakeup(t) PROVE TypeOK'
    <3>1. QueuesOK' /\ FlagsOK' /\ ListsOK' /\ ActorsOK' /\ MainOK' /\ PoolOK' /\ CountersOK' /\ HistoryOK'
      BY <2>5 DEF TypeOK, SpuriousWakeup, QueuesOK, FlagsOK, ListsOK, ActorsOK, MainOK,
         PoolOK, CountersOK, HistoryOK
    <3>2. WorkerOK'
      BY <2>5 DEF TypeOK, WorkerOK, SpuriousWakeup, WorkerPc
    <3>3. QED
      BY <3>1, <3>2 DEF TypeOK
  <2>6. ASSUME NEW a \in Actor, Signal(a) PROVE TypeOK'
    <3>1. QueuesOK' /\ FlagsOK' /\ ListsOK' /\ MainOK' /\ PoolOK' /\ CountersOK' /\ HistoryOK'
      BY <2>6 DEF TypeOK, Signal, QueuesOK, FlagsOK, ListsOK, MainOK, PoolOK, CountersOK, HistoryOK
    <3>2. WorkerOK'
      <4>1. signal[a] \in Thread /\ cur' = cur /\ pc' = [pc EXCEPT ![signal[a]] = Woken(pc[signal[a]])]
        BY <2>6 DEF TypeOK, ActorsOK, Signal, Actor
      <4>2. QED
        BY <4>1, WorkerPcs DEF TypeOK, WorkerOK
    <3>3. ActorsOK'
      BY <2>6 DEF TypeOK, ActorsOK, Signal, Actor
    <3>4. QED
      BY <3>1, <3>2, <3>3 DEF TypeOK
  <2>7. ASSUME NEW a \in Actor, NEW t \in Thread, Post(a, t) PROVE TypeOK'
    <3>1. FlagsOK' /\ WorkerOK' /\ MainOK' /\ PoolOK'
      BY <2>7 DEF TypeOK, Post, FlagsOK, WorkerOK, MainOK, PoolOK
    <3>2. QueuesOK'
      <4>1. \E m \in Msg : inQueue' = [inQueue EXCEPT ![t] = Append(inQueue[t], m)]
        <5>1. CASE NoCallback /\ inQueue' = [inQueue EXCEPT ![t] = Enqueue(@, Boxed("ordinary", Self(a), 0))]
          <6>1. Boxed("ordinary", Self(a), 0) \in Msg
            BY <2>7, BoxedTyped, SelfTyped DEF Post, Kinds
          <6>2. QED
            BY <5>1, <6>1 DEF Enqueue
        <5>2. CASE RegisterCallback(a, t, FALSE)
                   /\ inQueue' = [inQueue EXCEPT ![t] = Enqueue(@, Boxed("ordinary", a, nextTxn))]
          <6>1. nextTxn \in 0..MaxTxn
            BY <5>2 DEF TypeOK, CountersOK, RegisterCallback
          <6>2. Boxed("ordinary", a, nextTxn) \in Msg
            BY <2>7, <6>1, BoxedTyped DEF Post, Kinds
          <6>3. QED
            BY <5>2, <6>2 DEF Enqueue
        <5>3. QED
          BY <2>7, <5>1, <5>2 DEF Post
      <4>2. outQueue' = outQueue
        BY <2>7 DEF Post
      <4>3. QED
        BY <4>1, <4>2, QueueTyped DEF TypeOK, QueuesOK
    <3>3. ListsOK'
      BY <2>7, RegisterTyped DEF TypeOK, ListsOK, Post, NoCallback, Actor
    <3>4. ActorsOK'
      BY <2>7 DEF TypeOK, ActorsOK, Post, SignalTarget, Actor
    <3>5. CountersOK'
      BY <2>7 DEF TypeOK, CountersOK, Post, NoCallback, RegisterCallback, Box
    <3>6. HistoryOK'
      BY <2>7, RegisterTyped DEF TypeOK, HistoryOK, Post, NoCallback, Actor
    <3>7. QED
      BY <3>1, <3>2, <3>3, <3>4, <3>5, <3>6 DEF TypeOK
  <2>8. ASSUME NEW t \in Thread, PostOutbound(t) PROVE TypeOK'
    <3>1. FlagsOK' /\ WorkerOK' /\ ActorsOK' /\ MainOK' /\ PoolOK'
      BY <2>8 DEF TypeOK, PostOutbound, FlagsOK, WorkerOK, ActorsOK, MainOK, PoolOK
    <3>2. QueuesOK'
      <4>1. \E m \in Msg : outQueue' = [outQueue EXCEPT ![t] = Append(outQueue[t], m)]
        <5>1. \E x \in 0..MaxTxn :
                outQueue' = [outQueue EXCEPT ![t] = Append(@, Boxed("ordinary", t, x))]
          BY <2>8 DEF PostOutbound, RegisterCallback, TypeOK, CountersOK
        <5>2. \A x \in 0..MaxTxn : Boxed("ordinary", t, x) \in Msg
          BY <2>8, BoxedTyped DEF PostOutbound, Kinds, Actor
        <5>3. QED
          BY <5>1, <5>2
      <4>2. inQueue' = inQueue
        BY <2>8 DEF PostOutbound
      <4>3. QED
        BY <4>1, <4>2, QueueTyped DEF TypeOK, QueuesOK
    <3>3. ListsOK'
      BY <2>8, RegisterTyped DEF TypeOK, ListsOK, PostOutbound, NoCallback, Actor
    <3>4. CountersOK'
      BY <2>8 DEF TypeOK, CountersOK, PostOutbound, NoCallback, RegisterCallback, Box
    <3>5. HistoryOK'
      BY <2>8, RegisterTyped DEF TypeOK, HistoryOK, PostOutbound, NoCallback, Actor
    <3>6. QED
      BY <3>1, <3>2, <3>3, <3>4, <3>5 DEF TypeOK
  <2>9. ASSUME NEW a \in Actor, NEW dest \in Actor, Reply(a, dest) PROVE TypeOK'
    <3>1. FlagsOK' /\ ListsOK' /\ WorkerOK' /\ MainOK' /\ PoolOK'
      BY <2>9 DEF TypeOK, Reply, FlagsOK, ListsOK, WorkerOK, MainOK, PoolOK
    <3>2. QueuesOK'
      <4>1. Boxed("reply", a, replyTxn[a]) \in Msg
        BY <2>9, BoxedTyped DEF TypeOK, ActorsOK, Reply, Kinds
      <4>2. inQueue' = inQueue
            \/ \E t \in Thread :
                 inQueue' = [inQueue EXCEPT ![t] = Append(inQueue[t], Boxed("reply", a, replyTxn[a]))]
        BY <2>9 DEF Reply, Enqueue, Actor
      <4>3. outQueue' = outQueue
            \/ outQueue' = [outQueue EXCEPT ![a] = Append(outQueue[a], Boxed("reply", a, replyTxn[a]))]
        BY <2>9 DEF Reply
      <4>4. \A t \in Thread : Append(inQueue[t], Boxed("reply", a, replyTxn[a])) \in Seq(Msg)
        BY <4>1 DEF TypeOK, QueuesOK
      <4>5. a \in Thread => Append(outQueue[a], Boxed("reply", a, replyTxn[a])) \in Seq(Msg)
        BY <4>1 DEF TypeOK, QueuesOK
      <4>6. inQueue' \in [Thread -> Seq(Msg)]
        <5>1. CASE inQueue' = inQueue
          BY <5>1 DEF TypeOK, QueuesOK
        <5>2. ASSUME NEW t \in Thread,
                     inQueue' = [inQueue EXCEPT ![t] = Append(inQueue[t], Boxed("reply", a, replyTxn[a]))]
              PROVE  inQueue' \in [Thread -> Seq(Msg)]
          BY <5>2, <4>4 DEF TypeOK, QueuesOK
        <5>3. QED
          BY <4>2, <5>1, <5>2
      <4>7. outQueue' \in [Thread -> Seq(Msg)]
        BY <4>3, <4>5 DEF TypeOK, QueuesOK
      <4>8. QED
        BY <4>6, <4>7 DEF QueuesOK
    <3>3. ActorsOK'
      <4>1. signal' = signal \/ signal' = [signal EXCEPT ![a] = dest]
        BY <2>9 DEF Reply, SignalTarget
      <4>2. replyTxn' = replyTxn
        BY <2>9 DEF Reply
      <4>3. QED
        BY <4>1, <4>2 DEF TypeOK, ActorsOK
    <3>4. CountersOK'
      BY <2>9 DEF TypeOK, CountersOK, Reply, Box
    <3>5. HistoryOK'
      BY <2>9, ReleaseTyped DEF TypeOK, HistoryOK, Reply
    <3>6. QED
      BY <3>1, <3>2, <3>3, <3>4, <3>5 DEF TypeOK
  <2>10. ASSUME NEW t \in Thread, GiveRequest(t) PROVE TypeOK'
    <3>1. FlagsOK' /\ ListsOK' /\ WorkerOK' /\ MainOK' /\ PoolOK' /\ HistoryOK'
      BY <2>10 DEF TypeOK, GiveRequest, FlagsOK, ListsOK, WorkerOK, MainOK, PoolOK, HistoryOK
    <3>2. QueuesOK'
      <4>1. Boxed("giveRequest", Main, 0) \in Msg
        BY <2>10, BoxedTyped DEF GiveRequest, Kinds, Actor
      <4>2. QED
        BY <2>10, <4>1, QueueTyped DEF TypeOK, QueuesOK, GiveRequest, Enqueue
    <3>3. ActorsOK'
      BY <2>10 DEF TypeOK, ActorsOK, GiveRequest, SignalTarget, Actor
    <3>4. CountersOK'
      BY <2>10 DEF TypeOK, CountersOK, GiveRequest, Box
    <3>5. QED
      BY <3>1, <3>2, <3>3, <3>4 DEF TypeOK
  <2>11. ASSUME NEW j \in jobs, PoolWork(j) PROVE TypeOK'
    <3>1. QueuesOK' /\ FlagsOK' /\ ListsOK' /\ WorkerOK' /\ ActorsOK' /\ MainOK' /\ CountersOK' /\ HistoryOK'
      BY <2>11 DEF TypeOK, PoolWork, QueuesOK, FlagsOK, ListsOK, WorkerOK, ActorsOK, MainOK,
         CountersOK, HistoryOK
    <3>2. PoolOK'
      BY <2>11 DEF TypeOK, PoolOK, PoolWork
    <3>3. QED
      BY <3>1, <3>2 DEF TypeOK
  <2>12. ASSUME NEW t \in Thread, Live(t) PROVE TypeOK'
    <3>1. QueuesOK' /\ ListsOK' /\ ActorsOK' /\ MainOK' /\ PoolOK' /\ HistoryOK'
      BY <2>12 DEF TypeOK, Live, QueuesOK, ListsOK, ActorsOK, MainOK, PoolOK, HistoryOK
    <3>2. FlagsOK'
      <4>1. killRequested' = killRequested \/ killRequested' = [killRequested EXCEPT ![t] = FALSE]
        BY <2>12 DEF Live
      <4>2. alive' = alive \/ alive' = [alive EXCEPT ![t] = TRUE]
        BY <2>12 DEF Live
      <4>3. UNCHANGED <<dispatching, drainWaiters>>
        BY <2>12 DEF Live
      <4>4. QED
        BY <4>1, <4>2, <4>3 DEF TypeOK, FlagsOK
    <3>3. WorkerOK'
      BY <2>12 DEF TypeOK, WorkerOK, Live, WorkerPc, UserPc
    <3>4. CountersOK'
      BY <2>12 DEF TypeOK, CountersOK, Live, Call
    <3>5. QED
      BY <3>1, <3>2, <3>3, <3>4 DEF TypeOK
  <2>13. ASSUME NEW t \in Thread, Drain(t) PROVE TypeOK'
    <3>1. QueuesOK' /\ FlagsOK' /\ ListsOK' /\ WorkerOK' /\ ActorsOK' /\ PoolOK'
      BY <2>13 DEF TypeOK, Drain, QueuesOK, FlagsOK, ListsOK, WorkerOK, ActorsOK, PoolOK
    <3>2. MainOK'
      BY <2>13 DEF TypeOK, MainOK, Drain, MainPc, DrainPc
    <3>3. CountersOK'
      BY <2>13 DEF TypeOK, CountersOK, Drain, Call
    <3>4. HistoryOK'
      BY <2>13, UnprocessedTyped DEF TypeOK, HistoryOK, Drain
    <3>5. QED
      BY <3>1, <3>2, <3>3, <3>4 DEF TypeOK
  <2>14. ASSUME NEW t \in Thread, Kill(t) PROVE TypeOK'
    <3>1. QueuesOK' /\ FlagsOK' /\ ListsOK' /\ WorkerOK' /\ ActorsOK' /\ PoolOK' /\ HistoryOK'
      BY <2>14 DEF TypeOK, Kill, QueuesOK, FlagsOK, ListsOK, WorkerOK, ActorsOK, PoolOK, HistoryOK
    <3>2. MainOK'
      BY <2>14 DEF TypeOK, MainOK, Kill, MainPc, KillPc
    <3>3. CountersOK'
      BY <2>14 DEF TypeOK, CountersOK, Kill, Call
    <3>4. QED
      BY <3>1, <3>2, <3>3 DEF TypeOK
  <2>15. ASSUME Close PROVE TypeOK'
    <3>1. QueuesOK' /\ FlagsOK' /\ ListsOK' /\ WorkerOK' /\ ActorsOK' /\ PoolOK' /\ CountersOK' /\ HistoryOK'
      BY <2>15 DEF TypeOK, Close, QueuesOK, FlagsOK, ListsOK, WorkerOK, ActorsOK, PoolOK,
         CountersOK, HistoryOK
    <3>2. MainOK'
      BY <2>15 DEF TypeOK, MainOK, Close, Stage
    <3>3. QED
      BY <3>1, <3>2 DEF TypeOK
  <2>16. ASSUME UserReturns PROVE TypeOK'
    <3>1. QueuesOK' /\ FlagsOK' /\ ListsOK' /\ WorkerOK' /\ PoolOK' /\ CountersOK'
      BY <2>16 DEF TypeOK, UserReturns, QueuesOK, FlagsOK, ListsOK, WorkerOK, PoolOK, CountersOK
    <3>2. MainOK'
      <4>1. at' = at \/ at' = 1
        BY <2>16 DEF UserReturns, FirstHandle
      <4>2. target' = target \/ target' = Registry[1]
        BY <2>16 DEF UserReturns, FirstHandle
      <4>3. mcur' = mcur \/ mcur' = NoMsg
        BY <2>16 DEF UserReturns
      <4>4. mpc' \in MainPc /\ stage' \in Stage
        BY <2>16 DEF TypeOK, MainOK, UserReturns, MainPc, KillPc, Stage
      <4>5. done' = done
        BY <2>16 DEF UserReturns
      <4>6. Registry[1] \in Thread /\ 1 \in 1..Len(Registry) + 1
        OBVIOUS
      <4>7. QED
        BY <4>1, <4>2, <4>3, <4>4, <4>5, <4>6, NoMsgTyped DEF TypeOK, MainOK
    <3>3. ActorsOK'
      <4>1. signal' = signal /\ (replyTxn' = replyTxn \/ replyTxn' = [replyTxn EXCEPT ![Main] = 0])
        BY <2>16 DEF UserReturns, ReplyTxnAfter
      <4>2. QED
        BY <4>1, SMTT(30) DEF TypeOK, ActorsOK
    <3>4. HistoryOK'
      BY <2>16, ReleaseTyped DEF TypeOK, HistoryOK, UserReturns
    <3>5. QED
      BY <3>1, <3>2, <3>3, <3>4 DEF TypeOK
  <2>17. ASSUME LoopTop PROVE TypeOK'
    <3>1. QueuesOK' /\ FlagsOK' /\ ListsOK' /\ WorkerOK' /\ ActorsOK' /\ PoolOK' /\ CountersOK' /\ HistoryOK'
      BY <2>17 DEF TypeOK, LoopTop, QueuesOK, FlagsOK, ListsOK, WorkerOK, ActorsOK, PoolOK,
         CountersOK, HistoryOK
    <3>2. MainOK'
      BY <2>17 DEF TypeOK, MainOK, LoopTop, MainPc, Stage
    <3>3. QED
      BY <3>1, <3>2 DEF TypeOK
  <2>18. ASSUME Gather PROVE TypeOK'
    <3>1. FlagsOK' /\ ListsOK' /\ WorkerOK' /\ ActorsOK' /\ CountersOK' /\ HistoryOK'
      BY <2>18 DEF TypeOK, Gather, FlagsOK, ListsOK, WorkerOK, ActorsOK, CountersOK, HistoryOK
    <3>2. QueuesOK'
      <4>1. inQueue' = inQueue
        BY <2>18 DEF Gather
      <4>2. outQueue' = outQueue \/ \E t \in Thread : outQueue' = [outQueue EXCEPT ![t] = << >>]
        <5>1. at \in 1..Len(Registry) => Registry[at] \in Thread
          OBVIOUS
        <5>2. QED
          BY <2>18, <5>1 DEF TypeOK, MainOK, Gather
      <4>3. << >> \in Seq(Msg)
        OBVIOUS
      <4>4. outQueue' \in [Thread -> Seq(Msg)]
        BY <4>2, <4>3 DEF TypeOK, QueuesOK
      <4>5. QED
        BY <4>1, <4>4 DEF TypeOK, QueuesOK
    <3>3. MainOK'
      <4>1. at \in 1..Len(Registry) => Registry[at] \in Thread
        OBVIOUS
      <4>2. done' \in Seq(Msg)
        BY <2>18, <4>1 DEF TypeOK, MainOK, PoolOK, QueuesOK, Gather
      <4>3. at' = at \/ (at <= Len(Registry) /\ at' = at + 1)
        BY <2>18 DEF Gather, NextHandle
      <4>4. at' \in 1..Len(Registry) + 1
        BY <4>3 DEF TypeOK, MainOK
      <4>5. mpc' \in MainPc /\ UNCHANGED <<stage, target, mcur>>
        BY <2>18 DEF Gather, MainPc
      <4>6. QED
        BY <4>2, <4>4, <4>5 DEF TypeOK, MainOK
    <3>4. PoolOK'
      <4>1. jobs' = jobs /\ (completed' = completed \/ completed' = << >>)
        BY <2>18 DEF Gather
      <4>2. << >> \in Seq(Msg)
        OBVIOUS
      <4>3. QED
        BY <4>1, <4>2 DEF TypeOK, PoolOK
    <3>5. QED
      BY <3>1, <3>2, <3>3, <3>4 DEF TypeOK
  <2>19. ASSUME ListDone PROVE TypeOK'
    <3>1. QueuesOK' /\ FlagsOK' /\ ListsOK' /\ WorkerOK' /\ ActorsOK' /\ PoolOK' /\ CountersOK' /\ HistoryOK'
      BY <2>19 DEF TypeOK, ListDone, QueuesOK, FlagsOK, ListsOK, WorkerOK, ActorsOK, PoolOK,
         CountersOK, HistoryOK
    <3>2. MainOK'
      <4>1. 1 \in 1..Len(Registry) + 1
        OBVIOUS
      <4>2. QED
        BY <2>19, <4>1 DEF TypeOK, MainOK, ListDone, FirstHandle, MainPc, Stage
    <3>3. QED
      BY <3>1, <3>2 DEF TypeOK
  <2>20. ASSUME Deliver PROVE TypeOK'
    <3>1. QueuesOK' /\ FlagsOK' /\ WorkerOK' /\ PoolOK' /\ CountersOK'
      BY <2>20 DEF TypeOK, Deliver, QueuesOK, FlagsOK, WorkerOK, PoolOK, CountersOK
    <3>2. ListsOK'
      BY <2>20, UnlinkTyped DEF TypeOK, ListsOK, Deliver, Actor
    <3>3. ActorsOK'
      <4>1. Head(done) \in Msg
        BY <2>20, QueueTyped DEF TypeOK, MainOK, Deliver
      <4>2. signal' = signal
            /\ (replyTxn' = replyTxn \/ replyTxn' = [replyTxn EXCEPT ![Main] = Head(done).txn])
        BY <2>20 DEF Deliver
      <4>3. QED
        BY <4>1, <4>2, FieldsTyped DEF TypeOK, ActorsOK
    <3>4. MainOK'
      BY <2>20 DEF TypeOK, MainOK, Deliver, MainPc
    <3>5. HistoryOK'
      <4>1. freed' = freed \/ Release(Dropped(Head(done).pid))
        BY <2>20 DEF Deliver
      <4>2. fires' = fires \/ fires' = [fires EXCEPT ![Head(done).txn] = @ + 1]
        BY <2>20 DEF Deliver, Fire
      <4>3. UNCHANGED <<asker, asked, askerKilled, snapshot>>
        BY <2>20 DEF Deliver
      <4>4. freed' \in [Payload -> Nat]
        BY <4>1, ReleaseTyped DEF TypeOK, HistoryOK
      <4>5. fires' \in [Txn -> Nat]
        BY <4>2 DEF TypeOK, HistoryOK
      <4>6. QED
        BY <4>3, <4>4, <4>5 DEF TypeOK, HistoryOK
    <3>6. QED
      BY <3>1, <3>2, <3>3, <3>4, <3>5 DEF TypeOK
  <2>21. ASSUME WaitDrained PROVE TypeOK'
    <3>1. QueuesOK' /\ ListsOK' /\ WorkerOK' /\ ActorsOK' /\ PoolOK' /\ CountersOK' /\ HistoryOK'
      BY <2>21 DEF TypeOK, WaitDrained, QueuesOK, ListsOK, WorkerOK, ActorsOK, PoolOK,
         CountersOK, HistoryOK
    <3>2. FlagsOK'
      <4>1. \E n \in Int : drainWaiters' = [drainWaiters EXCEPT ![target] = n]
        <5>1. drainWaiters[target] \in Int
          BY DEF TypeOK, FlagsOK, MainOK
        <5>2. QED
          BY <2>21, <5>1 DEF WaitDrained
      <4>2. UNCHANGED <<killRequested, alive, dispatching>>
        BY <2>21 DEF WaitDrained
      <4>3. QED
        BY <4>1, <4>2, ZenonT(60) DEF TypeOK, FlagsOK
    <3>3. MainOK'
      BY <2>21 DEF TypeOK, MainOK, WaitDrained, MainPc, DrainPc
    <3>4. QED
      BY <3>1, <3>2, <3>3 DEF TypeOK
  <2>22. ASSUME KillTest PROVE TypeOK'
    <3>1. QueuesOK' /\ ListsOK' /\ WorkerOK' /\ ActorsOK' /\ PoolOK' /\ CountersOK' /\ HistoryOK'
      BY <2>22 DEF TypeOK, KillTest, QueuesOK, ListsOK, WorkerOK, ActorsOK, PoolOK,
         CountersOK, HistoryOK
    <3>2. FlagsOK'
      BY <2>22 DEF TypeOK, FlagsOK, KillTest
    <3>3. MainOK'
      <4>1. (at' = at /\ target' = target)
            \/ (at < Len(Registry) /\ at' = at + 1 /\ target' = Registry[at + 1])
        BY <2>22 DEF KillTest, KillReturns, NextHandle
      <4>2. at' \in 1..Len(Registry) + 1 /\ target' \in Thread
        BY <4>1 DEF TypeOK, MainOK
      <4>3. mpc' \in MainPc
        BY <2>22 DEF KillTest, KillReturns, MainPc, KillPc
      <4>4. UNCHANGED <<stage, mcur, done>>
        BY <2>22 DEF KillTest
      <4>5. QED
        BY <4>2, <4>3, <4>4 DEF TypeOK, MainOK
    <3>4. QED
      BY <3>1, <3>2, <3>3 DEF TypeOK
  <2>23. ASSUME KillSignal PROVE TypeOK'
    <3>1. QueuesOK' /\ FlagsOK' /\ ListsOK' /\ ActorsOK' /\ PoolOK' /\ CountersOK' /\ HistoryOK'
      BY <2>23 DEF TypeOK, KillSignal, QueuesOK, FlagsOK, ListsOK, ActorsOK, PoolOK,
         CountersOK, HistoryOK
    <3>2. WorkerOK'
      BY <2>23, WorkerPcs DEF TypeOK, WorkerOK, MainOK, KillSignal
    <3>3. MainOK'
      BY <2>23 DEF TypeOK, MainOK, KillSignal, MainPc, KillPc
    <3>4. QED
      BY <3>1, <3>2, <3>3 DEF TypeOK
  <2>24. ASSUME Join PROVE TypeOK'
    <3>1. QueuesOK' /\ FlagsOK' /\ ListsOK' /\ WorkerOK' /\ ActorsOK' /\ PoolOK' /\ CountersOK' /\ HistoryOK'
      BY <2>24 DEF TypeOK, Join, QueuesOK, FlagsOK, ListsOK, WorkerOK, ActorsOK, PoolOK,
         CountersOK, HistoryOK
    <3>2. MainOK'
      BY <2>24 DEF TypeOK, MainOK, Join, MainPc, KillPc
    <3>3. QED
      BY <3>1, <3>2 DEF TypeOK
  <2>25. ASSUME Reap PROVE TypeOK'
    <3>1. WorkerOK' /\ ActorsOK' /\ PoolOK' /\ CountersOK'
      BY <2>25 DEF TypeOK, Reap, WorkerOK, ActorsOK, PoolOK, CountersOK
    <3>2. QueuesOK'
      <4>1. outQueue' = outQueue /\ inQueue' = [inQueue EXCEPT ![target] = << >>]
        BY <2>25 DEF Reap
      <4>2. QED
        BY <4>1 DEF TypeOK, QueuesOK, MainOK
    <3>3. FlagsOK'
      BY <2>25 DEF TypeOK, FlagsOK, Reap
    <3>4. ListsOK'
      <4>1. /\ pending' = [pending EXCEPT ![target] = {}]
            /\ pendingTail' = [pendingTail EXCEPT ![target] = 0]
        BY <2>25 DEF Reap, PendingAfterKill
      <4>2. QED
        BY <4>1 DEF TypeOK, ListsOK
    <3>5. MainOK'
      <4>1. (at' = at /\ target' = target)
            \/ (at < Len(Registry) /\ at' = at + 1 /\ target' = Registry[at + 1])
        BY <2>25 DEF Reap, KillReturns, NextHandle
      <4>2. at' \in 1..Len(Registry) + 1 /\ target' \in Thread
        BY <4>1 DEF TypeOK, MainOK
      <4>3. mpc' \in MainPc
        BY <2>25 DEF Reap, KillReturns, MainPc, KillPc
      <4>4. UNCHANGED <<stage, mcur, done>>
        BY <2>25 DEF Reap
      <4>5. QED
        BY <4>2, <4>3, <4>4 DEF TypeOK, MainOK
    <3>6. HistoryOK'
      BY <2>25, ReleaseTyped DEF TypeOK, HistoryOK, Reap, Unanswered
    <3>7. QED
      BY <3>1, <3>2, <3>3, <3>4, <3>5, <3>6 DEF TypeOK
  <2>26. CASE UNCHANGED vars
    BY <2>26 DEF TypeOK, QueuesOK, FlagsOK, ListsOK, WorkerOK, ActorsOK, MainOK, PoolOK,
       CountersOK, HistoryOK, vars
  <2>27. QED
    BY <2>1, <2>2, <2>3, <2>4, <2>5, <2>6, <2>7, <2>8, <2>9, <2>10, <2>11, <2>12, <2>13,
       <2>14, <2>15, <2>16, <2>17, <2>18, <2>19, <2>20, <2>21, <2>22, <2>23, <2>24, <2>25,
       <2>26        DEF Next, WorkerStep, MainStep, UserCall, LifeCycleCall, Ended
<1>3. QED
  BY <1>1, <1>2, PTL DEF Spec

(***************************************************************************)
(* What a worker has in hand.                                              *)
(***************************************************************************)

InHand == {"got", "handle", "callback", "give"}

\* A worker with a message in hand is marked as dispatching and stands where
\* the message is dispatched or handled.
Working == \A t \in Thread : cur[t] # NoMsg => dispatching[t] /\ pc[t] \in InHand

\* A handle is alive until its worker has finished its last step.
Living == \A t \in Thread : alive[t] <=> pc[t] # "dead"

LEMMA MainIsNoThread == Main \notin Thread /\ Main \in Actor /\ Thread \subseteq Actor
BY ThreadAssumption DEF Actor

\* What a step does to the workers it does not move.
Still == /\ UNCHANGED <<pc, cur, dispatching, alive>>
         /\ \A t \in Thread : replyTxn'[t] = replyTxn[t]

\* Everything else leaves the workers and what their flags say alone.
LEMMA WorkerMoves ==
  ASSUME TypeOK, [Next]_vars
  PROVE  \/ Still
         \/ \E t \in Thread : WorkerStep(t) \/ SpuriousWakeup(t) \/ Live(t)
         \/ \E a \in Actor : Signal(a)
         \/ KillSignal
<1> USE MainIsNoThread DEF queues, flags, lists, worker, main, pool, counters, history, Still
<1>1. ASSUME NEW a \in Actor, NEW t \in Thread, Post(a, t) PROVE Still
  BY <1>1 DEF Post
<1>2. ASSUME NEW t \in Thread, PostOutbound(t) PROVE Still
  BY <1>2 DEF PostOutbound
<1>3. ASSUME NEW a \in Actor, NEW b \in Actor, Reply(a, b) PROVE Still
  BY <1>3 DEF Reply
<1>4. ASSUME NEW t \in Thread, Drain(t) \/ Kill(t) \/ GiveRequest(t) PROVE Still
  BY <1>4 DEF Drain, Kill, GiveRequest
<1>5. ASSUME NEW j \in jobs, PoolWork(j) PROVE Still
  BY <1>5 DEF PoolWork
<1>6. ASSUME LoopTop \/ Gather \/ ListDone \/ Close PROVE Still
  BY <1>6 DEF LoopTop, Gather, ListDone, Close
<1>7. ASSUME UserReturns \/ Deliver PROVE Still
  <2>1. UNCHANGED <<pc, cur, dispatching, alive>>
    BY <1>7 DEF UserReturns, Deliver
  <2>2. replyTxn' = replyTxn \/ \E x : replyTxn' = [replyTxn EXCEPT ![Main] = x]
    BY <1>7 DEF UserReturns, Deliver
  <2>3. QED
    BY <2>1, <2>2 DEF TypeOK, ActorsOK
<1>8. ASSUME WaitDrained \/ KillTest \/ Join \/ Reap PROVE Still
  BY <1>8 DEF WaitDrained, KillTest, Join, Reap
<1>9. CASE UNCHANGED vars
  BY <1>9 DEF vars
<1>10. QED
  BY <1>1, <1>2, <1>3, <1>4, <1>5, <1>6, <1>7, <1>8, <1>9
  DEF Next, MainStep, UserCall, LifeCycleCall, Ended

LEMMA WorkingInductive ==
  ASSUME TypeOK, Working, Living, [Next]_vars
  PROVE  Working' /\ Living'
<1> USE DEF queues, flags, lists, worker, main, pool, counters, history
<1>1. CASE Still
  BY <1>1 DEF Still, Working, Living
<1>2. ASSUME NEW t \in Thread, TryDispatchOne(t) PROVE Working' /\ Living'
  <2>1. cur[t] = NoMsg /\ pc[t] # "dead"
    BY <1>2 DEF TryDispatchOne, Working, InHand
  <2>2. alive' = alive
    BY <1>2 DEF TryDispatchOne
  <2>3. \/ /\ cur' = cur
           /\ \E p \in WorkerPc \ {"dead"} : pc' = [pc EXCEPT ![t] = p]
           /\ dispatching' = [dispatching EXCEPT ![t] = FALSE]
        \/ /\ \E m : cur' = [cur EXCEPT ![t] = m]
           /\ pc' = [pc EXCEPT ![t] = "got"]
           /\ dispatching' = [dispatching EXCEPT ![t] = TRUE]
    BY <1>2 DEF TryDispatchOne, NoteDispatchFinished, DispatchingAfterTake, WorkerPc, UserPc
  <2>4. QED
    BY <2>1, <2>2, <2>3 DEF TypeOK, WorkerOK, FlagsOK, Working, Living, InHand
<1>3. ASSUME NEW t \in Thread, Dispatch(t) PROVE Working' /\ Living'
  <2>1. pc[t] = "got" /\ dispatching' = dispatching /\ alive' = alive
    BY <1>3 DEF Dispatch
  <2>2. \/ cur' = cur /\ \E p \in InHand : pc' = [pc EXCEPT ![t] = p]
        \/ cur' = [cur EXCEPT ![t] = NoMsg] /\ pc' = [pc EXCEPT ![t] = "look"]
    BY <1>3 DEF Dispatch, DispatchReply, InHand
  <2>3. QED
    BY <2>1, <2>2 DEF TypeOK, WorkerOK, Working, Living, InHand
<1>4. ASSUME NEW t \in Thread, HandlerReturns(t) PROVE Working' /\ Living'
  <2>1. /\ pc[t] # "dead" /\ dispatching' = dispatching /\ alive' = alive
        /\ cur' = [cur EXCEPT ![t] = NoMsg]
        /\ \E p \in {"final", "look"} : pc' = [pc EXCEPT ![t] = p]
    BY <1>4 DEF HandlerReturns, PcAfter, UserPc
  <2>2. QED
    BY <2>1 DEF TypeOK, WorkerOK, Working, Living
<1>5. ASSUME NEW t \in Thread, WorkerStops(t) PROVE Working' /\ Living'
  <2>1. cur[t] = NoMsg /\ cur' = cur
    BY <1>5 DEF WorkerStops, Working, InHand
  <2>2. /\ pc' = [pc EXCEPT ![t] = "dead"] /\ alive' = [alive EXCEPT ![t] = FALSE]
        /\ dispatching' = [dispatching EXCEPT ![t] = FALSE]
    BY <1>5 DEF WorkerStops
  <2>3. QED
    BY <2>1, <2>2 DEF TypeOK, WorkerOK, FlagsOK, Working, Living
<1>6. ASSUME NEW t \in Thread, SpuriousWakeup(t) PROVE Working' /\ Living'
  BY <1>6 DEF TypeOK, WorkerOK, SpuriousWakeup, Working, Living, InHand
<1>7. ASSUME NEW t \in Thread, Live(t) PROVE Working' /\ Living'
  <2>1. dispatching' = dispatching /\ cur' = cur
    BY <1>7 DEF Live
  <2>2. \/ alive' = alive /\ pc' = pc
        \/ ~alive[t] /\ alive' = [alive EXCEPT ![t] = TRUE] /\ pc' = [pc EXCEPT ![t] = "load"]
    BY <1>7 DEF Live
  <2>3. QED
    BY <2>1, <2>2 DEF TypeOK, WorkerOK, FlagsOK, Working, Living, InHand
<1>8. ASSUME NEW t \in Thread, pc' = [pc EXCEPT ![t] = Woken(@)], UNCHANGED <<cur, dispatching, alive>>
      PROVE  Working' /\ Living'
  BY <1>8 DEF TypeOK, WorkerOK, Woken, Working, Living, InHand
<1>9. ASSUME NEW a \in Actor, Signal(a) PROVE Working' /\ Living'
  BY <1>8, <1>9 DEF TypeOK, ActorsOK, Signal, Actor
<1>10. CASE KillSignal
  BY <1>8, <1>10 DEF TypeOK, MainOK, KillSignal
<1>11. QED
  BY <1>1, <1>2, <1>3, <1>4, <1>5, <1>6, <1>7, <1>9, <1>10, WorkerMoves DEF WorkerStep

THEOREM WorkingInvariant == Spec => [](Working /\ Living)
<1>1. Init => Working /\ Living
  BY DEF Init, Working, Living
<1>2. TypeOK /\ Working /\ Living /\ [Next]_vars => Working' /\ Living'
  BY WorkingInductive
<1>3. QED
  BY <1>1, <1>2, TypeCorrect, PTL DEF Spec

\* A worker that has a message in hand is marked as dispatching, whatever main
\* does with the thread (festina_thread_try_dispatch_one, #231).
THEOREM BusyIsMarked == Spec => []DispatchingWhileBusy
<1>1. Working => DispatchingWhileBusy
  BY DEF Working, DispatchingWhileBusy
<1>2. QED
  BY <1>1, WorkingInvariant, PTL

\* drain() returns only once the messages it found are processed, or the thread
\* is dead (festina_thread_wait_drained).
THEOREM DrainIsHonest == Spec => DrainWaitsForQueued
<1> DEFINE A == (mpc \in DrainPc /\ mpc' = "user")
                  => (~alive[target] \/ snapshot \cap Unprocessed(target)' = {})
<1>1. ASSUME TypeOK, Working, [Next]_vars PROVE A
  <2> USE DEF queues, flags, lists, worker, main, pool, counters, history
  <2> SUFFICES ASSUME mpc \in DrainPc, mpc' = "user", alive[target]
               PROVE  snapshot \cap Unprocessed(target)' = {}
    OBVIOUS
  <2>1. WaitDrained
    <3>1. ~ UserReturns /\ ~ LoopTop /\ ~ Gather /\ ~ ListDone /\ ~ Deliver
      BY DEF UserReturns, LoopTop, Gather, ListDone, Deliver, DrainPc, Running
    <3>2. ~ KillTest /\ ~ KillSignal /\ ~ Join /\ ~ Reap /\ ~ Close
      BY DEF KillTest, KillSignal, Join, Reap, DrainPc, Close, Running
    <3>3. \A t \in Thread : ~ Live(t) /\ ~ Drain(t) /\ ~ Kill(t) /\ ~ GiveRequest(t)
      BY DEF Live, Drain, Kill, GiveRequest, Call, Running, DrainPc
    <3>4. \A t \in Thread : ~ WorkerStep(t) /\ ~ SpuriousWakeup(t) /\ ~ PostOutbound(t)
      <4>1. \A t \in Thread : MainAfterBroadcast(t) \in {mpc, "drainCheck"}
        BY DEF MainAfterBroadcast
      <4>2. \A t \in Thread : TryDispatchOne(t) \/ WorkerStops(t) => mpc' \in {mpc, "drainCheck"}
        BY <4>1 DEF TryDispatchOne, NoteDispatchFinished, WorkerStops
      <4>3. \A t \in Thread :
              Dispatch(t) \/ HandlerReturns(t) \/ SpuriousWakeup(t) \/ PostOutbound(t) => mpc' = mpc
        BY DEF Dispatch, HandlerReturns, SpuriousWakeup, PostOutbound
      <4>4. QED
        BY <4>2, <4>3 DEF WorkerStep, DrainPc
    <3>5. \A a \in Actor : ~ Signal(a) /\ ~ UserCall(a)
      BY DEF Signal, UserCall, Post, Reply, DrainPc
    <3>6. \A j \in jobs : ~ PoolWork(j)
      BY DEF PoolWork, DrainPc
    <3>7. QED
      BY <1>1, <3>1, <3>2, <3>3, <3>4, <3>5, <3>6 DEF Next, MainStep, LifeCycleCall, Ended, vars, DrainPc
  <2>2. ~ Undrained(target) /\ UNCHANGED <<inQueue, cur, target>>
    BY <2>1 DEF WaitDrained
  <2>3. target \in Thread /\ inQueue[target] = << >> /\ ~ dispatching[target]
    BY <1>1, <2>2 DEF Undrained, TypeOK, MainOK
  <2>4. cur[target] = NoMsg
    BY <1>1, <2>3 DEF Working
  <2>5. Unprocessed(target) = {}
    BY <2>3, <2>4 DEF Unprocessed, NoMsg
  <2>6. Unprocessed(target)' = Unprocessed(target)
    BY <2>2 DEF Unprocessed
  <2>7. QED
    BY <2>5, <2>6
<1>2. TypeOK /\ Working /\ [Next]_vars => [A]_vars
  BY <1>1
<1>3. QED
  BY <1>2, TypeCorrect, WorkingInvariant, PTL DEF Spec, DrainWaitsForQueued

(***************************************************************************)
(* The end of the process.                                                 *)
(***************************************************************************)

Dead(t) == pc[t] = "dead"

\* The walk of festina_thread_kill_all_impl leaves only dead threads behind,
\* and nothing brings main back from it.
KillAll ==
  stage = "killAll" =>
    /\ mpc \in KillPc \cup {"ended"}
    /\ at \in 1..Len(Registry) /\ target = Registry[at]
    /\ \A i \in 1..Len(Registry) : i < at => Dead(Registry[i])

Joined == mpc = "reap" => Dead(target)
Over   == mpc = "ended" => \A t \in Thread : Dead(t)
Ending == KillAll /\ Joined /\ Over

\* A dead worker is only brought back by live().
LEMMA DeadStays ==
  ASSUME TypeOK, Working, [Next]_vars, ~ \E t \in Thread : Live(t), NEW t \in Thread, Dead(t)
  PROVE  Dead(t)'
<1> USE DEF queues, flags, lists, worker, main, pool, counters, history
<1>1. CASE Still
  BY <1>1 DEF Still, Dead
<1>2. ASSUME NEW u \in Thread, WorkerStep(u) \/ SpuriousWakeup(u) PROVE Dead(t)'
  <2>1. pc[u] # "dead"
    BY <1>2 DEF WorkerStep, TryDispatchOne, Dispatch, HandlerReturns, WorkerStops,
       SpuriousWakeup, UserPc
  <2>2. \E p : pc' = [pc EXCEPT ![u] = p]
    BY <1>2 DEF WorkerStep, TryDispatchOne, Dispatch, DispatchReply, HandlerReturns, WorkerStops,
       SpuriousWakeup
  <2>3. QED
    BY <2>1, <2>2 DEF Dead, TypeOK, WorkerOK
<1>3. ASSUME NEW u \in Thread, pc' = [pc EXCEPT ![u] = Woken(@)] PROVE Dead(t)'
  BY <1>3 DEF Dead, Woken, TypeOK, WorkerOK
<1>4. ASSUME NEW a \in Actor, Signal(a) PROVE Dead(t)'
  BY <1>3, <1>4 DEF TypeOK, ActorsOK, Signal, Actor
<1>5. CASE KillSignal
  BY <1>3, <1>5 DEF TypeOK, MainOK, KillSignal
<1>6. QED
  BY <1>1, <1>2, <1>4, <1>5, WorkerMoves

LEMMA EveryoneRegistered == \A t \in Thread : \E i \in 1..Len(Registry) : Registry[i] = t
BY ThreadAssumption

\* Where main goes when it leaves festina_thread_kill for a dead thread.
LEMMA KillReturnsEnding ==
  ASSUME TypeOK, Ending, mpc \in KillPc, Dead(target), KillReturns,
         stage' = stage, pc' = pc
  PROVE  Ending'
<1> USE RegistryTyped
<1>0. at \in Nat /\ at \in 1..Len(Registry) + 1
  BY DEF TypeOK, MainOK
<1>1. CASE stage # "killAll"
  BY <1>1 DEF KillReturns, Ending, KillAll, Joined, Over, KillPc
<1>2. CASE stage = "killAll" /\ at < Len(Registry)
  <2>1. at' = at + 1 /\ target' = Registry[at + 1] /\ mpc' = "killTest"
    BY <1>0, <1>2 DEF KillReturns, NextHandle
  <2>2. at \in 1..Len(Registry) /\ target = Registry[at]
        /\ \A i \in 1..Len(Registry) : i < at => Dead(Registry[i])
    BY <1>2 DEF Ending, KillAll
  <2>3. at' \in 1..Len(Registry)
    BY <1>0, <1>2, <2>1, <2>2
  <2>4. \A i \in 1..Len(Registry) : i < at + 1 => Dead(Registry[i])
    BY <2>2
  <2>5. KillAll'
    BY <2>1, <2>3, <2>4 DEF KillAll, KillPc, Dead
  <2>6. QED
    BY <2>1, <2>5 DEF Ending, Joined, Over
<1>3. CASE stage = "killAll" /\ at >= Len(Registry)
  <2>1. at' = at /\ target' = target /\ mpc' = "ended"
    BY <1>0, <1>3 DEF KillReturns
  <2>2. at \in 1..Len(Registry) /\ target = Registry[at]
        /\ \A i \in 1..Len(Registry) : i < at => Dead(Registry[i])
    BY <1>3 DEF Ending, KillAll
  <2>3. \A i \in 1..Len(Registry) : Dead(Registry[i])
    BY <1>3, <2>2
  <2>4. \A t \in Thread : Dead(t)
    BY <2>3, EveryoneRegistered
  <2>5. QED
    BY <2>1, <2>2, <2>4 DEF Ending, KillAll, Joined, Over, Dead
<1>4. QED
  BY <1>0, <1>1, <1>2, <1>3

\* Main's own steps that can lead to, or belong to, the end of the process.
LEMMA EndingSteps ==
  ASSUME TypeOK, Working, Living, Ending, [Next]_vars
  PROVE  Ending'
<1> USE DEF queues, flags, lists, worker, main, pool, counters, history
<1>1. ASSUME NEW t \in Thread, Live(t) PROVE Ending'
  <2>1. mpc = "user" /\ UNCHANGED <<mpc, stage, target, at>>
    BY <1>1 DEF Live, Call, Running
  <2>2. QED
    BY <2>1 DEF Ending, KillAll, Joined, Over, KillPc
<1>2. SUFFICES ASSUME ~ \E t \in Thread : Live(t) PROVE Ending'
  BY <1>1
<1>3. \A t \in Thread : Dead(t) => Dead(t)'
  BY <1>2, DeadStays
<1>4. ASSUME UNCHANGED <<mpc, stage, target, at>> PROVE Ending'
  <2>1. target \in Thread /\ \A i \in 1..Len(Registry) : Registry[i] \in Thread
    BY RegistryTyped DEF TypeOK, MainOK
  <2>2. KillAll'
    BY <1>3, <1>4, <2>1 DEF Ending, KillAll
  <2>3. Joined' /\ Over'
    BY <1>3, <1>4, <2>1 DEF Ending, Joined, Over
  <2>4. QED
    BY <2>2, <2>3 DEF Ending
<1>5. ASSUME mpc' \in {"user", "check", "gather", "deliver"} \cup DrainPc \cup {"killTest"}, stage' # "killAll"
      PROVE  Ending'
  BY <1>5 DEF Ending, KillAll, Joined, Over, DrainPc
<1>6. ASSUME NEW t \in Thread, WorkerStep(t) \/ SpuriousWakeup(t) \/ PostOutbound(t) PROVE Ending'
  <2>1. UNCHANGED <<stage, target, at>> /\ (mpc' = mpc \/ (mpc = "drainWait" /\ mpc' = "drainCheck"))
    BY <1>6 DEF WorkerStep, TryDispatchOne, NoteDispatchFinished, MainAfterBroadcast, Dispatch,
       HandlerReturns, WorkerStops, SpuriousWakeup, PostOutbound
  <2>2. CASE mpc' # mpc
    <3>1. stage # "killAll"
      BY <2>1, <2>2 DEF Ending, KillAll, KillPc
    <3>2. QED
      BY <1>5, <2>1, <2>2, <3>1 DEF DrainPc
  <2>3. QED
    BY <1>4, <2>1, <2>2
<1>7. ASSUME NEW a \in Actor, Signal(a) \/ UserCall(a) PROVE Ending'
  BY <1>4, <1>7 DEF Signal, UserCall, Post, Reply
<1>8. ASSUME NEW j \in jobs, PoolWork(j) PROVE Ending'
  BY <1>4, <1>8 DEF PoolWork
<1>9. CASE Deliver
  <2>1. mpc = "deliver" /\ mpc' \in {"deliver", "user"} /\ stage' = stage
    BY <1>9 DEF Deliver
  <2>2. stage # "killAll"
    BY <2>1 DEF Ending, KillAll, KillPc
  <2>3. QED
    BY <1>5, <2>1, <2>2
<1>10. CASE Gather \/ ListDone
  <2>1. mpc \in {"gather", "deliver"} /\ mpc' \in {"deliver", "gather", "check"} /\ stage' \in {stage, "sweep"}
    BY <1>10 DEF Gather, ListDone
  <2>2. stage # "killAll"
    BY <2>1 DEF Ending, KillAll, KillPc
  <2>3. QED
    BY <1>5, <2>1, <2>2
<1>11. CASE UserReturns
  <2>1. stage # "killAll"
    BY <1>11 DEF UserReturns, Running, Ending, KillAll, KillPc
  <2>2. CASE stage = "onExit"
    <3>1. stage' = "killAll" /\ at' = 1 /\ target' = Registry[1] /\ mpc' = "killTest"
      BY <1>11, <2>2 DEF UserReturns, FirstHandle
    <3>2. QED
      BY <3>1, RegistryTyped DEF Ending, KillAll, Joined, Over, KillPc
  <2>3. CASE stage # "onExit"
    <3>1. mpc' \in {"check", "gather", "deliver"} /\ stage' \in {stage, "async"}
      BY <1>11, <2>3 DEF UserReturns
    <3>2. QED
      BY <1>5, <2>1, <3>1
  <2>4. QED
    BY <2>2, <2>3
<1>12. CASE LoopTop
  <2>1. mpc = "check"
    BY <1>12 DEF LoopTop
  <2>2. stage # "killAll"
    BY <2>1 DEF Ending, KillAll, KillPc
  <2>3. CASE mpc' = "user" /\ stage' \in {"onExit", "timers"}
    BY <1>5, <2>3
  <2>4. CASE NothingOutstanding /\ mpc' = "ended" /\ stage' = stage
    <3>1. \A t \in Thread : Dead(t)
      BY <2>4 DEF NothingOutstanding, Living, Dead
    <3>2. \A t \in Thread : Dead(t)'
      BY <1>3, <3>1
    <3>3. QED
      BY <2>2, <2>4, <3>2 DEF Ending, KillAll, Joined, Over
  <2>5. QED
    BY <1>12, <2>3, <2>4 DEF LoopTop
<1>13. CASE WaitDrained
  <2>1. mpc \in DrainPc /\ mpc' \in {"drainWait", "user"} /\ stage' = stage
    BY <1>13 DEF WaitDrained, DrainPc
  <2>2. stage # "killAll"
    BY <2>1 DEF Ending, KillAll, KillPc, DrainPc
  <2>3. QED
    BY <1>5, <2>1, <2>2 DEF DrainPc
<1>14. CASE KillTest
  <2>1. mpc = "killTest" /\ UNCHANGED <<stage, pc>>
    BY <1>14 DEF KillTest
  <2>2. CASE ~ alive[target] /\ KillReturns
    <3>1. Dead(target)
      BY <2>2 DEF Living, Dead, TypeOK, MainOK
    <3>2. QED
      BY <2>1, <2>2, <3>1, KillReturnsEnding DEF KillPc
  <2>3. CASE mpc' = "killSignal" /\ UNCHANGED <<target, at>>
    BY <2>1, <2>3 DEF Ending, KillAll, Joined, Over, KillPc, Dead
  <2>4. QED
    BY <1>14, <2>2, <2>3 DEF KillTest
<1>15. CASE KillSignal
  <2>1. mpc = "killSignal" /\ mpc' = "join" /\ UNCHANGED <<stage, target, at>>
    BY <1>15 DEF KillSignal
  <2>2. \A i \in 1..Len(Registry) : Dead(Registry[i]) => Dead(Registry[i])'
    BY <1>3, RegistryTyped
  <2>3. QED
    BY <2>1, <2>2 DEF Ending, KillAll, Joined, Over, KillPc
<1>16. CASE Join
  <2>1. mpc = "join" /\ mpc' = "reap" /\ pc[target] = "dead" /\ UNCHANGED <<stage, target, at, pc>>
    BY <1>16 DEF Join
  <2>2. QED
    BY <2>1 DEF Ending, KillAll, Joined, Over, KillPc, Dead
<1>17. CASE Reap
  <2>1. mpc = "reap" /\ KillReturns /\ UNCHANGED <<stage, pc>>
    BY <1>17 DEF Reap
  <2>2. Dead(target)
    BY <2>1 DEF Ending, Joined
  <2>3. QED
    BY <2>1, <2>2, KillReturnsEnding DEF KillPc
<1>18. CASE Close
  <2>1. mpc' = mpc /\ mpc = "user" /\ stage' = "onExit"
    BY <1>18 DEF Close, Running
  <2>2. QED
    BY <1>5, <2>1
<1>19. ASSUME NEW t \in Thread, Drain(t) \/ Kill(t) PROVE Ending'
  <2>1. mpc = "user" /\ mpc' \in {"drainEnter", "killTest"} /\ stage' = stage
    BY <1>19 DEF Drain, Kill, Call, Running
  <2>2. stage # "killAll"
    BY <2>1 DEF Ending, KillAll, KillPc
  <2>3. QED
    BY <1>5, <2>1, <2>2 DEF DrainPc
<1>20. ASSUME NEW t \in Thread, GiveRequest(t) PROVE Ending'
  BY <1>4, <1>20 DEF GiveRequest
<1>21. CASE UNCHANGED vars
  BY <1>4, <1>21 DEF vars
<1>22. QED
  BY <1>2, <1>6, <1>7, <1>8, <1>9, <1>10, <1>11, <1>12, <1>13, <1>14, <1>15, <1>16, <1>17,
     <1>18, <1>19, <1>20, <1>21 DEF Next, MainStep, LifeCycleCall, Ended

\* The process never ends while a worker still runs, whichever way it ends
\* (festina_program_exit, festina_run_timer_loop).
THEOREM NoOrphan == Spec => []NoOrphanThread
<1>1. Init => Ending
  BY DEF Init, Ending, KillAll, Joined, Over
<1>2. TypeOK /\ Working /\ Living /\ Ending /\ [Next]_vars => Ending'
  BY EndingSteps
<1>3. Working /\ Ending => NoOrphanThread
  BY DEF Working, Ending, Over, NoOrphanThread, Dead, InHand
<1>4. QED
  BY <1>1, <1>2, <1>3, TypeCorrect, WorkingInvariant, PTL DEF Spec

(***************************************************************************)
(* The ambient reply transaction.                                          *)
(***************************************************************************)

\* On a worker it is the one of the message being handled ...
ScopedOnWorker ==
  \A t \in Thread :
    replyTxn[t] # 0 => cur[t].kind = "ordinary" /\ cur[t].txn = replyTxn[t] /\ pc[t] = "handle"

\* ... and on main it is reset before the loop takes over again.
ScopedOnMain ==
  replyTxn[Main] # 0 =>
    mcur.kind = "ordinary" /\ mcur.txn = replyTxn[Main] /\ mpc \notin {"check", "gather", "deliver"}

LEMMA ScopedOnWorkerInductive ==
  ASSUME TypeOK, Living, ScopedOnWorker, [Next]_vars
  PROVE  ScopedOnWorker'
<1> USE MainIsNoThread DEF queues, flags, lists, worker, main, pool, counters, history
<1>1. CASE Still
  BY <1>1 DEF Still, ScopedOnWorker
<1>2. ASSUME NEW t \in Thread, TryDispatchOne(t) PROVE ScopedOnWorker'
  <2>1. pc[t] = "look" /\ replyTxn' = replyTxn
    BY <1>2 DEF TryDispatchOne
  <2>2. \A u \in Thread \ {t} : pc'[u] = pc[u] /\ cur'[u] = cur[u]
    BY <1>2 DEF TypeOK, WorkerOK, TryDispatchOne
  <2>3. QED
    BY <2>1, <2>2 DEF ScopedOnWorker
<1>3. ASSUME NEW t \in Thread, Dispatch(t) PROVE ScopedOnWorker'
  <2>1. replyTxn[t] = 0
    BY <1>3 DEF Dispatch, ScopedOnWorker
  <2>2. \A u \in Thread \ {t} : pc'[u] = pc[u] /\ cur'[u] = cur[u] /\ replyTxn'[u] = replyTxn[u]
    BY <1>3 DEF TypeOK, WorkerOK, ActorsOK, Dispatch, DispatchReply
  <2>3. \/ replyTxn' = replyTxn
        \/ /\ cur[t].kind = "ordinary" /\ cur' = cur
           /\ replyTxn' = [replyTxn EXCEPT ![t] = cur[t].txn] /\ pc' = [pc EXCEPT ![t] = "handle"]
    BY <1>3 DEF Dispatch
  <2>4. QED
    BY <2>1, <2>2, <2>3 DEF ScopedOnWorker, TypeOK, WorkerOK, ActorsOK
<1>4. ASSUME NEW t \in Thread, HandlerReturns(t) PROVE ScopedOnWorker'
  <2>1. replyTxn'[t] = 0
    BY <1>4 DEF TypeOK, ActorsOK, HandlerReturns, ReplyTxnAfter
  <2>2. \A u \in Thread \ {t} : pc'[u] = pc[u] /\ cur'[u] = cur[u] /\ replyTxn'[u] = replyTxn[u]
    BY <1>4 DEF TypeOK, WorkerOK, ActorsOK, HandlerReturns
  <2>3. QED
    BY <2>1, <2>2 DEF ScopedOnWorker
<1>5. ASSUME NEW t \in Thread, WorkerStops(t) \/ SpuriousWakeup(t) \/ Live(t) PROVE ScopedOnWorker'
  <2>1. replyTxn' = replyTxn /\ cur' = cur
    BY <1>5 DEF WorkerStops, SpuriousWakeup, Live
  <2>2. pc' = pc \/ (pc[t] # "handle" /\ \E p : pc' = [pc EXCEPT ![t] = p])
    <3>1. CASE WorkerStops(t) \/ SpuriousWakeup(t)
      BY <3>1 DEF WorkerStops, SpuriousWakeup
    <3>2. CASE Live(t)
      <4>1. pc' = pc \/ (~ alive[t] /\ pc' = [pc EXCEPT ![t] = "load"])
        BY <3>2 DEF TypeOK, FlagsOK, Live
      <4>2. ~ alive[t] => pc[t] # "handle"
        BY DEF TypeOK, FlagsOK, Living
      <4>3. QED
        BY <4>1, <4>2
    <3>3. QED
      BY <1>5, <3>1, <3>2
  <2>3. QED
    BY <2>1, <2>2 DEF ScopedOnWorker, TypeOK, WorkerOK
<1>6. ASSUME NEW t \in Thread, pc' = [pc EXCEPT ![t] = Woken(@)], UNCHANGED <<cur, replyTxn>>
      PROVE  ScopedOnWorker'
  BY <1>6 DEF ScopedOnWorker, Woken, TypeOK, WorkerOK
<1>7. ASSUME NEW a \in Actor, Signal(a) PROVE ScopedOnWorker'
  BY <1>6, <1>7 DEF TypeOK, ActorsOK, Signal, Actor
<1>8. CASE KillSignal
  BY <1>6, <1>8 DEF TypeOK, MainOK, KillSignal
<1>9. QED
  BY <1>1, <1>2, <1>3, <1>4, <1>5, <1>7, <1>8, WorkerMoves DEF WorkerStep

LEMMA ScopedOnMainInductive ==
  ASSUME TypeOK, ScopedOnMain, [Next]_vars
  PROVE  ScopedOnMain'
<1> USE MainIsNoThread DEF queues, flags, lists, worker, main, pool, counters, history
<1> DEFINE Loop == {"check", "gather", "deliver"}
<1>1. ASSUME mcur' = mcur, replyTxn'[Main] = replyTxn[Main], mpc' \notin Loop \/ mpc \in Loop
      PROVE  ScopedOnMain'
  BY <1>1 DEF ScopedOnMain
<1>2. ASSUME NEW t \in Thread, WorkerStep(t) \/ SpuriousWakeup(t) \/ PostOutbound(t) PROVE ScopedOnMain'
  <2>1. mcur' = mcur /\ (mpc' = mpc \/ mpc' = "drainCheck")
    BY <1>2 DEF WorkerStep, TryDispatchOne, NoteDispatchFinished, MainAfterBroadcast, Dispatch,
       HandlerReturns, WorkerStops, SpuriousWakeup, PostOutbound
  <2>2. replyTxn'[Main] = replyTxn[Main]
    BY <1>2 DEF WorkerStep, TryDispatchOne, Dispatch, HandlerReturns, WorkerStops,
       SpuriousWakeup, PostOutbound, TypeOK, ActorsOK
  <2>3. QED
    BY <1>1, <2>1, <2>2
<1>3. ASSUME NEW a \in Actor, Signal(a) \/ UserCall(a) PROVE ScopedOnMain'
  BY <1>1, <1>3 DEF Signal, UserCall, Post, Reply
<1>4. ASSUME NEW j \in jobs, PoolWork(j) PROVE ScopedOnMain'
  BY <1>1, <1>4 DEF PoolWork
<1>5. ASSUME NEW t \in Thread, Live(t) \/ Drain(t) \/ Kill(t) \/ GiveRequest(t) PROVE ScopedOnMain'
  BY <1>1, <1>5 DEF Live, Drain, Kill, GiveRequest
<1>6. CASE UserReturns
  <2>1. CASE stage = "onExit"
    <3>1. mcur' = mcur /\ replyTxn' = replyTxn /\ mpc' = "killTest"
      BY <1>6, <2>1 DEF UserReturns
    <3>2. QED
      BY <1>1, <3>1
  <2>2. CASE stage # "onExit"
    <3>1. replyTxn'[Main] = 0
      BY <1>6, <2>2 DEF UserReturns, ReplyTxnAfter, TypeOK, ActorsOK
    <3>2. QED
      BY <3>1 DEF ScopedOnMain
  <2>3. QED
    BY <2>1, <2>2
<1>7. CASE Deliver
  <2>1. mpc = "deliver" /\ replyTxn[Main] = 0
    BY <1>7 DEF Deliver, ScopedOnMain
  <2>2. \/ replyTxn' = replyTxn
        \/ /\ mcur'.kind = "ordinary" /\ mpc' = "user"
           /\ replyTxn' = [replyTxn EXCEPT ![Main] = mcur'.txn]
    BY <1>7 DEF Deliver
  <2>3. QED
    BY <2>1, <2>2 DEF ScopedOnMain, TypeOK, ActorsOK
<1>8. CASE LoopTop \/ Gather \/ ListDone
  BY <1>1, <1>8 DEF LoopTop, Gather, ListDone
<1>9. CASE WaitDrained \/ KillTest \/ KillSignal \/ Join \/ Reap \/ Close
  BY <1>1, <1>9 DEF WaitDrained, KillTest, KillSignal, Join, Reap, KillReturns, Close
<1>10. CASE UNCHANGED vars
  BY <1>1, <1>10 DEF vars
<1>11. QED
  BY <1>2, <1>3, <1>4, <1>5, <1>6, <1>7, <1>8, <1>9, <1>10 DEF Next, MainStep, LifeCycleCall, Ended

\* A reply can only be tagged with the message its actor is handling now, so a
\* stashed thread value answers nothing (g_current_reply_txn).
THEOREM RepliesAreScoped == Spec => []ReplyTxnScoped
<1>1. Init => ScopedOnWorker /\ ScopedOnMain
  BY MainIsNoThread DEF Init, ScopedOnWorker, ScopedOnMain
<1>2. TypeOK /\ Living /\ ScopedOnWorker /\ [Next]_vars => ScopedOnWorker'
  BY ScopedOnWorkerInductive
<1>3. TypeOK /\ ScopedOnMain /\ [Next]_vars => ScopedOnMain'
  BY ScopedOnMainInductive
<1>4. ScopedOnWorker /\ ScopedOnMain => ReplyTxnScoped
  BY MainIsNoThread DEF ScopedOnWorker, ScopedOnMain, ReplyTxnScoped, Actor
<1>5. QED
  BY <1>1, <1>2, <1>3, <1>4, TypeCorrect, WorkingInvariant, PTL DEF Spec

(***************************************************************************)
(* The tail pointer of a list of callbacks.                                *)
(***************************************************************************)

\* Transaction ids are handed out in increasing order.
Numbered == \A a \in Actor : \A cb \in pending[a] : cb.txn < nextTxn

\* A nonempty list has a last node ...
LEMMA LastTxnMax ==
  ASSUME NEW cbs \in SUBSET Callback, cbs # {}
  PROVE  LastTxn(cbs) \in Txns(cbs) /\ \A y \in Txns(cbs) : y <= LastTxn(cbs)
<1>1. Txns(cbs) \subseteq Txn /\ Txns(cbs) # {}
  BY DEF Txns, Callback
<1>2. \E x \in Txns(cbs) : \A y \in Txns(cbs) : y <= x
  BY <1>1, MaxTxnExists
<1>3. QED
  BY <1>2 DEF LastTxn

\* ... and only one.
LEMMA LastTxnIs ==
  ASSUME NEW cbs \in SUBSET Callback, NEW x \in Txns(cbs), \A y \in Txns(cbs) : y <= x
  PROVE  LastTxn(cbs) = x
<1>1. cbs # {} /\ Txns(cbs) \subseteq Int
  BY Bounds DEF Txns, Callback, Txn
<1>2. LastTxn(cbs) \in Txns(cbs) /\ \A y \in Txns(cbs) : y <= LastTxn(cbs)
  BY <1>1, LastTxnMax
<1>3. QED
  BY <1>1, <1>2

\* Linking a callback with a new id behind the tail makes it the last one.
LEMMA LinkNamesLast ==
  ASSUME NEW cbs \in SUBSET Callback, NEW cb \in Callback, \A c \in cbs : c.txn < cb.txn
  PROVE  /\ LinkAtTail(cbs, LastTxn(cbs), cb) = cbs \cup {cb}
         /\ LastTxn(cbs \cup {cb}) = cb.txn
<1>1. LinkAtTail(cbs, LastTxn(cbs), cb) = cbs \cup {cb}
  <2>1. CASE cbs = {}
    BY <2>1 DEF LinkAtTail, LastTxn
  <2>2. CASE cbs # {}
    <3>1. LastTxn(cbs) \in Txns(cbs)
      BY <2>2, LastTxnMax
    <3>2. 0 \notin Txns(cbs)
      BY Bounds DEF Txns, Callback, Txn
    <3>3. QED
      BY <3>1, <3>2 DEF LinkAtTail
  <2>3. QED
    BY <2>1, <2>2
<1>2. cb.txn \in Txns(cbs \cup {cb})
  BY DEF Txns
<1>3. \A y \in Txns(cbs \cup {cb}) : y <= cb.txn
  BY Bounds DEF Txns, Callback, Txn
<1>4. cbs \cup {cb} \in SUBSET Callback
  OBVIOUS
<1>5. QED
  BY <1>1, <1>2, <1>3, <1>4, LastTxnIs

\* Unlinking a callback moves the tail back if it was the last one.
LEMMA UnlinkNamesLast ==
  ASSUME NEW cbs \in SUBSET Callback, NEW txn
  PROVE  TailAfterUnlink(cbs, LastTxn(cbs), txn) = LastTxn({cb \in cbs : cb.txn # txn})
<1> DEFINE rest == {cb \in cbs : cb.txn # txn}
<1>1. CASE LastTxn(cbs) = txn
  BY <1>1 DEF TailAfterUnlink
<1>2. CASE LastTxn(cbs) # txn /\ cbs = {}
  <2>1. rest = {}
    BY <1>2
  <2>2. QED
    BY <1>2, <2>1 DEF TailAfterUnlink
<1>3. CASE LastTxn(cbs) # txn /\ cbs # {}
  <2>1. LastTxn(cbs) \in Txns(cbs) /\ \A y \in Txns(cbs) : y <= LastTxn(cbs)
    BY <1>3, LastTxnMax
  <2>2. LastTxn(cbs) \in Txns(rest)
    BY <1>3, <2>1 DEF Txns
  <2>3. Txns(rest) \subseteq Txns(cbs)
    BY DEF Txns
  <2>4. rest \in SUBSET Callback
    OBVIOUS
  <2> HIDE DEF rest
  <2>5. LastTxn(rest) = LastTxn(cbs)
    BY <2>1, <2>2, <2>3, <2>4, LastTxnIs
  <2>6. QED
    BY <1>3, <2>5 DEF TailAfterUnlink, rest
<1>4. QED
  BY <1>1, <1>2, <1>3

LEMMA RegisterKeepsTail ==
  ASSUME TypeOK, Numbered, TailNamesLast, NEW a \in Actor, NEW dest \in Actor, NEW onMain \in BOOLEAN,
         RegisterCallback(a, dest, onMain)
  PROVE  Numbered' /\ TailNamesLast'
<1> DEFINE cb == [txn |-> nextTxn, onMain |-> onMain]
<1>1. cb \in Callback /\ nextTxn \in Nat /\ nextTxn' = nextTxn + 1
  <2>1. nextTxn \in Txn
    BY RegisterTyped
  <2>2. nextTxn' = nextTxn + 1
    BY DEF RegisterCallback
  <2>3. QED
    BY <2>1, <2>2, Bounds DEF Callback, Txn
<1>2. pending[a] \in SUBSET Callback /\ \A c \in pending[a] : c.txn < cb.txn
  BY DEF TypeOK, ListsOK, Numbered
<1> HIDE DEF cb
<1>3. /\ LinkAtTail(pending[a], LastTxn(pending[a]), cb) = pending[a] \cup {cb}
      /\ LastTxn(pending[a] \cup {cb}) = cb.txn
  BY <1>1, <1>2, LinkNamesLast
<1>4. pendingTail[a] = LastTxn(pending[a])
  BY DEF TailNamesLast
<1>5. /\ pending' = [pending EXCEPT ![a] = pending[a] \cup {cb}]
      /\ pendingTail' = [pendingTail EXCEPT ![a] = cb.txn]
  BY <1>3, <1>4 DEF RegisterCallback, cb
<1>6. TailNamesLast'
  BY <1>3, <1>5 DEF TypeOK, ListsOK, TailNamesLast
<1>7. Numbered'
  <2>1. \A b \in Actor : \A c \in pending[b] : c.txn \in Nat /\ c.txn < nextTxn
    BY Bounds DEF Numbered, TypeOK, ListsOK, Callback, Txn
  <2>2. cb.txn = nextTxn
    BY DEF cb
  <2>3. QED
    BY <1>1, <1>5, <2>1, <2>2 DEF TypeOK, ListsOK, Numbered
<1>8. QED
  BY <1>6, <1>7

LEMMA UnlinkKeepsTail ==
  ASSUME TypeOK, Numbered, TailNamesLast, NEW a \in Actor, NEW txn, Unlink(a, txn), nextTxn' = nextTxn
  PROVE  Numbered' /\ TailNamesLast'
<1> DEFINE rest == {cb \in pending[a] : cb.txn # txn}
<1>1. pending[a] \in SUBSET Callback /\ pendingTail[a] = LastTxn(pending[a])
  BY DEF TypeOK, ListsOK, TailNamesLast
<1>2. TailAfterUnlink(pending[a], pendingTail[a], txn) = LastTxn(rest)
  BY <1>1, UnlinkNamesLast
<1>3. pending' = [pending EXCEPT ![a] = rest] /\ pendingTail' = [pendingTail EXCEPT ![a] = LastTxn(rest)]
  BY <1>2 DEF Unlink
<1>4. rest \subseteq pending[a]
  OBVIOUS
<1> HIDE DEF rest
<1>5. TailNamesLast'
  BY <1>3 DEF TypeOK, ListsOK, TailNamesLast
<1>6. \A b \in Actor : pending'[b] \subseteq pending[b]
  BY <1>3, <1>4 DEF TypeOK, ListsOK
<1>7. QED
  BY <1>5, <1>6 DEF Numbered

LEMMA TailInductive ==
  ASSUME TypeOK, Numbered, TailNamesLast, [Next]_vars
  PROVE  Numbered' /\ TailNamesLast'
<1> USE MainIsNoThread DEF queues, flags, lists, worker, main, pool, counters, history
<1>1. ASSUME UNCHANGED <<pending, pendingTail, nextTxn>> PROVE Numbered' /\ TailNamesLast'
  BY <1>1 DEF Numbered, TailNamesLast
<1>2. ASSUME NEW a \in Actor, NEW t \in Thread, Post(a, t) PROVE Numbered' /\ TailNamesLast'
  <2>1. UNCHANGED <<pending, pendingTail, nextTxn>> \/ RegisterCallback(a, t, FALSE)
    BY <1>2 DEF Post, NoCallback
  <2>2. QED
    BY <1>1, <2>1, RegisterKeepsTail
<1>3. ASSUME NEW t \in Thread, PostOutbound(t) PROVE Numbered' /\ TailNamesLast'
  <2>1. UNCHANGED <<pending, pendingTail, nextTxn>> \/ RegisterCallback(t, Main, TRUE)
    BY <1>3 DEF PostOutbound, NoCallback
  <2>2. QED
    BY <1>1, <2>1, RegisterKeepsTail
<1>4. ASSUME NEW t \in Thread, Dispatch(t) PROVE Numbered' /\ TailNamesLast'
  <2>1. nextTxn' = nextTxn
    BY <1>4 DEF Dispatch
  <2>2. UNCHANGED <<pending, pendingTail>> \/ Unlink(t, cur[t].txn)
    BY <1>4 DEF Dispatch, DispatchReply
  <2>3. QED
    BY <1>1, <2>1, <2>2, UnlinkKeepsTail
<1>5. CASE Deliver
  <2>1. nextTxn' = nextTxn
    BY <1>5 DEF Deliver
  <2>2. UNCHANGED <<pending, pendingTail>> \/ Unlink(Main, Head(done).txn)
    BY <1>5 DEF Deliver
  <2>3. QED
    BY <1>1, <2>1, <2>2, UnlinkKeepsTail
<1>6. CASE Reap
  <2>1. /\ pending' = [pending EXCEPT ![target] = {}]
        /\ pendingTail' = [pendingTail EXCEPT ![target] = 0] /\ nextTxn' = nextTxn
    BY <1>6 DEF Reap, PendingAfterKill
  <2>2. LastTxn({}) = 0
    BY DEF LastTxn
  <2>3. QED
    BY <2>1, <2>2 DEF TypeOK, ListsOK, Numbered, TailNamesLast
<1>7. ASSUME NEW t \in Thread,
             TryDispatchOne(t) \/ HandlerReturns(t) \/ WorkerStops(t) \/ SpuriousWakeup(t)
      PROVE  UNCHANGED <<pending, pendingTail, nextTxn>>
  BY <1>7 DEF TryDispatchOne, HandlerReturns, WorkerStops, SpuriousWakeup
<1>8. ASSUME NEW t \in Thread, Live(t) \/ Drain(t) \/ Kill(t) \/ GiveRequest(t)
      PROVE  UNCHANGED <<pending, pendingTail, nextTxn>>
  BY <1>8 DEF Live, Drain, Kill, GiveRequest
<1>9. ASSUME NEW a \in Actor, Signal(a) PROVE UNCHANGED <<pending, pendingTail, nextTxn>>
  BY <1>9 DEF Signal
<1>10. ASSUME NEW a \in Actor, NEW b \in Actor, Reply(a, b)
       PROVE  UNCHANGED <<pending, pendingTail, nextTxn>>
  BY <1>10 DEF Reply
<1>11. ASSUME NEW j \in jobs, PoolWork(j) PROVE UNCHANGED <<pending, pendingTail, nextTxn>>
  BY <1>11 DEF PoolWork
<1>12. ASSUME UserReturns \/ LoopTop \/ Gather \/ ListDone \/ WaitDrained \/ KillTest \/ KillSignal
              \/ Join \/ Close
       PROVE  UNCHANGED <<pending, pendingTail, nextTxn>>
  BY <1>12 DEF UserReturns, LoopTop, Gather, ListDone, WaitDrained, KillTest, KillSignal, Join, Close
<1>13. CASE UNCHANGED vars
  BY <1>1, <1>13 DEF vars
<1>14. QED
  BY <1>1, <1>2, <1>3, <1>4, <1>5, <1>6, <1>7, <1>8, <1>9, <1>10, <1>11, <1>12, <1>13
  DEF Next, WorkerStep, MainStep, UserCall, LifeCycleCall, Ended

\* The tail pointer of a list of pending callbacks always names its last node
\* (festina_thread_register_callback, festina_thread_dispatch_reply, kill).
THEOREM TailIsLast == Spec => []TailNamesLast
<1>1. Init => Numbered /\ TailNamesLast
  BY DEF Init, Numbered, TailNamesLast, LastTxn
<1>2. TypeOK /\ Numbered /\ TailNamesLast /\ [Next]_vars => Numbered' /\ TailNamesLast'
  BY TailInductive
<1>3. QED
  BY <1>1, <1>2, TypeCorrect, PTL DEF Spec

(***************************************************************************)
(* Lanes.                                                                  *)
(***************************************************************************)

\* Payloads are numbered as they are boxed, so that a queue's next message is younger
\* than all it holds; what a thread queued for main it sent itself.
Boxes ==
  /\ \A t \in Thread :
       /\ \A i \in 1..Len(inQueue[t]) : 0 < inQueue[t][i].pid /\ inQueue[t][i].pid < nextPid
       /\ \A i \in 1..Len(outQueue[t]) : outQueue[t][i].pid < nextPid /\ outQueue[t][i].from = t
       /\ cur[t].pid < nextPid
  /\ \A i \in 1..Len(done) : done[i].kind # "job" => done[i].pid < nextPid

\* What goes through the async-io pool is marked as a job.
Marked == /\ \A j \in jobs : j.kind = "job"
          /\ \A i \in 1..Len(completed) : completed[i].kind = "job"

LaneInv == LanesInOrder /\ Boxes /\ Marked

LEMMA MsgTyped == \A m \in Msg : m.pid \in Nat /\ m.txn \in Nat
BY Bounds DEF Msg

LEMMA IncreasingAppend ==
  ASSUME NEW q \in Seq(Msg), NEW m \in Msg, NEW n \in Nat, m.pid = n, Increasing(q),
         \A i \in 1..Len(q) : q[i].pid < n
  PROVE  Increasing(Append(q, m))
<1> DEFINE r == Append(q, m)
<1>1. Len(r) = Len(q) + 1 /\ Len(q) \in Nat /\ r[Len(q) + 1] = m
      /\ \A i \in 1..Len(q) : r[i] = q[i]
  OBVIOUS
<1> HIDE DEF r
<1>2. ASSUME NEW i \in 1..Len(r), NEW j \in 1..Len(r), i < j PROVE r[i].pid < r[j].pid
  <2>1. i \in 1..Len(q) /\ (j \in 1..Len(q) \/ j = Len(q) + 1)
    BY <1>1, <1>2
  <2>2. QED
    BY <2>1, <1>1, <1>2 DEF Increasing
<1>3. QED
  BY <1>2 DEF Increasing, r

LEMMA IncreasingTail ==
  ASSUME NEW q \in Seq(Msg), q # << >>, Increasing(q)
  PROVE  /\ Increasing(Tail(q))
         /\ \A i \in 1..Len(Tail(q)) : Head(q).pid < Tail(q)[i].pid
<1>1. Len(Tail(q)) = Len(q) - 1 /\ Len(q) \in Nat /\ Len(q) > 0 /\ Head(q) = q[1]
      /\ \A i \in 1..Len(Tail(q)) : Tail(q)[i] = q[i+1]
  OBVIOUS
<1>2. QED
  BY <1>1 DEF Increasing

\* What the lanes are made of.
lanes == <<inQueue, outQueue, done, cur, nextPid>>

LEMMA LanesStill == ASSUME LaneInv, UNCHANGED lanes, Marked' PROVE LaneInv'
BY DEF LaneInv, LanesInOrder, Boxes, lanes

LEMMA Pids ==
  ASSUME TypeOK
  PROVE  /\ nextPid \in Nat /\ nextPid > 0
         /\ \A t \in Thread :
              /\ inQueue[t] \in Seq(Msg) /\ outQueue[t] \in Seq(Msg) /\ cur[t].pid \in Nat
              /\ \A i \in 1..Len(inQueue[t]) : inQueue[t][i].pid \in Nat
              /\ \A i \in 1..Len(outQueue[t]) : outQueue[t][i].pid \in Nat
         /\ done \in Seq(Msg) /\ \A i \in 1..Len(done) : done[i].pid \in Nat
<1>1. nextPid \in Nat /\ nextPid > 0
  BY Bounds DEF TypeOK, CountersOK
<1>2. \A t \in Thread : inQueue[t] \in Seq(Msg) /\ outQueue[t] \in Seq(Msg) /\ cur[t] \in Msg
  BY DEF TypeOK, QueuesOK, WorkerOK
<1>3. done \in Seq(Msg)
  BY DEF TypeOK, MainOK
<1>4. QED
  BY <1>1, <1>2, <1>3, MsgTyped

\* A message is released, or boxed and released at once.
LEMMA LanesRelease ==
  ASSUME TypeOK, LaneInv, Marked', UNCHANGED <<inQueue, outQueue, done>>,
         nextPid' \in {nextPid, nextPid + 1},
         \A t \in Thread : cur'[t] = cur[t] \/ cur'[t] = NoMsg
  PROVE  LaneInv'
<1>1. \A t \in Thread : cur'[t].pid = cur[t].pid \/ cur'[t].pid = 0
  BY DEF NoMsg
<1>2. \A t \in Thread : \A i \in 1..Len(inQueue[t]) : cur'[t].pid < inQueue[t][i].pid
  BY <1>1, Pids DEF LaneInv, LanesInOrder, Boxes
<1>3. LanesInOrder'
  BY <1>2 DEF LaneInv, LanesInOrder
<1>4. nextPid > 0 /\ \A n \in Nat : n < nextPid => n < nextPid'
  BY Pids
<1>5. /\ \A t \in Thread :
           /\ \A i \in 1..Len(inQueue[t]) : inQueue[t][i].pid < nextPid'
           /\ \A i \in 1..Len(outQueue[t]) : outQueue[t][i].pid < nextPid'
           /\ cur[t].pid < nextPid'
      /\ \A i \in 1..Len(done) : done[i].kind # "job" => done[i].pid < nextPid'
  <2>1. LaneInv /\ nextPid > 0 /\ \A n \in Nat : n < nextPid => n < nextPid'
    BY <1>4
  <2>2. QED
    BY <2>1, Pids DEF LaneInv, Boxes
<1>6. 0 < nextPid'
  BY <1>4
<1>7. Boxes'
  BY <1>1, <1>5, <1>6 DEF LaneInv, Boxes
<1>8. QED
  BY <1>3, <1>7 DEF LaneInv

\* A new message joins a worker's queue.
LEMMA LanesEnqueue ==
  ASSUME TypeOK, LaneInv, Marked', NEW t \in Thread, NEW m \in Msg, m.pid = nextPid,
         nextPid' = nextPid + 1, UNCHANGED <<outQueue, done, cur>>,
         inQueue' = [inQueue EXCEPT ![t] = Append(@, m)]
  PROVE  LaneInv'
<1> DEFINE q == inQueue[t]
           r == Append(q, m)
<1>1. q \in Seq(Msg) /\ Len(r) = Len(q) + 1 /\ Len(q) \in Nat /\ r[Len(q) + 1] = m
      /\ \A i \in 1..Len(q) : r[i] = q[i]
  BY Pids
<1>2. inQueue'[t] = r /\ \A u \in Thread \ {t} : inQueue'[u] = inQueue[u]
  BY DEF TypeOK, QueuesOK
<1>3. Increasing(r)
  BY <1>1, Pids, IncreasingAppend DEF LaneInv, LanesInOrder, Boxes
<1>4. \A i \in 1..Len(r) : cur[t].pid < r[i].pid /\ 0 < r[i].pid /\ r[i].pid < nextPid + 1
  <2> HIDE DEF r
  <2>1. \A i \in 1..Len(r) : i \in 1..Len(q) \/ i = Len(q) + 1
    BY <1>1
  <2>2. /\ cur[t].pid < nextPid /\ 0 < nextPid
        /\ \A i \in 1..Len(q) : cur[t].pid < q[i].pid /\ 0 < q[i].pid /\ q[i].pid < nextPid
    BY Pids DEF LaneInv, LanesInOrder, Boxes
  <2>3. ASSUME NEW i \in 1..Len(q)
        PROVE  cur[t].pid < r[i].pid /\ 0 < r[i].pid /\ r[i].pid < nextPid + 1
    <3>1. r[i] = q[i] /\ q[i].pid \in Nat /\ nextPid \in Nat
      BY <1>1, Pids
    <3>2. QED
      BY <3>1, <2>2
  <2>4. cur[t].pid < m.pid /\ 0 < m.pid /\ m.pid < nextPid + 1
    BY <2>2, Pids
  <2>5. QED
    BY <1>1, <2>1, <2>3, <2>4
<1> HIDE DEF r, q
<1>5. LanesInOrder'
  <2>1. \A u \in Thread : /\ Increasing(inQueue'[u])
                          /\ \A i \in 1..Len(inQueue'[u]) : cur[u].pid < inQueue'[u][i].pid
    BY <1>2, <1>3, <1>4, ZenonT(60) DEF LaneInv, LanesInOrder
  <2>2. QED
    BY <2>1 DEF LaneInv, LanesInOrder
<1>6. Boxes'
  <2>1. \A u \in Thread : \A i \in 1..Len(inQueue'[u]) :
          0 < inQueue'[u][i].pid /\ inQueue'[u][i].pid < nextPid + 1
    BY <1>2, <1>4, Pids, SMTT(30) DEF LaneInv, Boxes
  <2>2. QED
    BY <2>1, Pids, SMTT(30) DEF LaneInv, Boxes
<1>7. QED
  BY <1>5, <1>6 DEF LaneInv

\* A new message joins the queue to main of the thread that sends it.
LEMMA LanesReport ==
  ASSUME TypeOK, LaneInv, Marked', NEW t \in Thread, NEW m \in Msg, m.pid = nextPid, m.from = t,
         nextPid' = nextPid + 1, UNCHANGED <<inQueue, done, cur>>,
         outQueue' = [outQueue EXCEPT ![t] = Append(@, m)]
  PROVE  LaneInv'
<1> DEFINE q == outQueue[t]
           r == Append(q, m)
<1>1. q \in Seq(Msg) /\ Len(r) = Len(q) + 1 /\ Len(q) \in Nat /\ r[Len(q) + 1] = m
      /\ \A i \in 1..Len(q) : r[i] = q[i]
  BY Pids
<1>2. outQueue'[t] = r /\ \A u \in Thread \ {t} : outQueue'[u] = outQueue[u]
  BY DEF TypeOK, QueuesOK
<1>3. Increasing(r)
  BY <1>1, Pids, IncreasingAppend DEF LaneInv, LanesInOrder, Boxes
<1>4. \A i \in 1..Len(r) : i \in 1..Len(q) \/ i = Len(q) + 1
  <2> HIDE DEF r
  <2> QED BY <1>1
<1>5. \A i \in 1..Len(r) : r[i].pid < nextPid + 1 /\ r[i].from = t
  <2>1. \A i \in 1..Len(q) : q[i].pid < nextPid + 1 /\ q[i].from = t
    BY Pids DEF LaneInv, Boxes
  <2>2. m.pid < nextPid + 1
    BY Pids
  <2> HIDE DEF r, q
  <2>3. QED
    BY <1>1, <1>4, <2>1, <2>2
<1>6. \A i \in 1..Len(done), j \in 1..Len(r) :
        done[i].kind # "job" /\ done[i].from = t => done[i].pid < r[j].pid
  BY <1>1, <1>4, Pids DEF LaneInv, LanesInOrder, Boxes
<1> HIDE DEF r, q
<1>7. LanesInOrder'
  <2>1. ASSUME NEW u \in Thread
        PROVE  /\ Increasing(outQueue'[u])
               /\ \A i \in 1..Len(done), j \in 1..Len(outQueue'[u]) :
                    done[i].kind # "job" /\ done[i].from = u => done[i].pid < outQueue'[u][j].pid
    <3>1. CASE u = t
      BY <3>1, <1>2, <1>3, <1>6
    <3>2. CASE u # t
      BY <3>2, <1>2 DEF LaneInv, LanesInOrder
    <3>3. QED
      BY <3>1, <3>2
  <2>2. QED
    BY <2>1 DEF LaneInv, LanesInOrder
<1>8. Boxes'
  <2>1. \A u \in Thread : \A i \in 1..Len(outQueue'[u]) :
          outQueue'[u][i].pid < nextPid + 1 /\ outQueue'[u][i].from = u
    BY <1>2, <1>5, Pids, SMTT(30) DEF LaneInv, Boxes
  <2>2. QED
    BY <2>1, Pids, SMTT(30) DEF LaneInv, Boxes
<1>9. QED
  BY <1>7, <1>8 DEF LaneInv

\* A worker takes the oldest message of its queue.
LEMMA LanesTake ==
  ASSUME TypeOK, LaneInv, Marked', NEW t \in Thread, inQueue[t] # << >>,
         UNCHANGED <<outQueue, done, nextPid>>,
         cur' = [cur EXCEPT ![t] = Head(inQueue[t])],
         inQueue' = [inQueue EXCEPT ![t] = Tail(@)]
  PROVE  LaneInv'
<1> DEFINE q == inQueue[t]
           r == Tail(q)
<1>1. q \in Seq(Msg) /\ Len(r) = Len(q) - 1 /\ Len(q) \in Nat /\ Len(q) > 0 /\ Head(q) = q[1]
      /\ \A i \in 1..Len(r) : r[i] = q[i+1]
  BY Pids
<1>2. /\ inQueue'[t] = r /\ cur'[t] = Head(q)
      /\ \A u \in Thread \ {t} : inQueue'[u] = inQueue[u] /\ cur'[u] = cur[u]
  BY DEF TypeOK, QueuesOK, WorkerOK
<1>3. Increasing(r) /\ \A i \in 1..Len(r) : Head(q).pid < r[i].pid
  BY <1>1, IncreasingTail DEF LaneInv, LanesInOrder
<1>4. Head(q).pid < nextPid /\ \A i \in 1..Len(r) : 0 < r[i].pid /\ r[i].pid < nextPid
  BY <1>1 DEF LaneInv, Boxes
<1> HIDE DEF r, q
<1>5. LanesInOrder'
  <2>1. \A u \in Thread : /\ Increasing(inQueue'[u])
                          /\ \A i \in 1..Len(inQueue'[u]) : cur'[u].pid < inQueue'[u][i].pid
    BY <1>2, <1>3, ZenonT(60) DEF LaneInv, LanesInOrder
  <2>2. QED
    BY <2>1 DEF LaneInv, LanesInOrder
<1>6. Boxes'
  BY <1>2, <1>4 DEF LaneInv, Boxes
<1>7. QED
  BY <1>5, <1>6 DEF LaneInv

\* kill() empties a worker's queue.
LEMMA LanesEmptied ==
  ASSUME TypeOK, LaneInv, Marked', NEW t \in Thread, UNCHANGED <<outQueue, done, nextPid, cur>>,
         inQueue' = [inQueue EXCEPT ![t] = << >>]
  PROVE  LaneInv'
<1>1. inQueue'[t] = << >> /\ \A u \in Thread \ {t} : inQueue'[u] = inQueue[u]
  BY DEF TypeOK, QueuesOK
<1>2. Increasing(<< >>)
  BY DEF Increasing
<1>3. LanesInOrder'
  BY <1>1, <1>2 DEF LaneInv, LanesInOrder
<1>4. Boxes'
  BY <1>1 DEF LaneInv, Boxes
<1>5. QED
  BY <1>3, <1>4 DEF LaneInv

\* Main detaches what a thread has queued for it.
LEMMA LanesDetach ==
  ASSUME TypeOK, LaneInv, Marked', NEW t \in Thread, UNCHANGED <<inQueue, nextPid, cur>>,
         done' = outQueue[t], outQueue' = [outQueue EXCEPT ![t] = << >>]
  PROVE  LaneInv'
<1>1. outQueue'[t] = << >> /\ \A u \in Thread \ {t} : outQueue'[u] = outQueue[u]
  BY DEF TypeOK, QueuesOK
<1>2. Increasing(<< >>)
  BY DEF Increasing
<1>3. \A i \in 1..Len(done') : done'[i].from = t /\ done'[i].pid < nextPid
  BY DEF LaneInv, Boxes
<1>4. LanesInOrder'
  BY <1>1, <1>2, <1>3 DEF LaneInv, LanesInOrder
<1>5. Boxes'
  BY <1>1, <1>3 DEF LaneInv, Boxes
<1>6. QED
  BY <1>4, <1>5 DEF LaneInv

\* Main detaches the pool's list of completed jobs, or takes the head of what it detached.
LEMMA LanesDetached ==
  ASSUME TypeOK, LaneInv, Marked', UNCHANGED <<inQueue, outQueue, nextPid, cur>>,
         done' = completed \/ (done # << >> /\ done' = Tail(done))
  PROVE  LaneInv'
<1>1. \A i \in 1..Len(done') :
        done'[i].kind = "job" \/ \E j \in 1..Len(done) : done'[i] = done[j]
  <2>1. CASE done' = completed
    BY <2>1 DEF LaneInv, Marked
  <2>2. CASE done # << >> /\ done' = Tail(done)
    <3>1. Len(done') = Len(done) - 1 /\ Len(done) \in Nat /\ Len(done) > 0
          /\ \A i \in 1..Len(done') : done'[i] = done[i+1]
      BY <2>2, Pids
    <3>2. \A i \in 1..Len(done') : i + 1 \in 1..Len(done)
      BY <3>1
    <3>3. QED
      BY <3>1, <3>2
  <2>3. QED
    BY <2>1, <2>2
<1>2. LanesInOrder'
  BY <1>1 DEF LaneInv, LanesInOrder
<1>3. Boxes'
  BY <1>1 DEF LaneInv, Boxes
<1>4. QED
  BY <1>2, <1>3 DEF LaneInv

LEMMA MarkedInductive == ASSUME TypeOK, Marked, [Next]_vars PROVE Marked'
<1> USE MainIsNoThread DEF queues, flags, lists, worker, main, pool, counters, history
<1>1. ASSUME UNCHANGED pool PROVE Marked'
  BY <1>1 DEF Marked
<1>2. ASSUME NEW t \in Thread, Dispatch(t) PROVE Marked'
  <2>1. completed' = completed /\ (jobs' = jobs \/ jobs' = jobs \cup {[cur[t] EXCEPT !.kind = "job"]})
    BY <1>2 DEF Dispatch, DispatchReply
  <2>2. cur[t] \in Msg
    BY DEF TypeOK, WorkerOK
  <2>3. [cur[t] EXCEPT !.kind = "job"].kind = "job"
    BY <2>2 DEF Msg
  <2>4. QED
    BY <2>1, <2>3 DEF Marked
<1>3. ASSUME NEW j \in jobs, PoolWork(j) PROVE Marked'
  <2>1. jobs' = jobs \ {j} /\ completed' = Append(completed, j) /\ completed \in Seq(Msg) /\ j \in Msg
    BY <1>3 DEF PoolWork, TypeOK, PoolOK
  <2>2. \A i \in 1..Len(completed') :
          completed'[i] = j \/ (i \in 1..Len(completed) /\ completed'[i] = completed[i])
    <3>1. /\ Len(completed') = Len(completed) + 1 /\ Len(completed) \in Nat
          /\ completed'[Len(completed) + 1] = j
          /\ \A i \in 1..Len(completed) : completed'[i] = completed[i]
      BY <2>1
    <3>2. QED
      BY <3>1
  <2>3. QED
    BY <2>1, <2>2 DEF Marked
<1>4. CASE Gather
  <2>1. jobs' = jobs /\ (completed' = completed \/ completed' = << >>)
    BY <1>4 DEF Gather
  <2>2. QED
    BY <2>1 DEF Marked
<1>5. ASSUME NEW t \in Thread,
             \/ TryDispatchOne(t) \/ HandlerReturns(t) \/ WorkerStops(t) \/ SpuriousWakeup(t)
             \/ PostOutbound(t) \/ Live(t) \/ Drain(t) \/ Kill(t) \/ GiveRequest(t)
      PROVE  UNCHANGED pool
  BY <1>5 DEF TryDispatchOne, HandlerReturns, WorkerStops, SpuriousWakeup, PostOutbound, Live, Drain,
              Kill, GiveRequest
<1>6. ASSUME NEW a \in Actor, \/ Signal(a) \/ (\E t \in Thread : Post(a, t))
                              \/ \E b \in Actor : Reply(a, b)
      PROVE  UNCHANGED pool
  BY <1>6 DEF Signal, Post, Reply
<1>7. ASSUME UserReturns \/ LoopTop \/ ListDone \/ Deliver \/ WaitDrained \/ KillTest \/ KillSignal
              \/ Join \/ Reap \/ Close
      PROVE  UNCHANGED pool
  BY <1>7 DEF UserReturns, LoopTop, ListDone, Deliver, WaitDrained, KillTest, KillSignal, Join, Reap, Close
<1>8. CASE UNCHANGED vars
  BY <1>1, <1>8 DEF vars
<1>9. QED
  BY <1>1, <1>2, <1>3, <1>4, <1>5, <1>6, <1>7, <1>8
  DEF Next, WorkerStep, MainStep, UserCall, LifeCycleCall, Ended

LEMMA LanesInductive == ASSUME TypeOK, LaneInv, [Next]_vars PROVE LaneInv'
<1> USE MainIsNoThread DEF queues, flags, lists, worker, main, pool, counters, history
<1>1. Marked'
  BY MarkedInductive DEF LaneInv
<1>2. ASSUME UNCHANGED lanes PROVE LaneInv'
  BY <1>1, <1>2, LanesStill
<1>3. ASSUME NEW kind \in Kinds, NEW from \in Actor, NEW txn \in 0..MaxTxn, Box
      PROVE  /\ Boxed(kind, from, txn) \in Msg /\ Boxed(kind, from, txn).pid = nextPid
             /\ Boxed(kind, from, txn).from = from
  BY <1>3, BoxedTyped DEF Boxed
<1>4. ASSUME NEW a \in Actor, NEW dest \in Actor, NEW onMain \in BOOLEAN, RegisterCallback(a, dest, onMain)
      PROVE  nextTxn \in 0..MaxTxn
  BY <1>4, RegisterTyped, Bounds DEF Txn
<1>5. {"ordinary", "reply", "giveRequest"} \subseteq Kinds /\ 0 \in 0..MaxTxn /\ {TRUE, FALSE} \subseteq BOOLEAN
  BY Bounds DEF Kinds
<1>6. ASSUME NEW t \in Thread, NEW m \in Msg, m.pid = nextPid, Box, UNCHANGED <<outQueue, done, cur>>,
             inQueue' = [inQueue EXCEPT ![t] = Append(@, m)]
      PROVE  LaneInv'
  <2>1. nextPid' = nextPid + 1
    BY <1>6 DEF Box
  <2>2. QED
    BY <1>1, <1>6, <2>1, LanesEnqueue
<1>7. ASSUME NEW t \in Thread, NEW m \in Msg, m.pid = nextPid, m.from = t, Box,
             UNCHANGED <<inQueue, done, cur>>, outQueue' = [outQueue EXCEPT ![t] = Append(@, m)]
      PROVE  LaneInv'
  <2>1. nextPid' = nextPid + 1
    BY <1>7 DEF Box
  <2>2. QED
    BY <1>1, <1>7, <2>1, LanesReport
<1>8. ASSUME NEW a \in Actor, NEW t \in Thread, Post(a, t) PROVE LaneInv'
  <2>1. Box /\ UNCHANGED <<outQueue, done, cur>>
    BY <1>8 DEF Post
  <2>2. CASE inQueue' = [inQueue EXCEPT ![t] = Append(@, Boxed("ordinary", Self(a), 0))]
    <3>1. Boxed("ordinary", Self(a), 0) \in Msg /\ Boxed("ordinary", Self(a), 0).pid = nextPid
      BY <1>3, <1>5, <2>1, SelfTyped
    <3>2. QED
      BY <1>6, <2>1, <2>2, <3>1
  <2>3. CASE /\ RegisterCallback(a, t, FALSE)
             /\ inQueue' = [inQueue EXCEPT ![t] = Append(@, Boxed("ordinary", a, nextTxn))]
    <3>1. nextTxn \in 0..MaxTxn
      BY <1>4, <1>5, <2>3
    <3>2. Boxed("ordinary", a, nextTxn) \in Msg /\ Boxed("ordinary", a, nextTxn).pid = nextPid
      BY <1>3, <1>5, <2>1, <3>1
    <3>3. QED
      BY <1>6, <2>1, <2>3, <3>2
  <2>4. QED
    BY <1>8, <2>2, <2>3 DEF Post, Enqueue
<1>9. ASSUME NEW t \in Thread, PostOutbound(t) PROVE LaneInv'
  <2>1. Box /\ UNCHANGED <<inQueue, done, cur>>
    BY <1>9 DEF PostOutbound
  <2>2. CASE outQueue' = [outQueue EXCEPT ![t] = Append(@, Boxed("ordinary", t, 0))]
    <3>1. LET m == Boxed("ordinary", t, 0) IN m \in Msg /\ m.pid = nextPid /\ m.from = t
      BY <1>3, <1>5, <2>1
    <3>2. QED
      BY <1>7, <2>1, <2>2, <3>1
  <2>3. CASE /\ RegisterCallback(t, Main, TRUE)
             /\ outQueue' = [outQueue EXCEPT ![t] = Append(@, Boxed("ordinary", t, nextTxn))]
    <3>1. nextTxn \in 0..MaxTxn
      BY <1>4, <1>5, <2>3
    <3>2. QED
      <4>1. LET m == Boxed("ordinary", t, nextTxn) IN m \in Msg /\ m.pid = nextPid /\ m.from = t
        BY <1>3, <1>5, <2>1, <3>1
      <4>2. QED
        BY <1>7, <2>1, <2>3, <4>1
  <2>4. QED
    BY <1>9, <2>2, <2>3 DEF PostOutbound
<1>10. ASSUME NEW a \in Actor, NEW dest \in Actor, Reply(a, dest) PROVE LaneInv'
  <2>1. Box /\ UNCHANGED <<done, cur>> /\ nextPid' = nextPid + 1 /\ replyTxn[a] \in 0..MaxTxn
    BY <1>10 DEF Reply, Box, TypeOK, ActorsOK
  <2>2. CASE UNCHANGED queues
    BY <1>1, <2>1, <2>2, LanesRelease
  <2>3. CASE /\ UNCHANGED inQueue
             /\ outQueue' = [outQueue EXCEPT ![a] = Append(@, Boxed("reply", a, replyTxn[a]))]
    <3>1. CASE a \in Thread
      <4>1. LET m == Boxed("reply", a, replyTxn[a]) IN m \in Msg /\ m.pid = nextPid /\ m.from = a
        BY <1>3, <1>5, <2>1
      <4>2. QED
        BY <1>7, <2>1, <2>3, <3>1, <4>1
    <3>2. CASE a = Main
      <4>1. outQueue' = outQueue
        BY <2>3, <3>2 DEF TypeOK, QueuesOK
      <4>2. QED
        BY <1>1, <2>1, <2>3, <4>1, LanesRelease
    <3>3. QED
      BY <3>1, <3>2 DEF Actor
  <2>4. CASE /\ UNCHANGED outQueue /\ dest # Main
             /\ inQueue' = [inQueue EXCEPT ![dest] = Append(@, Boxed("reply", a, replyTxn[a]))]
    <3>1. dest \in Thread
      BY <2>4 DEF Actor
    <3>2. QED
      <4>1. Boxed("reply", a, replyTxn[a]) \in Msg /\ Boxed("reply", a, replyTxn[a]).pid = nextPid
        BY <1>3, <1>5, <2>1
      <4>2. QED
        BY <1>6, <2>1, <2>4, <3>1, <4>1
  <2>5. QED
    BY <1>10, <2>2, <2>3, <2>4 DEF Reply, Enqueue
<1>11. ASSUME NEW t \in Thread, GiveRequest(t) PROVE LaneInv'
  <2>1. /\ Box /\ UNCHANGED <<outQueue, done, cur>>
        /\ inQueue' = [inQueue EXCEPT ![t] = Append(@, Boxed("giveRequest", Main, 0))]
    BY <1>11 DEF GiveRequest, Enqueue
  <2>2. Boxed("giveRequest", Main, 0) \in Msg /\ Boxed("giveRequest", Main, 0).pid = nextPid
    BY <1>3, <1>5, <2>1
  <2>3. QED
    BY <1>6, <2>1, <2>2
<1>12. ASSUME NEW t \in Thread, TryDispatchOne(t) PROVE LaneInv'
  <2>1. CASE UNCHANGED <<inQueue, cur>>
    <3>1. UNCHANGED lanes
      BY <1>12, <2>1 DEF TryDispatchOne, lanes
    <3>2. QED
      BY <1>2, <3>1
  <2>2. CASE /\ inQueue[t] # << >> /\ cur' = [cur EXCEPT ![t] = Head(inQueue[t])]
             /\ inQueue' = [inQueue EXCEPT ![t] = Tail(@)]
    <3>1. UNCHANGED <<outQueue, done, nextPid>>
      BY <1>12 DEF TryDispatchOne
    <3>2. QED
      BY <1>1, <2>2, <3>1, LanesTake
  <2>3. QED
    BY <1>12, <2>1, <2>2 DEF TryDispatchOne
<1>13. ASSUME NEW t \in Thread, Dispatch(t) \/ HandlerReturns(t) PROVE LaneInv'
  <2>1. UNCHANGED <<inQueue, outQueue, done, nextPid>>
    BY <1>13 DEF Dispatch, HandlerReturns
  <2>2. cur' = cur \/ cur' = [cur EXCEPT ![t] = NoMsg]
    BY <1>13 DEF Dispatch, DispatchReply, HandlerReturns
  <2>3. \A u \in Thread : cur'[u] = cur[u] \/ cur'[u] = NoMsg
    BY <2>2 DEF TypeOK, WorkerOK
  <2>4. QED
    BY <1>1, <2>1, <2>3, LanesRelease
<1>14. CASE Reap
  <2>1. /\ UNCHANGED <<outQueue, done, nextPid, cur>> /\ inQueue' = [inQueue EXCEPT ![target] = << >>]
        /\ target \in Thread
    BY <1>14 DEF Reap, TypeOK, MainOK
  <2>2. QED
    BY <1>1, <2>1, LanesEmptied
<1>15. CASE Gather
  <2>1. UNCHANGED <<inQueue, nextPid, cur>>
    BY <1>15 DEF Gather
  <2>2. CASE outQueue' = outQueue /\ done' = completed
    <3>1. UNCHANGED <<inQueue, outQueue, nextPid, cur>>
      BY <2>1, <2>2
    <3>2. QED
      BY <1>1, <2>2, <3>1, LanesDetached
  <2>3. CASE /\ at <= Len(Registry) /\ done' = outQueue[Registry[at]]
             /\ outQueue' = [outQueue EXCEPT ![Registry[at]] = << >>]
    <3>1. Registry[at] \in Thread
      BY <2>3, RegistryTyped DEF TypeOK, MainOK
    <3>2. QED
      BY <1>1, <2>1, <2>3, <3>1, LanesDetach
  <2>4. CASE UNCHANGED <<outQueue, done>>
    BY <1>2, <2>1, <2>4 DEF lanes
  <2>5. QED
    BY <1>15, <2>2, <2>3, <2>4 DEF Gather
<1>16. CASE Deliver
  <2>1. UNCHANGED <<inQueue, outQueue, nextPid, cur>> /\ done # << >> /\ done' = Tail(done)
    BY <1>16 DEF Deliver
  <2>2. QED
    BY <1>1, <2>1, LanesDetached
<1>17. ASSUME NEW t \in Thread,
              WorkerStops(t) \/ SpuriousWakeup(t) \/ Live(t) \/ Drain(t) \/ Kill(t)
       PROVE  UNCHANGED lanes
  BY <1>17 DEF WorkerStops, SpuriousWakeup, Live, Drain, Kill, lanes
<1>18. ASSUME NEW a \in Actor, Signal(a) PROVE UNCHANGED lanes
  BY <1>18 DEF Signal, lanes
<1>19. ASSUME NEW j \in jobs, PoolWork(j) PROVE UNCHANGED lanes
  BY <1>19 DEF PoolWork, lanes
<1>20. ASSUME UserReturns \/ LoopTop \/ ListDone \/ WaitDrained \/ KillTest \/ KillSignal \/ Join \/ Close
       PROVE  UNCHANGED lanes
  BY <1>20 DEF UserReturns, LoopTop, ListDone, WaitDrained, KillTest, KillSignal, Join, Close, lanes
<1>21. CASE UNCHANGED vars
  BY <1>2, <1>21 DEF vars, lanes
<1>22. QED
  BY <1>2, <1>8, <1>9, <1>10, <1>11, <1>12, <1>13, <1>14, <1>15, <1>16, <1>17, <1>18, <1>19, <1>20, <1>21
  DEF Next, WorkerStep, MainStep, UserCall, LifeCycleCall, Ended

\* What a worker handles is older than all it has queued, and what main has detached from
\* a thread older than what the thread queued since: each lane is first in, first out.
THEOREM LanesAreInOrder == Spec => []LanesInOrder
<1>1. Init => LaneInv
  BY DEF Init, LaneInv, LanesInOrder, Increasing, Boxes, Marked, NoMsg
<1>2. TypeOK /\ LaneInv /\ [Next]_vars => LaneInv'
  BY LanesInductive
<1>3. LaneInv => LanesInOrder
  BY DEF LaneInv
<1>4. QED
  BY <1>1, <1>2, <1>3, TypeCorrect, PTL DEF Spec

(***************************************************************************)
(* Callbacks.                                                              *)
(***************************************************************************)

\* An id that was not handed out yet is nowhere.
Held ==
  /\ CallbackHeldOnce
  /\ \A x \in Txn : x >= nextTxn => fires[x] = 0 /\ ~Marshaled(x)

\* What a step may do with one callback, of actor a and id n.
Marshals(n)   == \A x \in Txn : Marshaled(x)' <=> Marshaled(x) \/ x = n
Unmarshals(n) == \A x \in Txn : Marshaled(x)' <=> Marshaled(x) /\ x # n
SameMarshaled == \A x \in Txn : Marshaled(x)' <=> Marshaled(x)
Unlists(a, n) == \A b \in Actor : Txns(pending'[b]) = IF b = a THEN Txns(pending[b]) \ {n} ELSE Txns(pending[b])
Lists(a, n)   == \A b \in Actor : Txns(pending'[b]) = IF b = a THEN Txns(pending[b]) \cup {n} ELSE Txns(pending[b])
SameLists     == \A b \in Actor : Txns(pending'[b]) = Txns(pending[b])
Fires(n)      == fires' = [fires EXCEPT ![n] = @ + 1]

\* The invariant without the lists' contents, which no step needs to see.
LEMMA HeldSplit ==
  ASSUME TypeOK, Numbered
  PROVE  /\ nextTxn \in 1..MaxTxn + 1 /\ MaxTxn \in Nat /\ Txn = 1..MaxTxn
         /\ 1..nextTxn - 1 \subseteq Txn
         /\ \A a \in Actor : Txns(pending[a]) \subseteq 1..nextTxn - 1
         /\ fires \in [Txn -> Nat] /\ asker \in [Txn -> Actor]
<1>1. nextTxn \in 1..MaxTxn + 1 /\ MaxTxn \in Nat /\ Txn = 1..MaxTxn
  BY Bounds DEF TypeOK, CountersOK, Txn
<1>2. 1..nextTxn - 1 \subseteq Txn
  BY <1>1
<1>3. \A a \in Actor : \A cb \in pending[a] : cb.txn \in Txn /\ cb.txn < nextTxn
  BY DEF TypeOK, ListsOK, Callback, Numbered
<1>4. \A a \in Actor : Txns(pending[a]) \subseteq 1..nextTxn - 1
  BY <1>1, <1>3 DEF Txns
<1>5. fires \in [Txn -> Nat] /\ asker \in [Txn -> Actor]
  BY DEF TypeOK, HistoryOK
<1>6. QED
  BY <1>1, <1>2, <1>4, <1>5

LEMMA HeldStill ==
  ASSUME TypeOK, Numbered, Held, SameLists, SameMarshaled, UNCHANGED <<fires, asker, nextTxn>>,
         askerKilled \subseteq askerKilled'
  PROVE  Held'
<1>1. CallbackHeldOnce'
  BY HeldSplit DEF Held, CallbackHeldOnce, SameLists, SameMarshaled
<1>2. QED
  BY <1>1 DEF Held, SameMarshaled

\* A callback is registered.
LEMMA HeldRegistered ==
  ASSUME TypeOK, Numbered, Held, NEW a \in Actor, NEW n \in Txn, n = nextTxn, Lists(a, n),
         SameMarshaled, UNCHANGED <<fires, askerKilled>>, nextTxn' = n + 1,
         asker' = [asker EXCEPT ![n] = a]
  PROVE  Held'
<1>1. \A x \in 1..nextTxn' - 1 : x \in 1..nextTxn - 1 \/ x = n
  BY HeldSplit
<1>2. ASSUME NEW x \in 1..nextTxn - 1
      PROVE  /\ x \in Txn /\ x # n /\ asker'[x] = asker[x] /\ (Marshaled(x)' <=> Marshaled(x))
             /\ \A b \in Actor : x \in Txns(pending'[b]) <=> x \in Txns(pending[b])
  <2>1. x \in Txn /\ x # n
    BY HeldSplit
  <2>2. asker'[x] = asker[x]
    BY <2>1, HeldSplit
  <2>3. Marshaled(x)' <=> Marshaled(x)
    BY <2>1 DEF SameMarshaled
  <2>4. \A b \in Actor : x \in Txns(pending'[b]) <=> x \in Txns(pending[b])
    BY <2>1 DEF Lists
  <2>5. QED
    BY <2>1, <2>2, <2>3, <2>4
<1>3. /\ asker'[n] = a /\ fires[n] = 0 /\ ~Marshaled(n)'
      /\ \A b \in Actor : n \in Txns(pending'[b]) <=> b = a
  <2>1. \A b \in Actor : n \notin Txns(pending[b])
    BY HeldSplit
  <2>2. fires[n] = 0 /\ ~Marshaled(n)
    BY HeldSplit DEF Held
  <2>3. QED
    <3>1. asker'[n] = a
      BY HeldSplit
    <3>2. ~Marshaled(n)'
      BY <2>2 DEF SameMarshaled
    <3>3. \A b \in Actor : n \in Txns(pending'[b]) <=> b = a
      BY <2>1 DEF Lists
    <3>4. QED
      BY <2>2, <3>1, <3>2, <3>3
<1>4. CallbackHeldOnce'
  <2>1. ASSUME NEW x \in 1..nextTxn - 1
        PROVE  LET listed == \E b \in Actor : x \in Txns(pending'[b])
               IN /\ fires'[x] <= 1
                  /\ listed => /\ x \in Txns(pending'[asker'[x]])
                               /\ \A b \in Actor \ {asker'[x]} : x \notin Txns(pending'[b])
                               /\ fires'[x] = 0 /\ ~Marshaled(x)'
                  /\ Marshaled(x)' => fires'[x] = 0
                  /\ ~listed /\ ~Marshaled(x)' /\ fires'[x] = 0 => x \in askerKilled'
    BY <1>2, HeldSplit DEF Held, CallbackHeldOnce
  <2>2. LET x == n
            listed == \E b \in Actor : x \in Txns(pending'[b])
        IN /\ fires'[x] <= 1
           /\ listed => /\ x \in Txns(pending'[asker'[x]])
                        /\ \A b \in Actor \ {asker'[x]} : x \notin Txns(pending'[b])
                        /\ fires'[x] = 0 /\ ~Marshaled(x)'
           /\ Marshaled(x)' => fires'[x] = 0
           /\ ~listed /\ ~Marshaled(x)' /\ fires'[x] = 0 => x \in askerKilled'
    BY <1>3
  <2>3. QED
    BY <1>1, <2>1, <2>2 DEF CallbackHeldOnce
<1>5. \A x \in Txn : x >= nextTxn' => fires'[x] = 0 /\ ~Marshaled(x)'
  BY HeldSplit DEF Held, SameMarshaled
<1>6. QED
  BY <1>4, <1>5 DEF Held

\* The callback n of actor a is taken off its list, and runs or is sent to main.
LEMMA HeldUnlinked ==
  ASSUME TypeOK, Numbered, Held, NEW a \in Actor, NEW n \in Txns(pending[a]), Unlists(a, n),
         UNCHANGED <<asker, nextTxn, askerKilled>>,
         \/ Fires(n) /\ SameMarshaled
         \/ fires' = fires /\ Marshals(n)
  PROVE  Held'
<1>1. n \in 1..nextTxn - 1 /\ n \in Txn /\ a = asker[n] /\ fires[n] = 0 /\ ~Marshaled(n)
      /\ \A b \in Actor : n \notin Txns(pending'[b])
  <2>1. n \in 1..nextTxn - 1 /\ n \in Txn
    BY HeldSplit
  <2>2. a = asker[n] /\ fires[n] = 0 /\ ~Marshaled(n) /\ \A b \in Actor \ {asker[n]} : n \notin Txns(pending[b])
    BY <2>1 DEF Held, CallbackHeldOnce
  <2>3. QED
    BY <2>1, <2>2 DEF Unlists
<1>2. \/ fires'[n] = 1 /\ ~Marshaled(n)'
      \/ fires'[n] = 0 /\ Marshaled(n)'
  BY <1>1, HeldSplit DEF Fires, SameMarshaled, Marshals
<1>3. ASSUME NEW x \in Txn, x # n
      PROVE  /\ fires'[x] = fires[x] /\ (Marshaled(x)' <=> Marshaled(x))
             /\ \A b \in Actor : x \in Txns(pending'[b]) <=> x \in Txns(pending[b])
  BY <1>1, <1>3, HeldSplit DEF Fires, SameMarshaled, Marshals, Unlists
<1>4. CallbackHeldOnce'
  <2>1. ASSUME NEW x \in 1..nextTxn - 1, x # n
        PROVE  LET listed == \E b \in Actor : x \in Txns(pending'[b])
               IN /\ fires'[x] <= 1
                  /\ listed => /\ x \in Txns(pending'[asker'[x]])
                               /\ \A b \in Actor \ {asker'[x]} : x \notin Txns(pending'[b])
                               /\ fires'[x] = 0 /\ ~Marshaled(x)'
                  /\ Marshaled(x)' => fires'[x] = 0
                  /\ ~listed /\ ~Marshaled(x)' /\ fires'[x] = 0 => x \in askerKilled'
    BY <1>3, <2>1, HeldSplit DEF Held, CallbackHeldOnce
  <2>2. QED
    BY <1>1, <1>2, <2>1 DEF CallbackHeldOnce
<1>5. \A x \in Txn : x >= nextTxn' => fires'[x] = 0 /\ ~Marshaled(x)'
  <2>1. \A x \in Txn : x >= nextTxn => x # n
    BY <1>1, HeldSplit
  <2>2. QED
    BY <1>3, <2>1 DEF Held
<1>6. QED
  BY <1>4, <1>5 DEF Held

\* Main runs the callback n, which was sent to it.
LEMMA HeldRun ==
  ASSUME TypeOK, Numbered, Held, NEW n \in Txn, Marshaled(n), SameLists, Fires(n), Unmarshals(n),
         UNCHANGED <<asker, nextTxn, askerKilled>>
  PROVE  Held'
<1>1. n \in 1..nextTxn - 1 /\ fires[n] = 0 /\ \A b \in Actor : n \notin Txns(pending[b])
  <2>1. n < nextTxn
    BY HeldSplit DEF Held
  <2>2. n \in 1..nextTxn - 1
    BY <2>1, HeldSplit
  <2>3. QED
    BY <2>2 DEF Held, CallbackHeldOnce
<1>2. fires'[n] = 1 /\ ~Marshaled(n)' /\ \A b \in Actor : n \notin Txns(pending'[b])
  BY <1>1, HeldSplit DEF Fires, Unmarshals, SameLists
<1>3. ASSUME NEW x \in Txn, x # n
      PROVE  /\ fires'[x] = fires[x] /\ (Marshaled(x)' <=> Marshaled(x))
             /\ \A b \in Actor : x \in Txns(pending'[b]) <=> x \in Txns(pending[b])
  BY <1>3, HeldSplit DEF Fires, SameLists, Unmarshals
<1>4. CallbackHeldOnce'
  <2>1. ASSUME NEW x \in 1..nextTxn - 1, x # n
        PROVE  LET listed == \E b \in Actor : x \in Txns(pending'[b])
               IN /\ fires'[x] <= 1
                  /\ listed => /\ x \in Txns(pending'[asker'[x]])
                               /\ \A b \in Actor \ {asker'[x]} : x \notin Txns(pending'[b])
                               /\ fires'[x] = 0 /\ ~Marshaled(x)'
                  /\ Marshaled(x)' => fires'[x] = 0
                  /\ ~listed /\ ~Marshaled(x)' /\ fires'[x] = 0 => x \in askerKilled'
    BY <1>3, <2>1, HeldSplit DEF Held, CallbackHeldOnce
  <2>2. QED
    BY <1>1, <1>2, <2>1 DEF CallbackHeldOnce
<1>5. \A x \in Txn : x >= nextTxn' => fires'[x] = 0 /\ ~Marshaled(x)'
  <2>1. \A x \in Txn : x >= nextTxn => x # n
    BY <1>1, HeldSplit
  <2>2. QED
    BY <1>3, <2>1 DEF Held
<1>6. QED
  BY <1>4, <1>5 DEF Held

\* kill() drops the callbacks of the thread t.
LEMMA HeldDropped ==
  ASSUME TypeOK, Numbered, Held, NEW t \in Thread, SameMarshaled, UNCHANGED <<fires, asker, nextTxn>>,
         pending' = [pending EXCEPT ![t] = {}],
         askerKilled' = askerKilled \cup {x \in Unanswered : asker[x] = t}
  PROVE  Held'
<1>1. \A b \in Actor : Txns(pending'[b]) = IF b = t THEN {} ELSE Txns(pending[b])
  BY MainIsNoThread DEF TypeOK, ListsOK, Txns
<1>2. ASSUME NEW x \in 1..nextTxn - 1
      PROVE  LET listed == \E b \in Actor : x \in Txns(pending'[b])
             IN /\ fires[x] <= 1
                /\ listed => /\ x \in Txns(pending'[asker[x]])
                             /\ \A b \in Actor \ {asker[x]} : x \notin Txns(pending'[b])
                             /\ fires[x] = 0 /\ ~Marshaled(x)
                /\ Marshaled(x) => fires[x] = 0
                /\ ~listed /\ ~Marshaled(x) /\ fires[x] = 0 => x \in askerKilled'
  <2>1. x \in Txn /\ x < nextTxn /\ asker[x] \in Actor
    BY HeldSplit
  <2>2. CASE asker[x] = t
    <3>1. fires[x] = 0 => x \in askerKilled'
      BY <2>1, <2>2 DEF Unanswered
    <3>2. \A b \in Actor : x \notin Txns(pending'[b])
      BY <1>1, <2>2 DEF Held, CallbackHeldOnce
    <3>3. QED
      BY <3>1, <3>2 DEF Held, CallbackHeldOnce
  <2>3. CASE asker[x] # t
    <3>1. \A b \in Actor : x \in Txns(pending'[b]) <=> x \in Txns(pending[b])
      <4>1. (\E b \in Actor : x \in Txns(pending[b])) => \A b \in Actor \ {asker[x]} : x \notin Txns(pending[b])
        BY DEF Held, CallbackHeldOnce
      <4>2. QED
        BY <1>1, <2>1, <2>3, <4>1, MainIsNoThread
    <3>2. QED
      BY <3>1 DEF Held, CallbackHeldOnce
  <2>4. QED
    BY <2>2, <2>3
<1>3. \A x \in 1..nextTxn - 1 : Marshaled(x)' <=> Marshaled(x)
  BY HeldSplit DEF SameMarshaled
<1>4. CallbackHeldOnce'
  BY <1>2, <1>3 DEF CallbackHeldOnce
<1>5. QED
  BY <1>4 DEF Held, SameMarshaled

(***************************************************************************)
(* Callbacks on their way to main.                                         *)
(***************************************************************************)

IsJob(m) == m.kind = "job"

\* A callback on its way to main is one job, in one place.
Copies ==
  /\ Marked
  /\ \A j \in jobs : j.txn \in Txn
  /\ \A i \in 1..Len(completed) : completed[i].txn \in Txn
  /\ \A i \in 1..Len(done) : IsJob(done[i]) => done[i].txn \in Txn
  /\ \A j, k \in jobs : j.txn = k.txn => j = k
  /\ \A i, k \in 1..Len(completed) : completed[i].txn = completed[k].txn => i = k
  /\ \A i, k \in 1..Len(done) : IsJob(done[i]) /\ IsJob(done[k]) /\ done[i].txn = done[k].txn => i = k
  /\ \A j \in jobs, i \in 1..Len(completed) : j.txn # completed[i].txn
  /\ \A j \in jobs, i \in 1..Len(done) : IsJob(done[i]) => j.txn # done[i].txn
  /\ \A i \in 1..Len(completed), k \in 1..Len(done) : IsJob(done[k]) => completed[i].txn # done[k].txn

\* Main detaches a list only when the last one is used up.
UsedUp == mpc \in {"gather", "check"} \/ stage \in {"top", "timers"} => done = << >>

\* A job is never in a thread's own queue to main.
NoJobOut == \A t \in Thread : \A i \in 1..Len(outQueue[t]) : ~IsJob(outQueue[t][i])

LEMMA CopiesStill ==
  ASSUME Copies, UNCHANGED <<jobs, completed, done>>
  PROVE  Copies' /\ SameMarshaled
BY DEF Copies, Marked, SameMarshaled, Marshaled

LEMMA CopiesMarshal ==
  ASSUME Copies, NEW j, IsJob(j), j.txn \in Txn, ~Marshaled(j.txn), jobs' = jobs \cup {j},
         UNCHANGED <<completed, done>>
  PROVE  Copies' /\ Marshals(j.txn)
<1>1. /\ \A k \in jobs : k.txn # j.txn
      /\ \A i \in 1..Len(completed) : completed[i].txn # j.txn
      /\ \A i \in 1..Len(done) : IsJob(done[i]) => done[i].txn # j.txn
  BY DEF Marshaled, IsJob
<1>2. Marked'
  BY DEF Copies, Marked, IsJob
<1>3. Copies'
  BY <1>1, <1>2 DEF Copies
<1>4. Marshals(j.txn)
  BY DEF Marshals, Marshaled
<1>5. QED
  BY <1>3, <1>4

LEMMA CopiesCompleted ==
  ASSUME Copies, NEW j \in jobs, jobs' = jobs \ {j}, completed \in Seq(Msg), j \in Msg,
         completed' = Append(completed, j), done' = done
  PROVE  Copies' /\ SameMarshaled
<1> DEFINE n == Len(completed)
<1>1. /\ Len(completed') = n + 1 /\ n \in Nat /\ completed'[n + 1] = j
      /\ \A i \in 1..n : completed'[i] = completed[i]
  OBVIOUS
<1> HIDE DEF n
<1>2. \A i \in 1..Len(completed') : i \in 1..n \/ i = n + 1
  BY <1>1
<1>3. 1..n \subseteq 1..Len(completed') /\ n + 1 \in 1..Len(completed') /\ n = Len(completed)
  BY <1>1 DEF n
<1>4. /\ \A i \in 1..Len(completed') : completed'[i].kind = "job" /\ completed'[i].txn \in Txn
      /\ \A i, k \in 1..Len(completed') : completed'[i].txn = completed'[k].txn => i = k
      /\ \A k \in jobs', i \in 1..Len(completed') : k.txn # completed'[i].txn
      /\ \A i \in 1..Len(completed'), k \in 1..Len(done) : IsJob(done[k]) => completed'[i].txn # done[k].txn
  BY <1>1, <1>2, <1>3 DEF Copies, Marked
<1>5. Copies'
  BY <1>4 DEF Copies, Marked
<1>6. ASSUME NEW x \in Txn
      PROVE  (\E k \in jobs' : k.txn = x) \/ (\E i \in 1..Len(completed') : completed'[i].txn = x)
             <=> (\E k \in jobs : k.txn = x) \/ (\E i \in 1..Len(completed) : completed[i].txn = x)
  BY <1>1, <1>2, <1>3
<1>7. SameMarshaled
  BY <1>6 DEF SameMarshaled, Marshaled
<1>8. QED
  BY <1>5, <1>7

LEMMA CopiesDetach ==
  ASSUME Copies, done = << >>, done' = completed, completed' = << >>, jobs' = jobs
  PROVE  Copies' /\ SameMarshaled
<1>1. Copies'
  BY DEF Copies, Marked, IsJob
<1>2. SameMarshaled
  BY DEF SameMarshaled, Marshaled, Copies, Marked
<1>3. QED
  BY <1>1, <1>2

LEMMA CopiesNoJob ==
  ASSUME Copies, done = << >>, \A i \in 1..Len(done') : ~IsJob(done'[i]), UNCHANGED <<jobs, completed>>
  PROVE  Copies' /\ SameMarshaled
<1>1. Copies'
  BY DEF Copies, Marked
<1>2. SameMarshaled
  BY DEF SameMarshaled, Marshaled, IsJob
<1>3. QED
  BY <1>1, <1>2

LEMMA CopiesTail ==
  ASSUME Copies, done \in Seq(Msg), done # << >>, done' = Tail(done), UNCHANGED <<jobs, completed>>,
         NEW m, m = Head(done)
  PROVE  /\ Copies'
         /\ IsJob(m) => m.txn \in Txn /\ Marshaled(m.txn) /\ Unmarshals(m.txn)
         /\ ~IsJob(m) => SameMarshaled
<1>1. /\ Len(done') = Len(done) - 1 /\ Len(done) \in Nat /\ Len(done) > 0 /\ m = done[1]
      /\ \A i \in 1..Len(done') : done'[i] = done[i+1]
  OBVIOUS
<1>2. /\ \A i \in 1..Len(done') : i + 1 \in 1..Len(done) /\ i + 1 # 1 /\ done'[i] = done[i+1]
      /\ \A i \in 1..Len(done) : i = 1 \/ (i - 1 \in 1..Len(done') /\ done'[i-1] = done[i])
      /\ \A i, k \in 1..Len(done') : i + 1 = k + 1 => i = k
      /\ 1 \in 1..Len(done)
  <2>1. \A i \in 1..Len(done) : i = 1 \/ (i - 1 \in 1..Len(done') /\ (i - 1) + 1 = i)
    BY <1>1
  <2>2. QED
    BY <1>1, <2>1
<1>3. /\ \A i \in 1..Len(done') : IsJob(done'[i]) => done'[i].txn \in Txn
      /\ \A i, k \in 1..Len(done') : IsJob(done'[i]) /\ IsJob(done'[k]) /\ done'[i].txn = done'[k].txn => i = k
      /\ \A j \in jobs, i \in 1..Len(done') : IsJob(done'[i]) => j.txn # done'[i].txn
      /\ \A i \in 1..Len(completed), k \in 1..Len(done') : IsJob(done'[k]) => completed[i].txn # done'[k].txn
  <2>1. \A i \in 1..Len(done') : i + 1 \in 1..Len(done) /\ done'[i] = done[i+1]
    BY <1>2
  <2>2. \A i, k \in 1..Len(done') : i + 1 = k + 1 => i = k
    BY <1>2
  <2>3. \A i \in 1..Len(done') : IsJob(done'[i]) => done'[i].txn \in Txn
    BY <2>1 DEF Copies
  <2>4. \A i, k \in 1..Len(done') : IsJob(done'[i]) /\ IsJob(done'[k]) /\ done'[i].txn = done'[k].txn => i = k
    BY <2>1, <2>2 DEF Copies
  <2>5. \A j \in jobs, i \in 1..Len(done') : IsJob(done'[i]) => j.txn # done'[i].txn
    BY <2>1 DEF Copies
  <2>6. \A i \in 1..Len(completed), k \in 1..Len(done') : IsJob(done'[k]) => completed[i].txn # done'[k].txn
    BY <2>1 DEF Copies
  <2>7. QED
    BY <2>3, <2>4, <2>5, <2>6
<1>4. Copies'
  <2>1. Marked' /\ jobs' = jobs /\ completed' = completed
    BY DEF Copies, Marked
  <2>2. QED
    BY <1>3, <2>1, SMTT(30) DEF Copies
<1>5. ASSUME IsJob(m) PROVE m.txn \in Txn /\ Marshaled(m.txn) /\ Unmarshals(m.txn)
  <2>1. m.txn \in Txn /\ Marshaled(m.txn)
    BY <1>1, <1>2, <1>5 DEF Copies, Marshaled, IsJob
  <2>2. ASSUME NEW x \in Txn PROVE Marshaled(x)' <=> Marshaled(x) /\ x # m.txn
    <3>1. (\E i \in 1..Len(done') : IsJob(done'[i]) /\ done'[i].txn = x)
          <=> (\E i \in 1..Len(done) : i # 1 /\ IsJob(done[i]) /\ done[i].txn = x)
      BY <1>2, SMTT(30)
    <3>2. CASE x = m.txn
      <4>1. ~\E i \in 1..Len(done) : i # 1 /\ IsJob(done[i]) /\ done[i].txn = x
        BY <3>2, <1>1, <1>2, <1>5 DEF Copies
      <4>2. /\ ~\E j \in jobs : j.txn = x
            /\ ~\E i \in 1..Len(completed) : completed[i].txn = x
        BY <3>2, <1>1, <1>2, <1>5 DEF Copies
      <4>3. QED
        BY <3>1, <3>2, <4>1, <4>2 DEF Marshaled, IsJob
    <3>3. CASE x # m.txn
      BY <1>1, <3>1, <3>3 DEF Marshaled, IsJob
    <3>4. QED
      BY <3>2, <3>3
  <2>3. QED
    BY <2>1, <2>2 DEF Unmarshals
<1>6. ASSUME ~IsJob(m) PROVE SameMarshaled
  <2>1. \A x : (\E i \in 1..Len(done') : done'[i].kind = "job" /\ done'[i].txn = x)
               <=> (\E i \in 1..Len(done) : done[i].kind = "job" /\ done[i].txn = x)
    BY <1>1, <1>2, <1>6 DEF IsJob
  <2>2. QED
    BY <2>1 DEF SameMarshaled, Marshaled
<1>7. QED
  BY <1>4, <1>5, <1>6

\* Nearly every step leaves the list main has detached alone and does not come to the
\* places that detach one.
LEMMA UsedUpStill ==
  ASSUME UsedUp, done' = done, mpc' = mpc \/ mpc' \notin {"gather", "check"},
         stage' = stage \/ stage' \notin {"top", "timers"}
  PROVE  UsedUp'
BY DEF UsedUp

LEMMA UsedUpInductive == ASSUME TypeOK, UsedUp, [Next]_vars PROVE UsedUp'
<1> USE MainIsNoThread DEF queues, flags, lists, worker, main, pool, counters, history
<1>1. ASSUME UNCHANGED <<mpc, stage, done>> PROVE UsedUp'
  BY <1>1 DEF UsedUp
<1>2. \A t \in Thread : MainAfterBroadcast(t) \in {mpc, "drainCheck"}
  BY DEF MainAfterBroadcast
<1>3. ASSUME NEW t \in Thread, TryDispatchOne(t) \/ WorkerStops(t) PROVE UsedUp'
  <2>1. done' = done /\ stage' = stage /\ mpc' \in {mpc, "drainCheck"}
    BY <1>2, <1>3 DEF TryDispatchOne, NoteDispatchFinished, WorkerStops
  <2>2. QED
    BY <2>1, UsedUpStill
<1>4. ASSUME NEW t \in Thread, Drain(t) \/ Kill(t) PROVE UsedUp'
  <2>1. done' = done /\ stage' = stage /\ mpc' \in {"drainEnter", "killTest"}
    BY <1>4 DEF Drain, Kill
  <2>2. QED
    BY <2>1, UsedUpStill
<1>5. ASSUME KillReturns PROVE mpc' \in {"user", "killTest", "ended"}
  BY <1>5 DEF KillReturns
<1>6. ASSUME WaitDrained \/ KillTest \/ KillSignal \/ Join \/ Reap \/ Close PROVE UsedUp'
  <2>1. done' = done
    BY <1>6 DEF WaitDrained, KillTest, KillSignal, Join, Reap, Close
  <2>2. mpc' \in {mpc, "drainWait", "user", "killTest", "ended", "killSignal", "join", "reap"}
    BY <1>5, <1>6 DEF WaitDrained, KillTest, KillSignal, Join, Reap, Close
  <2>3. stage' \in {stage, "onExit"}
    BY <1>6 DEF WaitDrained, KillTest, KillSignal, Join, Reap, Close
  <2>4. QED
    BY <2>1, <2>2, <2>3, UsedUpStill
<1>7. CASE UserReturns
  <2>1. done' = done
    BY <1>7 DEF UserReturns
  <2>2. CASE stage = "onExit"
    BY <1>7, <2>1, <2>2 DEF UserReturns, UsedUp
  <2>3. CASE stage # "onExit"
    BY <1>7, <2>1, <2>3 DEF UserReturns, UsedUp
  <2>4. QED
    BY <2>2, <2>3
<1>8. CASE LoopTop \/ ListDone
  BY <1>8 DEF LoopTop, ListDone, UsedUp
<1>9. CASE Gather
  BY <1>9 DEF Gather, UsedUp
<1>10. CASE Deliver
  <2>1. mpc = "deliver" /\ done # << >> /\ stage' = stage /\ mpc' \in {mpc, "user"}
    BY <1>10 DEF Deliver
  <2>2. QED
    BY <2>1 DEF UsedUp
<1>11. ASSUME NEW t \in Thread,
              \/ Dispatch(t) \/ HandlerReturns(t) \/ SpuriousWakeup(t)
              \/ PostOutbound(t) \/ Live(t) \/ GiveRequest(t)
      PROVE  UNCHANGED <<mpc, stage, done>>
  BY <1>11 DEF Dispatch, HandlerReturns, SpuriousWakeup, PostOutbound, Live, GiveRequest
<1>12. ASSUME NEW a \in Actor, \/ Signal(a) \/ (\E t \in Thread : Post(a, t))
                              \/ \E b \in Actor : Reply(a, b)
      PROVE  UNCHANGED <<mpc, stage, done>>
  BY <1>12 DEF Signal, Post, Reply
<1>13. ASSUME NEW j \in jobs, PoolWork(j) PROVE UNCHANGED <<mpc, stage, done>>
  BY <1>13 DEF PoolWork
<1>14. CASE UNCHANGED vars
  BY <1>1, <1>14 DEF vars
<1>15. QED
  BY <1>1, <1>3, <1>4, <1>6, <1>7, <1>8, <1>9, <1>10, <1>11, <1>12, <1>13, <1>14
  DEF Next, WorkerStep, MainStep, UserCall, LifeCycleCall, Ended

LEMMA NoJobOutInductive == ASSUME TypeOK, NoJobOut, [Next]_vars PROVE NoJobOut'
<1> USE MainIsNoThread DEF queues, flags, lists, worker, main, pool, counters, history
<1>1. ASSUME UNCHANGED outQueue PROVE NoJobOut'
  BY <1>1 DEF NoJobOut
<1>2. ASSUME NEW t \in Thread, NEW m, ~IsJob(m), outQueue' = [outQueue EXCEPT ![t] = Append(@, m)]
      PROVE  NoJobOut'
  <2> DEFINE q == outQueue[t]
             r == Append(q, m)
  <2>1. /\ outQueue'[t] = r /\ \A u \in Thread \ {t} : outQueue'[u] = outQueue[u]
        /\ q \in Seq(Msg)
    BY <1>2 DEF TypeOK, QueuesOK
  <2>2. /\ Len(r) = Len(q) + 1 /\ Len(q) \in Nat /\ r[Len(q) + 1] = m
        /\ \A i \in 1..Len(q) : r[i] = q[i]
    BY <2>1
  <2> HIDE DEF r
  <2>3. \A i \in 1..Len(r) : i \in 1..Len(q) \/ i = Len(q) + 1
    BY <2>2
  <2>4. \A i \in 1..Len(r) : ~IsJob(r[i])
    BY <1>2, <2>2, <2>3 DEF NoJobOut
  <2>5. QED
    BY <2>1, <2>4 DEF NoJobOut
<1>3. \A a, txn : ~IsJob(Boxed("ordinary", a, txn)) /\ ~IsJob(Boxed("reply", a, txn))
  BY DEF IsJob, Boxed
<1>4. ASSUME NEW t \in Thread, PostOutbound(t) PROVE NoJobOut'
  <2>1. \E txn : outQueue' = [outQueue EXCEPT ![t] = Append(@, Boxed("ordinary", t, txn))]
    BY <1>4 DEF PostOutbound
  <2>2. QED
    BY <1>2, <1>3, <2>1
<1>5. ASSUME NEW a \in Actor, NEW b \in Actor, Reply(a, b) PROVE NoJobOut'
  <2>1. \/ outQueue' = outQueue
        \/ outQueue' = [outQueue EXCEPT ![a] = Append(@, Boxed("reply", a, replyTxn[a]))]
    BY <1>5 DEF Reply
  <2>2. a = Main => outQueue' = outQueue
    BY <2>1 DEF TypeOK, QueuesOK
  <2>3. QED
    BY <1>1, <1>2, <1>3, <2>1, <2>2 DEF Actor
<1>6. CASE Gather
  <2>1. outQueue' = outQueue \/ outQueue' = [outQueue EXCEPT ![Registry[at]] = << >>]
    BY <1>6 DEF Gather
  <2>2. QED
    BY <2>1 DEF NoJobOut, TypeOK, QueuesOK
<1>7. ASSUME NEW t \in Thread,
             \/ WorkerStep(t) \/ SpuriousWakeup(t) \/ Live(t) \/ Drain(t) \/ Kill(t) \/ GiveRequest(t)
      PROVE  UNCHANGED outQueue
  BY <1>7 DEF WorkerStep, TryDispatchOne, Dispatch, HandlerReturns, WorkerStops, SpuriousWakeup,
              Live, Drain, Kill, GiveRequest
<1>8. ASSUME NEW a \in Actor, Signal(a) \/ \E t \in Thread : Post(a, t) PROVE UNCHANGED outQueue
  BY <1>8 DEF Signal, Post
<1>9. ASSUME NEW j \in jobs, PoolWork(j) PROVE UNCHANGED outQueue
  BY <1>9 DEF PoolWork
<1>10. ASSUME UserReturns \/ LoopTop \/ ListDone \/ Deliver \/ WaitDrained \/ KillTest \/ KillSignal
              \/ Join \/ Reap \/ Close
      PROVE  UNCHANGED outQueue
  BY <1>10 DEF UserReturns, LoopTop, ListDone, Deliver, WaitDrained, KillTest, KillSignal, Join, Reap, Close
<1>11. CASE UNCHANGED vars
  BY <1>1, <1>11 DEF vars
<1>12. QED
  BY <1>1, <1>4, <1>5, <1>6, <1>7, <1>8, <1>9, <1>10, <1>11
  DEF Next, MainStep, UserCall, LifeCycleCall, Ended

(***************************************************************************)
(* The steps that move a callback.                                         *)
(***************************************************************************)

HeldInv == Numbered /\ TailNamesLast /\ Held /\ Copies /\ UsedUp /\ NoJobOut

LEMMA RegisterLists ==
  ASSUME TypeOK, Numbered, TailNamesLast, NEW a \in Actor, NEW dest \in Actor, NEW onMain \in BOOLEAN,
         RegisterCallback(a, dest, onMain), NEW n, n = nextTxn
  PROVE  /\ n \in Txn /\ Lists(a, n) /\ nextTxn' = n + 1
         /\ asker' = [asker EXCEPT ![n] = a]
<1> DEFINE cb == [txn |-> n, onMain |-> onMain]
<1>1. n \in Txn
  BY RegisterTyped
<1>2. cb \in Callback /\ pending[a] \in SUBSET Callback /\ \A c \in pending[a] : c.txn < cb.txn
  BY <1>1 DEF TypeOK, ListsOK, Numbered, Callback
<1>3. pendingTail[a] = LastTxn(pending[a])
  BY DEF TailNamesLast
<1> HIDE DEF cb
<1>4. LinkAtTail(pending[a], pendingTail[a], cb) = pending[a] \cup {cb}
  BY <1>2, <1>3, LinkNamesLast
<1>5. pending' = [pending EXCEPT ![a] = pending[a] \cup {cb}]
  BY <1>4 DEF RegisterCallback, cb
<1>6. Txns(pending[a] \cup {cb}) = Txns(pending[a]) \cup {n}
  <2>1. cb.txn = n
    BY DEF cb
  <2>2. QED
    BY <2>1 DEF Txns
<1>7. Lists(a, n)
  BY <1>5, <1>6 DEF Lists, TypeOK, ListsOK
<1>8. nextTxn' = n + 1 /\ asker' = [asker EXCEPT ![n] = a]
  BY DEF RegisterCallback
<1>9. QED
  BY <1>1, <1>7, <1>8

LEMMA UnlinkUnlists ==
  ASSUME TypeOK, NEW a \in Actor, NEW n, Unlink(a, n), Found(a, n)
  PROVE  n \in Txns(pending[a]) /\ Unlists(a, n)
<1>1. n \in Txns(pending[a])
  BY DEF Found, Txns
<1>2. pending' = [pending EXCEPT ![a] = {cb \in @ : cb.txn # n}]
  BY DEF Unlink
<1>3. Txns({cb \in pending[a] : cb.txn # n}) = Txns(pending[a]) \ {n}
  BY DEF Txns
<1>4. Unlists(a, n)
  BY <1>2, <1>3 DEF Unlists, TypeOK, ListsOK
<1>5. QED
  BY <1>1, <1>4

\* What the callbacks are made of.
callbacks == <<pending, fires, asker, askerKilled, nextTxn, jobs, completed, done>>

LEMMA HeldUntouched == ASSUME TypeOK, HeldInv, UNCHANGED callbacks PROVE Held' /\ Copies'
<1>1. Copies' /\ SameMarshaled
  BY CopiesStill DEF HeldInv, callbacks
<1>2. SameLists /\ UNCHANGED <<fires, asker, nextTxn>> /\ askerKilled \subseteq askerKilled'
  BY DEF SameLists, callbacks
<1>3. QED
  BY <1>1, <1>2, HeldStill DEF HeldInv

\* A step that may register a callback, and does no more to them.
LEMMA HeldSent ==
  ASSUME TypeOK, HeldInv, NEW a \in Actor, NEW dest \in Actor, NEW onMain \in BOOLEAN,
         NoCallback \/ RegisterCallback(a, dest, onMain),
         UNCHANGED <<fires, askerKilled, jobs, completed, done>>
  PROVE  Held' /\ Copies'
<1>1. CASE NoCallback
  BY <1>1, HeldUntouched DEF NoCallback, lists, callbacks
<1>2. CASE RegisterCallback(a, dest, onMain)
  <2>1. Copies' /\ SameMarshaled
    BY CopiesStill DEF HeldInv
  <2>2. PICK n : n = nextTxn
    OBVIOUS
  <2>3. /\ n \in Txn /\ Lists(a, n) /\ nextTxn' = n + 1 /\ asker' = [asker EXCEPT ![n] = a]
    BY <1>2, <2>2, RegisterLists DEF HeldInv
  <2>4. QED
    BY <2>1, <2>2, <2>3, HeldRegistered DEF HeldInv
<1>3. QED
  BY <1>1, <1>2

\* A worker finds the callback of a reply and runs it, or hands it to the pool.
LEMMA HeldDispatched ==
  ASSUME TypeOK, HeldInv, NEW t \in Thread, Dispatch(t)
  PROVE  /\ Held' /\ Copies'
         /\ \/ SameMarshaled
            \/ \E n \in Txn : Marshals(n) /\ [txn |-> n, onMain |-> TRUE] \in pending[t]
<1> USE DEF queues, flags, lists, worker, main, pool, counters, history
<1>1. PICK m \in Msg : m = cur[t]
  BY DEF TypeOK, WorkerOK
<1>2. UNCHANGED <<asker, askerKilled, nextTxn, completed, done>> /\ t \in Actor
  BY MainIsNoThread DEF Dispatch
<1>3. CASE UNCHANGED <<pending, fires, jobs>>
  <2>1. SameMarshaled
    BY <1>2, <1>3, CopiesStill DEF HeldInv
  <2>2. QED
    BY <1>2, <1>3, <2>1, HeldUntouched DEF callbacks
<1>4. ASSUME Found(t, m.txn), Unlink(t, m.txn)
      PROVE  m.txn \in Txns(pending[t]) /\ Unlists(t, m.txn) /\ ~Marshaled(m.txn) /\ m.txn \in Txn
  <2>1. PICK n : n = m.txn
    OBVIOUS
  <2>2. n \in Txns(pending[t]) /\ Unlists(t, n)
    BY <1>2, <1>4, <2>1, UnlinkUnlists
  <2>3. n \in 1..nextTxn - 1 /\ n \in Txn
    BY <1>2, <2>2, HeldSplit DEF HeldInv
  <2>4. ~Marshaled(n)
    BY <1>2, <2>2, <2>3 DEF HeldInv, Held, CallbackHeldOnce
  <2>5. QED
    BY <2>1, <2>2, <2>3, <2>4
<1>5. CASE /\ Found(t, m.txn) /\ OnMain(t, m.txn) /\ Unlink(t, m.txn) /\ fires' = fires
           /\ jobs' = jobs \cup {[m EXCEPT !.kind = "job"]}
  <2>1. PICK j : j = [m EXCEPT !.kind = "job"]
    OBVIOUS
  <2>2. IsJob(j) /\ j.txn = m.txn
    BY <2>1 DEF IsJob, Msg
  <2>3. Copies' /\ Marshals(j.txn)
    BY <1>2, <1>4, <1>5, <2>1, <2>2, CopiesMarshal DEF HeldInv
  <2>4. Held'
    BY <1>2, <1>4, <1>5, <2>2, <2>3, HeldUnlinked DEF HeldInv
  <2>5. m.txn \in Txn /\ [txn |-> m.txn, onMain |-> TRUE] \in pending[t]
    BY <1>4, <1>5 DEF OnMain
  <2>6. QED
    BY <2>2, <2>3, <2>4, <2>5
<1>6. CASE Found(t, m.txn) /\ Unlink(t, m.txn) /\ Fire(m.txn) /\ jobs' = jobs
  <2>1. Copies' /\ SameMarshaled
    BY <1>2, <1>6, CopiesStill DEF HeldInv
  <2>2. Fires(m.txn)
    BY <1>6 DEF Fire, Fires
  <2>3. Held'
    BY <1>2, <1>4, <1>6, <2>1, <2>2, HeldUnlinked DEF HeldInv
  <2>4. QED
    BY <2>1, <2>3
<1>7. QED
  BY <1>1, <1>3, <1>5, <1>6 DEF Dispatch, DispatchReply

\* Main takes the head of the list it detached.
LEMMA HeldDelivered ==
  ASSUME TypeOK, HeldInv, Deliver
  PROVE  /\ Held' /\ Copies'
         /\ \A x \in Txn : Marshaled(x)' => Marshaled(x)
<1> USE DEF queues, flags, lists, worker, main, pool, counters, history
<1>1. done \in Seq(Msg) /\ done # << >> /\ done' = Tail(done) /\ Main \in Actor
      /\ UNCHANGED <<asker, askerKilled, nextTxn, jobs, completed>>
  BY MainIsNoThread DEF Deliver, TypeOK, MainOK
<1>2. PICK m : m = Head(done)
  OBVIOUS
<1>3. /\ Copies'
      /\ IsJob(m) => m.txn \in Txn /\ Marshaled(m.txn) /\ Unmarshals(m.txn)
      /\ ~IsJob(m) => SameMarshaled
  BY <1>1, <1>2, CopiesTail DEF HeldInv
<1>4. ASSUME ~IsJob(m), UNCHANGED <<pending, fires>> PROVE Held'
  <2>1. SameLists /\ askerKilled \subseteq askerKilled'
    BY <1>1, <1>4 DEF SameLists
  <2>2. QED
    BY <1>1, <1>3, <1>4, <2>1, HeldStill DEF HeldInv
<1>5. ASSUME IsJob(m), Fire(m.txn), pending' = pending PROVE Held'
  <2>1. SameLists /\ Fires(m.txn)
    BY <1>5 DEF SameLists, Fire, Fires
  <2>2. QED
    BY <1>1, <1>3, <1>5, <2>1, HeldRun DEF HeldInv
<1>6. ASSUME ~IsJob(m), Found(Main, m.txn), Unlink(Main, m.txn), Fire(m.txn) PROVE Held'
  <2>1. m.txn \in Txns(pending[Main]) /\ Unlists(Main, m.txn)
    BY <1>1, <1>6, UnlinkUnlists
  <2>2. Fires(m.txn)
    BY <1>6 DEF Fire, Fires
  <2>3. QED
    BY <1>1, <1>3, <1>6, <2>1, <2>2, HeldUnlinked DEF HeldInv
<1>7. \/ m.kind = "ordinary" /\ UNCHANGED <<pending, fires>>
      \/ m.kind = "job" /\ Fire(m.txn) /\ pending' = pending
      \/ m.kind = "reply" /\ Found(Main, m.txn) /\ Unlink(Main, m.txn) /\ Fire(m.txn)
      \/ m.kind = "reply" /\ UNCHANGED <<pending, fires>>
  BY <1>2 DEF Deliver
<1>8. Held'
  BY <1>4, <1>5, <1>6, <1>7 DEF IsJob
<1>9. \A x \in Txn : Marshaled(x)' => Marshaled(x)
  BY <1>3 DEF SameMarshaled, Unmarshals
<1>10. QED
  BY <1>3, <1>8, <1>9

\* Main detaches the pool's completed jobs, or what a thread queued for it.
LEMMA HeldGathered == ASSUME TypeOK, HeldInv, Gather PROVE Held' /\ Copies' /\ SameMarshaled
<1> USE DEF queues, flags, lists, worker, main, pool, counters, history
<1>1. mpc = "gather" /\ jobs' = jobs /\ UNCHANGED <<pending, fires, asker, nextTxn, askerKilled>>
  BY DEF Gather
<1>2. done = << >>
  BY <1>1 DEF HeldInv, UsedUp
<1>3. Copies' /\ SameMarshaled
  <2>1. CASE done' = completed /\ completed' = << >>
    BY <1>1, <1>2, <2>1, CopiesDetach DEF HeldInv
  <2>2. CASE completed' = completed /\ at <= Len(Registry) /\ done' = outQueue[Registry[at]]
    <3>1. Registry[at] \in Thread
      BY <2>2, RegistryTyped DEF TypeOK, MainOK
    <3>2. \A i \in 1..Len(done') : ~IsJob(done'[i])
      BY <2>2, <3>1 DEF HeldInv, NoJobOut
    <3>3. QED
      BY <1>1, <1>2, <2>2, <3>2, CopiesNoJob DEF HeldInv
  <2>3. CASE UNCHANGED <<completed, done>>
    BY <1>1, <2>3, CopiesStill DEF HeldInv
  <2>4. QED
    BY <2>1, <2>2, <2>3 DEF Gather
<1>4. SameLists /\ askerKilled \subseteq askerKilled'
  BY <1>1 DEF SameLists
<1>5. QED
  BY <1>1, <1>3, <1>4, HeldStill DEF HeldInv

LEMMA HeldInductive ==
  ASSUME TypeOK, HeldInv, [Next]_vars
  PROVE  HeldInv'
<1> USE MainIsNoThread DEF queues, flags, lists, worker, main, pool, counters, history
<1>1. Numbered' /\ TailNamesLast' /\ UsedUp' /\ NoJobOut'
  BY TailInductive, UsedUpInductive, NoJobOutInductive DEF HeldInv
<1>2. ASSUME UNCHANGED callbacks PROVE Held' /\ Copies'
  BY <1>2, HeldUntouched
<1>3. ASSUME NEW a \in Actor, NEW t \in Thread, Post(a, t) PROVE Held' /\ Copies'
  <2>1. NoCallback \/ RegisterCallback(a, t, FALSE)
    BY <1>3 DEF Post
  <2>2. UNCHANGED <<fires, askerKilled, jobs, completed, done>> /\ t \in Actor /\ FALSE \in BOOLEAN
    BY <1>3 DEF Post
  <2>3. QED
    BY <2>1, <2>2, HeldSent
<1>4. ASSUME NEW t \in Thread, PostOutbound(t) PROVE Held' /\ Copies'
  <2>1. NoCallback \/ RegisterCallback(t, Main, TRUE)
    BY <1>4 DEF PostOutbound
  <2>2. UNCHANGED <<fires, askerKilled, jobs, completed, done>> /\ t \in Actor /\ TRUE \in BOOLEAN
    BY <1>4 DEF PostOutbound
  <2>3. QED
    BY <2>1, <2>2, HeldSent
<1>5. ASSUME NEW t \in Thread, Dispatch(t) PROVE Held' /\ Copies'
  BY <1>5, HeldDispatched
<1>6. ASSUME NEW j \in jobs, PoolWork(j) PROVE Held' /\ Copies'
  <2>1. /\ jobs' = jobs \ {j} /\ completed' = Append(completed, j) /\ done' = done
        /\ UNCHANGED <<pending, fires, asker, nextTxn, askerKilled>>
    BY <1>6 DEF PoolWork
  <2>2. completed \in Seq(Msg) /\ j \in Msg
    BY DEF TypeOK, PoolOK
  <2>3. Copies' /\ SameMarshaled
    BY <2>1, <2>2, CopiesCompleted DEF HeldInv
  <2>4. SameLists /\ askerKilled \subseteq askerKilled'
    BY <2>1 DEF SameLists
  <2>5. QED
    BY <2>1, <2>3, <2>4, HeldStill DEF HeldInv
<1>7. ASSUME Gather PROVE Held' /\ Copies'
  BY <1>7, HeldGathered
<1>8. ASSUME Deliver PROVE Held' /\ Copies'
  BY <1>8, HeldDelivered
<1>9. ASSUME Reap PROVE Held' /\ Copies'
  <2>1. /\ UNCHANGED <<fires, asker, nextTxn, jobs, completed, done>> /\ target \in Thread
        /\ pending' = [pending EXCEPT ![target] = {}]
        /\ askerKilled' = askerKilled \cup {x \in Unanswered : asker[x] = target}
    BY <1>9 DEF Reap, PendingAfterKill, TypeOK, MainOK
  <2>2. Copies' /\ SameMarshaled
    BY <2>1, CopiesStill DEF HeldInv
  <2>3. PICK t \in Thread : t = target
    BY <2>1
  <2>4. QED
    BY <2>1, <2>2, <2>3, HeldDropped DEF HeldInv
<1>10. ASSUME NEW t \in Thread,
              \/ TryDispatchOne(t) \/ HandlerReturns(t) \/ WorkerStops(t) \/ SpuriousWakeup(t)
              \/ Live(t) \/ Drain(t) \/ Kill(t) \/ GiveRequest(t)
       PROVE  UNCHANGED callbacks
  BY <1>10 DEF TryDispatchOne, HandlerReturns, WorkerStops, SpuriousWakeup, Live, Drain, Kill,
               GiveRequest, callbacks
<1>11. ASSUME NEW a \in Actor, Signal(a) \/ \E b \in Actor : Reply(a, b) PROVE UNCHANGED callbacks
  BY <1>11 DEF Signal, Reply, callbacks
<1>12. ASSUME UserReturns \/ LoopTop \/ ListDone \/ WaitDrained \/ KillTest \/ KillSignal \/ Join \/ Close
       PROVE  UNCHANGED callbacks
  BY <1>12 DEF UserReturns, LoopTop, ListDone, WaitDrained, KillTest, KillSignal, Join, Close, callbacks
<1>13. ASSUME UNCHANGED vars PROVE UNCHANGED callbacks
  BY <1>13 DEF vars, callbacks
<1>14. Held' /\ Copies'
  BY <1>2, <1>3, <1>4, <1>5, <1>6, <1>7, <1>8, <1>9, <1>10, <1>11, <1>12, <1>13
  DEF Next, WorkerStep, MainStep, UserCall, LifeCycleCall, Ended
<1>15. QED
  BY <1>1, <1>14 DEF HeldInv

(***************************************************************************)
(* Which thread a callback runs on, and what runs after kill().            *)
(***************************************************************************)

\* Only what is on a worker's list, marked for main, is sent to main.
LEMMA MarshaledMoves ==
  ASSUME TypeOK, HeldInv, [Next]_vars, NEW x \in Txn, Marshaled(x)', ~Marshaled(x)
  PROVE  \E t \in Thread : [txn |-> x, onMain |-> TRUE] \in pending[t]
<1> USE MainIsNoThread DEF queues, flags, lists, worker, main, pool, counters, history
<1>1. ASSUME UNCHANGED <<jobs, completed, done>> PROVE FALSE
  <2>1. SameMarshaled
    BY <1>1, CopiesStill DEF HeldInv
  <2>2. QED
    BY <2>1 DEF SameMarshaled
<1>2. ASSUME NEW t \in Thread, Dispatch(t)
      PROVE  [txn |-> x, onMain |-> TRUE] \in pending[t]
  <2>1. \/ SameMarshaled
        \/ \E n \in Txn : Marshals(n) /\ [txn |-> n, onMain |-> TRUE] \in pending[t]
    BY <1>2, HeldDispatched
  <2>2. QED
    BY <2>1 DEF SameMarshaled, Marshals
<1>3. ASSUME NEW j \in jobs, PoolWork(j) PROVE FALSE
  <2>1. /\ jobs' = jobs \ {j} /\ completed' = Append(completed, j) /\ done' = done
        /\ completed \in Seq(Msg) /\ j \in Msg
    BY <1>3 DEF PoolWork, TypeOK, PoolOK
  <2>2. SameMarshaled
    BY <2>1, CopiesCompleted DEF HeldInv
  <2>3. QED
    BY <2>2 DEF SameMarshaled
<1>4. ASSUME Gather PROVE FALSE
  BY <1>4, HeldGathered DEF SameMarshaled
<1>5. ASSUME Deliver PROVE FALSE
  BY <1>5, HeldDelivered
<1>6. ASSUME NEW t \in Thread,
             \/ TryDispatchOne(t) \/ HandlerReturns(t) \/ WorkerStops(t) \/ SpuriousWakeup(t)
             \/ PostOutbound(t) \/ Live(t) \/ Drain(t) \/ Kill(t) \/ GiveRequest(t)
      PROVE  UNCHANGED <<jobs, completed, done>>
  BY <1>6 DEF TryDispatchOne, HandlerReturns, WorkerStops, SpuriousWakeup, PostOutbound, Live, Drain,
              Kill, GiveRequest
<1>7. ASSUME NEW a \in Actor, \/ Signal(a) \/ (\E t \in Thread : Post(a, t))
                              \/ \E b \in Actor : Reply(a, b)
      PROVE  UNCHANGED <<jobs, completed, done>>
  BY <1>7 DEF Signal, Post, Reply
<1>8. ASSUME UserReturns \/ LoopTop \/ ListDone \/ WaitDrained \/ KillTest \/ KillSignal
              \/ Join \/ Reap \/ Close
      PROVE  UNCHANGED <<jobs, completed, done>>
  BY <1>8 DEF UserReturns, LoopTop, ListDone, WaitDrained, KillTest, KillSignal, Join, Reap, Close
<1>9. ASSUME UNCHANGED vars PROVE UNCHANGED <<jobs, completed, done>>
  BY <1>9 DEF vars
<1>10. QED
  BY <1>1, <1>2, <1>3, <1>4, <1>5, <1>6, <1>7, <1>8, <1>9
  DEF Next, WorkerStep, MainStep, UserCall, LifeCycleCall, Ended

\* A callback runs in two places: on the worker whose list holds it, not marked for main,
\* and on main, which holds it or was sent it.
LEMMA FiresMoves ==
  ASSUME TypeOK, HeldInv, [Next]_vars, NEW x \in Txn, fires'[x] # fires[x]
  PROVE  \/ \E t \in Thread :
              /\ pc[t] = "got" /\ pc'[t] = "callback"
              /\ \E cb \in pending[t] : cb.txn = x /\ ~cb.onMain
         \/ /\ mpc = "deliver" /\ mpc' = "user" /\ done # << >>
            /\ \/ Head(done).kind = "job" /\ Head(done).txn = x /\ Marshaled(x)
               \/ x \in Txns(pending[Main])
<1> USE MainIsNoThread DEF queues, flags, lists, worker, main, pool, counters, history
<1>1. fires \in [Txn -> Nat]
  BY DEF TypeOK, HistoryOK
<1>2. ASSUME NEW t \in Thread, Dispatch(t)
      PROVE  /\ pc[t] = "got" /\ pc'[t] = "callback"
             /\ \E cb \in pending[t] : cb.txn = x /\ ~cb.onMain
  <2>1. fires' # fires
    OBVIOUS
  <2>2. /\ pc[t] = "got" /\ pc' = [pc EXCEPT ![t] = "callback"] /\ Fire(cur[t].txn)
        /\ Found(t, cur[t].txn) /\ ~OnMain(t, cur[t].txn)
    BY <1>2, <2>1 DEF Dispatch, DispatchReply
  <2>3. x = cur[t].txn
    BY <1>1, <2>2 DEF Fire
  <2>4. PICK cb \in pending[t] : cb.txn = x
    BY <2>2, <2>3 DEF Found
  <2>5. cb \in Callback
    BY <2>4 DEF TypeOK, ListsOK
  <2>6. cb = [txn |-> x, onMain |-> cb.onMain] /\ cb.onMain \in BOOLEAN
    BY <2>4, <2>5 DEF Callback
  <2>7. [txn |-> x, onMain |-> TRUE] \notin pending[t]
    BY <2>2, <2>3 DEF OnMain
  <2>8. ~cb.onMain
    <3>1. cb.onMain = TRUE => cb = [txn |-> x, onMain |-> TRUE]
      BY <2>6
    <3>2. cb.onMain # TRUE
      BY <2>4, <2>7, <3>1
    <3>3. QED
      BY <2>6, <3>2
  <2>9. pc'[t] = "callback"
    BY <2>2 DEF TypeOK, WorkerOK
  <2>10. QED
    BY <2>2, <2>4, <2>8, <2>9
<1>3. ASSUME Deliver
      PROVE  /\ mpc = "deliver" /\ mpc' = "user" /\ done # << >>
             /\ \/ Head(done).kind = "job" /\ Head(done).txn = x /\ Marshaled(x)
                \/ x \in Txns(pending[Main])
  <2>1. fires' # fires
    OBVIOUS
  <2>2. PICK m : m = Head(done)
    OBVIOUS
  <2>3. /\ mpc = "deliver" /\ mpc' = "user" /\ done # << >> /\ Fire(m.txn)
        /\ m.kind = "job" \/ (m.kind = "reply" /\ Found(Main, m.txn))
    BY <1>3, <2>1, <2>2 DEF Deliver
  <2>4. x = m.txn
    BY <1>1, <2>3 DEF Fire
  <2>5. done \in Seq(Msg) /\ 1 \in 1..Len(done) /\ m = done[1]
    <3>1. done \in Seq(Msg)
      BY DEF TypeOK, MainOK
    <3>2. QED
      BY <2>2, <2>3, <3>1
  <2>6. m.kind = "job" => Marshaled(x)
    BY <2>4, <2>5 DEF Marshaled
  <2>7. m.kind = "reply" => x \in Txns(pending[Main])
    BY <2>3, <2>4 DEF Found, Txns
  <2>8. QED
    BY <2>2, <2>3, <2>4, <2>6, <2>7
<1>4. ASSUME NEW t \in Thread,
             \/ TryDispatchOne(t) \/ HandlerReturns(t) \/ WorkerStops(t) \/ SpuriousWakeup(t)
             \/ PostOutbound(t) \/ Live(t) \/ Drain(t) \/ Kill(t) \/ GiveRequest(t)
      PROVE  fires' = fires
  BY <1>4 DEF TryDispatchOne, HandlerReturns, WorkerStops, SpuriousWakeup, PostOutbound, Live, Drain,
              Kill, GiveRequest
<1>5. ASSUME NEW a \in Actor, \/ Signal(a) \/ (\E t \in Thread : Post(a, t))
                              \/ \E b \in Actor : Reply(a, b)
      PROVE  fires' = fires
  BY <1>5 DEF Signal, Post, Reply
<1>6. ASSUME NEW j \in jobs, PoolWork(j) PROVE fires' = fires
  BY <1>6 DEF PoolWork
<1>7. ASSUME UserReturns \/ LoopTop \/ Gather \/ ListDone \/ WaitDrained \/ KillTest \/ KillSignal
              \/ Join \/ Reap \/ Close
      PROVE  fires' = fires
  BY <1>7 DEF UserReturns, LoopTop, Gather, ListDone, WaitDrained, KillTest, KillSignal, Join, Reap, Close
<1>8. ASSUME UNCHANGED vars PROVE fires' = fires
  BY <1>8 DEF vars
<1>9. QED
  BY <1>2, <1>3, <1>4, <1>5, <1>6, <1>7, <1>8
  DEF Next, WorkerStep, MainStep, UserCall, LifeCycleCall, Ended

\* A list grows by one new callback, which main is to run if main is asked, and by no other.
ListsShrink == asked' = asked /\ \A a \in Actor : pending'[a] \subseteq pending[a]
ListsGrow ==
  /\ nextTxn \in Txn /\ nextTxn' = nextTxn + 1
  /\ \E a \in Actor, dest \in Actor, onMain \in BOOLEAN :
       /\ onMain <=> dest = Main
       /\ pending' = [pending EXCEPT ![a] = @ \cup {[txn |-> nextTxn, onMain |-> onMain]}]
       /\ asked' = [asked EXCEPT ![nextTxn] = dest]

LEMMA RegisterGrows ==
  ASSUME TypeOK, HeldInv, NEW a \in Actor, NEW dest \in Actor, NEW onMain \in BOOLEAN,
         RegisterCallback(a, dest, onMain), onMain <=> dest = Main
  PROVE  ListsGrow
<1> DEFINE cb == [txn |-> nextTxn, onMain |-> onMain]
<1>1. nextTxn \in Txn
  BY RegisterTyped
<1>2. cb \in Callback /\ pending[a] \in SUBSET Callback /\ \A c \in pending[a] : c.txn < cb.txn
  BY <1>1 DEF TypeOK, ListsOK, HeldInv, Numbered, Callback
<1>3. pendingTail[a] = LastTxn(pending[a])
  BY DEF HeldInv, TailNamesLast
<1> HIDE DEF cb
<1>4. LinkAtTail(pending[a], pendingTail[a], cb) = pending[a] \cup {cb}
  BY <1>2, <1>3, LinkNamesLast
<1>5. pending' = [pending EXCEPT ![a] = @ \cup {cb}]
  BY <1>4 DEF RegisterCallback, cb
<1>6. nextTxn' = nextTxn + 1 /\ asked' = [asked EXCEPT ![nextTxn] = dest]
  BY DEF RegisterCallback
<1>7. QED
  BY <1>1, <1>5, <1>6 DEF ListsGrow, cb

LEMMA ListsMoves ==
  ASSUME TypeOK, HeldInv, [Next]_vars
  PROVE  \/ ListsShrink /\ nextTxn' = nextTxn
         \/ ListsGrow /\ UNCHANGED <<jobs, completed, done, askerKilled>>
<1> USE MainIsNoThread DEF queues, flags, lists, worker, main, pool, counters, history
<1>1. ASSUME UNCHANGED <<pending, asked, nextTxn>> PROVE ListsShrink /\ nextTxn' = nextTxn
  BY <1>1 DEF ListsShrink
<1>2. ASSUME NEW a \in Actor, NEW txn, Unlink(a, txn), UNCHANGED <<asked, nextTxn>>
      PROVE  ListsShrink /\ nextTxn' = nextTxn
  <2>1. pending' = [pending EXCEPT ![a] = {cb \in @ : cb.txn # txn}]
    BY <1>2 DEF Unlink
  <2>2. \A b \in Actor : pending'[b] \subseteq pending[b]
    BY <2>1 DEF TypeOK, ListsOK
  <2>3. QED
    BY <1>2, <2>2 DEF ListsShrink
<1>3. ASSUME NEW a \in Actor, NEW t \in Thread, Post(a, t)
      PROVE  \/ ListsShrink /\ nextTxn' = nextTxn
             \/ ListsGrow /\ UNCHANGED <<jobs, completed, done, askerKilled>>
  <2>1. UNCHANGED <<jobs, completed, done, askerKilled>> /\ t \in Actor /\ FALSE \in BOOLEAN
        /\ (FALSE <=> t = Main)
    BY <1>3 DEF Post
  <2>2. UNCHANGED <<pending, asked, nextTxn>> \/ RegisterCallback(a, t, FALSE)
    BY <1>3 DEF Post, NoCallback
  <2>3. QED
    BY <1>1, <2>1, <2>2, RegisterGrows
<1>4. ASSUME NEW t \in Thread, PostOutbound(t)
      PROVE  \/ ListsShrink /\ nextTxn' = nextTxn
             \/ ListsGrow /\ UNCHANGED <<jobs, completed, done, askerKilled>>
  <2>1. UNCHANGED <<jobs, completed, done, askerKilled>> /\ t \in Actor /\ TRUE \in BOOLEAN
        /\ (TRUE <=> Main = Main)
    BY <1>4 DEF PostOutbound
  <2>2. UNCHANGED <<pending, asked, nextTxn>> \/ RegisterCallback(t, Main, TRUE)
    BY <1>4 DEF PostOutbound, NoCallback
  <2>3. QED
    BY <1>1, <2>1, <2>2, RegisterGrows
<1>5. ASSUME NEW t \in Thread, Dispatch(t) PROVE ListsShrink /\ nextTxn' = nextTxn
  <2>1. UNCHANGED <<asked, nextTxn>>
    BY <1>5 DEF Dispatch
  <2>2. UNCHANGED <<pending>> \/ Unlink(t, cur[t].txn)
    BY <1>5 DEF Dispatch, DispatchReply
  <2>3. QED
    BY <1>1, <1>2, <2>1, <2>2
<1>6. ASSUME Deliver PROVE ListsShrink /\ nextTxn' = nextTxn
  <2>1. UNCHANGED <<asked, nextTxn>>
    BY <1>6 DEF Deliver
  <2>2. UNCHANGED <<pending>> \/ Unlink(Main, Head(done).txn)
    BY <1>6 DEF Deliver
  <2>3. QED
    BY <1>1, <1>2, <2>1, <2>2
<1>7. ASSUME Reap PROVE ListsShrink /\ nextTxn' = nextTxn
  <2>1. pending' = [pending EXCEPT ![target] = {}] /\ UNCHANGED <<asked, nextTxn>>
    BY <1>7 DEF Reap, PendingAfterKill
  <2>2. \A b \in Actor : pending'[b] \subseteq pending[b]
    BY <2>1 DEF TypeOK, ListsOK
  <2>3. QED
    BY <2>1, <2>2 DEF ListsShrink
<1>8. ASSUME NEW t \in Thread,
             \/ TryDispatchOne(t) \/ HandlerReturns(t) \/ WorkerStops(t) \/ SpuriousWakeup(t)
             \/ Live(t) \/ Drain(t) \/ Kill(t) \/ GiveRequest(t)
      PROVE  UNCHANGED <<pending, asked, nextTxn>>
  BY <1>8 DEF TryDispatchOne, HandlerReturns, WorkerStops, SpuriousWakeup, Live, Drain, Kill, GiveRequest
<1>9. ASSUME NEW a \in Actor, Signal(a) \/ \E b \in Actor : Reply(a, b)
      PROVE  UNCHANGED <<pending, asked, nextTxn>>
  BY <1>9 DEF Signal, Reply
<1>10. ASSUME NEW j \in jobs, PoolWork(j) PROVE UNCHANGED <<pending, asked, nextTxn>>
  BY <1>10 DEF PoolWork
<1>11. ASSUME UserReturns \/ LoopTop \/ Gather \/ ListDone \/ WaitDrained \/ KillTest \/ KillSignal
              \/ Join \/ Close
       PROVE  UNCHANGED <<pending, asked, nextTxn>>
  BY <1>11 DEF UserReturns, LoopTop, Gather, ListDone, WaitDrained, KillTest, KillSignal, Join, Close
<1>12. ASSUME UNCHANGED vars PROVE UNCHANGED <<pending, asked, nextTxn>>
  BY <1>12 DEF vars
<1>13. QED
  BY <1>1, <1>3, <1>4, <1>5, <1>6, <1>7, <1>8, <1>9, <1>10, <1>11, <1>12
  DEF Next, WorkerStep, MainStep, UserCall, LifeCycleCall, Ended

\* A callback is marked for main, or on its way there, exactly if its message asks main.
Addressed ==
  /\ \A a \in Actor : \A cb \in pending[a] : cb.onMain <=> asked[cb.txn] = Main
  /\ \A x \in Txn : Marshaled(x) => asked[x] = Main

LEMMA AddressedInductive ==
  ASSUME TypeOK, HeldInv, Addressed, [Next]_vars
  PROVE  Addressed'
<1>1. CASE ListsShrink
  <2>1. \A a \in Actor : \A cb \in pending'[a] : cb.onMain <=> asked'[cb.txn] = Main
    BY <1>1 DEF ListsShrink, Addressed
  <2>2. ASSUME NEW x \in Txn, Marshaled(x)' PROVE asked'[x] = Main
    <3>1. CASE Marshaled(x)
      BY <1>1, <3>1 DEF ListsShrink, Addressed
    <3>2. CASE ~Marshaled(x)
      <4>1. PICK t \in Thread : [txn |-> x, onMain |-> TRUE] \in pending[t]
        BY <2>2, <3>2, MarshaledMoves
      <4>2. asked[x] = Main
        BY <4>1, MainIsNoThread DEF Addressed
      <4>3. QED
        BY <1>1, <4>2 DEF ListsShrink
    <3>3. QED
      BY <3>1, <3>2
  <2>3. QED
    BY <2>1, <2>2 DEF Addressed
<1>2. CASE ListsGrow /\ UNCHANGED <<jobs, completed, done, askerKilled>>
  <2>1. PICK n : n = nextTxn
    OBVIOUS
  <2>2. PICK a \in Actor, dest \in Actor, onMain \in BOOLEAN :
          /\ onMain <=> dest = Main
          /\ pending' = [pending EXCEPT ![a] = @ \cup {[txn |-> n, onMain |-> onMain]}]
          /\ asked' = [asked EXCEPT ![n] = dest]
    BY <1>2, <2>1 DEF ListsGrow
  <2>3. n \in Txn /\ asked \in [Txn -> Actor]
    BY <1>2, <2>1 DEF ListsGrow, TypeOK, HistoryOK
  <2>4. \A b \in Actor : \A cb \in pending[b] : cb.txn \in Txn /\ cb.txn # n
    BY <2>1, <2>3, HeldSplit DEF HeldInv, Numbered, TypeOK, ListsOK, Callback
  <2>5. asked'[n] = dest /\ \A x \in Txn : x # n => asked'[x] = asked[x]
    BY <2>2, <2>3
  <2>6. ASSUME NEW b \in Actor, NEW cb \in pending'[b] PROVE cb.onMain <=> asked'[cb.txn] = Main
    <3>1. cb \in pending[b] \/ cb = [txn |-> n, onMain |-> onMain]
      BY <2>2 DEF TypeOK, ListsOK
    <3>2. CASE cb \in pending[b]
      BY <2>4, <2>5, <3>2 DEF Addressed
    <3>3. CASE cb = [txn |-> n, onMain |-> onMain]
      BY <2>2, <2>5, <3>3
    <3>4. QED
      BY <3>1, <3>2, <3>3
  <2>7. SameMarshaled
    BY <1>2, CopiesStill DEF HeldInv
  <2>8. ~Marshaled(n)
    BY <2>1, <2>3, HeldSplit DEF HeldInv, Held
  <2>9. \A x \in Txn : Marshaled(x)' => asked'[x] = Main
    BY <2>5, <2>7, <2>8 DEF SameMarshaled, Addressed
  <2>10. QED
    BY <2>6, <2>9 DEF Addressed
<1>3. QED
  BY <1>1, <1>2, ListsMoves

\* No callback of a killed thread is on a list.
Silenced ==
  \A x \in askerKilled : x < nextTxn /\ \A a \in Actor : x \notin Txns(pending[a])

LEMMA AskerKilledMoves ==
  ASSUME TypeOK, HeldInv, [Next]_vars
  PROVE  \/ askerKilled' = askerKilled
         \/ /\ target \in Thread /\ pending' = [pending EXCEPT ![target] = {}] /\ nextTxn' = nextTxn
            /\ askerKilled' = askerKilled \cup {x \in Unanswered : asker[x] = target}
<1> USE MainIsNoThread DEF queues, flags, lists, worker, main, pool, counters, history
<1>1. CASE Reap
  BY <1>1 DEF Reap, PendingAfterKill, TypeOK, MainOK
<1>2. ASSUME NEW t \in Thread,
             \/ WorkerStep(t) \/ SpuriousWakeup(t) \/ PostOutbound(t)
             \/ Live(t) \/ Drain(t) \/ Kill(t) \/ GiveRequest(t)
      PROVE  askerKilled' = askerKilled
  BY <1>2 DEF WorkerStep, TryDispatchOne, Dispatch, HandlerReturns, WorkerStops, SpuriousWakeup,
              PostOutbound, Live, Drain, Kill, GiveRequest
<1>3. ASSUME NEW a \in Actor, \/ Signal(a) \/ (\E t \in Thread : Post(a, t))
                              \/ \E b \in Actor : Reply(a, b)
      PROVE  askerKilled' = askerKilled
  BY <1>3 DEF Signal, Post, Reply
<1>4. ASSUME NEW j \in jobs, PoolWork(j) PROVE askerKilled' = askerKilled
  BY <1>4 DEF PoolWork
<1>5. ASSUME UserReturns \/ LoopTop \/ Gather \/ ListDone \/ Deliver \/ WaitDrained \/ KillTest
              \/ KillSignal \/ Join \/ Close
      PROVE  askerKilled' = askerKilled
  BY <1>5 DEF UserReturns, LoopTop, Gather, ListDone, Deliver, WaitDrained, KillTest, KillSignal,
              Join, Close
<1>6. ASSUME UNCHANGED vars PROVE askerKilled' = askerKilled
  BY <1>6 DEF vars
<1>7. QED
  BY <1>1, <1>2, <1>3, <1>4, <1>5, <1>6 DEF Next, MainStep, UserCall, LifeCycleCall, Ended

LEMMA SilencedInductive ==
  ASSUME TypeOK, HeldInv, Silenced, [Next]_vars
  PROVE  Silenced'
<1>1. nextTxn \in Nat /\ nextTxn' \in Nat /\ nextTxn' >= nextTxn
  BY ListsMoves, HeldSplit DEF HeldInv, ListsGrow
<1>2. ASSUME NEW x \in askerKilled
      PROVE  x < nextTxn' /\ \A a \in Actor : x \notin Txns(pending'[a])
  <2>1. x \in Txn /\ x < nextTxn /\ \A a \in Actor : x \notin Txns(pending[a])
    BY DEF Silenced, TypeOK, HistoryOK
  <2>2. x < nextTxn'
    <3>1. x \in Nat
      BY <2>1 DEF Txn
    <3>2. QED
      BY <1>1, <2>1, <3>1
  <2>3. CASE ListsShrink
    BY <2>1, <2>2, <2>3 DEF ListsShrink, Txns
  <2>4. CASE ListsGrow
    <3>1. PICK n, a, onMain : /\ n = nextTxn /\ a \in Actor
                              /\ pending' = [pending EXCEPT ![a] = @ \cup {[txn |-> n, onMain |-> onMain]}]
      BY <2>4 DEF ListsGrow
    <3>2. x # n
      BY <1>1, <2>1, <3>1 DEF Txn
    <3>3. ASSUME NEW b \in Actor, NEW cb \in pending'[b] PROVE cb.txn # x
      <4>1. cb \in pending[b] \/ cb = [txn |-> n, onMain |-> onMain]
        BY <3>1 DEF TypeOK, ListsOK
      <4>2. \A c \in pending[b] : c.txn # x
        BY <2>1 DEF Txns
      <4>3. QED
        BY <3>2, <4>1, <4>2
    <3>4. QED
      BY <2>2, <3>3 DEF Txns
  <2>5. QED
    BY <2>3, <2>4, ListsMoves
<1>3. CASE askerKilled' = askerKilled
  BY <1>2, <1>3 DEF Silenced
<1>4. CASE /\ target \in Thread /\ pending' = [pending EXCEPT ![target] = {}] /\ nextTxn' = nextTxn
           /\ askerKilled' = askerKilled \cup {x \in Unanswered : asker[x] = target}
  <2>1. ASSUME NEW x \in Unanswered, asker[x] = target
        PROVE  x < nextTxn /\ \A a \in Actor : x \notin Txns(pending'[a])
    <3>1. x \in 1..nextTxn - 1
      BY <1>1 DEF Unanswered, Txn
    <3>2. \A a \in Actor \ {target} : x \notin Txns(pending[a])
      <4>1. (\E a \in Actor : x \in Txns(pending[a]))
              => \A a \in Actor \ {asker[x]} : x \notin Txns(pending[a])
        BY <3>1 DEF HeldInv, Held, CallbackHeldOnce
      <4>2. QED
        BY <2>1, <4>1
    <3>3. \A a \in Actor : pending'[a] = IF a = target THEN {} ELSE pending[a]
      BY <1>4 DEF TypeOK, ListsOK
    <3>4. QED
      BY <1>1, <3>1, <3>2, <3>3 DEF Txns
  <2>2. QED
    BY <1>2, <1>4, <2>1 DEF Silenced
<1>5. QED
  BY <1>3, <1>4, AskerKilledMoves

FullInv == HeldInv /\ Addressed /\ Silenced

LEMMA InitHeld == Init => FullInv
<1> SUFFICES ASSUME Init PROVE FullInv
  OBVIOUS
<1>1. Numbered /\ TailNamesLast
  BY DEF Init, Numbered, TailNamesLast, LastTxn
<1>2. \A x \in Txn : fires[x] = 0 /\ ~Marshaled(x)
  BY DEF Init, Marshaled
<1>3. nextTxn = 1 /\ jobs = {} /\ completed = << >> /\ done = << >>
  BY DEF Init
<1>4. Held /\ Copies /\ UsedUp
  BY <1>2, <1>3 DEF Held, CallbackHeldOnce, Copies, Marked, UsedUp
<1>5. NoJobOut
  BY DEF Init, NoJobOut
<1>6. Addressed /\ Silenced
  BY <1>2 DEF Init, Addressed, Silenced
<1>7. QED
  BY <1>1, <1>4, <1>5, <1>6 DEF HeldInv, FullInv

LEMMA FullInvariant == Spec => []FullInv
<1>1. TypeOK /\ FullInv /\ [Next]_vars => FullInv'
  BY HeldInductive, AddressedInductive, SilencedInductive DEF FullInv
<1>2. QED
  BY <1>1, InitHeld, TypeCorrect, PTL DEF Spec

\* A registered callback is on its sender's list, on its way to main, has run once, or was
\* dropped with its sender: never lost, never run twice
\* (festina_thread_register_callback, festina_thread_dispatch_reply, festina_thread_kill).
THEOREM NoCallbackLost == Spec => []CallbackHeldOnce
<1>1. FullInv => CallbackHeldOnce
  BY DEF FullInv, HeldInv, Held
<1>2. QED
  BY <1>1, FullInvariant, PTL

\* A callback runs on main if main asked or was asked, else on the worker that asked.
THEOREM CallbacksStayHome == Spec => CallbackOnItsThread
<1>1. TypeOK /\ FullInv /\ [Next]_vars
        => [\A x \in Txn :
              fires'[x] # fires[x] =>
                IF Main \in {asker[x], asked[x]}
                THEN mpc = "deliver" /\ mpc' = "user"
                ELSE pc[asker[x]] = "got" /\ pc'[asker[x]] = "callback"]_vars
  <2> SUFFICES ASSUME TypeOK, FullInv, [Next]_vars, NEW x \in Txn, fires'[x] # fires[x]
               PROVE  IF Main \in {asker[x], asked[x]}
                      THEN mpc = "deliver" /\ mpc' = "user"
                      ELSE pc[asker[x]] = "got" /\ pc'[asker[x]] = "callback"
    OBVIOUS
  <2>1. \A a \in Actor : x \in Txns(pending[a]) => asker[x] = a
    <3>1. ASSUME NEW a \in Actor, x \in Txns(pending[a]) PROVE asker[x] = a
      <4>1. x \in 1..nextTxn - 1
        BY <3>1, HeldSplit DEF FullInv, HeldInv
      <4>2. QED
        BY <3>1, <4>1 DEF FullInv, HeldInv, Held, CallbackHeldOnce
    <3>2. QED
      BY <3>1
  <2>2. ASSUME NEW t \in Thread, pc[t] = "got", pc'[t] = "callback",
               NEW cb \in pending[t], cb.txn = x, ~cb.onMain
        PROVE  /\ Main \notin {asker[x], asked[x]}
               /\ pc[asker[x]] = "got" /\ pc'[asker[x]] = "callback"
    <3>1. x \in Txns(pending[t])
      BY <2>2 DEF Txns
    <3>2. asker[x] = t
      BY <2>1, <3>1, MainIsNoThread
    <3>3. asked[x] # Main
      BY <2>2, MainIsNoThread DEF FullInv, Addressed
    <3>4. QED
      BY <2>2, <3>2, <3>3, MainIsNoThread
  <2>3. ASSUME mpc = "deliver", mpc' = "user", Marshaled(x) \/ x \in Txns(pending[Main])
        PROVE  Main \in {asker[x], asked[x]}
    BY <2>1, <2>3, MainIsNoThread DEF FullInv, Addressed
  <2>4. QED
    BY <2>2, <2>3, FiresMoves DEF FullInv
<1>2. QED
  BY <1>1, FullInvariant, TypeCorrect, PTL DEF Spec, CallbackOnItsThread

\* After kill() no callback of the killed thread runs, or is sent to main, other than one
\* that had been sent before.
THEOREM KilledStaySilent == Spec => OnlyMarshaledAfterKill
<1>1. TypeOK /\ FullInv /\ [Next]_vars
        => [\A x \in askerKilled :
              /\ Marshaled(x)' => Marshaled(x)
              /\ fires'[x] # fires[x] =>
                   done # << >> /\ Head(done).kind = "job" /\ Head(done).txn = x]_vars
  <2> SUFFICES ASSUME TypeOK, FullInv, [Next]_vars, NEW x \in Txn, x \in askerKilled
               PROVE  /\ Marshaled(x)' => Marshaled(x)
                      /\ fires'[x] # fires[x] =>
                           done # << >> /\ Head(done).kind = "job" /\ Head(done).txn = x
    BY DEF TypeOK, HistoryOK
  <2>1. \A a \in Actor : \A cb \in pending[a] : cb.txn # x
    BY DEF FullInv, Silenced, Txns
  <2>2. Marshaled(x)' => Marshaled(x)
    <3>1. \A t \in Thread : [txn |-> x, onMain |-> TRUE] \notin pending[t]
      BY <2>1, MainIsNoThread
    <3>2. QED
      BY <3>1, MarshaledMoves DEF FullInv
  <2>3. x \notin Txns(pending[Main])
    BY <2>1, MainIsNoThread DEF Txns
  <2>4. fires'[x] # fires[x] =>
          done # << >> /\ Head(done).kind = "job" /\ Head(done).txn = x
    BY <2>1, <2>3, FiresMoves, MainIsNoThread DEF FullInv
  <2>5. QED
    BY <2>2, <2>4
<1>2. QED
  BY <1>1, FullInvariant, TypeCorrect, PTL DEF Spec, OnlyMarshaledAfterKill

(***************************************************************************)
(* Payloads.                                                               *)
(***************************************************************************)

LEMMA ThreadsFinite == IsFiniteSet(Thread)
<1> DEFINE n == Len(Registry)
<1>1. Registry \in [1..n -> Thread] /\ \A t \in Thread : \E i \in 1..n : Registry[i] = t
  BY ThreadAssumption
<1>2. Registry \in Surjection(1..n, Thread)
  BY <1>1 DEF Surjection
<1>3. n \in Nat /\ IsFiniteSet(1..n)
  BY RegistryTyped, FS_Interval
<1>4. QED
  BY <1>2, <1>3, FS_Surjection

\* How often a list holds p, as messages come and go.
LEMMA SlotsFinite ==
  ASSUME NEW q \in Seq(Msg), NEW p
  PROVE  IsFiniteSet(Slots(q, p)) /\ Cardinality(Slots(q, p)) \in Nat
<1>1. Len(q) \in Nat /\ Slots(q, p) \subseteq 1..Len(q)
  BY DEF Slots
<1>2. IsFiniteSet(Slots(q, p))
  <2>1. IsFiniteSet(1..Len(q))
    BY <1>1, FS_Interval
  <2>2. QED
    BY <1>1, <2>1, FS_Subset
<1>3. QED
  BY <1>2, FS_CardinalityType

LEMMA SlotsEmpty == ASSUME NEW p PROVE Slots(<< >>, p) = {} /\ Cardinality(Slots(<< >>, p)) = 0
<1>1. Slots(<< >>, p) = {}
  BY DEF Slots
<1>2. QED
  BY <1>1, FS_EmptySet

\* One if a message carries p.
Has(m, p) == IF m.pid = p THEN 1 ELSE 0

LEMMA SlotsAppend ==
  ASSUME NEW q \in Seq(Msg), NEW m \in Msg, NEW p
  PROVE  Cardinality(Slots(Append(q, m), p)) = Cardinality(Slots(q, p)) + Has(m, p)
<1> DEFINE r == Append(q, m)
           n == Len(q)
<1>1. n \in Nat /\ Len(r) = n + 1 /\ r[n + 1] = m /\ \A i \in 1..n : r[i] = q[i]
  OBVIOUS
<1>2. n + 1 \notin Slots(q, p) /\ IsFiniteSet(Slots(q, p)) /\ Cardinality(Slots(q, p)) \in Nat
  <2>1. n + 1 \notin 1..n /\ Slots(q, p) \subseteq 1..n
    BY <1>1 DEF Slots
  <2>2. QED
    BY <2>1, SlotsFinite
<1> HIDE DEF r, n
<1>3. CASE m.pid = p
  <2>1. \A i : i \in Slots(r, p) <=> i \in Slots(q, p) \cup {n + 1}
    BY <1>1, <1>3 DEF Slots, n
  <2>2. Cardinality(Slots(r, p)) = Cardinality(Slots(q, p)) + 1
    BY <1>2, <2>1, FS_AddElement
  <2>3. QED
    BY <1>3, <2>2 DEF Has, r
<1>4. CASE m.pid # p
  <2>1. \A i : i \in Slots(r, p) <=> i \in Slots(q, p)
    BY <1>1, <1>4 DEF Slots, n
  <2>2. Slots(r, p) = Slots(q, p)
    BY <2>1
  <2>3. QED
    BY <1>2, <1>4, <2>2 DEF Has, r
<1>5. QED
  BY <1>3, <1>4

LEMMA SlotsTail ==
  ASSUME NEW q \in Seq(Msg), q # << >>, NEW p
  PROVE  Cardinality(Slots(q, p)) = Cardinality(Slots(Tail(q), p)) + Has(Head(q), p)
<1> DEFINE r == Tail(q)
           n == Len(q)
           S == Slots(r, p)
           T == Slots(q, p) \ {1}
           f == [i \in S |-> i + 1]
<1>1. /\ n \in Nat /\ n > 0 /\ Len(r) = n - 1 /\ r \in Seq(Msg) /\ Head(q) = q[1]
      /\ \A i \in 1..n - 1 : r[i] = q[i + 1]
  OBVIOUS
<1>2. IsFiniteSet(S) /\ Cardinality(S) \in Nat /\ IsFiniteSet(Slots(q, p)) /\ Cardinality(Slots(q, p)) \in Nat
  BY <1>1, SlotsFinite
<1>3. \A i : i \in S <=> i \in 1..n - 1 /\ q[i + 1].pid = p
  BY <1>1 DEF Slots
<1>4. \A i : i \in T <=> i \in 2..n /\ q[i].pid = p
  BY <1>1 DEF Slots
<1>5. 1 \in Slots(q, p) <=> Head(q).pid = p
  BY <1>1 DEF Slots
<1>6. f \in Bijection(S, T)
  <2> HIDE DEF r, n, S, T
  <2>0. \A i \in S : i + 1 \in T
    BY <1>1, <1>3, <1>4
  <2>1. f \in [S -> T]
    BY <2>0
  <2>2. \A i, k \in S : f[i] = f[k] => i = k
    BY <1>1, <1>3
  <2>3. \A k \in T : \E i \in S : f[i] = k
    <3>1. ASSUME NEW k \in T PROVE k - 1 \in S /\ f[k - 1] = k
      <4>1. k \in 2..n /\ q[k].pid = p
        BY <1>4
      <4>2. k - 1 \in 1..n - 1 /\ (k - 1) + 1 = k
        BY <1>1, <4>1
      <4>3. k - 1 \in S
        BY <1>3, <4>1, <4>2
      <4>4. QED
        BY <4>2, <4>3
    <3>2. QED
      BY <3>1
  <2> HIDE DEF f
  <2>4. QED
    BY <2>1, <2>2, <2>3 DEF Bijection, Injection, Surjection, IsInjective
<1>7. Cardinality(T) = Cardinality(S)
  BY <1>2, <1>6, FS_Bijection DEF ExistsBijection
<1>8. Cardinality(T) = IF 1 \in Slots(q, p) THEN Cardinality(Slots(q, p)) - 1 ELSE Cardinality(Slots(q, p))
  BY <1>2, FS_RemoveElement
<1> HIDE DEF r, n, S, T, f
<1>9. Cardinality(Slots(q, p)) = Cardinality(S) + Has(Head(q), p)
  BY <1>2, <1>5, <1>7, <1>8 DEF Has
<1>10. QED
  BY <1>9 DEF S, r

\* The same for the queues of all threads: changing one changes the sum by as much.
LEMMA QueueSlotsChange ==
  ASSUME NEW qs \in [Thread -> Seq(Msg)], NEW t \in Thread, NEW q \in Seq(Msg), NEW p
  PROVE  LET new == [qs EXCEPT ![t] = q]
         IN /\ Cardinality(QueueSlots(qs, p)) \in Nat
            /\ Cardinality(QueueSlots(new, p)) \in Nat
            /\ Cardinality(QueueSlots(new, p)) + Cardinality(Slots(qs[t], p))
                 = Cardinality(QueueSlots(qs, p)) + Cardinality(Slots(q, p))
<1> DEFINE new == [qs EXCEPT ![t] = q]
           part(u) == {u} \X Slots(qs[u], p)
           parts == {part(u) : u \in Thread \ {t}}
           rest == UNION parts
<1>1. ASSUME NEW u, NEW r \in Seq(Msg)
      PROVE  IsFiniteSet({u} \X Slots(r, p)) /\ Cardinality({u} \X Slots(r, p)) = Cardinality(Slots(r, p))
  <2>1. IsFiniteSet({u}) /\ Cardinality({u}) = 1 /\ IsFiniteSet(Slots(r, p)) /\ Cardinality(Slots(r, p)) \in Nat
    BY SlotsFinite, FS_Singleton
  <2> DEFINE A == {u}
             B == Slots(r, p)
  <2>2. IsFiniteSet(A \X B) /\ Cardinality(A \X B) = Cardinality(A) * Cardinality(B)
    <3> HIDE DEF A, B
    <3>1. IsFiniteSet(A) /\ IsFiniteSet(B)
      BY <2>1 DEF A, B
    <3>2. QED
      BY <3>1, FS_Product
  <2>3. QED
    BY <2>1, <2>2
<1>2. IsFiniteSet(parts)
  <2> DEFINE g == [u \in Thread \ {t} |-> part(u)]
  <2>1. IsFiniteSet(Thread \ {t})
    BY ThreadsFinite, FS_RemoveElement
  <2>2. g \in Surjection(Thread \ {t}, parts)
    BY DEF Surjection
  <2>3. QED
    BY <2>1, <2>2, FS_Surjection
<1>3. IsFiniteSet(rest)
  <2>1. \A T \in parts : IsFiniteSet(T)
    BY <1>1
  <2>2. QED
    BY <1>2, <2>1, FS_UNION
<1>4. \A x : x \in QueueSlots(qs, p) <=> x \in part(t) \cup rest
  BY DEF QueueSlots
<1>5. \A x : x \in QueueSlots(new, p) <=> x \in ({t} \X Slots(q, p)) \cup rest
  <2>1. new[t] = q /\ \A u \in Thread \ {t} : new[u] = qs[u]
    OBVIOUS
  <2>2. \A x : x \in QueueSlots(new, p) <=> \E u \in Thread : x \in {u} \X Slots(new[u], p)
    BY DEF QueueSlots
  <2> HIDE DEF new
  <2>3. QED
    BY <2>1, <2>2
<1>6. ASSUME NEW S PROVE ({t} \X S) \cap rest = {}
  OBVIOUS
<1>7. QueueSlots(qs, p) = part(t) \cup rest /\ QueueSlots(new, p) = ({t} \X Slots(q, p)) \cup rest
  BY <1>4, <1>5
<1>8. qs[t] \in Seq(Msg)
  OBVIOUS
<1>9. /\ Cardinality(QueueSlots(qs, p)) = Cardinality(Slots(qs[t], p)) + Cardinality(rest)
      /\ Cardinality(QueueSlots(new, p)) = Cardinality(Slots(q, p)) + Cardinality(rest)
  <2> DEFINE A == {t} \X Slots(qs[t], p)
             B == {t} \X Slots(q, p)
  <2>1. /\ IsFiniteSet(A) /\ Cardinality(A) = Cardinality(Slots(qs[t], p))
        /\ IsFiniteSet(B) /\ Cardinality(B) = Cardinality(Slots(q, p))
    BY <1>1, <1>8
  <2>2. A \cap rest = {} /\ B \cap rest = {}
    BY <1>6
  <2>3. QueueSlots(qs, p) = A \cup rest /\ QueueSlots(new, p) = B \cup rest
    BY <1>7
  <2> HIDE DEF A, B, rest, new
  <2>4. Cardinality({}) = 0 /\ Cardinality(A) \in Nat /\ Cardinality(B) \in Nat /\ Cardinality(rest) \in Nat
    BY <1>3, <2>1, FS_EmptySet, FS_CardinalityType
  <2>5. /\ Cardinality(A \cup rest) = Cardinality(A) + Cardinality(rest) - Cardinality(A \cap rest)
        /\ Cardinality(B \cup rest) = Cardinality(B) + Cardinality(rest) - Cardinality(B \cap rest)
    BY <1>3, <2>1, FS_Union
  <2>6. Cardinality(A \cap rest) = 0 /\ Cardinality(B \cap rest) = 0
    BY <2>2, <2>4
  <2>7. /\ Cardinality(A \cup rest) = Cardinality(A) + Cardinality(rest)
        /\ Cardinality(B \cup rest) = Cardinality(B) + Cardinality(rest)
    BY <2>4, <2>5, <2>6
  <2>8. QED
    BY <2>1, <2>3, <2>7
<1>10. Cardinality(rest) \in Nat /\ Cardinality(Slots(qs[t], p)) \in Nat /\ Cardinality(Slots(q, p)) \in Nat
  BY <1>3, <1>8, SlotsFinite, FS_CardinalityType
<1> HIDE DEF rest, new, part, parts
<1>11. /\ Cardinality(QueueSlots(qs, p)) \in Nat /\ Cardinality(QueueSlots(new, p)) \in Nat
       /\ Cardinality(QueueSlots(new, p)) + Cardinality(Slots(qs[t], p))
            = Cardinality(QueueSlots(qs, p)) + Cardinality(Slots(q, p))
  BY <1>9, <1>10
<1>12. QED
  BY <1>11 DEF new

LEMMA QueueAppend ==
  ASSUME NEW qs \in [Thread -> Seq(Msg)], NEW t \in Thread, NEW m \in Msg, NEW p
  PROVE  Cardinality(QueueSlots([qs EXCEPT ![t] = Append(@, m)], p))
           = Cardinality(QueueSlots(qs, p)) + Has(m, p)
<1> DEFINE q == Append(qs[t], m)
<1>1. q \in Seq(Msg) /\ qs[t] \in Seq(Msg)
  OBVIOUS
<1>2. Cardinality(Slots(q, p)) = Cardinality(Slots(qs[t], p)) + Has(m, p)
  BY <1>1, SlotsAppend
<1>3. Cardinality(Slots(qs[t], p)) \in Nat /\ Has(m, p) \in Nat
  BY <1>1, SlotsFinite DEF Has
<1> HIDE DEF q
<1>4. /\ Cardinality(QueueSlots(qs, p)) \in Nat /\ Cardinality(QueueSlots([qs EXCEPT ![t] = q], p)) \in Nat
      /\ Cardinality(QueueSlots([qs EXCEPT ![t] = q], p)) + Cardinality(Slots(qs[t], p))
           = Cardinality(QueueSlots(qs, p)) + Cardinality(Slots(q, p))
  BY <1>1, QueueSlotsChange
<1>5. Cardinality(QueueSlots([qs EXCEPT ![t] = q], p)) = Cardinality(QueueSlots(qs, p)) + Has(m, p)
  BY <1>2, <1>3, <1>4
<1>6. QED
  BY <1>5 DEF q

LEMMA QueueTail ==
  ASSUME NEW qs \in [Thread -> Seq(Msg)], NEW t \in Thread, qs[t] # << >>, NEW p
  PROVE  Cardinality(QueueSlots(qs, p))
           = Cardinality(QueueSlots([qs EXCEPT ![t] = Tail(@)], p)) + Has(Head(qs[t]), p)
<1> DEFINE q == Tail(qs[t])
<1>1. q \in Seq(Msg) /\ qs[t] \in Seq(Msg)
  OBVIOUS
<1>2. Cardinality(Slots(qs[t], p)) = Cardinality(Slots(q, p)) + Has(Head(qs[t]), p)
  BY <1>1, SlotsTail
<1>3. Cardinality(Slots(q, p)) \in Nat /\ Has(Head(qs[t]), p) \in Nat
  BY <1>1, SlotsFinite DEF Has
<1> HIDE DEF q
<1>4. /\ Cardinality(QueueSlots(qs, p)) \in Nat /\ Cardinality(QueueSlots([qs EXCEPT ![t] = q], p)) \in Nat
      /\ Cardinality(QueueSlots([qs EXCEPT ![t] = q], p)) + Cardinality(Slots(qs[t], p))
           = Cardinality(QueueSlots(qs, p)) + Cardinality(Slots(q, p))
  BY <1>1, QueueSlotsChange
<1>5. Cardinality(QueueSlots(qs, p)) = Cardinality(QueueSlots([qs EXCEPT ![t] = q], p)) + Has(Head(qs[t]), p)
  BY <1>2, <1>3, <1>4
<1>6. QED
  BY <1>5 DEF q

LEMMA QueueEmptied ==
  ASSUME NEW qs \in [Thread -> Seq(Msg)], NEW t \in Thread, NEW p
  PROVE  Cardinality(QueueSlots(qs, p))
           = Cardinality(QueueSlots([qs EXCEPT ![t] = << >>], p)) + Cardinality(Slots(qs[t], p))
<1>1. qs[t] \in Seq(Msg) /\ << >> \in Seq(Msg)
  OBVIOUS
<1>2. /\ Cardinality(QueueSlots(qs, p)) \in Nat /\ Cardinality(QueueSlots([qs EXCEPT ![t] = << >>], p)) \in Nat
      /\ Cardinality(QueueSlots([qs EXCEPT ![t] = << >>], p)) + Cardinality(Slots(qs[t], p))
           = Cardinality(QueueSlots(qs, p)) + Cardinality(Slots(<< >>, p))
  BY <1>1, QueueSlotsChange
<1>3. Cardinality(Slots(qs[t], p)) \in Nat /\ Cardinality(Slots(<< >>, p)) = 0
  BY <1>1, SlotsFinite, SlotsEmpty
<1>4. QED
  BY <1>2, <1>3

\* The workers that have p in hand.
Hands(hand, p) == {t \in Thread : hand[t].pid = p}

LEMMA HandsFinite ==
  ASSUME NEW hand, NEW p
  PROVE  IsFiniteSet(Hands(hand, p)) /\ Cardinality(Hands(hand, p)) \in Nat
<1>1. IsFiniteSet(Hands(hand, p))
  BY ThreadsFinite, FS_Subset DEF Hands
<1>2. QED
  BY <1>1, FS_CardinalityType

LEMMA HandsChange ==
  ASSUME NEW hand \in [Thread -> Msg], NEW t \in Thread, NEW m \in Msg, NEW p
  PROVE  Cardinality(Hands([hand EXCEPT ![t] = m], p)) + Has(hand[t], p)
           = Cardinality(Hands(hand, p)) + Has(m, p)
<1> DEFINE new == [hand EXCEPT ![t] = m]
           rest == Hands(hand, p) \ {t}
<1>1. new[t] = m /\ \A u \in Thread \ {t} : new[u] = hand[u]
  OBVIOUS
<1>2. IsFiniteSet(Hands(hand, p)) /\ Cardinality(Hands(hand, p)) \in Nat
  BY HandsFinite
<1>3. IsFiniteSet(rest) /\ Cardinality(rest) \in Nat
  BY <1>2, FS_RemoveElement, FS_CardinalityType
<1>4. t \notin rest
  OBVIOUS
<1> HIDE DEF new
<1>5. ASSUME NEW h, h[t].pid = p, \A u \in Thread \ {t} : h[u] = hand[u]
      PROVE  Cardinality(Hands(h, p)) = Cardinality(rest) + 1
  <2>1. Hands(h, p) = rest \cup {t}
    BY <1>5 DEF Hands
  <2>2. QED
    BY <1>3, <1>4, <2>1, FS_AddElement
<1>6. ASSUME NEW h, h[t].pid # p, \A u \in Thread \ {t} : h[u] = hand[u]
      PROVE  Cardinality(Hands(h, p)) = Cardinality(rest)
  <2>1. Hands(h, p) = rest
    BY <1>6 DEF Hands
  <2>2. QED
    BY <2>1
<1> HIDE DEF rest
<1>7. ASSUME NEW h, \A u \in Thread \ {t} : h[u] = hand[u]
      PROVE  Cardinality(Hands(h, p)) = Cardinality(rest) + Has(h[t], p)
  <2>1. CASE h[t].pid = p
    BY <1>5, <1>7, <2>1 DEF Has
  <2>2. CASE h[t].pid # p
    BY <1>3, <1>6, <1>7, <2>2 DEF Has
  <2>3. QED
    BY <2>1, <2>2
<1>8. /\ Cardinality(Hands(new, p)) = Cardinality(rest) + Has(m, p)
      /\ Cardinality(Hands(hand, p)) = Cardinality(rest) + Has(hand[t], p)
  BY <1>1, <1>7
<1>9. Cardinality(Hands(new, p)) + Has(hand[t], p) = Cardinality(Hands(hand, p)) + Has(m, p)
  BY <1>3, <1>8 DEF Has
<1>10. QED
  BY <1>9 DEF new

\* The jobs that carry p.
JobsOf(js, p) == {j \in js : j.pid = p}

LEMMA JobsFinite ==
  ASSUME NEW js, IsFiniteSet(js), NEW p
  PROVE  IsFiniteSet(JobsOf(js, p)) /\ Cardinality(JobsOf(js, p)) \in Nat
<1>1. IsFiniteSet(JobsOf(js, p))
  BY FS_Subset DEF JobsOf
<1>2. QED
  BY <1>1, FS_CardinalityType

LEMMA JobTaken ==
  ASSUME NEW js, IsFiniteSet(js), NEW j \in js, NEW p
  PROVE  Cardinality(JobsOf(js, p)) = Cardinality(JobsOf(js \ {j}, p)) + Has(j, p)
<1>1. IsFiniteSet(JobsOf(js, p)) /\ Cardinality(JobsOf(js, p)) \in Nat
  BY JobsFinite
<1>2. JobsOf(js \ {j}, p) = JobsOf(js, p) \ {j}
  BY DEF JobsOf
<1>3. j \in JobsOf(js, p) <=> j.pid = p
  BY DEF JobsOf
<1>4. Cardinality(JobsOf(js, p) \ {j})
        = IF j \in JobsOf(js, p) THEN Cardinality(JobsOf(js, p)) - 1 ELSE Cardinality(JobsOf(js, p))
  BY <1>1, FS_RemoveElement
<1>5. CASE j.pid = p
  <2>1. Cardinality(JobsOf(js \ {j}, p)) = Cardinality(JobsOf(js, p)) - 1
    BY <1>2, <1>3, <1>4, <1>5
  <2>2. Has(j, p) = 1
    BY <1>5 DEF Has
  <2>3. QED
    BY <1>1, <2>1, <2>2
<1>6. CASE j.pid # p
  <2>1. Cardinality(JobsOf(js \ {j}, p)) = Cardinality(JobsOf(js, p))
    BY <1>2, <1>3, <1>4, <1>6
  <2>2. Has(j, p) = 0
    BY <1>6 DEF Has
  <2>3. QED
    BY <1>1, <2>1, <2>2
<1>7. QED
  BY <1>5, <1>6

LEMMA JobAdded ==
  ASSUME NEW js, IsFiniteSet(js), NEW j, NEW p, j.pid = p => JobsOf(js, p) = {}
  PROVE  Cardinality(JobsOf(js \cup {j}, p)) = Cardinality(JobsOf(js, p)) + Has(j, p)
<1>1. IsFiniteSet(JobsOf(js, p)) /\ Cardinality(JobsOf(js, p)) \in Nat
  BY JobsFinite
<1>2. CASE j.pid = p
  <2>1. JobsOf(js \cup {j}, p) = {j} /\ JobsOf(js, p) = {}
    BY <1>2 DEF JobsOf
  <2>2. Cardinality({j}) = 1 /\ Cardinality({}) = 0
    BY FS_EmptySet, FS_Singleton
  <2>3. QED
    BY <1>2, <2>1, <2>2 DEF Has
<1>3. CASE j.pid # p
  <2>1. JobsOf(js \cup {j}, p) = JobsOf(js, p)
    BY <1>3 DEF JobsOf
  <2>2. QED
    BY <1>1, <1>3, <2>1 DEF Has
<1>4. QED
  BY <1>2, <1>3

\* How often each part of the state holds p, and how often all of them do.
AtWorkers(p) == Cardinality(QueueSlots(inQueue, p))
ToMain(p)    == Cardinality(QueueSlots(outQueue, p))
Detached(p)  == Cardinality(Slots(done, p))
Finished(p)  == Cardinality(Slots(completed, p))
AtPool(p)    == Cardinality(JobsOf(jobs, p))
InHands(p)   == Cardinality(Hands(cur, p))
AtMain(p)    == Has(mcur, p)

Sum(p) == AtWorkers(p) + InHands(p) + freed[p] + ToMain(p) + Detached(p) + Finished(p) + AtPool(p) + AtMain(p)

\* Every payload boxed so far is held or was released once, the others never.
Balance == \A p \in Payload : Sum(p) = IF p < nextPid THEN 1 ELSE 0

\* While main's loop is between two pieces of user code main holds nothing.
MainIdle == mpc \in {"check", "gather", "deliver"} => mcur = NoMsg

\* What main's handlers are given was sent by a worker.
FromWorkers ==
  /\ \A i \in 1..Len(done) : done[i].kind = "ordinary" => done[i].from # Main
  /\ mcur.kind = "ordinary" => mcur.from # Main

PayInv == Balance /\ IsFiniteSet(jobs) /\ MainIdle /\ FromWorkers

LEMMA CountsTyped ==
  ASSUME TypeOK, IsFiniteSet(jobs), NEW p \in Payload
  PROVE  /\ freed[p] \in Nat /\ AtWorkers(p) \in Nat /\ ToMain(p) \in Nat /\ Detached(p) \in Nat
         /\ Finished(p) \in Nat /\ AtPool(p) \in Nat /\ InHands(p) \in Nat /\ AtMain(p) \in Nat
<1>1. \E t \in Thread : TRUE
  BY RegistryTyped
<1>2. AtWorkers(p) \in Nat /\ ToMain(p) \in Nat
  BY <1>1, QueueSlotsChange DEF TypeOK, QueuesOK, AtWorkers, ToMain
<1>3. Detached(p) \in Nat /\ Finished(p) \in Nat
  BY SlotsFinite DEF TypeOK, MainOK, PoolOK, Detached, Finished
<1>4. AtPool(p) \in Nat /\ InHands(p) \in Nat /\ AtMain(p) \in Nat
  BY JobsFinite, HandsFinite DEF AtPool, InHands, AtMain, Has
<1>5. freed[p] \in Nat
  BY DEF TypeOK, HistoryOK
<1>6. QED
  BY <1>2, <1>3, <1>4, <1>5

LEMMA SumIs == ASSUME TypeOK, IsFiniteSet(jobs), NEW p \in Payload PROVE Sum(p) = freed[p] + Holders(p)
<1>1. /\ freed[p] \in Nat /\ AtWorkers(p) \in Nat /\ ToMain(p) \in Nat /\ Detached(p) \in Nat
      /\ Finished(p) \in Nat /\ AtPool(p) \in Nat /\ InHands(p) \in Nat /\ AtMain(p) \in Nat
  BY CountsTyped
<1>2. Holders(p) = AtWorkers(p) + ToMain(p) + Detached(p) + Finished(p) + AtPool(p) + InHands(p) + AtMain(p)
  BY DEF Holders, AtWorkers, ToMain, Detached, Finished, AtPool, JobsOf, InHands, Hands, AtMain, Has
<1>3. QED
  BY <1>1, <1>2 DEF Sum

LEMMA BalanceKept ==
  ASSUME Balance, nextPid' = nextPid, \A p \in Payload : Sum(p)' = Sum(p)
  PROVE  Balance'
BY DEF Balance

LEMMA BalanceBoxed ==
  ASSUME TypeOK, Balance, Box, \A p \in Payload : Sum(p)' = Sum(p) + (IF p = nextPid THEN 1 ELSE 0)
  PROVE  Balance'
<1>1. nextPid' = nextPid + 1 /\ nextPid \in Nat
  BY Pids DEF Box
<1>2. \A p \in Payload : p \in Nat
  BY DEF Payload
<1>3. ASSUME NEW p \in Payload PROVE Sum(p)' = IF p < nextPid' THEN 1 ELSE 0
  <2>1. Sum(p) = IF p < nextPid THEN 1 ELSE 0
    BY DEF Balance
  <2>2. Sum(p)' = Sum(p) + (IF p = nextPid THEN 1 ELSE 0)
    OBVIOUS
  <2>3. p \in Nat
    BY <1>2
  <2>4. QED
    BY <1>1, <2>1, <2>2, <2>3
<1>4. QED
  BY <1>3 DEF Balance

\* One part only changes, or two, or three.
LEMMA SumStill ==
  ASSUME NEW p, UNCHANGED <<inQueue, outQueue, done, completed, jobs, cur, mcur, freed>>
  PROVE  Sum(p)' = Sum(p)
BY DEF Sum, AtWorkers, ToMain, Detached, Finished, AtPool, InHands, AtMain

LEMMA SumSplit ==
  ASSUME NEW p
  PROVE  /\ inQueue' = inQueue => AtWorkers(p)' = AtWorkers(p)
         /\ outQueue' = outQueue => ToMain(p)' = ToMain(p)
         /\ done' = done => Detached(p)' = Detached(p)
         /\ completed' = completed => Finished(p)' = Finished(p)
         /\ jobs' = jobs => AtPool(p)' = AtPool(p)
         /\ cur' = cur => InHands(p)' = InHands(p)
         /\ mcur' = mcur => AtMain(p)' = AtMain(p)
BY DEF AtWorkers, ToMain, Detached, Finished, AtPool, InHands, AtMain

LEMMA SentInward ==
  ASSUME TypeOK, TypeOK', PayInv, Box, NEW t \in Thread, NEW m \in Msg, m.pid = nextPid,
         inQueue' = [inQueue EXCEPT ![t] = Append(@, m)],
         UNCHANGED <<outQueue, done, completed, jobs, cur, mcur, freed>>
  PROVE  Balance'
<1>1. ASSUME NEW p \in Payload PROVE Sum(p)' = Sum(p) + Has(m, p)
  <2>1. AtWorkers(p)' = AtWorkers(p) + Has(m, p)
    <3>1. inQueue \in [Thread -> Seq(Msg)]
      BY DEF TypeOK, QueuesOK
    <3>2. Cardinality(QueueSlots([inQueue EXCEPT ![t] = Append(@, m)], p)) = Cardinality(QueueSlots(inQueue, p)) + Has(m, p)
      BY <3>1, QueueAppend
    <3>3. QED
      BY <3>2 DEF AtWorkers
  <2>2. UNCHANGED <<freed[p], ToMain(p), Detached(p), Finished(p), AtPool(p), InHands(p), AtMain(p)>>
    BY SumSplit
  <2>3. /\ freed[p] \in Nat /\ AtWorkers(p) \in Nat /\ ToMain(p) \in Nat /\ Detached(p) \in Nat
        /\ Finished(p) \in Nat /\ AtPool(p) \in Nat /\ InHands(p) \in Nat /\ AtMain(p) \in Nat
    BY CountsTyped DEF PayInv
  <2>4. Has(m, p) \in Nat
    BY DEF Has
  <2>5. QED
    BY <2>1, <2>2, <2>3, <2>4, SMTT(60) DEF Sum
<1>2. QED
  BY <1>1, BalanceBoxed DEF PayInv, Has

LEMMA SentOutward ==
  ASSUME TypeOK, TypeOK', PayInv, Box, NEW t \in Thread, NEW m \in Msg, m.pid = nextPid,
         outQueue' = [outQueue EXCEPT ![t] = Append(@, m)],
         UNCHANGED <<inQueue, done, completed, jobs, cur, mcur, freed>>
  PROVE  Balance'
<1>1. ASSUME NEW p \in Payload PROVE Sum(p)' = Sum(p) + Has(m, p)
  <2>1. ToMain(p)' = ToMain(p) + Has(m, p)
    <3>1. outQueue \in [Thread -> Seq(Msg)]
      BY DEF TypeOK, QueuesOK
    <3>2. Cardinality(QueueSlots([outQueue EXCEPT ![t] = Append(@, m)], p)) = Cardinality(QueueSlots(outQueue, p)) + Has(m, p)
      BY <3>1, QueueAppend
    <3>3. QED
      BY <3>2 DEF ToMain
  <2>2. UNCHANGED <<freed[p], AtWorkers(p), Detached(p), Finished(p), AtPool(p), InHands(p), AtMain(p)>>
    BY SumSplit
  <2>3. /\ freed[p] \in Nat /\ AtWorkers(p) \in Nat /\ ToMain(p) \in Nat /\ Detached(p) \in Nat
        /\ Finished(p) \in Nat /\ AtPool(p) \in Nat /\ InHands(p) \in Nat /\ AtMain(p) \in Nat
    BY CountsTyped DEF PayInv
  <2>4. Has(m, p) \in Nat
    BY DEF Has
  <2>5. QED
    BY <2>1, <2>2, <2>3, <2>4, SMTT(60) DEF Sum
<1>2. QED
  BY <1>1, BalanceBoxed DEF PayInv, Has

LEMMA SentNowhere ==
  ASSUME TypeOK, TypeOK', PayInv, Box, Release({nextPid}),
         UNCHANGED <<inQueue, outQueue, done, completed, jobs, cur, mcur>>
  PROVE  Balance'
<1>1. ASSUME NEW p \in Payload PROVE Sum(p)' = Sum(p) + (IF p = nextPid THEN 1 ELSE 0)
  <2>1. freed'[p] = freed[p] + (IF p = nextPid THEN 1 ELSE 0)
    BY DEF Release
  <2>2. UNCHANGED <<AtWorkers(p), ToMain(p), Detached(p), Finished(p), AtPool(p), InHands(p), AtMain(p)>>
    BY SumSplit
  <2>3. /\ freed[p] \in Nat /\ AtWorkers(p) \in Nat /\ ToMain(p) \in Nat /\ Detached(p) \in Nat
        /\ Finished(p) \in Nat /\ AtPool(p) \in Nat /\ InHands(p) \in Nat /\ AtMain(p) \in Nat
    BY CountsTyped DEF PayInv
  <2>4. QED
    BY <2>1, <2>2, <2>3, SMTT(60) DEF Sum
<1>2. QED
  BY <1>1, BalanceBoxed DEF PayInv

LEMMA TakenInHand ==
  ASSUME TypeOK, TypeOK', PayInv, NEW t \in Thread, cur[t] = NoMsg, inQueue[t] # << >>,
         cur' = [cur EXCEPT ![t] = Head(inQueue[t])],
         inQueue' = [inQueue EXCEPT ![t] = Tail(@)],
         UNCHANGED <<nextPid, outQueue, done, completed, jobs, mcur, freed>>
  PROVE  Balance'
<1> DEFINE m == Head(inQueue[t])
<1>1. inQueue[t] \in Seq(Msg) /\ m \in Msg
  BY DEF TypeOK, QueuesOK
<1>2. ASSUME NEW p \in Payload PROVE Sum(p)' = Sum(p)
  <2>1. AtWorkers(p) = AtWorkers(p)' + Has(m, p)
    <3>1. inQueue \in [Thread -> Seq(Msg)]
      BY DEF TypeOK, QueuesOK
    <3>2. Cardinality(QueueSlots(inQueue, p))
            = Cardinality(QueueSlots([inQueue EXCEPT ![t] = Tail(@)], p)) + Has(Head(inQueue[t]), p)
      BY <3>1, QueueTail
    <3>3. QED
      BY <3>2 DEF AtWorkers
  <2>2. Has(cur[t], p) = 0
    BY DEF Has, NoMsg, Payload
  <2>3. InHands(p)' + Has(cur[t], p) = InHands(p) + Has(m, p)
    <3>1. cur \in [Thread -> Msg]
      BY DEF TypeOK, WorkerOK
    <3>2. Cardinality(Hands([cur EXCEPT ![t] = m], p)) + Has(cur[t], p) = Cardinality(Hands(cur, p)) + Has(m, p)
      BY <1>1, <3>1, HandsChange
    <3>3. QED
      BY <3>2 DEF InHands
  <2>4. UNCHANGED <<freed[p], ToMain(p), Detached(p), Finished(p), AtPool(p), AtMain(p)>>
    BY SumSplit
  <2>5. /\ freed[p] \in Nat /\ AtWorkers(p) \in Nat /\ ToMain(p) \in Nat /\ Detached(p) \in Nat
        /\ Finished(p) \in Nat /\ AtPool(p) \in Nat /\ InHands(p) \in Nat /\ AtMain(p) \in Nat
    BY CountsTyped DEF PayInv
  <2>6. AtWorkers(p)' \in Nat /\ InHands(p)' \in Nat /\ Has(m, p) \in Nat
    <3>1. Has(m, p) \in Nat
      BY DEF Has
    <3>2. AtWorkers(p)' \in Nat
      BY QueueSlotsChange DEF TypeOK, QueuesOK, AtWorkers
    <3>3. InHands(p)' \in Nat
      BY HandsFinite DEF InHands
    <3>4. QED
      BY <3>1, <3>2, <3>3
  <2> HIDE DEF m
  <2>7. AtWorkers(p)' + InHands(p)' = AtWorkers(p) + InHands(p)
    BY <2>1, <2>2, <2>3, <2>5, <2>6
  <2>8. QED
    BY <2>4, <2>7 DEF Sum
<1>3. QED
  BY <1>2, BalanceKept DEF PayInv

LEMMA HandReleased ==
  ASSUME TypeOK, TypeOK', PayInv, NEW t \in Thread, cur' = [cur EXCEPT ![t] = NoMsg],
         Release({cur[t].pid}),
         UNCHANGED <<nextPid, inQueue, outQueue, done, completed, jobs, mcur>>
  PROVE  Balance'
<1>1. ASSUME NEW p \in Payload PROVE Sum(p)' = Sum(p)
  <2>1. freed'[p] = freed[p] + Has(cur[t], p)
    BY DEF Release, Has
  <2>2. Has(NoMsg, p) = 0
    BY DEF Has, NoMsg, Payload
  <2>3. InHands(p)' + Has(cur[t], p) = InHands(p) + Has(NoMsg, p)
    <3>1. cur \in [Thread -> Msg]
      BY DEF TypeOK, WorkerOK
    <3>2. Cardinality(Hands([cur EXCEPT ![t] = NoMsg], p)) + Has(cur[t], p)
            = Cardinality(Hands(cur, p)) + Has(NoMsg, p)
      BY <3>1, NoMsgTyped, HandsChange
    <3>3. QED
      BY <3>2 DEF InHands
  <2>4. UNCHANGED <<AtWorkers(p), ToMain(p), Detached(p), Finished(p), AtPool(p), AtMain(p)>>
    BY SumSplit
  <2>5. /\ freed[p] \in Nat /\ AtWorkers(p) \in Nat /\ ToMain(p) \in Nat /\ Detached(p) \in Nat
        /\ Finished(p) \in Nat /\ AtPool(p) \in Nat /\ InHands(p) \in Nat /\ AtMain(p) \in Nat
    BY CountsTyped DEF PayInv
  <2>6. InHands(p)' \in Nat /\ Has(cur[t], p) \in Nat
    BY HandsFinite DEF InHands, Has
  <2>7. QED
    BY <2>1, <2>2, <2>3, <2>4, <2>5, <2>6, SMTT(60) DEF Sum
<1>2. QED
  BY <1>1, BalanceKept DEF PayInv

LEMMA HandMarshaled ==
  ASSUME TypeOK, TypeOK', PayInv, NEW t \in Thread, cur' = [cur EXCEPT ![t] = NoMsg],
         jobs' = jobs \cup {[cur[t] EXCEPT !.kind = "job"]},
         UNCHANGED <<nextPid, inQueue, outQueue, done, completed, mcur, freed>>
  PROVE  Balance' /\ IsFiniteSet(jobs')
<1> DEFINE j == [cur[t] EXCEPT !.kind = "job"]
<1>1. j.pid = cur[t].pid
  BY DEF TypeOK, WorkerOK, Msg
<1>2. IsFiniteSet(jobs')
  BY FS_AddElement DEF PayInv
<1>3. ASSUME NEW p \in Payload PROVE Sum(p)' = Sum(p)
  <2>1. /\ freed[p] \in Nat /\ AtWorkers(p) \in Nat /\ ToMain(p) \in Nat /\ Detached(p) \in Nat
        /\ Finished(p) \in Nat /\ AtPool(p) \in Nat /\ InHands(p) \in Nat /\ AtMain(p) \in Nat
    BY CountsTyped DEF PayInv
  <2>2. Has(NoMsg, p) = 0
    BY DEF Has, NoMsg, Payload
  <2>3. InHands(p)' + Has(cur[t], p) = InHands(p) + Has(NoMsg, p)
    <3>1. cur \in [Thread -> Msg]
      BY DEF TypeOK, WorkerOK
    <3>2. Cardinality(Hands([cur EXCEPT ![t] = NoMsg], p)) + Has(cur[t], p)
            = Cardinality(Hands(cur, p)) + Has(NoMsg, p)
      BY <3>1, NoMsgTyped, HandsChange
    <3>3. QED
      BY <3>2 DEF InHands
  <2>4. UNCHANGED <<freed[p], AtWorkers(p), ToMain(p), Detached(p), Finished(p), AtMain(p)>>
    BY SumSplit
  <2>5. InHands(p)' \in Nat /\ Has(cur[t], p) \in Nat
    BY HandsFinite DEF InHands, Has
  <2>6. j.pid = p => JobsOf(jobs, p) = {}
    <3>1. ASSUME j.pid = p PROVE AtPool(p) = 0
      <4>1. Has(cur[t], p) = 1
        BY <1>1, <3>1 DEF Has
      <4>2. InHands(p) >= 1
        BY <2>1, <2>2, <2>3, <2>5, <4>1
      <4>3. Sum(p) <= 1
        BY DEF PayInv, Balance
      <4>4. QED
        BY <2>1, <4>2, <4>3, SMTT(60) DEF Sum
    <3>2. QED
      BY <3>1, JobsFinite, FS_EmptySet DEF AtPool, PayInv
  <2>7. AtPool(p)' = AtPool(p) + Has(cur[t], p)
    <3>1. Cardinality(JobsOf(jobs \cup {j}, p)) = Cardinality(JobsOf(jobs, p)) + Has(j, p)
      BY <2>6, JobAdded DEF PayInv
    <3>2. Has(j, p) = Has(cur[t], p)
      BY <1>1 DEF Has
    <3>3. QED
      BY <3>1, <3>2 DEF AtPool
  <2>8. QED
    BY <2>1, <2>2, <2>3, <2>4, <2>5, <2>7, SMTT(60) DEF Sum
<1>4. QED
  BY <1>2, <1>3, BalanceKept DEF PayInv

LEMMA PoolWorked ==
  ASSUME TypeOK, TypeOK', PayInv, NEW j \in jobs, PoolWork(j)
  PROVE  Balance' /\ IsFiniteSet(jobs')
<1>1. /\ jobs' = jobs \ {j} /\ completed' = Append(completed, j) /\ j \in Msg
      /\ UNCHANGED <<nextPid, inQueue, outQueue, done, cur, mcur, freed>>
  BY DEF PoolWork, queues, worker, main, counters, history, TypeOK, PoolOK
<1>2. IsFiniteSet(jobs')
  BY <1>1, FS_RemoveElement DEF PayInv
<1>3. ASSUME NEW p \in Payload PROVE Sum(p)' = Sum(p)
  <2>1. /\ freed[p] \in Nat /\ AtWorkers(p) \in Nat /\ ToMain(p) \in Nat /\ Detached(p) \in Nat
        /\ Finished(p) \in Nat /\ AtPool(p) \in Nat /\ InHands(p) \in Nat /\ AtMain(p) \in Nat
    BY CountsTyped DEF PayInv
  <2>2. Finished(p)' = Finished(p) + Has(j, p)
    BY <1>1, SlotsAppend DEF Finished, TypeOK, PoolOK
  <2>3. AtPool(p) = AtPool(p)' + Has(j, p)
    BY <1>1, JobTaken DEF AtPool, PayInv
  <2>4. AtPool(p)' \in Nat /\ Has(j, p) \in Nat
    BY <1>2, JobsFinite DEF AtPool, Has
  <2>5. UNCHANGED <<freed[p], AtWorkers(p), ToMain(p), Detached(p), InHands(p), AtMain(p)>>
    BY <1>1, SumSplit
  <2>6. QED
    BY <2>1, <2>2, <2>3, <2>4, <2>5, SMTT(60) DEF Sum
<1>4. QED
  BY <1>1, <1>2, <1>3, BalanceKept DEF PayInv

LEMMA QueueReaped ==
  ASSUME TypeOK, TypeOK', PayInv, NEW t \in Thread, inQueue' = [inQueue EXCEPT ![t] = << >>],
         Release(PidsOf(inQueue[t])),
         UNCHANGED <<nextPid, outQueue, done, completed, jobs, cur, mcur>>
  PROVE  Balance'
<1> DEFINE q == inQueue[t]
<1>1. q \in Seq(Msg) /\ inQueue \in [Thread -> Seq(Msg)]
  BY DEF TypeOK, QueuesOK
<1>2. ASSUME NEW p \in Payload PROVE Sum(p)' = Sum(p)
  <2>1. /\ freed[p] \in Nat /\ AtWorkers(p) \in Nat /\ ToMain(p) \in Nat /\ Detached(p) \in Nat
        /\ Finished(p) \in Nat /\ AtPool(p) \in Nat /\ InHands(p) \in Nat /\ AtMain(p) \in Nat
    BY CountsTyped DEF PayInv
  <2>2. AtWorkers(p) = AtWorkers(p)' + Cardinality(Slots(q, p))
    <3>1. Cardinality(QueueSlots(inQueue, p))
            = Cardinality(QueueSlots([inQueue EXCEPT ![t] = << >>], p)) + Cardinality(Slots(inQueue[t], p))
      BY <1>1, QueueEmptied
    <3>2. QED
      BY <3>1 DEF AtWorkers
  <2>3. AtWorkers(p)' \in Nat
    BY QueueSlotsChange DEF TypeOK, QueuesOK, AtWorkers
  <2>4. Cardinality(Slots(q, p)) \in Nat
    BY <1>1, SlotsFinite
  <2>5. freed'[p] = freed[p] + Cardinality(Slots(q, p))
    <3>1. p \in PidsOf(q) <=> Slots(q, p) # {}
      BY DEF PidsOf, Slots
    <3>2. Cardinality(Slots(q, p)) <= 1
      <4>1. Sum(p) <= 1
        BY DEF PayInv, Balance
      <4> HIDE DEF q
      <4>2. QED
        BY <2>1, <2>2, <2>3, <2>4, <4>1, SMTT(60) DEF Sum
    <3>3. Slots(q, p) # {} <=> Cardinality(Slots(q, p)) # 0
      BY <1>1, SlotsFinite, FS_EmptySet
    <3>4. freed'[p] = freed[p] + (IF p \in PidsOf(q) THEN 1 ELSE 0)
      BY DEF Release
    <3> HIDE DEF q
    <3>5. QED
      BY <2>1, <2>4, <3>1, <3>2, <3>3, <3>4
  <2>6. UNCHANGED <<ToMain(p), Detached(p), Finished(p), AtPool(p), InHands(p), AtMain(p)>>
    BY SumSplit
  <2> HIDE DEF q
  <2>7. QED
    BY <2>1, <2>2, <2>3, <2>4, <2>5, <2>6, SMTT(60) DEF Sum
<1>3. QED
  BY <1>2, BalanceKept DEF PayInv

LEMMA MainReleased ==
  ASSUME TypeOK, TypeOK', PayInv, mcur' = NoMsg, Release({mcur.pid}),
         UNCHANGED <<nextPid, inQueue, outQueue, done, completed, jobs, cur>>
  PROVE  Balance'
<1>1. ASSUME NEW p \in Payload PROVE Sum(p)' = Sum(p)
  <2>1. /\ freed[p] \in Nat /\ AtWorkers(p) \in Nat /\ ToMain(p) \in Nat /\ Detached(p) \in Nat
        /\ Finished(p) \in Nat /\ AtPool(p) \in Nat /\ InHands(p) \in Nat /\ AtMain(p) \in Nat
    BY CountsTyped DEF PayInv
  <2>2. freed'[p] = freed[p] + AtMain(p)
    BY DEF Release, AtMain, Has
  <2>3. AtMain(p)' = 0
    BY DEF AtMain, Has, NoMsg, Payload
  <2>4. UNCHANGED <<AtWorkers(p), ToMain(p), Detached(p), Finished(p), AtPool(p), InHands(p)>>
    BY SumSplit
  <2>5. QED
    BY <2>1, <2>2, <2>3, <2>4, SMTT(60) DEF Sum
<1>2. QED
  BY <1>1, BalanceKept DEF PayInv

LEMMA PoolDetached ==
  ASSUME TypeOK, TypeOK', PayInv, done = << >>, done' = completed, completed' = << >>,
         UNCHANGED <<nextPid, inQueue, outQueue, jobs, cur, mcur, freed>>
  PROVE  Balance'
<1>1. ASSUME NEW p \in Payload PROVE Sum(p)' = Sum(p)
  <2>1. /\ freed[p] \in Nat /\ AtWorkers(p) \in Nat /\ ToMain(p) \in Nat /\ Detached(p) \in Nat
        /\ Finished(p) \in Nat /\ AtPool(p) \in Nat /\ InHands(p) \in Nat /\ AtMain(p) \in Nat
    BY CountsTyped DEF PayInv
  <2>2. Detached(p) = 0 /\ Detached(p)' = Finished(p) /\ Finished(p)' = 0
    BY SlotsEmpty DEF Detached, Finished
  <2>3. UNCHANGED <<freed[p], AtWorkers(p), ToMain(p), AtPool(p), InHands(p), AtMain(p)>>
    BY SumSplit
  <2>4. QED
    BY <2>1, <2>2, <2>3, SMTT(60) DEF Sum
<1>2. QED
  BY <1>1, BalanceKept DEF PayInv

LEMMA QueueDetached ==
  ASSUME TypeOK, TypeOK', PayInv, done = << >>, NEW t \in Thread, done' = outQueue[t],
         outQueue' = [outQueue EXCEPT ![t] = << >>],
         UNCHANGED <<nextPid, inQueue, completed, jobs, cur, mcur, freed>>
  PROVE  Balance'
<1>1. outQueue \in [Thread -> Seq(Msg)]
  BY DEF TypeOK, QueuesOK
<1>2. ASSUME NEW p \in Payload PROVE Sum(p)' = Sum(p)
  <2>1. /\ freed[p] \in Nat /\ AtWorkers(p) \in Nat /\ ToMain(p) \in Nat /\ Detached(p) \in Nat
        /\ Finished(p) \in Nat /\ AtPool(p) \in Nat /\ InHands(p) \in Nat /\ AtMain(p) \in Nat
    BY CountsTyped DEF PayInv
  <2>2. Detached(p) = 0 /\ Detached(p)' = Cardinality(Slots(outQueue[t], p))
    BY SlotsEmpty DEF Detached
  <2>3. ToMain(p) = ToMain(p)' + Detached(p)'
    <3>1. Cardinality(QueueSlots(outQueue, p))
            = Cardinality(QueueSlots([outQueue EXCEPT ![t] = << >>], p)) + Cardinality(Slots(outQueue[t], p))
      BY <1>1, QueueEmptied
    <3>2. QED
      BY <2>2, <3>1 DEF ToMain
  <2>4. ToMain(p)' \in Nat /\ Detached(p)' \in Nat
    <3>1. Detached(p)' \in Nat
      BY <1>1, <2>2, SlotsFinite
    <3>2. ToMain(p)' \in Nat
      BY QueueSlotsChange DEF TypeOK, QueuesOK, ToMain
    <3>3. QED
      BY <3>1, <3>2
  <2>5. UNCHANGED <<freed[p], AtWorkers(p), Finished(p), AtPool(p), InHands(p), AtMain(p)>>
    BY SumSplit
  <2>6. QED
    BY <2>1, <2>2, <2>3, <2>4, <2>5, SMTT(60) DEF Sum
<1>3. QED
  BY <1>2, BalanceKept DEF PayInv

LEMMA HeadDelivered ==
  ASSUME TypeOK, TypeOK', PayInv, done # << >>, done' = Tail(done),
         \/ mcur = NoMsg /\ mcur' = Head(done) /\ UNCHANGED freed
         \/ UNCHANGED mcur /\ Release({Head(done).pid}),
         UNCHANGED <<nextPid, inQueue, outQueue, completed, jobs, cur>>
  PROVE  Balance'
<1>1. done \in Seq(Msg) /\ done' \in Seq(Msg)
  BY DEF TypeOK, MainOK
<1>2. ASSUME NEW p \in Payload PROVE Sum(p)' = Sum(p)
  <2>1. /\ freed[p] \in Nat /\ AtWorkers(p) \in Nat /\ ToMain(p) \in Nat /\ Detached(p) \in Nat
        /\ Finished(p) \in Nat /\ AtPool(p) \in Nat /\ InHands(p) \in Nat /\ AtMain(p) \in Nat
    BY CountsTyped DEF PayInv
  <2>2. Detached(p) = Detached(p)' + Has(Head(done), p)
    BY <1>1, SlotsTail DEF Detached
  <2>3. Detached(p)' \in Nat /\ Has(Head(done), p) \in Nat
    BY <1>1, SlotsFinite DEF Detached, Has
  <2>4. UNCHANGED <<AtWorkers(p), ToMain(p), Finished(p), AtPool(p), InHands(p)>>
    BY SumSplit
  <2>5. CASE mcur = NoMsg /\ mcur' = Head(done) /\ UNCHANGED freed
    <3>1. AtMain(p) = 0 /\ AtMain(p)' = Has(Head(done), p) /\ freed'[p] = freed[p]
      BY <2>5 DEF AtMain, Has, NoMsg, Payload
    <3>2. QED
      BY <2>1, <2>2, <2>3, <2>4, <3>1, SMTT(60) DEF Sum
  <2>6. CASE UNCHANGED mcur /\ Release({Head(done).pid})
    <3>1. AtMain(p)' = AtMain(p) /\ freed'[p] = freed[p] + Has(Head(done), p)
      BY <2>6 DEF AtMain, Release, Has
    <3>2. QED
      BY <2>1, <2>2, <2>3, <2>4, <3>1, SMTT(60) DEF Sum
  <2>7. QED
    BY <2>5, <2>6
<1>3. QED
  BY <1>2, BalanceKept DEF PayInv

LEMMA MainIdleInductive == ASSUME TypeOK, MainIdle, [Next]_vars PROVE MainIdle'
<1> USE MainIsNoThread DEF queues, flags, lists, worker, main, pool, counters, history
<1> DEFINE Loop == {"check", "gather", "deliver"}
<1>1. ASSUME mcur' = mcur, mpc' = mpc \/ mpc' \notin Loop \/ mpc \in Loop PROVE MainIdle'
  BY <1>1 DEF MainIdle
<1>2. ASSUME NEW t \in Thread, WorkerStep(t) \/ SpuriousWakeup(t) \/ PostOutbound(t) PROVE MainIdle'
  <2>1. mcur' = mcur /\ (mpc' = mpc \/ mpc' = "drainCheck")
    BY <1>2 DEF WorkerStep, TryDispatchOne, NoteDispatchFinished, MainAfterBroadcast, Dispatch,
       HandlerReturns, WorkerStops, SpuriousWakeup, PostOutbound
  <2>2. QED
    BY <1>1, <2>1
<1>3. ASSUME NEW a \in Actor, Signal(a) \/ UserCall(a) PROVE MainIdle'
  BY <1>1, <1>3 DEF Signal, UserCall, Post, Reply
<1>4. ASSUME NEW j \in jobs, PoolWork(j) PROVE MainIdle'
  BY <1>1, <1>4 DEF PoolWork
<1>5. ASSUME NEW t \in Thread, Live(t) \/ Drain(t) \/ Kill(t) \/ GiveRequest(t) PROVE MainIdle'
  BY <1>1, <1>5 DEF Live, Drain, Kill, GiveRequest
<1>6. CASE UserReturns
  <2>1. mpc' = "killTest" \/ mcur' = NoMsg
    BY <1>6 DEF UserReturns
  <2>2. QED
    BY <2>1 DEF MainIdle
<1>7. CASE Deliver
  <2>1. mpc' = "user" \/ (mpc' = mpc /\ mcur' = mcur)
    BY <1>7 DEF Deliver
  <2>2. QED
    BY <2>1 DEF MainIdle
<1>8. CASE LoopTop \/ Gather \/ ListDone
  BY <1>1, <1>8 DEF LoopTop, Gather, ListDone
<1>9. CASE WaitDrained \/ KillTest \/ KillSignal \/ Join \/ Reap \/ Close
  BY <1>1, <1>9 DEF WaitDrained, KillTest, KillSignal, Join, Reap, KillReturns, Close
<1>10. CASE UNCHANGED vars
  BY <1>1, <1>10 DEF vars
<1>11. QED
  BY <1>2, <1>3, <1>4, <1>5, <1>6, <1>7, <1>8, <1>9, <1>10 DEF Next, MainStep, LifeCycleCall, Ended

LEMMA FromWorkersInductive ==
  ASSUME TypeOK, LaneInv, FromWorkers, [Next]_vars PROVE FromWorkers'
<1> USE MainIsNoThread DEF queues, flags, lists, worker, main, pool, counters, history
<1>1. ASSUME UNCHANGED <<done, mcur>> PROVE FromWorkers'
  BY <1>1 DEF FromWorkers
<1>2. CASE Deliver
  <2>1. done # << >> /\ done' = Tail(done) /\ (mcur' = mcur \/ mcur' = Head(done)) /\ done \in Seq(Msg)
    BY <1>2 DEF Deliver, TypeOK, MainOK
  <2>2. /\ Len(done') = Len(done) - 1 /\ Len(done) \in Nat /\ Len(done) > 0 /\ Head(done) = done[1]
        /\ \A i \in 1..Len(done') : done'[i] = done[i+1]
    BY <2>1
  <2>3. \A i \in 1..Len(done') : i + 1 \in 1..Len(done)
    BY <2>2
  <2>4. \A i \in 1..Len(done') : done'[i].kind = "ordinary" => done'[i].from # Main
    BY <2>2, <2>3 DEF FromWorkers
  <2>5. mcur'.kind = "ordinary" => mcur'.from # Main
    BY <2>1, <2>2 DEF FromWorkers
  <2>6. QED
    BY <2>4, <2>5 DEF FromWorkers
<1>3. CASE Gather
  <2>1. mcur' = mcur
    BY <1>3 DEF Gather
  <2>2. CASE done' = completed
    <3>1. \A i \in 1..Len(done') : done'[i].kind = "job"
      BY <2>2 DEF LaneInv, Marked
    <3>2. QED
      BY <2>1, <3>1 DEF FromWorkers
  <2>3. CASE at <= Len(Registry) /\ done' = outQueue[Registry[at]]
    <3>1. Registry[at] \in Thread
      BY <2>3, RegistryTyped DEF TypeOK, MainOK
    <3>2. \A i \in 1..Len(done') : done'[i].from = Registry[at]
      BY <2>3, <3>1 DEF LaneInv, Boxes
    <3>3. QED
      BY <2>1, <3>1, <3>2 DEF FromWorkers
  <2>4. CASE done' = done
    BY <1>1, <2>1, <2>4
  <2>5. QED
    BY <1>3, <2>2, <2>3, <2>4 DEF Gather
<1>4. CASE UserReturns
  <2>1. done' = done /\ (mcur' = mcur \/ mcur' = NoMsg)
    BY <1>4 DEF UserReturns
  <2>2. QED
    BY <2>1 DEF FromWorkers, NoMsg
<1>5. ASSUME NEW t \in Thread,
             \/ WorkerStep(t) \/ SpuriousWakeup(t) \/ PostOutbound(t)
             \/ Live(t) \/ Drain(t) \/ Kill(t) \/ GiveRequest(t)
      PROVE  UNCHANGED <<done, mcur>>
  BY <1>5 DEF WorkerStep, TryDispatchOne, Dispatch, HandlerReturns, WorkerStops, SpuriousWakeup,
     PostOutbound, Live, Drain, Kill, GiveRequest
<1>6. ASSUME NEW a \in Actor, Signal(a) \/ UserCall(a) PROVE UNCHANGED <<done, mcur>>
  BY <1>6 DEF Signal, UserCall, Post, Reply
<1>7. ASSUME NEW j \in jobs, PoolWork(j) PROVE UNCHANGED <<done, mcur>>
  BY <1>7 DEF PoolWork
<1>8. ASSUME LoopTop \/ ListDone \/ WaitDrained \/ KillTest \/ KillSignal \/ Join \/ Reap \/ Close
      PROVE  UNCHANGED <<done, mcur>>
  BY <1>8 DEF LoopTop, ListDone, WaitDrained, KillTest, KillSignal, Join, Reap, Close
<1>9. CASE UNCHANGED vars
  BY <1>1, <1>9 DEF vars
<1>10. QED
  BY <1>1, <1>2, <1>3, <1>4, <1>5, <1>6, <1>7, <1>8, <1>9 DEF Next, MainStep, LifeCycleCall, Ended

\* A reply has somewhere to go: main is never asked to answer itself.
LEMMA MainRepliesOut ==
  ASSUME FromWorkers, ScopedOnMain, NEW dest, ReplyTo(Main, dest), replyTxn[Main] # 0
  PROVE  dest # Main
BY DEF FromWorkers, ScopedOnMain, ReplyTo

\* What holds payloads.
holders == <<inQueue, outQueue, done, completed, jobs, cur, mcur, freed>>

\* The steps that move a payload.
LEMMA BalanceMoved ==
  ASSUME TypeOK, TypeOK', PayInv, Working, UsedUp, ScopedOnMain, Next
  PROVE  (Balance' /\ IsFiniteSet(jobs')) \/ UNCHANGED <<holders, nextPid>>
<1> USE MainIsNoThread DEF queues, flags, lists, worker, main, pool, counters, history
<1> DEFINE Moved == Balance' /\ IsFiniteSet(jobs')
<1>1. UNCHANGED jobs => IsFiniteSet(jobs')
  BY DEF PayInv
<1>2. ASSUME NEW kind \in Kinds, NEW from \in Actor, NEW txn \in 0..MaxTxn, Box
      PROVE  Boxed(kind, from, txn) \in Msg /\ Boxed(kind, from, txn).pid = nextPid
  BY <1>2, BoxedTyped DEF Boxed
<1>3. ASSUME NEW a \in Actor, NEW dest \in Actor, NEW onMain \in BOOLEAN, RegisterCallback(a, dest, onMain)
      PROVE  nextTxn \in 0..MaxTxn
  BY <1>3, RegisterTyped, Bounds DEF Txn
<1>4. {"ordinary", "reply", "giveRequest"} \subseteq Kinds /\ 0 \in 0..MaxTxn /\ {TRUE, FALSE} \subseteq BOOLEAN
  BY Bounds DEF Kinds
<1>5. ASSUME NEW a \in Actor, NEW t \in Thread, Post(a, t) PROVE Moved
  <2>1. Box /\ UNCHANGED <<outQueue, done, completed, jobs, cur, mcur, freed>>
    BY <1>5 DEF Post
  <2>2. CASE inQueue' = [inQueue EXCEPT ![t] = Append(@, Boxed("ordinary", Self(a), 0))]
    <3>1. Boxed("ordinary", Self(a), 0) \in Msg /\ Boxed("ordinary", Self(a), 0).pid = nextPid
      BY <1>2, <1>4, <2>1, SelfTyped
    <3>2. QED
      BY <1>1, <2>1, <2>2, <3>1, SentInward
  <2>3. CASE /\ RegisterCallback(a, t, FALSE)
             /\ inQueue' = [inQueue EXCEPT ![t] = Append(@, Boxed("ordinary", a, nextTxn))]
    <3>1. nextTxn \in 0..MaxTxn
      BY <1>3, <1>4, <2>3
    <3>2. Boxed("ordinary", a, nextTxn) \in Msg /\ Boxed("ordinary", a, nextTxn).pid = nextPid
      BY <1>2, <1>4, <2>1, <3>1
    <3>3. QED
      BY <1>1, <2>1, <2>3, <3>2, SentInward
  <2>4. QED
    BY <1>5, <2>2, <2>3 DEF Post, Enqueue
<1>6. ASSUME NEW t \in Thread, PostOutbound(t) PROVE Moved
  <2>1. Box /\ UNCHANGED <<inQueue, done, completed, jobs, cur, mcur, freed>>
    BY <1>6 DEF PostOutbound
  <2>2. CASE outQueue' = [outQueue EXCEPT ![t] = Append(@, Boxed("ordinary", t, 0))]
    <3>1. Boxed("ordinary", t, 0) \in Msg /\ Boxed("ordinary", t, 0).pid = nextPid
      BY <1>2, <1>4, <2>1
    <3>2. QED
      BY <1>1, <2>1, <2>2, <3>1, SentOutward
  <2>3. CASE /\ RegisterCallback(t, Main, TRUE)
             /\ outQueue' = [outQueue EXCEPT ![t] = Append(@, Boxed("ordinary", t, nextTxn))]
    <3>1. nextTxn \in 0..MaxTxn
      BY <1>3, <1>4, <2>3
    <3>2. Boxed("ordinary", t, nextTxn) \in Msg /\ Boxed("ordinary", t, nextTxn).pid = nextPid
      BY <1>2, <1>4, <2>1, <3>1
    <3>3. QED
      BY <1>1, <2>1, <2>3, <3>2, SentOutward
  <2>4. QED
    BY <1>6, <2>2, <2>3 DEF PostOutbound
<1>7. ASSUME NEW a \in Actor, NEW dest \in Actor, Reply(a, dest) PROVE Moved
  <2>1. /\ Box /\ UNCHANGED <<done, completed, jobs, cur, mcur>> /\ replyTxn[a] \in 0..MaxTxn
        /\ ReplyTo(a, dest)
    BY <1>7 DEF Reply, TypeOK, ActorsOK
  <2>2. Boxed("reply", a, replyTxn[a]) \in Msg /\ Boxed("reply", a, replyTxn[a]).pid = nextPid
    BY <1>2, <1>4, <2>1
  <2>3. CASE Release(Dropped(nextPid)) /\ UNCHANGED <<queues, signal>>
    BY <1>1, <2>1, <2>3, SentNowhere DEF Dropped
  <2>4. CASE /\ replyTxn[a] # 0 /\ dest = Main /\ UNCHANGED <<inQueue, signal, freed>>
             /\ outQueue' = [outQueue EXCEPT ![a] = Append(@, Boxed("reply", a, replyTxn[a]))]
    <3>1. a \in Thread
      BY <2>1, <2>4, MainRepliesOut DEF Actor, PayInv
    <3>2. QED
      BY <1>1, <2>1, <2>2, <2>4, <3>1, SentOutward
  <2>5. CASE /\ dest # Main /\ UNCHANGED <<outQueue, freed>>
             /\ inQueue' = [inQueue EXCEPT ![dest] = Append(@, Boxed("reply", a, replyTxn[a]))]
    <3>1. dest \in Thread
      BY <2>5 DEF Actor
    <3>2. QED
      BY <1>1, <2>1, <2>2, <2>5, <3>1, SentInward
  <2>6. QED
    BY <1>7, <2>3, <2>4, <2>5 DEF Reply, Enqueue
<1>8. ASSUME NEW t \in Thread, GiveRequest(t) PROVE Moved
  <2>1. /\ Box /\ UNCHANGED <<outQueue, done, completed, jobs, cur, mcur, freed>>
        /\ inQueue' = [inQueue EXCEPT ![t] = Append(@, Boxed("giveRequest", Main, 0))]
    BY <1>8 DEF GiveRequest, Enqueue
  <2>2. Boxed("giveRequest", Main, 0) \in Msg /\ Boxed("giveRequest", Main, 0).pid = nextPid
    BY <1>2, <1>4, <2>1
  <2>3. QED
    BY <1>1, <2>1, <2>2, SentInward
<1>9. ASSUME NEW t \in Thread, TryDispatchOne(t) PROVE Moved \/ UNCHANGED <<holders, nextPid>>
  <2>1. pc[t] = "look" /\ UNCHANGED <<nextPid, outQueue, done, completed, jobs, mcur, freed>>
    BY <1>9 DEF TryDispatchOne
  <2>2. CASE UNCHANGED <<inQueue, cur>>
    BY <2>1, <2>2 DEF holders
  <2>3. CASE /\ inQueue[t] # << >> /\ cur' = [cur EXCEPT ![t] = Head(inQueue[t])]
             /\ inQueue' = [inQueue EXCEPT ![t] = Tail(@)]
    <3>1. cur[t] = NoMsg
      BY <2>1 DEF Working, InHand
    <3>2. QED
      BY <1>1, <2>1, <2>3, <3>1, TakenInHand
  <2>4. QED
    BY <1>9, <2>2, <2>3 DEF TryDispatchOne
<1>10. ASSUME NEW t \in Thread, Dispatch(t) PROVE Moved \/ UNCHANGED <<holders, nextPid>>
  <2>1. UNCHANGED <<nextPid, inQueue, outQueue, done, completed, mcur>>
    BY <1>10 DEF Dispatch
  <2>2. CASE UNCHANGED <<cur, jobs, freed>>
    BY <2>1, <2>2 DEF holders
  <2>3. CASE /\ cur' = [cur EXCEPT ![t] = NoMsg] /\ Release(Dropped(cur[t].pid)) /\ UNCHANGED jobs
    BY <1>1, <2>1, <2>3, HandReleased DEF Dropped
  <2>4. CASE /\ cur' = [cur EXCEPT ![t] = NoMsg] /\ UNCHANGED freed
             /\ jobs' = jobs \cup {[cur[t] EXCEPT !.kind = "job"]}
    BY <2>1, <2>4, HandMarshaled
  <2>5. QED
    BY <1>10, <2>2, <2>3, <2>4 DEF Dispatch, DispatchReply
<1>11. ASSUME NEW t \in Thread, HandlerReturns(t) PROVE Moved
  <2>1. /\ cur' = [cur EXCEPT ![t] = NoMsg] /\ Release({cur[t].pid})
        /\ UNCHANGED <<nextPid, inQueue, outQueue, done, completed, jobs, mcur>>
    BY <1>11 DEF HandlerReturns
  <2>2. QED
    BY <1>1, <2>1, HandReleased
<1>12. ASSUME NEW j \in jobs, PoolWork(j) PROVE Moved
  BY <1>12, PoolWorked
<1>13. CASE Reap
  <2>1. /\ target \in Thread /\ inQueue' = [inQueue EXCEPT ![target] = << >>]
        /\ Release(PidsOf(inQueue[target]))
        /\ UNCHANGED <<nextPid, outQueue, done, completed, jobs, cur, mcur>>
    BY <1>13 DEF Reap, TypeOK, MainOK
  <2>2. QED
    BY <1>1, <2>1, QueueReaped
<1>14. CASE UserReturns
  <2>1. UNCHANGED <<nextPid, inQueue, outQueue, done, completed, jobs, cur>>
    BY <1>14 DEF UserReturns
  <2>2. \/ UNCHANGED <<mcur, freed>>
        \/ mcur' = NoMsg /\ Release({mcur.pid})
    BY <1>14 DEF UserReturns
  <2>3. CASE UNCHANGED <<mcur, freed>>
    BY <2>1, <2>3 DEF holders
  <2>4. CASE mcur' = NoMsg /\ Release({mcur.pid})
    BY <1>1, <2>1, <2>4, MainReleased
  <2>5. QED
    BY <2>2, <2>3, <2>4
<1>15. CASE Gather
  <2>1. done = << >> /\ UNCHANGED <<nextPid, inQueue, jobs, cur, mcur, freed>>
    BY <1>15 DEF Gather, UsedUp
  <2>2. CASE done' = completed /\ completed' = << >> /\ outQueue' = outQueue
    BY <1>1, <2>1, <2>2, PoolDetached
  <2>3. CASE /\ at <= Len(Registry) /\ done' = outQueue[Registry[at]] /\ completed' = completed
             /\ outQueue' = [outQueue EXCEPT ![Registry[at]] = << >>]
    <3>1. Registry[at] \in Thread
      BY <2>3, RegistryTyped DEF TypeOK, MainOK
    <3>2. QED
      BY <1>1, <2>1, <2>3, <3>1, QueueDetached
  <2>4. CASE UNCHANGED <<done, outQueue, completed>>
    BY <2>1, <2>4 DEF holders
  <2>5. QED
    BY <1>15, <2>2, <2>3, <2>4 DEF Gather
<1>16. CASE Deliver
  <2>1. /\ done # << >> /\ done' = Tail(done) /\ mcur = NoMsg
        /\ UNCHANGED <<nextPid, inQueue, outQueue, completed, jobs, cur>>
    BY <1>16 DEF Deliver, PayInv, MainIdle
  <2>2. \/ mcur' = Head(done) /\ UNCHANGED freed
        \/ UNCHANGED mcur /\ Release({Head(done).pid})
    BY <1>16 DEF Deliver, Dropped
  <2>3. Balance'
    BY <2>1, <2>2, HeadDelivered
  <2>4. QED
    BY <1>1, <2>1, <2>3
<1>17. ASSUME NEW t \in Thread, WorkerStops(t) \/ SpuriousWakeup(t) \/ Live(t) \/ Drain(t) \/ Kill(t)
       PROVE  UNCHANGED <<holders, nextPid>>
  BY <1>17 DEF WorkerStops, SpuriousWakeup, Live, Drain, Kill, holders
<1>18. ASSUME NEW a \in Actor, Signal(a) PROVE UNCHANGED <<holders, nextPid>>
  BY <1>18 DEF Signal, holders
<1>19. ASSUME LoopTop \/ ListDone \/ WaitDrained \/ KillTest \/ KillSignal \/ Join \/ Close
       PROVE  UNCHANGED <<holders, nextPid>>
  BY <1>19 DEF LoopTop, ListDone, WaitDrained, KillTest, KillSignal, Join, Close, holders
<1>20. CASE UNCHANGED vars
  BY <1>20 DEF vars, holders
<1>21. QED
  BY <1>5, <1>6, <1>7, <1>8, <1>9, <1>10, <1>11, <1>12, <1>13, <1>14, <1>15, <1>16, <1>17, <1>18, <1>19, <1>20
  DEF Next, WorkerStep, MainStep, UserCall, LifeCycleCall, Ended

LEMMA PayInductive ==
  ASSUME TypeOK, TypeOK', PayInv, Working, UsedUp, LaneInv, ScopedOnMain, [Next]_vars
  PROVE  PayInv'
<1>1. MainIdle' /\ FromWorkers'
  BY MainIdleInductive, FromWorkersInductive DEF PayInv
<1>2. ASSUME UNCHANGED <<holders, nextPid>> PROVE Balance' /\ IsFiniteSet(jobs')
  <2>1. \A p \in Payload : Sum(p)' = Sum(p)
    BY <1>2, SumStill DEF holders
  <2>2. IsFiniteSet(jobs') /\ nextPid' = nextPid
    BY <1>2 DEF PayInv, holders
  <2>3. QED
    BY <2>1, <2>2, BalanceKept DEF PayInv
<1>3. UNCHANGED vars => UNCHANGED <<holders, nextPid>>
  BY DEF vars, queues, worker, main, pool, counters, history, holders
<1>4. Balance' /\ IsFiniteSet(jobs')
  BY <1>2, <1>3, BalanceMoved
<1>5. QED
  BY <1>1, <1>4 DEF PayInv

LEMMA InitPay == Init => PayInv
<1> SUFFICES ASSUME Init PROVE PayInv
  OBVIOUS
<1>1. IsFiniteSet(jobs) /\ MainIdle /\ FromWorkers
  BY FS_EmptySet DEF Init, MainIdle, FromWorkers, NoMsg
<1>2. ASSUME NEW p \in Payload PROVE Sum(p) = 0
  <2>1. freed[p] = 0 /\ AtMain(p) = 0
    BY DEF Init, AtMain, Has, NoMsg, Payload
  <2>2. QueueSlots(inQueue, p) = {} /\ QueueSlots(outQueue, p) = {}
    BY DEF Init, QueueSlots, Slots
  <2>3. Slots(done, p) = {} /\ Slots(completed, p) = {}
    BY SlotsEmpty DEF Init
  <2>4. JobsOf(jobs, p) = {} /\ Hands(cur, p) = {}
    BY DEF Init, JobsOf, Hands, NoMsg, Payload
  <2>5. Cardinality({}) = 0
    BY FS_EmptySet
  <2>6. AtWorkers(p) = 0 /\ ToMain(p) = 0 /\ Detached(p) = 0 /\ Finished(p) = 0
    BY <2>2, <2>3, <2>5 DEF AtWorkers, ToMain, Detached, Finished
  <2>7. AtPool(p) = 0 /\ InHands(p) = 0
    BY <2>4, <2>5 DEF AtPool, InHands
  <2>8. QED
    BY <2>1, <2>6, <2>7 DEF Sum
<1>3. \A p \in Payload : ~(p < nextPid)
  BY DEF Init, Payload
<1>4. Balance
  BY <1>2, <1>3 DEF Balance
<1>5. QED
  BY <1>1, <1>4 DEF PayInv

\* A boxed payload is in one place until it is released, and is released once: across queues,
\* handlers, marshaled callbacks, dropped replies and kill() nothing is leaked or freed twice
\* (festina_thread_dispatch_reply, festina_thread_free_msg_list, festina_thread_drain_impl).
THEOREM NothingFreedTwice == Spec => []PayloadOwnedOnce
<1>1. Init => ScopedOnMain /\ LaneInv
  <2>1. Init => ScopedOnMain
    BY MainIsNoThread DEF Init, ScopedOnMain
  <2>2. Init => LaneInv
    BY DEF Init, LaneInv, LanesInOrder, Increasing, Boxes, Marked, NoMsg
  <2>3. QED
    BY <2>1, <2>2
<1>2. TypeOK /\ ScopedOnMain /\ [Next]_vars => ScopedOnMain'
  BY ScopedOnMainInductive
<1>3. TypeOK /\ LaneInv /\ [Next]_vars => LaneInv'
  BY LanesInductive
<1>4. FullInv => UsedUp
  BY DEF FullInv, HeldInv
<1>5. TypeOK /\ TypeOK' /\ PayInv /\ Working /\ UsedUp /\ LaneInv /\ ScopedOnMain /\ [Next]_vars => PayInv'
  BY PayInductive
<1>6. TypeOK /\ PayInv => PayloadOwnedOnce
  <2> SUFFICES ASSUME TypeOK, PayInv, NEW p \in 1..nextPid - 1 PROVE freed[p] + Holders(p) = 1
    BY DEF PayloadOwnedOnce
  <2>1. nextPid \in 1..MaxMessages + 1 /\ MaxMessages \in Nat
    BY Bounds DEF TypeOK, CountersOK
  <2>2. p \in Payload /\ p < nextPid
    BY <2>1 DEF Payload
  <2>3. Sum(p) = 1
    BY <2>2 DEF PayInv, Balance
  <2>4. QED
    BY <2>2, <2>3, SumIs DEF PayInv
<1>7. QED
  BY <1>1, <1>2, <1>3, <1>4, <1>5, <1>6, InitPay, TypeCorrect, WorkingInvariant, FullInvariant, PTL DEF Spec

=============================================================================
