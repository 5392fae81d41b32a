------------------------ MODULE CallbackPools_proofs ------------------------
(***************************************************************************)
(* Proofs about CallbackPools, for every number of jobs, workers and       *)
(* dispatchers: its types, that each pool implements JobPool, and that the *)
(* counters the loop trusts are exact.                                     *)
(***************************************************************************)
EXTENDS CallbackPools, SequenceTheorems, FiniteSetTheorems, TLAPS

(***************************************************************************)
(* Lists.                                                                  *)
(***************************************************************************)

LEMMA MembersAppend ==
  ASSUME NEW S, NEW l \in Seq(S), NEW j \in S
  PROVE  /\ Append(l, j) \in Seq(S)
         /\ Members(Append(l, j)) = Members(l) \cup {j}
<1> DEFINE a == Append(l, j)
<1>1. /\ a \in Seq(S) /\ Len(a) = Len(l) + 1 /\ a[Len(l) + 1] = j
      /\ \A i \in 1..Len(l) : a[i] = l[i]
  BY AppendProperties
<1>2. Len(l) \in Nat
  OBVIOUS
<1> HIDE DEF a
<1>3. Members(a) = Members(l) \cup {j}
  BY <1>1, <1>2 DEF Members
<1> QED
  BY <1>1, <1>3 DEF a

LEMMA MembersTail ==
  ASSUME NEW S, NEW l \in Seq(S), l # << >>
  PROVE  /\ Head(l) \in S /\ Tail(l) \in Seq(S)
         /\ Head(l) \in Members(l)
         /\ Members(l) = Members(Tail(l)) \cup {Head(l)}
<1> DEFINE r == Tail(l)
<1>1. /\ Head(l) \in S /\ r \in Seq(S) /\ Len(r) = Len(l) - 1
      /\ \A i \in 1..Len(r) : r[i] = l[i + 1]
  BY HeadTailProperties
<1>2. Len(l) \in Nat \ {0} /\ Head(l) = l[1]
  BY EmptySeq
<1> HIDE DEF r
<1>3. ASSUME NEW i \in 1..Len(l) PROVE l[i] \in Members(r) \cup {l[1]}
  <2>1. CASE i = 1
    BY <2>1
  <2>2. CASE i # 1
    <3>1. i - 1 \in 1..Len(r) /\ r[i - 1] = l[i]
      BY <1>1, <1>2, <2>2
    <3>2. QED
      BY <3>1 DEF Members
  <2>3. QED
    BY <2>1, <2>2
<1>4. ASSUME NEW i \in 1..Len(r) PROVE r[i] \in Members(l)
  <2>1. i + 1 \in 1..Len(l) /\ r[i] = l[i + 1]
    BY <1>1, <1>2
  <2>2. QED
    BY <2>1 DEF Members
<1>5. l[1] \in Members(l)
  BY <1>2 DEF Members
<1>6. Members(l) = Members(r) \cup {l[1]}
  BY <1>3, <1>4, <1>5 DEF Members
<1> QED
  BY <1>1, <1>2, <1>5, <1>6 DEF r

\* No job is twice in a list.
Once(l) == \A i, k \in 1..Len(l) : l[i] = l[k] => i = k

LEMMA OnceAppend ==
  ASSUME NEW S, NEW l \in Seq(S), NEW j \in S, Once(l), j \notin Members(l)
  PROVE  Once(Append(l, j))
<1> DEFINE a == Append(l, j)
<1>1. /\ Len(a) = Len(l) + 1 /\ a[Len(l) + 1] = j
      /\ \A i \in 1..Len(l) : a[i] = l[i]
  BY AppendProperties
<1>2. Len(l) \in Nat
  OBVIOUS
<1> HIDE DEF a
<1>3. \A i \in 1..Len(l) : l[i] # j
  BY DEF Members
<1>4. Once(a)
  BY <1>1, <1>2, <1>3 DEF Once
<1> QED
  BY <1>4 DEF a

LEMMA OnceTail ==
  ASSUME NEW S, NEW l \in Seq(S), l # << >>, Once(l)
  PROVE  Once(Tail(l)) /\ Head(l) \notin Members(Tail(l))
<1> DEFINE r == Tail(l)
<1>1. /\ r \in Seq(S) /\ Len(r) = Len(l) - 1
      /\ \A i \in 1..Len(r) : r[i] = l[i + 1]
  BY HeadTailProperties
<1>2. Len(l) \in Nat \ {0} /\ Head(l) = l[1]
  BY EmptySeq
<1> HIDE DEF r
<1>3. Once(r)
  BY <1>1, <1>2 DEF Once
<1>4. \A i \in 1..Len(r) : r[i] # l[1]
  BY <1>1, <1>2 DEF Once
<1> QED
  BY <1>2, <1>3, <1>4 DEF r, Members

LEMMA AppendRight ==
  ASSUME NEW S, NEW b \in Seq(S), NEW f \in Seq(S), NEW j \in S
  PROVE  b \o Append(f, j) = Append(b \o f, j)
<1>1. Append(f, j) = f \o <<j>> /\ <<j>> \in Seq(S)
  BY AppendIsConcat
<1>2. b \o f \in Seq(S)
  BY ConcatProperties
<1>3. Append(b \o f, j) = (b \o f) \o <<j>>
  BY <1>2, AppendIsConcat
<1> QED
  BY <1>1, <1>3, ConcatAssociative

LEMMA TailLeft ==
  ASSUME NEW S, NEW b \in Seq(S), NEW f \in Seq(S), b # << >>
  PROVE  /\ b \o f # << >>
         /\ Head(b \o f) = Head(b)
         /\ Tail(b) \o f = Tail(b \o f)
<1> DEFINE c == b \o f
           r == Tail(b)
<1>1. /\ c \in Seq(S) /\ Len(c) = Len(b) + Len(f)
      /\ \A i \in 1..Len(b) + Len(f) : c[i] = IF i <= Len(b) THEN b[i] ELSE f[i - Len(b)]
  BY ConcatProperties
<1>2. Len(b) \in Nat \ {0} /\ Len(f) \in Nat
  BY EmptySeq
<1>3. c # << >>
  BY <1>1, <1>2
<1>4. Head(c) = Head(b)
  BY <1>1, <1>2
<1>5. /\ Tail(c) \in Seq(S) /\ Len(Tail(c)) = Len(c) - 1
      /\ \A i \in 1..Len(Tail(c)) : Tail(c)[i] = c[i + 1]
  BY <1>1, <1>3, HeadTailProperties
<1>6. /\ r \in Seq(S) /\ Len(r) = Len(b) - 1
      /\ \A i \in 1..Len(r) : r[i] = b[i + 1]
  BY HeadTailProperties
<1>7. /\ r \o f \in Seq(S) /\ Len(r \o f) = Len(r) + Len(f)
      /\ \A i \in 1..Len(r) + Len(f) : (r \o f)[i] = IF i <= Len(r) THEN r[i] ELSE f[i - Len(r)]
  BY <1>6, ConcatProperties
<1>8. Len(r \o f) = Len(Tail(c))
  BY <1>1, <1>2, <1>5, <1>6, <1>7
<1> DEFINE d == r \o f
           e == Tail(c)
<1> HIDE DEF c, r, d, e
<1>9. ASSUME NEW i \in 1..Len(d) PROVE d[i] = e[i]
  BY <1>1, <1>2, <1>5, <1>6, <1>7, <1>8, <1>9 DEF d, e
<1>10. d = e
  BY <1>5, <1>7, <1>8, <1>9, SeqEqual DEF d, e
<1> QED
  BY <1>3, <1>4, <1>10 DEF c, d, e, r

(***************************************************************************)
(* Types.  How far outstanding may fall needs the counting of the last     *)
(* part: here it is an integer.                                            *)
(***************************************************************************)

LEMMA JobsAndPools ==
  /\ \A p \in Pool : JobsOf(p) \subseteq Job
  /\ \A j \in Job : PoolOf(j) \in Pool /\ j \in JobsOf(PoolOf(j))
  /\ \A p \in Pool : \A j \in JobsOf(p) : PoolOf(j) = p
  /\ NoJob \notin Job /\ Main \in Dispatcher /\ Main \notin Peer
BY PoolAssumption DEF Pool, JobsOf, PoolOf, Job, Dispatcher

DispatchersTyped == dpc \in [Dispatcher -> DispPc] /\ djob \in [Dispatcher -> Job \cup {NoJob}]
WorkersTyped == wpc \in [Pool -> [Worker -> WorkerPc]] /\ wjob \in [Pool -> [Worker -> Job \cup {NoJob}]]
ListsTyped   == queue \in [Pool -> Seq(Job)] /\ finished \in [Pool -> Seq(Job)] /\ batch \in Seq(Job)
LoopTyped    == /\ mpc \in MainPc /\ side \in Pool
                /\ watching \in BOOLEAN /\ bounded \in BOOLEAN /\ threads \in BOOLEAN
FlagsTyped   == /\ started \in [Pool -> BOOLEAN] /\ pipeOpen \in BOOLEAN /\ pipe \in Nat
                /\ outstanding \in [Pool -> Int]
HistoryTyped == used \in SUBSET Job /\ delivered \in SUBSET Job

\* A dispatcher in a send has its job; a worker has one exactly while it works.
JobInHand ==
  /\ \A a \in Dispatcher : dpc[a] # "idle" => djob[a] \in Job
  /\ \A p \in Pool, w \in Worker : wpc[p][w] = "work" <=> wjob[p][w] # NoJob

Typed ==
  /\ DispatchersTyped /\ WorkersTyped /\ ListsTyped /\ LoopTyped /\ FlagsTyped /\ HistoryTyped
  /\ JobInHand

LEMMA TypedInit == Init => Typed
<1> SUFFICES ASSUME Init PROVE Typed
  OBVIOUS
<1> USE JobsAndPools DEF Init
<1>1. ListsTyped
  <2>1. << >> \in Seq(Job)
    OBVIOUS
  <2>2. QED
    BY <2>1 DEF ListsTyped
<1>2. DispatchersTyped /\ WorkersTyped /\ JobInHand
  BY DEF DispatchersTyped, WorkersTyped, JobInHand, DispPc, WorkerPc
<1>3. LoopTyped
  <2>1. threads \in BOOLEAN
    BY Zenon
  <2>2. QED
    BY <2>1 DEF LoopTyped, MainPc, UserPc, Pool
<1>4. FlagsTyped /\ HistoryTyped
  <2>1. started \in [Pool -> BOOLEAN] /\ pipeOpen \in BOOLEAN
    BY Zenon
  <2>2. outstanding \in [Pool -> Int] /\ pipe \in Nat
    OBVIOUS
  <2>3. QED
    BY <2>1, <2>2 DEF FlagsTyped, HistoryTyped
<1> QED
  BY <1>1, <1>2, <1>3, <1>4 DEF Typed

LEMMA TypedDispatch ==
  ASSUME Typed, NEW a \in Dispatcher, DispatchStep(a) \/ \E j \in Job : Send(a, j)
  PROVE  Typed'
<1> USE JobsAndPools DEF Typed, DispatchersTyped, WorkersTyped, ListsTyped, LoopTyped, FlagsTyped,
                        HistoryTyped, JobInHand, pools, workers, wake, loop
<1>1. ASSUME NEW j \in Job, Send(a, j) PROVE Typed'
  BY <1>1 DEF Send, DispPc
<1>2. dpc[a] # "idle" => djob[a] \in Job /\ P(a) \in Pool
  BY DEF P
<1>3. CASE EnsurePool(a)
  BY <1>2, <1>3 DEF EnsurePool, DispPc
<1>4. CASE OpenPipe(a)
  BY <1>4 DEF OpenPipe, DispPc
<1>5. CASE Spawn(a)
  <2>1. P(a) \in Pool
    BY <1>2, <1>5 DEF Spawn
  <2>2. WorkersOf(P(a)) \subseteq Worker
    BY <2>1 DEF WorkersOf, Worker
  <2>3. /\ \/ wpc' = wpc /\ dpc' = [dpc EXCEPT ![a] = "enqueue"]
           \/ dpc' = dpc /\ \E w \in Worker : wpc[P(a)][w] = "unborn" /\ wpc' = [wpc EXCEPT ![P(a)][w] = "test"]
        /\ UNCHANGED <<pools, wjob, wake, djob, loop, threads, used, delivered>>
        /\ dpc[a] = "spawn"
    BY <1>5, <2>2 DEF Spawn
  <2>4. CASE wpc' = wpc /\ dpc' = [dpc EXCEPT ![a] = "enqueue"]
    BY <2>3, <2>4 DEF DispPc
  <2>5. ASSUME NEW w \in Worker, dpc' = dpc, wpc[P(a)][w] = "unborn",
               wpc' = [wpc EXCEPT ![P(a)][w] = "test"]
        PROVE  Typed'
    <3>1. WorkersTyped'
      BY <2>1, <2>3, <2>5 DEF WorkerPc
    <3>2. JobInHand'
      BY <2>1, <2>3, <2>5 DEF WorkerPc
    <3>3. QED
      BY <2>3, <2>5, <3>1, <3>2
  <2>6. QED
    BY <2>3, <2>4, <2>5
<1>6. CASE Enqueue(a)
  <2>1. P(a) \in Pool /\ djob[a] \in Job
    BY <1>2, <1>6 DEF Enqueue
  <2>2. Append(queue[P(a)], djob[a]) \in Seq(Job)
    BY <2>1, MembersAppend
  <2>3. ListsTyped'
    BY <1>6, <2>1, <2>2 DEF Enqueue
  <2>4. FlagsTyped' /\ DispatchersTyped' /\ JobInHand'
    BY <1>6, <2>1 DEF Enqueue, DispPc
  <2>5. QED
    BY <1>6, <2>3, <2>4 DEF Enqueue
<1>7. CASE SignalWork(a)
  <2>1. P(a) \in Pool
    BY <1>2, <1>7 DEF SignalWork
  <2>2. /\ wpc' = wpc \/ \E w \in Worker : wpc[P(a)][w] = "wait" /\ wpc' = [wpc EXCEPT ![P(a)][w] = "test"]
        /\ dpc' = [dpc EXCEPT ![a] = "idle"] /\ djob' = [djob EXCEPT ![a] = NoJob]
        /\ UNCHANGED <<pools, wjob, wake, loop, threads, used, delivered>>
    BY <1>7 DEF SignalWork, Wakes
  <2>3. DispatchersTyped'
    BY <2>2 DEF DispPc
  <2>4. WorkersTyped' /\ (\A q \in Pool, w \in Worker : wpc'[q][w] = "work" <=> wjob'[q][w] # NoJob)
    <3>1. CASE wpc' = wpc
      BY <2>2, <3>1
    <3>2. ASSUME NEW w \in Worker, wpc[P(a)][w] = "wait", wpc' = [wpc EXCEPT ![P(a)][w] = "test"]
          PROVE  WorkersTyped' /\ (\A q \in Pool, v \in Worker : wpc'[q][v] = "work" <=> wjob'[q][v] # NoJob)
      BY <2>1, <2>2, <3>2 DEF WorkerPc
    <3>3. QED
      BY <2>2, <3>1, <3>2
  <2>5. \A b \in Dispatcher : dpc'[b] # "idle" => djob'[b] \in Job
    BY <2>2
  <2>6. QED
    BY <2>2, <2>3, <2>4, <2>5
<1> QED
  BY <1>1, <1>3, <1>4, <1>5, <1>6, <1>7 DEF DispatchStep

LEMMA TypedWorker ==
  ASSUME Typed, NEW p \in Pool, NEW w \in Worker, WorkerStep(p, w) \/ SpuriousWakeup(p, w)
  PROVE  Typed'
<1> USE JobsAndPools DEF Typed, DispatchersTyped, WorkersTyped, ListsTyped, LoopTyped, FlagsTyped,
                        HistoryTyped, JobInHand, dispatcher, pools, wake, loop
<1>1. CASE Take(p, w)
  <2>1. CASE queue[p] = << >>
    <3>1. /\ wpc[p][w] = "test" /\ wpc' = [wpc EXCEPT ![p][w] = "wait"]
          /\ UNCHANGED <<queue, wjob, finished, outstanding, started, wake, dispatcher, loop, threads,
                         used, delivered>>
      BY <1>1, <2>1 DEF Take
    <3>2. WorkersTyped' /\ JobInHand'
      BY <3>1 DEF WorkerPc
    <3>3. QED
      BY <3>1, <3>2
  <2>2. CASE queue[p] # << >>
    <3>1. Head(queue[p]) \in Job /\ Tail(queue[p]) \in Seq(Job)
      BY <2>2, MembersTail
    <3>2. /\ wpc[p][w] = "test" /\ wpc' = [wpc EXCEPT ![p][w] = "work"]
          /\ wjob' = [wjob EXCEPT ![p][w] = Head(queue[p])]
          /\ queue' = [queue EXCEPT ![p] = Tail(queue[p])]
          /\ UNCHANGED <<finished, outstanding, started, wake, dispatcher, loop, threads, used, delivered>>
      BY <1>1, <2>2 DEF Take
    <3>3. WorkersTyped' /\ JobInHand'
      BY <3>1, <3>2, SMTT(30) DEF WorkerPc
    <3>4. ListsTyped'
      BY <3>1, <3>2
    <3>5. QED
      BY <3>2, <3>3, <3>4
  <2>3. QED
    BY <2>1, <2>2
<1>2. CASE SpuriousWakeup(p, w)
  BY <1>2 DEF SpuriousWakeup, WorkerPc
<1>3. CASE Finish(p, w)
  <2>1. wjob[p][w] \in Job
    BY <1>3 DEF Finish
  <2>2. Append(finished[p], wjob[p][w]) \in Seq(Job)
    BY <2>1, MembersAppend
  <2>3. ListsTyped'
    BY <1>3, <2>2 DEF Finish, Listed
  <2>4. WorkersTyped' /\ JobInHand'
    BY <1>3 DEF Finish, WorkerPc
  <2>5. QED
    BY <1>3, <2>3, <2>4 DEF Finish
<1>4. CASE p = "http" /\ WriteWake(w)
  BY <1>4 DEF WriteWake, WorkerPc
<1> QED
  BY <1>1, <1>2, <1>3, <1>4 DEF WorkerStep

LEMMA TypedMain ==
  ASSUME Typed, MainStep \/ OtherEvent \/ KillThreads
  PROVE  Typed'
<1> USE DEF Typed, DispatchersTyped, WorkersTyped, ListsTyped, LoopTyped, FlagsTyped,
            HistoryTyped, JobInHand, dispatcher, workers, pools, wake, loop, MainPc, UserPc, Pool
<1>1. CASE BuildPollSet
  BY <1>1 DEF BuildPollSet, TimeoutBound
<1>2. CASE PollReturns \/ OtherEvent
  BY <1>2 DEF PollReturns, OtherEvent
<1>3. CASE UserReturns
  BY <1>3 DEF UserReturns, Runs
<1>4. CASE Detach
  <2>1. finished[side] \in Seq(Job) /\ << >> \in Seq(Job)
    OBVIOUS
  <2>2. /\ (batch' = batch \/ batch' = finished[side])
        /\ (finished' = finished \/ finished' = [finished EXCEPT ![side] = << >>])
        /\ queue' = queue
    BY <1>4 DEF Detach
  <2>4. ListsTyped'
    <3>1. queue' \in [Pool -> Seq(Job)]
      BY <2>2
    <3>2. batch' \in Seq(Job)
      BY <2>1, <2>2
    <3>3. CASE finished' = finished
      BY <3>1, <3>2, <3>3
    <3>4. CASE finished' = [finished EXCEPT ![side] = << >>]
      <4>1. finished' \in [Pool -> Seq(Job)]
        BY <2>1, <3>4
      <4>2. QED
        BY <3>1, <3>2, <4>1
    <3>5. QED
      BY <2>2, <3>3, <3>4
  <2>3. /\ UNCHANGED <<outstanding, started, workers, wake, dispatcher, watching, bounded, threads,
                       used, delivered>>
        /\ mpc' \in {"drain", "inbox", "read", "deliver"} /\ side' \in Pool
    BY <1>4 DEF Detach, NextSide
  <2>5. LoopTyped'
    BY <2>3
  <2>6. FlagsTyped' /\ HistoryTyped' /\ DispatchersTyped' /\ WorkersTyped' /\ JobInHand'
    BY <2>3
  <2>7. QED
    BY <2>4, <2>5, <2>6
<1>5. CASE ReadPipe
  BY <1>5 DEF ReadPipe
<1>6. CASE Deliver
  <2>1. batch # << >> => Head(batch) \in Job /\ Tail(batch) \in Seq(Job)
    BY MembersTail
  <2>2. QED
    BY <1>6, <2>1 DEF Deliver, NextSide, RestOf
<1>7. CASE KillThreads
  BY <1>7 DEF KillThreads
<1> QED
  BY <1>1, <1>2, <1>3, <1>4, <1>5, <1>6, <1>7 DEF MainStep

LEMMA TypedStep == Typed /\ [Next]_vars => Typed'
<1>1. ASSUME Typed, UNCHANGED vars PROVE Typed'
  BY <1>1 DEF Typed, DispatchersTyped, WorkersTyped, ListsTyped, LoopTyped, FlagsTyped, HistoryTyped,
              JobInHand, vars, dispatcher, workers, pools, wake, loop
<1> QED
  BY <1>1, TypedDispatch, TypedWorker, TypedMain DEF Next, Ended

(***************************************************************************)
(* The steps that move a job.  Main holds a batch only between detaching   *)
(* it and its last callback, so that it changes sides with none in hand.   *)
(***************************************************************************)

Between == mpc \notin {"read", "deliver", "callback"} => batch = << >>

\* The job of this dispatcher is not on a queue yet.
Before == {"ensure", "pipe", "spawn", "enqueue"}

\* A callback of pool p is running.
Calling(p) == IF mpc = "callback" /\ side = p THEN 1 ELSE 0

Quiet ==
  /\ UNCHANGED <<queue, finished, wjob, delivered, used, outstanding>>
  /\ \A p \in Pool : BatchOf(p)' = BatchOf(p) /\ Calling(p)' = Calling(p)
  /\ \A a \in Dispatcher : dpc'[a] \in Before => dpc[a] \in Before /\ djob'[a] = djob[a]

LEMMA BetweenStep == Typed /\ Between /\ [Next]_vars => Between'
<1> SUFFICES ASSUME Typed, Between, [Next]_vars PROVE Between'
  OBVIOUS
<1> USE DEF Between, pools, workers, wake, dispatcher, loop
<1>1. ASSUME NEW a \in Dispatcher, DispatchStep(a) \/ \E j \in Job : Send(a, j) PROVE Between'
  BY <1>1 DEF DispatchStep, Send, EnsurePool, OpenPipe, Spawn, Enqueue, SignalWork
<1>2. ASSUME NEW p \in Pool, NEW w \in Worker, WorkerStep(p, w) \/ SpuriousWakeup(p, w) PROVE Between'
  BY <1>2 DEF WorkerStep, Take, Finish, WriteWake, SpuriousWakeup
<1>3. CASE BuildPollSet \/ PollReturns \/ OtherEvent \/ ReadPipe \/ KillThreads
  BY <1>3 DEF BuildPollSet, PollReturns, OtherEvent, ReadPipe, KillThreads
<1>4. CASE UserReturns
  <2>1. batch' = batch /\ (mpc = "callback" => mpc' = "deliver") /\ mpc \in UserPc
    BY <1>4 DEF UserReturns, Runs
  <2>2. QED
    BY <2>1 DEF UserPc
<1>5. CASE Detach
  BY <1>5 DEF Detach, NextSide
<1>6. CASE Deliver
  BY <1>6 DEF Deliver, NextSide
<1>7. CASE UNCHANGED vars
  BY <1>7 DEF vars
<1> QED
  BY <1>1, <1>2, <1>3, <1>4, <1>5, <1>6, <1>7 DEF Next, MainStep, Ended

LEMMA QuietDispatch ==
  ASSUME Typed, NEW a \in Dispatcher, EnsurePool(a) \/ OpenPipe(a) \/ Spawn(a) \/ SignalWork(a)
  PROVE  Quiet
<1>1. UNCHANGED <<queue, finished, wjob, delivered, used, outstanding, mpc, side, batch>>
  BY DEF EnsurePool, OpenPipe, Spawn, SignalWork, pools, workers, loop
<1>2. \A b \in Dispatcher : dpc'[b] \in Before => dpc[b] \in Before /\ djob'[b] = djob[b]
  <2> USE DEF Typed, DispatchersTyped, Before
  <2>1. CASE EnsurePool(a)
    BY <2>1 DEF EnsurePool
  <2>2. CASE OpenPipe(a)
    BY <2>2 DEF OpenPipe
  <2>3. CASE Spawn(a)
    BY <2>3 DEF Spawn
  <2>4. CASE SignalWork(a)
    BY <2>4 DEF SignalWork
  <2>5. QED
    BY <2>1, <2>2, <2>3, <2>4
<1> QED
  BY <1>1, <1>2 DEF Quiet, BatchOf, Calling

LEMMA QuietWorker ==
  ASSUME NEW p \in Pool, NEW w \in Worker,
         \/ Take(p, w) /\ queue[p] = << >>
         \/ WriteWake(w)
         \/ SpuriousWakeup(p, w)
  PROVE  Quiet
<1>1. UNCHANGED <<queue, finished, wjob, delivered, used, outstanding, mpc, side, batch, dpc, djob>>
  BY DEF Take, WriteWake, SpuriousWakeup, pools, loop, dispatcher
<1> QED
  BY <1>1 DEF Quiet, BatchOf, Calling

LEMMA QuietMain ==
  ASSUME Typed, Between,
         \/ BuildPollSet \/ PollReturns \/ OtherEvent \/ ReadPipe \/ KillThreads
         \/ UserReturns /\ mpc # "callback"
         \/ Detach /\ ~started[side]
         \/ Deliver /\ batch = << >>
  PROVE  Quiet
<1> USE DEF Between, pools, loop, dispatcher
<1>1. CASE BuildPollSet \/ PollReturns \/ OtherEvent \/ ReadPipe \/ KillThreads
  <2>1. /\ UNCHANGED <<queue, finished, wjob, delivered, used, outstanding, side, batch, dpc, djob>>
        /\ (mpc # "callback" /\ mpc' # "callback") \/ mpc' = mpc
    BY <1>1 DEF BuildPollSet, PollReturns, OtherEvent, ReadPipe, KillThreads, workers
  <2>2. QED
    BY <2>1 DEF Quiet, BatchOf, Calling
<1>2. CASE UserReturns /\ mpc # "callback"
  <2>1. mpc \in UserPc /\ mpc' # "callback"
    BY <1>2 DEF UserReturns, Runs
  <2>2. batch = << >> /\ batch' = << >>
    BY <1>2, <2>1 DEF UserReturns, UserPc
  <2>3. outstanding' = outstanding
    BY <1>2 DEF UserReturns, Typed, FlagsTyped
  <2>4. UNCHANGED <<queue, finished, wjob, delivered, used, dpc, djob>>
    BY <1>2 DEF UserReturns, workers
  <2>5. QED
    BY <1>2, <2>1, <2>2, <2>3, <2>4 DEF Quiet, BatchOf, Calling
<1>3. CASE (Detach /\ ~started[side]) \/ (Deliver /\ batch = << >>)
  <2>1. /\ UNCHANGED <<queue, finished, wjob, delivered, used, outstanding, dpc, djob>>
        /\ mpc # "callback" /\ mpc' # "callback"
        /\ batch = << >> /\ batch' = << >>
    BY <1>3 DEF Detach, Deliver, NextSide, workers
  <2>2. QED
    BY <2>1 DEF Quiet, BatchOf, Calling
<1> QED
  BY <1>1, <1>2, <1>3

\* What a step does to the jobs.
LEMMA Kinds ==
  ASSUME Typed, Between, [Next]_vars
  PROVE  \/ Quiet
         \/ \E a \in Dispatcher, j \in Job : Send(a, j)
         \/ \E a \in Dispatcher : Enqueue(a)
         \/ \E p \in Pool, w \in Worker : Take(p, w) /\ queue[p] # << >>
         \/ \E p \in Pool, w \in Worker : Finish(p, w)
         \/ Detach /\ started[side]
         \/ Deliver /\ batch # << >>
         \/ UserReturns /\ mpc = "callback"
<1>1. CASE UNCHANGED vars
  <2>1. UNCHANGED <<queue, finished, wjob, delivered, used, outstanding, mpc, side, batch, dpc, djob>>
    BY <1>1 DEF vars, pools, workers, dispatcher, loop
  <2>2. QED
    BY <2>1 DEF Quiet, BatchOf, Calling
<1>2. ASSUME NEW a \in Dispatcher, DispatchStep(a) PROVE Quiet \/ Enqueue(a)
  BY <1>2, QuietDispatch DEF DispatchStep
<1>3. ASSUME NEW p \in Pool, NEW w \in Worker, WorkerStep(p, w) \/ SpuriousWakeup(p, w)
      PROVE  Quiet \/ (Take(p, w) /\ queue[p] # << >>) \/ Finish(p, w)
  BY <1>3, QuietWorker DEF WorkerStep
<1>4. ASSUME MainStep \/ OtherEvent \/ KillThreads
      PROVE  \/ Quiet
             \/ Detach /\ started[side]
             \/ Deliver /\ batch # << >>
             \/ UserReturns /\ mpc = "callback"
  BY <1>4, QuietMain DEF MainStep
<1> QED
  BY <1>1, <1>2, <1>3, <1>4 DEF Next, Ended

(***************************************************************************)
(* Where the jobs are.                                                     *)
(***************************************************************************)

\* A pool only holds its own jobs.
Sorted ==
  \A p \in Pool :
    /\ queue[p] \in Seq(JobsOf(p)) /\ finished[p] \in Seq(JobsOf(p)) /\ BatchOf(p) \in Seq(JobsOf(p))
    /\ \A w \in Worker : wjob[p][w] \in JobsOf(p) \cup {NoJob}

\* No job is twice in a queue, with two workers, or in a queue and with one.
Distinct ==
  \A p \in Pool :
    /\ Once(queue[p])
    /\ \A w \in Worker : wjob[p][w] # NoJob =>
         /\ wjob[p][w] \notin Members(queue[p])
         /\ \A v \in Worker : v # w => wjob[p][v] # wjob[p][w]

\* The jobs a pool has been given.
Held(p) == Pending(p) \cup Members(Ready(p)) \cup Delivered(p)

Known == \A p \in Pool : Held(p) \subseteq used

\* A job on its way to a pool is nowhere else.
Fresh ==
  \A a \in Dispatcher : dpc[a] \in Before =>
    /\ djob[a] \in used /\ djob[a] \notin Held(P(a))
    /\ \A b \in Dispatcher : b # a /\ dpc[b] \in Before => djob[b] # djob[a]

IInv == Typed /\ Between /\ Sorted /\ Distinct /\ Known /\ Fresh

LEMMA IInvInit == Init => IInv
<1> SUFFICES ASSUME Init PROVE IInv
  OBVIOUS
<1>1. Typed
  BY TypedInit
<1>2. Between /\ Sorted
  <2>1. \A S : << >> \in Seq(S)
    OBVIOUS
  <2>2. QED
    BY <2>1 DEF Init, Between, Sorted, BatchOf
<1>3. Members(<< >>) = {}
  BY DEF Members
<1>4. Distinct
  <2>1. Once(<< >>)
    BY DEF Once
  <2>2. QED
    BY <2>1 DEF Init, Distinct
<1>5. \A p \in Pool : Held(p) = {}
  <2>1. TAKE p \in Pool
  <2>2. Working(p) = {} /\ queue[p] = << >> /\ finished[p] = << >> /\ batch = << >> /\ delivered = {}
    BY DEF Init, Working
  <2>3. Ready(p) = << >>
    BY <2>2 DEF Ready, BatchOf
  <2>4. QED
    BY <1>3, <2>2, <2>3 DEF Held, Pending, Delivered
<1>6. Known
  BY <1>5 DEF Known
<1>7. Fresh
  BY DEF Init, Fresh, Before
<1> QED
  BY <1>1, <1>2, <1>4, <1>6, <1>7 DEF IInv

\* What each kind of step does to a pool as its user sees it.

LEMMA InHandTyped ==
  ASSUME Typed
  PROVE  \A a \in Dispatcher : dpc[a] # "idle" =>
           djob[a] \in Job /\ P(a) \in Pool /\ djob[a] \in JobsOf(P(a))
BY JobsAndPools DEF Typed, JobInHand, P

LEMMA PoolsApart == \A p, q \in Pool : p # q => JobsOf(p) \cap JobsOf(q) = {}
BY PoolAssumption DEF Pool, JobsOf

LEMMA EnqueueEffect ==
  ASSUME IInv, NEW a \in Dispatcher, Enqueue(a), NEW q \in Pool
  PROVE  /\ P(a) \in Pool /\ djob[a] \in JobsOf(P(a))
         /\ queue'[q] = IF q = P(a) THEN Append(queue[q], djob[a]) ELSE queue[q]
         /\ Pending(q)' = IF q = P(a) THEN Pending(q) \cup {djob[a]} ELSE Pending(q)
         /\ Ready(q)' = Ready(q)
         /\ Delivered(q)' = Delivered(q)
<1>1. P(a) \in Pool /\ djob[a] \in JobsOf(P(a))
  BY InHandTyped DEF Enqueue, IInv
<1>2. queue'[q] = IF q = P(a) THEN Append(queue[q], djob[a]) ELSE queue[q]
  BY <1>1 DEF Enqueue, IInv, Typed, ListsTyped
<1>3. UNCHANGED <<wjob, finished, side, batch, delivered>>
  BY DEF Enqueue, workers, loop
<1>4. queue[q] \in Seq(JobsOf(q))
  BY DEF IInv, Sorted
<1>5. Members(queue'[q]) = IF q = P(a) THEN Members(queue[q]) \cup {djob[a]} ELSE Members(queue[q])
  <2>1. CASE q = P(a)
    <3>1. Members(Append(queue[q], djob[a])) = Members(queue[q]) \cup {djob[a]}
      BY <1>1, <1>4, <2>1, MembersAppend
    <3>2. QED
      BY <1>2, <2>1, <3>1
  <2>2. CASE q # P(a)
    BY <1>2, <2>2
  <2>3. QED
    BY <2>1, <2>2
<1>6. Working(q)' = Working(q)
  BY <1>3 DEF Working
<1>7. Pending(q)' = IF q = P(a) THEN Pending(q) \cup {djob[a]} ELSE Pending(q)
  BY <1>5, <1>6 DEF Pending
<1>8. Ready(q)' = Ready(q) /\ Delivered(q)' = Delivered(q)
  BY <1>3 DEF Ready, BatchOf, Delivered
<1> QED
  BY <1>1, <1>2, <1>7, <1>8

LEMMA TakeEffect ==
  ASSUME IInv, NEW p \in Pool, NEW w \in Worker, Take(p, w), queue[p] # << >>, NEW q \in Pool
  PROVE  /\ wjob[p][w] = NoJob
         /\ Head(queue[p]) \in JobsOf(p)
         /\ queue'[q] = IF q = p THEN Tail(queue[q]) ELSE queue[q]
         /\ \A v \in Worker : wjob'[q][v] = IF q = p /\ v = w THEN Head(queue[p]) ELSE wjob[q][v]
         /\ Pending(q)' = Pending(q)
         /\ Ready(q)' = Ready(q)
         /\ Delivered(q)' = Delivered(q)
<1>1. wjob[p][w] = NoJob
  BY DEF Take, IInv, Typed, JobInHand
<1>2. /\ queue'[q] = IF q = p THEN Tail(queue[q]) ELSE queue[q]
      /\ \A v \in Worker : wjob'[q][v] = IF q = p /\ v = w THEN Head(queue[p]) ELSE wjob[q][v]
  <2>1. queue' = [queue EXCEPT ![p] = Tail(queue[p])]
    BY DEF Take
  <2>2. wjob' = [wjob EXCEPT ![p][w] = Head(queue[p])]
    BY DEF Take
  <2>3. queue \in [Pool -> Seq(Job)] /\ wjob \in [Pool -> [Worker -> Job \cup {NoJob}]]
    BY DEF IInv, Typed, ListsTyped, WorkersTyped
  <2>4. QED
    BY <2>1, <2>2, <2>3
<1>3. UNCHANGED <<finished, side, batch, delivered>>
  BY DEF Take, loop
<1>4. /\ Head(queue[p]) \in JobsOf(p)
      /\ Members(queue[p]) = Members(Tail(queue[p])) \cup {Head(queue[p])}
  BY MembersTail DEF IInv, Sorted
<1>5. Head(queue[p]) # NoJob
  BY <1>4, JobsAndPools
<1>6. Working(q)' = IF q = p THEN Working(q) \cup {Head(queue[p])} ELSE Working(q)
  <2>1. CASE q # p
    BY <1>2, <2>1 DEF Working
  <2>2. CASE q = p
    <3>1. ASSUME NEW v \in Worker, wjob[p][v] # NoJob PROVE wjob[p][v] \in Working(p)'
      BY <1>1, <1>2, <2>2, <3>1 DEF Working
    <3>2. Head(queue[p]) \in Working(p)'
      BY <1>2, <1>5, <2>2 DEF Working
    <3>3. Working(p)' \subseteq Working(p) \cup {Head(queue[p])}
      BY <1>2, <2>2 DEF Working
    <3>4. Working(p) \subseteq Working(p)'
      BY <3>1 DEF Working
    <3>5. QED
      BY <2>2, <3>2, <3>3, <3>4
  <2>3. QED
    BY <2>1, <2>2
<1>7. Pending(q)' = Pending(q)
  BY <1>2, <1>4, <1>6 DEF Pending
<1> QED
  BY <1>1, <1>2, <1>3, <1>4, <1>7 DEF Ready, BatchOf, Delivered

LEMMA FinishEffect ==
  ASSUME IInv, NEW p \in Pool, NEW w \in Worker, Finish(p, w), NEW q \in Pool
  PROVE  /\ wjob[p][w] \in JobsOf(p) /\ wjob[p][w] \in Pending(p)
         /\ queue' = queue
         /\ \A v \in Worker : wjob'[q][v] = IF q = p /\ v = w THEN NoJob ELSE wjob[q][v]
         /\ finished'[q] = IF q = p THEN Append(finished[q], wjob[p][w]) ELSE finished[q]
         /\ Pending(q)' = IF q = p THEN Pending(q) \ {wjob[p][w]} ELSE Pending(q)
         /\ Ready(q)' = IF q = p THEN Append(Ready(q), wjob[p][w]) ELSE Ready(q)
         /\ Delivered(q)' = Delivered(q)
<1> DEFINE j == wjob[p][w]
<1>1. j \in JobsOf(p) /\ j # NoJob
  BY DEF Finish, IInv, Typed, JobInHand, Sorted
<1>2. UNCHANGED <<queue, side, batch, delivered>>
  BY DEF Finish, loop
<1>3. \A v \in Worker : wjob'[q][v] = IF q = p /\ v = w THEN NoJob ELSE wjob[q][v]
  <2>1. wjob' = [wjob EXCEPT ![p][w] = NoJob]
    BY DEF Finish
  <2>2. wjob \in [Pool -> [Worker -> Job \cup {NoJob}]]
    BY DEF IInv, Typed, WorkersTyped
  <2>3. QED
    BY <2>1, <2>2
<1>4. finished'[q] = IF q = p THEN Append(finished[q], j) ELSE finished[q]
  <2>1. finished' = [finished EXCEPT ![p] = Append(finished[p], j)]
    BY DEF Finish, Listed
  <2>2. finished \in [Pool -> Seq(Job)]
    BY DEF IInv, Typed, ListsTyped
  <2>3. QED
    BY <2>1, <2>2
<1>5. /\ j \notin Members(queue[p])
      /\ \A v \in Worker : v # w => wjob[p][v] # j
  BY <1>1 DEF IInv, Distinct
<1> HIDE DEF j
<1>6. Working(q)' = IF q = p THEN Working(q) \ {j} ELSE Working(q)
  <2>1. CASE q # p
    BY <1>3, <2>1 DEF Working
  <2>2. CASE q = p
    <3>1. \A x \in Working(p)' : x \in Working(p) /\ x # j
      BY <1>3, <1>5, <2>2 DEF Working
    <3>2. ASSUME NEW v \in Worker, wjob[p][v] # NoJob, wjob[p][v] # j PROVE wjob[p][v] \in Working(p)'
      <4>1. v # w
        BY <3>2 DEF j
      <4>2. wjob'[p][v] = wjob[p][v]
        BY <1>3, <2>2, <4>1
      <4>3. QED
        BY <3>2, <4>2 DEF Working
    <3>3. \A x \in Working(p) : x # j => x \in Working(p)'
      BY <3>2 DEF Working
    <3>4. QED
      BY <2>2, <3>1, <3>3
  <2>3. QED
    BY <2>1, <2>2
<1>7. j \in Working(p)
  BY <1>1 DEF Working, j
<1>8. Pending(q)' = IF q = p THEN Pending(q) \ {j} ELSE Pending(q)
  BY <1>2, <1>5, <1>6 DEF Pending
<1>9. Ready(q)' = IF q = p THEN Append(Ready(q), j) ELSE Ready(q)
  <2>1. BatchOf(q)' = BatchOf(q)
    BY <1>2 DEF BatchOf
  <2>2. CASE q = p
    <3>1. BatchOf(p) \in Seq(JobsOf(p)) /\ finished[p] \in Seq(JobsOf(p))
      BY DEF IInv, Sorted
    <3>2. BatchOf(p) \o Append(finished[p], j) = Append(BatchOf(p) \o finished[p], j)
      BY <1>1, <3>1, AppendRight
    <3>3. QED
      BY <1>4, <2>1, <2>2, <3>2 DEF Ready
  <2>3. CASE q # p
    BY <1>4, <2>1, <2>3 DEF Ready
  <2>4. QED
    BY <2>2, <2>3
<1>10. Delivered(q)' = Delivered(q)
  BY <1>2 DEF Delivered
<1>11. j \in Pending(p)
  BY <1>7 DEF Pending
<1> QED
  BY <1>1, <1>2, <1>3, <1>4, <1>8, <1>9, <1>10, <1>11 DEF j

LEMMA DetachEffect ==
  ASSUME IInv, Detach, started[side], NEW q \in Pool
  PROVE  /\ UNCHANGED <<queue, wjob, side>>
         /\ batch = << >> /\ batch' = finished[side]
         /\ finished'[q] = IF q = side THEN << >> ELSE finished[q]
         /\ Pending(q)' = Pending(q)
         /\ Ready(q)' = Ready(q)
         /\ Delivered(q)' = Delivered(q)
<1>1. /\ UNCHANGED <<queue, wjob, delivered, side>>
      /\ batch' = finished[side] /\ finished' = [finished EXCEPT ![side] = << >>]
  BY DEF Detach, workers
<1>2. batch = << >> /\ side \in Pool
  BY DEF Detach, IInv, Between, Typed, LoopTyped
<1>3. finished'[q] = IF q = side THEN << >> ELSE finished[q]
  BY <1>1 DEF IInv, Typed, ListsTyped
<1>4. Pending(q)' = Pending(q) /\ Delivered(q)' = Delivered(q)
  BY <1>1 DEF Pending, Working, Delivered
<1>5. Ready(q)' = Ready(q)
  <2>1. finished[q] \in Seq(JobsOf(q))
    BY DEF IInv, Sorted
  <2>2. finished[q] \o << >> = finished[q] /\ << >> \o finished[q] = finished[q]
    BY <2>1, ConcatEmptySeq
  <2>3. CASE q = side
    <3>1. BatchOf(q) = << >> /\ BatchOf(q)' = finished[q] /\ finished'[q] = << >>
      BY <1>1, <1>2, <1>3, <2>3 DEF BatchOf
    <3>2. QED
      BY <2>2, <3>1 DEF Ready
  <2>4. CASE q # side
    BY <1>1, <1>3, <2>4 DEF Ready, BatchOf
  <2>5. QED
    BY <2>3, <2>4
<1> QED
  BY <1>1, <1>2, <1>3, <1>4, <1>5

LEMMA DeliverEffect ==
  ASSUME IInv, Deliver, batch # << >>, NEW q \in Pool
  PROVE  /\ UNCHANGED <<queue, finished, wjob, side>>
         /\ side \in Pool
         /\ BatchOf(q)' = IF q = side THEN Tail(batch) ELSE BatchOf(q)
         /\ Pending(q)' = Pending(q)
         /\ IF q = side
            THEN /\ Ready(q) # << >> /\ Ready(q)' = Tail(Ready(q))
                 /\ Head(Ready(q)) = Head(batch)
                 /\ Delivered(q)' = Delivered(q) \cup {Head(batch)}
            ELSE Ready(q)' = Ready(q) /\ Delivered(q)' = Delivered(q)
<1>1. /\ UNCHANGED <<queue, wjob, finished, side>>
      /\ batch' = Tail(batch)
      /\ delivered' = delivered \cup {Head(batch)}
  BY DEF Deliver, pools, workers, RestOf
<1>2. side \in Pool /\ batch \in Seq(JobsOf(side)) /\ finished[side] \in Seq(JobsOf(side))
  BY DEF IInv, Typed, LoopTyped, Sorted, BatchOf
<1>3. Head(batch) \in JobsOf(side)
  BY <1>2, MembersTail
<1>4. Pending(q)' = Pending(q)
  BY <1>1 DEF Pending, Working
<1>5. CASE q = side
  <2>1. BatchOf(q) = batch /\ BatchOf(q)' = Tail(batch)
    BY <1>1, <1>5 DEF BatchOf
  <2>2. /\ batch \o finished[side] # << >>
        /\ Head(batch \o finished[side]) = Head(batch)
        /\ Tail(batch) \o finished[side] = Tail(batch \o finished[side])
    BY <1>2, TailLeft
  <2>3. Delivered(q)' = Delivered(q) \cup {Head(batch)}
    BY <1>1, <1>3, <1>5 DEF Delivered
  <2>4. QED
    BY <1>1, <1>2, <1>4, <1>5, <2>1, <2>2, <2>3 DEF Ready
<1>6. CASE q # side
  <2>1. BatchOf(q)' = BatchOf(q) /\ Ready(q)' = Ready(q)
    BY <1>1, <1>6 DEF BatchOf, Ready
  <2>2. Head(batch) \notin JobsOf(q)
    BY <1>2, <1>3, <1>6, PoolsApart
  <2>3. Delivered(q)' = Delivered(q)
    BY <1>1, <2>2 DEF Delivered
  <2>4. QED
    BY <1>1, <1>2, <1>4, <1>6, <2>1, <2>3
<1> QED
  BY <1>5, <1>6

LEMMA NoEffect ==
  ASSUME IInv, NEW q \in Pool,
         \/ Quiet
         \/ \E a \in Dispatcher, j \in Job : Send(a, j)
         \/ UserReturns /\ mpc = "callback"
  PROVE  /\ UNCHANGED <<queue, wjob, finished>>
         /\ BatchOf(q)' = BatchOf(q)
         /\ Pending(q)' = Pending(q)
         /\ Ready(q)' = Ready(q)
         /\ Delivered(q)' = Delivered(q)
<1>1. UNCHANGED <<queue, wjob, finished, delivered>> /\ BatchOf(q)' = BatchOf(q)
  <2>1. CASE Quiet
    BY <2>1 DEF Quiet
  <2>2. ASSUME NEW a \in Dispatcher, NEW j \in Job, Send(a, j)
        PROVE  UNCHANGED <<queue, wjob, finished, delivered>> /\ BatchOf(q)' = BatchOf(q)
    BY <2>2 DEF Send, pools, workers, loop, BatchOf
  <2>3. CASE UserReturns /\ mpc = "callback"
    BY <2>3 DEF UserReturns, workers, BatchOf
  <2>4. QED
    BY <2>1, <2>2, <2>3
<1>2. Pending(q)' = Pending(q) /\ Delivered(q)' = Delivered(q)
  BY <1>1 DEF Pending, Working, Delivered
<1>3. Ready(q)' = Ready(q)
  BY <1>1 DEF Ready
<1> QED
  BY <1>1, <1>2, <1>3

LEMMA SortedStep == IInv /\ [Next]_vars => Sorted'
<1> SUFFICES ASSUME IInv, [Next]_vars, NEW p \in Pool
             PROVE  /\ queue'[p] \in Seq(JobsOf(p)) /\ finished'[p] \in Seq(JobsOf(p))
                    /\ BatchOf(p)' \in Seq(JobsOf(p))
                    /\ \A w \in Worker : wjob'[p][w] \in JobsOf(p) \cup {NoJob}
  BY DEF Sorted
<1> USE DEF IInv
<1>1. /\ queue[p] \in Seq(JobsOf(p)) /\ finished[p] \in Seq(JobsOf(p)) /\ BatchOf(p) \in Seq(JobsOf(p))
      /\ \A w \in Worker : wjob[p][w] \in JobsOf(p) \cup {NoJob}
  BY DEF Sorted
<1>2. CASE Quiet \/ (\E a \in Dispatcher, j \in Job : Send(a, j)) \/ (UserReturns /\ mpc = "callback")
  BY <1>1, <1>2, NoEffect
<1>3. ASSUME NEW a \in Dispatcher, Enqueue(a)
      PROVE  /\ queue'[p] \in Seq(JobsOf(p)) /\ finished' = finished
             /\ BatchOf(p)' = BatchOf(p) /\ wjob' = wjob
  <2>1. finished' = finished /\ wjob' = wjob /\ BatchOf(p)' = BatchOf(p)
    BY <1>3 DEF Enqueue, workers, loop, BatchOf
  <2>2. CASE p = P(a)
    <3>1. djob[a] \in JobsOf(p) /\ queue'[p] = Append(queue[p], djob[a])
      BY <1>3, <2>2, EnqueueEffect
    <3>2. Append(queue[p], djob[a]) \in Seq(JobsOf(p))
      BY <1>1, <3>1, MembersAppend
    <3>3. QED
      BY <2>1, <3>1, <3>2
  <2>3. CASE p # P(a)
    BY <1>1, <1>3, <2>1, <2>3, EnqueueEffect
  <2>4. QED
    BY <2>2, <2>3
<1>4. ASSUME NEW q \in Pool, NEW w \in Worker, Take(q, w), queue[q] # << >>
      PROVE  /\ queue'[p] \in Seq(JobsOf(p)) /\ finished' = finished /\ BatchOf(p)' = BatchOf(p)
             /\ \A v \in Worker : wjob'[p][v] \in JobsOf(p) \cup {NoJob}
  <2>1. finished' = finished /\ BatchOf(p)' = BatchOf(p)
    BY <1>4 DEF Take, loop, BatchOf
  <2>2. queue'[p] \in Seq(JobsOf(p))
    <3>1. queue'[p] = IF p = q THEN Tail(queue[p]) ELSE queue[p]
      BY <1>4, TakeEffect
    <3>2. p = q => Tail(queue[p]) \in Seq(JobsOf(p))
      BY <1>1, <1>4, MembersTail
    <3>3. QED
      BY <1>1, <3>1, <3>2
  <2>3. \A v \in Worker : wjob'[p][v] \in JobsOf(p) \cup {NoJob}
    BY <1>1, <1>4, TakeEffect
  <2>4. QED
    BY <2>1, <2>2, <2>3
<1>5. ASSUME NEW q \in Pool, NEW w \in Worker, Finish(q, w)
      PROVE  /\ queue' = queue /\ finished'[p] \in Seq(JobsOf(p)) /\ BatchOf(p)' = BatchOf(p)
             /\ \A v \in Worker : wjob'[p][v] \in JobsOf(p) \cup {NoJob}
  <2>1. queue' = queue /\ BatchOf(p)' = BatchOf(p)
    BY <1>5 DEF Finish, loop, BatchOf
  <2>2. \A v \in Worker : wjob'[p][v] \in JobsOf(p) \cup {NoJob}
    BY <1>1, <1>5, FinishEffect
  <2>3. finished'[p] \in Seq(JobsOf(p))
    <3>1. CASE p = q
      <4>1. wjob[q][w] \in JobsOf(p) /\ finished'[p] = Append(finished[p], wjob[q][w])
        BY <1>5, <3>1, FinishEffect
      <4>2. QED
        BY <1>1, <4>1, MembersAppend
    <3>2. CASE p # q
      BY <1>1, <1>5, <3>2, FinishEffect
    <3>3. QED
      BY <3>1, <3>2
  <2>4. QED
    BY <2>1, <2>2, <2>3
<1>6. CASE Detach /\ started[side]
  <2>1. << >> \in Seq(JobsOf(p))
    OBVIOUS
  <2>2. /\ UNCHANGED <<queue, wjob, side>> /\ batch' = finished[side] /\ batch = << >>
        /\ finished'[p] = IF p = side THEN << >> ELSE finished[p]
    BY <1>6, DetachEffect
  <2>3. BatchOf(p)' \in Seq(JobsOf(p))
    BY <1>1, <2>1, <2>2 DEF BatchOf
  <2>4. QED
    BY <1>1, <2>1, <2>2, <2>3
<1>7. CASE Deliver /\ batch # << >>
  <2>1. /\ UNCHANGED <<queue, finished, wjob>>
        /\ BatchOf(p)' = IF p = side THEN Tail(batch) ELSE BatchOf(p)
    BY <1>7, DeliverEffect
  <2>2. p = side => Tail(batch) \in Seq(JobsOf(p))
    BY <1>1, <1>7, MembersTail DEF BatchOf
  <2>3. QED
    BY <1>1, <2>1, <2>2
<1> QED
  BY <1>1, <1>2, <1>3, <1>4, <1>5, <1>6, <1>7, Kinds

LEMMA DistinctStep == IInv /\ [Next]_vars => Distinct'
<1> DEFINE Apart(p) ==
      /\ Once(queue[p])
      /\ \A w \in Worker : wjob[p][w] # NoJob =>
           /\ wjob[p][w] \notin Members(queue[p])
           /\ \A v \in Worker : v # w => wjob[p][v] # wjob[p][w]
<1> SUFFICES ASSUME IInv, [Next]_vars, NEW p \in Pool PROVE Apart(p)'
  BY DEF Distinct
<1>1. Apart(p)
  BY DEF IInv, Distinct
<1>2. /\ queue[p] \in Seq(JobsOf(p))
      /\ \A w \in Worker : wjob[p][w] \in JobsOf(p) \cup {NoJob}
  BY DEF IInv, Sorted
<1>3. CASE queue' = queue /\ wjob' = wjob
  BY <1>1, <1>3
<1>4. ASSUME NEW a \in Dispatcher, Enqueue(a) PROVE Apart(p)'
  <2>1. wjob' = wjob
    BY <1>4 DEF Enqueue, workers
  <2>2. CASE p = P(a)
    <3>1. djob[a] \in JobsOf(p) /\ queue'[p] = Append(queue[p], djob[a])
      BY <1>4, <2>2, EnqueueEffect
    <3>2. djob[a] \notin Pending(p)
      BY <1>4, <2>2 DEF IInv, Fresh, Enqueue, Before, Held
    <3>3. djob[a] # NoJob
      BY <3>1, JobsAndPools
    <3>4. djob[a] \notin Members(queue[p]) /\ \A w \in Worker : wjob[p][w] # djob[a]
      BY <3>2, <3>3 DEF Pending, Working
    <3>5. Once(Append(queue[p], djob[a]))
      BY <1>1, <1>2, <3>1, <3>4, OnceAppend
    <3>6. Members(Append(queue[p], djob[a])) = Members(queue[p]) \cup {djob[a]}
      BY <1>2, <3>1, MembersAppend
    <3>7. QED
      BY <1>1, <2>1, <3>1, <3>4, <3>5, <3>6
  <2>3. CASE p # P(a)
    BY <1>1, <1>4, <2>1, <2>3, EnqueueEffect
  <2>4. QED
    BY <2>2, <2>3
<1>5. ASSUME NEW q \in Pool, NEW w \in Worker, Take(q, w), queue[q] # << >> PROVE Apart(p)'
  <2>1. CASE p # q
    <3>1. queue'[p] = queue[p] /\ \A v \in Worker : wjob'[p][v] = wjob[p][v]
      BY <1>5, <2>1, TakeEffect
    <3>2. QED
      BY <1>1, <3>1
  <2>2. CASE p = q
    <3>1. /\ queue'[p] = Tail(queue[p]) /\ wjob[p][w] = NoJob
          /\ \A v \in Worker : wjob'[p][v] = IF v = w THEN Head(queue[p]) ELSE wjob[p][v]
      BY <1>5, <2>2, TakeEffect
    <3>2. Once(Tail(queue[p])) /\ Head(queue[p]) \notin Members(Tail(queue[p]))
      BY <1>1, <1>2, <1>5, <2>2, OnceTail
    <3>3. /\ Members(queue[p]) = Members(Tail(queue[p])) \cup {Head(queue[p])}
          /\ Head(queue[p]) \in JobsOf(p)
      BY <1>2, <1>5, <2>2, MembersTail
    <3>4. \A v \in Worker : wjob[p][v] # Head(queue[p])
      <4>1. Head(queue[p]) # NoJob
        BY <3>3, JobsAndPools
      <4>2. Head(queue[p]) \in Members(queue[p])
        BY <3>3
      <4>3. QED
        BY <1>1, <4>1, <4>2
    <3>5. ASSUME NEW v \in Worker, wjob'[p][v] # NoJob
          PROVE  wjob'[p][v] \notin Members(Tail(queue[p]))
      BY <1>1, <3>1, <3>2, <3>3, <3>5
    <3>6. ASSUME NEW v \in Worker, wjob'[p][v] # NoJob, NEW u \in Worker, u # v
          PROVE  wjob'[p][u] # wjob'[p][v]
      BY <1>1, <3>1, <3>4, <3>6
    <3>7. QED
      BY <3>1, <3>2, <3>5, <3>6
  <2>3. QED
    BY <2>1, <2>2
<1>6. ASSUME NEW q \in Pool, NEW w \in Worker, Finish(q, w) PROVE Apart(p)'
  <2>1. /\ queue' = queue
        /\ \A v \in Worker : wjob'[p][v] = IF p = q /\ v = w THEN NoJob ELSE wjob[p][v]
    BY <1>6, FinishEffect
  <2>2. QED
    BY <1>1, <2>1
<1>7. ASSUME \/ Quiet \/ (\E a \in Dispatcher, j \in Job : Send(a, j))
             \/ (UserReturns /\ mpc = "callback")
             \/ (Detach /\ started[side]) \/ (Deliver /\ batch # << >>)
      PROVE  queue' = queue /\ wjob' = wjob
  BY <1>7, NoEffect, DetachEffect, DeliverEffect
<1> HIDE DEF Apart
<1> QED
  BY <1>3, <1>4, <1>5, <1>6, <1>7, Kinds DEF IInv

(***************************************************************************)
(* Each pool takes steps of JobPool, or stutters.                          *)
(***************************************************************************)

Submits(p, j) ==
  /\ j \in JobsOf(p) /\ j \notin Pending(p) \cup Delivered(p) \cup Members(Ready(p))
  /\ Pending(p)' = Pending(p) \cup {j} /\ Ready(p)' = Ready(p) /\ Delivered(p)' = Delivered(p)

Completes(p, j) ==
  /\ j \in JobsOf(p) /\ j \in Pending(p)
  /\ Pending(p)' = Pending(p) \ {j} /\ Ready(p)' = Append(Ready(p), j) /\ Delivered(p)' = Delivered(p)

Delivers(p) ==
  /\ Ready(p) # << >>
  /\ Pending(p)' = Pending(p) /\ Ready(p)' = Tail(Ready(p))
  /\ Delivered(p)' = Delivered(p) \cup {Head(Ready(p))}

Stutters(p) == Pending(p)' = Pending(p) /\ Ready(p)' = Ready(p) /\ Delivered(p)' = Delivered(p)

LEMMA EnqueueSubmits ==
  ASSUME IInv, NEW a \in Dispatcher, Enqueue(a), NEW p \in Pool
  PROVE  IF p = P(a) THEN Submits(p, djob[a]) ELSE Stutters(p)
<1>1. p = P(a) => djob[a] \notin Held(p)
  BY DEF Enqueue, IInv, Fresh, Before
<1>2. CASE p = P(a)
  BY <1>1, <1>2, EnqueueEffect DEF Submits, Held
<1>3. CASE p # P(a)
  BY <1>3, EnqueueEffect DEF Stutters
<1> QED
  BY <1>2, <1>3

LEMMA OtherSteps ==
  ASSUME IInv, [Next]_vars, NEW p \in Pool, ~ \E a \in Dispatcher : Enqueue(a)
  PROVE  Stutters(p) \/ Delivers(p) \/ \E j \in JobsOf(p) : Completes(p, j)
<1>1. CASE Quiet \/ (\E a \in Dispatcher, j \in Job : Send(a, j)) \/ (UserReturns /\ mpc = "callback")
  BY <1>1, NoEffect DEF Stutters
<1>2. ASSUME NEW q \in Pool, NEW w \in Worker, Take(q, w), queue[q] # << >> PROVE Stutters(p)
  BY <1>2, TakeEffect DEF Stutters
<1>3. ASSUME NEW q \in Pool, NEW w \in Worker, Finish(q, w)
      PROVE  Stutters(p) \/ \E j \in JobsOf(p) : Completes(p, j)
  <2>1. CASE p = q
    BY <1>3, <2>1, FinishEffect DEF Completes
  <2>2. CASE p # q
    BY <1>3, <2>2, FinishEffect DEF Stutters
  <2>3. QED
    BY <2>1, <2>2
<1>4. CASE Detach /\ started[side]
  BY <1>4, DetachEffect DEF Stutters
<1>5. CASE Deliver /\ batch # << >>
  <2>1. CASE p = side
    BY <1>5, <2>1, DeliverEffect DEF Delivers
  <2>2. CASE p # side
    BY <1>5, <2>2, DeliverEffect DEF Stutters
  <2>3. QED
    BY <2>1, <2>2
<1> QED
  BY <1>1, <1>2, <1>3, <1>4, <1>5, Kinds DEF IInv

LEMMA ReadyTyped ==
  ASSUME IInv, NEW p \in Pool
  PROVE  Ready(p) \in Seq(JobsOf(p))
BY ConcatProperties DEF IInv, Sorted, Ready

\* Only queueing gives a pool a job.
LEMMA HeldStep ==
  ASSUME IInv, [Next]_vars, NEW p \in Pool
  PROVE  \/ \E a \in Dispatcher : Enqueue(a)
         \/ Held(p)' \subseteq Held(p)
<1> SUFFICES ASSUME ~ \E a \in Dispatcher : Enqueue(a)
             PROVE  Held(p)' \subseteq Held(p)
  OBVIOUS
<1>1. CASE Stutters(p)
  BY <1>1 DEF Stutters, Held
<1>2. CASE Delivers(p)
  <2>1. Members(Ready(p)) = Members(Tail(Ready(p))) \cup {Head(Ready(p))}
    BY <1>2, ReadyTyped, MembersTail DEF Delivers
  <2>2. QED
    BY <1>2, <2>1 DEF Delivers, Held
<1>3. ASSUME NEW j \in JobsOf(p), Completes(p, j) PROVE Held(p)' \subseteq Held(p)
  <2>1. Members(Append(Ready(p), j)) = Members(Ready(p)) \cup {j}
    BY ReadyTyped, MembersAppend
  <2>2. QED
    BY <1>3, <2>1 DEF Completes, Held
<1> QED
  BY <1>1, <1>2, <1>3, OtherSteps

LEMMA HeldEnqueue ==
  ASSUME IInv, NEW a \in Dispatcher, Enqueue(a), NEW p \in Pool
  PROVE  Held(p)' = IF p = P(a) THEN Held(p) \cup {djob[a]} ELSE Held(p)
<1>1. CASE p = P(a)
  BY <1>1, EnqueueSubmits DEF Submits, Held
<1>2. CASE p # P(a)
  BY <1>2, EnqueueSubmits DEF Stutters, Held
<1> QED
  BY <1>1, <1>2

LEMMA UsedGrows ==
  ASSUME Typed, Between, [Next]_vars
  PROVE  used \subseteq used'
<1>1. CASE Quiet
  BY <1>1 DEF Quiet
<1> QED
  BY <1>1, Kinds DEF Send, Enqueue, Take, Finish, Detach, Deliver, UserReturns

LEMMA KnownStep == IInv /\ [Next]_vars => Known'
<1> SUFFICES ASSUME IInv, [Next]_vars, NEW p \in Pool PROVE Held(p)' \subseteq used'
  BY DEF Known
<1>1. Held(p) \subseteq used /\ used \subseteq used'
  BY UsedGrows DEF IInv, Known
<1>2. ASSUME NEW a \in Dispatcher, Enqueue(a) PROVE Held(p)' \subseteq used'
  <2>1. djob[a] \in used
    BY <1>2 DEF Enqueue, IInv, Fresh, Before
  <2>2. QED
    BY <1>1, <1>2, <2>1, HeldEnqueue
<1> QED
  BY <1>1, <1>2, HeldStep

LEMMA FreshStep == IInv /\ [Next]_vars => Fresh'
<1> DEFINE Fit(a) ==
      dpc[a] \in Before =>
        /\ djob[a] \in used /\ djob[a] \notin Held(P(a))
        /\ \A b \in Dispatcher : b # a /\ dpc[b] \in Before => djob[b] # djob[a]
<1> SUFFICES ASSUME IInv, [Next]_vars, NEW a \in Dispatcher PROVE Fit(a)'
  BY DEF Fresh
<1>1. \A b \in Dispatcher : Fit(b)
  BY DEF IInv, Fresh
<1>2. dpc[a] \in Before => P(a) \in Pool
  BY InHandTyped DEF IInv, Before
<1>3. ASSUME \A b \in Dispatcher : dpc'[b] \in Before => dpc[b] \in Before /\ djob'[b] = djob[b],
             ~ \E b \in Dispatcher : Enqueue(b)
      PROVE  Fit(a)'
  <2>1. SUFFICES ASSUME dpc'[a] \in Before PROVE Fit(a)'
    OBVIOUS
  <2>2. dpc[a] \in Before /\ djob'[a] = djob[a] /\ P(a)' = P(a) /\ P(a) \in Pool
    BY <1>2, <1>3, <2>1 DEF P
  <2>3. djob[a] \in used' /\ djob[a] \notin Held(P(a))
    BY <1>1, <2>2, UsedGrows DEF IInv
  <2>4. djob'[a] \notin Held(P(a))'
    <3>1. Held(P(a))' \subseteq Held(P(a))
      BY <1>3, <2>2, HeldStep
    <3>2. QED
      BY <2>2, <2>3, <3>1
  <2>5. ASSUME NEW b \in Dispatcher, b # a, dpc'[b] \in Before PROVE djob'[b] # djob'[a]
    BY <1>1, <1>3, <2>2, <2>5
  <2>6. QED
    BY <2>2, <2>3, <2>4, <2>5
<1>4. ASSUME NEW c \in Dispatcher, NEW j \in Job, Send(c, j) PROVE Fit(a)'
  <2>1. /\ \A b \in Dispatcher : b # c => dpc'[b] = dpc[b] /\ djob'[b] = djob[b]
        /\ djob'[c] = j /\ j \notin used /\ j \in used' /\ used \subseteq used'
    BY <1>4 DEF Send, IInv, Typed, DispatchersTyped
  <2>2. \A p \in Pool : Held(p)' \subseteq used
    <3>1. TAKE p \in Pool
    <3>2. Held(p)' = Held(p)
      BY <1>4, NoEffect DEF Held
    <3>3. QED
      BY <3>2 DEF IInv, Known
  <2>3. \A b \in Dispatcher : b # c /\ dpc'[b] \in Before => djob'[b] \in used
    BY <1>1, <2>1
  <2>4. CASE a = c
    <3>1. P(a)' \in Pool
      BY <2>1, <2>4, JobsAndPools DEF P
    <3>2. djob'[a] \notin Held(P(a))'
      BY <2>1, <2>2, <2>4, <3>1
    <3>3. QED
      BY <2>1, <2>3, <2>4, <3>2
  <2>5. CASE a # c /\ dpc'[a] \in Before
    <3>1. dpc[a] \in Before /\ djob'[a] = djob[a] /\ P(a)' = P(a) /\ P(a) \in Pool
      BY <1>2, <2>1, <2>5 DEF P
    <3>2. djob[a] \in used /\ djob[a] \notin Held(P(a))
      BY <1>1, <3>1
    <3>3. djob'[a] \notin Held(P(a))'
      <4>1. Held(P(a))' = Held(P(a))
        BY <1>4, <3>1, NoEffect DEF Held
      <4>2. QED
        BY <3>1, <3>2, <4>1
    <3>4. ASSUME NEW b \in Dispatcher, b # a, dpc'[b] \in Before PROVE djob'[b] # djob'[a]
      <4>1. CASE b = c
        BY <2>1, <3>1, <3>2, <4>1
      <4>2. CASE b # c
        BY <1>1, <2>1, <2>5, <3>1, <3>4, <4>2
      <4>3. QED
        BY <4>1, <4>2
    <3>5. QED
      BY <2>1, <3>1, <3>2, <3>3, <3>4
  <2>6. QED
    BY <2>4, <2>5
<1>5. ASSUME NEW c \in Dispatcher, Enqueue(c) PROVE Fit(a)'
  <2>1. /\ dpc[c] \in Before /\ dpc'[c] \notin Before
        /\ \A b \in Dispatcher : b # c => dpc'[b] = dpc[b]
        /\ djob' = djob /\ used' = used
    BY <1>5 DEF Enqueue, IInv, Typed, DispatchersTyped, Before
  <2>2. SUFFICES ASSUME dpc'[a] \in Before PROVE Fit(a)'
    OBVIOUS
  <2>3. a # c /\ dpc[a] \in Before /\ P(a)' = P(a) /\ P(a) \in Pool
    BY <1>2, <2>1, <2>2 DEF P
  <2>4. djob[a] \in used /\ djob[a] \notin Held(P(a)) /\ djob[c] # djob[a]
    BY <1>1, <2>1, <2>3
  <2>5. djob'[a] \notin Held(P(a))'
    <3>1. Held(P(a))' \subseteq Held(P(a)) \cup {djob[c]}
      BY <1>5, <2>3, HeldEnqueue
    <3>2. QED
      BY <2>1, <2>4, <3>1
  <2>6. ASSUME NEW b \in Dispatcher, b # a, dpc'[b] \in Before PROVE djob'[b] # djob'[a]
    BY <1>1, <2>1, <2>3, <2>6
  <2>7. QED
    BY <2>1, <2>4, <2>5, <2>6
<1>6. ASSUME \/ \E p \in Pool, w \in Worker : Take(p, w) /\ queue[p] # << >>
             \/ \E p \in Pool, w \in Worker : Finish(p, w)
             \/ Detach \/ Deliver \/ UserReturns
      PROVE  UNCHANGED <<dpc, djob>>
  BY <1>6 DEF Take, Finish, Detach, Deliver, UserReturns, dispatcher
<1>7. CASE Quiet
  BY <1>3, <1>5, <1>7 DEF Quiet
<1> HIDE DEF Fit
<1>8. CASE UNCHANGED <<dpc, djob>>
  BY <1>3, <1>5, <1>8
<1> QED
  BY <1>4, <1>5, <1>6, <1>7, <1>8, Kinds DEF IInv

THEOREM Invariance == Spec => []IInv
<1>1. IInv /\ [Next]_vars => IInv'
  BY TypedStep, BetweenStep, SortedStep, DistinctStep, KnownStep, FreshStep DEF IInv
<1> QED
  BY <1>1, IInvInit, PTL DEF Spec

LEMMA MembersIn == \A l, j : j \in Members(l) <=> \E i \in 1..Len(l) : l[i] = j
BY DEF Members

LEMMA PoolStep ==
  ASSUME IInv, [Next]_vars, NEW p \in Pool
  PROVE  \/ Stutters(p) \/ Delivers(p)
         \/ \E j \in JobsOf(p) : Submits(p, j) \/ Completes(p, j)
<1>1. ASSUME NEW a \in Dispatcher, Enqueue(a)
      PROVE  Stutters(p) \/ \E j \in JobsOf(p) : Submits(p, j)
  <2>1. CASE p = P(a)
    BY <1>1, <2>1, EnqueueSubmits DEF Submits
  <2>2. CASE p # P(a)
    BY <1>1, <2>2, EnqueueSubmits
  <2>3. QED
    BY <2>1, <2>2
<1> QED
  BY <1>1, OtherSteps

LEMMA PoolInit == ASSUME Init, NEW p \in Pool
                  PROVE Pending(p) = {} /\ Ready(p) = << >> /\ Delivered(p) = {}
<1>1. Working(p) = {} /\ queue[p] = << >> /\ finished[p] = << >> /\ batch = << >> /\ delivered = {}
  BY DEF Init, Working
<1> QED
  BY <1>1 DEF Pending, Members, Ready, BatchOf, Delivered

\* The generic pool delivers every job it is handed at most once, in the order
\* in which the jobs were completed, and loses none (festina_async_io_run ...).
THEOREM IoImplementsJobPool == Spec => IoIsJobPool
<1>1. "io" \in Pool /\ JobsOf("io") = IoJob
  BY DEF Pool, JobsOf
<1>2. Init => IoPool!Init
  BY <1>1, PoolInit DEF IoPool!Init
<1>3. IInv /\ [Next]_vars => [IoPool!Next]_IoPool!vars
  <2> SUFFICES ASSUME IInv, [Next]_vars PROVE [IoPool!Next]_IoPool!vars
    OBVIOUS
  <2>1. CASE Stutters("io")
    BY <2>1 DEF Stutters, IoPool!vars
  <2>2. CASE Delivers("io")
    BY <2>2 DEF Delivers, IoPool!Next, IoPool!Deliver
  <2>3. ASSUME NEW j \in IoJob, Submits("io", j) PROVE IoPool!Submit(j)
    BY <2>3, MembersIn DEF Submits, IoPool!Submit, IoPool!InReady
  <2>4. ASSUME NEW j \in IoJob, Completes("io", j) PROVE IoPool!Complete(j)
    BY <2>4 DEF Completes, IoPool!Complete
  <2>5. QED
    BY <1>1, <2>1, <2>2, <2>3, <2>4, PoolStep DEF IoPool!Next
<1> QED
  BY <1>2, <1>3, Invariance, PTL DEF Spec, IoIsJobPool, IoPool!Spec

\* So does the pool of the HTTP client (festina_http_send_client_dispatch ...).
THEOREM HttpImplementsJobPool == Spec => HttpIsJobPool
<1>1. "http" \in Pool /\ JobsOf("http") = HttpJob
  BY DEF Pool, JobsOf
<1>2. Init => HttpPool!Init
  BY <1>1, PoolInit DEF HttpPool!Init
<1>3. IInv /\ [Next]_vars => [HttpPool!Next]_HttpPool!vars
  <2> SUFFICES ASSUME IInv, [Next]_vars PROVE [HttpPool!Next]_HttpPool!vars
    OBVIOUS
  <2>1. CASE Stutters("http")
    BY <2>1 DEF Stutters, HttpPool!vars
  <2>2. CASE Delivers("http")
    BY <2>2 DEF Delivers, HttpPool!Next, HttpPool!Deliver
  <2>3. ASSUME NEW j \in HttpJob, Submits("http", j) PROVE HttpPool!Submit(j)
    BY <2>3, MembersIn DEF Submits, HttpPool!Submit, HttpPool!InReady
  <2>4. ASSUME NEW j \in HttpJob, Completes("http", j) PROVE HttpPool!Complete(j)
    BY <2>4 DEF Completes, HttpPool!Complete
  <2>5. QED
    BY <1>1, <2>1, <2>2, <2>3, <2>4, PoolStep DEF HttpPool!Next
<1> QED
  BY <1>2, <1>3, Invariance, PTL DEF Spec, HttpIsJobPool, HttpPool!Spec

(***************************************************************************)
(* The counters the loop trusts: a job is outstanding until its callback   *)
(* has returned.                                                           *)
(***************************************************************************)

Busy(p) == {w \in Worker : wjob[p][w] # NoJob}

Count(p) == Len(queue[p]) + Cardinality(Busy(p)) + Len(finished[p]) + Len(BatchOf(p)) + Calling(p)

Counted == \A p \in Pool : outstanding[p] = Count(p)

LEMMA BusyFinite == \A p : IsFiniteSet(Busy(p)) /\ Cardinality(Busy(p)) \in Nat
<1>1. IsFiniteSet(Worker)
  BY PoolAssumption DEF Worker
<1> QED
  BY <1>1, FS_Subset, FS_CardinalityType DEF Busy

LEMMA CountTyped ==
  ASSUME IInv, NEW p \in Pool
  PROVE  /\ Len(queue[p]) \in Nat /\ Len(finished[p]) \in Nat /\ Len(BatchOf(p)) \in Nat
         /\ Cardinality(Busy(p)) \in Nat /\ Calling(p) \in {0, 1} /\ outstanding[p] \in Int
BY BusyFinite DEF IInv, Sorted, Typed, FlagsTyped, Calling

LEMMA CountedInit == Init => Counted
<1> SUFFICES ASSUME Init, NEW p \in Pool PROVE outstanding[p] = Count(p)
  BY DEF Counted
<1>1. Busy(p) = {} /\ Calling(p) = 0 /\ BatchOf(p) = << >>
  BY DEF Init, Busy, Calling, BatchOf
<1>2. outstanding[p] = 0 /\ queue[p] = << >> /\ finished[p] = << >>
  BY DEF Init
<1>3. Cardinality({}) = 0
  BY FS_EmptySet
<1> QED
  BY <1>1, <1>2, <1>3 DEF Count

LEMMA SumUp ==
  ASSUME NEW q \in Int, NEW b \in Int, NEW f \in Int, NEW l \in Int, NEW c \in Int
  PROVE  (q + 1) + b + f + l + c = (q + b + f + l + c) + 1
OBVIOUS

LEMMA CountedStep ==
  ASSUME IInv, Counted, [Next]_vars
  PROVE  Counted'
<1> SUFFICES ASSUME NEW p \in Pool PROVE outstanding'[p] = Count(p)'
  BY DEF Counted
<1>1. outstanding[p] = Count(p) /\ outstanding \in [Pool -> Int]
  BY DEF Counted, IInv, Typed, FlagsTyped
<1>10. Count(p) = Len(queue[p]) + Cardinality(Busy(p)) + Len(finished[p]) + Len(BatchOf(p)) + Calling(p)
  BY DEF Count
<1>11. /\ Len(queue[p]) \in Nat /\ Len(finished[p]) \in Nat /\ Len(BatchOf(p)) \in Nat
       /\ Cardinality(Busy(p)) \in Nat /\ Calling(p) \in Int /\ outstanding[p] \in Int
  BY CountTyped
<1>2. CASE Quiet
  BY <1>1, <1>2 DEF Quiet, Count, Busy
<1>3. ASSUME NEW a \in Dispatcher, NEW j \in Job, Send(a, j) PROVE outstanding'[p] = Count(p)'
  BY <1>1, <1>3 DEF Send, pools, workers, loop, Count, Busy, BatchOf, Calling
<1>4. ASSUME NEW a \in Dispatcher, Enqueue(a) PROVE outstanding'[p] = Count(p)'
  <2>1. Busy(p)' = Busy(p) /\ finished' = finished /\ BatchOf(p)' = BatchOf(p) /\ Calling(p)' = Calling(p)
    BY <1>4 DEF Enqueue, workers, loop, Busy, BatchOf, Calling
  <2>2. /\ P(a) \in Pool /\ djob[a] \in JobsOf(P(a))
        /\ queue'[p] = IF p = P(a) THEN Append(queue[p], djob[a]) ELSE queue[p]
    BY <1>4, EnqueueEffect
  <2>3. outstanding'[p] = IF p = P(a) THEN outstanding[p] + 1 ELSE outstanding[p]
    BY <1>1, <1>4, <2>2 DEF Enqueue
  <2>4. p = P(a) => Len(Append(queue[p], djob[a])) = Len(queue[p]) + 1
    <3>1. queue[p] \in Seq(JobsOf(p))
      BY DEF IInv, Sorted
    <3>2. QED
      BY <2>2, <3>1, AppendProperties
  <2>5. CASE p = P(a)
    <3>1. Count(p)' = (Len(queue[p]) + 1) + Cardinality(Busy(p)) + Len(finished[p]) + Len(BatchOf(p)) + Calling(p)
      BY <2>1, <2>2, <2>4, <2>5 DEF Count
    <3>2. Count(p)' = Count(p) + 1
      BY <1>10, <1>11, <3>1, SumUp, SMTT(30)
    <3>3. QED
      BY <1>1, <2>3, <2>5, <3>2
  <2>6. CASE p # P(a)
    BY <1>1, <2>1, <2>2, <2>3, <2>6 DEF Count
  <2>7. QED
    BY <2>5, <2>6
<1>5. ASSUME NEW q \in Pool, NEW w \in Worker, Take(q, w), queue[q] # << >>
      PROVE  outstanding'[p] = Count(p)'
  <2>1. /\ outstanding' = outstanding /\ finished' = finished
        /\ BatchOf(p)' = BatchOf(p) /\ Calling(p)' = Calling(p)
    BY <1>5 DEF Take, loop, BatchOf, Calling
  <2>2. CASE p = q
    <3>1. /\ queue'[p] = Tail(queue[p]) /\ wjob[p][w] = NoJob /\ Head(queue[p]) \in JobsOf(p)
          /\ \A v \in Worker : wjob'[p][v] = IF v = w THEN Head(queue[p]) ELSE wjob[p][v]
      BY <1>5, <2>2, TakeEffect
    <3>2. Head(queue[p]) # NoJob
      BY <3>1, JobsAndPools
    <3>3. Busy(p)' = Busy(p) \cup {w} /\ w \notin Busy(p)
      BY <3>1, <3>2 DEF Busy
    <3>4. Cardinality(Busy(p)') = Cardinality(Busy(p)) + 1
      BY <3>3, BusyFinite, FS_AddElement
    <3>5. Len(Tail(queue[p])) = Len(queue[p]) - 1
      BY <1>5, <2>2, HeadTailProperties DEF IInv, Sorted
    <3>6. QED
      BY <1>1, <2>1, <3>1, <3>4, <3>5, CountTyped DEF Count
  <2>3. CASE p # q
    <3>1. queue'[p] = queue[p] /\ \A v \in Worker : wjob'[p][v] = wjob[p][v]
      BY <1>5, <2>3, TakeEffect
    <3>2. Busy(p)' = Busy(p)
      BY <3>1 DEF Busy
    <3>3. QED
      BY <1>1, <2>1, <3>1, <3>2 DEF Count
  <2>4. QED
    BY <2>2, <2>3
<1>6. ASSUME NEW q \in Pool, NEW w \in Worker, Finish(q, w)
      PROVE  outstanding'[p] = Count(p)'
  <2>1. /\ outstanding' = outstanding /\ queue' = queue
        /\ BatchOf(p)' = BatchOf(p) /\ Calling(p)' = Calling(p)
    BY <1>6 DEF Finish, loop, BatchOf, Calling
  <2>2. CASE p = q
    <3>1. /\ finished'[p] = Append(finished[p], wjob[p][w]) /\ wjob[p][w] \in JobsOf(p)
          /\ \A v \in Worker : wjob'[p][v] = IF p = p /\ v = w THEN NoJob ELSE wjob[p][v]
      <4>1. Finish(p, w)
        BY <1>6, <2>2
      <4>2. QED
        BY <4>1, FinishEffect, ZenonT(60)
    <3>2. wjob[p][w] # NoJob
      BY <3>1, JobsAndPools
    <3>3. Busy(p)' = Busy(p) \ {w} /\ w \in Busy(p)
      BY <3>1, <3>2 DEF Busy
    <3>4. Cardinality(Busy(p)') = Cardinality(Busy(p)) - 1
      BY <3>3, BusyFinite, FS_RemoveElement
    <3>5. Len(Append(finished[p], wjob[p][w])) = Len(finished[p]) + 1
      BY <3>1, AppendProperties DEF IInv, Sorted
    <3>6. QED
      <4>1. Count(p)' = Len(queue[p]) + (Cardinality(Busy(p)) - 1) + (Len(finished[p]) + 1)
                          + Len(BatchOf(p)) + Calling(p)
        BY <2>1, <3>1, <3>4, <3>5 DEF Count
      <4>2. Len(queue[p]) + (Cardinality(Busy(p)) - 1) + (Len(finished[p]) + 1) + Len(BatchOf(p)) + Calling(p)
            = Len(queue[p]) + Cardinality(Busy(p)) + Len(finished[p]) + Len(BatchOf(p)) + Calling(p)
        <5> DEFINE n == Len(queue[p])
                   b == Cardinality(Busy(p))
                   f == Len(finished[p])
                   l == Len(BatchOf(p))
                   c == Calling(p)
        <5>1. n \in Nat /\ b \in Nat /\ f \in Nat /\ l \in Nat /\ c \in Int
          BY <1>11
        <5> HIDE DEF n, b, f, l, c
        <5>2. n + (b - 1) + (f + 1) + l + c = n + b + f + l + c
          BY <5>1
        <5>3. QED
          BY <5>2 DEF n, b, f, l, c
      <4>5. Count(p)' = Count(p)
        BY <1>10, <4>1, <4>2
      <4>3. QED
        BY <1>1, <2>1, <4>5
  <2>3. CASE p # q
    <3>1. finished'[p] = finished[p] /\ \A v \in Worker : wjob'[p][v] = wjob[p][v]
      BY <1>6, <2>3, FinishEffect
    <3>2. Busy(p)' = Busy(p)
      BY <3>1 DEF Busy
    <3>3. QED
      BY <1>1, <2>1, <3>1, <3>2 DEF Count
  <2>4. QED
    BY <2>2, <2>3
<1>7. CASE Detach /\ started[side]
  <2>1. /\ UNCHANGED <<queue, wjob, side>> /\ batch = << >> /\ batch' = finished[side]
        /\ finished'[p] = IF p = side THEN << >> ELSE finished[p]
    BY <1>7, DetachEffect
  <2>2. outstanding' = outstanding /\ mpc # "callback" /\ mpc' # "callback"
    BY <1>7 DEF Detach
  <2>3. Busy(p)' = Busy(p) /\ Calling(p) = 0 /\ Calling(p)' = 0
    BY <2>1, <2>2 DEF Busy, Calling
  <2>4. Len(finished'[p]) + Len(BatchOf(p)') = Len(finished[p]) + Len(BatchOf(p))
    <3>1. Len(<< >>) = 0
      OBVIOUS
    <3>2. CASE p = side
      BY <2>1, <3>1, <3>2, CountTyped DEF BatchOf
    <3>3. CASE p # side
      BY <2>1, <3>3 DEF BatchOf
    <3>4. QED
      BY <3>2, <3>3
  <2>5. Len(finished'[p]) \in Nat /\ Len(BatchOf(p)') \in Nat
    <3>1. Sorted'
      BY SortedStep
    <3>2. QED
      BY <3>1 DEF Sorted
  <2>6. QED
    BY <1>1, <2>1, <2>2, <2>3, <2>4, <2>5, CountTyped DEF Count
<1>8. CASE Deliver /\ batch # << >>
  <2>1. /\ UNCHANGED <<queue, finished, wjob, side>> /\ side \in Pool
        /\ BatchOf(p)' = IF p = side THEN Tail(batch) ELSE BatchOf(p)
    BY <1>8, DeliverEffect
  <2>2. outstanding' = outstanding /\ mpc = "deliver" /\ mpc' = "callback"
    BY <1>8 DEF Deliver, pools
  <2>3. Busy(p)' = Busy(p) /\ Calling(p) = 0 /\ Calling(p)' = IF p = side THEN 1 ELSE 0
    BY <2>1, <2>2 DEF Busy, Calling
  <2>4. p = side => BatchOf(p) = batch /\ Len(Tail(batch)) = Len(batch) - 1
    BY <1>8, HeadTailProperties DEF IInv, Sorted, BatchOf
  <2>5. CASE p = side
    <3>1. Count(p)' = Len(queue[p]) + Cardinality(Busy(p)) + Len(finished[p]) + (Len(BatchOf(p)) - 1) + 1
      BY <2>1, <2>3, <2>4, <2>5 DEF Count
    <3>2. Len(queue[p]) + Cardinality(Busy(p)) + Len(finished[p]) + (Len(BatchOf(p)) - 1) + 1
          = Len(queue[p]) + Cardinality(Busy(p)) + Len(finished[p]) + Len(BatchOf(p)) + 0
      <4> DEFINE q == Len(queue[p])
                 b == Cardinality(Busy(p))
                 f == Len(finished[p])
                 l == Len(BatchOf(p))
      <4>1. q \in Nat /\ b \in Nat /\ f \in Nat /\ l \in Nat
        BY <1>11
      <4> HIDE DEF q, b, f, l
      <4>2. q + b + f + (l - 1) + 1 = q + b + f + l + 0
        BY <4>1
      <4>3. QED
        BY <4>2 DEF q, b, f, l
    <3>5. Count(p)' = Count(p)
      BY <1>10, <2>3, <3>1, <3>2
    <3>3. QED
      BY <1>1, <2>2, <3>5
  <2>6. CASE p # side
    BY <1>1, <2>1, <2>2, <2>3, <2>6 DEF Count
  <2>7. QED
    BY <2>5, <2>6
<1>9. CASE UserReturns /\ mpc = "callback"
  <2>1. UNCHANGED <<queue, finished, wjob, side, batch>>
    BY <1>9 DEF UserReturns, workers
  <2>2. /\ outstanding' = [outstanding EXCEPT ![side] = outstanding[side] - 1]
        /\ side \in Pool /\ mpc = "callback" /\ mpc' = "deliver"
    BY <1>9 DEF UserReturns, IInv, Typed, LoopTyped
  <2>3. /\ Busy(p)' = Busy(p) /\ BatchOf(p)' = BatchOf(p)
        /\ Calling(p) = IF p = side THEN 1 ELSE 0
        /\ Calling(p)' = 0
    BY <2>1, <2>2 DEF Busy, BatchOf, Calling
  <2>4. outstanding'[p] = IF p = side THEN outstanding[p] - 1 ELSE outstanding[p]
    BY <1>1, <2>2
  <2>5. QED
    BY <1>1, <2>1, <2>3, <2>4, CountTyped, SMTT(30) DEF Count
<1> QED
  BY <1>2, <1>3, <1>4, <1>5, <1>6, <1>7, <1>8, <1>9, Kinds DEF IInv

\* Every reachable state is well typed; in particular no counter goes below
\* zero, for any number of jobs, workers and dispatchers.
THEOREM PoolsTyped == Spec => []TypeOK
<1>1. IInv /\ Counted => TypeOK
  <2> SUFFICES ASSUME IInv, Counted PROVE TypeOK
    OBVIOUS
  <2>1. \A p \in Pool : outstanding[p] \in Nat
    BY CountTyped, SMTT(30) DEF Counted, Count
  <2>2. outstanding \in [Pool -> Nat]
    BY <2>1 DEF IInv, Typed, FlagsTyped
  <2>3. QED
    BY <2>2 DEF TypeOK, IInv, Typed, DispatchersTyped, WorkersTyped, ListsTyped, LoopTyped, FlagsTyped,
                HistoryTyped
<1>2. Counted /\ IInv /\ [Next]_vars => Counted'
  BY CountedStep
<1> QED
  BY <1>1, <1>2, CountedInit, Invariance, PTL DEF Spec

(***************************************************************************)
(* What the end of the loop means.                                         *)
(***************************************************************************)

\* Main hands jobs over from user code only, a thread while threads live.
OnDuty ==
  /\ dpc[Main] # "idle" => mpc \in UserPc
  /\ \A a \in Peer : dpc[a] # "idle" => threads

Over == mpc = "ended" => ~threads /\ \A p \in Pool : outstanding[p] = 0

LEMMA OnDutyStep ==
  ASSUME Typed, OnDuty, [Next]_vars
  PROVE  OnDuty'
<1> USE JobsAndPools DEF OnDuty, Dispatcher
<1>1. ASSUME NEW a \in Dispatcher, DispatchStep(a) PROVE OnDuty'
  <2>1. /\ dpc[a] # "idle" /\ mpc' = mpc /\ threads' = threads
        /\ (dpc' = dpc \/ \E x \in DispPc : dpc' = [dpc EXCEPT ![a] = x])
    BY <1>1 DEF DispatchStep, EnsurePool, OpenPipe, Spawn, Enqueue, SignalWork, loop, DispPc
  <2>2. \A b \in Dispatcher : b # a => dpc'[b] = dpc[b]
    BY <2>1 DEF Typed, DispatchersTyped
  <2>3. CASE a = Main
    BY <2>1, <2>2, <2>3
  <2>4. CASE a # Main
    BY <2>1, <2>2, <2>4
  <2>5. QED
    BY <2>3, <2>4
<1>2. ASSUME NEW a \in Dispatcher, NEW j \in Job, Send(a, j) PROVE OnDuty'
  <2>1. /\ mpc' = mpc /\ threads' = threads /\ \A b \in Dispatcher : b # a => dpc'[b] = dpc[b]
        /\ IF a = Main THEN mpc \in UserPc ELSE threads
    BY <1>2 DEF Send, Runs, loop, Typed, DispatchersTyped
  <2>2. QED
    BY <2>1
<1>3. ASSUME NEW p \in Pool, NEW w \in Worker, WorkerStep(p, w) \/ SpuriousWakeup(p, w) PROVE OnDuty'
  BY <1>3 DEF WorkerStep, Take, Finish, WriteWake, SpuriousWakeup, dispatcher, loop
<1>4. CASE UserReturns
  BY <1>4 DEF UserReturns, Runs, dispatcher
<1>5. CASE BuildPollSet \/ PollReturns \/ OtherEvent \/ Detach \/ ReadPipe \/ Deliver
  BY <1>5 DEF BuildPollSet, PollReturns, OtherEvent, Detach, ReadPipe, Deliver, dispatcher, UserPc
<1>6. CASE KillThreads
  BY <1>6 DEF KillThreads, dispatcher, loop
<1>7. CASE UNCHANGED vars
  BY <1>7 DEF vars, dispatcher, loop
<1> QED
  BY <1>1, <1>2, <1>3, <1>4, <1>5, <1>6, <1>7 DEF Next, MainStep, Ended

LEMMA OverStep ==
  ASSUME IInv, OnDuty, Over, [Next]_vars
  PROVE  Over'
<1>1. CASE BuildPollSet
  <2>1. /\ UNCHANGED <<outstanding, threads>>
        /\ (mpc' = "poll" \/ (mpc' = "ended" /\ outstanding["http"] = 0 /\ outstanding["io"] = 0 /\ ~threads))
    BY <1>1 DEF BuildPollSet, NothingOutstanding, pools
  <2>2. QED
    BY <2>1 DEF Over, Pool
<1>2. CASE UserReturns \/ PollReturns \/ OtherEvent \/ Detach \/ ReadPipe \/ Deliver
  <2>1. mpc' # "ended"
    BY <1>2 DEF UserReturns, PollReturns, OtherEvent, Detach, ReadPipe, Deliver, NextSide
  <2>2. QED
    BY <2>1 DEF Over
<1>3. CASE KillThreads
  <2>1. mpc \in UserPc /\ mpc' = mpc
    BY <1>3 DEF KillThreads, Runs, loop
  <2>2. QED
    BY <2>1 DEF Over, UserPc
<1>4. ASSUME NEW a \in Dispatcher, DispatchStep(a) PROVE Over'
  <2>1. dpc[a] # "idle" /\ mpc' = mpc
    BY <1>4 DEF DispatchStep, EnsurePool, OpenPipe, Spawn, Enqueue, SignalWork, loop
  <2>2. mpc # "ended"
    <3>1. CASE a = Main
      BY <2>1, <3>1 DEF OnDuty, UserPc
    <3>2. CASE a \in Peer
      BY <2>1, <3>2 DEF OnDuty, Over
    <3>3. QED
      BY <3>1, <3>2 DEF Dispatcher
  <2>3. QED
    BY <2>1, <2>2 DEF Over
<1>5. ASSUME NEW a \in Dispatcher, NEW j \in Job, Send(a, j) PROVE Over'
  BY <1>5 DEF Send, Over, loop, pools
<1>6. ASSUME NEW p \in Pool, NEW w \in Worker, WorkerStep(p, w) \/ SpuriousWakeup(p, w) PROVE Over'
  BY <1>6 DEF WorkerStep, Take, Finish, WriteWake, SpuriousWakeup, Over, loop, pools
<1>7. CASE UNCHANGED vars
  BY <1>7 DEF vars, Over, loop, pools
<1> QED
  BY <1>1, <1>2, <1>3, <1>4, <1>5, <1>6, <1>7 DEF Next, MainStep, Ended

\* The loop never returns under a job: with both counters at zero nothing is
\* queued, in work, or waiting for its callback (festina_run_http_loop).
THEOREM LoopEndsIdle == Spec => []EndsIdle
<1>1. Init => OnDuty /\ Over
  BY JobsAndPools DEF Init, OnDuty, Over, Dispatcher
<1>2. IInv /\ OnDuty /\ Over /\ [Next]_vars => OnDuty' /\ Over'
  BY OnDutyStep, OverStep DEF IInv
<1>3. IInv /\ Counted /\ [Next]_vars => Counted'
  BY CountedStep
<1>4. IInv /\ Counted /\ Over => EndsIdle
  <2> SUFFICES ASSUME IInv, Counted, Over, mpc = "ended", NEW p \in Pool
               PROVE  Pending(p) = {} /\ Ready(p) = << >>
    BY DEF EndsIdle
  <2>1. Len(queue[p]) + Cardinality(Busy(p)) + Len(finished[p]) + Len(BatchOf(p)) + Calling(p) = 0
    BY DEF Counted, Count, Over
  <2> DEFINE q == Len(queue[p])
             b == Cardinality(Busy(p))
             f == Len(finished[p])
             l == Len(BatchOf(p))
             c == Calling(p)
  <2>2. q \in Nat /\ b \in Nat /\ f \in Nat /\ l \in Nat /\ c \in Nat
    BY CountTyped
  <2>3. q + b + f + l + c = 0
    BY <2>1
  <2> HIDE DEF q, b, f, l, c
  <2>4. q = 0 /\ b = 0 /\ f = 0 /\ l = 0
    BY <2>2, <2>3
  <2>5. queue[p] \in Seq(JobsOf(p)) /\ finished[p] \in Seq(JobsOf(p)) /\ BatchOf(p) \in Seq(JobsOf(p))
    BY DEF IInv, Sorted
  <2>6. queue[p] = << >> /\ finished[p] = << >> /\ BatchOf(p) = << >>
    BY <2>4, <2>5, EmptySeq DEF q, f, l
  <2>7. Busy(p) = {}
    BY <2>4, BusyFinite, FS_EmptySet DEF b
  <2>8. Pending(p) = {}
    BY <2>6, <2>7 DEF Pending, Members, Working, Busy
  <2>9. Ready(p) = << >>
    BY <2>6 DEF Ready
  <2>10. QED
    BY <2>8, <2>9
<1> QED
  BY <1>1, <1>2, <1>3, <1>4, CountedInit, Invariance, PTL DEF Spec
=============================================================================
