-------------------------- MODULE HttpValues_proofs --------------------------
(***************************************************************************)
(* More proofs about HttpConnections: who releases the value of each       *)
(* request, on top of the order of a connection's requests, and, on top of *)
(* that, the types and bounds of every variable.                           *)
(***************************************************************************)
EXTENDS HttpOrder_proofs

\* The calls of request handlers on a stack. Where the value of request r is: with the context
\* whose handler will release it, in a queue, thrown away with a queue, released.
Running(st)  == {st[i] : i \in Serving(st)}
Holds(r, c)  == \E f \in Running(calls[c]) : f.req = r /\ ~ (c = Main /\ lastDetached = f.id)
Queues(r, w) == \E i \in DOMAIN inbox[w] : inbox[w][i].req = r
Tossed(r)    == \E l \in lost : l.req = r
Freed(r)     == released[r] > 0

HeldOnce(r) ==
  /\ r \in dispatched <=> \/ \E c \in Ctx : Holds(r, c)
                          \/ \E w \in Worker : Queues(r, w)
                          \/ Tossed(r) \/ Freed(r)
  /\ \A c, d \in Ctx : Holds(r, c) /\ Holds(r, d) => c = d
  /\ \A w, v \in Worker : Queues(r, w) /\ Queues(r, v) => w = v
  /\ \A c \in Ctx, w \in Worker : ~ (Holds(r, c) /\ Queues(r, w))
  /\ \A c \in Ctx : Holds(r, c) => ~ Tossed(r) /\ ~ Freed(r)
  /\ \A w \in Worker : Queues(r, w) => ~ Tossed(r) /\ ~ Freed(r)
  /\ ~ (Tossed(r) /\ Freed(r))

\* Every value that was made has one place, and is there once.
Places ==
  /\ \A r \in Req : HeldOnce(r) /\ released[r] <= 1
  /\ \A w \in Worker : \A i, j \in DOMAIN inbox[w] : inbox[w][i].req = inbox[w][j].req => i = j
  /\ \A l, m \in lost : l.req = m.req => l = m
Sized ==
  /\ released \in [Req -> Nat] /\ dispatched \subseteq Req
  /\ \A w \in Worker : \A i \in DOMAIN inbox[w] : inbox[w][i].req \in Req
  /\ \A c \in Ctx : \A f \in Running(calls[c]) : f.id \in Conn /\ f.req \in Req

\* What main remembers of the connection it gave away last: it is the one whose request's
\* handler is running, and it is not in main's table any more.
Gave ==
  /\ lastDetached # 0 => lastDetached \in given /\ \E f \in Running(calls[Main]) : f.id = lastDetached
  /\ \A id \in given : id \in Conn /\ id < nextId /\ id \notin IdsOf(slots[Main])

\* All requests differ, and those that have been dispatched have been sent.
Sent ==
  /\ \A id \in Conn : \A i \in 1..Len(asked[id]) : asked[id][i].req \in 1..nextReq-1
  /\ \A id, jd \in Conn : \A i \in 1..Len(asked[id]), j \in 1..Len(asked[jd]) :
       asked[id][i].req = asked[jd][j].req => id = jd /\ i = j
  /\ \A r \in dispatched : r < nextReq

\* Of the requests that a connection is not finished with, only the next may have been
\* dispatched, and only while its handler runs or it waits in a queue.
AheadOf(conn, n, qs, an, dd) ==
  conn.mode = "http" => \A i \in 1..Len(qs) : qs[i].req \in dd => i <= Finished(conn, an) + n
Pending(st, id) == IF \E f \in Running(st) : f.id = id THEN 1 ELSE 0
AheadAll(st, sl, qq, aa, dd) ==
  \A s \in Alive(sl) : AheadOf(sl[s], Pending(st, sl[s].id), qq[sl[s].id], aa[sl[s].id], dd)
AheadIn(c) == AheadAll(calls[c], slots[c], asked, answers, dispatched)
AheadQueued == \A w \in Worker : \A i \in DOMAIN inbox[w] :
  AheadOf(inbox[w][i].conn, 1, asked[inbox[w][i].conn.id], answers[inbox[w][i].conn.id], dispatched)
Ahead == AheadQueued /\ \A c \in Ctx : AheadIn(c)

Values == Places /\ Sized /\ Gave /\ Sent /\ Ahead

(***************************************************************************)
(* The ways a step moves a value.                                          *)
(***************************************************************************)

\* Nothing has happened to the value of r.
Still(r) ==
  /\ \A c \in Ctx : Holds(r, c)' <=> Holds(r, c)
  /\ \A w \in Worker : Queues(r, w)' <=> Queues(r, w)
  /\ Tossed(r)' <=> Tossed(r)
  /\ Freed(r)' <=> Freed(r)
  /\ (r \in dispatched)' <=> r \in dispatched

LEMMA HeldStill == ASSUME NEW r \in Req, HeldOnce(r), Still(r) PROVE HeldOnce(r)'
<1>1. QED
  BY DEF HeldOnce, Still

\* None moves.
LEMMA PlacesSame ==
  ASSUME Places, \A d \in Ctx : \A r \in Req : Holds(r, d)' <=> Holds(r, d),
         UNCHANGED <<inbox, lost, released, dispatched>>
  PROVE  Places'
<1>1. ASSUME NEW r \in Req PROVE Still(r)
  BY DEF Still, Queues, Tossed, Freed
<1>2. ASSUME NEW r \in Req PROVE HeldOnce(r)' /\ (released[r] <= 1)'
  BY <1>1, HeldStill DEF Places
<1>3. QED
  BY <1>2 DEF Places

\* The value of q is made.
LEMMA PlacesDispatch ==
  ASSUME Places, NEW c \in Ctx, NEW q \in Req, q \notin dispatched,
         \A r \in Req : Holds(r, c)' <=> Holds(r, c) \/ r = q,
         \A d \in Ctx \ {c} : \A r \in Req : Holds(r, d)' <=> Holds(r, d),
         dispatched' = dispatched \cup {q}, UNCHANGED <<inbox, lost, released>>
  PROVE  Places'
<1>1. \A r \in Req : /\ \A w \in Worker : Queues(r, w)' <=> Queues(r, w)
                     /\ Tossed(r)' <=> Tossed(r)
                     /\ Freed(r)' <=> Freed(r)
  BY DEF Queues, Tossed, Freed
<1>2. ASSUME NEW r \in Req PROVE HeldOnce(r)'
  <2>1. CASE r = q
    BY <1>1, <2>1 DEF Places, HeldOnce
  <2>2. CASE r # q
    <3>1. Still(r)
      BY <1>1, <2>2 DEF Still
    <3>2. QED
      BY <3>1, HeldStill DEF Places
  <2>3. QED
    BY <2>1, <2>2
<1>3. QED
  BY <1>2 DEF Places

\* Context c releases the value of q.
LEMMA PlacesRelease ==
  ASSUME Places, released \in [Req -> Nat], NEW c \in Ctx, NEW q \in Req, Holds(q, c),
         \A r \in Req : Holds(r, c)' <=> Holds(r, c) /\ r # q,
         \A d \in Ctx \ {c} : \A r \in Req : Holds(r, d)' <=> Holds(r, d),
         released' = [released EXCEPT ![q] = @ + 1], UNCHANGED <<inbox, lost, dispatched>>
  PROVE  Places'
<1>1. \A r \in Req : (\A w \in Worker : Queues(r, w)' <=> Queues(r, w)) /\ (Tossed(r)' <=> Tossed(r))
  BY DEF Queues, Tossed
<1>2. ~ Freed(q) /\ released[q] = 0 /\ Freed(q)' /\ released'[q] = 1
  <2>1. ~ Freed(q) /\ released[q] \in Nat
    BY DEF Places, HeldOnce
  <2>2. QED
    BY <2>1 DEF Freed
<1>3. \A r \in Req \ {q} : released'[r] = released[r] /\ (Freed(r)' <=> Freed(r))
  BY DEF Freed
<1>4. ASSUME NEW r \in Req PROVE HeldOnce(r)' /\ released'[r] <= 1
  <2>1. CASE r = q
    BY <1>1, <1>2, <2>1 DEF Places, HeldOnce
  <2>2. CASE r # q
    <3>1. Still(r)
      BY <1>1, <1>3, <2>2 DEF Still
    <3>2. QED
      BY <1>3, <2>2, <3>1, HeldStill DEF Places
  <2>3. QED
    BY <2>1, <2>2
<1>5. QED
  BY <1>4 DEF Places

\* It goes from main to the end of w's queue.
LEMMA PlacesGive ==
  ASSUME Places, inbox \in [Worker -> Seq(Parcel)], NEW w \in Worker, NEW p \in Parcel, p.req \in Req,
         Main \in Ctx, Holds(p.req, Main),
         \A r \in Req : Holds(r, Main)' <=> Holds(r, Main) /\ r # p.req,
         \A d \in Ctx \ {Main} : \A r \in Req : Holds(r, d)' <=> Holds(r, d),
         inbox' = [inbox EXCEPT ![w] = Append(@, p)], UNCHANGED <<lost, released, dispatched>>
  PROVE  Places'
<1> DEFINE q == p.req
<1>1. \A r \in Req : (Tossed(r)' <=> Tossed(r)) /\ (Freed(r)' <=> Freed(r))
  BY DEF Tossed, Freed
<1>2. \A v \in Worker \ {w} : inbox'[v] = inbox[v]
  OBVIOUS
<1>3. /\ inbox'[w] = Append(inbox[w], p) /\ inbox[w] \in Seq(Parcel)
      /\ DOMAIN inbox[w] = 1..Len(inbox[w]) /\ DOMAIN inbox'[w] = 1..(Len(inbox[w]) + 1) /\ Len(inbox[w]) \in Nat
      /\ \A i \in 1..Len(inbox[w]) : inbox'[w][i] = inbox[w][i]
      /\ inbox'[w][Len(inbox[w]) + 1] = p
  <2>1. inbox[w] \in Seq(Parcel) /\ inbox'[w] = Append(inbox[w], p)
    OBVIOUS
  <2>2. QED
    BY <2>1, AppendProperties, LenProperties
<1>4. \A r : Queues(r, w)' <=> Queues(r, w) \/ r = q
  BY <1>3 DEF Queues
<1>5. \A r : \A v \in Worker \ {w} : Queues(r, v)' <=> Queues(r, v)
  BY <1>2 DEF Queues
<1>6. ~ Queues(q, w)
  BY DEF Places, HeldOnce
<1>7. ASSUME NEW r \in Req PROVE HeldOnce(r)'
  <2>1. CASE r = q
    <3>1. /\ \A c \in Ctx : Holds(q, c) => c = Main
          /\ \A v \in Worker : ~ Queues(q, v)
          /\ ~ Tossed(q) /\ ~ Freed(q) /\ q \in dispatched
      BY DEF Places, HeldOnce
    <3>2. /\ \A c \in Ctx : ~ Holds(q, c)'
          /\ Queues(q, w)' /\ \A v \in Worker : Queues(q, v)' => v = w
          /\ ~ Tossed(q)' /\ ~ Freed(q)' /\ (q \in dispatched)'
      BY <1>1, <1>4, <1>5, <3>1
    <3>3. HeldOnce(q)'
      BY <3>2 DEF HeldOnce
    <3>4. QED
      BY <2>1, <3>3
  <2>2. CASE r # q
    <3>1. Still(r)
      BY <1>1, <1>4, <1>5, <2>2 DEF Still
    <3>2. QED
      BY <3>1, HeldStill DEF Places
  <2>3. QED
    BY <2>1, <2>2
<1>8. ASSUME NEW v \in Worker, NEW i \in DOMAIN inbox'[v], NEW j \in DOMAIN inbox'[v], inbox'[v][i].req = inbox'[v][j].req
      PROVE  i = j
  <2>1. CASE v # w
    BY <1>2, <1>8, <2>1 DEF Places
  <2>2. CASE v = w
    <3>1. \A k \in DOMAIN inbox[w] : inbox[w][k].req # q
      BY <1>6 DEF Queues
    <3>2. QED
      BY <1>3, <1>8, <2>2, <3>1 DEF Places
  <2>3. QED
    BY <2>1, <2>2
<1>9. QED
  BY <1>7, <1>8 DEF Places

\* It goes from the head of w's queue to w.
LEMMA PlacesDeliver ==
  ASSUME Places, inbox \in [Worker -> Seq(Parcel)], NEW w \in Worker, w \in Ctx, inbox[w] # << >>,
         NEW q \in Req, q = Head(inbox[w]).req,
         \A r \in Req : Holds(r, w)' <=> Holds(r, w) \/ r = q,
         \A d \in Ctx \ {w} : \A r \in Req : Holds(r, d)' <=> Holds(r, d),
         inbox' = [inbox EXCEPT ![w] = Tail(@)], UNCHANGED <<lost, released, dispatched>>
  PROVE  Places'
<1>1. \A r \in Req : (Tossed(r)' <=> Tossed(r)) /\ (Freed(r)' <=> Freed(r))
  BY DEF Tossed, Freed
<1>2. \A v \in Worker \ {w} : inbox'[v] = inbox[v]
  OBVIOUS
<1>3. /\ inbox'[w] = Tail(inbox[w]) /\ inbox[w] \in Seq(Parcel) /\ 1 \in DOMAIN inbox[w] /\ inbox[w][1].req = q
      /\ DOMAIN inbox[w] = 1..Len(inbox[w]) /\ Len(inbox[w]) \in Nat \ {0} /\ DOMAIN Tail(inbox[w]) = 1..(Len(inbox[w]) - 1)
      /\ \A i \in 1..(Len(inbox[w]) - 1) : Tail(inbox[w])[i] = inbox[w][i + 1]
  <2>1. inbox[w] \in Seq(Parcel) /\ inbox'[w] = Tail(inbox[w])
    OBVIOUS
  <2>2. QED
    BY <2>1, HeadTailProperties, LenProperties, EmptySeq
<1>4. \A r : Queues(r, w)' <=> Queues(r, w) /\ r # q
  <2>1. ASSUME NEW r, Queues(r, w)' PROVE Queues(r, w) /\ r # q
    <3>1. PICK i \in DOMAIN inbox'[w] : inbox'[w][i].req = r
      BY <2>1 DEF Queues
    <3>2. i + 1 \in DOMAIN inbox[w] /\ inbox[w][i + 1].req = r /\ i + 1 # 1
      BY <1>3, <3>1
    <3>3. QED
      BY <1>3, <3>2 DEF Queues, Places
  <2>2. ASSUME NEW r, Queues(r, w), r # q PROVE Queues(r, w)'
    <3>1. PICK i \in DOMAIN inbox[w] : inbox[w][i].req = r
      BY <2>2 DEF Queues
    <3>2. i # 1 /\ i - 1 \in DOMAIN inbox'[w] /\ inbox'[w][i - 1] = inbox[w][(i - 1) + 1] /\ (i - 1) + 1 = i
      BY <1>3, <2>2, <3>1
    <3>3. QED
      BY <3>1, <3>2 DEF Queues
  <2>3. QED
    BY <2>1, <2>2
<1>5. \A r : \A v \in Worker \ {w} : Queues(r, v)' <=> Queues(r, v)
  BY <1>2 DEF Queues
<1>6. Queues(q, w)
  BY <1>3 DEF Queues
<1>7. ASSUME NEW r \in Req PROVE HeldOnce(r)'
  <2>1. CASE r = q
    <3>1. /\ \A c \in Ctx : ~ Holds(q, c)
          /\ \A v \in Worker : Queues(q, v) => v = w
          /\ ~ Tossed(q) /\ ~ Freed(q) /\ q \in dispatched
      BY <1>6 DEF Places, HeldOnce
    <3>2. /\ Holds(q, w)' /\ \A c \in Ctx : Holds(q, c)' => c = w
          /\ \A v \in Worker : ~ Queues(q, v)'
          /\ ~ Tossed(q)' /\ ~ Freed(q)' /\ (q \in dispatched)'
      BY <1>1, <1>4, <1>5, <3>1
    <3>3. HeldOnce(q)'
      BY <3>2 DEF HeldOnce
    <3>4. QED
      BY <2>1, <3>3
  <2>2. CASE r # q
    <3>1. Still(r)
      BY <1>1, <1>4, <1>5, <2>2 DEF Still
    <3>2. QED
      BY <3>1, HeldStill DEF Places
  <2>3. QED
    BY <2>1, <2>2
<1>8. ASSUME NEW v \in Worker, NEW i \in DOMAIN inbox'[v], NEW j \in DOMAIN inbox'[v], inbox'[v][i].req = inbox'[v][j].req
      PROVE  i = j
  <2>1. CASE v # w
    BY <1>2, <1>8, <2>1 DEF Places
  <2>2. CASE v = w
    <3>1. /\ i \in 1..(Len(inbox[w]) - 1) /\ j \in 1..(Len(inbox[w]) - 1)
          /\ i + 1 \in DOMAIN inbox[w] /\ j + 1 \in DOMAIN inbox[w]
      BY <1>3, <1>8, <2>2
    <3>2. inbox[w][i + 1].req = inbox[w][j + 1].req
      BY <1>3, <1>8, <2>2, <3>1
    <3>3. i + 1 = j + 1
      BY <3>1, <3>2 DEF Places
    <3>4. QED
      BY <3>1, <3>3
  <2>3. QED
    BY <2>1, <2>2
<1>9. QED
  BY <1>7, <1>8 DEF Places

\* What is in w's queue is thrown away.
LEMMA PlacesJoin ==
  ASSUME Places, inbox \in [Worker -> Seq(Parcel)], NEW w \in Worker,
         \A d \in Ctx : \A r \in Req : Holds(r, d)' <=> Holds(r, d),
         inbox' = [inbox EXCEPT ![w] = << >>], lost' = lost \cup Discarded(w), UNCHANGED <<released, dispatched>>,
         \A i \in DOMAIN inbox[w] : inbox[w][i].req \in Req
  PROVE  Places'
<1>1. inbox'[w] = << >> /\ \A v \in Worker \ {w} : inbox'[v] = inbox[v]
  OBVIOUS
<1>2. \A r \in Req : Freed(r)' <=> Freed(r)
  BY DEF Freed
<1>3. \A l : l \in Discarded(w) <=> \E i \in DOMAIN inbox[w] : l = [id |-> inbox[w][i].conn.id, req |-> inbox[w][i].req]
  BY DEF Discarded
<1>4. \A r : (\E l \in Discarded(w) : l.req = r) <=> Queues(r, w)
  <2>1. ASSUME NEW r, NEW l \in Discarded(w), l.req = r PROVE Queues(r, w)
    <3>1. PICK i \in DOMAIN inbox[w] : l = [id |-> inbox[w][i].conn.id, req |-> inbox[w][i].req]
      BY <1>3, <2>1
    <3>2. QED
      BY <2>1, <3>1 DEF Queues
  <2>2. ASSUME NEW r, Queues(r, w) PROVE \E l \in Discarded(w) : l.req = r
    <3>1. PICK i \in DOMAIN inbox[w] : inbox[w][i].req = r
      BY <2>2 DEF Queues
    <3>2. [id |-> inbox[w][i].conn.id, req |-> inbox[w][i].req] \in Discarded(w)
      BY <1>3
    <3>3. QED
      BY <3>1, <3>2
  <2>3. QED
    BY <2>1, <2>2
<1>5. \A r : Tossed(r)' <=> Tossed(r) \/ Queues(r, w)
  <2> HIDE DEF Discarded
  <2>1. QED
    BY <1>4 DEF Tossed
<1>6. \A r : ~ Queues(r, w)' /\ \A v \in Worker \ {w} : Queues(r, v)' <=> Queues(r, v)
  BY <1>1 DEF Queues
<1>7. ASSUME NEW r \in Req PROVE HeldOnce(r)'
  <2>1. CASE Queues(r, w)
    <3>1. /\ \A c \in Ctx : ~ Holds(r, c)
          /\ \A v \in Worker : Queues(r, v) => v = w
          /\ ~ Tossed(r) /\ ~ Freed(r) /\ r \in dispatched
      BY <2>1 DEF Places, HeldOnce
    <3>2. /\ \A c \in Ctx : ~ Holds(r, c)'
          /\ \A v \in Worker : ~ Queues(r, v)'
          /\ Tossed(r)' /\ ~ Freed(r)' /\ (r \in dispatched)'
      BY <1>2, <1>5, <1>6, <2>1, <3>1
    <3>3. QED
      BY <3>2 DEF HeldOnce
  <2>2. CASE ~ Queues(r, w)
    <3>1. Still(r)
      BY <1>2, <1>5, <1>6, <2>2 DEF Still
    <3>2. QED
      BY <3>1, HeldStill DEF Places
  <2>3. QED
    BY <2>1, <2>2
<1>8. ASSUME NEW l \in lost', NEW m \in lost', l.req = m.req PROVE l = m
  <2>1. \A k \in Discarded(w) : Queues(k.req, w) /\ k.req \in Req
    BY <1>3 DEF Queues
  <2>2. \A k \in Discarded(w) : ~ Tossed(k.req)
    BY <2>1 DEF Places, HeldOnce
  <2>3. CASE l \in lost /\ m \in lost
    BY <1>8, <2>3 DEF Places
  <2>4. CASE l \in Discarded(w) /\ m \in Discarded(w)
    <3>1. PICK i \in DOMAIN inbox[w] : l = [id |-> inbox[w][i].conn.id, req |-> inbox[w][i].req]
      BY <1>3, <2>4
    <3>2. PICK j \in DOMAIN inbox[w] : m = [id |-> inbox[w][j].conn.id, req |-> inbox[w][j].req]
      BY <1>3, <2>4
    <3>3. i = j
      BY <1>8, <3>1, <3>2 DEF Places
    <3>4. QED
      BY <3>1, <3>2, <3>3
  <2>5. CASE (l \in lost /\ m \in Discarded(w)) \/ (l \in Discarded(w) /\ m \in lost)
    BY <1>8, <2>2, <2>5 DEF Tossed
  <2>6. QED
    BY <1>8, <2>3, <2>4, <2>5
<1>9. \A v \in Worker : \A i, j \in DOMAIN inbox'[v] : inbox'[v][i].req = inbox'[v][j].req => i = j
  BY <1>1 DEF Places
<1>10. QED
  BY <1>7, <1>8, <1>9 DEF Places

(***************************************************************************)
(* What a step does to the handlers that run, and to the requests ahead.   *)
(***************************************************************************)

LEMMA RunPush ==
  ASSUME NEW st, NEW tt, NEW f, Pushed(st, tt, f), f.at # "request"
  PROVE  Running(tt) = Running(st)
<1>1. Serving(tt) = Serving(st) /\ \A i \in Serving(st) : tt[i] = st[i]
  BY DEF Pushed, Serving
<1>2. QED
  BY <1>1 DEF Running

LEMMA RunPop ==
  ASSUME NEW st, NEW tt, NEW f, Popped(st, tt, f), f.at # "request"
  PROVE  Running(tt) = Running(st)
<1>1. Serving(tt) = Serving(st) /\ \A i \in Serving(st) : tt[i] = st[i]
  BY DEF Popped, Serving
<1>2. QED
  BY <1>1 DEF Running

LEMMA RunNone == ASSUME NEW st, Serving(st) = {} PROVE Running(st) = {}
<1>1. QED
  BY DEF Running

LEMMA RunSolo ==
  ASSUME NEW f
  PROVE  /\ Running(<< >>) = {}
         /\ f.at # "request" => Running(<<f>>) = {}
         /\ f.at = "request" => Running(<<f>>) = {f}
<1>1. DOMAIN <<f>> = {1} /\ <<f>>[1] = f /\ DOMAIN << >> = {}
  OBVIOUS
<1>2. Serving(<< >>) = {} /\ (f.at # "request" => Serving(<<f>>) = {}) /\ (f.at = "request" => Serving(<<f>>) = {1})
  BY <1>1 DEF Serving
<1>3. QED
  BY <1>1, <1>2 DEF Running

LEMMA RunFirst ==
  ASSUME NEW st, Serving(st) = {}, NEW tt, NEW f, Pushed(st, tt, f), f.at = "request"
  PROVE  Running(tt) = {f}
<1>1. Serving(tt) = {Len(st) + 1} /\ tt[Len(st) + 1] = f
  BY DEF Pushed, Serving
<1>2. QED
  BY <1>1 DEF Running

\* A context in a request's handler runs no other.
LEMMA RunTop ==
  ASSUME IInv, Order, NEW c \in Ctx, ~ Idle(c), Top(c).at = "request"
  PROVE  Running(calls[c]) = {Top(c)} /\ Running(Beneath(c)) = {} /\ Serving(Beneath(c)) = {}
<1>1. /\ Busy(calls[c], slots[c]) /\ Serving(Beneath(c)) = {} /\ Popped(calls[c], Beneath(c), Top(c))
  BY OrderUnder
<1>2. Len(calls[c]) \in Serving(calls[c]) /\ calls[c][Len(calls[c])] = Top(c)
  BY <1>1 DEF Popped, Serving
<1>3. Serving(calls[c]) = {Len(calls[c])}
  BY <1>1, <1>2 DEF Busy
<1>4. Running(calls[c]) = {Top(c)}
  BY <1>2, <1>3 DEF Running
<1>5. QED
  BY <1>1, <1>4, RunNone

LEMMA PendingFacts ==
  ASSUME NEW st, NEW id
  PROVE  /\ Pending(st, id) \in {0, 1}
         /\ \A tt : Running(tt) = Running(st) => Pending(tt, id) = Pending(st, id)
         /\ Running(st) = {} => Pending(st, id) = 0
         /\ \A f : Running(st) = {f} => Pending(st, id) = IF f.id = id THEN 1 ELSE 0
<1>1. QED
  BY DEF Pending

LEMMA FinishedInt ==
  ASSUME NEW conn, NEW an \in Seq(0..MaxReq)
  PROVE  Finished(conn, an) \in Int
<1>1. QED
  BY LenProperties DEF Finished

\* Nothing of a connection that is still ahead has come nearer to dispatch.
LEMMA AheadMore ==
  ASSUME NEW x, NEW y, NEW n \in {0, 1}, NEW m \in {0, 1}, NEW qs \in Seq(Item), NEW an \in Seq(0..MaxReq),
         NEW bn \in Seq(0..MaxReq), NEW dd, AheadOf(y, m, qs, an, dd),
         x.mode = "http" => y.mode = "http" /\ Finished(y, an) + m <= Finished(x, bn) + n
  PROVE  AheadOf(x, n, qs, bn, dd)
<1>1. SUFFICES ASSUME x.mode = "http", NEW i \in 1..Len(qs), qs[i].req \in dd PROVE i <= Finished(x, bn) + n
  BY DEF AheadOf
<1>2. i <= Finished(y, an) + m /\ Finished(y, an) + m <= Finished(x, bn) + n
  BY <1>1 DEF AheadOf
<1>3. i \in Int /\ Finished(y, an) \in Int /\ Finished(x, bn) \in Int
  BY <1>1, FinishedInt, LenProperties
<1>4. QED
  BY <1>2, <1>3

\* The record x that c's table holds after a step is the record y it held before, a request
\* further or not.
Follows(c, x, y) ==
  /\ x.id = y.id
  /\ x.mode = "http" => /\ y.mode = "http"
                        /\ Finished(y, answers[x.id]) + Pending(calls[c], x.id)
                             <= Finished(x, answers'[x.id]) + Pending(calls'[c], x.id)
Traced(c) ==
  /\ \A k \in Conn : k \notin IdsOf(slots[c]) => answers'[k] = answers[k]
  /\ \A s \in Alive(slots'[c]) :
       \/ slots'[c][s].id \in Conn /\ slots'[c][s].id >= nextId
       \/ \E r \in Alive(slots[c]) : Follows(c, slots'[c][s], slots[c][r])

LEMMA AheadStep ==
  ASSUME IInv, Order, Ahead, NEW c \in Ctx, \A d \in Ctx \ {c} : slots'[d] = slots[d] /\ calls'[d] = calls[d],
         Traced(c), answers' \in [Conn -> Seq(0..MaxReq)], UNCHANGED <<inbox, asked, dispatched>>
  PROVE  Ahead'
<1>1. /\ answers \in [Conn -> Seq(0..MaxReq)] /\ asked \in [Conn -> Seq(Item)] /\ Contexts /\ Owners /\ Queued
  BY DEF IInv, Types, Core, Order, Histories
<1>2. ASSUME NEW s \in Alive(slots'[c])
      PROVE  AheadOf(slots'[c][s], Pending(calls'[c], slots'[c][s].id), asked[slots'[c][s].id],
                     answers'[slots'[c][s].id], dispatched)
  <2> DEFINE x == slots'[c][s]
  <2>1. CASE x.id \in Conn /\ x.id >= nextId
    <3>1. asked[x.id] = << >>
      BY <2>1 DEF Order, Unborn
    <3>2. Len(asked[x.id]) = 0
      BY <3>1
    <3> HIDE DEF x
    <3>3. QED
      BY <3>2 DEF AheadOf, x
  <2>2. CASE \E r \in Alive(slots[c]) : Follows(c, x, slots[c][r])
    <3>1. PICK r \in Alive(slots[c]) : Follows(c, x, slots[c][r])
      BY <2>2
    <3> DEFINE y == slots[c][r]
    <3>2. x.id = y.id /\ y.id \in Conn
      BY <1>1, <3>1, IdsInConn DEF Follows
    <3>3. AheadOf(y, Pending(calls[c], y.id), asked[y.id], answers[y.id], dispatched)
      BY DEF Ahead, AheadIn, AheadAll
    <3>4. asked[y.id] \in Seq(Item) /\ answers[y.id] \in Seq(0..MaxReq) /\ answers'[y.id] \in Seq(0..MaxReq)
      BY <1>1, <3>2
    <3>5. Pending(calls[c], y.id) \in {0, 1} /\ Pending(calls'[c], y.id) \in {0, 1}
      BY PendingFacts
    <3>6. x.mode = "http" => /\ y.mode = "http"
                             /\ Finished(y, answers[y.id]) + Pending(calls[c], y.id)
                                  <= Finished(x, answers'[y.id]) + Pending(calls'[c], y.id)
      BY <3>1, <3>2 DEF Follows
    <3> HIDE DEF x, y
    <3>7. AheadOf(x, Pending(calls'[c], y.id), asked[y.id], answers'[y.id], dispatched)
      BY <3>3, <3>4, <3>5, <3>6, AheadMore
    <3>8. QED
      BY <3>2, <3>7 DEF x
  <2>3. QED
    BY <2>1, <2>2 DEF Traced
<1>3. AheadIn(c)'
  BY <1>2 DEF AheadIn, AheadAll
<1>4. ASSUME NEW d \in Ctx \ {c} PROVE AheadIn(d)'
  <2>1. ASSUME NEW s \in Alive(slots[d]) PROVE answers'[slots[d][s].id] = answers[slots[d][s].id]
    <3>1. slots[d][s].id \in Conn /\ InTable(slots[d][s].id, d)
      BY <1>1, <2>1, IdsInConn DEF InTable
    <3>2. ~ InTable(slots[d][s].id, c)
      BY <1>1, <1>4, <3>1 DEF Owners, OwnedOnce
    <3>3. QED
      BY <3>1, <3>2 DEF Traced, InTable
  <2>2. AheadIn(d) /\ slots'[d] = slots[d] /\ calls'[d] = calls[d]
    BY <1>4 DEF Ahead
  <2>3. QED
    BY <2>1, <2>2 DEF AheadIn, AheadAll
<1>5. AheadQueued'
  <2>1. ASSUME NEW w \in Worker, NEW i \in DOMAIN inbox[w] PROVE answers'[inbox[w][i].conn.id] = answers[inbox[w][i].conn.id]
    <3>1. inbox[w][i].conn.id \in Conn /\ InQueue(inbox[w][i].conn.id, w)
      BY <1>1, <2>1 DEF Queued, InQueue, QueuedConns
    <3>2. ~ InTable(inbox[w][i].conn.id, c)
      BY <1>1, <3>1 DEF Owners, OwnedOnce
    <3>3. QED
      BY <3>1, <3>2 DEF Traced, InTable
  <2>2. QED
    BY <2>1 DEF Ahead, AheadQueued
<1>6. QED
  BY <1>3, <1>4, <1>5 DEF Ahead

\* What main has given away is not in its table after such a step, either.
LEMMA GivenStep ==
  ASSUME Values, IInv, NEW c \in Ctx, \A d \in Ctx \ {c} : slots'[d] = slots[d], Traced(c), given' = given,
         nextId' \in Nat, nextId' >= nextId
  PROVE  \A id \in given' : id \in Conn /\ id < nextId' /\ id \notin IdsOf(slots'[Main])
<1>1. SUFFICES ASSUME NEW id \in given PROVE id \in Conn /\ id < nextId' /\ id \notin IdsOf(slots'[Main])
  OBVIOUS
<1>2. id \in Conn /\ id < nextId /\ id \notin IdsOf(slots[Main]) /\ nextId \in Nat /\ id \in Nat
  <2>1. id \in Conn /\ id < nextId /\ id \notin IdsOf(slots[Main])
    BY <1>1 DEF Values, Gave
  <2>2. nextId \in Nat
    BY ConnFacts DEF IInv, Types
  <2>3. QED
    BY <2>1, <2>2, ConnFacts DEF Conn
<1>3. CASE c # Main
  BY <1>2, <1>3, CtxFacts
<1>4. CASE c = Main
  <2>1. ASSUME NEW s \in Alive(slots'[Main]) PROVE slots'[Main][s].id # id
    <3>1. CASE slots'[Main][s].id \in Conn /\ slots'[Main][s].id >= nextId
      BY <1>2, <3>1
    <3>2. CASE \E r \in Alive(slots[c]) : Follows(c, slots'[c][s], slots[c][r])
      BY <1>2, <1>4, <3>2 DEF Follows, IdsOf
    <3>3. QED
      BY <1>4, <2>1, <3>1, <3>2 DEF Traced
  <2>2. QED
    BY <1>2, <2>1 DEF IdsOf
<1>5. QED
  BY <1>3, <1>4

\* A step of c that moves no value.
LEMMA ValuesStep ==
  ASSUME IInv, Order, Values, NEW c \in Ctx, \A d \in Ctx \ {c} : slots'[d] = slots[d] /\ calls'[d] = calls[d],
         Running(calls'[c]) = Running(calls[c]), Traced(c), answers' \in [Conn -> Seq(0..MaxReq)],
         UNCHANGED <<inbox, lost, released, dispatched, lastDetached, given, asked, nextReq>>,
         nextId' \in Nat, nextId' >= nextId
  PROVE  Values'
<1>1. \A d \in Ctx : Running(calls'[d]) = Running(calls[d])
  OBVIOUS
<1>2. \A d \in Ctx : \A r \in Req : Holds(r, d)' <=> Holds(r, d)
  BY <1>1 DEF Holds
<1>3. Places'
  BY <1>2, PlacesSame DEF Values
<1>4. Sized'
  BY <1>1 DEF Values, Sized
<1>5. Gave'
  BY <1>1, GivenStep, CtxFacts DEF Values, Gave
<1>6. Sent'
  BY DEF Values, Sent
<1>7. Ahead'
  BY AheadStep DEF Values
<1>8. QED
  BY <1>3, <1>4, <1>5, <1>6, <1>7 DEF Values

\* It changes a stack only.
LEMMA ValuesCalls ==
  ASSUME IInv, Order, Values, NEW c \in Ctx, NEW st, calls' = [calls EXCEPT ![c] = st],
         Running(st) = Running(calls[c]),
         UNCHANGED <<slots, inbox, lost, released, dispatched, lastDetached, given, asked, answers, nextReq, nextId>>
  PROVE  Values'
<1>1. calls'[c] = st /\ \A d \in Ctx \ {c} : slots'[d] = slots[d] /\ calls'[d] = calls[d]
  BY DEF IInv, Types
<1>2. answers' \in [Conn -> Seq(0..MaxReq)] /\ nextId' \in Nat /\ nextId' >= nextId
  BY DEF IInv, Types, Order, Histories
<1>3. ASSUME NEW s \in Alive(slots'[c]) PROVE Follows(c, slots'[c][s], slots[c][s]) /\ s \in Alive(slots[c])
  <2>1. Pending(calls'[c], slots[c][s].id) = Pending(calls[c], slots[c][s].id)
    BY <1>1, PendingFacts
  <2>2. Finished(slots[c][s], answers[slots[c][s].id]) + Pending(calls[c], slots[c][s].id) \in Int
    <3>1. slots[c][s].id \in Conn
      BY <1>3, OrderUnder, IdsInConn
    <3>2. answers[slots[c][s].id] \in Seq(0..MaxReq)
      BY <3>1 DEF Order, Histories
    <3>3. QED
      BY <3>2, FinishedInt, PendingFacts
  <2>3. QED
    BY <1>3, <2>1, <2>2 DEF Follows
<1>4. Traced(c)
  BY <1>3 DEF Traced
<1>5. QED
  BY <1>1, <1>2, <1>4, ValuesStep

LEMMA ValuesSame ==
  ASSUME Values, UNCHANGED <<slots, calls, inbox, lost, released, dispatched, lastDetached, given, asked, answers, nextReq, nextId>>
  PROVE  Values'
<1>1. \A d \in Ctx : \A r \in Req : Holds(r, d)' <=> Holds(r, d)
  BY DEF Holds
<1>2. Places'
  BY <1>1, PlacesSame DEF Values
<1>3. Sized' /\ Gave' /\ Sent'
  BY DEF Values, Sized, Gave, Sent
<1>4. Ahead'
  BY DEF Values, Ahead, AheadQueued, AheadIn, AheadAll
<1>5. QED
  BY <1>2, <1>3, <1>4 DEF Values

\* The values stay where they are, and no request is sent.
NoValue == UNCHANGED <<inbox, lost, released, dispatched, lastDetached, given, asked, nextReq>>

LEMMA FollowsSame ==
  ASSUME IInv, Order, NEW c \in Ctx, NEW r \in Alive(slots[c]), NEW x, x.id = slots[c][r].id,
         x.mode = "http" => slots[c][r].mode = "http" /\ x.responded = slots[c][r].responded,
         answers'[x.id] = answers[x.id], Running(calls'[c]) = Running(calls[c])
  PROVE  Follows(c, x, slots[c][r])
<1> DEFINE y == slots[c][r]
<1>1. Pending(calls'[c], x.id) = Pending(calls[c], x.id) /\ Pending(calls[c], x.id) \in {0, 1}
  BY PendingFacts
<1>2. Finished(y, answers[x.id]) \in Int
  <2>1. x.id \in Conn
    BY OrderUnder, IdsInConn
  <2>2. answers[x.id] \in Seq(0..MaxReq)
    BY <2>1 DEF Order, Histories
  <2>3. QED
    BY <2>2, FinishedInt
<1>3. x.mode = "http" => y.mode = "http" /\ Finished(x, answers'[x.id]) = Finished(y, answers[x.id])
  BY DEF Finished
<1>4. x.id = y.id
  OBVIOUS
<1> HIDE DEF y
<1>5. Follows(c, x, y)
  BY <1>1, <1>2, <1>3, <1>4 DEF Follows
<1>6. QED
  BY <1>5 DEF y

\* Slots of c are given up.
LEMMA ValuesLess ==
  ASSUME IInv, Order, Values, NEW c \in Ctx, \A d \in Ctx \ {c} : slots'[d] = slots[d] /\ calls'[d] = calls[d],
         Running(calls'[c]) = Running(calls[c]), NoValue, UNCHANGED <<answers, nextId>>,
         \A r \in Alive(slots'[c]) : r \in Alive(slots[c]) /\ slots'[c][r] = slots[c][r]
  PROVE  Values'
<1>1. answers' \in [Conn -> Seq(0..MaxReq)] /\ nextId' \in Nat /\ nextId' >= nextId
  BY DEF IInv, Types, Order, Histories
<1>2. ASSUME NEW s \in Alive(slots'[c]) PROVE s \in Alive(slots[c]) /\ Follows(c, slots'[c][s], slots[c][s])
  BY <1>2, FollowsSame
<1>3. Traced(c)
  BY <1>2 DEF Traced
<1>4. QED
  BY <1>1, <1>3, ValuesStep DEF NoValue

\* One changes.
LEMMA ValuesUpdate ==
  ASSUME IInv, Order, Values, NEW c \in Ctx, NEW s \in Alive(slots[c]), NEW conn \in Record,
         slots' = [slots EXCEPT ![c] = [slots[c] EXCEPT ![s] = conn]], conn.id = slots[c][s].id,
         \A d \in Ctx \ {c} : calls'[d] = calls[d], Running(calls'[c]) = Running(calls[c]), NoValue, UNCHANGED nextId,
         \A k \in Conn \ {conn.id} : answers'[k] = answers[k], answers' \in [Conn -> Seq(0..MaxReq)],
         conn.mode = "http" => /\ slots[c][s].mode = "http"
                               /\ Finished(conn, answers'[conn.id]) = Finished(slots[c][s], answers[conn.id])
  PROVE  Values'
<1>1. Contexts /\ Tabled(c) /\ Domains /\ nextId' \in Nat /\ nextId' >= nextId
  BY DEF IInv, Core, Contexts, Types
<1>2. conn.id \in Conn /\ conn.id \in IdsOf(slots[c]) /\ \A r \in Alive(slots[c]) : slots[c][r].id = conn.id => r = s
  BY <1>1, IdsInConn
<1>3. slots'[c] = [slots[c] EXCEPT ![s] = conn] /\ \A d \in Ctx \ {c} : slots'[d] = slots[d]
  BY <1>1 DEF Domains
<1>4. Changed(slots[c], slots'[c], s, conn)
  BY <1>1, <1>3, ChangeFacts DEF Tabled
<1>5. Follows(c, conn, slots[c][s])
  <2>1. Pending(calls'[c], conn.id) = Pending(calls[c], conn.id) /\ Pending(calls[c], conn.id) \in {0, 1}
    BY PendingFacts
  <2>2. Finished(slots[c][s], answers[conn.id]) \in Int
    <3>1. answers[conn.id] \in Seq(0..MaxReq)
      BY <1>2 DEF Order, Histories
    <3>2. QED
      BY <3>1, FinishedInt
  <2>3. QED
    BY <2>1, <2>2 DEF Follows
<1>6. ASSUME NEW r \in Alive(slots'[c]) PROVE \E q \in Alive(slots[c]) : Follows(c, slots'[c][r], slots[c][q])
  <2>1. CASE r = s
    BY <1>4, <1>5, <2>1 DEF Changed
  <2>2. CASE r # s
    <3>1. r \in Alive(slots[c]) /\ slots'[c][r] = slots[c][r]
      BY <1>4, <1>6, <2>2 DEF Changed, Alive
    <3>2. slots[c][r].id \in Conn \ {conn.id}
      BY <1>1, <1>2, <2>2, <3>1, IdsInConn
    <3>3. Follows(c, slots'[c][r], slots[c][r])
      BY <3>1, <3>2, FollowsSame
    <3>4. QED
      BY <3>1, <3>3
  <2>3. QED
    BY <2>1, <2>2
<1>7. Traced(c)
  BY <1>2, <1>6 DEF Traced
<1>8. QED
  BY <1>1, <1>3, <1>7, ValuesStep DEF NoValue

\* What Dispose leaves in c's table.
LEMMA Disposed ==
  ASSUME IInv, NEW c \in Ctx, NEW s \in Alive(slots[c]), Dispose(c, s)
  PROVE  /\ \A d \in Ctx \ {c} : slots'[d] = slots[d]
         /\ \A r \in Alive(slots'[c]) : r \in Alive(slots[c]) /\ slots'[c][r] = slots[c][r] /\ r # s
<1> DEFINE id == slots[c][s].id
<1> DEFINE left == [Blank EXCEPT !.id = id]
<1>1. Contexts /\ Tabled(c) /\ Domains
  BY DEF IInv, Core, Contexts, Types
<1>2. id \in Conn
  BY <1>1, IdsInConn
<1>3. Vacate(c, s, left)
  BY DEF Dispose
<1>4. left \in Record /\ ~ left.alive /\ ~ left.upgraded
  BY <1>2, BlankFacts, ConnFacts DEF Blank
<1> HIDE DEF left
<1>5. Others(c) /\ Changed(slots[c], slots'[c], s, left)
  BY <1>1, <1>3, <1>4, VacateStep
<1>6. QED
  BY <1>4, <1>5 DEF Changed, Alive, Others

LEMMA ValuesDispose ==
  ASSUME IInv, Order, Values, NEW c \in Ctx, NEW s \in Alive(slots[c]), Dispose(c, s),
         NEW rest, calls' = [calls EXCEPT ![c] = rest], Running(rest) = Running(calls[c]),
         NoValue, UNCHANGED <<answers, nextId>>
  PROVE  Values'
<1>1. calls'[c] = rest /\ \A d \in Ctx \ {c} : calls'[d] = calls[d]
  BY DEF IInv, Types
<1>2. QED
  BY <1>1, Disposed, ValuesLess

LEMMA ValuesTeardown ==
  ASSUME IInv, Order, Values, NEW c \in Ctx, NEW s \in Alive(slots[c]), NEW rest \in Seq(Frame), Teardown(c, s, rest),
         Running(rest) = Running(calls[c]), NoValue, UNCHANGED <<answers, nextId>>
  PROVE  Values'
<1>1. CASE slots[c][s].upgraded
  <2> DEFINE f == [Handler("closing", slots[c][s].id) EXCEPT !.slot = s]
  <2> DEFINE tt == Append(rest, f)
  <2>1. calls' = [calls EXCEPT ![c] = tt] /\ UNCHANGED slots
    BY <1>1 DEF Teardown, RunsCloseHandler, tables
  <2>2. f \in Frame /\ f.at = "closing"
    BY ClosingFrame
  <2> HIDE DEF f
  <2>3. Pushed(rest, tt, f)
    BY <2>2, PushSeq
  <2> HIDE DEF tt
  <2>4. Running(tt) = Running(calls[c])
    BY <2>2, <2>3, RunPush
  <2>5. QED
    BY <2>1, <2>4, ValuesCalls DEF NoValue
<1>2. CASE ~ slots[c][s].upgraded
  <2>1. calls' = [calls EXCEPT ![c] = rest] /\ Dispose(c, s)
    BY <1>2 DEF Teardown, RunsCloseHandler
  <2>2. QED
    BY <2>1, ValuesDispose
<1>3. QED
  BY <1>1, <1>2

(***************************************************************************)
(* The actions that leave the values where they are.                       *)
(***************************************************************************)

LEMMA ValuesUnder ==
  ASSUME IInv, Order, NEW c \in Ctx
  PROVE  /\ Idle(c) => calls[c] = << >> /\ Running(calls[c]) = {} /\ Running(<< >>) = {}
         /\ ~ Idle(c) /\ Top(c).at # "request" => Running(Beneath(c)) = Running(calls[c])
<1>1. Running(<< >>) = {}
  BY RunSolo
<1>2. QED
  BY <1>1, OrderUnder, RunPop

LEMMA ValuesPop ==
  ASSUME IInv, Order, Values, NEW c \in Ctx, ~ Idle(c), Top(c).at # "request",
         calls' = [calls EXCEPT ![c] = Beneath(c)], NoValue, UNCHANGED <<slots, answers, nextId>>
  PROVE  Values'
BY ValuesUnder, ValuesCalls DEF NoValue

LEMMA ValuesPush ==
  ASSUME IInv, Order, Values, NEW c \in Ctx, NEW f \in Frame, f.at # "request",
         calls' = [calls EXCEPT ![c] = Append(calls[c], f)], NoValue, UNCHANGED <<slots, answers, nextId>>
  PROVE  Values'
<1> DEFINE tt == Append(calls[c], f)
<1>1. Pushed(calls[c], tt, f)
  BY OrderUnder, PushSeq
<1>2. calls' = [calls EXCEPT ![c] = tt]
  OBVIOUS
<1> HIDE DEF tt
<1>3. Running(tt) = Running(calls[c])
  BY <1>1, RunPush
<1>4. QED
  BY <1>2, <1>3, ValuesCalls DEF NoValue

LEMMA ValuesSolo ==
  ASSUME IInv, Order, Values, NEW c \in Ctx, Idle(c), NEW f, f.at # "request", calls' = [calls EXCEPT ![c] = <<f>>],
         NoValue, UNCHANGED <<slots, answers, nextId>>
  PROVE  Values'
<1>1. Running(<<f>>) = {} /\ Running(calls[c]) = {}
  BY ValuesUnder, RunSolo
<1>2. QED
  BY <1>1, ValuesCalls DEF NoValue

LEMMA ValuesIdleTeardown ==
  ASSUME IInv, Order, Values, NEW c \in Ctx, Idle(c), NEW s \in Alive(slots[c]), Teardown(c, s, << >>),
         NoValue, UNCHANGED <<answers, nextId>>
  PROVE  Values'
<1>1. Running(<< >>) = Running(calls[c]) /\ << >> \in Seq(Frame)
  BY ValuesUnder
<1>2. QED
  BY <1>1, ValuesTeardown

LEMMA PollValues == ASSUME IInv, Order, Values, NEW c \in Ctx, Poll(c) PROVE Values'
<1>1. Idle(c) /\ NoValue /\ UNCHANGED <<calls, answers>>
  BY DEF Poll, Polling, NoValue, handoff, client, sending, outcome, replies, values
<1>2. CASE UNCHANGED <<tables, nextId>>
  BY <1>1, <1>2, ValuesSame DEF tables, NoValue
<1>3. CASE nextId <= MaxConn /\ Install(c, Fresh(nextId)) /\ nextId' = nextId + 1
  <2>1. Types /\ Core /\ Tabled(c) /\ Domains
    BY OrderUnder
  <2>2. nextId \in Conn /\ nextId \in Nat
    BY <1>3, <2>1, ConnFacts DEF Types, Conn
  <2>3. nextId \notin IdsOf(slots[c])
    <3>1. ~ (nextId < nextId)
      BY <2>2, ConnFacts
    <3>2. QED
      BY <2>1, <2>2, <3>1 DEF Core, Owners, OwnedOnce, InTable
  <2> DEFINE conn == Fresh(nextId)
  <2>4. conn \in Record /\ conn.alive /\ conn.id = nextId /\ conn.mode = "http" /\ ~ conn.upgraded
    BY <2>2, FreshFacts
  <2>5. Install(c, conn)
    BY <1>3
  <2> HIDE DEF conn
  <2>6. Others(c) /\ Added(slots[c], slots'[c], SlotFor(c), conn)
    BY <2>1, <2>2, <2>3, <2>4, <2>5, InstallStep
  <2>7. Alive(slots'[c]) = Alive(slots[c]) \cup {SlotFor(c)} /\ \A r \in Alive(slots[c]) : slots'[c][r] = slots[c][r]
    BY <2>4, <2>6, AddedFacts
  <2>8. slots'[c][SlotFor(c)] = conn
    BY <2>6 DEF Added
  <2>9. \A r \in Alive(slots[c]) : Follows(c, slots'[c][r], slots[c][r])
    BY <1>1, <2>7, FollowsSame
  <2>10. nextId >= nextId /\ nextId' \in Nat /\ nextId' >= nextId
    BY <1>3, <2>2
  <2>11. \A r \in Alive(slots'[c]) : \/ slots'[c][r].id \in Conn /\ slots'[c][r].id >= nextId
                                     \/ \E q \in Alive(slots[c]) : Follows(c, slots'[c][r], slots[c][q])
    BY <2>2, <2>4, <2>7, <2>8, <2>9, <2>10
  <2>12. Traced(c) /\ answers' \in [Conn -> Seq(0..MaxReq)]
    BY <1>1, <2>11 DEF Traced, Order, Histories
  <2>13. \A d \in Ctx \ {c} : slots'[d] = slots[d] /\ calls'[d] = calls[d]
    BY <1>1, <2>6 DEF Others
  <2>14. QED
    BY <1>1, <2>10, <2>12, <2>13, ValuesStep DEF NoValue
<1>4. QED
  BY <1>2, <1>3 DEF Poll

LEMMA ServeValues == ASSUME IInv, Order, Values, NEW c \in Ctx, Serve(c) PROVE Values'
<1> DEFINE id == Head(ready[c])
<1> DEFINE s == ById(c, id)
<1>1. Types /\ Core /\ Contexts /\ Tabled(c)
  BY OrderUnder
<1>2. Idle(c) /\ ready[c] # << >> /\ NoValue /\ UNCHANGED <<nextId, answers>>
  BY DEF Serve, handoff, sending, replies, values, NoValue
<1>3. id \in Conn /\ (s # 0 => s \in Alive(slots[c]) /\ slots[c][s].id = id)
  <2>1. id \in Conn
    BY <1>1, <1>2, HeadTailProperties DEF Types
  <2>2. id \in 0..MaxConn
    BY <2>1, ConnFacts
  <2>3. QED
    BY <1>1, <2>1, <2>2, ByIdFacts
<1>4. CASE UNCHANGED <<tables, calls, ending>>
  BY <1>2, <1>4, ValuesSame DEF tables, NoValue
<1>5. CASE s # 0 /\ Teardown(c, s, << >>)
  <2> HIDE DEF s
  <2>1. QED
    BY <1>2, <1>3, <1>5, ValuesIdleTeardown
<1>6. CASE /\ s # 0
           /\ slots' = [slots EXCEPT ![c][s].buf = @ \o wire[id]]
           /\ calls' = [calls EXCEPT ![c] = <<[Doing(IF slots[c][s].mode = "http" THEN "reading"
                                                     ELSE "framing") EXCEPT !.slot = s]>>]
  <2> HIDE DEF s, id
  <2> DEFINE conn == [slots[c][s] EXCEPT !.buf = slots[c][s].buf \o wire[id]]
  <2> DEFINE f == [Doing(IF slots[c][s].mode = "http" THEN "reading" ELSE "framing") EXCEPT !.slot = s]
  <2>1. /\ s \in Alive(slots[c]) /\ slots[c][s] \in Record /\ slots[c][s].id = id
        /\ wire \in [Conn -> Seq(Item)] /\ wire[id] \in Seq(Item)
    BY <1>1, <1>3, <1>6, IdsInConn DEF Types
  <2>2. slots[c][s].buf \o wire[id] \in Seq(Item)
    BY <2>1, RecordFacts, ConcatProperties
  <2>3. conn \in Record /\ conn.id = slots[c][s].id /\ conn.mode = slots[c][s].mode
    BY <2>1, <2>2, RecordBuf
  <2>4. conn.responded = slots[c][s].responded
    <3> HIDE DEF id
    <3>1. QED
      BY <2>1 DEF Record
  <2>5. slots' = [slots EXCEPT ![c] = [slots[c] EXCEPT ![s] = conn]]
    BY <1>6
  <2>6. f.at # "request"
    BY DEF Doing
  <2>7. calls'[c] = <<f>> /\ \A d \in Ctx \ {c} : calls'[d] = calls[d]
    BY <1>1, <1>6 DEF Types
  <2> HIDE DEF conn, f
  <2>8. Running(calls'[c]) = Running(calls[c])
    BY <1>2, <2>6, <2>7, ValuesUnder, RunSolo
  <2>9. Finished(conn, answers'[conn.id]) = Finished(slots[c][s], answers[conn.id])
    BY <1>2, <2>4 DEF Finished
  <2>10. \A k \in Conn \ {conn.id} : answers'[k] = answers[k]
    BY <1>2
  <2>11. answers' \in [Conn -> Seq(0..MaxReq)]
    BY <1>2 DEF Order, Histories
  <2>12. QED
    BY <1>2, <2>1, <2>3, <2>5, <2>7, <2>8, <2>9, <2>10, <2>11, ValuesUpdate
<1>7. QED
  <2>1. \/ s = 0 /\ UNCHANGED <<tables, calls, ending>>
        \/ s # 0 /\ Teardown(c, s, << >>)
        \/ /\ s # 0
           /\ slots' = [slots EXCEPT ![c][s].buf = @ \o wire[id]]
           /\ calls' = [calls EXCEPT ![c] = <<[Doing(IF slots[c][s].mode = "http" THEN "reading"
                                                     ELSE "framing") EXCEPT !.slot = s]>>]
    BY DEF Serve
  <2>2. QED
    BY <1>4, <1>5, <1>6, <2>1

LEMMA ReapValues == ASSUME IInv, Order, Values, NEW c \in Ctx, Reap(c) PROVE Values'
<1>1. Idle(c) /\ NoValue /\ UNCHANGED <<nextId, answers>>
  BY DEF Reap, Served, handoff, sending, replies, values, NoValue
<1>2. CASE UNCHANGED <<tables, calls, ending>>
  BY <1>1, <1>2, ValuesSame DEF tables, NoValue
<1>3. ASSUME NEW s \in LiveSlots(c), Teardown(c, s, << >>) PROVE Values'
  <2>1. s \in Alive(slots[c])
    BY DEF LiveSlots, Alive
  <2>2. QED
    BY <1>1, <1>3, <2>1, ValuesIdleTeardown
<1>4. QED
  BY <1>2, <1>3 DEF Reap

LEMMA TeardownNextValues == ASSUME IInv, Order, Values, NEW w \in Worker, TeardownNext(w) PROVE Values'
<1>1. Idle(w) /\ w \in Ctx /\ NoValue /\ UNCHANGED <<nextId, answers>>
  BY CtxFacts DEF TeardownNext, handoff, sending, replies, values, NoValue
<1>2. PICK s \in LiveSlots(w) : Teardown(w, s, << >>)
  BY DEF TeardownNext
<1>3. s \in Alive(slots[w])
  BY DEF LiveSlots, Alive
<1>4. QED
  BY <1>1, <1>2, <1>3, ValuesIdleTeardown

LEMMA FreeTablesValues == ASSUME IInv, Order, Values, NEW w \in Worker, FreeTables(w) PROVE Values'
<1>1. w \in Ctx /\ Domains /\ slots' = [slots EXCEPT ![w] = << >>] /\ NoValue /\ UNCHANGED <<calls, nextId, answers>>
  BY CtxFacts DEF FreeTables, handoff, client, sending, outcome, replies, values, NoValue, IInv, Types
<1>2. slots'[w] = << >> /\ \A d \in Ctx \ {w} : slots'[d] = slots[d] /\ calls'[d] = calls[d]
  BY <1>1 DEF Domains
<1>3. Alive(<< >>) = {}
  <2>1. DOMAIN << >> = {}
    OBVIOUS
  <2>2. QED
    BY <2>1 DEF Alive
<1>4. QED
  BY <1>1, <1>2, <1>3, ValuesLess

\* A record of the table that is answered, or has become a WebSocket.
LEMMA FinishedAnswer ==
  ASSUME NEW conn, ~ conn.responded, NEW an \in Seq(0..MaxReq), NEW x \in 0..MaxReq, NEW done, done.responded
  PROVE  Finished(done, Append(an, x)) = Finished(conn, an)
<1>1. Len(Append(an, x)) = Len(an) + 1 /\ Len(an) \in Nat
  BY AppendProperties, LenProperties
<1>2. QED
  BY <1>1 DEF Finished

\* The request a handler runs for is one of its connection's.
LEMMA HeadInReq ==
  ASSUME IInv, Order, NEW c \in Ctx, NEW s \in Alive(slots[c]), slots[c][s].mode = "http", Complete(slots[c][s].buf)
  PROVE  LET id == slots[c][s].id
             k  == Finished(slots[c][s], answers[id]) + 1
         IN /\ k \in 1..Len(asked[id]) /\ slots[c][s].buf[1] = asked[id][k]
            /\ slots[c][s].buf[1].req \in 0..MaxReq /\ id \in Conn
<1> DEFINE id == slots[c][s].id
<1> DEFINE conn == slots[c][s]
<1>1. id \in Conn /\ conn \in Record /\ Tells(conn, asked[id], answers[id], wire[id], phase[id])
  BY OrderUnder, IdsInConn DEF Told, TellsOf
<1>2. asked[id] \in Seq(Item) /\ wire[id] \in Seq(Item)
  BY <1>1, OrderUnder DEF Types
<1>3. conn.mode = "http" /\ Complete(conn.buf)
  OBVIOUS
<1> HIDE DEF conn, id
<1>4. /\ Finished(conn, answers[id]) \in Nat /\ Finished(conn, answers[id]) + 1 <= Len(asked[id])
      /\ conn.buf[1] = asked[id][Finished(conn, answers[id]) + 1] /\ conn.buf[1] \in Item
  BY <1>1, <1>2, <1>3, TellsHead
<1>5. Len(asked[id]) \in Nat /\ conn.buf[1].req \in 0..MaxReq
  BY <1>2, <1>4, LenProperties DEF Item
<1>6. Finished(conn, answers[id]) + 1 \in 1..Len(asked[id])
  BY <1>4, <1>5
<1>7. QED
  BY <1>1, <1>4, <1>5, <1>6 DEF conn, id

LEMMA FramingTurnValues == ASSUME IInv, Looking, Order, Values, NEW c \in Ctx, FramingTurn(c) PROVE Values'
<1> DEFINE s == ById(c, slots[c][Top(c).slot].id)
<1> DEFINE found == IF s = 0 THEN "nothing" ELSE Parsed(slots[c][s].buf)
<1>1. /\ ~ Idle(c) /\ Top(c).at = "framing" /\ NoValue /\ UNCHANGED <<nextId, answers>>
      /\ \/ found = "nothing" /\ calls' = [calls EXCEPT ![c] = Beneath(c)] /\ UNCHANGED <<tables, ending>>
         \/ /\ found = "message"
            /\ slots' = [slots EXCEPT ![c][s].buf = Tail(@)]
            /\ calls' = [calls EXCEPT ![c] = Append(@, Handler("message", slots[c][s].id))]
            /\ UNCHANGED <<free, index, used, ending>>
         \/ found = "end" /\ Teardown(c, s, calls[c])
  BY DEF FramingTurn, InCode, handoff, sending, replies, values, NoValue
<1>2. found # "nothing" => s # 0 /\ Parsed(slots[c][s].buf) = found
  OBVIOUS
<1> HIDE DEF found
<1>3. s # 0 => s \in Alive(slots[c]) /\ slots[c][s] \in Record /\ slots[c][s].id \in Conn /\ slots[c][s].mode = "ws"
  <2>1. SUFFICES ASSUME s # 0
                 PROVE  s \in Alive(slots[c]) /\ slots[c][s] \in Record /\ slots[c][s].id \in Conn /\ slots[c][s].mode = "ws"
    OBVIOUS
  <2>2. /\ s \in Alive(slots[c]) /\ slots[c][s] \in Record /\ slots[c][s].id \in Conn /\ s = Top(c).slot
        /\ 1 \in DOMAIN calls[c] /\ calls[c][1] = Top(c)
    BY <1>1, <2>1, SameSlot
  <2> HIDE DEF s
  <2>3. slots[c][s].mode = "ws"
    BY <1>1, <2>2, LookedUnder DEF Looked
  <2>4. QED
    BY <2>2, <2>3
<1> HIDE DEF s
<1>4. CASE calls' = [calls EXCEPT ![c] = Beneath(c)] /\ UNCHANGED <<tables, ending>>
  BY <1>1, <1>4, ValuesPop DEF tables
<1>5. CASE found = "end" /\ Teardown(c, s, calls[c])
  BY <1>1, <1>2, <1>3, <1>5, OrderUnder, ValuesTeardown
<1>6. CASE /\ found = "message"
           /\ slots' = [slots EXCEPT ![c][s].buf = Tail(@)]
           /\ calls' = [calls EXCEPT ![c] = Append(@, Handler("message", slots[c][s].id))]
           /\ UNCHANGED <<free, index, used, ending>>
  <2> DEFINE conn == [slots[c][s] EXCEPT !.buf = Tail(slots[c][s].buf)]
  <2> DEFINE f == Handler("message", slots[c][s].id)
  <2> DEFINE tt == Append(calls[c], f)
  <2>1. slots[c][s] \in Record /\ s \in Alive(slots[c]) /\ slots[c][s].mode = "ws"
        /\ slots[c][s].id \in 0..MaxConn /\ Parsed(slots[c][s].buf) = "message"
    BY <1>2, <1>3, <1>6, ConnFacts
  <2>2. Tail(slots[c][s].buf) \in Seq(Item)
    <3>1. slots[c][s].buf \in Seq(Item)
      BY <2>1, RecordFacts
    <3>2. QED
      BY <2>1, <3>1, ParsedFacts, HeadTailProperties
  <2>3. conn \in Record /\ conn.id = slots[c][s].id /\ conn.mode = "ws"
    BY <2>1, <2>2, RecordBuf
  <2>4. slots' = [slots EXCEPT ![c] = [slots[c] EXCEPT ![s] = conn]]
    BY <1>6
  <2>5. f \in Frame /\ f.at = "message"
    BY <2>1, CallFacts DEF UserCode
  <2>6. calls'[c] = tt /\ \A d \in Ctx \ {c} : calls'[d] = calls[d]
    BY <1>6, OrderUnder DEF Types
  <2> HIDE DEF conn, f
  <2>7. Pushed(calls[c], tt, f)
    BY <2>5, OrderUnder, PushSeq
  <2> HIDE DEF tt
  <2>8. Running(calls'[c]) = Running(calls[c])
    BY <2>5, <2>6, <2>7, RunPush
  <2>9. answers' \in [Conn -> Seq(0..MaxReq)] /\ \A k \in Conn \ {conn.id} : answers'[k] = answers[k]
    BY <1>1 DEF Order, Histories
  <2>10. conn.mode # "http"
    BY <2>3
  <2>11. QED
    BY <1>1, <2>1, <2>3, <2>4, <2>6, <2>8, <2>9, <2>10, ValuesUpdate
<1>7. QED
  BY <1>1, <1>4, <1>5, <1>6

LEMMA AnswerValues == ASSUME IInv, Order, Values, NEW c \in Ctx, Answer(c) PROVE Values'
<1> DEFINE s == ById(c, Top(c).id)
<1> DEFINE conn == [slots[c][s] EXCEPT !.responded = TRUE]
<1>1. /\ ~ Idle(c) /\ Top(c).at = "request" /\ s # 0 /\ ~ slots[c][s].responded
      /\ slots' = [slots EXCEPT ![c] = [slots[c] EXCEPT ![s] = conn]]
      /\ NoValue /\ UNCHANGED <<calls, nextId>>
      /\ answers' = [answers EXCEPT ![Top(c).id] = Append(@, slots[c][s].buf[1].req)]
  BY DEF Answer, InCode, Answerable, SendAll, control, handoff, client, sending, values, NoValue
<1>2. s \in Alive(slots[c]) /\ slots[c][s] \in Record /\ slots[c][s].id = Top(c).id /\ slots[c][s].id \in Conn
  BY <1>1, HandlerConn DEF IInv
<1>3. /\ conn \in Record /\ conn.id = slots[c][s].id /\ conn.mode = slots[c][s].mode /\ conn.buf = slots[c][s].buf
      /\ conn.responded
  BY <1>2, RecordResponded DEF Record
<1> HIDE DEF s
<1>4. slots[c][s].mode = "http" /\ Complete(slots[c][s].buf)
  BY <1>1, <1>2, HandlerHead
<1> DEFINE id == slots[c][s].id
<1>5. answers' = [answers EXCEPT ![id] = Append(@, slots[c][s].buf[1].req)]
  BY <1>1, <1>2
<1>6. answers' \in [Conn -> Seq(0..MaxReq)] /\ \A k \in Conn \ {id} : answers'[k] = answers[k]
  BY <1>1, <1>2, <1>4, <1>5, OrderAnswer
<1>7. answers[id] \in Seq(0..MaxReq) /\ slots[c][s].buf[1].req \in 0..MaxReq /\ answers'[id] = Append(answers[id], slots[c][s].buf[1].req)
  <2>1. answers \in [Conn -> Seq(0..MaxReq)]
    BY DEF Order, Histories
  <2>2. slots[c][s].buf[1].req \in 0..MaxReq
    BY <1>1, <1>2, <1>4, HeadInReq
  <2>3. QED
    BY <1>2, <1>5, <2>1, <2>2
<1> HIDE DEF conn, id
<1>8. conn.id = id
  BY <1>3 DEF id
<1>9. Finished(conn, answers'[conn.id]) = Finished(slots[c][s], answers[conn.id])
  <2> DEFINE old == slots[c][s]
  <2> DEFINE x == old.buf[1].req
  <2>1. ~ old.responded /\ conn.responded /\ x \in 0..MaxReq /\ answers[id] \in Seq(0..MaxReq) /\ answers'[id] = Append(answers[id], x)
    BY <1>1, <1>3, <1>7
  <2> HIDE DEF old, x
  <2>2. Finished(conn, Append(answers[id], x)) = Finished(old, answers[id])
    BY <2>1, FinishedAnswer
  <2>3. QED
    BY <1>8, <2>1, <2>2 DEF old
<1>10. \A d \in Ctx \ {c} : calls'[d] = calls[d]
  BY <1>1
<1>11. Running(calls'[c]) = Running(calls[c])
  BY <1>1
<1>12. QED
  BY <1>1, <1>2, <1>3, <1>4, <1>6, <1>8, <1>9, <1>10, <1>11, ValuesUpdate

LEMMA UpgradeValues == ASSUME IInv, Order, Values, NEW c \in Ctx, Upgrade(c) PROVE Values'
<1> DEFINE s == ById(c, Top(c).id)
<1> DEFINE conn == [slots[c][s] EXCEPT !.responded = TRUE, !.mode = "ws", !.buf = << >>]
<1>1. /\ ~ Idle(c) /\ Top(c).at = "request" /\ s # 0 /\ ~ slots[c][s].responded
      /\ slots' = [slots EXCEPT ![c] = [slots[c] EXCEPT ![s] = conn]]
      /\ NoValue /\ UNCHANGED <<calls, nextId>>
      /\ answers' = [answers EXCEPT ![Top(c).id] = Append(@, slots[c][s].buf[1].req)]
  BY DEF Upgrade, InCode, Answerable, SendAll, control, handoff, client, sending, values, NoValue
<1>2. s \in Alive(slots[c]) /\ slots[c][s] \in Record /\ slots[c][s].id = Top(c).id /\ slots[c][s].id \in Conn
  BY <1>1, HandlerConn DEF IInv
<1>3. conn \in Record /\ conn.id = slots[c][s].id /\ conn.mode = "ws"
  BY <1>2, EmptySeq DEF Record
<1> HIDE DEF s
<1>4. slots[c][s].mode = "http" /\ Complete(slots[c][s].buf)
  BY <1>1, <1>2, HandlerHead
<1> DEFINE id == slots[c][s].id
<1>5. answers' = [answers EXCEPT ![id] = Append(@, slots[c][s].buf[1].req)]
  BY <1>1, <1>2
<1>6. answers' \in [Conn -> Seq(0..MaxReq)] /\ \A k \in Conn \ {id} : answers'[k] = answers[k]
  BY <1>1, <1>2, <1>4, <1>5, OrderAnswer
<1> HIDE DEF conn, id
<1>7. conn.id = id /\ conn.mode # "http"
  BY <1>3 DEF id
<1>8. \A d \in Ctx \ {c} : calls'[d] = calls[d]
  BY <1>1
<1>9. Running(calls'[c]) = Running(calls[c])
  BY <1>1
<1>10. QED
  BY <1>1, <1>2, <1>3, <1>6, <1>7, <1>8, <1>9, ValuesUpdate

LEMMA SocketCloseValues == ASSUME IInv, Order, Values, NEW c \in Ctx, SocketClose(c) PROVE Values'
<1>1. NoValue /\ UNCHANGED <<nextId, answers>> /\ \E s \in LiveSlots(c) : Teardown(c, s, calls[c])
  BY DEF SocketClose, handoff, sending, replies, values, NoValue
<1>2. PICK s \in LiveSlots(c) : Teardown(c, s, calls[c])
  BY <1>1
<1>3. s \in Alive(slots[c])
  BY DEF LiveSlots, Alive
<1>4. QED
  BY <1>1, <1>2, <1>3, OrderUnder, ValuesTeardown

LEMMA CloseReturnsValues == ASSUME IInv, Order, Values, NEW c \in Ctx, CloseReturns(c) PROVE Values'
<1>1. /\ ~ Idle(c) /\ Top(c).at = "closing" /\ calls' = [calls EXCEPT ![c] = Beneath(c)] /\ Dispose(c, Top(c).slot)
      /\ NoValue /\ UNCHANGED <<nextId, answers>>
  BY DEF CloseReturns, InCode, handoff, sending, replies, values, NoValue
<1>2. Stack(calls[c], slots[c]) /\ Popped(calls[c], Beneath(c), Top(c))
  BY <1>1, OrderUnder DEF Contexts
<1>3. Top(c).slot \in Alive(slots[c])
  BY <1>1, <1>2 DEF Stack, ClosingFrames, Popped
<1>4. Running(Beneath(c)) = Running(calls[c])
  BY <1>1, ValuesUnder
<1>5. QED
  BY <1>1, <1>3, <1>4, ValuesDispose

LEMMA RunCallbacksValues == ASSUME IInv, Order, Values, RunCallbacks PROVE Values'
<1>1. Main \in Ctx /\ Idle(Main) /\ NoValue /\ UNCHANGED <<slots, answers, nextId>>
  BY CtxFacts DEF RunCallbacks, Served, tables, handoff, client, sending, outcome, replies, values, NoValue
<1>2. calls' = [calls EXCEPT ![Main] = <<Doing("callback")>>] /\ Doing("callback").at = "callback"
  BY CallbackFrame DEF RunCallbacks
<1>3. QED
  BY <1>1, <1>2, ValuesSolo

LEMMA MessageValues == ASSUME IInv, Order, Values, NEW w \in Worker, Message(w) PROVE Values'
<1>1. w \in Ctx /\ Idle(w) /\ NoValue /\ UNCHANGED <<slots, answers, nextId>>
  BY CtxFacts DEF Message, tables, handoff, client, sending, outcome, replies, values, NoValue
<1>2. calls' = [calls EXCEPT ![w] = <<Doing("callback")>>] /\ Doing("callback").at = "callback"
  BY CallbackFrame DEF Message
<1>3. QED
  BY <1>1, <1>2, ValuesSolo

LEMMA KillSeenValues == ASSUME IInv, Order, Values, NEW w \in Worker, KillSeen(w) PROVE Values'
<1>1. w \in Ctx /\ Idle(w) /\ NoValue /\ UNCHANGED <<slots, answers, nextId>>
  BY CtxFacts DEF KillSeen, tables, handoff, client, sending, outcome, replies, values, NoValue
<1>2. PICK stack \in {<< >>} \cup Callbacks : calls' = [calls EXCEPT ![w] = stack]
  BY DEF KillSeen
<1>3. CASE stack = << >>
  BY <1>1, <1>2, <1>3, ValuesUnder, ValuesCalls DEF NoValue
<1>4. CASE stack \in Callbacks
  <2>1. calls' = [calls EXCEPT ![w] = <<Doing("callback")>>] /\ Doing("callback").at = "callback"
    BY <1>2, <1>4, CallbackFrame
  <2>2. QED
    BY <1>1, <2>1, ValuesSolo
<1>5. QED
  BY <1>3, <1>4

LEMMA KillValues == ASSUME IInv, Order, Values, NEW w \in Worker, Kill(w) PROVE Values'
<1> DEFINE f == [Doing("join") EXCEPT !.thread = w]
<1>1. calls' = [calls EXCEPT ![Main] = Append(calls[Main], f)] /\ NoValue /\ UNCHANGED <<slots, answers, nextId>>
  BY DEF Kill, tables, client, sending, outcome, replies, values, NoValue
<1>2. f \in Frame /\ f.at = "join"
  <2>1. Doing("join") \in Frame /\ Doing("join").at = "join"
    BY CallFacts
  <2>2. QED
    BY <2>1, CtxFacts DEF Frame
<1> HIDE DEF f
<1>3. QED
  BY <1>1, <1>2, CtxFacts, ValuesPush

LEMMA ReturnValues == ASSUME IInv, Order, Values, NEW c \in Ctx, Return(c) PROVE Values'
<1>1. /\ ~ Idle(c) /\ Top(c).at # "request" /\ calls' = [calls EXCEPT ![c] = Beneath(c)]
      /\ NoValue /\ UNCHANGED <<slots, answers, nextId>>
  BY DEF Return, InCode, tables, handoff, client, sending, outcome, replies, values, NoValue
<1>2. QED
  BY <1>1, ValuesPop

LEMMA LiveValues == ASSUME Values, NEW w \in Worker, Live(w) PROVE Values'
BY ValuesSame DEF Live, tables, client, sending, outcome, replies, values

LEMMA BytesValues ==
  ASSUME Values, NEW id \in Conn, SendBody(id) \/ SendFrame(id) \/ Hangup(id)
  PROVE  Values'
<1>1. UNCHANGED <<slots, calls, inbox, lost, released, dispatched, lastDetached, given, asked, answers, nextReq, nextId>>
  BY DEF SendBody, SendFrame, Hangup, tables, control, handoff, outcome, replies, values
<1>2. QED
  BY <1>1, ValuesSame

(***************************************************************************)
(* The actions that move a value.                                          *)
(***************************************************************************)

LEMMA AheadFurther ==
  ASSUME NEW conn, NEW n \in {0, 1}, NEW m \in {0, 1}, n <= m, NEW qs \in Seq(Item), NEW an \in Seq(0..MaxReq),
         NEW dd, NEW q, AheadOf(conn, n, qs, an, dd),
         conn.mode = "http" => \A i \in 1..Len(qs) : qs[i].req = q => i <= Finished(conn, an) + m
  PROVE  AheadOf(conn, m, qs, an, dd \cup {q})
<1>1. SUFFICES ASSUME conn.mode = "http", NEW i \in 1..Len(qs), qs[i].req \in dd \cup {q}
               PROVE  i <= Finished(conn, an) + m
  BY DEF AheadOf
<1>2. CASE qs[i].req = q
  BY <1>1, <1>2
<1>3. CASE qs[i].req \in dd
  <2>1. i <= Finished(conn, an) + n
    BY <1>1, <1>3 DEF AheadOf
  <2>2. i \in Int /\ Finished(conn, an) \in Int
    BY <1>1, FinishedInt, LenProperties
  <2>3. QED
    BY <2>1, <2>2
<1>4. QED
  BY <1>1, <1>2, <1>3

LEMMA SentInReq == ASSUME IInv, NEW r \in 1..nextReq-1 PROVE r \in Req /\ r < nextReq /\ nextReq \in Nat
<1>1. MaxReq \in Nat
  BY ConnAssumption
<1>2. nextReq \in 1..MaxReq+1
  BY DEF IInv, Types
<1>3. QED
  BY <1>1, <1>2 DEF Req

\* The handler of a request is called: its value has just been made.
LEMMA ValuesRequest ==
  ASSUME IInv, Order, Values, NEW c \in Ctx, NEW s \in Alive(slots[c]), slots[c][s].mode = "http",
         Complete(slots[c][s].buf), Serving(calls[c]) = {}, NEW f \in Frame, f.at = "request",
         f.id = slots[c][s].id, f.req = slots[c][s].buf[1].req, NEW tt, Pushed(calls[c], tt, f),
         calls' = [calls EXCEPT ![c] = tt], dispatched' = dispatched \cup {f.req},
         UNCHANGED <<slots, inbox, lost, released, lastDetached, given, asked, answers, nextReq, nextId>>
  PROVE  Values'
<1> DEFINE id == slots[c][s].id
<1> DEFINE q == f.req
<1> DEFINE k == Finished(slots[c][s], answers[id]) + 1
<1>1. /\ Running(calls[c]) = {} /\ Running(calls'[c]) = {f}
      /\ \A d \in Ctx \ {c} : calls'[d] = calls[d] /\ Running(calls'[d]) = Running(calls[d])
  <2>1. calls'[c] = tt /\ \A d \in Ctx \ {c} : calls'[d] = calls[d]
    BY DEF IInv, Types
  <2>2. QED
    BY <2>1, RunNone, RunFirst
<1>2. /\ k \in 1..Len(asked[id]) /\ q = asked[id][k].req /\ id \in Conn
      /\ asked \in [Conn -> Seq(Item)] /\ answers \in [Conn -> Seq(0..MaxReq)] /\ nextReq \in 1..MaxReq+1
  BY HeadInReq DEF IInv, Types, Order, Histories
<1>3. q \in 1..nextReq-1 /\ q \in Req /\ q < nextReq
  <2>1. q \in 1..nextReq-1
    BY <1>2 DEF Values, Sent
  <2>2. QED
    BY <2>1, SentInReq
<1>4. Finished(slots[c][s], answers[id]) \in Int
  BY <1>2, FinishedInt
<1>5. q \notin dispatched
  <2>1. AheadOf(slots[c][s], 0, asked[id], answers[id], dispatched)
    BY <1>1, PendingFacts DEF Values, Ahead, AheadIn, AheadAll
  <2>2. ASSUME q \in dispatched PROVE k <= Finished(slots[c][s], answers[id]) + 0
    BY <1>2, <2>1, <2>2 DEF AheadOf
  <2>3. QED
    BY <1>4, <2>2
<1>6. c = Main => lastDetached = 0
  BY <1>1 DEF Values, Gave
<1>7. f.id # 0
  BY <1>2, ConnFacts DEF Conn
<1>8. \A r \in Req : (Holds(r, c)' <=> Holds(r, c) \/ r = q)
  <2>1. \A r : ~ Holds(r, c)
    BY <1>1 DEF Holds
  <2>2. \A r : Holds(r, c)' <=> r = q
    BY <1>1, <1>6, <1>7 DEF Holds
  <2>3. QED
    BY <2>1, <2>2
<1>9. \A d \in Ctx \ {c} : \A r \in Req : Holds(r, d)' <=> Holds(r, d)
  BY <1>1 DEF Holds
<1> HIDE DEF k, q, id
<1>10. Places'
  <2>1. dispatched' = dispatched \cup {q}
    BY DEF q
  <2>2. QED
    BY <1>3, <1>5, <1>8, <1>9, <2>1, PlacesDispatch DEF Values
<1>11. Sized'
  <2>1. f.id \in Conn /\ f.req \in Req /\ dispatched' \subseteq Req
    BY <1>2, <1>3 DEF id, q, Values, Sized
  <2>2. \A d \in Ctx : \A g \in Running(calls'[d]) : g.id \in Conn /\ g.req \in Req
    BY <1>1, <2>1 DEF Values, Sized
  <2>3. QED
    BY <2>1, <2>2 DEF Values, Sized
<1>12. Gave'
  BY <1>1, <1>6, CtxFacts DEF Values, Gave
<1>13. Sent'
  BY <1>3 DEF Values, Sent, q
<1>14. ASSUME NEW jd \in Conn, NEW j \in 1..Len(asked[jd]), asked[jd][j].req = q PROVE jd = id /\ j = k
  BY <1>2, <1>14 DEF Values, Sent
<1>15. AheadQueued'
  <2>1. ASSUME NEW w \in Worker, NEW i \in DOMAIN inbox[w]
        PROVE  AheadOf(inbox[w][i].conn, 1, asked[inbox[w][i].conn.id], answers[inbox[w][i].conn.id], dispatched \cup {q})
    <3> DEFINE conn == inbox[w][i].conn
    <3>1. conn.id \in Conn /\ InQueue(conn.id, w)
      BY DEF IInv, Core, Queued, InQueue, QueuedConns
    <3>2. conn.id # id
      <4>1. InTable(id, c)
        BY IdsInConn DEF InTable, IInv, Core, id
      <4>2. QED
        BY <3>1, <4>1 DEF IInv, Core, Owners, OwnedOnce
    <3>3. AheadOf(conn, 1, asked[conn.id], answers[conn.id], dispatched)
      BY DEF Values, Ahead, AheadQueued
    <3> HIDE DEF conn
    <3>4. \A j \in 1..Len(asked[conn.id]) : asked[conn.id][j].req # q
      BY <1>14, <3>1, <3>2
    <3>5. asked[conn.id] \in Seq(Item) /\ answers[conn.id] \in Seq(0..MaxReq)
      BY <1>2, <3>1
    <3>6. AheadOf(conn, 1, asked[conn.id], answers[conn.id], dispatched \cup {q})
      <4>1. 1 \in {0, 1} /\ 1 <= 1
        OBVIOUS
      <4>2. conn.mode = "http" => \A m \in 1..Len(asked[conn.id]) : asked[conn.id][m].req = q => m <= Finished(conn, answers[conn.id]) + 1
        BY <3>4
      <4>3. QED
        BY <3>3, <3>5, <4>1, <4>2, AheadFurther
    <3>7. QED
      BY <3>6 DEF conn
  <2>2. QED
    BY <2>1 DEF AheadQueued, q
<1>16. ASSUME NEW d \in Ctx, NEW r \in Alive(slots[d])
       PROVE  AheadOf(slots[d][r], Pending(calls'[d], slots[d][r].id), asked[slots[d][r].id], answers[slots[d][r].id],
                      dispatched \cup {q})
  <2> DEFINE conn == slots[d][r]
  <2> DEFINE n == Pending(calls[d], conn.id)
  <2> DEFINE m == Pending(calls'[d], conn.id)
  <2>1. conn.id \in Conn /\ InTable(conn.id, d) /\ InTable(id, c)
    BY <1>16, IdsInConn DEF InTable, IInv, Core, id
  <2>2. AheadOf(conn, n, asked[conn.id], answers[conn.id], dispatched)
    BY <1>16 DEF Values, Ahead, AheadIn, AheadAll
  <2>3. n \in {0, 1} /\ m \in {0, 1} /\ n <= m /\ (conn.id = id => m = 1 /\ conn = slots[c][s])
    <3>1. CASE d = c
      <4>1. n = 0 /\ m = IF f.id = conn.id THEN 1 ELSE 0
        BY <1>1, <3>1, PendingFacts
      <4>2. conn.id = id => conn = slots[c][s]
        BY <1>16, <3>1, IdsInConn DEF IInv, Core, id
      <4> HIDE DEF n, m, conn
      <4>3. QED
        BY <4>1, <4>2 DEF id
    <3>2. CASE d # c
      <4>1. n = m /\ n \in {0, 1}
        BY <1>1, <3>2, PendingFacts
      <4>2. conn.id # id
        BY <2>1, <3>2 DEF IInv, Core, Owners, OwnedOnce
      <4> HIDE DEF n, m
      <4>3. n <= m
        BY <4>1
      <4>4. QED
        BY <4>1, <4>2, <4>3
    <3>3. QED
      BY <3>1, <3>2
  <2> HIDE DEF conn, n, m
  <2>4. ASSUME NEW i \in 1..Len(asked[conn.id]), asked[conn.id][i].req = q PROVE i <= Finished(conn, answers[conn.id]) + m
    <3>1. conn.id = id /\ i = k
      BY <1>14, <2>1, <2>4
    <3>2. m = 1 /\ i = Finished(conn, answers[conn.id]) + 1 /\ Finished(conn, answers[conn.id]) \in Int
      BY <1>4, <2>3, <3>1 DEF k
    <3>3. QED
      BY <3>2
  <2>5. asked[conn.id] \in Seq(Item) /\ answers[conn.id] \in Seq(0..MaxReq)
    BY <1>2, <2>1
  <2>6. AheadOf(conn, m, asked[conn.id], answers[conn.id], dispatched \cup {q})
    BY <2>2, <2>3, <2>4, <2>5, AheadFurther
  <2>7. QED
    BY <2>6 DEF conn, m
<1>17. \A d \in Ctx : AheadIn(d)'
  BY <1>16 DEF AheadIn, AheadAll, q
<1>18. QED
  BY <1>10, <1>11, <1>12, <1>13, <1>15, <1>17 DEF Values, Ahead

LEMMA ReadingTurnValues == ASSUME IInv, Looking, Order, Values, NEW c \in Ctx, ReadingTurn(c) PROVE Values'
<1> DEFINE s == ById(c, slots[c][Top(c).slot].id)
<1> DEFINE reading == IF s = 0 THEN FALSE ELSE slots[c][s].mode = "http"
<1> DEFINE found == IF reading THEN Parsed(slots[c][s].buf) ELSE "nothing"
<1>1. /\ ~ Idle(c) /\ Top(c).at = "reading"
      /\ UNCHANGED <<inbox, lost, released, lastDetached, given, asked, answers, nextReq, nextId>>
      /\ \/ found = "nothing" /\ calls' = [calls EXCEPT ![c] = Beneath(c)] /\ UNCHANGED <<tables, dispatched>>
         \/ found = "malformed" /\ Teardown(c, s, Beneath(c)) /\ UNCHANGED dispatched
         \/ found = "request" /\ Dispatch(c, slots[c][s], calls[c]) /\ UNCHANGED <<tables, ending>>
  BY DEF ReadingTurn, InCode, handoff, sending, replies
<1>2. found # "nothing" => s # 0 /\ slots[c][s].mode = "http" /\ Parsed(slots[c][s].buf) = found
  OBVIOUS
<1> HIDE DEF found, reading
<1>3. s # 0 => /\ s \in Alive(slots[c]) /\ slots[c][s] \in Record /\ slots[c][s].id \in Conn
               /\ Len(calls[c]) = 1 /\ calls[c][1] = Top(c)
  BY <1>1, SameSlot
<1> HIDE DEF s
<1>4. CASE calls' = [calls EXCEPT ![c] = Beneath(c)] /\ UNCHANGED <<tables, dispatched>>
  BY <1>1, <1>4, ValuesPop DEF tables, NoValue
<1>5. CASE found = "malformed" /\ Teardown(c, s, Beneath(c)) /\ UNCHANGED dispatched
  <2>1. s \in Alive(slots[c]) /\ Running(Beneath(c)) = Running(calls[c]) /\ Beneath(c) \in Seq(Frame)
    BY <1>1, <1>2, <1>3, <1>5, ValuesUnder, OrderUnder
  <2>2. QED
    BY <1>1, <1>5, <2>1, ValuesTeardown DEF NoValue
<1>6. CASE found = "request" /\ Dispatch(c, slots[c][s], calls[c]) /\ UNCHANGED <<tables, ending>>
  <2> DEFINE f == Request(slots[c][s].id, slots[c][s].buf[1].req)
  <2> DEFINE tt == Append(calls[c], f)
  <2>1. s # 0 /\ Parsed(slots[c][s].buf) = "request" /\ Complete(slots[c][s].buf) /\ slots[c][s].mode = "http"
    BY <1>2, <1>6 DEF Parsed
  <2>2. slots[c][s].buf[1].req \in 0..MaxReq /\ slots[c][s].id \in 0..MaxConn
    BY <1>3, <2>1, RecordFacts, ParsedFacts
  <2>3. f \in Frame /\ f.id = slots[c][s].id /\ f.at = "request"
    BY <2>2, CallFacts
  <2>4. f.req = slots[c][s].buf[1].req
    BY DEF Request, Handler, Doing
  <2>5. calls' = [calls EXCEPT ![c] = tt] /\ dispatched' = dispatched \cup {slots[c][s].buf[1].req}
    BY <1>6 DEF Dispatch
  <2> HIDE DEF f
  <2>6. Serving(calls[c]) = {}
    <3>1. calls[c] \in Seq(Frame)
      BY OrderUnder
    <3>2. DOMAIN calls[c] = 1..1
      BY <1>3, <2>1, <3>1, LenProperties
    <3>3. \A i \in DOMAIN calls[c] : calls[c][i].at # "request"
      BY <1>1, <1>3, <2>1, <3>2
    <3>4. QED
      BY <3>3 DEF Serving
  <2>7. Pushed(calls[c], tt, f)
    BY <2>3, OrderUnder, PushSeq
  <2> HIDE DEF tt
  <2>8. UNCHANGED <<slots, inbox, lost, released, lastDetached, given, asked, answers, nextReq, nextId>>
    BY <1>1, <1>6 DEF tables
  <2>9. s \in Alive(slots[c])
    BY <1>3, <2>1
  <2>10. dispatched' = dispatched \cup {f.req}
    BY <2>4, <2>5
  <2>11. QED
    BY <2>1, <2>3, <2>4, <2>5, <2>6, <2>7, <2>8, <2>9, <2>10, ValuesRequest
<1>7. QED
  BY <1>1, <1>4, <1>5, <1>6

\* A request's handler is over: what its connection's record says counts it as done with.
LEMMA TracedFinish ==
  ASSUME IInv, Order, NEW c \in Ctx, NEW id \in Conn, \A k : Pending(calls[c], k) = IF k = id THEN 1 ELSE 0,
         Running(calls'[c]) = {}, \A k \in Conn \ {id} : answers'[k] = answers[k],
         id \notin IdsOf(slots[c]) => answers'[id] = answers[id],
         \A r \in Alive(slots'[c]) :
           /\ r \in Alive(slots[c])
           /\ slots[c][r].id # id => slots'[c][r] = slots[c][r]
           /\ slots[c][r].id = id => /\ slots'[c][r].id = id
                                     /\ slots'[c][r].mode = "http" =>
                                          /\ slots[c][r].mode = "http"
                                          /\ Finished(slots[c][r], answers[id]) + 1 <= Finished(slots'[c][r], answers'[id]) + 0
  PROVE  Traced(c)
<1>1. \A k : Pending(calls'[c], k) = 0
  BY PendingFacts
<1>2. ASSUME NEW r \in Alive(slots'[c]) PROVE Follows(c, slots'[c][r], slots[c][r])
  <2> DEFINE x == slots'[c][r]
  <2> DEFINE y == slots[c][r]
  <2>1. r \in Alive(slots[c]) /\ y.id \in Conn
    BY <1>2, OrderUnder, IdsInConn
  <2>2. CASE y.id # id
    <3>1. x = y /\ answers'[y.id] = answers[y.id] /\ Pending(calls[c], y.id) = 0 /\ Pending(calls'[c], y.id) = 0
      BY <1>1, <1>2, <2>1, <2>2
    <3>2. answers[y.id] \in Seq(0..MaxReq)
      BY <2>1 DEF Order, Histories
    <3>3. Finished(y, answers[y.id]) \in Int
      BY <3>2, FinishedInt
    <3> HIDE DEF x, y
    <3>4. Finished(y, answers[y.id]) + 0 <= Finished(y, answers[y.id]) + 0
      BY <3>3
    <3>5. Follows(c, x, y)
      BY <3>1, <3>4 DEF Follows
    <3>6. QED
      BY <3>5 DEF x, y
  <2>3. CASE y.id = id
    <3>1. /\ x.id = id /\ Pending(calls[c], id) = 1 /\ Pending(calls'[c], id) = 0
          /\ x.mode = "http" => y.mode = "http" /\ Finished(y, answers[id]) + 1 <= Finished(x, answers'[id]) + 0
      BY <1>1, <1>2, <2>1, <2>3
    <3> HIDE DEF x, y
    <3>2. Follows(c, x, y)
      BY <2>3, <3>1 DEF Follows
    <3>3. QED
      BY <3>2 DEF x, y
  <2>4. QED
    BY <2>2, <2>3
<1>3. QED
  BY <1>2 DEF Traced

LEMMA ValuesFinish ==
  ASSUME IInv, Order, Values, NEW c \in Ctx, ~ Idle(c), Top(c).at = "request",
         \A d \in Ctx \ {c} : slots'[d] = slots[d] /\ calls'[d] = calls[d],
         Running(calls'[c]) = {}, Traced(c), answers' \in [Conn -> Seq(0..MaxReq)],
         lastDetached' = IF HandedOff(c, Top(c).id) THEN 0 ELSE lastDetached,
         released' = [released EXCEPT ![Top(c).req] = IF HandedOff(c, Top(c).id) THEN @ ELSE @ + 1],
         UNCHANGED <<inbox, lost, dispatched, given, asked, nextReq, nextId>>
  PROVE  Values'
<1> DEFINE f == Top(c)
<1>1. Running(calls[c]) = {f}
  BY RunTop
<1>2. /\ f.id \in Conn /\ f.req \in Req /\ f.id # 0 /\ released \in [Req -> Nat]
      /\ Places /\ Gave /\ Sent /\ Ahead /\ Main \in Ctx
  BY <1>1, ConnFacts, CtxFacts DEF Values, Sized, Conn
<1>3. HandedOff(c, f.id) <=> c = Main /\ lastDetached = f.id
  <2>1. ASSUME c = Main, lastDetached = f.id PROVE ById(c, f.id) = 0
    <3>1. f.id \notin IdsOf(slots[Main])
      BY <1>2, <2>1 DEF Gave
    <3>2. ASSUME ById(c, f.id) # 0 PROVE FALSE
      <4>1. ById(c, f.id) \in Alive(slots[c]) /\ slots[c][ById(c, f.id)].id = f.id
        BY <3>2, HandlerConn DEF IInv
      <4>2. QED
        BY <2>1, <3>1, <4>1 DEF IdsOf
    <3>3. QED
      BY <3>2
  <2>2. QED
    BY <2>1 DEF HandedOff
<1>4. \A r : Holds(r, c) <=> r = f.req /\ ~ HandedOff(c, f.id)
  BY <1>1, <1>3 DEF Holds
<1>5. \A r : ~ Holds(r, c)'
  BY DEF Holds
<1>6. \A d \in Ctx \ {c} : \A r : Holds(r, d)' <=> Holds(r, d)
  <2>1. ASSUME NEW d \in Ctx \ {c} PROVE \A r : Holds(r, d)' <=> Holds(r, d)
    <3>1. CASE d = Main
      <4>1. lastDetached' = lastDetached
        BY <1>3, <2>1, <3>1
      <4>2. QED
        BY <2>1, <3>1, <4>1 DEF Holds
    <3>2. CASE d # Main
      BY <2>1, <3>2 DEF Holds
    <3>3. QED
      BY <3>1, <3>2
  <2>2. QED
    BY <2>1
<1> HIDE DEF f
<1>7. Places' /\ released' \in [Req -> Nat]
  <2>1. CASE HandedOff(c, f.id)
    <3>1. released' = released
      BY <1>2, <2>1 DEF f
    <3>2. \A d \in Ctx : \A r \in Req : Holds(r, d)' <=> Holds(r, d)
      BY <1>4, <1>5, <1>6, <2>1
    <3>3. QED
      BY <1>2, <3>1, <3>2, PlacesSame
  <2>2. CASE ~ HandedOff(c, f.id)
    <3>1. released' = [released EXCEPT ![f.req] = @ + 1]
      BY <1>2, <2>2 DEF f
    <3>2. Holds(f.req, c) /\ \A r \in Req : (Holds(r, c)' <=> Holds(r, c) /\ r # f.req)
      BY <1>4, <1>5, <2>2
    <3>3. Places'
      BY <1>2, <1>6, <3>1, <3>2, PlacesRelease
    <3>4. QED
      BY <1>2, <3>1, <3>3
  <2>3. QED
    BY <2>1, <2>2
<1>8. Sized'
  <2>1. \A d \in Ctx : \A g \in Running(calls'[d]) : g \in Running(calls[d])
    OBVIOUS
  <2>2. QED
    BY <1>7, <2>1 DEF Values, Sized
<1>9. Gave'
  <2>1. \A id \in given' : id \in Conn /\ id < nextId' /\ id \notin IdsOf(slots'[Main])
    <3>1. nextId' \in Nat /\ nextId' >= nextId
      BY ConnFacts DEF IInv, Types
    <3>2. QED
      BY <3>1, GivenStep
  <2>2. ASSUME lastDetached' # 0 PROVE lastDetached' \in given' /\ \E g \in Running(calls'[Main]) : g.id = lastDetached'
    <3>1. ~ HandedOff(c, f.id) /\ lastDetached' = lastDetached /\ lastDetached # 0
      BY <2>2 DEF f
    <3>2. lastDetached \in given /\ \E g \in Running(calls[Main]) : g.id = lastDetached
      BY <1>2, <3>1 DEF Gave
    <3>3. c # Main
      BY <1>1, <1>3, <3>1, <3>2
    <3>4. QED
      BY <1>2, <3>1, <3>2, <3>3
  <2>3. QED
    BY <2>1, <2>2 DEF Gave
<1>10. Sent'
  BY <1>2 DEF Sent
<1>11. Ahead'
  BY <1>2, AheadStep
<1>12. QED
  BY <1>7, <1>8, <1>9, <1>10, <1>11 DEF Values

LEMMA FinishRequestValues == ASSUME IInv, Order, Values, NEW c \in Ctx, FinishRequest(c) PROVE Values'
<1> DEFINE id == Top(c).id
<1> DEFINE s == ById(c, id)
<1>1. /\ ~ Idle(c) /\ Top(c).at = "request" /\ UNCHANGED <<inbox, lost, dispatched, given, asked, nextReq, nextId>>
      /\ lastDetached' = IF HandedOff(c, Top(c).id) THEN 0 ELSE lastDetached
      /\ released' = [released EXCEPT ![Top(c).req] = IF HandedOff(c, Top(c).id) THEN @ ELSE @ + 1]
      /\ IF s # 0 /\ ~ slots[c][s].responded
         THEN answers' = [answers EXCEPT ![id] = Append(@, slots[c][s].buf[1].req)] ELSE UNCHANGED answers
      /\ \/ s = 0 /\ calls' = [calls EXCEPT ![c] = Beneath(c)] /\ UNCHANGED <<tables, ending>>
         \/ /\ s # 0 /\ slots[c][s].mode = "ws"
            /\ slots' = [slots EXCEPT ![c][s].upgraded = TRUE]
            /\ calls' = [calls EXCEPT ![c] = Append(Beneath(c), Handler("upgrade", id))]
            /\ UNCHANGED <<free, index, used, ending>>
         \/ s # 0 /\ slots[c][s].mode = "http" /\ Teardown(c, s, Beneath(c))
         \/ /\ s # 0 /\ slots[c][s].mode = "http"
            /\ slots' = [slots EXCEPT ![c][s].buf = SubSeq(@, 3, Len(@)), ![c][s].responded = FALSE]
            /\ calls' = [calls EXCEPT ![c] = Beneath(c)]
            /\ UNCHANGED <<free, index, used, ending>>
  BY DEF FinishRequest, InCode, SendAll, sending
<1>2. s # 0 => s \in Alive(slots[c]) /\ slots[c][s].id = id /\ slots[c][s] \in Record /\ s \in DOMAIN slots[c]
               /\ \A r \in Alive(slots[c]) : slots[c][r].id = id => r = s
  BY <1>1, HandlerConn DEF IInv
<1>3. s = 0 => id \notin IdsOf(slots[c])
  <2>1. id \in 0..MaxConn /\ Tabled(c)
    BY <1>1, OrderUnder, TopFacts
  <2>2. QED
    BY <2>1, ByIdFacts
<1>4. /\ Running(calls[c]) = {Top(c)} /\ Running(Beneath(c)) = {} /\ id \in Conn
      /\ Beneath(c) \in Seq(Frame) /\ Domains /\ DOMAIN calls = Ctx /\ answers \in [Conn -> Seq(0..MaxReq)]
  <2>1. Running(calls[c]) = {Top(c)} /\ Running(Beneath(c)) = {}
    BY <1>1, RunTop
  <2>2. id \in Conn
    BY <2>1 DEF Values, Sized
  <2>3. QED
    BY <1>1, <2>1, <2>2, OrderUnder DEF Types, Order, Histories
<1>5. \A k : Pending(calls[c], k) = IF k = id THEN 1 ELSE 0
  BY <1>4, PendingFacts
<1> HIDE DEF s
<1>6. s # 0 => /\ slots[c][s].mode = "http" => Complete(slots[c][s].buf)
               /\ ~ slots[c][s].responded => slots[c][s].mode = "http" /\ Complete(slots[c][s].buf)
  BY <1>1, <1>2, HandlerHead DEF Handled
<1>7. answers' \in [Conn -> Seq(0..MaxReq)] /\ \A k \in Conn \ {id} : answers'[k] = answers[k]
  <2>1. CASE s # 0 /\ ~ slots[c][s].responded
    BY <1>1, <1>2, <1>6, <2>1, OrderAnswer
  <2>2. CASE ~ (s # 0 /\ ~ slots[c][s].responded)
    BY <1>1, <1>4, <2>2
  <2>3. QED
    BY <2>1, <2>2
<1>8. id \notin IdsOf(slots[c]) => answers'[id] = answers[id]
  <2>1. s # 0 => id \in IdsOf(slots[c])
    BY <1>2 DEF IdsOf
  <2>2. QED
    BY <1>1, <2>1
<1>9. CASE s = 0 /\ calls' = [calls EXCEPT ![c] = Beneath(c)] /\ UNCHANGED <<tables, ending>>
  <2>1. calls'[c] = Beneath(c) /\ slots' = slots /\ \A d \in Ctx \ {c} : slots'[d] = slots[d] /\ calls'[d] = calls[d]
    BY <1>4, <1>9 DEF tables
  <2>2. Running(calls'[c]) = {}
    BY <1>4, <2>1
  <2>3. \A r \in Alive(slots'[c]) : r \in Alive(slots[c]) /\ slots'[c][r] = slots[c][r] /\ slots[c][r].id # id
    BY <1>3, <1>9, <2>1 DEF IdsOf
  <2>4. Traced(c)
    BY <1>4, <1>5, <1>7, <1>8, <2>2, <2>3, TracedFinish
  <2>5. QED
    BY <1>1, <1>7, <2>1, <2>2, <2>4, ValuesFinish
<1>10. CASE s # 0 /\ slots[c][s].mode = "http" /\ Teardown(c, s, Beneath(c))
  <2>1. s \in Alive(slots[c])
    BY <1>2, <1>10
  <2>2. ~ slots[c][s].upgraded
    BY <1>10, <2>1, OrderUnder, HttpNotClosing
  <2>3. calls' = [calls EXCEPT ![c] = Beneath(c)] /\ Dispose(c, s)
    BY <1>10, <2>2 DEF Teardown, RunsCloseHandler
  <2>4. /\ \A d \in Ctx \ {c} : slots'[d] = slots[d]
        /\ \A r \in Alive(slots'[c]) : r \in Alive(slots[c]) /\ slots'[c][r] = slots[c][r] /\ r # s
    BY <2>1, <2>3, Disposed
  <2>5. calls'[c] = Beneath(c) /\ \A d \in Ctx \ {c} : slots'[d] = slots[d] /\ calls'[d] = calls[d]
    BY <1>4, <2>3, <2>4
  <2>6. Running(calls'[c]) = {}
    BY <1>4, <2>5
  <2>7. \A r \in Alive(slots'[c]) : r \in Alive(slots[c]) /\ slots'[c][r] = slots[c][r] /\ slots[c][r].id # id
    BY <1>2, <1>10, <2>4
  <2>8. Traced(c)
    BY <1>4, <1>5, <1>7, <1>8, <2>6, <2>7, TracedFinish
  <2>9. QED
    BY <1>1, <1>7, <2>5, <2>6, <2>8, ValuesFinish
<1>11. CASE /\ s # 0 /\ slots[c][s].mode = "ws"
            /\ slots' = [slots EXCEPT ![c][s].upgraded = TRUE]
            /\ calls' = [calls EXCEPT ![c] = Append(Beneath(c), Handler("upgrade", id))]
            /\ UNCHANGED <<free, index, used, ending>>
  <2> DEFINE conn == [slots[c][s] EXCEPT !.upgraded = TRUE]
  <2> DEFINE f == Handler("upgrade", id)
  <2> DEFINE tt == Append(Beneath(c), f)
  <2>1. conn \in Record /\ conn.id = slots[c][s].id /\ conn.mode = "ws" /\ s \in Alive(slots[c])
    BY <1>2, <1>11 DEF Record
  <2>2. slots' = [slots EXCEPT ![c] = [slots[c] EXCEPT ![s] = conn]]
    BY <1>11
  <2>3. f \in Frame /\ f.at = "upgrade"
    BY <1>4, CallFacts, ConnFacts DEF UserCode
  <2>4. calls'[c] = tt /\ \A d \in Ctx \ {c} : calls'[d] = calls[d]
    BY <1>4, <1>11
  <2> HIDE DEF conn, f
  <2>5. Pushed(Beneath(c), tt, f)
    BY <1>4, <2>3, PushSeq
  <2> HIDE DEF tt
  <2>6. Running(calls'[c]) = {}
    BY <1>4, <2>3, <2>4, <2>5, RunPush
  <2>7. slots'[c] = [slots[c] EXCEPT ![s] = conn] /\ \A d \in Ctx \ {c} : slots'[d] = slots[d]
    BY <1>4, <2>2 DEF Domains
  <2>8. Changed(slots[c], slots'[c], s, conn)
    BY <2>1, <2>7, OrderUnder, ChangeFacts DEF Tabled
  <2>9. slots'[c][s] = conn /\ \A r \in Alive(slots'[c]) : r # s => r \in Alive(slots[c]) /\ slots'[c][r] = slots[c][r]
    BY <2>8 DEF Changed, Alive
  <2>10. ASSUME NEW r \in Alive(slots'[c])
         PROVE  /\ r \in Alive(slots[c])
                /\ slots[c][r].id # id => slots'[c][r] = slots[c][r]
                /\ slots[c][r].id = id => slots'[c][r].id = id /\ slots'[c][r].mode # "http"
    BY <1>2, <1>11, <2>1, <2>9
  <2>11. \A r \in Alive(slots'[c]) :
           /\ r \in Alive(slots[c])
           /\ slots[c][r].id # id => slots'[c][r] = slots[c][r]
           /\ slots[c][r].id = id => /\ slots'[c][r].id = id
                                     /\ slots'[c][r].mode = "http" =>
                                          /\ slots[c][r].mode = "http"
                                          /\ Finished(slots[c][r], answers[id]) + 1 <= Finished(slots'[c][r], answers'[id]) + 0
    BY <2>10
  <2>12. Traced(c)
    BY <1>4, <1>5, <1>7, <1>8, <2>6, <2>11, TracedFinish
  <2>13. QED
    BY <1>1, <1>7, <2>4, <2>6, <2>7, <2>12, ValuesFinish
<1>12. CASE /\ s # 0 /\ slots[c][s].mode = "http"
            /\ slots' = [slots EXCEPT ![c][s].buf = SubSeq(@, 3, Len(@)), ![c][s].responded = FALSE]
            /\ calls' = [calls EXCEPT ![c] = Beneath(c)]
            /\ UNCHANGED <<free, index, used, ending>>
  <2> DEFINE b == SubSeq(slots[c][s].buf, 3, Len(slots[c][s].buf))
  <2> DEFINE conn == [slots[c][s] EXCEPT !.buf = b, !.responded = FALSE]
  <2>1. slots[c][s] \in Record /\ s \in Alive(slots[c]) /\ slots[c][s].id = id /\ slots[c][s].buf \in Seq(Item)
    BY <1>2, <1>12, RecordFacts
  <2>2. slots' = [slots EXCEPT ![c] = [slots[c] EXCEPT ![s] = conn]]
    <3>1. c \in DOMAIN slots /\ s \in DOMAIN slots[c]
      BY <1>2, <1>4, <1>12 DEF Domains
    <3>2. QED
      BY <1>12, <2>1, <3>1
  <2>3. b \in Seq(Item)
    BY <2>1, RestOfBuffer
  <2>4. conn \in Record /\ conn.id = id /\ conn.mode = "http" /\ ~ conn.responded
    <3> HIDE DEF b
    <3>1. QED
      BY <1>12, <2>1, <2>3 DEF Record
  <2> HIDE DEF conn, b
  <2>5. slots'[c] = [slots[c] EXCEPT ![s] = conn] /\ \A d \in Ctx \ {c} : slots'[d] = slots[d]
    BY <1>4, <2>2 DEF Domains
  <2>6. Changed(slots[c], slots'[c], s, conn)
    BY <2>1, <2>4, <2>5, OrderUnder, ChangeFacts DEF Tabled
  <2>7. slots'[c][s] = conn /\ \A r \in Alive(slots'[c]) : r # s => r \in Alive(slots[c]) /\ slots'[c][r] = slots[c][r]
    BY <2>6 DEF Changed, Alive
  <2>8. Finished(slots[c][s], answers[id]) + 1 <= Finished(conn, answers'[id]) + 0
    <3>1. answers[id] \in Seq(0..MaxReq) /\ Len(answers[id]) \in Nat
      BY <1>4, LenProperties
    <3>2. CASE slots[c][s].responded
      <4>1. answers'[id] = answers[id]
        BY <1>1, <3>2
      <4>2. QED
        BY <2>4, <3>1, <3>2, <4>1 DEF Finished
    <3>3. CASE ~ slots[c][s].responded
      <4>1. answers'[id] = Append(answers[id], slots[c][s].buf[1].req)
        BY <1>1, <1>4, <1>12, <3>3
      <4>2. slots[c][s].buf[1].req \in 0..MaxReq
        BY <1>6, <1>12, <2>1, HeadInReq
      <4>3. Len(answers'[id]) = Len(answers[id]) + 1
        BY <3>1, <4>1, <4>2, AppendProperties
      <4>4. QED
        BY <2>4, <3>1, <3>3, <4>3 DEF Finished
    <3>4. QED
      BY <3>2, <3>3
  <2>9. calls'[c] = Beneath(c) /\ \A d \in Ctx \ {c} : slots'[d] = slots[d] /\ calls'[d] = calls[d]
    BY <1>4, <1>12, <2>5
  <2>10. Running(calls'[c]) = {}
    BY <1>4, <2>9
  <2>11. ASSUME NEW r \in Alive(slots'[c])
         PROVE  /\ r \in Alive(slots[c])
                /\ slots[c][r].id # id => slots'[c][r] = slots[c][r]
                /\ slots[c][r].id = id => /\ slots'[c][r].id = id
                                          /\ slots[c][r].mode = "http"
                                          /\ Finished(slots[c][r], answers[id]) + 1 <= Finished(slots'[c][r], answers'[id]) + 0
    BY <1>2, <1>12, <2>1, <2>4, <2>7, <2>8
  <2>12. Traced(c)
    BY <1>4, <1>5, <1>7, <1>8, <2>10, <2>11, TracedFinish
  <2>13. QED
    BY <1>1, <1>7, <2>9, <2>10, <2>12, ValuesFinish
<1>13. QED
  BY <1>1, <1>9, <1>10, <1>11, <1>12

LEMMA GiveRequestValues == ASSUME IInv, Order, Values, NEW w \in Worker, GiveRequest(w) PROVE Values'
<1> DEFINE f == Top(Main)
<1> DEFINE id == f.id
<1> DEFINE s == ById(Main, id)
<1> DEFINE p == [conn |-> slots[Main][s], req |-> f.req]
<1>1. /\ ~ Idle(Main) /\ Top(Main).at = "request" /\ s # 0 /\ Vacate(Main, s, Blank)
      /\ inbox' = [inbox EXCEPT ![w] = Append(@, p)] /\ lastDetached' = id /\ given' = given \cup {id}
      /\ UNCHANGED <<lost, released, dispatched, calls, nextId, asked, answers, nextReq>>
  BY DEF GiveRequest, InCode, Answerable, control, client, sending, outcome, replies, values
<1>2. Main \in Ctx /\ Types /\ Core /\ Domains /\ Tabled(Main) /\ inbox \in [Worker -> Seq(Parcel)] /\ inbox[w] \in Seq(Parcel)
  BY CtxFacts, OrderUnder DEF Types
<1>3. s \in Alive(slots[Main]) /\ slots[Main][s].id = id /\ id \in Conn /\ slots[Main][s] \in Record /\ id \in IdsOf(slots[Main])
  BY <1>1, <1>2, HandlerConn DEF IInv, IdsOf
<1>4. Running(calls[Main]) = {f} /\ f.req \in Req /\ id # 0
  <2>1. Running(calls[Main]) = {f}
    BY <1>1, <1>2, RunTop
  <2>2. QED
    BY <1>2, <1>3, <2>1, ConnFacts DEF Values, Sized, Conn
<1>5. lastDetached = 0
  BY <1>2, <1>3, <1>4 DEF Values, Gave
<1>6. p \in Parcel /\ p.req = f.req /\ p.conn = slots[Main][s]
  <2>1. f.req \in 0..MaxReq
    BY <1>1, <1>2, TopFacts DEF Core
  <2>2. QED
    BY <1>3, <2>1 DEF Parcel
<1>7. id < nextId
  BY <1>2, <1>3 DEF Core, Owners, OwnedOnce, InTable
<1> HIDE DEF s, p, f
<1>8. Blank \in Record /\ ~ Blank.alive /\ ~ Blank.upgraded
  BY <1>3, BlankFacts, ConnFacts DEF Blank
<1>9. /\ Others(Main) /\ Changed(slots[Main], slots'[Main], s, Blank)
      /\ IdsOf(slots'[Main]) = IdsOf(slots[Main]) \ {id}
  <2>1. Vacate(Main, s, Blank) /\ s \in Alive(slots[Main]) /\ slots[Main][s].id = id
    BY <1>1, <1>3
  <2> HIDE DEF id
  <2>2. /\ Others(Main) /\ Changed(slots[Main], slots'[Main], s, Blank)
        /\ IdsOf(slots'[Main]) = IdsOf(slots[Main]) \ {slots[Main][s].id}
    BY <1>2, <1>8, <2>1, VacateStep
  <2>3. QED
    BY <2>1, <2>2
<1>10. \A r \in Alive(slots'[Main]) : r \in Alive(slots[Main]) /\ slots'[Main][r] = slots[Main][r]
  BY <1>8, <1>9 DEF Changed, Alive
<1>11. \A d \in Ctx \ {Main} : slots'[d] = slots[d] /\ calls'[d] = calls[d]
  BY <1>1, <1>9 DEF Others
<1>12. Places'
  <2>1. \A r : Holds(r, Main) <=> r = f.req
    BY <1>4, <1>5 DEF Holds
  <2>2. \A r : ~ Holds(r, Main)'
    BY <1>1, <1>4 DEF Holds
  <2>3. \A d \in Ctx \ {Main} : \A r : Holds(r, d)' <=> Holds(r, d)
    BY <1>11 DEF Holds
  <2>4. p.req \in Req /\ Holds(p.req, Main)
    BY <1>4, <1>6, <2>1
  <2>5. \A r \in Req : (Holds(r, Main)' <=> Holds(r, Main) /\ r # p.req)
    BY <1>6, <2>1, <2>2
  <2>6. QED
    BY <1>1, <1>2, <1>6, <2>3, <2>4, <2>5, PlacesGive DEF Values
<1>13. /\ inbox'[w] = Append(inbox[w], p) /\ \A v \in Worker \ {w} : inbox'[v] = inbox[v]
       /\ \A i \in DOMAIN inbox'[w] : inbox'[w][i] = p \/ (i \in DOMAIN inbox[w] /\ inbox'[w][i] = inbox[w][i])
  <2>1. inbox'[w] = Append(inbox[w], p) /\ \A v \in Worker \ {w} : inbox'[v] = inbox[v]
    BY <1>1, <1>2
  <2>2. /\ Len(inbox[w]) \in Nat /\ DOMAIN inbox[w] = 1..Len(inbox[w])
        /\ DOMAIN inbox'[w] = 1..(Len(inbox[w]) + 1) /\ inbox'[w][Len(inbox[w]) + 1] = p
        /\ \A j \in 1..Len(inbox[w]) : inbox'[w][j] = inbox[w][j]
    BY <1>2, <1>6, <2>1, AppendProperties, LenProperties
  <2>3. QED
    BY <2>1, <2>2
<1>14. Sized'
  <2>1. \A v \in Worker : \A i \in DOMAIN inbox'[v] : inbox'[v][i].req \in Req
    BY <1>4, <1>6, <1>13 DEF Values, Sized
  <2>2. QED
    BY <1>1, <2>1 DEF Values, Sized
<1>15. Gave'
  <2>1. \A k \in given' : k \in Conn /\ k < nextId /\ k \notin IdsOf(slots'[Main])
    BY <1>1, <1>3, <1>7, <1>9 DEF Values, Gave
  <2>2. QED
    BY <1>1, <1>4, <2>1 DEF Gave
<1>16. Sent'
  BY <1>1 DEF Values, Sent
<1>17. AheadOf(p.conn, 1, asked[p.conn.id], answers[p.conn.id], dispatched)
  <2>1. Pending(calls[Main], id) = 1
    BY <1>4, PendingFacts
  <2>2. AheadOf(slots[Main][s], Pending(calls[Main], slots[Main][s].id), asked[slots[Main][s].id], answers[slots[Main][s].id], dispatched)
    BY <1>2, <1>3 DEF Values, Ahead, AheadIn, AheadAll
  <2>3. QED
    BY <1>3, <1>6, <2>1, <2>2
<1>18. AheadQueued'
  <2>1. \A v \in Worker : \A i \in DOMAIN inbox'[v] :
          AheadOf(inbox'[v][i].conn, 1, asked[inbox'[v][i].conn.id], answers[inbox'[v][i].conn.id], dispatched)
    BY <1>13, <1>17 DEF Values, Ahead, AheadQueued
  <2>2. QED
    BY <1>1, <2>1 DEF AheadQueued
<1>19. \A d \in Ctx : AheadIn(d)'
  <2>1. \A d \in Ctx : \A r \in Alive(slots'[d]) : r \in Alive(slots[d]) /\ slots'[d][r] = slots[d][r]
    BY <1>10, <1>11
  <2>2. ASSUME NEW d \in Ctx, NEW r \in Alive(slots'[d])
        PROVE  AheadOf(slots'[d][r], Pending(calls[d], slots'[d][r].id), asked[slots'[d][r].id], answers[slots'[d][r].id], dispatched)
    BY <2>1, <2>2 DEF Values, Ahead, AheadIn, AheadAll
  <2>3. QED
    BY <1>1, <2>2 DEF AheadIn, AheadAll
<1>20. QED
  BY <1>12, <1>14, <1>15, <1>16, <1>18, <1>19 DEF Values, Ahead

LEMMA DeliverValues == ASSUME IInv, Order, Values, NEW w \in Worker, Deliver(w) PROVE Values'
<1> DEFINE p == Head(inbox[w])
<1> DEFINE f == Given(p)
<1>1. /\ w \in Ctx /\ w # Main /\ Idle(w) /\ inbox[w] # << >> /\ Install(w, p.conn) /\ calls' = [calls EXCEPT ![w] = <<f>>]
      /\ inbox' = [inbox EXCEPT ![w] = Tail(@)]
      /\ UNCHANGED <<nextId, asked, answers, nextReq, lost, released, dispatched, lastDetached, given>>
  BY CtxFacts, ConnAssumption DEF Deliver, client, sending, outcome, replies, values
<1>2. Types /\ Core /\ Domains /\ Tabled(w) /\ inbox \in [Worker -> Seq(Parcel)] /\ inbox[w] \in Seq(Parcel) /\ DOMAIN calls = Ctx
  BY <1>1, OrderUnder DEF Types
<1>3. p = inbox[w][1] /\ 1 \in DOMAIN inbox[w] /\ p \in Parcel
  BY <1>1, <1>2, HeadTailProperties, LenProperties, EmptySeq
<1>4. p.conn \in Record /\ p.conn.alive /\ p.conn.id \in Conn /\ ~ p.conn.upgraded /\ p.req \in Req
  BY <1>2, <1>3 DEF Core, Queued, Parcel, Values, Sized
<1>5. p.conn.id \notin IdsOf(slots[w])
  <2>1. InQueue(p.conn.id, w)
    BY <1>3 DEF InQueue, QueuedConns
  <2>2. QED
    BY <1>1, <1>2, <1>4, <2>1 DEF Core, Owners, OwnedOnce, InTable
<1>6. f.id = p.conn.id /\ f.req = p.req /\ f.at = "request"
  BY DEF Given, Request, Handler, Doing
<1>7. AheadOf(p.conn, 1, asked[p.conn.id], answers[p.conn.id], dispatched)
  BY <1>3 DEF Values, Ahead, AheadQueued
<1> HIDE DEF f, p
<1> DEFINE conn == p.conn
<1>8. conn \in Record /\ conn.alive /\ conn.id \in Conn /\ ~ conn.upgraded
      /\ conn.id \notin IdsOf(slots[w]) /\ Install(w, conn) /\ f.id = conn.id
      /\ AheadOf(conn, 1, asked[conn.id], answers[conn.id], dispatched)
  BY <1>1, <1>4, <1>5, <1>6, <1>7
<1> HIDE DEF conn
<1>9. Others(w) /\ Added(slots[w], slots'[w], SlotFor(w), conn)
  BY <1>1, <1>2, <1>8, InstallStep
<1>10. Alive(slots'[w]) = Alive(slots[w]) \cup {SlotFor(w)} /\ \A r \in Alive(slots[w]) : slots'[w][r] = slots[w][r]
  BY <1>8, <1>9, AddedFacts
<1>11. slots'[w][SlotFor(w)] = conn
  BY <1>9 DEF Added
<1>12. calls'[w] = <<f>> /\ \A d \in Ctx \ {w} : slots'[d] = slots[d] /\ calls'[d] = calls[d]
  BY <1>1, <1>2, <1>9 DEF Others
<1>13. Running(calls[w]) = {} /\ Running(calls'[w]) = {f}
  BY <1>1, <1>6, <1>12, ValuesUnder, RunSolo
<1>14. Main \in Ctx /\ slots'[Main] = slots[Main] /\ calls'[Main] = calls[Main]
  BY <1>1, <1>12, CtxFacts
<1>15. Places'
  <2>1. \A r : (Holds(r, w)' <=> r = p.req) /\ ~ Holds(r, w)
    BY <1>1, <1>6, <1>13 DEF Holds
  <2>2. \A d \in Ctx \ {w} : \A r \in Req : Holds(r, d)' <=> Holds(r, d)
    BY <1>1, <1>12 DEF Holds
  <2>3. \A r \in Req : (Holds(r, w)' <=> Holds(r, w) \/ r = p.req)
    BY <2>1
  <2>4. p.req = Head(inbox[w]).req
    BY DEF p
  <2>5. QED
    BY <1>1, <1>2, <1>4, <2>2, <2>3, <2>4, PlacesDeliver DEF Values
<1>16. \A v \in Worker : \A i \in DOMAIN inbox'[v] : \E j \in DOMAIN inbox[v] : inbox'[v][i] = inbox[v][j]
  <2>1. ASSUME NEW v \in Worker, NEW i \in DOMAIN inbox'[v] PROVE \E j \in DOMAIN inbox[v] : inbox'[v][i] = inbox[v][j]
    <3>1. CASE v = w
      <4>1. inbox'[w] = Tail(inbox[w])
        BY <1>1, <1>2
      <4>2. i + 1 \in DOMAIN inbox[w] /\ inbox'[w][i] = inbox[w][i + 1]
        BY <1>1, <1>2, <2>1, <3>1, <4>1, TailElement
      <4>3. QED
        BY <3>1, <4>2
    <3>2. CASE v # w
      BY <1>1, <1>2, <2>1, <3>2
    <3>3. QED
      BY <3>1, <3>2
  <2>2. QED
    BY <2>1
<1>17. Sized'
  <2>1. \A v \in Worker : \A i \in DOMAIN inbox'[v] : inbox'[v][i].req \in Req
    BY <1>16 DEF Values, Sized
  <2>2. \A d \in Ctx : \A g \in Running(calls'[d]) : g.id \in Conn /\ g.req \in Req
    <3>1. ASSUME NEW d \in Ctx, NEW g \in Running(calls'[d]) PROVE g.id \in Conn /\ g.req \in Req
      <4>1. CASE d = w
        BY <1>4, <1>6, <1>13, <3>1, <4>1
      <4>2. CASE d # w
        BY <1>12, <3>1, <4>2 DEF Values, Sized
      <4>3. QED
        BY <4>1, <4>2
    <3>2. QED
      BY <3>1
  <2>3. QED
    BY <1>1, <2>1, <2>2 DEF Values, Sized
<1>18. Gave'
  BY <1>1, <1>14 DEF Values, Gave
<1>19. Sent'
  BY <1>1 DEF Values, Sent
<1>20. AheadQueued'
  <2>1. \A v \in Worker : \A i \in DOMAIN inbox'[v] :
          AheadOf(inbox'[v][i].conn, 1, asked[inbox'[v][i].conn.id], answers[inbox'[v][i].conn.id], dispatched)
    BY <1>16 DEF Values, Ahead, AheadQueued
  <2>2. QED
    BY <1>1, <2>1 DEF AheadQueued
<1>21. AheadIn(w)'
  <2>1. ASSUME NEW r \in Alive(slots'[w])
        PROVE  AheadOf(slots'[w][r], Pending(calls'[w], slots'[w][r].id), asked[slots'[w][r].id], answers[slots'[w][r].id], dispatched)
    <3>1. CASE r = SlotFor(w)
      <4>1. Pending(calls'[w], conn.id) = 1
        BY <1>8, <1>13, PendingFacts
      <4>2. QED
        BY <1>8, <1>11, <3>1, <4>1
    <3>2. CASE r # SlotFor(w)
      <4>1. r \in Alive(slots[w]) /\ slots'[w][r] = slots[w][r]
        BY <1>10, <2>1, <3>2
      <4>2. slots[w][r].id # f.id
        BY <1>8, <4>1 DEF IdsOf
      <4>3. Pending(calls'[w], slots[w][r].id) = 0 /\ Pending(calls[w], slots[w][r].id) = 0
        BY <1>13, <4>2, PendingFacts
      <4>4. AheadOf(slots[w][r], Pending(calls[w], slots[w][r].id), asked[slots[w][r].id], answers[slots[w][r].id], dispatched)
        BY <1>1, <4>1 DEF Values, Ahead, AheadIn, AheadAll
      <4>5. QED
        BY <4>1, <4>3, <4>4
    <3>3. QED
      BY <3>1, <3>2
  <2>2. QED
    BY <1>1, <2>1 DEF AheadIn, AheadAll
<1>22. ASSUME NEW d \in Ctx \ {w} PROVE AheadIn(d)'
  BY <1>1, <1>12 DEF Values, Ahead, AheadIn, AheadAll
<1>23. QED
  BY <1>15, <1>17, <1>18, <1>19, <1>20, <1>21, <1>22 DEF Values, Ahead

LEMMA JoinReturnsValues == ASSUME IInv, Order, Values, JoinReturns PROVE Values'
<1> DEFINE w == Top(Main).thread
<1>1. Types /\ Core /\ Contexts /\ Domains /\ Main \in Ctx /\ inbox \in [Worker -> Seq(Parcel)] /\ DOMAIN calls = Ctx
  BY CtxFacts DEF IInv, Core, Types
<1>2. /\ ~ Idle(Main) /\ Top(Main).at = "join" /\ pc[w] = "dead"
      /\ lost' = lost \cup Discarded(w) /\ inbox' = [inbox EXCEPT ![w] = << >>]
      /\ calls' = [calls EXCEPT ![Main] = Beneath(Main)]
      /\ UNCHANGED <<slots, nextId, asked, answers, nextReq, released, dispatched, lastDetached, given>>
  BY DEF JoinReturns, InCode, tables, client, sending, outcome, replies, values
<1>3. w \in Worker
  <2>1. w \in Ctx
    BY <1>1, <1>2, TopFacts, FrameFacts
  <2>2. w # Main
    BY <1>1, <1>2 DEF Types
  <2>3. QED
    BY <2>1, <2>2 DEF Ctx
<1>4. \A d \in Ctx : Running(calls'[d]) = Running(calls[d])
  <2>1. Running(Beneath(Main)) = Running(calls[Main])
    BY <1>1, <1>2, ValuesUnder
  <2>2. calls'[Main] = Beneath(Main) /\ \A d \in Ctx \ {Main} : calls'[d] = calls[d]
    BY <1>1, <1>2
  <2>3. QED
    BY <2>1, <2>2
<1> HIDE DEF w
<1>5. Places'
  <2>1. \A d \in Ctx : \A r \in Req : Holds(r, d)' <=> Holds(r, d)
    BY <1>2, <1>4 DEF Holds
  <2>2. \A i \in DOMAIN inbox[w] : inbox[w][i].req \in Req
    BY <1>3 DEF Values, Sized
  <2>3. QED
    BY <1>1, <1>2, <1>3, <2>1, <2>2, PlacesJoin DEF Values
<1>6. \A v \in Worker : \A i \in DOMAIN inbox'[v] : i \in DOMAIN inbox[v] /\ inbox'[v][i] = inbox[v][i]
  <2>1. DOMAIN << >> = {}
    OBVIOUS
  <2>2. QED
    BY <1>1, <1>2, <2>1
<1>7. Sized'
  BY <1>2, <1>4, <1>6 DEF Values, Sized
<1>8. Gave'
  BY <1>1, <1>2, <1>4 DEF Values, Gave
<1>9. Sent'
  BY <1>2 DEF Values, Sent
<1>10. AheadQueued'
  BY <1>2, <1>6 DEF Values, Ahead, AheadQueued
<1>11. ASSUME NEW d \in Ctx PROVE AheadIn(d)'
  <2>1. \A k : Pending(calls'[d], k) = Pending(calls[d], k)
    BY <1>4, PendingFacts
  <2>2. AheadAll(calls[d], slots[d], asked, answers, dispatched)
    BY DEF Values, Ahead, AheadIn
  <2>3. AheadAll(calls'[d], slots[d], asked, answers, dispatched)
    BY <2>1, <2>2 DEF AheadAll
  <2>4. QED
    BY <1>2, <2>3 DEF AheadIn
<1>12. QED
  BY <1>5, <1>7, <1>8, <1>9, <1>10, <1>11 DEF Values, Ahead

\* A request that has only just been sent has not been dispatched.
LEMMA AheadSent ==
  ASSUME NEW conn, NEW n, NEW qs \in Seq(Item), NEW an, NEW dd, AheadOf(conn, n, qs, an, dd), NEW x, x.req \notin dd, x \in Item
  PROVE  AheadOf(conn, n, Append(qs, x), an, dd)
<1>1. /\ Len(Append(qs, x)) = Len(qs) + 1 /\ Len(qs) \in Nat /\ Append(qs, x)[Len(qs) + 1] = x
      /\ \A i \in 1..Len(qs) : Append(qs, x)[i] = qs[i]
  BY AppendProperties, LenProperties
<1>2. ASSUME NEW i \in 1..Len(Append(qs, x)), Append(qs, x)[i].req \in dd PROVE i \in 1..Len(qs) /\ qs[i].req \in dd
  <2>1. i = Len(qs) + 1 \/ i \in 1..Len(qs)
    BY <1>1, <1>2
  <2>2. QED
    BY <1>1, <1>2, <2>1
<1>3. QED
  BY <1>2 DEF AheadOf

LEMMA SendHeadValues == ASSUME IInv, Order, Values, NEW id \in Conn, SendHead(id) PROVE Values'
<1>1. /\ asked \in [Conn -> Seq(Item)] /\ nextReq <= MaxReq /\ nextReq \in 1..MaxReq+1 /\ MaxReq \in Nat /\ nextReq' = nextReq + 1
      /\ UNCHANGED <<slots, calls, inbox, nextId, answers, lost, released, dispatched, lastDetached, given>>
  BY ConnAssumption DEF SendHead, tables, control, handoff, outcome, replies, values, IInv, Types
<1>2. PICK kind \in Kinds :
        asked' = [asked EXCEPT ![id] = IF kind = "malformed" THEN @ ELSE Append(@, [kind |-> kind, req |-> nextReq])]
  BY DEF SendHead
<1> DEFINE head == [kind |-> kind, req |-> nextReq]
<1>3. head \in Item /\ head.req = nextReq
  <2>1. nextReq \in 0..MaxReq
    BY <1>1
  <2>2. kind \in Heads \cup {"body", "message", "end"}
    BY <1>2, ConnAssumption
  <2>3. QED
    BY <2>1, <2>2 DEF Item
<1>4. asked' = [asked EXCEPT ![id] = IF kind = "malformed" THEN @ ELSE Append(@, head)]
  BY <1>2
<1> HIDE DEF head
<1>5. /\ asked'[id] = (IF kind = "malformed" THEN asked[id] ELSE Append(asked[id], head))
      /\ \A k \in Conn \ {id} : asked'[k] = asked[k]
      /\ asked[id] \in Seq(Item)
  BY <1>1, <1>4
<1>6. Places' /\ Sized' /\ Gave'
  <2>1. \A d \in Ctx : \A r \in Req : Holds(r, d)' <=> Holds(r, d)
    BY <1>1 DEF Holds
  <2>2. Places'
    BY <1>1, <2>1, PlacesSame DEF Values
  <2>3. Sized' /\ Gave'
    BY <1>1 DEF Values, Sized, Gave
  <2>4. QED
    BY <2>2, <2>3
<1>7. nextReq \in Nat /\ nextReq >= 1
  BY <1>1
<1>8. \A k \in Conn : \A i \in 1..Len(asked'[k]) :
        \/ i \in 1..Len(asked[k]) /\ asked'[k][i] = asked[k][i]
        \/ k = id /\ i = Len(asked[id]) + 1 /\ asked'[k][i].req = nextReq
  <2>1. ASSUME NEW i \in 1..Len(asked'[id])
        PROVE  \/ i \in 1..Len(asked[id]) /\ asked'[id][i] = asked[id][i]
               \/ i = Len(asked[id]) + 1 /\ asked'[id][i].req = nextReq
    <3>1. CASE kind = "malformed"
      BY <1>5, <2>1, <3>1
    <3>2. CASE kind # "malformed"
      <4>1. asked'[id] = Append(asked[id], head)
        BY <1>5, <3>2
      <4>2. /\ Len(asked'[id]) = Len(asked[id]) + 1 /\ Len(asked[id]) \in Nat /\ asked'[id][Len(asked[id]) + 1] = head
            /\ \A j \in 1..Len(asked[id]) : asked'[id][j] = asked[id][j]
        BY <1>3, <1>5, <4>1, AppendProperties, LenProperties
      <4>3. i = Len(asked[id]) + 1 \/ i \in 1..Len(asked[id])
        BY <2>1, <4>2
      <4>4. QED
        BY <1>3, <4>2, <4>3
    <3>3. QED
      BY <3>1, <3>2
  <2>2. QED
    BY <1>5, <2>1
<1>9. \A k \in Conn : \A i \in 1..Len(asked[k]) : asked[k][i].req \in 1..nextReq-1
  BY DEF Values, Sent
<1>10. Sent'
  <2>1. ASSUME NEW k \in Conn, NEW i \in 1..Len(asked'[k]) PROVE asked'[k][i].req \in 1..nextReq'-1
    <3>1. asked'[k][i].req \in 1..nextReq-1 \/ asked'[k][i].req = nextReq
      BY <1>8, <1>9, <2>1
    <3>2. QED
      BY <1>1, <1>7, <3>1
  <2>2. ASSUME NEW k \in Conn, NEW kd \in Conn, NEW i \in 1..Len(asked'[k]), NEW j \in 1..Len(asked'[kd]),
               asked'[k][i].req = asked'[kd][j].req
        PROVE  k = kd /\ i = j
    <3>1. \A r \in 1..nextReq-1 : r # nextReq
      BY <1>7
    <3>2. ASSUME NEW a \in Conn, NEW m \in 1..Len(asked'[a])
          PROVE  \/ m \in 1..Len(asked[a]) /\ asked'[a][m] = asked[a][m] /\ asked'[a][m].req # nextReq
                 \/ a = id /\ m = Len(asked[id]) + 1 /\ asked'[a][m].req = nextReq
      <4>1. CASE m \in 1..Len(asked[a]) /\ asked'[a][m] = asked[a][m]
        BY <1>9, <3>1, <3>2, <4>1
      <4>2. CASE a = id /\ m = Len(asked[id]) + 1 /\ asked'[a][m].req = nextReq
        BY <4>2
      <4>3. QED
        BY <1>8, <3>2, <4>1, <4>2
    <3>3. \/ i \in 1..Len(asked[k]) /\ asked'[k][i] = asked[k][i] /\ asked'[k][i].req # nextReq
          \/ k = id /\ i = Len(asked[id]) + 1 /\ asked'[k][i].req = nextReq
      BY <2>2, <3>2
    <3>4. \/ j \in 1..Len(asked[kd]) /\ asked'[kd][j] = asked[kd][j] /\ asked'[kd][j].req # nextReq
          \/ kd = id /\ j = Len(asked[id]) + 1 /\ asked'[kd][j].req = nextReq
      BY <2>2, <3>2
    <3>5. CASE asked'[k][i].req = nextReq
      BY <2>2, <3>3, <3>4, <3>5
    <3>6. CASE asked'[k][i].req # nextReq
      <4>1. /\ i \in 1..Len(asked[k]) /\ asked'[k][i] = asked[k][i]
            /\ j \in 1..Len(asked[kd]) /\ asked'[kd][j] = asked[kd][j]
        BY <2>2, <3>3, <3>4, <3>6
      <4>2. asked[k][i].req = asked[kd][j].req
        BY <2>2, <4>1
      <4>3. QED
        BY <4>1, <4>2 DEF Values, Sent
    <3>7. QED
      BY <3>5, <3>6
  <2>3. \A r \in dispatched : r < nextReq + 1
    <3>1. \A r \in dispatched : r < nextReq /\ r \in Nat
      BY DEF Values, Sent, Sized, Req
    <3>2. QED
      BY <1>7, <3>1
  <2>4. QED
    BY <1>1, <2>1, <2>2, <2>3 DEF Sent
<1>11. nextReq \notin dispatched
  <2>1. ~ (nextReq < nextReq)
    BY <1>7
  <2>2. QED
    BY <2>1 DEF Values, Sent
<1>12. ASSUME NEW conn, NEW n, conn.id \in Conn, AheadOf(conn, n, asked[conn.id], answers[conn.id], dispatched)
       PROVE  AheadOf(conn, n, asked'[conn.id], answers[conn.id], dispatched)
  <2>1. CASE asked'[conn.id] = asked[conn.id]
    BY <1>12, <2>1
  <2>2. CASE conn.id = id /\ asked'[id] = Append(asked[id], head)
    <3>1. AheadOf(conn, n, Append(asked[id], head), answers[id], dispatched)
      BY <1>3, <1>5, <1>11, <1>12, <2>2, AheadSent
    <3>2. QED
      BY <2>2, <3>1
  <2>3. QED
    BY <1>5, <1>12, <2>1, <2>2
<1>13. AheadQueued'
  <2>1. ASSUME NEW v \in Worker, NEW i \in DOMAIN inbox[v]
        PROVE  AheadOf(inbox[v][i].conn, 1, asked'[inbox[v][i].conn.id], answers[inbox[v][i].conn.id], dispatched)
    <3>1. inbox[v][i].conn.id \in Conn
      BY <2>1 DEF IInv, Core, Queued
    <3>2. AheadOf(inbox[v][i].conn, 1, asked[inbox[v][i].conn.id], answers[inbox[v][i].conn.id], dispatched)
      BY <2>1 DEF Values, Ahead, AheadQueued
    <3>3. QED
      BY <1>12, <3>1, <3>2
  <2>2. QED
    BY <1>1, <2>1 DEF AheadQueued
<1>14. ASSUME NEW d \in Ctx PROVE AheadIn(d)'
  <2>1. ASSUME NEW r \in Alive(slots[d])
        PROVE  AheadOf(slots[d][r], Pending(calls[d], slots[d][r].id), asked'[slots[d][r].id], answers[slots[d][r].id], dispatched)
    <3>1. slots[d][r].id \in Conn
      BY <1>14, <2>1, IdsInConn DEF IInv, Core
    <3>2. AheadOf(slots[d][r], Pending(calls[d], slots[d][r].id), asked[slots[d][r].id], answers[slots[d][r].id], dispatched)
      BY <1>14, <2>1 DEF Values, Ahead, AheadIn, AheadAll
    <3>3. QED
      BY <1>12, <3>1, <3>2
  <2>2. QED
    BY <1>1, <2>1 DEF AheadIn, AheadAll
<1>15. QED
  BY <1>6, <1>10, <1>13, <1>14 DEF Values, Ahead

LEMMA InitValues == ASSUME Init PROVE Values
<1>1. /\ slots = [c \in Ctx |-> << >>] /\ calls = [c \in Ctx |-> << >>] /\ inbox = [w \in Worker |-> << >>]
      /\ asked = [id \in Conn |-> << >>] /\ released = [r \in Req |-> 0] /\ nextReq = 1
      /\ lastDetached = 0 /\ given = {} /\ lost = {} /\ dispatched = {}
  BY DEF Init
<1>2. DOMAIN << >> = {} /\ Alive(<< >>) = {} /\ Running(<< >>) = {} /\ Len(<< >>) = 0
  BY EmptySeq DEF Alive, Running, Serving
<1>3. ASSUME NEW r \in Req PROVE HeldOnce(r) /\ released[r] <= 1
  <2>1. \A c \in Ctx : ~ Holds(r, c)
    BY <1>1, <1>2 DEF Holds
  <2>2. \A w \in Worker : ~ Queues(r, w)
    BY <1>1, <1>2 DEF Queues
  <2>3. released[r] = 0 /\ ~ Freed(r) /\ ~ Tossed(r) /\ r \notin dispatched
    BY <1>1 DEF Freed, Tossed
  <2>4. QED
    BY <2>1, <2>2, <2>3 DEF HeldOnce
<1>4. Places
  BY <1>1, <1>2, <1>3 DEF Places
<1>5. Sized /\ Gave
  BY <1>1, <1>2 DEF Sized, Gave
<1>6. Sent
  BY <1>1, <1>2 DEF Sent
<1>7. Ahead
  BY <1>1, <1>2 DEF Ahead, AheadQueued, AheadIn, AheadAll
<1>8. QED
  BY <1>4, <1>5, <1>6, <1>7 DEF Values

LEMMA NextValues == ASSUME IInv, Looking, Order, Values, [Next]_vars PROVE Values'
<1>1. CASE UNCHANGED vars
  <2>1. UNCHANGED <<slots, calls, inbox, lost, released, dispatched, lastDetached, given, asked, answers, nextReq, nextId>>
    BY <1>1 DEF vars, tables, control, handoff, client, sending, outcome, replies, values
  <2>2. QED
    BY <2>1, ValuesSame
<1>2. ASSUME NEW c \in Ctx, Step(c) PROVE Values'
  <2>1. CASE Poll(c) \/ Serve(c) \/ Reap(c)
    BY <2>1, PollValues, ServeValues, ReapValues
  <2>2. CASE ReadingTurn(c) \/ FramingTurn(c)
    BY <2>2, ReadingTurnValues, FramingTurnValues
  <2>3. CASE HandlerReturns(c)
    BY <2>3, ReturnValues, CloseReturnsValues, FinishRequestValues DEF HandlerReturns
  <2>4. CASE c \in Worker /\ (Deliver(c) \/ KillSeen(c) \/ TeardownNext(c) \/ FreeTables(c))
    BY <2>4, DeliverValues, KillSeenValues, TeardownNextValues, FreeTablesValues
  <2>5. CASE JoinReturns
    BY <2>5, JoinReturnsValues
  <2>6. QED
    BY <1>2, <2>1, <2>2, <2>3, <2>4, <2>5 DEF Step
<1>3. CASE ProgramCall
  <2>1. CASE RunCallbacks
    BY <2>1, RunCallbacksValues
  <2>2. ASSUME NEW c \in Ctx, Answer(c) \/ Upgrade(c) \/ SocketClose(c) PROVE Values'
    BY <2>2, AnswerValues, UpgradeValues, SocketCloseValues
  <2>3. ASSUME NEW w \in Worker, Message(w) \/ GiveRequest(w) \/ Kill(w) \/ Live(w) PROVE Values'
    BY <2>3, MessageValues, GiveRequestValues, KillValues, LiveValues
  <2>4. QED
    BY <1>3, <2>1, <2>2, <2>3 DEF ProgramCall
<1>4. CASE ClientStep
  BY <1>4, SendHeadValues, BytesValues DEF ClientStep
<1>5. QED
  BY <1>1, <1>2, <1>3, <1>4 DEF Next

LEMMA OneValueFromInvariant == ASSUME IInv, Order, Values PROVE ValueReleasedOnce
<1> SUFFICES ASSUME NEW r \in Req
             PROVE  Cardinality(Handling(r)) + Cardinality(Where(inbox, LAMBDA p : p.req = r))
                    + Cardinality({l \in lost : l.req = r}) + released[r] = IF r \in dispatched THEN 1 ELSE 0
  BY DEF ValueReleasedOnce
<1> DEFINE A == Handling(r)
<1> DEFINE B == Where(inbox, LAMBDA p : p.req = r)
<1> DEFINE L == {l \in lost : l.req = r}
<1>1. DOMAIN calls = Ctx /\ DOMAIN inbox = Worker /\ HeldOnce(r) /\ released[r] <= 1 /\ released[r] \in Nat
      /\ (\A c \in Ctx : Busy(calls[c], slots[c])) /\ Places /\ Main \in Ctx
  BY CtxFacts DEF IInv, Core, Types, Order, Ordered, Values, Places, Sized
<1>2. \A x : x \in A <=> \E c \in Ctx : \E i \in Serving(calls[c]) :
        x = <<c, i>> /\ calls[c][i].req = r /\ ~ (c = Main /\ lastDetached = calls[c][i].id)
  <2> DEFINE In(c) == {i \in DOMAIN calls[c] : calls[c][i].at = "request" /\ calls[c][i].req = r}
  <2> DEFINE W == Where(calls, LAMBDA call : call.at = "request" /\ call.req = r)
  <2>1. W = UNION {{<<c, i>> : i \in In(c)} : c \in Ctx}
    BY <1>1 DEF Where
  <2>2. \A c \in Ctx : \A i : i \in In(c) <=> i \in Serving(calls[c]) /\ calls[c][i].req = r
    BY DEF Serving
  <2>3. A = {h \in W : ~ (h[1] = Main /\ lastDetached = calls[Main][h[2]].id)}
    BY DEF Handling
  <2> HIDE DEF A, In, W
  <2>4. \A x : x \in W <=> \E c \in Ctx : \E i \in In(c) : x = <<c, i>>
    BY <2>1
  <2>5. \A x : x \in W <=> \E c \in Ctx : \E i \in Serving(calls[c]) : x = <<c, i>> /\ calls[c][i].req = r
    BY <2>2, <2>4
  <2>6. \A c, i : <<c, i>>[1] = c /\ <<c, i>>[2] = i
    OBVIOUS
  <2>7. ASSUME NEW x \in A
        PROVE  \E c \in Ctx : \E i \in Serving(calls[c]) :
                 x = <<c, i>> /\ calls[c][i].req = r /\ ~ (c = Main /\ lastDetached = calls[c][i].id)
    <3>1. x \in W /\ ~ (x[1] = Main /\ lastDetached = calls[Main][x[2]].id)
      BY <2>3, <2>7
    <3>2. PICK c \in Ctx : \E i \in Serving(calls[c]) : x = <<c, i>> /\ calls[c][i].req = r
      BY <2>5, <3>1
    <3>3. PICK i \in Serving(calls[c]) : x = <<c, i>> /\ calls[c][i].req = r
      BY <3>2
    <3>4. x[1] = c /\ x[2] = i
      BY <3>3
    <3>5. ~ (c = Main /\ lastDetached = calls[c][i].id)
      BY <3>1, <3>4
    <3>6. QED
      BY <3>3, <3>5
  <2>8. ASSUME NEW c \in Ctx, NEW i \in Serving(calls[c]), calls[c][i].req = r,
               ~ (c = Main /\ lastDetached = calls[c][i].id)
        PROVE  <<c, i>> \in A
    <3>1. <<c, i>> \in W
      BY <2>5, <2>8
    <3>2. ~ (<<c, i>>[1] = Main /\ lastDetached = calls[Main][<<c, i>>[2]].id)
      BY <2>8
    <3>3. QED
      BY <2>3, <3>1, <3>2
  <2>9. QED
    BY <2>7, <2>8
<1>3. \A c \in Ctx : Holds(r, c) <=> \E i \in Serving(calls[c]) :
        calls[c][i].req = r /\ ~ (c = Main /\ lastDetached = calls[c][i].id)
  BY DEF Holds, Running
<1>4. A = {} <=> \A c \in Ctx : ~ Holds(r, c)
  <2> HIDE DEF A
  <2>1. ASSUME NEW x \in A PROVE \E c \in Ctx : Holds(r, c)
    BY <1>2, <1>3, <2>1
  <2>2. ASSUME NEW c \in Ctx, Holds(r, c) PROVE \E x : x \in A
    <3>1. PICK i \in Serving(calls[c]) : calls[c][i].req = r /\ ~ (c = Main /\ lastDetached = calls[c][i].id)
      BY <1>3, <2>2
    <3>2. <<c, i>> \in A
      BY <1>2, <3>1
    <3>3. QED
      BY <3>2
  <2>3. QED
    BY <2>1, <2>2
<1>5. \A x, y \in A : x = y
  <2> HIDE DEF A
  <2>1. \A x \in A : \E c \in Ctx : \E i \in Serving(calls[c]) : x = <<c, i>> /\ Holds(r, c)
    BY <1>2, <1>3
  <2>2. SUFFICES ASSUME NEW x \in A, NEW y \in A PROVE x = y
    OBVIOUS
  <2>3. PICK c \in Ctx : \E i \in Serving(calls[c]) : x = <<c, i>> /\ Holds(r, c)
    BY <2>1
  <2>4. PICK i \in Serving(calls[c]) : x = <<c, i>>
    BY <2>3
  <2>5. PICK d \in Ctx : \E j \in Serving(calls[d]) : y = <<d, j>> /\ Holds(r, d)
    BY <2>1
  <2>6. PICK j \in Serving(calls[d]) : y = <<d, j>>
    BY <2>5
  <2>7. c = d
    BY <1>1, <2>3, <2>5 DEF HeldOnce
  <2>8. i = j
    BY <1>1, <2>4, <2>6, <2>7 DEF Busy
  <2>9. QED
    BY <2>4, <2>6, <2>7, <2>8
<1>6. \A x : x \in B <=> \E w \in Worker : \E i \in DOMAIN inbox[w] : x = <<w, i>> /\ inbox[w][i].req = r
  <2> DEFINE In(w) == {i \in DOMAIN inbox[w] : inbox[w][i].req = r}
  <2>1. B = UNION {{<<w, i>> : i \in In(w)} : w \in Worker}
    BY <1>1 DEF Where
  <2>2. \A w \in Worker : \A i : i \in In(w) <=> i \in DOMAIN inbox[w] /\ inbox[w][i].req = r
    OBVIOUS
  <2> HIDE DEF B, In
  <2>3. \A x : x \in B <=> \E w \in Worker : \E i \in In(w) : x = <<w, i>>
    BY <2>1
  <2>4. QED
    BY <2>2, <2>3
<1>7. \A w \in Worker : Queues(r, w) <=> \E i \in DOMAIN inbox[w] : inbox[w][i].req = r
  BY DEF Queues
<1>8. B = {} <=> \A w \in Worker : ~ Queues(r, w)
  <2> HIDE DEF B
  <2>1. QED
    BY <1>6, <1>7
<1>9. \A x, y \in B : x = y
  <2> HIDE DEF B
  <2>1. \A x \in B : \E w \in Worker : \E i \in DOMAIN inbox[w] : x = <<w, i>> /\ inbox[w][i].req = r /\ Queues(r, w)
    BY <1>6, <1>7
  <2>2. SUFFICES ASSUME NEW x \in B, NEW y \in B PROVE x = y
    OBVIOUS
  <2>3. PICK w \in Worker : \E i \in DOMAIN inbox[w] : x = <<w, i>> /\ inbox[w][i].req = r /\ Queues(r, w)
    BY <2>1
  <2>4. PICK i \in DOMAIN inbox[w] : x = <<w, i>> /\ inbox[w][i].req = r
    BY <2>3
  <2>5. PICK v \in Worker : \E j \in DOMAIN inbox[v] : y = <<v, j>> /\ inbox[v][j].req = r /\ Queues(r, v)
    BY <2>1
  <2>6. PICK j \in DOMAIN inbox[v] : y = <<v, j>> /\ inbox[v][j].req = r
    BY <2>5
  <2>7. w = v
    BY <1>1, <2>3, <2>5 DEF HeldOnce
  <2>8. i = j
    BY <1>1, <2>4, <2>6, <2>7 DEF Places
  <2>9. QED
    BY <2>4, <2>6, <2>7, <2>8
<1>10. (L = {} <=> ~ Tossed(r)) /\ \A x, y \in L : x = y
  BY <1>1 DEF Tossed, Places
<1>11. released[r] = IF Freed(r) THEN 1 ELSE 0
  BY <1>1 DEF Freed
<1> HIDE DEF A, B, L
<1>12. /\ Cardinality(A) = IF A = {} THEN 0 ELSE 1
       /\ Cardinality(B) = IF B = {} THEN 0 ELSE 1
       /\ Cardinality(L) = IF L = {} THEN 0 ELSE 1
  BY <1>5, <1>9, <1>10, AtMostOne
<1>13. Cardinality(A) + Cardinality(B) + Cardinality(L) + released[r] = IF r \in dispatched THEN 1 ELSE 0
  <2>1. CASE \E c \in Ctx : Holds(r, c)
    <3>1. A # {} /\ B = {} /\ L = {} /\ ~ Freed(r) /\ r \in dispatched
      BY <1>1, <1>4, <1>8, <1>10, <2>1 DEF HeldOnce
    <3>2. QED
      BY <1>11, <1>12, <3>1
  <2>2. CASE \E w \in Worker : Queues(r, w)
    <3>1. A = {} /\ B # {} /\ L = {} /\ ~ Freed(r) /\ r \in dispatched
      BY <1>1, <1>4, <1>8, <1>10, <2>2 DEF HeldOnce
    <3>2. QED
      BY <1>11, <1>12, <3>1
  <2>3. CASE Tossed(r)
    <3>1. A = {} /\ B = {} /\ L # {} /\ ~ Freed(r) /\ r \in dispatched
      BY <1>1, <1>4, <1>8, <1>10, <2>3 DEF HeldOnce
    <3>2. QED
      BY <1>11, <1>12, <3>1
  <2>4. CASE Freed(r)
    <3>1. A = {} /\ B = {} /\ L = {} /\ r \in dispatched
      BY <1>1, <1>4, <1>8, <1>10, <2>4 DEF HeldOnce
    <3>2. QED
      BY <1>11, <1>12, <2>4, <3>1
  <2>5. CASE /\ \A c \in Ctx : ~ Holds(r, c)
             /\ \A w \in Worker : ~ Queues(r, w)
             /\ ~ Tossed(r) /\ ~ Freed(r)
    <3>1. A = {} /\ B = {} /\ L = {} /\ r \notin dispatched
      BY <1>1, <1>4, <1>8, <1>10, <2>5 DEF HeldOnce
    <3>2. QED
      BY <1>11, <1>12, <2>5, <3>1
  <2>6. QED
    BY <2>1, <2>2, <2>3, <2>4, <2>5
<1>14. QED
  BY <1>13 DEF A, B, L

\* The http value of a request is made once and released once, by whichever context ran the
\* request's handler to its end, although the request may be given away, its connection may
\* close under it, and other requests may wait behind it; kill() alone leaks one, with the
\* queue that held it.
THEOREM ValuesReleasedOnce == ASSUME "closeAgain" \notin Uses PROVE Spec => []ValueReleasedOnce
<1>1. Init => IInv /\ Looking /\ Order /\ Values
  BY InitKeeps, InitLooks, InitOrders, InitValues
<1>2. IInv /\ Looking /\ Order /\ Values /\ [Next]_vars => (IInv /\ Looking /\ Order /\ Values)'
  BY NextKeeps, NextLooks, NextOrders, NextValues
<1>3. IInv /\ Order /\ Values => ValueReleasedOnce
  BY OneValueFromInvariant
<1>4. QED
  BY <1>1, <1>2, <1>3, PTL DEF Spec

(***************************************************************************)
(* Types: every bound of the instance holds.                               *)
(***************************************************************************)

Tallies ==
  /\ killing \in [Worker -> BOOLEAN] /\ nextFrame \in 1..MaxFrame+1
  /\ cut \subseteq Conn \X (1..MaxReq) /\ \A l \in lost : l.req \in Req

Bounds == Fitted /\ Tallies

\* A connection has no more requests than there are, and no more answers than requests.
LEMMA FewAnswers ==
  ASSUME NEW qs \in Seq(Item), NEW an \in Seq(0..MaxReq), NEW n \in 1..MaxReq+1, InOrder(qs, an),
         \A i \in 1..Len(qs) : qs[i].req \in 1..n-1,
         \A i, j \in 1..Len(qs) : qs[i].req = qs[j].req => i = j
  PROVE  an \in Seq(Req) /\ Len(an) <= MaxReq
<1> DEFINE f == [i \in 1..Len(qs) |-> qs[i].req]
<1>1. /\ Len(qs) \in Nat /\ Len(an) \in Nat /\ DOMAIN an = 1..Len(an) /\ MaxReq \in Nat /\ n - 1 \in Nat
      /\ n - 1 <= MaxReq
  BY LenProperties, ConnAssumption
<1>2. /\ f \in [1..Len(qs) -> 1..n-1]
      /\ \A i, j \in 1..Len(qs) : f[i] = f[j] => i = j
  OBVIOUS
<1> HIDE DEF f
<1>3. Len(qs) <= n - 1
  BY <1>1, <1>2, Distinct
<1>4. Len(an) <= MaxReq /\ Len(an) <= Len(qs)
  BY <1>1, <1>3 DEF InOrder
<1>5. \A i \in 1..Len(an) : an[i] \in Req
  BY <1>1, <1>4 DEF InOrder, Req
<1>6. an \in Seq(Req)
  <2> DEFINE m == Len(an)
  <2>1. an \in [1..m -> 0..MaxReq] /\ \A i \in 1..m : an[i] \in Req
    BY <1>5, LenProperties
  <2>2. m \in Nat
    BY <1>1
  <2> HIDE DEF m
  <2>3. an \in [1..m -> Req]
    BY <2>1
  <2>4. QED
    BY <2>2, <2>3, SeqDef
<1>7. QED
  BY <1>4, <1>6

(***************************************************************************)
(* The rest of the type invariant.                                         *)
(***************************************************************************)

\* What a connection was answered, in numbers: now, and after a step.
AnswersFit(id) == answers[id] \in Seq(Req) /\ Len(answers[id]) <= MaxReq

LEMMA AnswersBounded ==
  ASSUME NEW qs, NEW an, NEW n, NEW id \in Conn, qs \in [Conn -> Seq(Item)], n \in 1..MaxReq+1,
         an \in [Conn -> Seq(0..MaxReq)], InOrder(qs[id], an[id]),
         \A k \in Conn : \A i \in 1..Len(qs[k]) : qs[k][i].req \in 1..n-1,
         \A k, l \in Conn : \A i \in 1..Len(qs[k]), j \in 1..Len(qs[l]) :
           qs[k][i].req = qs[l][j].req => k = l /\ i = j
  PROVE  an[id] \in Seq(Req) /\ Len(an[id]) <= MaxReq
<1>1. an[id] \in Seq(0..MaxReq) /\ qs[id] \in Seq(Item)
  OBVIOUS
<1>2. /\ \A i \in 1..Len(qs[id]) : qs[id][i].req \in 1..n-1
      /\ \A i, j \in 1..Len(qs[id]) : qs[id][i].req = qs[id][j].req => i = j
  OBVIOUS
<1>3. QED
  BY <1>1, <1>2, FewAnswers

LEMMA AnswersNow == ASSUME IInv, Order, Values, NEW id \in Conn PROVE AnswersFit(id)
BY AnswersBounded DEF AnswersFit, IInv, Types, Order, Histories, Values, Sent

LEMMA AnswersAfter == ASSUME IInv', Order', Values', NEW id \in Conn PROVE AnswersFit(id)'
BY AnswersBounded DEF AnswersFit, IInv, Types, Order, Histories, Values, Sent

\* An answer is sent in part: its place is that of one of the connection's requests.
LEMMA TalliesSend ==
  ASSUME Tallies, IInv, Order, NEW id \in Conn, NEW r, SendAll(id, r),
         AnswersFit(id)', UNCHANGED <<killing, nextFrame, lost>>
  PROVE  Tallies'
<1>1. /\ answers' = [answers EXCEPT ![id] = Append(@, r)]
      /\ cut' = cut \/ cut' = cut \cup {<<id, Len(answers'[id])>>}
  BY DEF SendAll
<1>2. answers'[id] = Append(answers[id], r)
  BY <1>1 DEF Order, Histories
<1>3. Len(answers'[id]) \in 1..MaxReq
  <2> DEFINE an == answers[id]
  <2>1. an \in Seq((0..MaxReq) \cup {r})
    BY SeqMonotonic DEF Order, Histories
  <2> HIDE DEF an
  <2>2. Len(Append(an, r)) = Len(an) + 1 /\ Len(an) \in Nat
    BY <2>1, AppendProperties, LenProperties
  <2>3. QED
    BY <1>2, <2>2, ConnAssumption DEF AnswersFit, an
<1>4. QED
  BY <1>1, <1>3 DEF Tallies

LEMMA NextTallies ==
  ASSUME IInv, Order, Values, Tallies, [Next]_vars, IInv', Order', Values' PROVE Tallies'
<1>1. CASE UNCHANGED <<killing, nextFrame, cut, lost>>
  BY <1>1 DEF Tallies
<1>2. ASSUME NEW c \in Ctx, FinishRequest(c) \/ Answer(c) \/ Upgrade(c) PROVE Tallies'
  <2>1. ~ Idle(c) /\ Top(c).at = "request" /\ UNCHANGED <<killing, nextFrame, lost>>
    BY <1>2 DEF FinishRequest, Answer, Upgrade, InCode, handoff, client, sending
  <2>2. UNCHANGED cut \/ \E r : SendAll(Top(c).id, r)
    BY <1>2 DEF FinishRequest, Answer, Upgrade
  <2>3. Top(c).id \in Conn
    BY <2>1, RunTop DEF Values, Sized
  <2>4. \A id \in Conn : AnswersFit(id)'
    BY AnswersAfter
  <2>5. QED
    BY <1>1, <2>1, <2>2, <2>3, <2>4, TalliesSend
<1>3. ASSUME NEW w \in Worker, Kill(w) \/ Live(w) PROVE Tallies'
  <2>1. \E b \in BOOLEAN : killing' = [killing EXCEPT ![w] = b]
    BY <1>3 DEF Kill, Live
  <2>2. UNCHANGED <<nextFrame, cut, lost>>
    BY <1>3 DEF Kill, Live, client, sending, outcome, replies
  <2>3. QED
    BY <2>1, <2>2 DEF Tallies
<1>4. CASE JoinReturns
  <2> DEFINE w == Top(Main).thread
  <2>1. killing' = [killing EXCEPT ![w] = FALSE] /\ lost' = lost \cup Discarded(w) /\ UNCHANGED <<nextFrame, cut>>
        /\ pc[w] = "dead" /\ ~ Idle(Main) /\ Main \in Ctx
    BY <1>4, CtxFacts DEF JoinReturns, InCode, client, sending, outcome, replies
  <2>2. w \in Worker
    <3>1. w \in Ctx
      BY <2>1, TopFacts, OrderUnder, FrameFacts
    <3>2. w # Main
      BY <2>1 DEF IInv, Types
    <3>3. QED
      BY <3>1, <3>2 DEF Ctx
  <2>3. \A l \in Discarded(w) : l.req \in Req
    BY <2>2 DEF Discarded, Values, Sized
  <2>4. QED
    BY <2>1, <2>3 DEF Tallies
<1>5. ASSUME NEW id \in Conn, SendFrame(id) PROVE Tallies'
  <2>1. nextFrame <= MaxFrame /\ nextFrame' = nextFrame + 1 /\ UNCHANGED <<killing, cut, lost>>
    BY <1>5 DEF SendFrame, handoff, outcome, replies
  <2>2. QED
    BY <2>1, ConnAssumption DEF Tallies
<1>6. ASSUME NEW c \in Ctx,
             Poll(c) \/ Serve(c) \/ Reap(c) \/ ReadingTurn(c) \/ FramingTurn(c) \/ Return(c) \/ CloseReturns(c)
               \/ SocketClose(c) \/ RunCallbacks
      PROVE  Tallies'
  <2>1. UNCHANGED <<killing, nextFrame, cut, lost>>
    BY <1>6 DEF Poll, Serve, Reap, ReadingTurn, FramingTurn, Return, CloseReturns, SocketClose, RunCallbacks,
                handoff, client, sending, outcome, replies
  <2>2. QED
    BY <1>1, <2>1
<1>7. ASSUME NEW w \in Worker,
             Deliver(w) \/ KillSeen(w) \/ TeardownNext(w) \/ FreeTables(w) \/ Message(w) \/ GiveRequest(w)
      PROVE  Tallies'
  <2>1. UNCHANGED <<killing, nextFrame, cut, lost>>
    BY <1>7 DEF Deliver, KillSeen, TeardownNext, FreeTables, Message, GiveRequest,
                handoff, client, sending, outcome, replies
  <2>2. QED
    BY <1>1, <2>1
<1>8. ASSUME NEW id \in Conn, SendHead(id) \/ SendBody(id) \/ Hangup(id) PROVE Tallies'
  <2>1. UNCHANGED <<killing, nextFrame, cut, lost>>
    BY <1>8 DEF SendHead, SendBody, Hangup, handoff, outcome, replies
  <2>2. QED
    BY <1>1, <2>1
<1>9. CASE UNCHANGED vars
  BY <1>1, <1>9 DEF vars, handoff, client, sending, outcome, replies
<1>10. QED
  BY <1>2, <1>3, <1>4, <1>5, <1>6, <1>7, <1>8, <1>9, CtxFacts DEF Next, Step, HandlerReturns, ProgramCall, ClientStep

LEMMA NextBounds ==
  ASSUME IInv, Looking, Order, Values, Bounds, [Next]_vars, IInv', Order', Values' PROVE Bounds'
BY NextFits, NextTallies DEF Bounds

LEMMA InitBounds == ASSUME Init PROVE Bounds
<1>1. /\ slots = [c \in Ctx |-> << >>] /\ index = [c \in Ctx |-> EmptyTable(0)] /\ calls = [c \in Ctx |-> << >>]
      /\ killing = [w \in Worker |-> FALSE] /\ nextFrame = 1 /\ cut = {} /\ lost = {}
  BY DEF Init
<1>2. DOMAIN << >> = {} /\ DOMAIN EmptyTable(0) = {}
  BY DEF EmptyTable
<1>3. Fitted
  BY <1>1, <1>2 DEF Fitted, Bounded, Slotted, Low
<1>4. Tallies
  BY <1>1, ConnAssumption DEF Tallies
<1>5. QED
  BY <1>3, <1>4 DEF Bounds

\* One context's part of the type invariant.
LEMMA ContextTyped ==
  ASSUME IInv, Fitted, NEW c \in Ctx
  PROVE  /\ slots[c] \in Seq(Record) /\ free[c] \in Seq(1..MaxConn) /\ used[c] \in Nat
         /\ index[c] \in [DOMAIN index[c] -> [id : {Empty, Tombstone} \cup Conn, slot : 0..MaxConn]]
         /\ calls[c] \in Seq(Call)
<1>1. /\ Table(slots[c], free[c], index[c], used[c]) /\ Stack(calls[c], slots[c])
      /\ DOMAIN slots[c] \subseteq 1..MaxConn /\ Slotted(index[c]) /\ Low(calls[c])
  BY DEF IInv, Core, Contexts, Tabled, Fitted, Bounded
<1>2. free[c] \in Seq(1..MaxConn)
  <2> DEFINE m == Len(free[c])
  <2>1. m \in Nat /\ free[c] \in [1..m -> Nat] /\ DOMAIN free[c] = 1..m
    BY <1>1, LenProperties DEF Table
  <2> HIDE DEF m
  <2>2. \A i \in 1..m : free[c][i] \in 1..MaxConn
    BY <1>1, <2>1 DEF Table, ToSet
  <2>3. free[c] \in [1..m -> 1..MaxConn]
    BY <2>1, <2>2
  <2>4. QED
    BY <2>1, <2>3, SeqDef
<1>3. index[c] \in [DOMAIN index[c] -> [id : {Empty, Tombstone} \cup Conn, slot : 0..MaxConn]]
  <2>1. PICK n : n \in Nat /\ index[c] \in [0..n-1 -> Entry]
    BY <1>1 DEF Table, Index, IsTable
  <2>2. \A i \in 0..n-1 : index[c][i] \in [id : {Empty, Tombstone} \cup Conn, slot : 0..MaxConn]
    <3>1. ASSUME NEW e \in Entry, e.slot \in 0..MaxConn
          PROVE  e \in [id : {Empty, Tombstone} \cup Conn, slot : 0..MaxConn]
      BY <3>1 DEF Entry
    <3>2. \A i \in 0..n-1 : index[c][i] \in Entry /\ index[c][i].slot \in 0..MaxConn
      BY <1>1, <2>1 DEF Slotted
    <3>3. QED
      BY <3>1, <3>2
  <2>3. QED
    BY <2>1, <2>2
<1>4. calls[c] \in Seq(Call)
  <2> DEFINE m == Len(calls[c])
  <2>1. m \in Nat /\ calls[c] \in [1..m -> Frame] /\ DOMAIN calls[c] = 1..m
    BY <1>1, LenProperties DEF Stack
  <2> HIDE DEF m
  <2>2. ASSUME NEW f \in Frame, f.slot \in 0..MaxConn PROVE f \in Call
    BY <2>2 DEF Frame, Call
  <2>3. \A i \in 1..m : calls[c][i] \in Call
    BY <1>1, <2>1, <2>2 DEF Low
  <2>4. calls[c] \in [1..m -> Call]
    BY <2>1, <2>3
  <2>5. QED
    BY <2>1, <2>4, SeqDef
<1>5. used[c] \in Nat
  BY <1>1 DEF Table, Index, Loaded
<1>6. QED
  BY <1>1, <1>2, <1>3, <1>4, <1>5 DEF Table

LEMMA TypesFromInvariant ==
  ASSUME IInv, Order, Values, Bounds, Families PROVE TypeOK
<1>1. /\ Types /\ Core /\ Fitted /\ Tallies /\ Places /\ Sized /\ Gave
      /\ \A c \in Ctx : calls[c] \in Seq(Call)
  BY ContextTyped DEF IInv, Values, Bounds
<1>2. slots \in [Ctx -> Seq(Record)] /\ free \in [Ctx -> Seq(1..MaxConn)] /\ used \in [Ctx -> Nat]
      /\ calls \in [Ctx -> Seq(Call)]
  <2>1. \A c \in Ctx : slots[c] \in Seq(Record) /\ free[c] \in Seq(1..MaxConn) /\ used[c] \in Nat /\ calls[c] \in Seq(Call)
    BY <1>1, ContextTyped
  <2>2. QED
    BY <2>1 DEF Families, Family
<1>3. \A c \in Ctx : index[c] \in [DOMAIN index[c] -> [id : {Empty, Tombstone} \cup Conn, slot : 0..MaxConn]]
  BY <1>1, ContextTyped
<1>4. inbox \in [Worker -> Seq([conn : Record, req : Req])]
  <2>1. ASSUME NEW w \in Worker PROVE inbox[w] \in Seq([conn : Record, req : Req])
    <3> DEFINE m == Len(inbox[w])
               S == [conn : Record, req : Req]
    <3>1. m \in Nat /\ inbox[w] \in [1..m -> Parcel] /\ DOMAIN inbox[w] = 1..m
      BY <1>1, LenProperties DEF Types
    <3> HIDE DEF m
    <3>2. \A i \in 1..m : inbox[w][i] \in Parcel /\ inbox[w][i].req \in Req
      BY <1>1, <3>1 DEF Sized
    <3>3. \A i \in 1..m : inbox[w][i] \in [conn : Record, req : Req]
      BY <3>2 DEF Parcel
    <3>4. inbox[w] \in [1..m -> S]
      BY <3>1, <3>3
    <3> HIDE DEF S
    <3>5. inbox[w] \in Seq(S)
      BY <3>1, <3>4, SeqDef
    <3>6. QED
      BY <3>5 DEF S
  <2>2. inbox \in [Worker -> Seq(Parcel)]
    BY <1>1 DEF Types
  <2>3. QED
    BY <2>1, <2>2
<1>5. given \subseteq Conn /\ lastDetached \in 0..MaxConn
  <2>1. given \subseteq Conn
    BY <1>1 DEF Gave
  <2>2. lastDetached # 0 => lastDetached \in given
    BY <1>1 DEF Gave
  <2>3. CASE lastDetached = 0
    <3>1. 0 \in 0..MaxConn
      BY ConnFacts
    <3>2. QED
      BY <2>1, <2>3, <3>1
  <2>4. CASE lastDetached \in given
    BY <2>1, <2>4, ConnFacts
  <2>5. QED
    BY <2>2, <2>3, <2>4
<1>6. lost \subseteq [id : Conn, req : Req]
  <2>1. ASSUME NEW l \in lost PROVE l \in [id : Conn, req : Req]
    <3>1. l \in Thrown /\ l.req \in Req
      BY <1>1 DEF Types, Tallies
    <3>2. QED
      BY <3>1 DEF Thrown
  <2>2. QED
    BY <2>1
<1>7. answers \in [Conn -> Seq(Req)]
  <2>1. \A id \in Conn : answers[id] \in Seq(Req)
    BY AnswersNow DEF AnswersFit
  <2>2. QED
    BY <2>1 DEF Order, Histories
<1>8. shut \in [Conn -> 0..1]
  <2>1. shut \in [Conn -> Nat] /\ \A id \in Conn : shut[id] <= 1
    BY <1>1 DEF Types, Core, Owners
  <2>2. QED
    BY <2>1
<1>9. closeEvents \in [Conn -> 0..1]
  <2>1. closeEvents \in [Conn -> Nat] /\ \A id \in Conn : closeEvents[id] \in 0..1
    BY <1>1 DEF Types, Core, Closed
  <2>2. QED
    BY <2>1
<1>10. released \in [Req -> 0..1]
  <2>1. released \in [Req -> Nat] /\ \A r \in Req : released[r] <= 1
    BY <1>1 DEF Sized, Places
  <2>2. QED
    BY <2>1
<1>11. QED
  BY <1>1, <1>2, <1>3, <1>4, <1>5, <1>6, <1>7, <1>8, <1>9, <1>10 DEF TypeOK, Types, Tallies, Sized

\* Every variable keeps its type and its bound: a slot, an index entry and a call in
\* progress name one of at most MaxConn slots, the server answers only requests that were
\* sent, and an answer that was cut short is one of those.
THEOREM HttpTyped == ASSUME "closeAgain" \notin Uses PROVE Spec => []TypeOK
<1>1. Init => IInv /\ Looking /\ Order /\ Values /\ Bounds /\ Families
  BY InitKeeps, InitLooks, InitOrders, InitValues, InitBounds DEF Init, Families, Family
<1>2. IInv /\ Looking /\ Order /\ Values /\ Bounds /\ Families /\ [Next]_vars
        => (IInv /\ Looking /\ Order /\ Values /\ Bounds /\ Families)'
  BY NextKeeps, NextLooks, NextOrders, NextValues, NextBounds, NextFamilies
<1>3. IInv /\ Order /\ Values /\ Bounds /\ Families => TypeOK
  BY TypesFromInvariant
<1>4. QED
  BY <1>1, <1>2, <1>3, PTL DEF Spec
=============================================================================
