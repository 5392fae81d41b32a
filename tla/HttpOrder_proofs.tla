-------------------------- MODULE HttpOrder_proofs --------------------------
(***************************************************************************)
(* More proofs about HttpConnections: what a connection's buffer holds, in  *)
(* which order its requests are answered, and how many slots a table has.  *)
(***************************************************************************)
EXTENDS HttpConnections_proofs

(***************************************************************************)
(* The bytes of one connection.                                            *)
(***************************************************************************)

\* The bytes of a connection, st, hold the requests asked of it from the k-th on, a head and
\* the rest for each, but for the rest that is not sent yet; a request that cannot be parsed
\* is the last.
Fits(qs, k, ph, st) ==
  LET n == Len(qs) - k
  IN /\ k \in Nat /\ n >= 0
     /\ \A i \in 1..n : i + i - 1 <= Len(st) /\ st[i + i - 1] = qs[k + i]
     /\ ph = "request" => Len(st) = n + n
     /\ ph = "body" => Len(st) = n + n - 1
     /\ Len(st) <= n + n + 1

LEMMA FitsNext ==
  ASSUME NEW qs \in Seq(Item), NEW k, NEW ph, NEW st \in Seq(Item), Fits(qs, k, ph, st), Len(st) >= 2
  PROVE  k + 1 <= Len(qs) /\ st[1] = qs[k + 1] /\ k \in Nat
<1>1. Len(qs) \in Nat /\ Len(st) \in Nat /\ k \in Nat
  BY LenProperties DEF Fits
<1>2. Len(qs) - k >= 1
  BY <1>1 DEF Fits
<1>3. st[1 + 1 - 1] = qs[k + 1]
  BY <1>1, <1>2 DEF Fits
<1>4. QED
  BY <1>1, <1>2, <1>3

LEMMA FitsDrop ==
  ASSUME NEW qs \in Seq(Item), NEW k, NEW ph, NEW st \in Seq(Item), Fits(qs, k, ph, st),
         NEW tt \in Seq(Item), Len(st) >= 2, Len(tt) = Len(st) - 2, \A i \in 1..Len(tt) : tt[i] = st[i + 2]
  PROVE  Fits(qs, k + 1, ph, tt)
<1>1. Len(qs) \in Nat /\ Len(st) \in Nat /\ k \in Nat /\ Len(tt) \in Nat
  BY LenProperties DEF Fits
<1> DEFINE n == Len(qs) - k
<1> DEFINE m == Len(qs) - (k + 1)
<1>2. n \in Nat /\ m = n - 1 /\ n >= 1
  BY <1>1 DEF Fits
<1>3. ASSUME NEW i \in 1..m PROVE i + i - 1 <= Len(tt) /\ tt[i + i - 1] = qs[k + 1 + i]
  <2>1. i + 1 \in 1..n
    BY <1>2, <1>3
  <2>2. (i + 1) + (i + 1) - 1 <= Len(st) /\ st[(i + 1) + (i + 1) - 1] = qs[k + (i + 1)]
    BY <2>1 DEF Fits
  <2>3. i + i - 1 \in 1..Len(tt) /\ i + i - 1 + 2 = (i + 1) + (i + 1) - 1 /\ k + 1 + i = k + (i + 1)
    <3>1. i \in Nat /\ i >= 1 /\ i <= m /\ m \in Nat
      BY <1>1, <1>2, <1>3
    <3>2. i + i - 1 <= Len(st) - 2
      BY <1>1, <2>2, <3>1
    <3>3. QED
      BY <1>1, <3>1, <3>2
  <2>4. QED
    BY <2>2, <2>3
<1>4. /\ ph = "request" => Len(tt) = m + m
      /\ ph = "body" => Len(tt) = m + m - 1
      /\ Len(tt) <= m + m + 1
  BY <1>1, <1>2 DEF Fits
<1>5. QED
  BY <1>1, <1>2, <1>3, <1>4 DEF Fits

\* The head of another request, the rest of one, and one that cannot be parsed.
LEMMA FitsAppend ==
  ASSUME NEW qs \in Seq(Item), NEW k, NEW ph, NEW st \in Seq(Item), Fits(qs, k, ph, st), NEW x \in Item
  PROVE  /\ ph = "request" => Fits(Append(qs, x), k, "body", Append(st, x))
         /\ ph = "request" => Fits(qs, k, "quiet", Append(st, x))
         /\ ph = "body" => Fits(qs, k, "request", Append(st, x)) /\ Fits(qs, k, "quiet", Append(st, x))
<1> DEFINE bs == Append(qs, x)
<1> DEFINE tt == Append(st, x)
<1> DEFINE n == Len(qs) - k
<1>1. Len(qs) \in Nat /\ Len(st) \in Nat /\ k \in Nat /\ n \in Nat
  BY LenProperties DEF Fits
<1>2. Len(bs) = Len(qs) + 1 /\ bs[Len(qs) + 1] = x /\ \A i \in 1..Len(qs) : bs[i] = qs[i]
  BY AppendProperties
<1>3. Len(tt) = Len(st) + 1 /\ tt[Len(st) + 1] = x /\ \A i \in 1..Len(st) : tt[i] = st[i]
  BY AppendProperties
<1> HIDE DEF bs, tt
<1>4. \A i \in 1..n : i + i - 1 <= Len(tt) /\ tt[i + i - 1] = qs[k + i]
  <2>1. ASSUME NEW i \in 1..n PROVE i + i - 1 <= Len(tt) /\ tt[i + i - 1] = qs[k + i]
    <3>1. i + i - 1 <= Len(st) /\ st[i + i - 1] = qs[k + i]
      BY DEF Fits
    <3>2. i + i - 1 \in 1..Len(st)
      BY <1>1, <3>1
    <3>3. QED
      BY <1>1, <1>3, <3>1, <3>2
  <2>2. QED
    BY <2>1
<1>5. ASSUME ph = "request" PROVE Fits(bs, k, "body", tt)
  <2>1. Len(st) = n + n
    BY <1>5 DEF Fits
  <2>2. ASSUME NEW i \in 1..(n + 1) PROVE i + i - 1 <= Len(tt) /\ tt[i + i - 1] = bs[k + i]
    <3>1. CASE i = n + 1
      <4>1. i + i - 1 = Len(st) + 1 /\ k + i = Len(qs) + 1
        BY <1>1, <2>1, <3>1
      <4>2. i + i - 1 <= Len(tt) /\ tt[i + i - 1] = x
        BY <1>1, <1>3, <4>1
      <4>3. bs[k + i] = x
        BY <1>2, <4>1
      <4>4. QED
        BY <4>2, <4>3
    <3>2. CASE i # n + 1
      <4>1. i \in 1..n /\ k + i \in 1..Len(qs)
        BY <1>1, <3>2
      <4>2. QED
        BY <1>2, <1>4, <4>1
    <3>3. QED
      BY <3>1, <3>2
  <2>3. Len(bs) - k = n + 1 /\ n + 1 >= 0 /\ Len(tt) = (n + 1) + (n + 1) - 1 /\ Len(tt) <= (n + 1) + (n + 1) + 1
    BY <1>1, <1>2, <1>3, <2>1
  <2> HIDE DEF n
  <2>4. QED
    BY <1>1, <2>2, <2>3 DEF Fits
<1>6. ASSUME ph = "request" PROVE Fits(qs, k, "quiet", tt)
  BY <1>1, <1>3, <1>4, <1>6 DEF Fits
<1>7. ASSUME ph = "body" PROVE Fits(qs, k, "request", tt) /\ Fits(qs, k, "quiet", tt)
  BY <1>1, <1>3, <1>4, <1>7 DEF Fits
<1>8. QED
  BY <1>5, <1>6, <1>7 DEF bs, tt

\* What of these a connection's buffer and the kernel's make together.
LEMMA StreamParts ==
  ASSUME NEW b \in Seq(Item), NEW w \in Seq(Item)
  PROVE  /\ b \o w \in Seq(Item) /\ Len(b) \in Nat /\ Len(b \o w) >= Len(b)
         /\ (b \o w) \o << >> = b \o w
         /\ \A x \in Item : b \o Append(w, x) = Append(b \o w, x)
         /\ Len(b) >= 2 => /\ (b \o w)[1] = b[1]
                           /\ SubSeq(b, 3, Len(b)) \o w \in Seq(Item)
                           /\ Len(SubSeq(b, 3, Len(b)) \o w) = Len(b \o w) - 2
                           /\ \A i \in 1..Len(b \o w) - 2 : (SubSeq(b, 3, Len(b)) \o w)[i] = (b \o w)[i + 2]
<1>1. Len(b) \in Nat /\ Len(w) \in Nat /\ \A i \in 1..Len(b) : b[i] \in Item
  BY LenProperties
<1>2. /\ b \o w \in Seq(Item) /\ Len(b \o w) = Len(b) + Len(w)
      /\ \A i \in 1..Len(b) + Len(w) : (b \o w)[i] = IF i <= Len(b) THEN b[i] ELSE w[i - Len(b)]
  BY ConcatProperties
<1>3. (b \o w) \o << >> = b \o w
  BY <1>2, ConcatEmptySeq
<1>4. ASSUME NEW x \in Item PROVE b \o Append(w, x) = Append(b \o w, x)
  <2>1. Append(w, x) = w \o <<x>> /\ Append(b \o w, x) = (b \o w) \o <<x>>
    BY <1>2, AppendIsConcat
  <2>2. <<x>> \in Seq(Item)
    BY <1>4
  <2>3. (b \o w) \o <<x>> = b \o (w \o <<x>>)
    BY <2>2, ConcatAssociative
  <2>4. QED
    BY <2>1, <2>3
<1>5. ASSUME Len(b) >= 2
      PROVE  /\ (b \o w)[1] = b[1]
             /\ SubSeq(b, 3, Len(b)) \o w \in Seq(Item)
             /\ Len(SubSeq(b, 3, Len(b)) \o w) = Len(b \o w) - 2
             /\ \A i \in 1..Len(b \o w) - 2 : (SubSeq(b, 3, Len(b)) \o w)[i] = (b \o w)[i + 2]
  <2> DEFINE r == SubSeq(b, 3, Len(b))
  <2>1. (b \o w)[1] = b[1]
    BY <1>1, <1>2, <1>5
  <2>2. r \in Seq(Item) /\ Len(r) = Len(b) - 2 /\ \A i \in 1..Len(b) - 2 : r[i] = b[i + 2]
    <3>1. \A i \in 3..Len(b) : b[i] \in Item
      BY <1>1
    <3>2. /\ r \in Seq(Item) /\ Len(r) = IF 3 <= Len(b) THEN Len(b) - 3 + 1 ELSE 0
          /\ \A i \in 1..Len(b) - 3 + 1 : r[i] = b[3 + i - 1]
      BY <1>1, <3>1, SubSeqProperties
    <3> HIDE DEF r
    <3>3. Len(r) = Len(b) - 2
      <4> DEFINE n == Len(b)
      <4>1. n \in Nat /\ n >= 2 /\ Len(r) = IF 3 <= n THEN n - 3 + 1 ELSE 0
        BY <1>1, <1>5, <3>2
      <4> HIDE DEF n
      <4>2. Len(r) = n - 2
        BY <4>1
      <4>3. QED
        BY <4>2 DEF n
    <3>4. ASSUME NEW i \in 1..Len(b) - 2 PROVE r[i] = b[i + 2]
      <4>1. i \in 1..Len(b) - 3 + 1 /\ 3 + i - 1 = i + 2
        BY <1>1, <3>4
      <4>2. r[i] = b[3 + i - 1]
        BY <3>2, <4>1
      <4>3. QED
        BY <4>1, <4>2
    <3>5. QED
      BY <3>2, <3>3, <3>4
  <2> HIDE DEF r
  <2>3. /\ r \o w \in Seq(Item) /\ Len(r \o w) = Len(r) + Len(w)
        /\ \A i \in 1..Len(r) + Len(w) : (r \o w)[i] = IF i <= Len(r) THEN r[i] ELSE w[i - Len(r)]
    BY <2>2, ConcatProperties
  <2>4. ASSUME NEW i \in 1..Len(b \o w) - 2 PROVE (r \o w)[i] = (b \o w)[i + 2]
    <3>1. i \in 1..Len(r) + Len(w) /\ i + 2 \in 1..Len(b) + Len(w) /\ i \in Nat
      BY <1>1, <1>2, <1>5, <2>2
    <3>2. CASE i <= Len(r)
      <4>1. i \in 1..Len(b) - 2 /\ i + 2 <= Len(b)
        BY <1>1, <2>2, <3>1, <3>2
      <4>2. QED
        BY <1>2, <2>2, <2>3, <3>1, <3>2, <4>1
    <3>3. CASE ~ (i <= Len(r))
      <4>1. ~ (i + 2 <= Len(b)) /\ i - Len(r) = i + 2 - Len(b)
        BY <1>1, <2>2, <3>1, <3>3
      <4>2. QED
        BY <1>2, <2>3, <3>1, <3>3, <4>1
    <3>4. QED
      BY <3>2, <3>3
  <2>5. Len(r \o w) = Len(b \o w) - 2
    BY <1>1, <1>2, <2>2, <2>3
  <2>6. QED
    BY <2>1, <2>3, <2>4, <2>5 DEF r
<1>6. b \o w \in Seq(Item) /\ Len(b) \in Nat /\ Len(b \o w) >= Len(b)
  BY <1>1, <1>2
<1>7. QED
  BY <1>3, <1>4, <1>5, <1>6

\* The answers an to the requests qs, so far.
InOrder(qs, an) == Len(an) <= Len(qs) /\ \A i \in 1..Len(an) : an[i] = qs[i].req

\* The requests of a connection that are done with: those answered, but for the one whose
\* handler still runs.
Finished(conn, an) == Len(an) - (IF conn.responded THEN 1 ELSE 0)

\* What a connection's record says of what its client asked and what it was answered.
Tells(conn, qs, an, wi, ph) ==
  /\ conn.mode = "http" => Fits(qs, Finished(conn, an), ph, conn.buf \o wi)
  /\ conn.mode = "ws" => conn.responded

LEMMA TellsNew ==
  ASSUME NEW conn \in Record, conn.mode = "http", ~ conn.responded, conn.buf = << >>
  PROVE  Tells(conn, << >>, << >>, << >>, "request")
<1>1. Len(<< >>) = 0 /\ << >> \o << >> = << >>
  BY EmptySeq, ConcatEmptySeq
<1>2. Finished(conn, << >>) = 0
  BY <1>1 DEF Finished
<1>3. Fits(<< >>, 0, "request", << >>)
  BY <1>1 DEF Fits
<1>4. QED
  BY <1>1, <1>2, <1>3 DEF Tells

\* All that the kernel holds is read.
LEMMA TellsRead ==
  ASSUME NEW conn \in Record, NEW qs, NEW an, NEW wi \in Seq(Item), NEW ph, Tells(conn, qs, an, wi, ph)
  PROVE  Tells([conn EXCEPT !.buf = conn.buf \o wi], qs, an, << >>, ph)
<1> DEFINE x == [conn EXCEPT !.buf = conn.buf \o wi]
<1>1. x.mode = conn.mode /\ x.responded = conn.responded /\ x.buf = conn.buf \o wi /\ conn.buf \in Seq(Item)
  BY RecordFacts DEF Record
<1>2. x.buf \o << >> = conn.buf \o wi
  BY <1>1, StreamParts
<1> HIDE DEF x
<1>3. Tells(x, qs, an, << >>, ph)
  BY <1>1, <1>2 DEF Tells, Finished
<1>4. QED
  BY <1>3 DEF x

\* The request at the head of the buffer is the first that is not done with.
LEMMA TellsHead ==
  ASSUME NEW conn \in Record, NEW qs \in Seq(Item), NEW an, NEW wi \in Seq(Item), NEW ph, Tells(conn, qs, an, wi, ph),
         conn.mode = "http", Complete(conn.buf)
  PROVE  /\ Finished(conn, an) \in Nat /\ Finished(conn, an) + 1 <= Len(qs)
         /\ conn.buf[1] = qs[Finished(conn, an) + 1] /\ conn.buf[1] \in Item
<1>1. conn.buf \in Seq(Item) /\ Len(conn.buf) >= 2 /\ Len(conn.buf) \in Nat
  BY RecordFacts, LenProperties DEF Complete
<1>2. conn.buf \o wi \in Seq(Item) /\ Len(conn.buf \o wi) >= Len(conn.buf) /\ (conn.buf \o wi)[1] = conn.buf[1]
  BY <1>1, StreamParts
<1>3. Len(conn.buf \o wi) >= 2
  <2>1. Len(conn.buf \o wi) \in Nat
    BY <1>2, LenProperties
  <2>2. QED
    BY <1>1, <1>2, <2>1
<1>4. Fits(qs, Finished(conn, an), ph, conn.buf \o wi)
  BY DEF Tells
<1>5. Finished(conn, an) + 1 <= Len(qs) /\ (conn.buf \o wi)[1] = qs[Finished(conn, an) + 1] /\ Finished(conn, an) \in Nat
  BY <1>2, <1>3, <1>4, FitsNext
<1>6. conn.buf[1] \in Item
  BY <1>1, LenProperties
<1>7. QED
  BY <1>2, <1>5, <1>6

\* It is answered.
LEMMA TellsAnswer ==
  ASSUME NEW conn \in Record, NEW qs \in Seq(Item), NEW an \in Seq(0..MaxReq), NEW wi \in Seq(Item), NEW ph,
         Tells(conn, qs, an, wi, ph), InOrder(qs, an), conn.mode = "http", ~ conn.responded, Complete(conn.buf)
  PROVE  LET bn == Append(an, conn.buf[1].req)
         IN /\ bn \in Seq(0..MaxReq) /\ InOrder(qs, bn)
            /\ Tells([conn EXCEPT !.responded = TRUE], qs, bn, wi, ph)
<1> DEFINE r == conn.buf[1].req
<1> DEFINE bn == Append(an, r)
<1> DEFINE x == [conn EXCEPT !.responded = TRUE]
<1>1. Len(an) \in Nat /\ Len(qs) \in Nat
  BY LenProperties
<1>2. Finished(conn, an) = Len(an)
  BY <1>1 DEF Finished
<1>3. Len(an) + 1 <= Len(qs) /\ conn.buf[1] = qs[Len(an) + 1] /\ conn.buf[1] \in Item
  BY <1>2, TellsHead
<1>4. r \in 0..MaxReq /\ r = qs[Len(an) + 1].req
  BY <1>3 DEF Item
<1> HIDE DEF r
<1>5. /\ bn \in Seq(0..MaxReq) /\ Len(bn) = Len(an) + 1 /\ bn[Len(an) + 1] = r
      /\ \A i \in 1..Len(an) : bn[i] = an[i]
  BY <1>4, AppendProperties
<1> HIDE DEF bn
<1>6. InOrder(qs, bn)
  <2>1. \A i \in 1..Len(bn) : i = Len(an) + 1 \/ i \in 1..Len(an)
    BY <1>1, <1>5
  <2>2. \A i \in 1..Len(bn) : bn[i] = qs[i].req
    BY <1>4, <1>5, <2>1 DEF InOrder
  <2>3. QED
    BY <1>3, <1>5, <2>2 DEF InOrder
<1>7. x.mode = conn.mode /\ x.responded /\ x.buf = conn.buf
  BY DEF Record
<1>8. Finished(x, bn) = Finished(conn, an)
  BY <1>1, <1>2, <1>5, <1>7 DEF Finished
<1> HIDE DEF x
<1>9. Tells(x, qs, bn, wi, ph)
  BY <1>7, <1>8 DEF Tells
<1>10. QED
  BY <1>5, <1>6, <1>9 DEF bn, r, x

\* It is done with, and the next one comes to the head of the buffer.
LEMMA TellsNext ==
  ASSUME NEW conn \in Record, NEW qs \in Seq(Item), NEW an \in Seq(0..MaxReq), NEW wi \in Seq(Item), NEW ph,
         Tells(conn, qs, an, wi, ph), conn.mode = "http", conn.responded, Complete(conn.buf),
         NEW y \in Record, y.buf = SubSeq(conn.buf, 3, Len(conn.buf)), ~ y.responded, y.mode = "http"
  PROVE  Tells(y, qs, an, wi, ph) /\ Finished(y, an) = Finished(conn, an) + 1
<1> DEFINE b == SubSeq(conn.buf, 3, Len(conn.buf))
<1>1. conn.buf \in Seq(Item) /\ Len(conn.buf) >= 2 /\ Len(conn.buf) \in Nat /\ Len(an) \in Nat
  BY RecordFacts, LenProperties DEF Complete
<1>2. conn.buf \o wi \in Seq(Item) /\ Len(conn.buf \o wi) >= Len(conn.buf)
  BY <1>1, StreamParts
<1>3. /\ b \o wi \in Seq(Item) /\ Len(b \o wi) = Len(conn.buf \o wi) - 2
      /\ \A i \in 1..Len(conn.buf \o wi) - 2 : (b \o wi)[i] = (conn.buf \o wi)[i + 2]
  BY <1>1, StreamParts
<1>4. y.buf = b
  OBVIOUS
<1> HIDE DEF b
<1>5. Len(conn.buf \o wi) \in Nat /\ Len(conn.buf \o wi) >= 2
  <2>1. Len(conn.buf \o wi) \in Nat
    BY <1>2, LenProperties
  <2>2. QED
    BY <1>1, <1>2, <2>1
<1>6. Fits(qs, Finished(conn, an), ph, conn.buf \o wi)
  BY DEF Tells
<1>7. Fits(qs, Finished(conn, an) + 1, ph, b \o wi)
  BY <1>2, <1>3, <1>5, <1>6, FitsDrop
<1>8. Finished(y, an) = Finished(conn, an) + 1
  BY <1>1 DEF Finished
<1>9. QED
  BY <1>4, <1>7, <1>8 DEF Tells

\* The client sends another request's head, one that cannot be parsed, or the rest of one.
LEMMA TellsSent ==
  ASSUME NEW conn \in Record, NEW qs \in Seq(Item), NEW an, NEW wi \in Seq(Item), NEW ph, Tells(conn, qs, an, wi, ph),
         NEW x \in Item
  PROVE  /\ ph = "request" => /\ Tells(conn, Append(qs, x), an, Append(wi, x), "body")
                              /\ Tells(conn, qs, an, Append(wi, x), "quiet")
         /\ ph = "body" => /\ Tells(conn, qs, an, Append(wi, x), "request")
                           /\ Tells(conn, qs, an, Append(wi, x), "quiet")
<1>1. conn.buf \o Append(wi, x) = Append(conn.buf \o wi, x) /\ conn.buf \o wi \in Seq(Item)
  <2>1. conn.buf \in Seq(Item)
    BY RecordFacts
  <2>2. QED
    BY <2>1, StreamParts
<1>2. CASE conn.mode = "http"
  <2>1. Fits(qs, Finished(conn, an), ph, conn.buf \o wi)
    BY <1>2 DEF Tells
  <2>2. /\ ph = "request" => Fits(Append(qs, x), Finished(conn, an), "body", Append(conn.buf \o wi, x))
        /\ ph = "request" => Fits(qs, Finished(conn, an), "quiet", Append(conn.buf \o wi, x))
        /\ ph = "body" => /\ Fits(qs, Finished(conn, an), "request", Append(conn.buf \o wi, x))
                          /\ Fits(qs, Finished(conn, an), "quiet", Append(conn.buf \o wi, x))
    BY <1>1, <2>1, FitsAppend
  <2>3. QED
    BY <1>1, <1>2, <2>2 DEF Tells
<1>3. CASE conn.mode # "http"
  BY <1>3 DEF Tells
<1>4. QED
  BY <1>2, <1>3

LEMMA InOrderAsked ==
  ASSUME NEW qs \in Seq(Item), NEW an \in Seq(0..MaxReq), InOrder(qs, an), NEW x \in Item
  PROVE  InOrder(Append(qs, x), an)
<1>1. Len(qs) \in Nat /\ Len(an) \in Nat /\ Len(Append(qs, x)) = Len(qs) + 1 /\ \A i \in 1..Len(qs) : Append(qs, x)[i] = qs[i]
  BY AppendProperties, LenProperties
<1>2. \A i \in 1..Len(an) : i \in 1..Len(qs)
  BY <1>1 DEF InOrder
<1>3. QED
  BY <1>1, <1>2 DEF InOrder

(***************************************************************************)
(* The invariant, and the ways a step changes what it speaks of.           *)
(***************************************************************************)

\* The request r is the one at the head of the buffer, and it is whole.
Handled(buf, r) == Complete(buf) /\ buf[1].req = r

\* A context runs one request's handler at a time, and while it does the request stays at the
\* head of its connection's buffer, unless the connection has become a WebSocket.
Serving(st) == {i \in DOMAIN st : st[i].at = "request"}
Busy(st, sl) ==
  /\ \A i, j \in Serving(st) : i = j
  /\ \A i \in Serving(st) : \A s \in Alive(sl) :
       sl[s].id = st[i].id => sl[s].mode = "ws" \/ Handled(sl[s].buf, st[i].req)

\* The same for the connections of a table, and for one in a thread's queue.
TellsOf(conn, qq, aa, ww, pp) == Tells(conn, qq[conn.id], aa[conn.id], ww[conn.id], pp[conn.id])
Told(sl, qq, aa, ww, pp) == \A s \in Alive(sl) : TellsOf(sl[s], qq, aa, ww, pp)
Packed(p, qq, aa, ww, pp) == TellsOf(p.conn, qq, aa, ww, pp) /\ Handled(p.conn.buf, p.req)

Ordered(c) == Told(slots[c], asked, answers, wire, phase) /\ Busy(calls[c], slots[c])
Parcelled == \A w \in Worker : \A i \in DOMAIN inbox[w] : Packed(inbox[w][i], asked, answers, wire, phase)
Histories == answers \in [Conn -> Seq(0..MaxReq)] /\ \A id \in Conn : InOrder(asked[id], answers[id])
Unborn == \A id \in Conn : id >= nextId =>
            asked[id] = << >> /\ answers[id] = << >> /\ wire[id] = << >> /\ phase[id] = "request"
Order == Histories /\ Unborn /\ Parcelled /\ \A c \in Ctx : Ordered(c)

LEMMA BusyPush ==
  ASSUME NEW st, NEW sl, Busy(st, sl), NEW tt, NEW f, Pushed(st, tt, f), f.at # "request"
  PROVE  Busy(tt, sl)
<1>1. DOMAIN tt = DOMAIN st \cup {Len(st) + 1} /\ tt[Len(st) + 1] = f /\ \A i \in DOMAIN st : tt[i] = st[i]
  BY DEF Pushed
<1>2. Serving(tt) \subseteq Serving(st) /\ \A i \in Serving(tt) : tt[i] = st[i]
  BY <1>1 DEF Serving
<1>3. QED
  BY <1>2 DEF Busy

LEMMA BusyPop ==
  ASSUME NEW st, NEW sl, Busy(st, sl), NEW tt, NEW f, Popped(st, tt, f)
  PROVE  Busy(tt, sl) /\ (f.at = "request" => Serving(tt) = {})
<1>1. DOMAIN tt = DOMAIN st \ {Len(st)} /\ Len(st) \in DOMAIN st /\ st[Len(st)] = f /\ \A i \in DOMAIN tt : tt[i] = st[i]
  BY DEF Popped
<1>2. Serving(tt) \subseteq Serving(st) /\ \A i \in Serving(tt) : tt[i] = st[i] /\ i # Len(st)
  BY <1>1 DEF Serving
<1>3. Busy(tt, sl)
  BY <1>2 DEF Busy
<1>4. ASSUME f.at = "request" PROVE Serving(tt) = {}
  <2>1. Len(st) \in Serving(st)
    BY <1>1, <1>4 DEF Serving
  <2>2. QED
    BY <1>2, <2>1 DEF Busy
<1>5. QED
  BY <1>3, <1>4

\* With no request's handler on the stack; with one, and nothing else that calls one.
LEMMA BusyNone == ASSUME NEW st, Serving(st) = {}, NEW sl PROVE Busy(st, sl)
BY DEF Busy

LEMMA BusySolo ==
  ASSUME NEW f, f.at # "request"
  PROVE  Serving(<< >>) = {} /\ Serving(<<f>>) = {}
<1>1. DOMAIN << >> = {} /\ DOMAIN <<f>> = {1} /\ <<f>>[1] = f
  OBVIOUS
<1>2. QED
  BY <1>1 DEF Serving

LEMMA BusyFirst ==
  ASSUME NEW st, Serving(st) = {}, NEW sl, NEW tt, NEW f, Pushed(st, tt, f),
         \A s \in Alive(sl) : sl[s].id = f.id => sl[s].mode = "ws" \/ Handled(sl[s].buf, f.req)
  PROVE  Busy(tt, sl)
<1>1. DOMAIN tt = DOMAIN st \cup {Len(st) + 1} /\ tt[Len(st) + 1] = f /\ \A i \in DOMAIN st : tt[i] = st[i]
  BY DEF Pushed
<1>2. \A i \in Serving(tt) : i = Len(st) + 1 /\ tt[i] = f
  BY <1>1 DEF Serving
<1>3. QED
  BY <1>2 DEF Busy

LEMMA BusyChange ==
  ASSUME NEW st, NEW sl, Busy(st, sl), NEW tl, NEW s, NEW conn, Changed(sl, tl, s, conn), conn.id = sl[s].id,
         conn.mode = "ws" \/ (conn.mode = sl[s].mode /\ conn.buf = sl[s].buf)
  PROVE  Busy(st, tl)
<1>1. \A r \in Alive(tl) : r \in Alive(sl) /\ (r # s => tl[r] = sl[r])
  BY DEF Changed, Alive
<1>2. tl[s] = conn
  BY DEF Changed, Alive
<1>3. QED
  BY <1>1, <1>2 DEF Busy

LEMMA BusyVacate ==
  ASSUME NEW st, NEW sl, Busy(st, sl), NEW tl, \A r \in Alive(tl) : r \in Alive(sl) /\ tl[r] = sl[r]
  PROVE  Busy(st, tl)
BY DEF Busy

\* Nothing has happened to what the history and the kernel hold of connection id.
Same(id) == asked'[id] = asked[id] /\ answers'[id] = answers[id] /\ wire'[id] = wire[id] /\ phase'[id] = phase[id]

LEMMA TellsSame ==
  ASSUME NEW conn, Same(conn.id), TellsOf(conn, asked, answers, wire, phase)
  PROVE  TellsOf(conn, asked', answers', wire', phase')
BY DEF Same, TellsOf

\* A step of c that touches one connection, in c's table.
LEMMA OrderStep ==
  ASSUME IInv, Order, NEW c \in Ctx, NEW id \in Conn, id \in IdsOf(slots[c]),
         \A d \in Ctx \ {c} : slots'[d] = slots[d] /\ calls'[d] = calls[d],
         \A k \in Conn \ {id} : Same(k), UNCHANGED <<inbox, nextId>>,
         answers' \in [Conn -> Seq(0..MaxReq)], InOrder(asked'[id], answers'[id]), Ordered(c)'
  PROVE  Order'
<1>1. Contexts /\ Owners /\ Queued
  BY DEF IInv, Core
<1>2. OwnedOnce(id) /\ InTable(id, c)
  BY <1>1 DEF Owners, InTable
<1>3. ASSUME NEW d \in Ctx \ {c} PROVE Ordered(d)'
  <2>1. ASSUME NEW s \in Alive(slots[d]) PROVE TellsOf(slots[d][s], asked', answers', wire', phase')
    <3>1. slots[d][s].id \in Conn /\ slots[d][s].id \in IdsOf(slots[d])
      BY <1>1, IdsInConn
    <3>2. slots[d][s].id # id
      BY <1>2, <1>3, <3>1 DEF OwnedOnce, InTable
    <3>3. Same(slots[d][s].id)
      BY <3>1, <3>2
    <3>4. TellsOf(slots[d][s], asked, answers, wire, phase)
      BY <2>1 DEF Order, Ordered, Told
    <3>5. QED
      BY <3>3, <3>4, TellsSame
  <2>2. Told(slots[d], asked', answers', wire', phase') /\ Busy(calls[d], slots[d])
    BY <2>1 DEF Told, Order, Ordered
  <2>3. QED
    BY <2>2 DEF Ordered
<1>4. Parcelled'
  <2>1. ASSUME NEW w \in Worker, NEW i \in DOMAIN inbox[w]
        PROVE  Packed(inbox[w][i], asked', answers', wire', phase')
    <3>1. inbox[w][i].conn.id \in Conn /\ InQueue(inbox[w][i].conn.id, w)
      BY <1>1, <2>1 DEF Queued, InQueue, QueuedConns
    <3>2. inbox[w][i].conn.id # id
      BY <1>2, <3>1 DEF OwnedOnce
    <3>3. Same(inbox[w][i].conn.id)
      BY <3>1, <3>2
    <3>4. Packed(inbox[w][i], asked, answers, wire, phase)
      BY <2>1 DEF Order, Parcelled
    <3>5. QED
      BY <3>3, <3>4, TellsSame DEF Packed
  <2>2. QED
    BY <2>1 DEF Parcelled
<1>5. Histories'
  <2>1. \A k \in Conn \ {id} : InOrder(asked'[k], answers'[k])
    BY DEF Same, Order, Histories
  <2>2. QED
    BY <2>1 DEF Histories
<1>6. Unborn'
  <2>1. id < nextId
    BY <1>2 DEF OwnedOnce
  <2>2. nextId \in Int /\ id \in Int
    BY ConnFacts, ConnAssumption DEF IInv, Types, Conn
  <2>3. ~ (id >= nextId)
    BY <2>1, <2>2
  <2>4. QED
    BY <2>3 DEF Same, Order, Unborn
<1>7. QED
  BY <1>3, <1>4, <1>5, <1>6 DEF Order

\* A step of c that touches no history.
LEMMA OrderLocal ==
  ASSUME Order, NEW c \in Ctx, \A d \in Ctx \ {c} : slots'[d] = slots[d] /\ calls'[d] = calls[d],
         UNCHANGED <<asked, answers, wire, phase>>, Unborn', Parcelled', Ordered(c)'
  PROVE  Order'
<1>1. Histories' /\ \A d \in Ctx \ {c} : Ordered(d)'
  BY DEF Order, Histories, Ordered
<1>2. QED
  BY <1>1 DEF Order

LEMMA OrderCalls ==
  ASSUME IInv, Order, NEW c \in Ctx, NEW st, calls' = [calls EXCEPT ![c] = st], Busy(st, slots[c]),
         UNCHANGED <<slots, inbox, nextId, asked, answers, wire, phase>>
  PROVE  Order'
<1>1. calls'[c] = st /\ \A d \in Ctx \ {c} : calls'[d] = calls[d]
  BY DEF IInv, Types
<1>2. Ordered(c)' /\ Unborn' /\ Parcelled'
  BY <1>1 DEF Order, Ordered, Unborn, Parcelled
<1>3. QED
  BY <1>1, <1>2, OrderLocal

LEMMA OrderSame ==
  ASSUME Order, UNCHANGED <<slots, calls, inbox, nextId, asked, answers, wire, phase>>
  PROVE  Order'
BY DEF Order, Histories, Unborn, Parcelled, Ordered

\* A step of c that changes a live slot.
LEMMA OrderUpdate ==
  ASSUME IInv, Order, NEW c \in Ctx, NEW s \in Alive(slots[c]), NEW conn \in Record,
         slots' = [slots EXCEPT ![c] = [slots[c] EXCEPT ![s] = conn]], conn.id = slots[c][s].id,
         \A d \in Ctx \ {c} : calls'[d] = calls[d], UNCHANGED <<inbox, nextId>>,
         \A k \in Conn \ {conn.id} : Same(k),
         answers' \in [Conn -> Seq(0..MaxReq)], InOrder(asked'[conn.id], answers'[conn.id]),
         TellsOf(conn, asked', answers', wire', phase'),
         Changed(slots[c], slots'[c], s, conn) => Busy(calls'[c], slots'[c])
  PROVE  Order'
<1>1. Contexts /\ Tabled(c) /\ Domains
  BY DEF IInv, Core, Contexts, Types
<1>2. conn.id \in Conn /\ conn.id \in IdsOf(slots[c]) /\ \A r \in Alive(slots[c]) : slots[c][r].id = conn.id => r = s
  BY <1>1, IdsInConn
<1>3. slots'[c] = [slots[c] EXCEPT ![s] = conn] /\ \A d \in Ctx \ {c} : slots'[d] = slots[d]
  BY <1>1 DEF Domains
<1>4. Changed(slots[c], slots'[c], s, conn)
  BY <1>1, <1>3, ChangeFacts DEF Tabled
<1>5. ASSUME NEW r \in Alive(slots'[c]) PROVE TellsOf(slots'[c][r], asked', answers', wire', phase')
  <2>1. CASE r = s
    BY <1>4, <2>1 DEF Changed
  <2>2. CASE r # s
    <3>1. r \in Alive(slots[c]) /\ slots'[c][r] = slots[c][r]
      BY <1>4, <1>5, <2>2 DEF Changed, Alive
    <3>2. slots[c][r].id \in Conn \ {conn.id}
      BY <1>1, <1>2, <2>2, <3>1, IdsInConn
    <3>3. TellsOf(slots[c][r], asked, answers, wire, phase)
      BY <3>1 DEF Order, Ordered, Told
    <3>4. QED
      BY <3>1, <3>2, <3>3, TellsSame
  <2>3. QED
    BY <2>1, <2>2
<1>6. Ordered(c)'
  BY <1>4, <1>5 DEF Ordered, Told
<1>7. QED
  BY <1>2, <1>3, <1>6, OrderStep

\* A slot is given up.
LEMMA OrderDispose ==
  ASSUME IInv, Order, NEW c \in Ctx, NEW s \in Alive(slots[c]), Dispose(c, s),
         NEW rest, calls' = [calls EXCEPT ![c] = rest], Busy(rest, slots[c]),
         UNCHANGED <<inbox, nextId, asked, phase>>,
         answers' \in [Conn -> Seq(0..MaxReq)], InOrder(asked[slots[c][s].id], answers'[slots[c][s].id]),
         \A k \in Conn \ {slots[c][s].id} : answers'[k] = answers[k]
  PROVE  Order'
<1> DEFINE id == slots[c][s].id
<1> DEFINE left == [Blank EXCEPT !.id = id]
<1>1. Contexts /\ Tabled(c) /\ Domains /\ wire \in [Conn -> Seq(Item)]
  BY DEF IInv, Core, Contexts, Types
<1>2. id \in Conn /\ id \in IdsOf(slots[c]) /\ \A r \in Alive(slots[c]) : slots[c][r].id = id => r = s
  BY <1>1, IdsInConn
<1>3. Vacate(c, s, left) /\ wire' = [wire EXCEPT ![id] = << >>]
  BY DEF Dispose
<1>4. left \in Record /\ ~ left.alive /\ ~ left.upgraded
  BY <1>2, BlankFacts, ConnFacts DEF Blank
<1>5. answers' \in [Conn -> Seq(0..MaxReq)] /\ InOrder(asked[id], answers'[id]) /\ \A k \in Conn \ {id} : answers'[k] = answers[k]
  OBVIOUS
<1> HIDE DEF left
<1>6. Others(c) /\ Changed(slots[c], slots'[c], s, left)
  BY <1>1, <1>3, <1>4, VacateStep
<1> HIDE DEF id
<1>7. calls'[c] = rest /\ \A d \in Ctx \ {c} : calls'[d] = calls[d] /\ slots'[d] = slots[d]
  BY <1>6 DEF IInv, Types, Others
<1>8. \A k \in Conn \ {id} : Same(k)
  BY <1>1, <1>3, <1>5 DEF Same
<1>9. \A r \in Alive(slots'[c]) : r \in Alive(slots[c]) /\ slots'[c][r] = slots[c][r] /\ r # s
  BY <1>4, <1>6 DEF Changed, Alive
<1>10. Busy(rest, slots'[c])
  BY <1>9, BusyVacate
<1>11. ASSUME NEW r \in Alive(slots'[c]) PROVE TellsOf(slots'[c][r], asked', answers', wire', phase')
  <2>1. r \in Alive(slots[c]) /\ slots'[c][r] = slots[c][r] /\ r # s
    BY <1>9
  <2>2. slots[c][r].id \in Conn \ {id}
    BY <1>1, <1>2, <2>1, IdsInConn
  <2>3. TellsOf(slots[c][r], asked, answers, wire, phase)
    BY <2>1 DEF Order, Ordered, Told
  <2>4. QED
    BY <1>8, <2>1, <2>2, <2>3, TellsSame
<1>12. Ordered(c)'
  BY <1>7, <1>10, <1>11 DEF Ordered, Told
<1>13. QED
  BY <1>2, <1>5, <1>7, <1>8, <1>12, OrderStep

\* A connection is torn down, or its close handler called first.
LEMMA OrderTeardown ==
  ASSUME IInv, Order, NEW c \in Ctx, NEW s \in Alive(slots[c]), NEW rest \in Seq(Frame), Teardown(c, s, rest),
         Busy(rest, slots[c]), UNCHANGED <<inbox, nextId, asked, phase, answers>>
  PROVE  Order'
<1>1. CASE slots[c][s].upgraded
  <2> DEFINE f == [Handler("closing", slots[c][s].id) EXCEPT !.slot = s]
  <2> DEFINE tt == Append(rest, f)
  <2>1. calls' = [calls EXCEPT ![c] = tt] /\ UNCHANGED <<slots, wire>>
    BY <1>1 DEF Teardown, RunsCloseHandler, tables
  <2>2. f \in Frame /\ f.at = "closing"
    <3>1. Contexts /\ Tabled(c)
      BY DEF IInv, Core, Contexts
    <3>2. s \in Nat /\ slots[c][s].id \in 0..MaxConn
      BY <3>1, TableFacts, IdsInConn, ConnFacts DEF Tabled
    <3>3. 0 \in 0..MaxReq
      BY ConnAssumption
    <3>4. QED
      BY <3>2, <3>3, CtxFacts DEF Frame, Handler, Doing, UserCode
  <2> HIDE DEF f
  <2>3. Pushed(rest, tt, f)
    BY <2>2, PushSeq
  <2> HIDE DEF tt
  <2>4. Busy(tt, slots[c])
    BY <2>2, <2>3, BusyPush
  <2>5. QED
    BY <2>1, <2>4, OrderCalls
<1>2. CASE ~ slots[c][s].upgraded
  <2>1. calls' = [calls EXCEPT ![c] = rest] /\ Dispose(c, s)
    BY <1>2 DEF Teardown, RunsCloseHandler
  <2>2. slots[c][s].id \in Conn
    BY IdsInConn DEF IInv, Core
  <2>3. answers' \in [Conn -> Seq(0..MaxReq)] /\ InOrder(asked[slots[c][s].id], answers'[slots[c][s].id])
    BY <2>2 DEF Order, Histories
  <2>4. QED
    BY <2>1, <2>3, OrderDispose
<1>3. QED
  BY <1>1, <1>2

(***************************************************************************)
(* The actions, one lemma each.                                            *)
(***************************************************************************)

LEMMA OrderUnder ==
  ASSUME IInv, Order, NEW c \in Ctx
  PROVE  /\ Busy(calls[c], slots[c]) /\ Told(slots[c], asked, answers, wire, phase)
         /\ Tabled(c) /\ Domains /\ Types /\ Core /\ Contexts /\ calls[c] \in Seq(Frame)
         /\ Idle(c) => calls[c] = << >> /\ Serving(calls[c]) = {} /\ Serving(<< >>) = {}
         /\ ~ Idle(c) => /\ Popped(calls[c], Beneath(c), Top(c)) /\ Beneath(c) \in Seq(Frame)
                         /\ Busy(Beneath(c), slots[c])
                         /\ Top(c).at = "request" => Serving(Beneath(c)) = {}
<1>1. Contexts /\ Stack(calls[c], slots[c]) /\ Tabled(c) /\ Domains /\ Types /\ Core
  BY DEF IInv, Core, Contexts, Types
<1>2. calls[c] \in Seq(Frame)
  BY <1>1, StackFacts
<1>3. Busy(calls[c], slots[c]) /\ Told(slots[c], asked, answers, wire, phase)
  BY DEF Order, Ordered
<1>4. Idle(c) => calls[c] = << >> /\ Serving(calls[c]) = {} /\ Serving(<< >>) = {}
  <2>1. DOMAIN << >> = {}
    OBVIOUS
  <2>2. QED
    BY <2>1 DEF Idle, Serving
<1>5. ASSUME ~ Idle(c)
      PROVE  /\ Popped(calls[c], Beneath(c), Top(c)) /\ Beneath(c) \in Seq(Frame) /\ Busy(Beneath(c), slots[c])
             /\ Top(c).at = "request" => Serving(Beneath(c)) = {}
  <2>1. Popped(calls[c], Beneath(c), Top(c))
    BY <1>1, <1>5, TopFacts
  <2>2. QED
    BY <1>3, <2>1, BusyPop DEF Popped
<1>6. QED
  BY <1>1, <1>2, <1>3, <1>4, <1>5

LEMMA OrderPop ==
  ASSUME IInv, Order, NEW c \in Ctx, ~ Idle(c), calls' = [calls EXCEPT ![c] = Beneath(c)],
         UNCHANGED <<slots, inbox, nextId, asked, answers, wire, phase>>
  PROVE  Order'
BY OrderUnder, OrderCalls

LEMMA OrderPush ==
  ASSUME IInv, Order, NEW c \in Ctx, NEW f \in Frame, f.at # "request",
         calls' = [calls EXCEPT ![c] = Append(calls[c], f)],
         UNCHANGED <<slots, inbox, nextId, asked, answers, wire, phase>>
  PROVE  Order'
<1> DEFINE tt == Append(calls[c], f)
<1>1. Pushed(calls[c], tt, f)
  BY OrderUnder, PushSeq
<1>2. calls' = [calls EXCEPT ![c] = tt]
  OBVIOUS
<1> HIDE DEF tt
<1>3. Busy(tt, slots[c])
  BY <1>1, OrderUnder, BusyPush
<1>4. QED
  BY <1>2, <1>3, OrderCalls

LEMMA OrderSolo ==
  ASSUME IInv, Order, NEW c \in Ctx, NEW f, f.at # "request", calls' = [calls EXCEPT ![c] = <<f>>],
         UNCHANGED <<slots, inbox, nextId, asked, answers, wire, phase>>
  PROVE  Order'
<1>1. Busy(<<f>>, slots[c])
  BY BusySolo, BusyNone
<1>2. QED
  BY <1>1, OrderCalls

LEMMA OrderIdleTeardown ==
  ASSUME IInv, Order, NEW c \in Ctx, Idle(c), NEW s \in Alive(slots[c]), Teardown(c, s, << >>),
         UNCHANGED <<inbox, nextId, asked, phase, answers>>
  PROVE  Order'
<1>1. Busy(<< >>, slots[c]) /\ << >> \in Seq(Frame)
  BY OrderUnder
<1>2. QED
  BY <1>1, OrderTeardown

LEMMA PollOrders == ASSUME IInv, Order, NEW c \in Ctx, Poll(c) PROVE Order'
<1>1. Idle(c) /\ UNCHANGED <<calls, inbox, asked, answers, wire, phase>>
  BY DEF Poll, Polling, handoff, client, sending, outcome, replies
<1>2. CASE UNCHANGED <<tables, nextId>>
  BY <1>1, <1>2, OrderSame DEF tables
<1>3. CASE nextId <= MaxConn /\ Install(c, Fresh(nextId)) /\ nextId' = nextId + 1
  <2>1. Types /\ Core /\ Tabled(c) /\ Domains
    BY OrderUnder
  <2>2. nextId \in Conn
    BY <1>3, <2>1, ConnFacts DEF Types, Conn
  <2>3. nextId \notin IdsOf(slots[c])
    <3>1. ~ (nextId < nextId)
      BY <2>2, ConnFacts
    <3>2. QED
      BY <2>1, <2>2, <3>1 DEF Core, Owners, OwnedOnce, InTable
  <2> DEFINE conn == Fresh(nextId)
  <2>4. /\ conn \in Record /\ conn.alive /\ conn.id = nextId /\ conn.mode = "http"
        /\ ~ conn.upgraded /\ ~ conn.responded /\ conn.buf = << >>
    BY <2>2, FreshFacts DEF Fresh, Blank
  <2>5. Install(c, conn)
    BY <1>3
  <2> HIDE DEF conn
  <2>6. Others(c) /\ Added(slots[c], slots'[c], SlotFor(c), conn)
    BY <2>1, <2>2, <2>3, <2>4, <2>5, InstallStep
  <2>7. TellsOf(conn, asked, answers, wire, phase)
    <3>1. nextId >= nextId
      BY <2>2, ConnFacts
    <3>2. asked[nextId] = << >> /\ answers[nextId] = << >> /\ wire[nextId] = << >> /\ phase[nextId] = "request"
      BY <2>2, <3>1 DEF Order, Unborn
    <3>3. QED
      BY <2>4, <3>2, TellsNew DEF TellsOf
  <2>8. Told(slots'[c], asked, answers, wire, phase)
    <3>1. Alive(slots'[c]) = Alive(slots[c]) \cup {SlotFor(c)} /\ \A r \in Alive(slots[c]) : slots'[c][r] = slots[c][r]
      BY <2>4, <2>6, AddedFacts
    <3>2. slots'[c][SlotFor(c)] = conn
      BY <2>6 DEF Added
    <3>3. QED
      BY <2>7, <3>1, <3>2, OrderUnder DEF Told
  <2>9. Busy(calls[c], slots'[c])
    BY <1>1, OrderUnder, BusyNone
  <2>10. Unborn'
    <3>1. \A id \in Conn : id >= nextId + 1 => id >= nextId
      BY <2>2, ConnAssumption DEF Conn
    <3>2. QED
      BY <1>1, <1>3, <3>1 DEF Order, Unborn
  <2>11. \A d \in Ctx \ {c} : slots'[d] = slots[d] /\ calls'[d] = calls[d]
    BY <1>1, <2>6 DEF Others
  <2>12. Ordered(c)' /\ Parcelled'
    BY <1>1, <2>8, <2>9 DEF Ordered, Order, Parcelled
  <2>13. QED
    BY <1>1, <2>10, <2>11, <2>12, OrderLocal
<1>4. QED
  BY <1>2, <1>3 DEF Poll

LEMMA ServeOrders == ASSUME IInv, Order, NEW c \in Ctx, Serve(c) PROVE Order'
<1> DEFINE id == Head(ready[c])
<1> DEFINE s == ById(c, id)
<1>1. Types /\ Core /\ Contexts /\ Tabled(c)
  BY OrderUnder
<1>2. Idle(c) /\ ready[c] # << >> /\ UNCHANGED <<inbox, nextId, asked, phase, answers>>
  BY DEF Serve, handoff, sending, replies
<1>3. id \in Conn /\ (s # 0 => s \in Alive(slots[c]) /\ slots[c][s].id = id)
  <2>1. id \in Conn
    BY <1>1, <1>2, HeadTailProperties DEF Types
  <2>2. id \in 0..MaxConn
    BY <2>1, ConnFacts
  <2>3. QED
    BY <1>1, <2>1, <2>2, ByIdFacts
<1>4. CASE UNCHANGED <<tables, calls, ending>>
  BY <1>2, <1>4, OrderSame DEF tables, ending, fates
<1>5. CASE s # 0 /\ Teardown(c, s, << >>)
  <2> HIDE DEF s
  <2>1. QED
    BY <1>2, <1>3, <1>5, OrderIdleTeardown
<1>6. CASE /\ s # 0
           /\ slots' = [slots EXCEPT ![c][s].buf = @ \o wire[id]]
           /\ wire' = [wire EXCEPT ![id] = << >>]
           /\ calls' = [calls EXCEPT ![c] = <<[Doing(IF slots[c][s].mode = "http" THEN "reading"
                                                     ELSE "framing") EXCEPT !.slot = s]>>]
  <2> HIDE DEF s, id
  <2> DEFINE conn == [slots[c][s] EXCEPT !.buf = slots[c][s].buf \o wire[id]]
  <2> DEFINE f == [Doing(IF slots[c][s].mode = "http" THEN "reading" ELSE "framing") EXCEPT !.slot = s]
  <2>1. /\ s \in Alive(slots[c]) /\ slots[c][s] \in Record /\ slots[c][s].id = id
        /\ wire \in [Conn -> Seq(Item)] /\ wire[id] \in Seq(Item)
    BY <1>1, <1>3, <1>6, IdsInConn DEF Types
  <2>2. /\ conn \in Record /\ conn.id = id
        /\ slots' = [slots EXCEPT ![c] = [slots[c] EXCEPT ![s] = conn]]
    <3>1. slots[c][s].buf \in Seq(Item)
      BY <2>1, RecordFacts
    <3>2. slots[c][s].buf \o wire[id] \in Seq(Item)
      BY <2>1, <3>1, ConcatProperties
    <3>3. conn \in Record /\ conn.id = slots[c][s].id
      BY <2>1, <3>2, RecordBuf
    <3>4. QED
      BY <1>6, <2>1, <3>3
  <2>3. Tells(conn, asked[id], answers[id], << >>, phase[id])
    <3>1. Tells(slots[c][s], asked[id], answers[id], wire[id], phase[id])
      BY <2>1, OrderUnder DEF Told, TellsOf
    <3>2. QED
      BY <2>1, <3>1, TellsRead
  <2>4. f.at \in {"reading", "framing"}
    BY DEF Doing
  <2>5. calls'[c] = <<f>> /\ \A d \in Ctx \ {c} : calls'[d] = calls[d]
    BY <1>1, <1>6 DEF Types
  <2> HIDE DEF conn, f
  <2>6. Busy(<<f>>, slots'[c])
    BY <2>4, BusySolo, BusyNone
  <2>7. TellsOf(conn, asked', answers', wire', phase')
    BY <1>2, <1>3, <1>6, <2>1, <2>2, <2>3 DEF TellsOf
  <2>8. \A k \in Conn \ {conn.id} : Same(k)
    BY <1>2, <1>6, <2>1, <2>2 DEF Same
  <2>9. answers' \in [Conn -> Seq(0..MaxReq)] /\ InOrder(asked'[conn.id], answers'[conn.id])
    BY <1>2, <1>3, <2>2 DEF Order, Histories
  <2>10. conn.id = slots[c][s].id /\ UNCHANGED <<inbox, nextId>> /\ Busy(calls'[c], slots'[c])
    BY <1>2, <2>1, <2>2, <2>5, <2>6
  <2>11. QED
    BY <2>1, <2>2, <2>5, <2>7, <2>8, <2>9, <2>10, OrderUpdate
<1>7. QED
  <2>1. \/ s = 0 /\ UNCHANGED <<tables, calls, ending>>
        \/ s # 0 /\ Teardown(c, s, << >>)
        \/ /\ s # 0
           /\ slots' = [slots EXCEPT ![c][s].buf = @ \o wire[id]]
           /\ wire' = [wire EXCEPT ![id] = << >>]
           /\ calls' = [calls EXCEPT ![c] = <<[Doing(IF slots[c][s].mode = "http" THEN "reading"
                                                     ELSE "framing") EXCEPT !.slot = s]>>]
    BY DEF Serve
  <2>2. QED
    BY <1>4, <1>5, <1>6, <2>1

LEMMA ReapOrders == ASSUME IInv, Order, NEW c \in Ctx, Reap(c) PROVE Order'
<1>1. Idle(c) /\ UNCHANGED <<inbox, nextId, asked, phase, answers>>
  BY DEF Reap, Served, handoff, sending, replies
<1>2. CASE UNCHANGED <<tables, calls, ending>>
  BY <1>1, <1>2, OrderSame DEF tables, ending, fates
<1>3. ASSUME NEW s \in LiveSlots(c), Teardown(c, s, << >>) PROVE Order'
  <2>1. s \in Alive(slots[c])
    BY DEF LiveSlots, Alive
  <2>2. QED
    BY <1>1, <1>3, <2>1, OrderIdleTeardown
<1>4. QED
  BY <1>2, <1>3 DEF Reap

LEMMA TeardownNextOrders == ASSUME IInv, Order, NEW w \in Worker, TeardownNext(w) PROVE Order'
<1>1. Idle(w) /\ w \in Ctx /\ UNCHANGED <<inbox, nextId, asked, phase, answers>>
  BY CtxFacts DEF TeardownNext, handoff, sending, replies
<1>2. PICK s \in LiveSlots(w) : Teardown(w, s, << >>)
  BY DEF TeardownNext
<1>3. s \in Alive(slots[w])
  BY DEF LiveSlots, Alive
<1>4. QED
  BY <1>1, <1>2, <1>3, OrderIdleTeardown

LEMMA FreeTablesOrders == ASSUME IInv, Order, NEW w \in Worker, FreeTables(w) PROVE Order'
<1>1. /\ w \in Ctx /\ Domains /\ Idle(w) /\ slots' = [slots EXCEPT ![w] = << >>]
      /\ UNCHANGED <<calls, inbox, nextId, asked, answers, wire, phase>>
  BY CtxFacts DEF FreeTables, handoff, client, sending, outcome, replies, IInv, Types
<1>2. slots'[w] = << >> /\ \A d \in Ctx \ {w} : slots'[d] = slots[d] /\ calls'[d] = calls[d]
  BY <1>1 DEF Domains
<1>3. Alive(<< >>) = {}
  <2>1. DOMAIN << >> = {}
    OBVIOUS
  <2>2. QED
    BY <2>1 DEF Alive
<1>4. Busy(calls[w], << >>)
  BY <1>1, OrderUnder, BusyNone
<1>5. Ordered(w)' /\ Unborn' /\ Parcelled'
  BY <1>1, <1>2, <1>3, <1>4 DEF Ordered, Told, Order, Unborn, Parcelled
<1>6. QED
  BY <1>1, <1>2, <1>5, OrderLocal

LEMMA ReadingTurnOrders == ASSUME IInv, Looking, Order, NEW c \in Ctx, ReadingTurn(c) PROVE Order'
<1> DEFINE s == ById(c, slots[c][Top(c).slot].id)
<1> DEFINE reading == IF s = 0 THEN FALSE ELSE slots[c][s].mode = "http"
<1> DEFINE found == IF reading THEN Parsed(slots[c][s].buf) ELSE "nothing"
<1>1. /\ ~ Idle(c) /\ Top(c).at = "reading" /\ UNCHANGED <<inbox, nextId, asked, phase, answers>>
      /\ \/ found = "nothing" /\ calls' = [calls EXCEPT ![c] = Beneath(c)] /\ UNCHANGED <<tables, ending>>
         \/ found = "malformed" /\ Teardown(c, s, Beneath(c))
         \/ found = "request" /\ Dispatch(c, slots[c][s], calls[c]) /\ UNCHANGED <<tables, ending>>
  BY DEF ReadingTurn, InCode, handoff, sending, replies
<1>2. found # "nothing" => s # 0 /\ slots[c][s].mode = "http" /\ Parsed(slots[c][s].buf) = found
  OBVIOUS
<1> HIDE DEF found, reading
<1>3. s # 0 => /\ s \in Alive(slots[c]) /\ slots[c][s] \in Record /\ slots[c][s].id \in Conn
               /\ \A r \in Alive(slots[c]) : slots[c][r].id = slots[c][s].id => r = s
               /\ Len(calls[c]) = 1 /\ calls[c][1] = Top(c)
  BY <1>1, SameSlot
<1> HIDE DEF s
<1>4. CASE calls' = [calls EXCEPT ![c] = Beneath(c)] /\ UNCHANGED <<tables, ending>>
  BY <1>1, <1>4, OrderPop DEF tables, ending, fates
<1>5. CASE found = "malformed" /\ Teardown(c, s, Beneath(c))
  <2>1. s \in Alive(slots[c])
    BY <1>2, <1>3, <1>5
  <2>2. QED
    BY <1>1, <1>5, <2>1, OrderUnder, OrderTeardown
<1>6. CASE found = "request" /\ Dispatch(c, slots[c][s], calls[c]) /\ UNCHANGED <<tables, ending>>
  <2> DEFINE f == Request(slots[c][s].id, slots[c][s].buf[1].req)
  <2> DEFINE tt == Append(calls[c], f)
  <2>1. s # 0 /\ Parsed(slots[c][s].buf) = "request" /\ Complete(slots[c][s].buf)
    BY <1>2, <1>6 DEF Parsed
  <2>2. slots[c][s].buf[1].req \in 0..MaxReq /\ slots[c][s].id \in 0..MaxConn
    BY <1>3, <2>1, RecordFacts, ParsedFacts
  <2>3. f \in Frame /\ f.id = slots[c][s].id
    BY <2>2, CallFacts
  <2>4. f.req = slots[c][s].buf[1].req
    BY DEF Request, Handler, Doing
  <2>5. calls' = [calls EXCEPT ![c] = tt]
    BY <1>6 DEF Dispatch
  <2> HIDE DEF f
  <2>6. Serving(calls[c]) = {}
    <3>1. calls[c] \in Seq(Frame)
      BY OrderUnder
    <3>2. DOMAIN calls[c] = 1..1
      BY <1>3, <2>1, <3>1, LenProperties
    <3>3. \A i \in DOMAIN calls[c] : calls[c][i].at # "request"
      BY <1>1, <1>3, <2>1, <3>2
    <3>4. QED
      BY <3>3 DEF Serving
  <2>7. Pushed(calls[c], tt, f)
    BY <2>3, OrderUnder, PushSeq
  <2> HIDE DEF tt
  <2>8. \A r \in Alive(slots[c]) : slots[c][r].id = f.id => Handled(slots[c][r].buf, f.req)
    BY <1>3, <2>1, <2>3, <2>4 DEF Handled
  <2>9. Busy(tt, slots[c])
    BY <2>6, <2>7, <2>8, BusyFirst
  <2>10. UNCHANGED <<slots, inbox, nextId, asked, answers, wire, phase>>
    BY <1>1, <1>6 DEF tables, ending
  <2>11. QED
    BY <2>5, <2>9, <2>10, OrderCalls
<1>7. QED
  BY <1>1, <1>4, <1>5, <1>6

\* A step of c that changes a live slot, but no history.
LEMMA OrderChange ==
  ASSUME IInv, Order, NEW c \in Ctx, NEW s \in Alive(slots[c]), NEW conn \in Record,
         slots' = [slots EXCEPT ![c] = [slots[c] EXCEPT ![s] = conn]], conn.id = slots[c][s].id,
         \A d \in Ctx \ {c} : calls'[d] = calls[d], UNCHANGED <<inbox, nextId, asked, answers, wire, phase>>,
         TellsOf(conn, asked, answers, wire, phase),
         Changed(slots[c], slots'[c], s, conn) => Busy(calls'[c], slots'[c])
  PROVE  Order'
<1>1. conn.id \in Conn
  BY OrderUnder, IdsInConn
<1>2. answers' \in [Conn -> Seq(0..MaxReq)] /\ InOrder(asked'[conn.id], answers'[conn.id])
  BY <1>1 DEF Order, Histories
<1>3. \A k \in Conn \ {conn.id} : Same(k)
  BY DEF Same
<1>4. QED
  BY <1>2, <1>3, OrderUpdate

LEMMA FramingTurnOrders == ASSUME IInv, Looking, Order, NEW c \in Ctx, FramingTurn(c) PROVE Order'
<1> DEFINE s == ById(c, slots[c][Top(c).slot].id)
<1> DEFINE found == IF s = 0 THEN "nothing" ELSE Parsed(slots[c][s].buf)
<1>1. /\ ~ Idle(c) /\ Top(c).at = "framing" /\ UNCHANGED <<inbox, nextId, asked, phase, answers>>
      /\ \/ found = "nothing" /\ calls' = [calls EXCEPT ![c] = Beneath(c)] /\ UNCHANGED <<tables, ending>>
         \/ /\ found = "message"
            /\ slots' = [slots EXCEPT ![c][s].buf = Tail(@)]
            /\ calls' = [calls EXCEPT ![c] = Append(@, Handler("message", slots[c][s].id))]
            /\ UNCHANGED <<free, index, used, ending>>
         \/ found = "end" /\ Teardown(c, s, calls[c])
  BY DEF FramingTurn, InCode, handoff, sending, replies
<1>2. found # "nothing" => s # 0 /\ Parsed(slots[c][s].buf) = found
  OBVIOUS
<1> HIDE DEF found
<1>3. s # 0 => s \in Alive(slots[c]) /\ slots[c][s] \in Record /\ slots[c][s].id \in Conn /\ slots[c][s].mode = "ws"
  <2>1. SUFFICES ASSUME s # 0
                 PROVE  s \in Alive(slots[c]) /\ slots[c][s] \in Record /\ slots[c][s].id \in Conn /\ slots[c][s].mode = "ws"
    OBVIOUS
  <2>2. /\ s \in Alive(slots[c]) /\ slots[c][s] \in Record /\ slots[c][s].id \in Conn /\ s = Top(c).slot
        /\ 1 \in DOMAIN calls[c] /\ calls[c][1] = Top(c)
    BY <1>1, <2>1, SameSlot
  <2> HIDE DEF s
  <2>3. slots[c][s].mode = "ws"
    BY <1>1, <2>2, LookedUnder DEF Looked
  <2>4. QED
    BY <2>2, <2>3
<1> HIDE DEF s
<1>4. CASE calls' = [calls EXCEPT ![c] = Beneath(c)] /\ UNCHANGED <<tables, ending>>
  BY <1>1, <1>4, OrderPop DEF tables, ending, fates
<1>5. CASE found = "end" /\ Teardown(c, s, calls[c])
  BY <1>1, <1>2, <1>3, <1>5, OrderUnder, OrderTeardown
<1>6. CASE /\ found = "message"
           /\ slots' = [slots EXCEPT ![c][s].buf = Tail(@)]
           /\ calls' = [calls EXCEPT ![c] = Append(@, Handler("message", slots[c][s].id))]
           /\ UNCHANGED <<free, index, used, ending>>
  <2> DEFINE conn == [slots[c][s] EXCEPT !.buf = Tail(slots[c][s].buf)]
  <2> DEFINE f == Handler("message", slots[c][s].id)
  <2> DEFINE tt == Append(calls[c], f)
  <2>1. slots[c][s] \in Record /\ s \in Alive(slots[c]) /\ slots[c][s].mode = "ws"
        /\ slots[c][s].id \in 0..MaxConn /\ Parsed(slots[c][s].buf) = "message"
    BY <1>2, <1>3, <1>6, ConnFacts
  <2>2. Tail(slots[c][s].buf) \in Seq(Item)
    <3>1. slots[c][s].buf \in Seq(Item)
      BY <2>1, RecordFacts
    <3>2. QED
      BY <2>1, <3>1, ParsedFacts, HeadTailProperties
  <2>3. conn \in Record /\ conn.id = slots[c][s].id /\ conn.mode = "ws"
    BY <2>1, <2>2, RecordBuf
  <2>4. conn.responded = slots[c][s].responded
    BY <2>1 DEF Record
  <2>5. slots' = [slots EXCEPT ![c] = [slots[c] EXCEPT ![s] = conn]]
    BY <1>6
  <2>6. f \in Frame /\ f.at = "message"
    BY <2>1, CallFacts DEF UserCode
  <2>7. calls'[c] = tt /\ \A d \in Ctx \ {c} : calls'[d] = calls[d]
    BY <1>6, OrderUnder DEF Types
  <2> HIDE DEF conn, f
  <2>8. Pushed(calls[c], tt, f)
    BY <2>6, OrderUnder, PushSeq
  <2> HIDE DEF tt
  <2>9. TellsOf(conn, asked, answers, wire, phase)
    <3>1. slots[c][s].responded
      BY <2>1, OrderUnder DEF Told, TellsOf, Tells
    <3>2. QED
      BY <2>3, <2>4, <3>1 DEF TellsOf, Tells
  <2>10. Busy(tt, slots[c])
    BY <2>6, <2>8, OrderUnder, BusyPush
  <2>11. Changed(slots[c], slots'[c], s, conn) => Busy(tt, slots'[c])
    BY <2>3, <2>10, BusyChange
  <2>12. UNCHANGED <<inbox, nextId, asked, answers, wire, phase>>
    BY <1>1, <1>6 DEF ending
  <2>13. QED
    BY <2>1, <2>3, <2>5, <2>7, <2>9, <2>11, <2>12, OrderChange
<1>7. QED
  BY <1>1, <1>4, <1>5, <1>6

\* The connection whose request's handler a context is in, if it is still here and HTTP.
LEMMA HandlerHead ==
  ASSUME IInv, Order, NEW c \in Ctx, ~ Idle(c), Top(c).at = "request",
         NEW s \in Alive(slots[c]), slots[c][s].id = Top(c).id
  PROVE  /\ slots[c][s].mode = "http" => Handled(slots[c][s].buf, Top(c).req)
         /\ ~ slots[c][s].responded => slots[c][s].mode = "http" /\ Complete(slots[c][s].buf)
         /\ slots[c][s] \in Record /\ slots[c][s].id \in Conn
<1>1. Stack(calls[c], slots[c]) /\ calls[c] # << >>
  BY LookedUnder, OrderUnder DEF Idle, Contexts
<1>2. Len(calls[c]) \in DOMAIN calls[c]
  BY <1>1, StackFacts
<1>3. Len(calls[c]) \in Serving(calls[c])
  BY <1>2 DEF Serving, Top
<1>4. slots[c][s].mode = "ws" \/ Handled(slots[c][s].buf, Top(c).req)
  BY <1>3, OrderUnder DEF Busy, Top
<1>5. slots[c][s].mode = "ws" => slots[c][s].responded
  BY OrderUnder DEF Told, TellsOf, Tells
<1>6. slots[c][s] \in Record /\ slots[c][s].id \in Conn
  BY OrderUnder, IdsInConn
<1>7. slots[c][s].mode \in {"http", "ws"}
  BY <1>6, RecordFacts
<1>8. QED
  BY <1>4, <1>5, <1>6, <1>7 DEF Handled

\* The first answer to it goes out.
LEMMA OrderAnswer ==
  ASSUME IInv, Order, NEW c \in Ctx, NEW s \in Alive(slots[c]), ~ slots[c][s].responded,
         slots[c][s].mode = "http", Complete(slots[c][s].buf),
         answers' = [answers EXCEPT ![slots[c][s].id] = Append(@, slots[c][s].buf[1].req)]
  PROVE  /\ answers' \in [Conn -> Seq(0..MaxReq)]
         /\ InOrder(asked[slots[c][s].id], answers'[slots[c][s].id])
         /\ \A k \in Conn \ {slots[c][s].id} : answers'[k] = answers[k]
         /\ Tells([slots[c][s] EXCEPT !.responded = TRUE], asked[slots[c][s].id], answers'[slots[c][s].id],
                  wire[slots[c][s].id], phase[slots[c][s].id])
<1> DEFINE id == slots[c][s].id
<1> DEFINE conn == slots[c][s]
<1> DEFINE bn == Append(answers[id], conn.buf[1].req)
<1>1. id \in Conn /\ conn \in Record /\ answers \in [Conn -> Seq(0..MaxReq)] /\ InOrder(asked[id], answers[id])
  BY OrderUnder, IdsInConn DEF Order, Histories
<1>2. asked[id] \in Seq(Item) /\ wire[id] \in Seq(Item) /\ answers[id] \in Seq(0..MaxReq)
  BY <1>1, OrderUnder DEF Types
<1>3. Tells(conn, asked[id], answers[id], wire[id], phase[id])
  BY OrderUnder DEF Told, TellsOf
<1>4. conn.mode = "http" /\ ~ conn.responded /\ Complete(conn.buf)
  OBVIOUS
<1>5. answers' = [answers EXCEPT ![id] = bn]
  OBVIOUS
<1>6. /\ bn \in Seq(0..MaxReq) /\ InOrder(asked[id], bn)
      /\ Tells([conn EXCEPT !.responded = TRUE], asked[id], bn, wire[id], phase[id])
  <2> HIDE DEF id
  <2> DEFINE a == answers[id]
  <2> DEFINE q == asked[id]
  <2>1. a \in Seq(0..MaxReq) /\ q \in Seq(Item) /\ Tells(conn, q, a, wire[id], phase[id]) /\ InOrder(q, a)
    BY <1>1, <1>2, <1>3
  <2>2. bn = Append(a, conn.buf[1].req)
    OBVIOUS
  <2> HIDE DEF conn, a, q, bn
  <2>3. /\ Append(a, conn.buf[1].req) \in Seq(0..MaxReq) /\ InOrder(q, Append(a, conn.buf[1].req))
        /\ Tells([conn EXCEPT !.responded = TRUE], q, Append(a, conn.buf[1].req), wire[id], phase[id])
    BY <1>1, <1>2, <1>4, <2>1, TellsAnswer
  <2>4. QED
    BY <2>2, <2>3 DEF q
<1> HIDE DEF bn
<1>7. answers'[id] = bn /\ \A k \in Conn \ {id} : answers'[k] = answers[k]
  BY <1>1, <1>5
<1>8. answers' \in [Conn -> Seq(0..MaxReq)]
  BY <1>1, <1>5, <1>6
<1>9. QED
  BY <1>6, <1>7, <1>8

LEMMA AnswerOrders == ASSUME IInv, Order, NEW c \in Ctx, Answer(c) PROVE Order'
<1> DEFINE s == ById(c, Top(c).id)
<1> DEFINE conn == [slots[c][s] EXCEPT !.responded = TRUE]
<1>1. /\ ~ Idle(c) /\ Top(c).at = "request" /\ s # 0 /\ ~ slots[c][s].responded
      /\ slots' = [slots EXCEPT ![c] = [slots[c] EXCEPT ![s] = conn]]
      /\ UNCHANGED <<calls, inbox, nextId, asked, wire, phase>>
      /\ answers' = [answers EXCEPT ![Top(c).id] = Append(@, slots[c][s].buf[1].req)]
  BY DEF Answer, InCode, Answerable, SendAll, control, handoff, client, sending
<1>2. s \in Alive(slots[c]) /\ slots[c][s] \in Record /\ slots[c][s].id = Top(c).id /\ slots[c][s].id \in Conn
  BY <1>1, HandlerConn DEF IInv
<1>3. conn \in Record /\ conn.id = slots[c][s].id /\ conn.mode = slots[c][s].mode /\ conn.buf = slots[c][s].buf
  BY <1>2, RecordResponded
<1> HIDE DEF s
<1>4. slots[c][s].mode = "http" /\ Complete(slots[c][s].buf)
  BY <1>1, <1>2, HandlerHead
<1> DEFINE id == slots[c][s].id
<1>5. answers' = [answers EXCEPT ![id] = Append(@, slots[c][s].buf[1].req)]
  BY <1>1, <1>2
<1>6. /\ answers' \in [Conn -> Seq(0..MaxReq)] /\ InOrder(asked[id], answers'[id])
      /\ \A k \in Conn \ {id} : answers'[k] = answers[k]
      /\ Tells(conn, asked[id], answers'[id], wire[id], phase[id])
  BY <1>1, <1>2, <1>4, <1>5, OrderAnswer
<1> HIDE DEF conn, id
<1>7. conn.id = id
  BY <1>3 DEF id
<1>8. TellsOf(conn, asked', answers', wire', phase') /\ \A k \in Conn \ {conn.id} : Same(k)
  BY <1>1, <1>6, <1>7 DEF TellsOf, Same
<1>9. Changed(slots[c], slots'[c], s, conn) => Busy(calls'[c], slots'[c])
  BY <1>1, <1>3, OrderUnder, BusyChange
<1>10. InOrder(asked'[conn.id], answers'[conn.id])
  BY <1>1, <1>6, <1>7
<1>11. QED
  BY <1>1, <1>2, <1>3, <1>6, <1>8, <1>9, <1>10, OrderUpdate

LEMMA UpgradeOrders == ASSUME IInv, Order, NEW c \in Ctx, Upgrade(c) PROVE Order'
<1> DEFINE s == ById(c, Top(c).id)
<1> DEFINE conn == [slots[c][s] EXCEPT !.responded = TRUE, !.mode = "ws", !.buf = << >>]
<1>1. /\ ~ Idle(c) /\ Top(c).at = "request" /\ s # 0 /\ ~ slots[c][s].responded
      /\ slots' = [slots EXCEPT ![c] = [slots[c] EXCEPT ![s] = conn]]
      /\ UNCHANGED <<calls, inbox, nextId, asked, wire, phase>>
      /\ answers' = [answers EXCEPT ![Top(c).id] = Append(@, slots[c][s].buf[1].req)]
  BY DEF Upgrade, InCode, Answerable, SendAll, control, handoff, client, sending
<1>2. s \in Alive(slots[c]) /\ slots[c][s] \in Record /\ slots[c][s].id = Top(c).id /\ slots[c][s].id \in Conn
  BY <1>1, HandlerConn DEF IInv
<1>3. conn \in Record /\ conn.id = slots[c][s].id /\ conn.mode = "ws" /\ conn.responded
  BY <1>2, EmptySeq DEF Record
<1> HIDE DEF s
<1>4. slots[c][s].mode = "http" /\ Complete(slots[c][s].buf)
  BY <1>1, <1>2, HandlerHead
<1> DEFINE id == slots[c][s].id
<1>5. answers' = [answers EXCEPT ![id] = Append(@, slots[c][s].buf[1].req)]
  BY <1>1, <1>2
<1>6. /\ answers' \in [Conn -> Seq(0..MaxReq)] /\ InOrder(asked[id], answers'[id])
      /\ \A k \in Conn \ {id} : answers'[k] = answers[k]
  BY <1>1, <1>2, <1>4, <1>5, OrderAnswer
<1> HIDE DEF conn, id
<1>7. conn.id = id
  BY <1>3 DEF id
<1>8. TellsOf(conn, asked', answers', wire', phase')
  BY <1>3 DEF TellsOf, Tells
<1>9. \A k \in Conn \ {conn.id} : Same(k)
  BY <1>1, <1>6, <1>7 DEF Same
<1>10. Changed(slots[c], slots'[c], s, conn) => Busy(calls'[c], slots'[c])
  BY <1>1, <1>3, OrderUnder, BusyChange
<1>11. InOrder(asked'[conn.id], answers'[conn.id])
  BY <1>1, <1>6, <1>7
<1>12. QED
  BY <1>1, <1>2, <1>3, <1>6, <1>8, <1>9, <1>10, <1>11, OrderUpdate

LEMMA SocketCloseOrders == ASSUME IInv, Order, NEW c \in Ctx, SocketClose(c) PROVE Order'
<1>1. UNCHANGED <<inbox, nextId, asked, phase, answers>> /\ \E s \in LiveSlots(c) : Teardown(c, s, calls[c])
  BY DEF SocketClose, handoff, sending, replies
<1>2. PICK s \in LiveSlots(c) : Teardown(c, s, calls[c])
  BY <1>1
<1>3. s \in Alive(slots[c])
  BY DEF LiveSlots, Alive
<1>4. QED
  BY <1>1, <1>2, <1>3, OrderUnder, OrderTeardown

LEMMA CloseReturnsOrders == ASSUME IInv, Order, NEW c \in Ctx, CloseReturns(c) PROVE Order'
<1>1. /\ ~ Idle(c) /\ Top(c).at = "closing" /\ calls' = [calls EXCEPT ![c] = Beneath(c)] /\ Dispose(c, Top(c).slot)
      /\ UNCHANGED <<inbox, nextId, asked, phase, answers>>
  BY DEF CloseReturns, InCode, handoff, sending, replies
<1>2. Stack(calls[c], slots[c]) /\ Popped(calls[c], Beneath(c), Top(c)) /\ Busy(Beneath(c), slots[c])
  BY <1>1, OrderUnder DEF Contexts
<1>3. Top(c).slot \in Alive(slots[c])
  BY <1>1, <1>2 DEF Stack, ClosingFrames, Popped
<1>4. slots[c][Top(c).slot].id \in Conn
  BY <1>3, OrderUnder, IdsInConn
<1>5. answers' \in [Conn -> Seq(0..MaxReq)] /\ InOrder(asked[slots[c][Top(c).slot].id], answers'[slots[c][Top(c).slot].id])
  BY <1>1, <1>4 DEF Order, Histories
<1>6. QED
  BY <1>1, <1>2, <1>3, <1>5, OrderDispose

LEMMA FinishRequestOrders == ASSUME IInv, Order, NEW c \in Ctx, FinishRequest(c) PROVE Order'
<1> DEFINE id == Top(c).id
<1> DEFINE s == ById(c, id)
<1>1. /\ ~ Idle(c) /\ Top(c).at = "request" /\ UNCHANGED <<inbox, nextId, asked, phase>>
      /\ IF s # 0 /\ ~ slots[c][s].responded
         THEN answers' = [answers EXCEPT ![id] = Append(@, slots[c][s].buf[1].req)] ELSE UNCHANGED answers
      /\ \/ s = 0 /\ calls' = [calls EXCEPT ![c] = Beneath(c)] /\ UNCHANGED <<tables, ending>>
         \/ /\ s # 0 /\ slots[c][s].mode = "ws"
            /\ slots' = [slots EXCEPT ![c][s].upgraded = TRUE]
            /\ calls' = [calls EXCEPT ![c] = Append(Beneath(c), Handler("upgrade", id))]
            /\ UNCHANGED <<free, index, used, ending>>
         \/ s # 0 /\ slots[c][s].mode = "http" /\ Teardown(c, s, Beneath(c))
         \/ /\ s # 0 /\ slots[c][s].mode = "http"
            /\ slots' = [slots EXCEPT ![c][s].buf = SubSeq(@, 3, Len(@)), ![c][s].responded = FALSE]
            /\ calls' = [calls EXCEPT ![c] = Beneath(c)]
            /\ UNCHANGED <<free, index, used, ending>>
  BY DEF FinishRequest, InCode, SendAll, sending
<1>2. s # 0 => s \in Alive(slots[c]) /\ slots[c][s].id = id /\ slots[c][s] \in Record /\ id \in Conn /\ s \in DOMAIN slots[c]
  BY <1>1, HandlerConn DEF IInv
<1>3. /\ Busy(Beneath(c), slots[c]) /\ Serving(Beneath(c)) = {} /\ Beneath(c) \in Seq(Frame)
      /\ id \in 0..MaxConn /\ Domains /\ DOMAIN calls = Ctx
  BY <1>1, OrderUnder, TopFacts DEF Types
<1> HIDE DEF s
<1>4. s # 0 => /\ slots[c][s].mode = "http" => Complete(slots[c][s].buf)
               /\ ~ slots[c][s].responded => slots[c][s].mode = "http" /\ Complete(slots[c][s].buf)
  BY <1>1, <1>2, HandlerHead DEF Handled
<1>5. s # 0 => /\ answers' \in [Conn -> Seq(0..MaxReq)] /\ InOrder(asked[id], answers'[id])
               /\ \A k \in Conn \ {id} : answers'[k] = answers[k]
  <2>1. CASE s # 0 /\ ~ slots[c][s].responded
    BY <1>1, <1>2, <1>4, <2>1, OrderAnswer
  <2>2. CASE s # 0 /\ slots[c][s].responded
    BY <1>1, <1>2, <2>2 DEF Order, Histories
  <2>3. QED
    BY <2>1, <2>2
<1>6. CASE s = 0 /\ calls' = [calls EXCEPT ![c] = Beneath(c)] /\ UNCHANGED <<tables, ending>>
  BY <1>1, <1>6, OrderPop DEF tables, ending, fates
<1>7. CASE s # 0 /\ slots[c][s].mode = "http" /\ Teardown(c, s, Beneath(c))
  <2>1. ~ slots[c][s].upgraded
    BY <1>2, <1>7, OrderUnder, HttpNotClosing
  <2>2. calls' = [calls EXCEPT ![c] = Beneath(c)] /\ Dispose(c, s)
    BY <1>7, <2>1 DEF Teardown, RunsCloseHandler
  <2>3. QED
    BY <1>1, <1>2, <1>3, <1>5, <1>7, <2>2, OrderDispose
<1>8. CASE /\ s # 0 /\ slots[c][s].mode = "ws"
           /\ slots' = [slots EXCEPT ![c][s].upgraded = TRUE]
           /\ calls' = [calls EXCEPT ![c] = Append(Beneath(c), Handler("upgrade", id))]
           /\ UNCHANGED <<free, index, used, ending>>
  <2> DEFINE conn == [slots[c][s] EXCEPT !.upgraded = TRUE]
  <2> DEFINE f == Handler("upgrade", id)
  <2> DEFINE tt == Append(Beneath(c), f)
  <2>1. conn \in Record /\ conn.id = slots[c][s].id /\ conn.mode = "ws" /\ conn.responded = slots[c][s].responded
    BY <1>2, <1>8 DEF Record
  <2>2. slots' = [slots EXCEPT ![c] = [slots[c] EXCEPT ![s] = conn]]
    BY <1>8
  <2>3. f \in Frame /\ f.at = "upgrade"
    BY <1>3, CallFacts DEF UserCode
  <2>4. calls'[c] = tt /\ \A d \in Ctx \ {c} : calls'[d] = calls[d]
    BY <1>3, <1>8
  <2> HIDE DEF conn, f
  <2>5. Pushed(Beneath(c), tt, f)
    BY <1>3, <2>3, PushSeq
  <2> HIDE DEF tt
  <2>6. Busy(tt, slots[c])
    BY <1>3, <2>3, <2>5, BusyPush
  <2>7. slots[c][s].responded
    BY <1>2, <1>4, <1>8, OrderUnder DEF Told, TellsOf, Tells
  <2>8. UNCHANGED <<inbox, nextId, asked, answers, wire, phase>>
    BY <1>1, <1>8, <2>7 DEF ending
  <2>9. TellsOf(conn, asked, answers, wire, phase)
    BY <2>1, <2>7 DEF TellsOf, Tells
  <2>10. Changed(slots[c], slots'[c], s, conn) => Busy(calls'[c], slots'[c])
    BY <2>1, <2>4, <2>6, BusyChange
  <2>11. QED
    BY <1>2, <1>8, <2>1, <2>2, <2>4, <2>8, <2>9, <2>10, OrderChange
<1>9. CASE /\ s # 0 /\ slots[c][s].mode = "http"
           /\ slots' = [slots EXCEPT ![c][s].buf = SubSeq(@, 3, Len(@)), ![c][s].responded = FALSE]
           /\ calls' = [calls EXCEPT ![c] = Beneath(c)]
           /\ UNCHANGED <<free, index, used, ending>>
  <2> DEFINE b == SubSeq(slots[c][s].buf, 3, Len(slots[c][s].buf))
  <2> DEFINE conn == [slots[c][s] EXCEPT !.buf = b, !.responded = FALSE]
  <2> DEFINE old == [slots[c][s] EXCEPT !.responded = TRUE]
  <2>1. slots[c][s] \in Record /\ s \in Alive(slots[c]) /\ slots[c][s].id = id /\ slots[c][s].buf \in Seq(Item) /\ id \in Conn
    BY <1>2, <1>9, RecordFacts
  <2>2. slots' = [slots EXCEPT ![c] = [slots[c] EXCEPT ![s] = conn]]
    <3>1. c \in DOMAIN slots /\ s \in DOMAIN slots[c]
      BY <1>2, <1>3, <1>9 DEF Domains
    <3>2. QED
      BY <1>9, <2>1, <3>1
  <2>3. b \in Seq(Item)
    BY <2>1, RestOfBuffer
  <2>4. conn \in Record /\ conn.id = id /\ conn.mode = "http" /\ ~ conn.responded /\ conn.buf = b
    <3> HIDE DEF b
    <3>1. QED
      BY <1>9, <2>1, <2>3 DEF Record
  <2>5. old \in Record /\ old.id = id /\ old.mode = "http" /\ old.responded /\ old.buf = slots[c][s].buf
    BY <1>9, <2>1 DEF Record
  <2>6. Tells(old, asked[id], answers'[id], wire[id], phase[id])
    <3>1. CASE ~ slots[c][s].responded
      <4>1. answers' = [answers EXCEPT ![id] = Append(@, slots[c][s].buf[1].req)]
        BY <1>1, <1>9, <3>1
      <4>2. answers' = [answers EXCEPT ![slots[c][s].id] = Append(@, slots[c][s].buf[1].req)]
        BY <2>1, <4>1
      <4>3. slots[c][s].mode = "http" /\ Complete(slots[c][s].buf) /\ s \in Alive(slots[c])
        BY <1>4, <1>9, <2>1
      <4>4. Tells([slots[c][s] EXCEPT !.responded = TRUE], asked[slots[c][s].id], answers'[slots[c][s].id],
                  wire[slots[c][s].id], phase[slots[c][s].id])
        BY <3>1, <4>2, <4>3, OrderAnswer
      <4>5. QED
        BY <2>1, <4>4
    <3>2. CASE slots[c][s].responded
      <4>1. old = slots[c][s]
        BY <2>1, <3>2 DEF Record
      <4>2. UNCHANGED answers
        BY <1>1, <3>2
      <4> HIDE DEF old
      <4>3. QED
        BY <2>1, <4>1, <4>2, OrderUnder DEF Told, TellsOf
    <3>3. QED
      BY <3>1, <3>2
  <2>7. /\ asked[id] \in Seq(Item) /\ answers'[id] \in Seq(0..MaxReq) /\ wire[id] \in Seq(Item)
        /\ Complete(old.buf) /\ conn.buf = SubSeq(old.buf, 3, Len(old.buf))
    <3>1. asked[id] \in Seq(Item) /\ wire[id] \in Seq(Item)
      BY <2>1, OrderUnder DEF Types
    <3>2. answers'[id] \in Seq(0..MaxReq)
      BY <1>5, <1>9, <2>1
    <3>3. QED
      BY <1>4, <1>9, <2>4, <2>5, <3>1, <3>2
  <2> HIDE DEF conn, old, b
  <2>8. Tells(conn, asked[id], answers'[id], wire[id], phase[id])
    BY <2>4, <2>5, <2>6, <2>7, TellsNext
  <2>9. calls'[c] = Beneath(c) /\ \A d \in Ctx \ {c} : calls'[d] = calls[d]
    BY <1>3, <1>9
  <2>10. UNCHANGED wire
    BY <1>9 DEF ending
  <2>11. TellsOf(conn, asked', answers', wire', phase')
    BY <1>1, <2>4, <2>8, <2>10 DEF TellsOf
  <2>12. \A k \in Conn \ {conn.id} : Same(k)
    BY <1>1, <1>5, <1>9, <2>4, <2>10 DEF Same
  <2>13. answers' \in [Conn -> Seq(0..MaxReq)] /\ InOrder(asked'[conn.id], answers'[conn.id])
    BY <1>1, <1>5, <1>9, <2>4
  <2>14. Busy(calls'[c], slots'[c])
    BY <1>3, <2>9, BusyNone
  <2>15. conn \in Record /\ conn.id = slots[c][s].id
    BY <2>1, <2>4
  <2>16. QED
    BY <1>1, <2>1, <2>2, <2>9, <2>11, <2>12, <2>13, <2>14, <2>15, OrderUpdate
<1>10. QED
  BY <1>1, <1>6, <1>7, <1>8, <1>9

LEMMA GiveRequestOrders == ASSUME IInv, Order, NEW w \in Worker, GiveRequest(w) PROVE Order'
<1> DEFINE id == Top(Main).id
<1> DEFINE s == ById(Main, id)
<1> DEFINE p == [conn |-> slots[Main][s], req |-> Top(Main).req]
<1>1. /\ ~ Idle(Main) /\ Top(Main).at = "request" /\ s # 0 /\ ~ slots[Main][s].responded /\ Vacate(Main, s, Blank)
      /\ inbox' = [inbox EXCEPT ![w] = Append(@, p)]
      /\ UNCHANGED <<calls, nextId, asked, answers, wire, phase>>
  BY DEF GiveRequest, InCode, Answerable, control, client, sending, outcome, replies
<1>2. Main \in Ctx /\ Types /\ Domains /\ Tabled(Main)
  BY CtxFacts, OrderUnder
<1>3. s \in Alive(slots[Main]) /\ slots[Main][s].id = id /\ id \in Conn /\ slots[Main][s] \in Record
  BY <1>1, <1>2, HandlerConn DEF IInv
<1>4. p \in Parcel
  <2>1. Top(Main).req \in 0..MaxReq
    BY <1>1, <1>2, TopFacts DEF IInv, Core
  <2>2. QED
    BY <1>3, <2>1 DEF Parcel
<1>5. Packed(p, asked, answers, wire, phase)
  <2>1. slots[Main][s].mode = "http" /\ Handled(slots[Main][s].buf, Top(Main).req)
    <3> HIDE DEF s
    <3>1. QED
      BY <1>1, <1>2, <1>3, HandlerHead
  <2>2. TellsOf(slots[Main][s], asked, answers, wire, phase)
    BY <1>2, <1>3, OrderUnder DEF Told
  <2>3. QED
    BY <2>1, <2>2 DEF Packed
<1> HIDE DEF s, p, id
<1>6. Blank \in Record /\ ~ Blank.alive /\ ~ Blank.upgraded
  BY <1>3, BlankFacts, ConnFacts DEF Blank
<1>7. Others(Main) /\ Changed(slots[Main], slots'[Main], s, Blank)
  BY <1>1, <1>2, <1>3, <1>6, VacateStep
<1>8. \A r \in Alive(slots'[Main]) : r \in Alive(slots[Main]) /\ slots'[Main][r] = slots[Main][r]
  BY <1>6, <1>7 DEF Changed, Alive
<1>9. Busy(calls[Main], slots'[Main]) /\ Told(slots'[Main], asked, answers, wire, phase)
  <2>1. Busy(calls[Main], slots'[Main])
    BY <1>2, <1>8, OrderUnder, BusyVacate
  <2>2. QED
    BY <1>2, <1>8, <2>1, OrderUnder DEF Told
<1>10. Parcelled'
  <2>1. ASSUME NEW v \in Worker, NEW i \in DOMAIN inbox'[v] PROVE Packed(inbox'[v][i], asked, answers, wire, phase)
    <3>1. inbox \in [Worker -> Seq(Parcel)] /\ Parcelled
      BY <1>2 DEF Types, Order
    <3>2. CASE v = w
      <4>1. inbox'[w] = Append(inbox[w], p) /\ inbox[w] \in Seq(Parcel)
        BY <1>1, <3>1
      <4>2. /\ Len(inbox[w]) \in Nat /\ DOMAIN inbox[w] = 1..Len(inbox[w])
            /\ DOMAIN inbox'[w] = 1..(Len(inbox[w]) + 1) /\ inbox'[w][Len(inbox[w]) + 1] = p
            /\ \A j \in 1..Len(inbox[w]) : inbox'[w][j] = inbox[w][j]
        BY <1>4, <4>1, AppendProperties, LenProperties
      <4>3. i = Len(inbox[w]) + 1 \/ i \in DOMAIN inbox[w]
        BY <2>1, <3>2, <4>2
      <4>4. QED
        BY <1>5, <3>1, <3>2, <4>2, <4>3 DEF Parcelled
    <3>3. CASE v # w
      BY <1>1, <2>1, <3>1, <3>3 DEF Parcelled
    <3>4. QED
      BY <3>2, <3>3
  <2>2. QED
    BY <1>1, <2>1 DEF Parcelled
<1>11. Ordered(Main)' /\ Unborn'
  BY <1>1, <1>9 DEF Ordered, Order, Unborn
<1>12. \A d \in Ctx \ {Main} : slots'[d] = slots[d] /\ calls'[d] = calls[d]
  BY <1>1, <1>7 DEF Others
<1>13. QED
  BY <1>1, <1>2, <1>10, <1>11, <1>12, OrderLocal

LEMMA DeliverOrders == ASSUME IInv, Looking, Order, NEW w \in Worker, Deliver(w) PROVE Order'
<1> DEFINE p == Head(inbox[w])
<1> DEFINE f == Given(p)
<1>1. /\ w \in Ctx /\ Idle(w) /\ inbox[w] # << >> /\ Install(w, p.conn) /\ calls' = [calls EXCEPT ![w] = <<f>>]
      /\ inbox' = [inbox EXCEPT ![w] = Tail(@)] /\ UNCHANGED <<nextId, asked, answers, wire, phase>>
  BY CtxFacts DEF Deliver, client, sending, outcome, replies
<1>2. Types /\ Core /\ Domains /\ Tabled(w) /\ inbox \in [Worker -> Seq(Parcel)] /\ inbox[w] \in Seq(Parcel)
  BY <1>1, OrderUnder DEF Types
<1>3. p = inbox[w][1] /\ 1 \in DOMAIN inbox[w] /\ p \in Parcel
  BY <1>1, <1>2, HeadTailProperties, LenProperties, EmptySeq
<1>4. p.conn \in Record /\ p.conn.alive /\ p.conn.id \in Conn /\ ~ p.conn.upgraded
  BY <1>2, <1>3 DEF Core, Queued, Parcel
<1>5. p.conn.id \notin IdsOf(slots[w])
  <2>1. InQueue(p.conn.id, w)
    BY <1>3 DEF InQueue, QueuedConns
  <2>2. QED
    BY <1>1, <1>2, <1>4, <2>1 DEF Core, Owners, OwnedOnce, InTable
<1>6. f.id = p.conn.id /\ f.req = p.req /\ f \in Frame
  <2>1. f.id = p.conn.id /\ f.req = p.req
    BY DEF Given, Request, Handler, Doing
  <2>2. f \in Frame
    BY <1>3, <1>4, CallFacts, ConnFacts DEF Given, Parcel
  <2>3. QED
    BY <2>1, <2>2
<1>7. Packed(p, asked, answers, wire, phase)
  BY <1>3 DEF Order, Parcelled
<1> HIDE DEF f, p
<1> DEFINE conn == p.conn
<1>8. conn \in Record /\ conn.alive /\ conn.id \in Conn /\ ~ conn.upgraded
      /\ conn.id \notin IdsOf(slots[w]) /\ Install(w, conn) /\ f.id = conn.id
      /\ TellsOf(conn, asked, answers, wire, phase) /\ Handled(conn.buf, f.req)
  BY <1>1, <1>4, <1>5, <1>6, <1>7 DEF Packed
<1> HIDE DEF conn
<1>9. Others(w) /\ Added(slots[w], slots'[w], SlotFor(w), conn)
  BY <1>1, <1>2, <1>8, InstallStep
<1>10. Alive(slots'[w]) = Alive(slots[w]) \cup {SlotFor(w)} /\ \A r \in Alive(slots[w]) : slots'[w][r] = slots[w][r]
  BY <1>8, <1>9, AddedFacts
<1>11. slots'[w][SlotFor(w)] = conn
  BY <1>9 DEF Added
<1>12. Told(slots'[w], asked, answers, wire, phase)
  BY <1>1, <1>8, <1>10, <1>11, OrderUnder DEF Told
<1>13. Busy(<<f>>, slots'[w])
  <2>1. \A r \in Alive(slots[w]) : slots'[w][r].id # f.id
    BY <1>8, <1>10 DEF IdsOf
  <2>2. \A r \in Alive(slots'[w]) : slots'[w][r].id = f.id => Handled(slots'[w][r].buf, f.req)
    BY <1>8, <1>10, <1>11, <2>1
  <2>3. DOMAIN <<f>> = {1} /\ <<f>>[1] = f
    OBVIOUS
  <2>4. QED
    BY <2>2, <2>3 DEF Busy, Serving
<1>14. calls'[w] = <<f>> /\ \A d \in Ctx \ {w} : slots'[d] = slots[d] /\ calls'[d] = calls[d]
  BY <1>1, <1>2, <1>9 DEF Types, Others
<1>15. Parcelled'
  <2>1. ASSUME NEW v \in Worker, NEW i \in DOMAIN inbox'[v] PROVE Packed(inbox'[v][i], asked, answers, wire, phase)
    <3>1. CASE v = w
      <4>1. inbox'[w] = Tail(inbox[w])
        BY <1>1, <1>2
      <4>2. i + 1 \in DOMAIN inbox[w] /\ inbox'[w][i] = inbox[w][i + 1]
        BY <1>1, <1>2, <2>1, <3>1, <4>1, TailElement
      <4>3. QED
        BY <3>1, <4>2 DEF Order, Parcelled
    <3>2. CASE v # w
      BY <1>1, <1>2, <2>1, <3>2 DEF Order, Parcelled
    <3>3. QED
      BY <3>1, <3>2
  <2>2. QED
    BY <1>1, <2>1 DEF Parcelled
<1>16. Ordered(w)' /\ Unborn'
  BY <1>1, <1>12, <1>13, <1>14 DEF Ordered, Order, Unborn
<1>17. QED
  BY <1>1, <1>14, <1>15, <1>16, OrderLocal

LEMMA JoinReturnsOrders == ASSUME IInv, Order, JoinReturns PROVE Order'
<1> DEFINE w == Top(Main).thread
<1>1. /\ Main \in Ctx /\ ~ Idle(Main) /\ inbox' = [inbox EXCEPT ![w] = << >>]
      /\ calls' = [calls EXCEPT ![Main] = Beneath(Main)]
      /\ UNCHANGED <<slots, nextId, asked, answers, wire, phase>>
  BY CtxFacts DEF JoinReturns, InCode, tables, client, sending, outcome, replies
<1> HIDE DEF w
<1>2. Busy(Beneath(Main), slots[Main])
  BY <1>1, OrderUnder
<1>3. calls'[Main] = Beneath(Main) /\ \A d \in Ctx \ {Main} : slots'[d] = slots[d] /\ calls'[d] = calls[d]
  BY <1>1 DEF IInv, Types
<1>4. Parcelled'
  <2>1. inbox \in [Worker -> Seq(Parcel)] /\ DOMAIN << >> = {} /\ Parcelled
    BY DEF IInv, Types, Order
  <2>2. QED
    BY <1>1, <2>1 DEF Parcelled
<1>5. Ordered(Main)' /\ Unborn'
  BY <1>1, <1>2, <1>3 DEF Ordered, Order, Unborn
<1>6. QED
  BY <1>1, <1>3, <1>4, <1>5, OrderLocal

LEMMA RunCallbacksOrders == ASSUME IInv, Order, RunCallbacks PROVE Order'
<1>1. Main \in Ctx /\ UNCHANGED <<slots, inbox, nextId, asked, answers, wire, phase>>
  BY CtxFacts DEF RunCallbacks, tables, handoff, client, sending, outcome, replies
<1>2. calls' = [calls EXCEPT ![Main] = <<Doing("callback")>>] /\ Doing("callback").at = "callback"
  BY CallbackFrame DEF RunCallbacks
<1>3. QED
  BY <1>1, <1>2, OrderSolo

LEMMA MessageOrders == ASSUME IInv, Order, NEW w \in Worker, Message(w) PROVE Order'
<1>1. w \in Ctx /\ UNCHANGED <<slots, inbox, nextId, asked, answers, wire, phase>>
  BY CtxFacts DEF Message, tables, handoff, client, sending, outcome, replies
<1>2. calls' = [calls EXCEPT ![w] = <<Doing("callback")>>] /\ Doing("callback").at = "callback"
  BY CallbackFrame DEF Message
<1>3. QED
  BY <1>1, <1>2, OrderSolo

LEMMA KillSeenOrders == ASSUME IInv, Order, NEW w \in Worker, KillSeen(w) PROVE Order'
<1>1. w \in Ctx /\ UNCHANGED <<slots, inbox, nextId, asked, answers, wire, phase>>
  BY CtxFacts DEF KillSeen, tables, handoff, client, sending, outcome, replies
<1>2. PICK stack \in {<< >>} \cup Callbacks : calls' = [calls EXCEPT ![w] = stack]
  BY DEF KillSeen
<1>3. CASE stack = << >>
  <2>1. Busy(<< >>, slots[w])
    <3>1. DOMAIN << >> = {}
      OBVIOUS
    <3>2. QED
      BY <3>1, BusyNone DEF Serving
  <2>2. QED
    BY <1>1, <1>2, <1>3, <2>1, OrderCalls
<1>4. CASE stack \in Callbacks
  <2>1. calls' = [calls EXCEPT ![w] = <<Doing("callback")>>] /\ Doing("callback").at = "callback"
    BY <1>2, <1>4, CallbackFrame
  <2>2. QED
    BY <1>1, <2>1, OrderSolo
<1>5. QED
  BY <1>3, <1>4

LEMMA KillOrders == ASSUME IInv, Order, NEW w \in Worker, Kill(w) PROVE Order'
<1> DEFINE f == [Doing("join") EXCEPT !.thread = w]
<1>1. /\ calls' = [calls EXCEPT ![Main] = Append(calls[Main], f)]
      /\ UNCHANGED <<slots, inbox, nextId, asked, answers, wire, phase>>
  BY DEF Kill, tables, client, sending, outcome, replies
<1>2. f \in Frame /\ f.at = "join"
  <2>1. Doing("join") \in Frame /\ Doing("join").at = "join"
    BY CallFacts
  <2>2. QED
    BY <2>1, CtxFacts DEF Frame
<1> HIDE DEF f
<1>3. QED
  BY <1>1, <1>2, CtxFacts, OrderPush

LEMMA ReturnOrders == ASSUME IInv, Order, NEW c \in Ctx, Return(c) PROVE Order'
<1>1. /\ ~ Idle(c) /\ calls' = [calls EXCEPT ![c] = Beneath(c)]
      /\ UNCHANGED <<slots, inbox, nextId, asked, answers, wire, phase>>
  BY DEF Return, InCode, tables, handoff, client, sending, outcome, replies
<1>2. QED
  BY <1>1, OrderPop

\* A client sends something on its connection.
LEMMA OrderSend ==
  ASSUME IInv, Order, NEW id \in Conn, id < nextId, UNCHANGED <<slots, calls, inbox, nextId, answers>>,
         \A k \in Conn \ {id} : Same(k), InOrder(asked'[id], answers[id]),
         \A conn \in Record : conn.id = id /\ (conn.mode = "ws" <=> id \in switched)
                              /\ Tells(conn, asked[id], answers[id], wire[id], phase[id])
                              => Tells(conn, asked'[id], answers[id], wire'[id], phase'[id])
  PROVE  Order'
<1>1. Contexts /\ Queued /\ Closed /\ Types
  BY DEF IInv, Core
<1>2. ASSUME NEW conn \in Record, conn.id \in Conn, conn.mode = "ws" <=> conn.id \in switched,
             TellsOf(conn, asked, answers, wire, phase)
      PROVE  TellsOf(conn, asked', answers', wire', phase')
  <2>1. CASE conn.id = id
    BY <1>2, <2>1 DEF TellsOf
  <2>2. CASE conn.id # id
    BY <1>2, <2>2, TellsSame
  <2>3. QED
    BY <2>1, <2>2
<1>3. ASSUME NEW c \in Ctx PROVE Ordered(c)'
  <2>1. ASSUME NEW s \in Alive(slots[c]) PROVE TellsOf(slots[c][s], asked', answers', wire', phase')
    <3>1. slots[c][s] \in Record /\ slots[c][s].id \in Conn
      BY <1>1, IdsInConn
    <3>2. slots[c][s].mode = "ws" <=> slots[c][s].id \in switched
      BY <1>1 DEF Closed
    <3>3. TellsOf(slots[c][s], asked, answers, wire, phase)
      BY OrderUnder DEF Told
    <3>4. QED
      BY <1>2, <3>1, <3>2, <3>3
  <2>2. QED
    BY <2>1, OrderUnder DEF Ordered, Told
<1>4. Parcelled'
  <2>1. ASSUME NEW w \in Worker, NEW i \in DOMAIN inbox[w] PROVE Packed(inbox[w][i], asked', answers', wire', phase')
    <3> DEFINE p == inbox[w][i]
    <3>1. p.conn.id \in Conn /\ p.conn.id \notin switched /\ p.conn.mode = "http"
      BY <1>1, <2>1 DEF Queued
    <3>2. p.conn \in Record
      <4>1. inbox[w] \in Seq(Parcel)
        BY <1>1 DEF Types
      <4>2. p \in Parcel
        BY <2>1, <4>1, LenProperties
      <4>3. QED
        BY <4>2 DEF Parcel
    <3>3. Packed(p, asked, answers, wire, phase)
      BY <2>1 DEF Order, Parcelled
    <3> HIDE DEF p
    <3>4. Packed(p, asked', answers', wire', phase')
      BY <1>2, <3>1, <3>2, <3>3 DEF Packed
    <3>5. QED
      BY <3>4 DEF p
  <2>2. QED
    BY <2>1 DEF Parcelled
<1>5. Histories'
  <2>1. \A k \in Conn \ {id} : InOrder(asked'[k], answers'[k])
    BY DEF Same, Order, Histories
  <2>2. QED
    BY <2>1 DEF Order, Histories
<1>6. Unborn'
  <2>1. nextId \in Int /\ id \in Int
    BY <1>1, ConnFacts, ConnAssumption DEF Types, Conn
  <2>2. ~ (id >= nextId)
    BY <2>1
  <2>3. QED
    BY <2>2 DEF Same, Order, Unborn
<1>7. QED
  BY <1>3, <1>4, <1>5, <1>6 DEF Order

LEMMA SendHeadOrders == ASSUME IInv, Order, NEW id \in Conn, SendHead(id) PROVE Order'
<1>1. Types
  BY DEF IInv
<1>2. /\ phase[id] = "request" /\ nextReq <= MaxReq /\ id < nextId /\ id \notin switched
      /\ UNCHANGED <<slots, calls, inbox, nextId, answers>>
  BY DEF SendHead, Reachable, tables, control, handoff, outcome, replies
<1>3. PICK kind \in Kinds :
        /\ wire' = [wire EXCEPT ![id] = Append(@, [kind |-> kind, req |-> nextReq])]
        /\ asked' = [asked EXCEPT ![id] = IF kind = "malformed" THEN @
                                          ELSE Append(@, [kind |-> kind, req |-> nextReq])]
        /\ phase' = [phase EXCEPT ![id] = IF kind = "malformed" THEN "quiet" ELSE "body"]
  BY DEF SendHead
<1> DEFINE head == [kind |-> kind, req |-> nextReq]
<1>4. head \in Item
  BY <1>1, <1>2, ConnAssumption DEF Item, Types
<1>5. /\ wire' = [wire EXCEPT ![id] = Append(@, head)]
      /\ asked' = [asked EXCEPT ![id] = IF kind = "malformed" THEN @ ELSE Append(@, head)]
  BY <1>3
<1> HIDE DEF head
<1>6. \A k \in Conn \ {id} : Same(k)
  BY <1>1, <1>2, <1>3, <1>5 DEF Types, Same
<1>7. /\ wire'[id] = Append(wire[id], head) /\ phase'[id] = (IF kind = "malformed" THEN "quiet" ELSE "body")
      /\ asked'[id] = (IF kind = "malformed" THEN asked[id] ELSE Append(asked[id], head))
      /\ asked[id] \in Seq(Item) /\ wire[id] \in Seq(Item)
  BY <1>1, <1>3, <1>5 DEF Types
<1>8. answers[id] \in Seq(0..MaxReq) /\ InOrder(asked[id], answers[id])
  BY DEF Order, Histories
<1>9. InOrder(asked'[id], answers[id])
  BY <1>4, <1>7, <1>8, InOrderAsked
<1>10. ASSUME NEW conn \in Record, Tells(conn, asked[id], answers[id], wire[id], phase[id])
       PROVE  Tells(conn, asked'[id], answers[id], wire'[id], phase'[id])
  <2>1. /\ Tells(conn, Append(asked[id], head), answers[id], Append(wire[id], head), "body")
        /\ Tells(conn, asked[id], answers[id], Append(wire[id], head), "quiet")
    BY <1>2, <1>4, <1>7, <1>10, TellsSent
  <2>2. QED
    BY <1>7, <2>1
<1>11. QED
  BY <1>2, <1>6, <1>9, <1>10, OrderSend

LEMMA SendBodyOrders == ASSUME IInv, Order, NEW id \in Conn, SendBody(id) PROVE Order'
<1>1. Types
  BY DEF IInv
<1>2. /\ phase[id] = "body" /\ wire' = [wire EXCEPT ![id] = Append(@, [kind |-> "body", req |-> Last(asked[id]).req])]
      /\ phase' = [phase EXCEPT ![id] = IF Last(asked[id]).kind = "close" THEN "quiet" ELSE "request"]
      /\ id < nextId /\ UNCHANGED <<slots, calls, inbox, nextId, answers, asked>>
  BY DEF SendBody, Reachable, tables, control, handoff, outcome, replies
<1> DEFINE item == [kind |-> "body", req |-> Last(asked[id]).req]
<1>3. item \in Item
  <2>1. asked[id] \in Seq(Item) /\ asked[id] # << >>
    BY <1>1, <1>2 DEF Types
  <2>2. Last(asked[id]) \in Item
    BY <2>1, LenProperties, EmptySeq DEF Last
  <2>3. QED
    BY <2>2 DEF Item
<1>4. wire' = [wire EXCEPT ![id] = Append(@, item)]
  BY <1>2
<1> HIDE DEF item
<1>5. \A k \in Conn \ {id} : Same(k)
  BY <1>1, <1>2, <1>4 DEF Types, Same
<1>6. /\ wire'[id] = Append(wire[id], item) /\ phase'[id] \in {"quiet", "request"}
      /\ asked[id] \in Seq(Item) /\ wire[id] \in Seq(Item)
  BY <1>1, <1>2, <1>4 DEF Types
<1>7. InOrder(asked'[id], answers[id])
  BY <1>2 DEF Order, Histories
<1>8. ASSUME NEW conn \in Record, Tells(conn, asked[id], answers[id], wire[id], phase[id])
       PROVE  Tells(conn, asked'[id], answers[id], wire'[id], phase'[id])
  <2>1. /\ Tells(conn, asked[id], answers[id], Append(wire[id], item), "request")
        /\ Tells(conn, asked[id], answers[id], Append(wire[id], item), "quiet")
    BY <1>2, <1>3, <1>6, <1>8, TellsSent
  <2>2. QED
    BY <1>2, <1>6, <2>1
<1>9. QED
  BY <1>2, <1>5, <1>7, <1>8, OrderSend

LEMMA SendFrameOrders == ASSUME IInv, Order, NEW id \in Conn, SendFrame(id) PROVE Order'
<1>1. Types
  BY DEF IInv
<1>2. id < nextId /\ id \in switched /\ UNCHANGED <<slots, calls, inbox, nextId, answers, asked, phase>>
  BY DEF SendFrame, Reachable, tables, control, handoff, outcome, replies
<1>3. PICK item : wire' = [wire EXCEPT ![id] = Append(@, item)]
  BY DEF SendFrame
<1>4. \A k \in Conn \ {id} : Same(k)
  BY <1>1, <1>2, <1>3 DEF Types, Same
<1>5. InOrder(asked'[id], answers[id])
  BY <1>2 DEF Order, Histories
<1>6. ASSUME NEW conn \in Record, conn.mode = "ws" <=> id \in switched,
             Tells(conn, asked[id], answers[id], wire[id], phase[id])
       PROVE  Tells(conn, asked'[id], answers[id], wire'[id], phase'[id])
  BY <1>2, <1>6 DEF Tells
<1>7. QED
  BY <1>2, <1>4, <1>5, <1>6, OrderSend

LEMMA InitOrders == ASSUME Init PROVE Order
<1>1. /\ slots = [c \in Ctx |-> << >>] /\ calls = [c \in Ctx |-> << >>] /\ inbox = [w \in Worker |-> << >>]
      /\ asked = [id \in Conn |-> << >>] /\ answers = [id \in Conn |-> << >>] /\ wire = [id \in Conn |-> << >>]
      /\ phase = [id \in Conn |-> "request"]
  BY DEF Init
<1>2. DOMAIN << >> = {} /\ Alive(<< >>) = {}
  BY DEF Alive
<1>3. << >> \in Seq(0..MaxReq) /\ Len(<< >>) = 0
  BY EmptySeq
<1>4. InOrder(<< >>, << >>)
  BY <1>3 DEF InOrder
<1>5. Histories /\ Unborn /\ Parcelled
  BY <1>1, <1>2, <1>3, <1>4 DEF Histories, Unborn, Parcelled
<1>6. ASSUME NEW c \in Ctx PROVE Ordered(c)
  BY <1>1, <1>2 DEF Ordered, Told, Busy, Serving
<1>7. QED
  BY <1>5, <1>6 DEF Order

LEMMA NextOrders == ASSUME IInv, Looking, Order, [Next]_vars PROVE Order'
<1>1. CASE UNCHANGED vars
  <2>1. UNCHANGED <<slots, calls, inbox, nextId, asked, answers, wire, phase>>
    BY <1>1 DEF vars, tables, control, handoff, client, sending, outcome, replies
  <2>2. QED
    BY <2>1, OrderSame
<1>2. ASSUME NEW c \in Ctx, Step(c) PROVE Order'
  <2>1. CASE Poll(c) \/ Serve(c) \/ Reap(c)
    BY <2>1, PollOrders, ServeOrders, ReapOrders
  <2>2. CASE ReadingTurn(c) \/ FramingTurn(c)
    BY <2>2, ReadingTurnOrders, FramingTurnOrders
  <2>3. CASE HandlerReturns(c)
    BY <2>3, ReturnOrders, CloseReturnsOrders, FinishRequestOrders DEF HandlerReturns
  <2>4. CASE c \in Worker /\ (Deliver(c) \/ KillSeen(c) \/ TeardownNext(c) \/ FreeTables(c))
    BY <2>4, DeliverOrders, KillSeenOrders, TeardownNextOrders, FreeTablesOrders
  <2>5. CASE JoinReturns
    BY <2>5, JoinReturnsOrders
  <2>6. QED
    BY <1>2, <2>1, <2>2, <2>3, <2>4, <2>5 DEF Step
<1>3. CASE ProgramCall
  <2>1. CASE RunCallbacks
    BY <2>1, RunCallbacksOrders
  <2>2. ASSUME NEW c \in Ctx, Answer(c) \/ Upgrade(c) \/ SocketClose(c) PROVE Order'
    BY <2>2, AnswerOrders, UpgradeOrders, SocketCloseOrders
  <2>3. ASSUME NEW w \in Worker, Message(w) \/ GiveRequest(w) \/ Kill(w) PROVE Order'
    BY <2>3, MessageOrders, GiveRequestOrders, KillOrders
  <2>4. ASSUME NEW w \in Worker, Live(w) PROVE Order'
    <3>1. UNCHANGED <<slots, calls, inbox, nextId, asked, answers, wire, phase>>
      BY <2>4 DEF Live, tables, client, sending, outcome, replies
    <3>2. QED
      BY <3>1, OrderSame
  <2>5. QED
    BY <1>3, <2>1, <2>2, <2>3, <2>4 DEF ProgramCall
<1>4. CASE ClientStep
  <2>1. ASSUME NEW id \in Conn, Hangup(id) PROVE Order'
    <3>1. UNCHANGED <<slots, calls, inbox, nextId, asked, answers, wire, phase>>
      BY <2>1 DEF Hangup, tables, control, handoff, outcome, replies
    <3>2. QED
      BY <3>1, OrderSame
  <2>2. QED
    BY <1>4, <2>1, SendHeadOrders, SendBodyOrders, SendFrameOrders DEF ClientStep
<1>5. QED
  BY <1>1, <1>2, <1>3, <1>4 DEF Next

\* A client reads the answers to its requests in the order it sent them and one for each,
\* although it pipelines, although the handler may answer, be cut short, upgrade or give the
\* request away, and although another thread may write some of the answers.
THEOREM AnswersAreInOrder == ASSUME "closeAgain" \notin Uses PROVE Spec => []AnswersInOrder
<1>1. Init => IInv /\ Looking /\ Order
  BY InitKeeps, InitLooks, InitOrders
<1>2. IInv /\ Looking /\ Order /\ [Next]_vars => (IInv /\ Looking /\ Order)'
  BY NextKeeps, NextLooks, NextOrders
<1>3. Order => AnswersInOrder
  <2>1. ASSUME Order, NEW id \in Conn
        PROVE  Len(answers[id]) <= Len(asked[id]) /\ \A i \in DOMAIN answers[id] : answers[id][i] = asked[id][i].req
    <3>1. answers[id] \in Seq(0..MaxReq) /\ InOrder(asked[id], answers[id])
      BY <2>1 DEF Order, Histories
    <3>2. DOMAIN answers[id] = 1..Len(answers[id])
      BY <3>1, LenProperties
    <3>3. QED
      BY <3>1, <3>2 DEF InOrder
  <2>2. QED
    BY <2>1 DEF AnswersInOrder
<1>4. QED
  BY <1>1, <1>2, <1>3, PTL DEF Spec

(***************************************************************************)
(* The bounds of a context: its slots and what names one.                  *)
(***************************************************************************)

Slotted(t) == \A i \in DOMAIN t : t[i].slot \in 0..MaxConn
Low(st)    == \A i \in DOMAIN st : st[i].slot \in 0..MaxConn

\* No table has more slots than there are connections, and every index entry, tombstones
\* among them, and every call in progress names one of those.
Bounded(c) == DOMAIN slots[c] \subseteq 1..MaxConn /\ Slotted(index[c]) /\ Low(calls[c])
Fitted == \A c \in Ctx : Bounded(c)

\* So many different numbers up to m are m at most.
LEMMA Distinct ==
  ASSUME NEW n \in Nat, NEW m \in Nat, NEW f \in [1..n -> 1..m],
         \A i, j \in 1..n : f[i] = f[j] => i = j
  PROVE  n <= m
<1>1. /\ IsFiniteSet(1..n) /\ Cardinality(1..n) = n
      /\ IsFiniteSet(1..m) /\ Cardinality(1..m) = m
  <2>1. ASSUME NEW k \in Nat PROVE IsFiniteSet(1..k) /\ Cardinality(1..k) = k
    <3>1. IsFiniteSet(1..k) /\ Cardinality(1..k) = IF 1 > k THEN 0 ELSE k - 1 + 1
      BY FS_Interval
    <3>2. (IF 1 > k THEN 0 ELSE k - 1 + 1) = k
      OBVIOUS
    <3>3. QED
      BY <3>1, <3>2
  <2>2. QED
    BY <2>1
<1>2. SUFFICES ASSUME m < n PROVE FALSE
  OBVIOUS
<1>3. \E i, j \in 1..n : i # j /\ f[i] = f[j]
  BY <1>1, <1>2, FS_PigeonHole
<1>4. QED
  BY <1>3

\* A table without a free slot has no more slots than there are connections.
LEMMA FullTable ==
  ASSUME NEW sl, NEW fr, NEW ix, NEW us, Table(sl, fr, ix, us), fr = << >>
  PROVE  DOMAIN sl \subseteq 1..MaxConn
<1> DEFINE f == [s \in DOMAIN sl |-> sl[s].id]
<1>1. /\ DOMAIN sl = 1..Len(sl) /\ Len(sl) \in Nat /\ MaxConn \in Nat
      /\ \A s \in Alive(sl) : sl[s].id \in 1..MaxConn
      /\ \A r, s \in Alive(sl) : sl[r].id = sl[s].id => r = s
  BY TableFacts, ConnFacts DEF Conn
<1>2. DOMAIN sl = Alive(sl)
  <2>1. ToSet(fr) = {}
    BY EmptySeq DEF ToSet
  <2>2. QED
    BY <2>1 DEF Table, Alive
<1>3. /\ f \in [1..Len(sl) -> 1..MaxConn]
      /\ \A i, j \in 1..Len(sl) : f[i] = f[j] => i = j
  BY <1>1, <1>2
<1> HIDE DEF f
<1>4. Len(sl) <= MaxConn
  BY <1>1, <1>3, Distinct
<1>5. QED
  BY <1>1, <1>4

(***************************************************************************)
(* The index's slots.                                                      *)
(***************************************************************************)

LEMMA InsertSlotted ==
  ASSUME NEW t, NEW id, NEW s \in 0..MaxConn, Slotted(t) PROVE Slotted(InsertRaw(t, id, s))
<1>1. \E i : InsertRaw(t, id, s) = [t EXCEPT ![i] = [id |-> id, slot |-> s]]
  BY DEF InsertRaw
<1>2. PICK i : InsertRaw(t, id, s) = [t EXCEPT ![i] = [id |-> id, slot |-> s]]
  BY <1>1
<1> DEFINE u == [t EXCEPT ![i] = [id |-> id, slot |-> s]]
<1>3. DOMAIN u = DOMAIN t /\ \A j \in DOMAIN t : u[j].slot = IF j = i THEN s ELSE t[j].slot
  OBVIOUS
<1> HIDE DEF u
<1>4. Slotted(u)
  BY <1>3 DEF Slotted
<1>5. QED
  BY <1>2, <1>4 DEF u

LEMMA RemoveSlotted ==
  ASSUME NEW t, NEW id, Slotted(t), \A i \in DOMAIN t : t[i] \in Entry
  PROVE  Slotted(IndexRemove(t, id))
<1> DEFINE u == IndexRemove(t, id)
<1>1. DOMAIN u = DOMAIN t /\ \A i \in DOMAIN t : u[i] = t[i] \/ u[i] = [t[i] EXCEPT !.id = Tombstone]
  BY DEF IndexRemove
<1>2. \A i \in DOMAIN t : [t[i] EXCEPT !.id = Tombstone].slot = t[i].slot
  BY DEF Entry
<1> HIDE DEF u
<1>3. \A i \in DOMAIN u : u[i].slot = t[i].slot
  BY <1>1, <1>2
<1>4. QED
  BY <1>1, <1>3 DEF Slotted, u

LEMMA GrownSlotted == ASSUME NEW n, NEW t, IsTable(t, n), Slotted(t) PROVE Slotted(Grown(t))
<1>1. n \in Nat /\ Cap(t) = n /\ DOMAIN t = 0..n-1
  BY TableCap DEF IsTable
<1>2. PICK f : (\A i \in 0..n : f[i] = Rebuilt(t, f, i)) /\ Grown(t) = f[n]
  BY <1>1, RebuildDefined
<1> DEFINE S == {k \in 0..n : Slotted(f[k])}
<1>3. 0 \in S
  <2>1. f[0] = EmptyTable(NewSize(t))
    BY <1>1, <1>2 DEF Rebuilt
  <2>2. Slotted(EmptyTable(NewSize(t)))
    BY ConnFacts DEF Slotted, EmptyTable
  <2>3. QED
    BY <1>1, <2>1, <2>2
<1>4. ASSUME NEW k \in 0..n-1, k \in S PROVE k + 1 \in S
  <2>1. k + 1 \in 0..n /\ k + 1 # 0 /\ (k + 1) - 1 = k /\ k \in DOMAIN t /\ Slotted(f[k])
    BY <1>1, <1>4
  <2>2. f[k + 1] = IF t[k].id >= 0 THEN InsertRaw(f[k], t[k].id, t[k].slot) ELSE f[k]
    BY <1>2, <2>1 DEF Rebuilt
  <2>3. t[k].slot \in 0..MaxConn
    BY <2>1 DEF Slotted
  <2>4. Slotted(f[k + 1])
    BY <2>1, <2>2, <2>3, InsertSlotted
  <2>5. QED
    BY <2>1, <2>4
<1> HIDE DEF S
<1>5. n \in S
  BY <1>1, <1>3, <1>4, InductionTo
<1>6. QED
  BY <1>2, <1>5 DEF S

(***************************************************************************)
(* What a step does to one context.                                        *)
(***************************************************************************)

LEMMA FittedStep ==
  ASSUME Fitted, NEW c \in Ctx, Bounded(c)',
         \A d \in Ctx \ {c} : slots'[d] = slots[d] /\ index'[d] = index[d] /\ calls'[d] = calls[d]
  PROVE  Fitted'
BY DEF Fitted, Bounded

LEMMA FittedSame == ASSUME Fitted, UNCHANGED <<slots, index, calls>> PROVE Fitted'
BY DEF Fitted, Bounded

\* Records change, no slot comes or goes.
LEMMA FittedCalls ==
  ASSUME IInv, Fitted, NEW c \in Ctx, \A d \in Ctx : DOMAIN slots'[d] = DOMAIN slots[d], UNCHANGED index,
         NEW st, calls' = [calls EXCEPT ![c] = st], Low(st)
  PROVE  Fitted'
<1>1. calls'[c] = st /\ \A d \in Ctx \ {c} : calls'[d] = calls[d]
  BY DEF IInv, Types
<1>2. \A d \in Ctx : Bounded(d)'
  BY <1>1 DEF Fitted, Bounded
<1>3. QED
  BY <1>2 DEF Fitted

LEMMA LowPush ==
  ASSUME NEW st \in Seq(Frame), Low(st), NEW f \in Frame, f.slot \in 0..MaxConn
  PROVE  Low(Append(st, f))
BY PushSeq DEF Pushed, Low

LEMMA LowUnder ==
  ASSUME IInv, Order, Fitted, NEW c \in Ctx
  PROVE  /\ Low(calls[c]) /\ Low(<< >>) /\ \A f : f.slot \in 0..MaxConn => Low(<<f>>)
         /\ ~ Idle(c) => Low(Beneath(c)) /\ Top(c).slot \in 0..MaxConn
<1>1. Low(calls[c])
  BY DEF Fitted, Bounded
<1>2. Low(<< >>) /\ \A f : f.slot \in 0..MaxConn => Low(<<f>>)
  BY DEF Low
<1>3. ASSUME ~ Idle(c) PROVE Low(Beneath(c)) /\ Top(c).slot \in 0..MaxConn
  <2>1. Popped(calls[c], Beneath(c), Top(c))
    BY <1>3, OrderUnder
  <2>2. QED
    BY <1>1, <2>1 DEF Popped, Low
<1>4. QED
  BY <1>1, <1>2, <1>3

\* A slot leaves the index.
LEMMA FittedVacate ==
  ASSUME IInv, Fitted, NEW c \in Ctx, NEW s \in Alive(slots[c]),
         NEW left \in Record, ~ left.alive, ~ left.upgraded, Vacate(c, s, left),
         NEW st, calls'[c] = st, Low(st), \A d \in Ctx \ {c} : calls'[d] = calls[d]
  PROVE  Fitted'
<1>1. Domains /\ Tabled(c)
  BY DEF IInv, Core, Contexts, Types
<1>2. Others(c) /\ Changed(slots[c], slots'[c], s, left)
  BY <1>1, VacateStep
<1>3. DOMAIN slots'[c] \subseteq 1..MaxConn
  BY <1>2 DEF Changed, Fitted, Bounded
<1>4. index'[c] = IndexRemove(index[c], slots[c][s].id)
  BY <1>1 DEF Vacate, Domains
<1>5. Slotted(index'[c])
  <2>1. \A i \in DOMAIN index[c] : index[c][i] \in Entry
    BY <1>1 DEF Tabled, Table, Index, IsTable
  <2>2. QED
    BY <1>4, <2>1, RemoveSlotted DEF Fitted, Bounded
<1>6. Bounded(c)'
  BY <1>3, <1>5 DEF Bounded
<1>7. QED
  BY <1>2, <1>6, FittedStep DEF Others

LEMMA FittedDispose ==
  ASSUME IInv, Fitted, NEW c \in Ctx, NEW s \in Alive(slots[c]), Dispose(c, s),
         NEW st, calls' = [calls EXCEPT ![c] = st], Low(st)
  PROVE  Fitted'
<1> DEFINE id == slots[c][s].id
<1> DEFINE left == [Blank EXCEPT !.id = id]
<1>1. Contexts
  BY DEF IInv, Core
<1>2. id \in Conn
  BY <1>1, IdsInConn
<1>3. Vacate(c, s, left)
  BY DEF Dispose
<1>4. left \in Record /\ ~ left.alive /\ ~ left.upgraded
  BY <1>2, BlankFacts, ConnFacts DEF Blank
<1> HIDE DEF left
<1>5. calls'[c] = st /\ \A d \in Ctx \ {c} : calls'[d] = calls[d]
  BY DEF IInv, Types
<1>6. QED
  BY <1>3, <1>4, <1>5, FittedVacate

LEMMA ClosingFrame ==
  ASSUME IInv, NEW c \in Ctx, NEW s \in Alive(slots[c])
  PROVE  /\ [Handler("closing", slots[c][s].id) EXCEPT !.slot = s] \in Frame
         /\ [Handler("closing", slots[c][s].id) EXCEPT !.slot = s].at = "closing"
<1>1. Contexts /\ Tabled(c)
  BY DEF IInv, Core, Contexts
<1>2. s \in Nat /\ slots[c][s].id \in 0..MaxConn
  BY <1>1, TableFacts, IdsInConn, ConnFacts DEF Tabled
<1>3. 0 \in 0..MaxReq
  BY ConnAssumption
<1>4. QED
  BY <1>2, <1>3, CtxFacts DEF Frame, Handler, Doing, UserCode

LEMMA FittedTeardown ==
  ASSUME IInv, Fitted, NEW c \in Ctx, NEW s \in Alive(slots[c]), NEW rest \in Seq(Frame), Low(rest),
         Teardown(c, s, rest)
  PROVE  Fitted'
<1>1. CASE slots[c][s].upgraded
  <2> DEFINE f == [Handler("closing", slots[c][s].id) EXCEPT !.slot = s]
  <2>1. calls' = [calls EXCEPT ![c] = Append(rest, f)] /\ UNCHANGED <<slots, index>>
    BY <1>1 DEF Teardown, RunsCloseHandler, tables
  <2>2. f \in Frame /\ f.slot = s
    BY ClosingFrame DEF Handler, Doing
  <2>3. s \in 0..MaxConn
    BY ConnFacts DEF Alive, Fitted, Bounded
  <2> HIDE DEF f
  <2>4. Low(Append(rest, f))
    BY <2>2, <2>3, LowPush
  <2>5. QED
    BY <2>1, <2>4, FittedCalls
<1>2. CASE ~ slots[c][s].upgraded
  <2>1. calls' = [calls EXCEPT ![c] = rest] /\ Dispose(c, s)
    BY <1>2 DEF Teardown, RunsCloseHandler
  <2>2. QED
    BY <2>1, FittedDispose
<1>3. QED
  BY <1>1, <1>2

\* A connection gets a slot: one of the free list, or one more, if all others are taken.
LEMMA FittedInstall ==
  ASSUME IInv, Fitted, NEW c \in Ctx, NEW conn \in Record, conn.alive, conn.id \in Conn,
         conn.id \notin IdsOf(slots[c]), conn.upgraded => conn.mode = "ws", Install(c, conn),
         NEW st, calls'[c] = st, Low(st), \A d \in Ctx \ {c} : calls'[d] = calls[d]
  PROVE  Fitted'
<1> DEFINE s == SlotFor(c)
<1>1. Domains /\ Tabled(c)
  BY DEF IInv, Core, Contexts, Types
<1>2. Others(c) /\ Added(slots[c], slots'[c], s, conn) /\ Tabled(c)'
  BY <1>1, InstallStep
<1>3. DOMAIN slots'[c] \subseteq 1..MaxConn
  <2>1. CASE free[c] = << >>
    <3>1. free'[c] = << >>
      BY <1>1, <2>1 DEF Install, Domains
    <3>2. Table(slots'[c], free'[c], index'[c], used'[c])
      BY <1>2 DEF Tabled
    <3>3. QED
      BY <3>1, <3>2, FullTable
  <2>2. CASE free[c] # << >>
    <3>1. s = Last(free[c]) /\ free[c] \in Seq(Nat) /\ ToSet(free[c]) \subseteq DOMAIN slots[c]
      BY <1>1, <2>2 DEF SlotFor, Tabled, Table
    <3>2. Len(free[c]) \in DOMAIN free[c]
      BY <2>2, <3>1, LenProperties, EmptySeq
    <3>3. s \in DOMAIN slots[c]
      BY <3>1, <3>2 DEF Last, ToSet
    <3> HIDE DEF s
    <3>4. DOMAIN slots'[c] = DOMAIN slots[c]
      BY <1>2, <3>3 DEF Added
    <3>5. QED
      BY <3>4 DEF Fitted, Bounded
  <2>3. QED
    BY <2>1, <2>2
<1> DEFINE table == IF MustGrow(index[c], used[c]) THEN Grown(index[c]) ELSE index[c]
<1>4. index'[c] = InsertRaw(table, conn.id, s)
  BY <1>1 DEF Install, Domains
<1>5. s \in 0..MaxConn
  <2>1. s \in DOMAIN slots'[c]
    BY <1>2 DEF Added
  <2>2. QED
    BY <1>3, <2>1, ConnFacts
<1>6. Slotted(table)
  <2>1. PICK n \in Nat : IsTable(index[c], n)
    BY <1>1 DEF Tabled, Table, Index
  <2>2. Slotted(index[c])
    BY DEF Fitted, Bounded
  <2>3. QED
    BY <2>1, <2>2, GrownSlotted
<1> HIDE DEF s, table
<1>7. Slotted(index'[c])
  BY <1>4, <1>5, <1>6, InsertSlotted
<1>8. Bounded(c)'
  BY <1>3, <1>7 DEF Bounded
<1>9. QED
  BY <1>2, <1>8, FittedStep DEF Others

(***************************************************************************)
(* The actions.                                                            *)
(***************************************************************************)

LEMMA PollFits == ASSUME IInv, Order, Fitted, NEW c \in Ctx, Poll(c) PROVE Fitted'
<1>1. UNCHANGED calls
  BY DEF Poll
<1>2. CASE UNCHANGED tables
  BY <1>1, <1>2, FittedSame DEF tables
<1>3. CASE nextId <= MaxConn /\ Install(c, Fresh(nextId))
  <2>1. Types /\ Core
    BY OrderUnder
  <2>2. nextId \in Conn /\ ~ (nextId < nextId)
    BY <1>3, <2>1, ConnFacts DEF Types, Conn
  <2>3. nextId \notin IdsOf(slots[c])
    BY <2>1, <2>2 DEF Core, Owners, OwnedOnce, InTable
  <2> DEFINE conn == Fresh(nextId)
  <2>4. conn \in Record /\ conn.alive /\ conn.id = nextId /\ ~ conn.upgraded /\ Install(c, conn)
    BY <1>3, <2>2, FreshFacts
  <2> HIDE DEF conn
  <2>5. Low(calls[c]) /\ calls'[c] = calls[c] /\ \A d \in Ctx \ {c} : calls'[d] = calls[d]
    BY <1>1, LowUnder
  <2>6. QED
    BY <2>2, <2>3, <2>4, <2>5, FittedInstall
<1>4. QED
  BY <1>2, <1>3 DEF Poll, tables

LEMMA ServeFits == ASSUME IInv, Order, Fitted, NEW c \in Ctx, Serve(c) PROVE Fitted'
<1> DEFINE id == Head(ready[c])
<1> DEFINE s == ById(c, id)
<1> DEFINE f == [Doing(IF slots[c][s].mode = "http" THEN "reading" ELSE "framing") EXCEPT !.slot = s]
<1>1. /\ Types /\ Domains /\ Tabled(c) /\ << >> \in Seq(Frame)
      /\ Low(<< >>) /\ \A g : g.slot \in 0..MaxConn => Low(<<g>>)
  BY OrderUnder, LowUnder, EmptySeq
<1>2. s # 0 => s \in Alive(slots[c])
  <2>1. id \in Conn
    BY <1>1, HeadTailProperties DEF Types, Serve
  <2>2. id \in 0..MaxConn
    BY <2>1, ConnFacts
  <2>3. QED
    BY <1>1, <2>2, ByIdFacts
<1>3. \/ UNCHANGED <<tables, calls>>
      \/ s # 0 /\ Teardown(c, s, << >>)
      \/ /\ s # 0 /\ slots' = [slots EXCEPT ![c][s].buf = @ \o wire[id]]
         /\ calls' = [calls EXCEPT ![c] = <<f>>] /\ UNCHANGED index
  BY DEF Serve
<1>4. f.slot = s
  BY DEF Doing
<1> HIDE DEF s, f
<1>5. CASE UNCHANGED <<tables, calls>>
  BY <1>5, FittedSame DEF tables
<1>6. CASE s # 0 /\ Teardown(c, s, << >>)
  BY <1>1, <1>2, <1>6, FittedTeardown
<1>7. CASE /\ s # 0 /\ slots' = [slots EXCEPT ![c][s].buf = @ \o wire[id]]
           /\ calls' = [calls EXCEPT ![c] = <<f>>] /\ UNCHANGED index
  <2>1. \A d \in Ctx : DOMAIN slots'[d] = DOMAIN slots[d]
    BY <1>1, <1>7 DEF Domains
  <2>2. f.slot \in 0..MaxConn
    BY <1>2, <1>4, <1>7, ConnFacts DEF Alive, Fitted, Bounded
  <2>3. Low(<<f>>)
    BY <1>1, <2>2
  <2>4. QED
    BY <1>7, <2>1, <2>3, FittedCalls
<1>8. QED
  BY <1>3, <1>5, <1>6, <1>7

\* A connection of an idle context is torn down.
LEMMA FittedIdle ==
  ASSUME IInv, Order, Fitted, NEW c \in Ctx, NEW s \in LiveSlots(c), Teardown(c, s, << >>) PROVE Fitted'
<1>1. s \in Alive(slots[c]) /\ << >> \in Seq(Frame) /\ Low(<< >>)
  BY LowUnder, EmptySeq DEF LiveSlots, Alive
<1>2. QED
  BY <1>1, FittedTeardown

LEMMA ReapFits == ASSUME IInv, Order, Fitted, NEW c \in Ctx, Reap(c) PROVE Fitted'
BY FittedIdle, FittedSame DEF Reap, tables

LEMMA TeardownNextFits == ASSUME IInv, Order, Fitted, NEW w \in Worker, TeardownNext(w) PROVE Fitted'
BY FittedIdle, CtxFacts DEF TeardownNext

LEMMA FreeTablesFits == ASSUME IInv, Order, Fitted, NEW w \in Worker, FreeTables(w) PROVE Fitted'
<1>1. /\ w \in Ctx /\ Domains /\ slots' = [slots EXCEPT ![w] = << >>]
      /\ index' = [index EXCEPT ![w] = EmptyTable(0)] /\ UNCHANGED calls
  BY CtxFacts DEF FreeTables, IInv, Types
<1>2. /\ slots'[w] = << >> /\ index'[w] = EmptyTable(0)
      /\ \A d \in Ctx \ {w} : slots'[d] = slots[d] /\ index'[d] = index[d] /\ calls'[d] = calls[d]
  BY <1>1 DEF Domains
<1>3. DOMAIN << >> = {} /\ DOMAIN EmptyTable(0) = {}
  BY DEF EmptyTable
<1>4. Low(calls'[w])
  BY <1>1, LowUnder
<1>5. Bounded(w)'
  BY <1>2, <1>3, <1>4 DEF Bounded, Slotted
<1>6. QED
  BY <1>1, <1>2, <1>5, FittedStep

LEMMA ReadingTurnFits == ASSUME IInv, Looking, Order, Fitted, NEW c \in Ctx, ReadingTurn(c) PROVE Fitted'
<1> DEFINE s == ById(c, slots[c][Top(c).slot].id)
<1> DEFINE f == Request(slots[c][s].id, slots[c][s].buf[1].req)
<1> DEFINE found == IF (IF s = 0 THEN FALSE ELSE slots[c][s].mode = "http") THEN Parsed(slots[c][s].buf) ELSE "nothing"
<1>1. /\ ~ Idle(c) /\ Top(c).at = "reading"
      /\ \/ calls' = [calls EXCEPT ![c] = Beneath(c)] /\ UNCHANGED tables
         \/ s # 0 /\ Teardown(c, s, Beneath(c))
         \/ /\ s # 0 /\ Parsed(slots[c][s].buf) = "request"
            /\ calls' = [calls EXCEPT ![c] = Append(calls[c], f)] /\ UNCHANGED tables
  BY DEF ReadingTurn, InCode, Dispatch
<1>2. s # 0 => s \in Alive(slots[c]) /\ slots[c][s] \in Record /\ slots[c][s].id \in Conn
  BY <1>1, SameSlot
<1>3. f.slot = 0
  BY DEF Request, Handler, Doing
<1>4. s # 0 /\ Parsed(slots[c][s].buf) = "request" => f \in Frame
  BY <1>2, RecordFacts, ParsedFacts, CallFacts, ConnFacts
<1> HIDE DEF s, f
<1>5. Low(calls[c]) /\ Low(Beneath(c)) /\ calls[c] \in Seq(Frame) /\ Beneath(c) \in Seq(Frame)
  BY <1>1, OrderUnder, LowUnder
<1>6. CASE calls' = [calls EXCEPT ![c] = Beneath(c)] /\ UNCHANGED tables
  BY <1>5, <1>6, FittedCalls DEF tables
<1>7. CASE s # 0 /\ Teardown(c, s, Beneath(c))
  BY <1>2, <1>5, <1>7, FittedTeardown
<1>8. CASE /\ s # 0 /\ Parsed(slots[c][s].buf) = "request"
           /\ calls' = [calls EXCEPT ![c] = Append(calls[c], f)] /\ UNCHANGED tables
  <2>1. f \in Frame /\ f.slot \in 0..MaxConn
    BY <1>3, <1>4, <1>8, ConnFacts
  <2>2. Low(Append(calls[c], f))
    BY <1>5, <2>1, LowPush
  <2>3. QED
    BY <1>8, <2>2, FittedCalls DEF tables
<1>9. QED
  BY <1>1, <1>6, <1>7, <1>8

LEMMA FramingTurnFits == ASSUME IInv, Looking, Order, Fitted, NEW c \in Ctx, FramingTurn(c) PROVE Fitted'
<1> DEFINE s == ById(c, slots[c][Top(c).slot].id)
<1> DEFINE f == Handler("message", slots[c][s].id)
<1>1. /\ ~ Idle(c) /\ Top(c).at = "framing"
      /\ \/ calls' = [calls EXCEPT ![c] = Beneath(c)] /\ UNCHANGED tables
         \/ s # 0 /\ Teardown(c, s, calls[c])
         \/ /\ s # 0 /\ slots' = [slots EXCEPT ![c][s].buf = Tail(@)]
            /\ calls' = [calls EXCEPT ![c] = Append(calls[c], f)] /\ UNCHANGED index
  BY DEF FramingTurn, InCode
<1>2. s # 0 => s \in Alive(slots[c]) /\ slots[c][s].id \in Conn
  BY <1>1, SameSlot
<1>3. f.slot = 0
  BY DEF Handler, Doing
<1>4. s # 0 => f \in Frame
  BY <1>2, CallFacts, ConnFacts DEF UserCode
<1> HIDE DEF s, f
<1>5. Low(calls[c]) /\ Low(Beneath(c)) /\ calls[c] \in Seq(Frame) /\ Domains
  BY <1>1, OrderUnder, LowUnder
<1>6. CASE calls' = [calls EXCEPT ![c] = Beneath(c)] /\ UNCHANGED tables
  BY <1>5, <1>6, FittedCalls DEF tables
<1>7. CASE s # 0 /\ Teardown(c, s, calls[c])
  BY <1>2, <1>5, <1>7, FittedTeardown
<1>8. CASE /\ s # 0 /\ slots' = [slots EXCEPT ![c][s].buf = Tail(@)]
           /\ calls' = [calls EXCEPT ![c] = Append(calls[c], f)] /\ UNCHANGED index
  <2>1. f \in Frame /\ f.slot \in 0..MaxConn
    BY <1>3, <1>4, <1>8, ConnFacts
  <2>2. Low(Append(calls[c], f))
    BY <1>5, <2>1, LowPush
  <2>3. \A d \in Ctx : DOMAIN slots'[d] = DOMAIN slots[d]
    BY <1>5, <1>8 DEF Domains
  <2>4. QED
    BY <1>8, <2>2, <2>3, FittedCalls
<1>9. QED
  BY <1>1, <1>6, <1>7, <1>8

\* User code answers a request or turns it into a WebSocket.
LEMMA RespondFits == ASSUME IInv, Order, Fitted, NEW c \in Ctx, Answer(c) \/ Upgrade(c) PROVE Fitted'
<1>1. Domains
  BY OrderUnder
<1>2. UNCHANGED <<index, calls>> /\ \E s, conn : slots' = [slots EXCEPT ![c][s] = conn]
  BY DEF Answer, Upgrade, control
<1>3. \A d \in Ctx : DOMAIN slots'[d] = DOMAIN slots[d]
  BY <1>1, <1>2 DEF Domains
<1>4. QED
  BY <1>2, <1>3 DEF Fitted, Bounded

LEMMA SocketCloseFits == ASSUME IInv, Order, Fitted, NEW c \in Ctx, SocketClose(c) PROVE Fitted'
<1>1. PICK s \in LiveSlots(c) : Teardown(c, s, calls[c])
  BY DEF SocketClose
<1>2. s \in Alive(slots[c]) /\ calls[c] \in Seq(Frame) /\ Low(calls[c])
  BY OrderUnder, LowUnder DEF LiveSlots, Alive
<1>3. QED
  BY <1>1, <1>2, FittedTeardown

LEMMA CloseReturnsFits == ASSUME IInv, Order, Fitted, NEW c \in Ctx, CloseReturns(c) PROVE Fitted'
<1>1. /\ ~ Idle(c) /\ Top(c).at = "closing" /\ calls' = [calls EXCEPT ![c] = Beneath(c)] /\ Dispose(c, Top(c).slot)
  BY DEF CloseReturns, InCode
<1>2. Stack(calls[c], slots[c]) /\ Popped(calls[c], Beneath(c), Top(c)) /\ Low(Beneath(c))
  BY <1>1, OrderUnder, LowUnder DEF Contexts
<1>3. Top(c).slot \in Alive(slots[c])
  BY <1>1, <1>2 DEF Stack, ClosingFrames, Popped
<1>4. QED
  BY <1>1, <1>2, <1>3, FittedDispose

LEMMA FinishRequestFits == ASSUME IInv, Order, Fitted, NEW c \in Ctx, FinishRequest(c) PROVE Fitted'
<1> DEFINE id == Top(c).id
<1> DEFINE s == ById(c, id)
<1> DEFINE f == Handler("upgrade", id)
<1>1. /\ ~ Idle(c)
      /\ \/ calls' = [calls EXCEPT ![c] = Beneath(c)] /\ UNCHANGED tables
         \/ /\ slots' = [slots EXCEPT ![c][s].upgraded = TRUE]
            /\ calls' = [calls EXCEPT ![c] = Append(Beneath(c), f)] /\ UNCHANGED index
         \/ s # 0 /\ Teardown(c, s, Beneath(c))
         \/ /\ slots' = [slots EXCEPT ![c][s].buf = SubSeq(@, 3, Len(@)), ![c][s].responded = FALSE]
            /\ calls' = [calls EXCEPT ![c] = Beneath(c)] /\ UNCHANGED index
  BY DEF FinishRequest, InCode
<1>2. /\ s # 0 => s \in Alive(slots[c])
      /\ Domains /\ Low(Beneath(c)) /\ Beneath(c) \in Seq(Frame)
  BY <1>1, HandlerConn, OrderUnder, LowUnder
<1>3. f \in Frame /\ f.slot \in 0..MaxConn
  <2>1. id \in 0..MaxConn
    BY <1>1, TopFacts, OrderUnder
  <2>2. f.slot = 0
    BY DEF Handler, Doing
  <2>3. QED
    BY <2>1, <2>2, CallFacts, ConnFacts DEF UserCode
<1> HIDE DEF s, f, id
<1>4. CASE calls' = [calls EXCEPT ![c] = Beneath(c)] /\ UNCHANGED tables
  BY <1>2, <1>4, FittedCalls DEF tables
<1>5. CASE /\ slots' = [slots EXCEPT ![c][s].upgraded = TRUE]
           /\ calls' = [calls EXCEPT ![c] = Append(Beneath(c), f)] /\ UNCHANGED index
  <2>1. Low(Append(Beneath(c), f))
    BY <1>2, <1>3, LowPush
  <2>2. \A d \in Ctx : DOMAIN slots'[d] = DOMAIN slots[d]
    BY <1>2, <1>5 DEF Domains
  <2>3. QED
    BY <1>5, <2>1, <2>2, FittedCalls
<1>6. CASE s # 0 /\ Teardown(c, s, Beneath(c))
  BY <1>2, <1>6, FittedTeardown
<1>7. CASE /\ slots' = [slots EXCEPT ![c][s].buf = SubSeq(@, 3, Len(@)), ![c][s].responded = FALSE]
           /\ calls' = [calls EXCEPT ![c] = Beneath(c)] /\ UNCHANGED index
  <2>1. \A d \in Ctx : DOMAIN slots'[d] = DOMAIN slots[d]
    BY <1>2, <1>7 DEF Domains
  <2>2. QED
    BY <1>2, <1>7, <2>1, FittedCalls
<1>8. QED
  BY <1>1, <1>4, <1>5, <1>6, <1>7

LEMMA GiveRequestFits == ASSUME IInv, Order, Fitted, NEW w \in Worker, GiveRequest(w) PROVE Fitted'
<1> DEFINE s == ById(Main, Top(Main).id)
<1>1. /\ Main \in Ctx /\ Domains /\ Types /\ Core /\ Low(calls[Main])
      /\ ~ Idle(Main) /\ s # 0 /\ Vacate(Main, s, Blank) /\ UNCHANGED calls
  BY CtxFacts, OrderUnder, LowUnder DEF GiveRequest, InCode, Answerable, control
<1>2. s \in Alive(slots[Main]) /\ slots[Main][s].id \in Conn
  BY <1>1, HandlerConn
<1>3. Blank \in Record /\ ~ Blank.alive /\ ~ Blank.upgraded
  BY <1>2, BlankFacts, ConnFacts DEF Blank
<1> HIDE DEF s
<1>4. QED
  BY <1>1, <1>2, <1>3, FittedVacate

LEMMA DeliverFits == ASSUME IInv, Order, Fitted, NEW w \in Worker, Deliver(w) PROVE Fitted'
<1> DEFINE p == Head(inbox[w])
<1>1. /\ w \in Ctx /\ inbox[w] # << >> /\ Install(w, p.conn) /\ calls' = [calls EXCEPT ![w] = <<Given(p)>>]
      /\ Given(p).slot = 0 /\ 0 \in 0..MaxConn
  BY CtxFacts, ConnFacts DEF Deliver, Given, Request, Handler, Doing
<1>2. Types /\ Core /\ inbox[w] \in Seq(Parcel) /\ DOMAIN calls = Ctx
  BY <1>1, OrderUnder DEF Types
<1>3. p = inbox[w][1] /\ 1 \in DOMAIN inbox[w] /\ p \in Parcel
  BY <1>1, <1>2, HeadTailProperties, LenProperties, EmptySeq
<1>4. p.conn \in Record /\ p.conn.alive /\ p.conn.id \in Conn /\ ~ p.conn.upgraded
  BY <1>2, <1>3 DEF Core, Queued, Parcel
<1>5. p.conn.id \notin IdsOf(slots[w])
  <2>1. InQueue(p.conn.id, w)
    BY <1>3 DEF InQueue, QueuedConns
  <2>2. QED
    BY <1>1, <1>2, <1>4, <2>1 DEF Core, Owners, OwnedOnce, InTable
<1>6. calls'[w] = <<Given(p)>> /\ Low(<<Given(p)>>) /\ \A d \in Ctx \ {w} : calls'[d] = calls[d]
  BY <1>1, <1>2, LowUnder
<1> HIDE DEF p
<1> DEFINE conn == p.conn
<1>7. conn \in Record /\ conn.alive /\ conn.id \in Conn /\ ~ conn.upgraded
      /\ conn.id \notin IdsOf(slots[w]) /\ Install(w, conn)
  BY <1>1, <1>4, <1>5
<1> HIDE DEF conn
<1>8. QED
  BY <1>1, <1>6, <1>7, FittedInstall

\* The actions that only push or pop a call.
LEMMA OwnCallsFit ==
  ASSUME IInv, Order, Fitted, NEW c \in Ctx, Return(c) \/ RunCallbacks \/ JoinReturns PROVE Fitted'
<1>1. /\ Main \in Ctx /\ \A d \in Ctx : ~ Idle(d) => Low(Beneath(d))
      /\ Low(<<Doing("callback")>>)
  BY CtxFacts, LowUnder, ConnFacts DEF Doing
<1>2. \E d \in Ctx : \E st : Low(st) /\ calls' = [calls EXCEPT ![d] = st]
  BY <1>1, CallbackFrame DEF Return, RunCallbacks, JoinReturns, InCode
<1>3. UNCHANGED <<slots, index>>
  BY DEF Return, RunCallbacks, JoinReturns, tables
<1>4. QED
  BY <1>2, <1>3, FittedCalls

LEMMA ThreadCallsFit ==
  ASSUME IInv, Order, Fitted, NEW w \in Worker, Message(w) \/ KillSeen(w) \/ Kill(w) PROVE Fitted'
<1> DEFINE f == [Doing("join") EXCEPT !.thread = w]
<1>1. /\ Main \in Ctx /\ w \in Ctx /\ Low(<< >>) /\ Low(<<Doing("callback")>>)
  BY CtxFacts, LowUnder, ConnFacts DEF Doing
<1>2. f \in Frame /\ f.slot \in 0..MaxConn
  <2>1. f.slot = 0
    BY DEF Doing
  <2>2. QED
    BY <1>1, <2>1, CallFacts, ConnFacts DEF Frame
<1>3. Low(Append(calls[Main], f))
  <2> HIDE DEF f
  <2>1. calls[Main] \in Seq(Frame) /\ Low(calls[Main])
    BY <1>1, OrderUnder, LowUnder
  <2>2. QED
    BY <1>2, <2>1, LowPush
<1>4. \E d \in Ctx : \E st : Low(st) /\ calls' = [calls EXCEPT ![d] = st]
  BY <1>1, <1>3, CallbackFrame DEF Message, KillSeen, Kill
<1>5. UNCHANGED <<slots, index>>
  BY DEF Message, KillSeen, Kill, tables
<1>6. QED
  BY <1>4, <1>5, FittedCalls

LEMMA NextFits == ASSUME IInv, Looking, Order, Fitted, [Next]_vars PROVE Fitted'
<1>1. CASE UNCHANGED vars \/ ClientStep
  <2>1. UNCHANGED <<slots, index, calls>>
    BY <1>1 DEF vars, tables, control, ClientStep, SendHead, SendBody, SendFrame, Hangup
  <2>2. QED
    BY <2>1, FittedSame
<1>2. ASSUME NEW c \in Ctx, Step(c) PROVE Fitted'
  <2>1. CASE Poll(c) \/ Serve(c) \/ Reap(c)
    BY <2>1, PollFits, ServeFits, ReapFits
  <2>2. CASE ReadingTurn(c) \/ FramingTurn(c)
    BY <2>2, ReadingTurnFits, FramingTurnFits
  <2>3. CASE CloseReturns(c) \/ FinishRequest(c)
    BY <2>3, CloseReturnsFits, FinishRequestFits
  <2>4. CASE c \in Worker /\ (Deliver(c) \/ TeardownNext(c) \/ FreeTables(c))
    BY <2>4, DeliverFits, TeardownNextFits, FreeTablesFits
  <2>5. CASE c \in Worker /\ KillSeen(c)
    BY <2>5, ThreadCallsFit
  <2>6. CASE Return(c)
    BY <2>6, OwnCallsFit
  <2>7. CASE c = Main /\ JoinReturns
    BY <2>7, CtxFacts, OwnCallsFit
  <2>8. QED
    BY <1>2, <2>1, <2>2, <2>3, <2>4, <2>5, <2>6, <2>7 DEF Step, HandlerReturns
<1>3. CASE ProgramCall
  <2>1. CASE RunCallbacks
    BY <2>1, CtxFacts, OwnCallsFit
  <2>2. ASSUME NEW c \in Ctx, Answer(c) \/ Upgrade(c) \/ SocketClose(c) PROVE Fitted'
    BY <2>2, RespondFits, SocketCloseFits
  <2>3. ASSUME NEW w \in Worker, Message(w) \/ Kill(w) PROVE Fitted'
    BY <2>3, ThreadCallsFit
  <2>4. ASSUME NEW w \in Worker, GiveRequest(w) PROVE Fitted'
    BY <2>4, GiveRequestFits
  <2>5. ASSUME NEW w \in Worker, Live(w) PROVE Fitted'
    BY <2>5, FittedSame DEF Live, tables
  <2>6. QED
    BY <1>3, <2>1, <2>2, <2>3, <2>4, <2>5 DEF ProgramCall
<1>4. QED
  BY <1>1, <1>2, <1>3 DEF Next

\* A family with one member for each context; its members change one at a time.
Family(x) == x = [c \in Ctx |-> x[c]]
Families == Family(slots) /\ Family(free) /\ Family(index) /\ Family(used) /\ Family(calls)

LEMMA FamilyStep == ASSUME NEW x, Family(x), NEW c, NEW e PROVE Family([x EXCEPT ![c] = e])
BY DEF Family

LEMMA CallsFamily ==
  ASSUME Families, NEW c, NEW st, calls' = [calls EXCEPT ![c] = st] PROVE Family(calls')
BY DEF Families, Family

LEMMA CallsFamilies ==
  ASSUME Families, UNCHANGED tables, NEW c, NEW st, calls' = [calls EXCEPT ![c] = st] PROVE Families'
BY CallsFamily DEF Families, tables

LEMMA SlotFamilies ==
  ASSUME Families, UNCHANGED <<free, index, used>>, Family(calls'),
         NEW c, NEW s, NEW k, slots' = [slots EXCEPT ![c][s] = k]
  PROVE  Families'
<1>1. Family(slots')
  BY DEF Families, Family
<1>2. QED
  BY <1>1 DEF Families

LEMMA InstallFamilies ==
  ASSUME Families, NEW c, NEW conn, Install(c, conn)
  PROVE  Family(slots') /\ Family(free') /\ Family(index') /\ Family(used')
BY FamilyStep DEF Families, Install

LEMMA VacateFamilies ==
  ASSUME Families, NEW c, NEW s, NEW left, Vacate(c, s, left)
  PROVE  Family(slots') /\ Family(free') /\ Family(index') /\ Family(used')
<1>1. \A k : Family([slots EXCEPT ![c][s] = k])
  BY DEF Families, Family
<1>2. QED
  BY <1>1, FamilyStep DEF Families, Vacate

LEMMA TeardownFamilies ==
  ASSUME Families, NEW c, NEW s, NEW rest, Teardown(c, s, rest) PROVE Families'
<1>1. Family(calls')
  <2>1. \E st : calls' = [calls EXCEPT ![c] = st]
    BY DEF Teardown
  <2>2. QED
    BY <2>1, CallsFamily
<1>2. CASE UNCHANGED tables
  BY <1>1, <1>2 DEF Families, tables
<1>3. CASE Dispose(c, s)
  BY <1>1, <1>3, VacateFamilies DEF Families, Dispose
<1>4. QED
  BY <1>2, <1>3 DEF Teardown

LEMMA NextFamilies == ASSUME Families, [Next]_vars PROVE Families'
<1>1. CASE UNCHANGED <<tables, calls>>
  BY <1>1 DEF Families, tables
<1>2. CASE \E c, s, rest : Teardown(c, s, rest)
  BY <1>2, TeardownFamilies
<1>3. CASE UNCHANGED tables /\ \E c, st : calls' = [calls EXCEPT ![c] = st]
  BY <1>3, CallsFamilies
<1>4. ASSUME UNCHANGED <<free, index, used>>, NEW c, NEW s, NEW k, slots' = [slots EXCEPT ![c][s] = k],
             (UNCHANGED calls) \/ (\E st : calls' = [calls EXCEPT ![c] = st])
      PROVE  Families'
  <2>1. Family(calls')
    BY <1>4, CallsFamily DEF Families
  <2>2. QED
    BY <1>4, <2>1, SlotFamilies
<1>5. ASSUME NEW c \in Ctx, Poll(c) PROVE Families'
  <2>1. (UNCHANGED tables) \/ (\E conn : Install(c, conn))
    BY <1>5 DEF Poll
  <2>2. UNCHANGED calls
    BY <1>5 DEF Poll
  <2>3. CASE UNCHANGED tables
    BY <1>1, <2>2, <2>3
  <2>4. CASE \E conn : Install(c, conn)
    BY <2>2, <2>4, InstallFamilies DEF Families
  <2>5. QED
    BY <2>1, <2>3, <2>4
<1>6. ASSUME NEW c \in Ctx, Serve(c) \/ Reap(c) \/ FramingTurn(c) \/ SocketClose(c) \/ TeardownNext(c) PROVE Families'
  <2>1. CASE Serve(c)
    <3> DEFINE s == ById(c, Head(ready[c]))
    <3>1. \/ UNCHANGED <<tables, calls>>
          \/ Teardown(c, s, << >>)
          \/ /\ slots' = [slots EXCEPT ![c][s].buf = @ \o wire[Head(ready[c])]] /\ UNCHANGED <<free, index, used>>
             /\ \E st : calls' = [calls EXCEPT ![c] = st]
      BY <2>1 DEF Serve
    <3> HIDE DEF s
    <3>2. QED
      BY <1>1, <1>2, <1>4, <3>1
  <2>2. CASE Reap(c)
    <3>1. (UNCHANGED <<tables, calls>>) \/ (\E s : Teardown(c, s, << >>))
      BY <2>2 DEF Reap
    <3>2. QED
      BY <1>1, <1>2, <3>1
  <2>3. CASE FramingTurn(c)
    <3> DEFINE s == ById(c, slots[c][Top(c).slot].id)
    <3>1. \/ calls' = [calls EXCEPT ![c] = Beneath(c)] /\ UNCHANGED tables
          \/ Teardown(c, s, calls[c])
          \/ /\ slots' = [slots EXCEPT ![c][s].buf = Tail(@)] /\ UNCHANGED <<free, index, used>>
             /\ \E st : calls' = [calls EXCEPT ![c] = st]
      BY <2>3 DEF FramingTurn
    <3> HIDE DEF s
    <3>2. QED
      BY <1>2, <1>3, <1>4, <3>1
  <2>4. CASE SocketClose(c) \/ TeardownNext(c)
    <3>1. \E s, rest : Teardown(c, s, rest)
      BY <2>4 DEF SocketClose, TeardownNext
    <3>2. QED
      BY <1>2, <3>1
  <2>5. QED
    BY <1>6, <2>1, <2>2, <2>3, <2>4
<1>7. ASSUME NEW c \in Ctx, ReadingTurn(c) PROVE Families'
  BY <1>2, <1>3, <1>7 DEF ReadingTurn, Dispatch
<1>8. ASSUME NEW c \in Ctx, FinishRequest(c) PROVE Families'
  <2> DEFINE s == ById(c, Top(c).id)
  <2>1. \/ Teardown(c, s, Beneath(c))
        \/ calls' = [calls EXCEPT ![c] = Beneath(c)] /\ UNCHANGED tables
        \/ /\ slots' = [slots EXCEPT ![c][s].upgraded = TRUE] /\ UNCHANGED <<free, index, used>>
           /\ calls' = [calls EXCEPT ![c] = Append(Beneath(c), Handler("upgrade", Top(c).id))]
        \/ /\ slots' = [slots EXCEPT ![c][s].buf = SubSeq(@, 3, Len(@)), ![c][s].responded = FALSE]
           /\ UNCHANGED <<free, index, used>> /\ calls' = [calls EXCEPT ![c] = Beneath(c)]
    BY <1>8 DEF FinishRequest
  <2> HIDE DEF s
  <2>2. CASE Teardown(c, s, Beneath(c))
    BY <1>2, <2>2
  <2>3. CASE calls' = [calls EXCEPT ![c] = Beneath(c)] /\ UNCHANGED tables
    BY <1>3, <2>3
  <2>4. CASE /\ slots' = [slots EXCEPT ![c][s].upgraded = TRUE] /\ UNCHANGED <<free, index, used>>
             /\ calls' = [calls EXCEPT ![c] = Append(Beneath(c), Handler("upgrade", Top(c).id))]
    BY <1>4, <2>4
  <2>5. CASE /\ slots' = [slots EXCEPT ![c][s].buf = SubSeq(@, 3, Len(@)), ![c][s].responded = FALSE]
             /\ UNCHANGED <<free, index, used>> /\ calls' = [calls EXCEPT ![c] = Beneath(c)]
    <3>1. Family(slots')
      BY <2>5 DEF Families, Family
    <3>2. Family(calls')
      BY <2>5, CallsFamily
    <3>3. QED
      BY <2>5, <3>1, <3>2 DEF Families
  <2>6. QED
    BY <2>1, <2>2, <2>3, <2>4, <2>5
<1>9. ASSUME NEW c \in Ctx, Answer(c) \/ Upgrade(c) PROVE Families'
  BY <1>4, <1>9 DEF Answer, Upgrade, control
<1>10. ASSUME NEW c \in Ctx, CloseReturns(c) PROVE Families'
  BY <1>10, VacateFamilies, FamilyStep DEF CloseReturns, Dispose, Families
<1>11. ASSUME NEW w \in Worker, Deliver(w) PROVE Families'
  BY <1>11, InstallFamilies, FamilyStep DEF Deliver, Families
<1>12. ASSUME NEW w \in Worker, GiveRequest(w) PROVE Families'
  BY <1>12, VacateFamilies DEF GiveRequest, Families, control
<1>13. ASSUME NEW w \in Worker, FreeTables(w) PROVE Families'
  BY <1>13, FamilyStep DEF FreeTables, Families
<1>14. ASSUME NEW c \in Ctx, Return(c) \/ RunCallbacks \/ JoinReturns PROVE Families'
  BY <1>3, <1>14 DEF Return, RunCallbacks, JoinReturns
<1>15. ASSUME NEW w \in Worker, Message(w) \/ KillSeen(w) \/ Kill(w) PROVE Families'
  BY <1>3, <1>15 DEF Message, KillSeen, Kill
<1>16. ASSUME NEW w \in Worker, Live(w) PROVE Families'
  BY <1>1, <1>16 DEF Live
<1>17. CASE UNCHANGED vars \/ ClientStep
  BY <1>1, <1>17 DEF vars, control, ClientStep, SendHead, SendBody, SendFrame, Hangup
<1>18. Worker \subseteq Ctx /\ Main \in Ctx
  BY CtxFacts
<1>19. ASSUME NEW c \in Ctx, Step(c) PROVE Families'
  BY <1>5, <1>6, <1>7, <1>8, <1>10, <1>11, <1>13, <1>14, <1>15, <1>18, <1>19 DEF Step, HandlerReturns
<1>20. CASE ProgramCall
  BY <1>6, <1>9, <1>12, <1>14, <1>15, <1>16, <1>18, <1>20 DEF ProgramCall
<1>21. QED
  BY <1>17, <1>19, <1>20 DEF Next
=============================================================================
