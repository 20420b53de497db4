---------------------------- MODULE WsOrderProofs -----------------------------
(* Messages and frames of the WebSocket path keep their order, for every     *)
(* number of clients, keys, sessions and h8srd instances.  The invariants are *)
(* about whole pipes: all a client has got and is going to get, and all a     *)
(* backend connection was given and its h8srd has pending, is in order.       *)
EXTENDS WsTunnelProofs

-------------------------------------------------------------------------------
(* Numbered elements in a sequence p: src says whose element it is and num  *)
(* its number; D are elements that may be missing from p.                   *)

Has(p, D, src, num, b, n) ==
    \/ \E y \in D : src[y] = b /\ num[y] = n
    \/ \E k \in DOMAIN p : src[p[k]] = b /\ num[p[k]] = n

\* The elements of a source are in order.
Sorted(p, src, num) ==
    \A i, j \in DOMAIN p : i < j /\ src[p[i]] = src[p[j]] => num[p[i]] < num[p[j]]

\* Of the sources in B none is missing between two others.
NoGap(p, D, src, num, B) ==
    \A b \in B : \A i, j \in DOMAIN p : src[p[i]] = b /\ src[p[j]] = b =>
        \A n \in (num[p[i]] + 1)..(num[p[j]] - 1) : Has(p, D, src, num, b, n)

\* Of the source b none is missing between the first in p and the number last.
UpTo(p, D, src, num, b, last) ==
    \A i \in DOMAIN p : src[p[i]] = b =>
        /\ num[p[i]] <= last
        /\ \A n \in (num[p[i]] + 1)..last : Has(p, D, src, num, b, n)

\* Between two elements of a source in B are all those with a number between theirs.
Between(q, D, src, num, B) ==
    \A i, j \in DOMAIN q : i < j /\ src[q[i]] = src[q[j]] /\ src[q[i]] \in B =>
        /\ num[q[i]] < num[q[j]]
        /\ \A n \in (num[q[i]] + 1)..(num[q[j]] - 1) :
              \/ \E y \in D : src[y] = src[q[i]] /\ num[y] = n
              \/ \E k \in (i + 1)..(j - 1) :
                    k \in DOMAIN q /\ src[q[k]] = src[q[i]] /\ num[q[k]] = n

-------------------------------------------------------------------------------
(* The messages for a client.                                              *)

MsgSrc == [m \in Message |-> <<m.from, m.conn>>]
MsgNum == [m \in Message |-> m.n]

\* What a client has got and is still going to get, while it is there.
PipeTo(c) == ((got[c] \o send[c]) \o inHand[c]) \o inbox[c]
Served(c) == ~panicked /\ c \notin gone \cup shut

MessagesFlow ==
    \A c \in Conns :
        /\ Early(c) => got[c] = <<>> /\ send[c] = <<>> /\ inHand[c] = <<>> /\ inbox[c] = <<>>
        /\ Served(c) =>
              /\ \A i \in DOMAIN PipeTo(c) : reply[PipeTo(c)[i].conn] = reply[c]
              /\ Sorted(PipeTo(c), MsgSrc, MsgNum)
              /\ NoGap(PipeTo(c), dropped[c], MsgSrc, MsgNum, Reverses \X Conns)
              /\ Subscribed(c) =>
                    \A b \in Reverses \X Conns :
                        UpTo(PipeTo(c), dropped[c], MsgSrc, MsgNum, b, sent[b])

-------------------------------------------------------------------------------
(* The frames for a backend connection.                                    *)

FrameSrc == [f \in Frame |-> f.conn]
FrameNum == [f \in Frame |-> f.n]

\* What a backend connection was given and its h8srd has pending, while it is given more.
PipeIn(d, c) == delivered[<<d, c>>] \o dataQ[d]
Active(d, c) == c \in wsConns[d][KeyFor(c)] /\ backend[<<d, c>>] = "open"

\* The frames of clients with another reply subject, which a backend connection is not given.
Others(c) == {f \in Frame : reply[f.conn] # reply[c]}
Open == {e \in Conns : pc[e] = "open"}

\* The frames in p are in order, without a gap up to the last of those in F.
InFlow(p, D, F, last) ==
    /\ Sorted(p, FrameSrc, FrameNum)
    /\ NoGap(p, D, FrameSrc, FrameNum, Conns)
    /\ \A e \in F : UpTo(p, D, FrameSrc, FrameNum, e, last[e])

FramesFlow ==
    /\ \A d \in Reverses : \A i \in DOMAIN dataQ[d] : ~Early(dataQ[d][i].conn)
    /\ \A b \in Reverses \X Conns :
          /\ backend[b] = "none" => delivered[b] = <<>>
          /\ \A i \in DOMAIN delivered[b] :
                ~Early(delivered[b][i].conn) /\ reply[delivered[b][i].conn] = reply[b[2]]
    /\ \A d \in Reverses : InFlow(dataQ[d], {}, Open, frames)
    /\ \A d \in Reverses, c \in Conns : Active(d, c) => InFlow(PipeIn(d, c), Others(c), Open, frames)

-------------------------------------------------------------------------------
(* Sequences of numbered elements.                                         *)

\* The more may be missing the less is a gap.
LEMMA MoreMayMiss ==
    ASSUME NEW p, NEW D, NEW E, NEW B, NEW src, NEW num, \A y \in D : y \in E
    PROVE  /\ NoGap(p, D, src, num, B) => NoGap(p, E, src, num, B)
           /\ \A b, last : UpTo(p, D, src, num, b, last) => UpTo(p, E, src, num, b, last)
  <1>1. \A b, n : Has(p, D, src, num, b, n) => Has(p, E, src, num, b, n)
    BY DEF Has
  <1> QED
    BY <1>1 DEF NoGap, UpTo

\* What is left when elements are taken out of a sequence keeps its order; it has no
\* gap if what was taken out may be missing, is of no concern, or is before or after
\* everything that is left (q is left, its k-th element was at h[k]).
LEMMA LeftInOrder ==
    ASSUME NEW S, NEW p \in Seq(S), NEW q \in Seq(S), NEW D, NEW B,
           NEW src, NEW num \in [S -> Nat],
           NEW h \in [DOMAIN q -> DOMAIN p],
           \A i, j \in DOMAIN q : i < j => h[i] < h[j],
           \A i \in DOMAIN q : q[i] = p[h[i]],
           \A k \in DOMAIN p :
              \/ \E i \in DOMAIN q : h[i] = k
              \/ p[k] \in D
              \/ src[p[k]] \notin B
              \/ \A i \in DOMAIN q : h[i] < k
              \/ \A i \in DOMAIN q : k < h[i],
           Sorted(p, src, num), NoGap(p, D, src, num, B)
    PROVE  Sorted(q, src, num) /\ NoGap(q, D, src, num, B)
  <1>1. Sorted(q, src, num)
    BY DEF Sorted
  <1>2. ASSUME NEW b \in B, NEW i \in DOMAIN q, NEW j \in DOMAIN q,
               src[q[i]] = b, src[q[j]] = b,
               NEW n \in (num[q[i]] + 1)..(num[q[j]] - 1)
        PROVE  Has(q, D, src, num, b, n)
    <2>1. /\ h[i] \in DOMAIN p /\ h[j] \in DOMAIN p
          /\ q[i] = p[h[i]] /\ q[j] = p[h[j]]
      OBVIOUS
    <2>2. Has(p, D, src, num, b, n)
      BY <1>2, <2>1, SMTT(30) DEF NoGap
    <2>3. CASE \E y \in D : src[y] = b /\ num[y] = n
      BY <2>3 DEF Has
    <2>4. ASSUME NEW k \in DOMAIN p, src[p[k]] = b, num[p[k]] = n
          PROVE  Has(q, D, src, num, b, n)
      <3>1. num[q[i]] \in Nat /\ num[q[j]] \in Nat /\ n > num[q[i]] /\ n < num[q[j]]
        <4>1. q[i] \in S /\ q[j] \in S
          OBVIOUS
        <4>2. num[q[i]] \in Nat /\ num[q[j]] \in Nat
          BY <4>1
        <4> QED
          BY <4>2, SMTT(30)
      <3>2. ~(h[j] < k)
        <4>1. h[j] < k => num[p[h[j]]] < num[p[k]]
          BY <1>2, <2>1, <2>4 DEF Sorted
        <4> QED
          BY <2>1, <2>4, <3>1, <4>1, SMTT(30)
      <3>3. ~(k < h[i])
        <4>1. k < h[i] => num[p[k]] < num[p[h[i]]]
          BY <1>2, <2>1, <2>4 DEF Sorted
        <4> QED
          BY <2>1, <2>4, <3>1, <4>1, SMTT(30)
      <3>4. (\E m \in DOMAIN q : h[m] = k) \/ p[k] \in D
        BY <2>4, <3>2, <3>3
      <3> QED
        BY <2>4, <3>4 DEF Has
    <2> QED
      BY <2>2, <2>3, <2>4 DEF Has
  <1> QED
    BY <1>1, <1>2 DEF NoGap

\* The same of being complete up to a number, if nothing after everything that is left
\* was taken out.
LEMMA LeftUpTo ==
    ASSUME NEW S, NEW p \in Seq(S), NEW q \in Seq(S), NEW D, NEW b, NEW last,
           NEW src, NEW num \in [S -> Nat],
           NEW h \in [DOMAIN q -> DOMAIN p],
           \A i \in DOMAIN q : q[i] = p[h[i]],
           \A k \in DOMAIN p :
              \/ \E i \in DOMAIN q : h[i] = k
              \/ p[k] \in D
              \/ src[p[k]] # b
              \/ \A i \in DOMAIN q : k < h[i],
           Sorted(p, src, num), UpTo(p, D, src, num, b, last)
    PROVE  UpTo(q, D, src, num, b, last)
  <1>1. ASSUME NEW i \in DOMAIN q, src[q[i]] = b
        PROVE  num[q[i]] <= last
    BY <1>1 DEF UpTo
  <1>2. ASSUME NEW i \in DOMAIN q, src[q[i]] = b, NEW n \in (num[q[i]] + 1)..last
        PROVE  Has(q, D, src, num, b, n)
    <2>1. h[i] \in DOMAIN p /\ q[i] = p[h[i]]
      OBVIOUS
    <2>2. Has(p, D, src, num, b, n)
      BY <1>2, <2>1 DEF UpTo
    <2>3. CASE \E y \in D : src[y] = b /\ num[y] = n
      BY <2>3 DEF Has
    <2>4. ASSUME NEW k \in DOMAIN p, src[p[k]] = b, num[p[k]] = n
          PROVE  Has(q, D, src, num, b, n)
      <3>1. num[q[i]] \in Nat /\ n > num[q[i]]
        <4>1. q[i] \in S
          OBVIOUS
        <4>2. num[q[i]] \in Nat
          BY <4>1
        <4> QED
          BY <4>2
      <3>3. ~(k < h[i])
        <4>1. k < h[i] => num[p[k]] < num[p[h[i]]]
          BY <1>2, <2>1, <2>4 DEF Sorted
        <4> QED
          BY <2>1, <2>4, <3>1, <4>1
      <3>4. (\E m \in DOMAIN q : h[m] = k) \/ p[k] \in D
        BY <2>4, <3>3
      <3> QED
        BY <2>4, <3>4 DEF Has
    <2> QED
      BY <2>2, <2>3, <2>4 DEF Has
  <1> QED
    BY <1>1, <1>2 DEF UpTo

\* The next element of a source may follow.
LEMMA NextInOrder ==
    ASSUME NEW S, NEW p \in Seq(S), NEW x \in S, NEW D, NEW B,
           NEW src, NEW num \in [S -> Nat], NEW last \in Nat,
           num[x] = last + 1,
           Sorted(p, src, num), NoGap(p, D, src, num, B), UpTo(p, D, src, num, src[x], last)
    PROVE  /\ Sorted(Append(p, x), src, num) /\ NoGap(Append(p, x), D, src, num, B)
           /\ UpTo(Append(p, x), D, src, num, src[x], last + 1)
           /\ \A b, l : b # src[x] /\ UpTo(p, D, src, num, b, l) => UpTo(Append(p, x), D, src, num, b, l)
  <1> DEFINE q == Append(p, x)
  <1>1. /\ \A k \in DOMAIN p : k \in DOMAIN q /\ q[k] = p[k] /\ k < Len(p) + 1
        /\ Len(p) + 1 \in DOMAIN q /\ q[Len(p) + 1] = x
        /\ \A k \in DOMAIN q : k \in DOMAIN p \/ k = Len(p) + 1
        /\ DOMAIN q \subseteq Nat /\ Len(p) \in Nat
    OBVIOUS
  <1>2. \A k \in DOMAIN p : num[p[k]] \in Nat
    OBVIOUS
  <1> HIDE DEF q
  <1>3. \A b, n : Has(p, D, src, num, b, n) => Has(q, D, src, num, b, n)
    BY <1>1 DEF Has
  <1>4. Has(q, D, src, num, src[x], last + 1)
    BY <1>1 DEF Has
  <1>5. \A k \in DOMAIN p : src[p[k]] = src[x] => num[p[k]] <= last
    BY DEF UpTo
  <1>6. Sorted(q, src, num)
    <2> SUFFICES ASSUME NEW i \in DOMAIN q, NEW j \in DOMAIN q, i < j, src[q[i]] = src[q[j]]
                 PROVE  num[q[i]] < num[q[j]]
      BY DEF Sorted
    <2>1. CASE j \in DOMAIN p
      <3>1. i \in DOMAIN p
        BY <1>1, <2>1
      <3> QED
        BY <1>1, <2>1, <3>1 DEF Sorted
    <2>2. CASE j = Len(p) + 1
      <3>1. i \in DOMAIN p
        BY <1>1, <2>2
      <3>2. num[q[i]] <= last /\ num[q[i]] \in Nat /\ num[q[j]] = last + 1
        BY <1>1, <1>2, <1>5, <2>2, <3>1
      <3> QED
        BY <3>2
    <2> QED
      BY <1>1, <2>1, <2>2
  <1>7. ASSUME NEW i \in DOMAIN q, src[q[i]] = src[x]
        PROVE  /\ num[q[i]] <= last + 1 /\ num[q[i]] \in Nat
               /\ \A n \in (num[q[i]] + 1)..(last + 1) : Has(q, D, src, num, src[x], n)
    <2>1. CASE i \in DOMAIN p
      <3>1. q[i] = p[i] /\ num[p[i]] <= last /\ num[p[i]] \in Nat
        BY <1>1, <1>2, <1>5, <1>7, <2>1
      <3>2. \A n \in (num[p[i]] + 1)..last : Has(p, D, src, num, src[x], n)
        BY <1>7, <2>1, <3>1 DEF UpTo
      <3>3. ASSUME NEW n \in (num[q[i]] + 1)..(last + 1)
            PROVE  Has(q, D, src, num, src[x], n)
        <4>1. n = last + 1 \/ n \in (num[p[i]] + 1)..last
          BY <3>1
        <4> QED
          BY <1>3, <1>4, <3>2, <4>1
      <3> QED
        BY <3>1, <3>3
    <2>2. CASE i = Len(p) + 1
      <3>1. num[q[i]] = last + 1
        BY <1>1, <2>2
      <3> QED
        BY <3>1
    <2> QED
      BY <1>1, <2>1, <2>2
  <1>8. NoGap(q, D, src, num, B)
    <2> SUFFICES ASSUME NEW b \in B, NEW i \in DOMAIN q, NEW j \in DOMAIN q,
                        src[q[i]] = b, src[q[j]] = b,
                        NEW n \in (num[q[i]] + 1)..(num[q[j]] - 1)
                 PROVE  Has(q, D, src, num, b, n)
      BY DEF NoGap
    <2>1. CASE i \in DOMAIN p /\ j \in DOMAIN p
      <3>1. Has(p, D, src, num, b, n)
        BY <1>1, <2>1 DEF NoGap
      <3> QED
        BY <1>3, <3>1
    <2>2. CASE b = src[x]
      <3>1. num[q[j]] <= last + 1 /\ num[q[j]] \in Nat /\ num[q[i]] \in Nat
        BY <1>7, <2>2
      <3>2. n \in (num[q[i]] + 1)..(last + 1)
        BY <3>1
      <3> QED
        BY <1>7, <2>2, <3>2
    <2>3. CASE i = Len(p) + 1 \/ j = Len(p) + 1
      <3>1. b = src[x]
        BY <1>1, <2>3
      <3> QED
        BY <2>2, <3>1
    <2> QED
      BY <1>1, <2>1, <2>3
  <1>9. UpTo(q, D, src, num, src[x], last + 1)
    BY <1>7 DEF UpTo
  <1>10. ASSUME NEW b, NEW l, b # src[x], UpTo(p, D, src, num, b, l)
         PROVE  UpTo(q, D, src, num, b, l)
    <2> SUFFICES ASSUME NEW i \in DOMAIN q, src[q[i]] = b
                 PROVE  /\ num[q[i]] <= l
                        /\ \A n \in (num[q[i]] + 1)..l : Has(q, D, src, num, b, n)
      BY DEF UpTo
    <2>1. i \in DOMAIN p /\ q[i] = p[i]
      BY <1>1, <1>10
    <2> QED
      BY <1>3, <1>10, <2>1 DEF UpTo
  <1> QED
    BY <1>6, <1>8, <1>9, <1>10 DEF q

\* The part of a sequence before what is taken from its end.
LEMMA BeforeInOrder ==
    ASSUME NEW S, NEW q \in Seq(S), NEW r \in Seq(S), NEW D, NEW B,
           NEW src, NEW num \in [S -> Nat],
           Sorted(q \o r, src, num), NoGap(q \o r, D, src, num, B)
    PROVE  Sorted(q, src, num) /\ NoGap(q, D, src, num, B)
  <1> DEFINE p == q \o r
             h == [i \in DOMAIN q |-> i]
  <1>1. /\ p \in Seq(S)
        /\ DOMAIN q \subseteq DOMAIN p
        /\ \A i \in DOMAIN q : q[i] = p[i]
        /\ \A k \in DOMAIN p : k \in DOMAIN q \/ \A i \in DOMAIN q : i < k
    OBVIOUS
  <1>2. /\ h \in [DOMAIN q -> DOMAIN p]
        /\ \A i, j \in DOMAIN q : i < j => h[i] < h[j]
        /\ \A i \in DOMAIN q : q[i] = p[h[i]]
        /\ \A k \in DOMAIN p : (\E i \in DOMAIN q : h[i] = k) \/ \A i \in DOMAIN q : h[i] < k
    BY <1>1
  <1> HIDE DEF p, h
  <1>3. Sorted(p, src, num) /\ NoGap(p, D, src, num, B)
    BY DEF p
  <1> QED
    BY <1>1, <1>2, <1>3, LeftInOrder

\* The part of a sequence after its first element.
LEMMA TailInOrder ==
    ASSUME NEW S, NEW p \in Seq(S), p # <<>>, NEW D, NEW B,
           NEW src, NEW num \in [S -> Nat],
           Sorted(p, src, num), NoGap(p, D, src, num, B)
    PROVE  /\ Sorted(Tail(p), src, num) /\ NoGap(Tail(p), D, src, num, B)
           /\ \A b, last : UpTo(p, D, src, num, b, last) => UpTo(Tail(p), D, src, num, b, last)
  <1> DEFINE q == Tail(p)
             h == [i \in DOMAIN q |-> i + 1]
  <1>1. /\ q \in Seq(S) /\ \A i \in DOMAIN q : i \in Nat /\ 1 < i + 1
        /\ \A k \in DOMAIN q : k + 1 \in DOMAIN p /\ q[k] = p[k + 1]
        /\ \A k \in DOMAIN p : (\E i \in DOMAIN q : i + 1 = k) \/ \A i \in DOMAIN q : k < i + 1
    <2>1. \A k \in DOMAIN p : k = 1 \/ (k - 1 \in DOMAIN q /\ k = (k - 1) + 1)
      OBVIOUS
    <2>2. \A i \in DOMAIN q : i \in Nat /\ 1 < i + 1
      OBVIOUS
    <2>3. q \in Seq(S) /\ \A k \in DOMAIN q : k + 1 \in DOMAIN p /\ q[k] = p[k + 1]
      OBVIOUS
    <2> HIDE DEF q
    <2>4. \A k \in DOMAIN p : (\E i \in DOMAIN q : i + 1 = k) \/ \A i \in DOMAIN q : k < i + 1
      BY <2>1, <2>2
    <2> QED
      BY <2>2, <2>3, <2>4
  <1>2. /\ h \in [DOMAIN q -> DOMAIN p]
        /\ \A i, j \in DOMAIN q : i < j => h[i] < h[j]
        /\ \A i \in DOMAIN q : q[i] = p[h[i]]
        /\ \A k \in DOMAIN p : (\E i \in DOMAIN q : h[i] = k) \/ \A i \in DOMAIN q : k < h[i]
    BY <1>1
  <1> HIDE DEF q, h
  <1>3. Sorted(q, src, num) /\ NoGap(q, D, src, num, B)
    BY <1>1, <1>2, LeftInOrder
  <1>4. ASSUME NEW b, NEW last, UpTo(p, D, src, num, b, last)
        PROVE  UpTo(q, D, src, num, b, last)
    BY <1>1, <1>2, <1>4, LeftUpTo
  <1> QED
    BY <1>3, <1>4 DEF q

\* A sequence without one of its elements, which may be missing or is of no concern.
LEMMA WithoutInOrder ==
    ASSUME NEW S, NEW a \in Seq(S), NEW x \in S, NEW r \in Seq(S), NEW D, NEW E, NEW B,
           NEW src, NEW num \in [S -> Nat],
           \A y \in D : y \in E,
           Sorted((a \o <<x>>) \o r, src, num), NoGap((a \o <<x>>) \o r, D, src, num, B),
           x \in E \/ src[x] \notin B
    PROVE  /\ Sorted(a \o r, src, num) /\ NoGap(a \o r, E, src, num, B)
           /\ \A b, last : /\ x \in E \/ src[x] # b
                           /\ UpTo((a \o <<x>>) \o r, D, src, num, b, last)
                           => UpTo(a \o r, E, src, num, b, last)
  <1> DEFINE p == (a \o <<x>>) \o r
             q == a \o r
             L == Len(a)
             R == Len(r)
  <1>0. p \in Seq(S) /\ q \in Seq(S)
    OBVIOUS
  <1>1. /\ L \in Nat /\ R \in Nat
        /\ DOMAIN p = 1..(L + 1 + R) /\ DOMAIN q = 1..(L + R)
    OBVIOUS
  <1>2. \A i \in DOMAIN q : q[i] = IF i <= L THEN a[i] ELSE r[i - L]
    OBVIOUS
  <1>3. \A k \in DOMAIN p : p[k] = IF k <= L THEN a[k]
                                   ELSE IF k = L + 1 THEN x ELSE r[k - (L + 1)]
    <2>1. \A k \in 1..L : (a \o <<x>>)[k] = a[k]
      OBVIOUS
    <2>2. (a \o <<x>>)[L + 1] = x
      OBVIOUS
    <2>3. \A k \in DOMAIN p : p[k] = IF k <= L + 1 THEN (a \o <<x>>)[k] ELSE r[k - (L + 1)]
      <3>1. a \o <<x>> \in Seq(S) /\ Len(a \o <<x>>) = L + 1
        OBVIOUS
      <3> QED
        BY <3>1
    <2> QED
      BY <1>1, <2>1, <2>2, <2>3
  <1> HIDE DEF p, q, L, R
  <1> DEFINE h == [i \in DOMAIN q |-> IF i <= L THEN i ELSE i + 1]
  <1>a. \A i \in DOMAIN q : h[i] = IF i <= L THEN i ELSE i + 1
    OBVIOUS
  <1>b. \A i \in DOMAIN q : (IF i <= L THEN i ELSE i + 1) \in DOMAIN p
    BY <1>1
  <1>c. h \in [DOMAIN q -> DOMAIN p]
    BY <1>b
  <1> HIDE DEF h
  <1>4. \A i, j \in DOMAIN q : i < j => h[i] < h[j]
    <2> SUFFICES ASSUME NEW i \in DOMAIN q, NEW j \in DOMAIN q, i < j
                 PROVE  h[i] < h[j]
      OBVIOUS
    <2>1. i \in Nat /\ j \in Nat
      BY <1>1
    <2>2. h[i] = (IF i <= L THEN i ELSE i + 1) /\ h[j] = (IF j <= L THEN j ELSE j + 1)
      BY <1>a
    <2> QED
      BY <1>1, <2>1, <2>2
  <1>5. ASSUME NEW i \in DOMAIN q
        PROVE  q[i] = p[h[i]]
    <2>0. i \in 1..(L + R) /\ q[i] = (IF i <= L THEN a[i] ELSE r[i - L])
          /\ h[i] = (IF i <= L THEN i ELSE i + 1)
      BY <1>1, <1>2, <1>a
    <2>1. CASE i <= L
      <3>1. i \in DOMAIN p
        BY <1>1, <2>0, <2>1
      <3>2. p[i] = a[i]
        BY <1>3, <2>1, <3>1
      <3> QED
        BY <2>0, <2>1, <3>2
    <2>2. CASE ~(i <= L)
      <3>1. i + 1 \in 1..(L + 1 + R) /\ ~(i + 1 <= L) /\ i + 1 # L + 1
            /\ (i + 1) - (L + 1) = i - L
        BY <1>1, <2>0, <2>2, SMTT(30)
      <3>2. i + 1 \in DOMAIN p
        BY <1>1, <3>1
      <3>3. p[i + 1] = r[i - L]
        BY <1>3, <3>1, <3>2
      <3> QED
        BY <2>0, <2>2, <3>3
    <2> QED
      BY <2>1, <2>2
  <1>6. ASSUME NEW k \in DOMAIN p
        PROVE  (\E i \in DOMAIN q : h[i] = k) \/ p[k] = x
    <2>0. k \in 1..(L + 1 + R)
      BY <1>1
    <2>1. CASE k <= L
      <3>1. k \in 1..(L + R)
        BY <1>1, <2>0, <2>1
      <3>2. k \in DOMAIN q /\ h[k] = k
        BY <1>1, <1>a, <2>1, <3>1
      <3> QED
        BY <3>2
    <2>2. CASE k = L + 1
      <3>1. ~(k <= L)
        BY <1>1, <2>2
      <3> QED
        BY <1>3, <2>2, <3>1
    <2>3. CASE k > L + 1
      <3>1. k - 1 \in 1..(L + R) /\ ~(k - 1 <= L) /\ (k - 1) + 1 = k
        BY <1>1, <2>0, <2>3
      <3>2. k - 1 \in DOMAIN q
        BY <1>1, <3>1
      <3>3. h[k - 1] = k
        BY <1>a, <3>1, <3>2
      <3> QED
        BY <3>2, <3>3
    <2>4. k <= L \/ k = L + 1 \/ k > L + 1
      BY <1>1, <2>0
    <2> QED
      BY <2>1, <2>2, <2>3, <2>4
  <1>7. Sorted(p, src, num) /\ NoGap(p, E, src, num, B)
    BY MoreMayMiss DEF p
  <1>8. Sorted(q, src, num) /\ NoGap(q, E, src, num, B)
    <2>1. \A k \in DOMAIN p :
              \/ \E i \in DOMAIN q : h[i] = k
              \/ p[k] \in E
              \/ src[p[k]] \notin B
              \/ \A i \in DOMAIN q : h[i] < k
              \/ \A i \in DOMAIN q : k < h[i]
      BY <1>6
    <2> QED
      BY <1>0, <1>c, <1>4, <1>5, <1>7, <2>1, LeftInOrder
  <1>9. ASSUME NEW b, NEW last, x \in E \/ src[x] # b, UpTo(p, D, src, num, b, last)
        PROVE  UpTo(q, E, src, num, b, last)
    <2>1. \A k \in DOMAIN p :
              \/ \E i \in DOMAIN q : h[i] = k
              \/ p[k] \in E
              \/ src[p[k]] # b
              \/ \A i \in DOMAIN q : k < h[i]
      BY <1>6, <1>9
    <2>2. UpTo(p, E, src, num, b, last)
      BY <1>9, MoreMayMiss
    <2> QED
      BY <1>0, <1>c, <1>5, <1>7, <2>1, <2>2, LeftUpTo
  <1> QED
    BY <1>8, <1>9 DEF p, q

\* Between two elements of a source are all those with a number between theirs that
\* may not be missing.
LEMMA BetweenInOrder ==
    ASSUME NEW S, NEW q \in Seq(S), NEW D, NEW B, NEW src, NEW num \in [S -> Nat],
           Sorted(q, src, num), NoGap(q, D, src, num, B)
    PROVE  Between(q, D, src, num, B)
  <1> SUFFICES ASSUME NEW i \in DOMAIN q, NEW j \in DOMAIN q, i < j,
                      src[q[i]] = src[q[j]], src[q[i]] \in B
               PROVE  /\ num[q[i]] < num[q[j]]
                      /\ \A n \in (num[q[i]] + 1)..(num[q[j]] - 1) :
                            \/ \E y \in D : src[y] = src[q[i]] /\ num[y] = n
                            \/ \E k \in (i + 1)..(j - 1) :
                                  k \in DOMAIN q /\ src[q[k]] = src[q[i]] /\ num[q[k]] = n
    BY DEF Between
  <1>1. num[q[i]] < num[q[j]]
    BY DEF Sorted
  <1>2. ASSUME NEW n \in (num[q[i]] + 1)..(num[q[j]] - 1),
               NEW k \in DOMAIN q, src[q[k]] = src[q[i]], num[q[k]] = n
        PROVE  k \in (i + 1)..(j - 1)
    <2>1. num[q[i]] \in Nat /\ num[q[j]] \in Nat
      <3>1. q[i] \in S /\ q[j] \in S
        OBVIOUS
      <3> QED
        BY <3>1
    <2>2. num[q[i]] < n /\ n < num[q[j]]
      BY <2>1
    <2>3. k # i /\ k # j
      BY <1>2, <2>1, <2>2
    <2>4. ~(k < i)
      <3>1. k < i => num[q[k]] < num[q[i]]
        BY <1>2 DEF Sorted
      <3> QED
        BY <1>2, <2>1, <2>2, <3>1
    <2>5. ~(j < k)
      <3>1. j < k => num[q[j]] < num[q[k]]
        BY <1>2 DEF Sorted
      <3> QED
        BY <1>2, <2>1, <2>2, <3>1
    <2>6. i \in Nat /\ j \in Nat /\ k \in Nat
      OBVIOUS
    <2> QED
      BY <2>3, <2>4, <2>5, <2>6, SMTT(30)
  <1>3. ASSUME NEW n \in (num[q[i]] + 1)..(num[q[j]] - 1)
        PROVE  \/ \E y \in D : src[y] = src[q[i]] /\ num[y] = n
               \/ \E k \in (i + 1)..(j - 1) :
                     k \in DOMAIN q /\ src[q[k]] = src[q[i]] /\ num[q[k]] = n
    <2>1. Has(q, D, src, num, src[q[i]], n)
      BY DEF NoGap
    <2> QED
      BY <1>2, <2>1 DEF Has
  <1> QED
    BY <1>1, <1>3

-------------------------------------------------------------------------------
(* Moving messages along.                                                  *)

\* The first of a sequence joins the one before it, and what all of them hold stays.
LEMMA MovesAlong ==
    ASSUME NEW S, NEW g \in Seq(S), NEW s \in Seq(S)
    PROVE  /\ s # <<>> => Append(g, Head(s)) \o Tail(s) = g \o s
           /\ s # <<>> => (g \o <<Head(s)>>) \o Tail(s) = g \o s
           /\ g \o <<>> = g
           /\ \A m \in S : Append(g \o s, m) = g \o Append(s, m)
  <1>1. s # <<>> => Append(g, Head(s)) \o Tail(s) = g \o s
    <2> SUFFICES ASSUME s # <<>>
                 PROVE  Append(g, Head(s)) \o Tail(s) = g \o s
      OBVIOUS
    <2>1. /\ Append(g, Head(s)) \in Seq(S) /\ Tail(s) \in Seq(S)
          /\ Len(Append(g, Head(s))) = Len(g) + 1 /\ Len(Tail(s)) = Len(s) - 1
          /\ Len(g) \in Nat /\ Len(s) \in Nat
      OBVIOUS
    <2>2. Append(g, Head(s)) = g \o <<Head(s)>> /\ <<Head(s)>> \in Seq(S)
      BY AppendIsConcat
    <2>3. (g \o <<Head(s)>>) \o Tail(s) = g \o (<<Head(s)>> \o Tail(s))
      BY <2>1, <2>2, ConcatAssociative
    <2>4. <<Head(s)>> \o Tail(s) = s
      OBVIOUS
    <2> QED
      BY <2>2, <2>3, <2>4
  <1>2. s # <<>> => Append(g, Head(s)) = g \o <<Head(s)>>
    BY AppendIsConcat
  <1>3. g \o <<>> = g
    BY ConcatEmptySeq
  <1>4. ASSUME NEW m \in S
        PROVE  Append(g \o s, m) = g \o Append(s, m)
    <2>1. g \o s \in Seq(S) /\ <<m>> \in Seq(S)
      OBVIOUS
    <2>2. Append(g \o s, m) = (g \o s) \o <<m>> /\ Append(s, m) = s \o <<m>>
      BY <2>1, AppendIsConcat
    <2>3. (g \o s) \o <<m>> = g \o (s \o <<m>>)
      BY <2>1, ConcatAssociative
    <2> QED
      BY <2>2, <2>3
  <1> QED
    BY <1>1, <1>2, <1>3, <1>4

\* A sequence of one.
LEMMA JustOne ==
    ASSUME NEW S, NEW s \in Seq(S), s # <<>>, Len(s) <= 1
    PROVE  s = <<s[1]>> /\ s[1] \in S
  <1>1. 1 \in DOMAIN s /\ DOMAIN s = 1..Len(s) /\ Len(s) \in Nat
    BY QueueTail
  <1>2. Len(s) = 1
    BY <1>1
  <1> QED
    BY <1>2

\* The sequences of a pipe.
LEMMA PipeTypes ==
    ASSUME TypeOK, NEW c \in Conns
    PROVE  /\ got[c] \in Seq(Message) /\ send[c] \in Seq(Message)
           /\ inHand[c] \in Seq(Message) /\ inbox[c] \in Seq(Message)
           /\ Len(inHand[c]) <= 1
           /\ got[c] \o send[c] \in Seq(Message)
           /\ (got[c] \o send[c]) \o inHand[c] \in Seq(Message)
           /\ PipeTo(c) \in Seq(Message)
  <1>1. /\ got[c] \in Seq(Message) /\ send[c] \in Seq(Message)
        /\ inHand[c] \in Seq(Message) /\ inbox[c] \in Seq(Message)
        /\ Len(inHand[c]) <= 1
    BY DEF TypeOK
  <1>2. got[c] \o send[c] \in Seq(Message)
    BY <1>1, QueueConcat
  <1>3. (got[c] \o send[c]) \o inHand[c] \in Seq(Message)
    BY <1>1, <1>2, QueueConcat
  <1> QED
    BY <1>1, <1>2, <1>3, QueueConcat DEF PipeTo

\* Nothing moves for a client whose handler has not subscribed.
LEMMA EarlyKept ==
    ASSUME TypeOK, [Next]_vars, NEW c \in Conns, Early(c),
           got[c] = <<>>, send[c] = <<>>, inHand[c] = <<>>, inbox[c] = <<>>
    PROVE  got'[c] = <<>> /\ send'[c] = <<>> /\ inHand'[c] = <<>> /\ inbox'[c] = <<>>
  <1> USE DEF deliveryVars
  <1>0. /\ got \in [Conns -> Seq(Message)] /\ send \in [Conns -> Seq(Message)]
        /\ inHand \in [Conns -> Seq(Message)] /\ inbox \in [Conns -> Seq(Message)]
    BY DEF TypeOK
  <1>1. CASE UNCHANGED vars
    BY <1>1 DEF vars
  <1>2. ASSUME NEW e \in Conns,
               Refuse(e) \/ Announce(e) \/ ReadFrame(e) \/ PublishFails(e) \/ HandlerStep(e)
        PROVE  got'[c] = <<>> /\ send'[c] = <<>> /\ inHand'[c] = <<>> /\ inbox'[c] = <<>>
    BY <1>0, <1>2 DEF Refuse, Announce, ReadFrame, PublishFails, HandlerStep, Pool, Subscribe,
       SubscribeFails, ReadError, Unsubscribe, RemoveFromPool, CloseSend, CloseConn
  <1>3. ASSUME NEW e \in Conns, Write(e) \/ WriteFails(e) \/ WriterReturns(e) \/ ClientLeaves(e)
        PROVE  got'[c] = <<>> /\ send'[c] = <<>> /\ inHand'[c] = <<>> /\ inbox'[c] = <<>>
    BY <1>0, <1>3 DEF Write, WriteFails, WriterReturns, ClientLeaves
  <1>4. ASSUME NEW e \in Conns, Callback(e) \/ Deliver(e)
        PROVE  got'[c] = <<>> /\ send'[c] = <<>> /\ inHand'[c] = <<>> /\ inbox'[c] = <<>>
    BY <1>0, <1>4 DEF Callback, Deliver
  <1>5. ASSUME NEW d \in Reverses,
               \/ HandleEstablished(d) \/ HandleClosed(d) \/ HandleFrame(d)
               \/ Crash(d) \/ Restart(d)
               \/ \E by \in Callbacks \cup Conns : DeleteEntry(d, by)
               \/ \E e \in Conns : BackendLeaves(d, e) \/ PumpEnds(d, e)
        PROVE  UNCHANGED deliveryVars
    BY <1>5 DEF HandleEstablished, HandleClosed, HandleFrame, Crash, Restart, DeleteEntry,
       BackendLeaves, PumpEnds
  <1>6. ASSUME NEW d \in Reverses, NEW e \in Conns, Pump(d, e)
        PROVE  got'[c] = <<>> /\ send'[c] = <<>> /\ inHand'[c] = <<>> /\ inbox'[c] = <<>>
    BY <1>6 DEF Pump, Recipients, Subscribed, Early
  <1> QED
    BY <1>1, <1>2, <1>3, <1>4, <1>5, <1>6 DEF Next, ProxyStep, WriterStep, CallbackStep

\* How a pipe is put together.
LEMMA PipeJoins ==
    ASSUME TypeOK, NEW c \in Conns
    PROVE  /\ (got[c] \o send[c]) \o inHand[c] = got[c] \o (send[c] \o inHand[c])
           /\ \A m \in Message :
                 Append(PipeTo(c), m) = ((got[c] \o send[c]) \o inHand[c]) \o Append(inbox[c], m)
  <1>1. /\ got[c] \in Seq(Message) /\ send[c] \in Seq(Message)
        /\ inHand[c] \in Seq(Message) /\ inbox[c] \in Seq(Message)
        /\ (got[c] \o send[c]) \o inHand[c] \in Seq(Message)
    BY PipeTypes
  <1>2. \A g, s, r \in Seq(Message) : (g \o s) \o r = g \o (s \o r)
    BY ConcatAssociative
  <1>3. \A g, s \in Seq(Message) : \A m \in Message : Append(g \o s, m) = g \o Append(s, m)
    BY MovesAlong
  <1>4. (got[c] \o send[c]) \o inHand[c] = got[c] \o (send[c] \o inHand[c])
    BY <1>1, <1>2, ZenonT(30)
  <1>5. \A m \in Message :
           Append(PipeTo(c), m) = ((got[c] \o send[c]) \o inHand[c]) \o Append(inbox[c], m)
    <2> DEFINE g == (got[c] \o send[c]) \o inHand[c]
    <2>1. g \in Seq(Message)
      BY <1>1
    <2> HIDE DEF g
    <2>2. \A m \in Message : Append(g \o inbox[c], m) = g \o Append(inbox[c], m)
      BY <1>1, <1>3, <2>1
    <2> QED
      BY <2>2 DEF g, PipeTo
  <1> QED
    BY <1>4, <1>5

\* A message that is pumped has a number.
LEMMA PumpedIsMessage ==
    ASSUME TypeOK, NEW d \in Reverses, NEW e \in Conns, Pump(d, e)
    PROVE  [from |-> d, conn |-> e, n |-> sent[<<d, e>>] + 1] \in Message
  <1>1. sent[<<d, e>>] \in 0..MaxMessages /\ MaxMessages \in Nat
    BY SocketAssumption DEF TypeOK
  <1>2. sent[<<d, e>>] < MaxMessages
    BY DEF Pump
  <1>3. sent[<<d, e>>] + 1 \in 1..MaxMessages
    BY <1>1, <1>2
  <1> QED
    BY <1>3 DEF Message

\* Who is served now was served before.
LEMMA ServedBefore ==
    ASSUME [Next]_vars, NEW c \in Conns, Served(c)'
    PROVE  Served(c)
  <1> USE DEF deliveryVars, handlerVars, reverseVars
  <1>1. ~panicked
    <2>1. ~panicked'
      BY DEF Served
    <2>2. CASE panicked' = panicked
      BY <2>1, <2>2
    <2>3. CASE ProxyStep
      BY <2>3 DEF ProxyStep
    <2>4. CASE UNCHANGED vars
      BY <2>2, <2>4 DEF vars
    <2>5. ASSUME NEW e \in Conns, ClientLeaves(e)
          PROVE  panicked' = panicked
      BY <2>5 DEF ClientLeaves
    <2>6. ASSUME NEW d \in Reverses,
               \/ HandleEstablished(d) \/ HandleClosed(d) \/ HandleFrame(d)
               \/ Crash(d) \/ Restart(d)
               \/ \E by \in Callbacks \cup Conns : DeleteEntry(d, by)
               \/ \E e \in Conns : Pump(d, e) \/ BackendLeaves(d, e) \/ PumpEnds(d, e)
          PROVE  panicked' = panicked
      BY <2>6 DEF HandleEstablished, HandleClosed, HandleFrame, Crash, Restart, DeleteEntry, Pump,
         BackendLeaves, PumpEnds
    <2> QED
      BY <2>2, <2>3, <2>4, <2>5, <2>6 DEF Next
  <1> QED
    BY <1>1, ClientsKept DEF Served

\* What a step does to the pipe of a client that stays.
LEMMA PipeEffect ==
    ASSUME TypeOK, [Next]_vars, NEW c \in Conns, Served(c)'
    PROVE  \/ /\ PipeTo(c)' = PipeTo(c) /\ dropped'[c] = dropped[c] /\ sent' = sent
              /\ Subscribed(c)' => Subscribed(c) \/ Early(c)
           \/ /\ PipeTo(c) = PipeTo(c)' \o inbox[c] /\ dropped'[c] = dropped[c] /\ ~Subscribed(c)'
           \/ \E x \in Message : /\ PipeTo(c) = ((got[c] \o send[c]) \o <<x>>) \o inbox[c]
                                 /\ PipeTo(c)' = (got[c] \o send[c]) \o inbox[c]
                                 /\ dropped'[c] = dropped[c] \cup {x}
                                 /\ sent' = sent /\ (Subscribed(c)' => Subscribed(c))
           \/ \E d \in Reverses, e \in Conns :
                 /\ Pump(d, e) /\ dropped' = dropped /\ (Subscribed(c)' => Subscribed(c))
                 /\ IF c \in Recipients(e)
                    THEN PipeTo(c)' = Append(PipeTo(c), [from |-> d, conn |-> e, n |-> sent[<<d, e>>] + 1])
                    ELSE PipeTo(c)' = PipeTo(c)
  <1> DEFINE Goal ==
           \/ /\ PipeTo(c)' = PipeTo(c) /\ dropped'[c] = dropped[c] /\ sent' = sent
              /\ Subscribed(c)' => Subscribed(c) \/ Early(c)
           \/ /\ PipeTo(c) = PipeTo(c)' \o inbox[c] /\ dropped'[c] = dropped[c] /\ ~Subscribed(c)'
           \/ \E x \in Message : /\ PipeTo(c) = ((got[c] \o send[c]) \o <<x>>) \o inbox[c]
                                 /\ PipeTo(c)' = (got[c] \o send[c]) \o inbox[c]
                                 /\ dropped'[c] = dropped[c] \cup {x}
                                 /\ sent' = sent /\ (Subscribed(c)' => Subscribed(c))
           \/ \E d \in Reverses, e \in Conns :
                 /\ Pump(d, e) /\ dropped' = dropped /\ (Subscribed(c)' => Subscribed(c))
                 /\ IF c \in Recipients(e)
                    THEN PipeTo(c)' = Append(PipeTo(c), [from |-> d, conn |-> e, n |-> sent[<<d, e>>] + 1])
                    ELSE PipeTo(c)' = PipeTo(c)
  <1> USE DEF deliveryVars, handlerVars, reverseVars
  <1>0. /\ got \in [Conns -> Seq(Message)] /\ send \in [Conns -> Seq(Message)]
        /\ inHand \in [Conns -> Seq(Message)] /\ inbox \in [Conns -> Seq(Message)]
        /\ dropped \in [Conns -> SUBSET Message] /\ pc \in [Conns -> Pcs]
    BY DEF TypeOK
  <1>a. Subscribed(c)' => Subscribed(c) \/ Early(c) \/ panicked
    <2>1. ASSUME pc'[c] = "unsubscribing"
          PROVE  pc[c] \in {"open", "unsubscribing"}
      <3>1. CASE pc' = pc
        BY <2>1, <3>1
      <3>2. ASSUME NEW e \in Conns, PublishFails(e) \/ ReadError(e)
            PROVE  pc[c] \in {"open", "unsubscribing"}
        BY <1>0, <2>1, <3>2 DEF PublishFails, ReadError
      <3>3. ASSUME NEW e \in Conns,
                   \/ Refuse(e) \/ Announce(e) \/ ReadFrame(e) \/ Pool(e) \/ Subscribe(e)
                   \/ SubscribeFails(e) \/ Unsubscribe(e) \/ RemoveFromPool(e) \/ CloseSend(e)
                   \/ CloseConn(e) \/ WriteFails(e)
            PROVE  pc[c] \in {"open", "unsubscribing"}
        BY <1>0, <2>1, <3>3 DEF Refuse, Announce, ReadFrame, Pool, Subscribe, SubscribeFails,
           Unsubscribe, RemoveFromPool, CloseSend, CloseConn, WriteFails
      <3> QED
        BY <3>1, <3>2, <3>3, HandlerKept DEF HandlerStep
    <2>2. pc'[c] = "open" => pc[c] \in {"pooled", "open"}
      BY PcKept
    <2> QED
      BY <2>1, <2>2 DEF Subscribed, Early
  <1>b. ~panicked /\ c \notin gone \cup shut
    BY ServedBefore DEF Served
  <1>1. ASSUME PipeTo(c)' = PipeTo(c), dropped'[c] = dropped[c], sent' = sent
        PROVE  Goal
    BY <1>1, <1>a, <1>b
  <1>2. ASSUME UNCHANGED <<got, send, inHand, inbox>>
        PROVE  PipeTo(c)' = PipeTo(c)
    BY <1>2 DEF PipeTo
  <1>3. CASE UNCHANGED vars
    BY <1>1, <1>2, <1>3 DEF vars
  <1>4. ASSUME NEW e \in Conns,
               \/ Refuse(e) \/ Announce(e) \/ ReadFrame(e) \/ PublishFails(e)
               \/ Pool(e) \/ Subscribe(e) \/ SubscribeFails(e) \/ ReadError(e)
               \/ RemoveFromPool(e) \/ CloseSend(e) \/ CloseConn(e)
               \/ WriterReturns(e) \/ ClientLeaves(e)
        PROVE  Goal
    <2>1. UNCHANGED <<got, send, inHand, inbox, dropped, sent>>
      BY <1>4 DEF Refuse, Announce, ReadFrame, PublishFails, Pool, Subscribe, SubscribeFails,
         ReadError, RemoveFromPool, CloseSend, CloseConn, WriterReturns, ClientLeaves
    <2> QED
      BY <1>1, <1>2, <2>1
  <1>5. ASSUME NEW e \in Conns, Unsubscribe(e)
        PROVE  Goal
    <2>1. CASE e = c
      <3>1. /\ UNCHANGED <<got, send, inHand, dropped>> /\ inbox'[c] = <<>>
            /\ ~Subscribed(c)'
        BY <1>0, <1>5, <2>1 DEF Unsubscribe, Subscribed
      <3>2. PipeTo(c)' = ((got[c] \o send[c]) \o inHand[c]) \o <<>>
        BY <3>1 DEF PipeTo
      <3>3. PipeTo(c)' = (got[c] \o send[c]) \o inHand[c]
        BY <3>2, PipeTypes, MovesAlong
      <3> QED
        BY <3>1, <3>3 DEF PipeTo
    <2>2. CASE e # c
      <3>1. UNCHANGED <<got, send, inHand, dropped, sent>> /\ inbox'[c] = inbox[c]
        BY <1>0, <1>5, <2>2 DEF Unsubscribe
      <3> QED
        BY <1>1, <3>1 DEF PipeTo
    <2> QED
      BY <2>1, <2>2
  <1>6. ASSUME NEW e \in Conns, Write(e)
        PROVE  Goal
    <2>1. CASE e = c
      <3>1. /\ UNCHANGED <<inbox, inHand, dropped, sent>> /\ send[c] # <<>>
            /\ got'[c] = Append(got[c], Head(send[c])) /\ send'[c] = Tail(send[c])
        BY <1>0, <1>6, <1>b, <2>1 DEF Write, Unsent
      <3>2. Append(got[c], Head(send[c])) \o Tail(send[c]) = got[c] \o send[c]
        BY <3>1, PipeTypes, MovesAlong, ZenonT(30)
      <3> QED
        BY <1>1, <3>1, <3>2 DEF PipeTo
    <2>2. CASE e # c
      <3>1. UNCHANGED <<inbox, inHand, dropped, sent>> /\ got'[c] = got[c] /\ send'[c] = send[c]
        BY <1>0, <1>6, <2>2 DEF Write
      <3> QED
        BY <1>1, <3>1 DEF PipeTo
    <2> QED
      BY <2>1, <2>2
  <1>7. ASSUME NEW e \in Conns, WriteFails(e)
        PROVE  Goal
    <2>1. e # c
      BY <1>7 DEF WriteFails, Served
    <2>2. UNCHANGED <<inbox, inHand, dropped, sent, got>> /\ send'[c] = send[c]
      BY <1>0, <1>7, <2>1 DEF WriteFails
    <2> QED
      BY <1>1, <2>2 DEF PipeTo
  <1>8. ASSUME NEW e \in Conns, Callback(e)
        PROVE  Goal
    <2>1. CASE e = c
      <3>1. /\ UNCHANGED <<got, send, dropped, sent>> /\ inbox[c] # <<>> /\ inHand[c] = <<>>
            /\ inHand'[c] = <<Head(inbox[c])>> /\ inbox'[c] = Tail(inbox[c])
        BY <1>0, <1>8, <2>1 DEF Callback
      <3>2. /\ ((got[c] \o send[c]) \o <<Head(inbox[c])>>) \o Tail(inbox[c])
                  = (got[c] \o send[c]) \o inbox[c]
            /\ (got[c] \o send[c]) \o <<>> = got[c] \o send[c]
        BY <3>1, PipeTypes, MovesAlong, ZenonT(30)
      <3> QED
        BY <1>1, <3>1, <3>2 DEF PipeTo
    <2>2. CASE e # c
      <3>1. UNCHANGED <<got, send, dropped, sent>> /\ inbox'[c] = inbox[c] /\ inHand'[c] = inHand[c]
        BY <1>0, <1>8, <2>2 DEF Callback
      <3> QED
        BY <1>1, <3>1 DEF PipeTo
    <2> QED
      BY <2>1, <2>2
  <1>9. ASSUME NEW e \in Conns, Deliver(e)
        PROVE  Goal
    <2>0. UNCHANGED <<got, inbox, sent, pc>>
      BY <1>9 DEF Deliver
    <2>1. CASE e # c
      <3>1. send'[c] = send[c] /\ inHand'[c] = inHand[c] /\ dropped'[c] = dropped[c]
        BY <1>0, <1>9, <2>1 DEF Deliver
      <3> QED
        BY <1>1, <2>0, <3>1 DEF PipeTo
    <2>2. CASE e = c /\ HasRoom(c)
      <3>1. send'[c] = send[c] \o inHand[c] /\ inHand'[c] = <<>> /\ dropped'[c] = dropped[c]
        BY <1>0, <1>9, <2>2 DEF Deliver, Sent, Served
      <3>2. got[c] \o (send[c] \o inHand[c]) = (got[c] \o send[c]) \o inHand[c]
        BY PipeJoins
      <3>3. ((got[c] \o send[c]) \o inHand[c]) \o <<>> = (got[c] \o send[c]) \o inHand[c]
        BY PipeTypes, MovesAlong
      <3> QED
        BY <1>1, <2>0, <3>1, <3>2, <3>3 DEF PipeTo
    <2>3. CASE e = c /\ ~HasRoom(c)
      <3>1. /\ inHand[c] # <<>> /\ send'[c] = send[c] /\ inHand'[c] = <<>>
            /\ dropped'[c] = dropped[c] \cup {inHand[c][1]}
            /\ panicked' = panicked
        BY <1>0, <1>9, <2>3 DEF Deliver, Served
      <3>2. inHand[c] = <<inHand[c][1]>> /\ inHand[c][1] \in Message
        BY <3>1, PipeTypes, JustOne
      <3>3. (got[c] \o send[c]) \o <<>> = got[c] \o send[c]
        BY PipeTypes, MovesAlong
      <3>4. PipeTo(c) = ((got[c] \o send[c]) \o <<inHand[c][1]>>) \o inbox[c]
        BY <3>2 DEF PipeTo
      <3>5. PipeTo(c)' = (got[c] \o send[c]) \o inbox[c]
        BY <2>0, <3>1, <3>3 DEF PipeTo
      <3>6. Subscribed(c)' => Subscribed(c)
        BY <2>0, <3>1 DEF Subscribed
      <3> QED
        BY <2>0, <3>1, <3>2, <3>4, <3>5, <3>6
    <2> QED
      BY <2>1, <2>2, <2>3
  <1>10. ASSUME NEW d \in Reverses,
               \/ HandleEstablished(d) \/ HandleClosed(d) \/ HandleFrame(d)
               \/ Crash(d) \/ Restart(d)
               \/ \E by \in Callbacks \cup Conns : DeleteEntry(d, by)
               \/ \E e \in Conns : BackendLeaves(d, e) \/ PumpEnds(d, e)
        PROVE  Goal
    <2>1. UNCHANGED <<got, send, inHand, inbox, dropped, sent>>
      BY <1>10 DEF HandleEstablished, HandleClosed, HandleFrame, Crash, Restart, DeleteEntry,
         BackendLeaves, PumpEnds
    <2> QED
      BY <1>1, <1>2, <2>1
  <1>11. ASSUME NEW d \in Reverses, NEW e \in Conns, Pump(d, e)
        PROVE  Goal
    <2>1. UNCHANGED <<got, send, inHand, dropped, pc, panicked>>
      BY <1>11 DEF Pump
    <2>2. Subscribed(c)' => Subscribed(c)
      BY <2>1 DEF Subscribed
    <2>3. CASE c \notin Recipients(e)
      <3>1. inbox'[c] = inbox[c]
        BY <1>11, <2>3 DEF Pump
      <3> QED
        BY <1>11, <2>1, <2>2, <2>3, <3>1 DEF PipeTo
    <2>4. CASE c \in Recipients(e)
      <3> DEFINE m == [from |-> d, conn |-> e, n |-> sent[<<d, e>>] + 1]
      <3>1. inbox'[c] = Append(inbox[c], m)
        BY <1>11, <2>4 DEF Pump
      <3>2. m \in Message
        BY <1>11, PumpedIsMessage
      <3>3. PipeTo(c)' = Append(PipeTo(c), m)
        <4>1. PipeTo(c)' = ((got[c] \o send[c]) \o inHand[c]) \o Append(inbox[c], m)
          BY <2>1, <3>1 DEF PipeTo
        <4>2. Append(((got[c] \o send[c]) \o inHand[c]) \o inbox[c], m)
                 = ((got[c] \o send[c]) \o inHand[c]) \o Append(inbox[c], m)
          BY <3>2, PipeJoins DEF PipeTo
        <4> QED
          BY <4>1, <4>2 DEF PipeTo
      <3> QED
        BY <1>11, <2>1, <2>2, <2>4, <3>3
    <2> QED
      BY <2>3, <2>4
  <1> QED
    BY <1>3, <1>4, <1>5, <1>6, <1>7, <1>8, <1>9, <1>10, <1>11
    DEF Next, ProxyStep, HandlerStep, WriterStep, CallbackStep


\* What a client has got is written to it while it is there.
LEMMA GotEffect ==
    ASSUME TypeOK, [Next]_vars, NEW c \in Conns
    PROVE  /\ got'[c] = got[c] \/ Served(c)'
           /\ dropped[c] \subseteq dropped'[c]
  <1> USE DEF deliveryVars, handlerVars, reverseVars
  <1>0. /\ got \in [Conns -> Seq(Message)] /\ dropped \in [Conns -> SUBSET Message]
    BY DEF TypeOK
  <1>1. CASE UNCHANGED vars
    BY <1>1 DEF vars
  <1>2. ASSUME NEW e \in Conns,
               \/ Refuse(e) \/ Announce(e) \/ ReadFrame(e) \/ PublishFails(e) \/ HandlerStep(e)
               \/ WriteFails(e) \/ WriterReturns(e) \/ Callback(e) \/ ClientLeaves(e)
        PROVE  UNCHANGED <<got, dropped>>
    BY <1>2 DEF Refuse, Announce, ReadFrame, PublishFails, HandlerStep, Pool, Subscribe,
       SubscribeFails, ReadError, Unsubscribe, RemoveFromPool, CloseSend, CloseConn,
       WriteFails, WriterReturns, Callback, ClientLeaves
  <1>3. ASSUME NEW e \in Conns, Deliver(e)
        PROVE  got' = got /\ dropped[c] \subseteq dropped'[c]
    BY <1>0, <1>3 DEF Deliver
  <1>4. ASSUME NEW e \in Conns, Write(e), ~panicked
        PROVE  dropped' = dropped /\ (got'[c] = got[c] \/ Served(c)')
    <2>1. dropped' = dropped /\ panicked' = panicked /\ UNCHANGED <<gone, shut>>
      BY <1>4 DEF Write, clientVars
    <2>2. CASE e # c \/ c \in gone
      BY <1>0, <1>4, <2>1, <2>2 DEF Write
    <2>3. CASE e = c /\ c \notin gone
      BY <1>4, <2>1, <2>3 DEF Write, Served
    <2> QED
      BY <2>1, <2>2, <2>3
  <1>5. ASSUME NEW d \in Reverses,
               \/ HandleEstablished(d) \/ HandleClosed(d) \/ HandleFrame(d)
               \/ Crash(d) \/ Restart(d)
               \/ \E by \in Callbacks \cup Conns : DeleteEntry(d, by)
               \/ \E e \in Conns : Pump(d, e) \/ BackendLeaves(d, e) \/ PumpEnds(d, e)
        PROVE  UNCHANGED <<got, dropped>>
    BY <1>5 DEF HandleEstablished, HandleClosed, HandleFrame, Crash, Restart, DeleteEntry,
       Pump, BackendLeaves, PumpEnds
  <1> QED
    BY <1>1, <1>2, <1>3, <1>4, <1>5 DEF Next, ProxyStep, WriterStep, CallbackStep

\* The numbers of messages.
LEMMA MessageNumbers ==
    /\ MsgNum \in [Message -> Nat]
    /\ \A m \in Message : MsgSrc[m] = <<m.from, m.conn>> /\ MsgNum[m] = m.n
                          /\ MsgSrc[m] \in Reverses \X Conns
    /\ Message \subseteq [from : Reverses, conn : Conns, n : Nat]
  <1>1. \A m \in Message : m.from \in Reverses /\ m.conn \in Conns /\ m.n \in Nat
    BY SocketAssumption DEF Message
  <1>2. Message \subseteq [from : Reverses, conn : Conns, n : Nat]
    BY SocketAssumption DEF Message
  <1> QED
    BY <1>1, <1>2 DEF MsgSrc, MsgNum

\* Every element of q is one of p.
OfPipe(q, p) == \A i \in DOMAIN q : \E k \in DOMAIN p : q[i] = p[k]

\* What stays in a sequence was in it.
LEMMA OfPipeBefore ==
    ASSUME NEW S, NEW a \in Seq(S), NEW r \in Seq(S)
    PROVE  OfPipe(a, a \o r)
  <1>1. \A i \in DOMAIN a : i \in DOMAIN (a \o r) /\ (a \o r)[i] = a[i]
    OBVIOUS
  <1> QED
    BY <1>1 DEF OfPipe

\* Taking an element out adds none, and an element of a longer sequence is the last or
\* was there.
LEMMA OfPipeParts ==
    ASSUME NEW S, NEW a \in Seq(S), NEW r \in Seq(S), NEW x \in S
    PROVE  /\ OfPipe(a \o r, (a \o <<x>>) \o r)
           /\ \A i \in DOMAIN Append(a, x) : Append(a, x)[i] = x \/ \E k \in DOMAIN a : Append(a, x)[i] = a[k]
  <1>2. OfPipe(a \o r, (a \o <<x>>) \o r)
    <2>1. /\ Len(a) \in Nat /\ Len(r) \in Nat
          /\ DOMAIN (a \o r) = 1..(Len(a) + Len(r))
          /\ DOMAIN ((a \o <<x>>) \o r) = 1..(Len(a) + 1 + Len(r))
      OBVIOUS
    <2>2. \A i \in 1..Len(a) : ((a \o <<x>>) \o r)[i] = a[i] /\ (a \o r)[i] = a[i]
      OBVIOUS
    <2>3. \A i \in (Len(a) + 1)..(Len(a) + Len(r)) :
             ((a \o <<x>>) \o r)[i + 1] = r[i - Len(a)] /\ (a \o r)[i] = r[i - Len(a)]
      OBVIOUS
    <2>4. \A i \in 1..(Len(a) + Len(r)) :
             \/ i \in 1..Len(a) /\ i \in 1..(Len(a) + 1 + Len(r))
             \/ i \in (Len(a) + 1)..(Len(a) + Len(r)) /\ i + 1 \in 1..(Len(a) + 1 + Len(r))
      BY <2>1
    <2> QED
      BY <2>1, <2>2, <2>3, <2>4 DEF OfPipe
  <1>3. \A i \in DOMAIN Append(a, x) : Append(a, x)[i] = x \/ \E k \in DOMAIN a : Append(a, x)[i] = a[k]
    BY QueueAppend
  <1> QED
    BY <1>2, <1>3

\* What a step keeps of the messages for a client.
LEMMA MessagesFlowStep == TypeOK /\ MessagesFlow /\ [Next]_vars => MessagesFlow'
  <1> SUFFICES ASSUME TypeOK, MessagesFlow, [Next]_vars, NEW c \in Conns
               PROVE  /\ Early(c)' => /\ got'[c] = <<>> /\ send'[c] = <<>>
                                      /\ inHand'[c] = <<>> /\ inbox'[c] = <<>>
                      /\ Served(c)' =>
                           /\ \A i \in DOMAIN PipeTo(c)' : reply'[PipeTo(c)'[i].conn] = reply'[c]
                           /\ Sorted(PipeTo(c)', MsgSrc, MsgNum)
                           /\ NoGap(PipeTo(c)', dropped'[c], MsgSrc, MsgNum, Reverses \X Conns)
                           /\ Subscribed(c)' =>
                                 \A b \in Reverses \X Conns :
                                    UpTo(PipeTo(c)', dropped'[c], MsgSrc, MsgNum, b, sent'[b])
    BY DEF MessagesFlow
  <1>1. ASSUME Early(c)'
        PROVE  got'[c] = <<>> /\ send'[c] = <<>> /\ inHand'[c] = <<>> /\ inbox'[c] = <<>>
    <2>1. Early(c)
      BY <1>1, PcKept
    <2> QED
      BY <2>1, EarlyKept DEF MessagesFlow
  <1> SUFFICES ASSUME Served(c)'
               PROVE  /\ \A i \in DOMAIN PipeTo(c)' : reply[PipeTo(c)'[i].conn] = reply[c]
                      /\ Sorted(PipeTo(c)', MsgSrc, MsgNum)
                      /\ NoGap(PipeTo(c)', dropped'[c], MsgSrc, MsgNum, Reverses \X Conns)
                      /\ Subscribed(c)' =>
                            \A b \in Reverses \X Conns :
                               UpTo(PipeTo(c)', dropped'[c], MsgSrc, MsgNum, b, sent'[b])
    <2>1. reply' = reply
      BY ClientsKept
    <2> QED
      BY <1>1, <2>1
  <1> DEFINE B == Reverses \X Conns
             p == PipeTo(c)
             q == PipeTo(c)'
             D == dropped[c]
             E == dropped'[c]
             Goal == /\ \A i \in DOMAIN q : reply[q[i].conn] = reply[c]
                     /\ Sorted(q, MsgSrc, MsgNum)
                     /\ NoGap(q, E, MsgSrc, MsgNum, B)
                     /\ Subscribed(c)' => \A b \in B : UpTo(q, E, MsgSrc, MsgNum, b, sent'[b])
  <1>2. /\ p \in Seq(Message) /\ q \in Seq(Message) /\ \A y \in D : y \in E
        /\ MsgNum \in [Message -> Nat] /\ sent \in [B -> Nat]
    <2>1. TypeOK'
      BY TypeStep
    <2>2. (got'[c] \in Seq(Message) /\ send'[c] \in Seq(Message)) /\ inHand'[c] \in Seq(Message)
             /\ inbox'[c] \in Seq(Message)
      BY <2>1 DEF TypeOK
    <2>3. q \in Seq(Message)
      BY <2>2, QueueConcat DEF PipeTo
    <2>4. sent \in [B -> Nat]
      BY SocketAssumption DEF TypeOK
    <2> QED
      BY <2>3, <2>4, PipeTypes, GotEffect, MessageNumbers
  <1>3. /\ \A i \in DOMAIN p : reply[p[i].conn] = reply[c]
        /\ Sorted(p, MsgSrc, MsgNum) /\ NoGap(p, D, MsgSrc, MsgNum, B)
        /\ Subscribed(c) => \A b \in B : UpTo(p, D, MsgSrc, MsgNum, b, sent[b])
        /\ Early(c) => p = <<>>
    <2>1. Served(c)
      BY ServedBefore
    <2>2. ASSUME Early(c)
          PROVE  p = <<>>
      <3>1. got[c] = <<>> /\ send[c] = <<>> /\ inHand[c] = <<>> /\ inbox[c] = <<>>
        BY <2>2 DEF MessagesFlow
      <3>2. <<>> \in Seq(Message) /\ <<>> \o <<>> = <<>>
        BY MovesAlong
      <3> QED
        BY <3>1, <3>2 DEF PipeTo
    <2> QED
      BY <2>1, <2>2 DEF MessagesFlow
  <1>4. ASSUME /\ q = p /\ E = D /\ sent' = sent
               /\ Subscribed(c)' => Subscribed(c) \/ Early(c)
        PROVE  Goal
    <2>1. Early(c) => \A b \in B : UpTo(q, E, MsgSrc, MsgNum, b, sent'[b])
      BY <1>3, <1>4 DEF UpTo
    <2> HIDE DEF p, q, D, E
    <2>2. /\ \A i \in DOMAIN q : reply[q[i].conn] = reply[c]
          /\ Sorted(q, MsgSrc, MsgNum) /\ NoGap(q, E, MsgSrc, MsgNum, B)
      BY <1>3, <1>4
    <2>3. Subscribed(c) => \A b \in B : UpTo(q, E, MsgSrc, MsgNum, b, sent'[b])
      BY <1>3, <1>4
    <2> QED
      BY <1>4, <2>1, <2>2, <2>3
  <1>5. ASSUME p = q \o inbox[c], E = D, ~Subscribed(c)'
        PROVE  Goal
    <2>1. inbox[c] \in Seq(Message)
      BY PipeTypes
    <2> HIDE DEF p, q, D, E
    <2>2. Sorted(q, MsgSrc, MsgNum) /\ NoGap(q, D, MsgSrc, MsgNum, B)
      BY <1>2, <1>3, <1>5, <2>1, BeforeInOrder
    <2>3. OfPipe(q, p)
      BY <1>2, <1>5, <2>1, OfPipeBefore
    <2>4. \A i \in DOMAIN q : reply[q[i].conn] = reply[c]
      BY <1>3, <2>3 DEF OfPipe
    <2>5. NoGap(q, E, MsgSrc, MsgNum, B)
      BY <1>5, <2>2
    <2> QED
      BY <1>5, <2>2, <2>4, <2>5
  <1>6. ASSUME NEW x \in Message,
               /\ p = ((got[c] \o send[c]) \o <<x>>) \o inbox[c]
               /\ q = (got[c] \o send[c]) \o inbox[c]
               /\ E = D \cup {x}
               /\ sent' = sent /\ (Subscribed(c)' => Subscribed(c))
        PROVE  Goal
    <2> DEFINE a == got[c] \o send[c]
               r == inbox[c]
    <2>1. a \in Seq(Message) /\ r \in Seq(Message)
      BY PipeTypes
    <2>2. p = (a \o <<x>>) \o r /\ q = a \o r /\ x \in E
      BY <1>6
    <2> HIDE DEF p, q, D, E, a, r
    <2>3. /\ Sorted(q, MsgSrc, MsgNum) /\ NoGap(q, E, MsgSrc, MsgNum, B)
          /\ \A b, last : UpTo(p, D, MsgSrc, MsgNum, b, last) => UpTo(q, E, MsgSrc, MsgNum, b, last)
      BY <1>2, <1>3, <2>1, <2>2, WithoutInOrder, ZenonT(30)
    <2>4. OfPipe(q, p)
      BY <2>1, <2>2, OfPipeParts
    <2> QED
      BY <1>3, <1>6, <2>3, <2>4, ZenonT(30) DEF OfPipe
  <1>7. ASSUME NEW d \in Reverses, NEW e \in Conns,
               /\ Pump(d, e) /\ dropped' = dropped /\ (Subscribed(c)' => Subscribed(c))
               /\ IF c \in Recipients(e)
                  THEN q = Append(p, [from |-> d, conn |-> e, n |-> sent[<<d, e>>] + 1])
                  ELSE q = p
        PROVE  Goal
    <2>1. E = D
      BY <1>7
    <2>2. /\ sent' = [sent EXCEPT ![<<d, e>>] = sent[<<d, e>>] + 1] /\ <<d, e>> \in B
          /\ sent[<<d, e>>] \in Nat
      BY <1>2, <1>7 DEF Pump
    <2>3. /\ sent'[<<d, e>>] = sent[<<d, e>>] + 1
          /\ \A b \in B : b # <<d, e>> => sent'[b] = sent[b]
      BY <1>2, <2>2
    <2>4. CASE c \in Recipients(e)
      <3> DEFINE x == [from |-> d, conn |-> e, n |-> sent[<<d, e>>] + 1]
      <3>1. q = Append(p, x) /\ x \in Message
        BY <1>7, <2>4, PumpedIsMessage
      <3>2. x.n = sent[<<d, e>>] + 1 /\ x.conn = e /\ x.from = d
        OBVIOUS
      <3>3. MsgSrc[x] = <<d, e>> /\ MsgNum[x] = sent[<<d, e>>] + 1
        BY <3>1, <3>2, MessageNumbers
      <3>4. Subscribed(c) /\ reply[e] = reply[c]
        BY <2>4 DEF Recipients
      <3> HIDE DEF p, q, D, E, x
      <3>5. UpTo(p, D, MsgSrc, MsgNum, MsgSrc[x], sent[<<d, e>>])
        BY <1>3, <2>2, <3>3, <3>4
      <3>6. /\ Sorted(q, MsgSrc, MsgNum) /\ NoGap(q, D, MsgSrc, MsgNum, B)
            /\ UpTo(q, D, MsgSrc, MsgNum, <<d, e>>, sent[<<d, e>>] + 1)
            /\ \A b, l : b # <<d, e>> /\ UpTo(p, D, MsgSrc, MsgNum, b, l) => UpTo(q, D, MsgSrc, MsgNum, b, l)
        BY <1>2, <1>3, <2>2, <3>1, <3>3, <3>5, NextInOrder
      <3>7. \A b \in B : UpTo(q, E, MsgSrc, MsgNum, b, sent'[b])
        BY <1>3, <2>1, <2>3, <3>4, <3>6
      <3>8. \A i \in DOMAIN q : q[i] = x \/ \E k \in DOMAIN p : q[i] = p[k]
        BY <1>2, <3>1, OfPipeParts
      <3>9. \A i \in DOMAIN q : reply[q[i].conn] = reply[c]
        BY <1>3, <3>2, <3>4, <3>8
      <3> QED
        BY <2>1, <3>6, <3>7, <3>9
    <2>5. CASE c \notin Recipients(e)
      <3>1. q = p
        BY <1>7, <2>5
      <3>2. Subscribed(c) => reply[e] # reply[c]
        BY <2>5 DEF Recipients
      <3>3. \A i \in DOMAIN p : MsgSrc[p[i]] = <<d, e>> => reply[e] = reply[c]
        <4>1. \A i \in DOMAIN p : p[i] \in Message
          BY <1>2
        <4> HIDE DEF p
        <4>2. \A i \in DOMAIN p : MsgSrc[p[i]] = <<p[i].from, p[i].conn>>
          BY <4>1, MessageNumbers
        <4> QED
          BY <1>3, <4>2
      <3> HIDE DEF p, q, D, E
      <3>4. Subscribed(c) => UpTo(p, D, MsgSrc, MsgNum, <<d, e>>, sent'[<<d, e>>])
        BY <3>2, <3>3 DEF UpTo
      <3>5. Subscribed(c)' => \A b \in B : UpTo(q, E, MsgSrc, MsgNum, b, sent'[b])
        BY <1>3, <1>7, <2>1, <2>3, <3>1, <3>4
      <3> QED
        BY <1>3, <2>1, <3>1, <3>5
    <2> QED
      BY <2>4, <2>5
  <1> QED
    BY <1>4, <1>5, <1>6, <1>7, PipeEffect


-------------------------------------------------------------------------------
(* Messages keep their order.                                              *)

\* What MessagesInOrder says of one client.
GotInOrder(c) ==
    \A i, j \in DOMAIN got[c] :
        LET m == got[c][i]
            l == got[c][j]
        IN /\ reply[m.conn] = reply[c]
           /\ i < j /\ m.from = l.from /\ m.conn = l.conn =>
                /\ m.n < l.n
                /\ \A n \in (m.n + 1)..(l.n - 1) :
                      LET skipped == [m EXCEPT !.n = n]
                      IN skipped \in dropped[c] \/ \E k \in i..j : got[c][k] = skipped

\* A message is known by where it comes from and its number.
LEMMA SameMessage ==
    ASSUME NEW m \in Message, NEW y \in Message, NEW n,
           MsgSrc[y] = MsgSrc[m], MsgNum[y] = n
    PROVE  y = [m EXCEPT !.n = n]
  <1>1. y.from = m.from /\ y.conn = m.conn /\ y.n = n
    BY MessageNumbers
  <1>2. /\ y \in [from : Reverses, conn : Conns, n : Nat]
        /\ m \in [from : Reverses, conn : Conns, n : Nat]
    BY MessageNumbers
  <1>3. [m EXCEPT !.n = n] = [from |-> m.from, conn |-> m.conn, n |-> n]
    BY <1>2
  <1>4. y = [from |-> y.from, conn |-> y.conn, n |-> y.n]
    BY <1>2
  <1> QED
    BY <1>1, <1>3, <1>4

\* What is got is the beginning of the pipe.
LEMMA PipeBegins ==
    ASSUME TypeOK, NEW c \in Conns
    PROVE  \E r \in Seq(Message) : PipeTo(c) = got[c] \o r
  <1>1. /\ got[c] \in Seq(Message) /\ send[c] \in Seq(Message)
        /\ inHand[c] \in Seq(Message) /\ inbox[c] \in Seq(Message)
        /\ got[c] \o send[c] \in Seq(Message)
    BY PipeTypes
  <1> DEFINE g == got[c]
             s == send[c]
             h == inHand[c]
             i == inbox[c]
  <1>2. g \in Seq(Message) /\ s \in Seq(Message) /\ h \in Seq(Message) /\ i \in Seq(Message)
    BY <1>1
  <1>3. PipeTo(c) = ((g \o s) \o h) \o i
    BY DEF PipeTo
  <1> HIDE DEF g, s, h, i
  <1>4. \A t, u, v \in Seq(Message) : t \o u \in Seq(Message) /\ (t \o u) \o v = t \o (u \o v)
    BY ConcatAssociative, QueueConcat
  <1> DEFINE sh == s \o h
             shi == sh \o i
  <1>5. sh \in Seq(Message) /\ (g \o s) \o h = g \o sh
    BY <1>2, <1>4, SMTT(30)
  <1> HIDE DEF sh
  <1>6. shi \in Seq(Message) /\ (g \o sh) \o i = g \o shi
    BY <1>2, <1>4, <1>5, SMTT(30)
  <1> QED
    BY <1>3, <1>5, <1>6 DEF g

\* A client that is served has got its messages in order.
LEMMA ServedInOrder ==
    TypeOK /\ MessagesFlow => \A c \in Conns : Served(c) => GotInOrder(c)
  <1> SUFFICES ASSUME TypeOK, MessagesFlow, NEW c \in Conns, Served(c)
               PROVE  GotInOrder(c)
    OBVIOUS
  <1> DEFINE g == got[c]
             D == dropped[c]
             B == Reverses \X Conns
  <1>1. PICK r \in Seq(Message) : PipeTo(c) = g \o r
    BY PipeBegins
  <1>2. g \in Seq(Message) /\ D \subseteq Message /\ MsgNum \in [Message -> Nat]
    BY PipeTypes, MessageNumbers DEF TypeOK
  <1>3. /\ \A i \in DOMAIN PipeTo(c) : reply[PipeTo(c)[i].conn] = reply[c]
        /\ Sorted(PipeTo(c), MsgSrc, MsgNum) /\ NoGap(PipeTo(c), D, MsgSrc, MsgNum, B)
    BY DEF MessagesFlow
  <1> HIDE DEF g, D, B
  <1>4. Sorted(g, MsgSrc, MsgNum) /\ NoGap(g, D, MsgSrc, MsgNum, B)
    BY <1>1, <1>2, <1>3, BeforeInOrder
  <1>5. OfPipe(g, PipeTo(c))
    BY <1>1, <1>2, OfPipeBefore
  <1>8. Between(g, D, MsgSrc, MsgNum, B)
    BY <1>2, <1>4, BetweenInOrder
  <1>6. ASSUME NEW i \in DOMAIN g, NEW j \in DOMAIN g, i < j,
               g[i].from = g[j].from, g[i].conn = g[j].conn
        PROVE  /\ g[i].n < g[j].n
               /\ \A n \in (g[i].n + 1)..(g[j].n - 1) :
                     [g[i] EXCEPT !.n = n] \in D \/ \E k \in i..j : g[k] = [g[i] EXCEPT !.n = n]
    <2>1. g[i] \in Message /\ g[j] \in Message /\ i \in Nat /\ j \in Nat
      BY <1>2
    <2>2. /\ MsgSrc[g[i]] = MsgSrc[g[j]] /\ MsgSrc[g[i]] \in B
          /\ MsgNum[g[i]] = g[i].n /\ MsgNum[g[j]] = g[j].n
      BY <1>6, <2>1, MessageNumbers DEF B
    <2>3. /\ MsgNum[g[i]] < MsgNum[g[j]]
          /\ \A n \in (MsgNum[g[i]] + 1)..(MsgNum[g[j]] - 1) :
                \/ \E y \in D : MsgSrc[y] = MsgSrc[g[i]] /\ MsgNum[y] = n
                \/ \E k \in (i + 1)..(j - 1) :
                      k \in DOMAIN g /\ MsgSrc[g[k]] = MsgSrc[g[i]] /\ MsgNum[g[k]] = n
      BY <1>6, <1>8, <2>2 DEF Between
    <2>4. ASSUME NEW n \in (g[i].n + 1)..(g[j].n - 1)
          PROVE  [g[i] EXCEPT !.n = n] \in D \/ \E k \in i..j : g[k] = [g[i] EXCEPT !.n = n]
      <3>1. ASSUME NEW y \in D, MsgSrc[y] = MsgSrc[g[i]], MsgNum[y] = n
            PROVE  [g[i] EXCEPT !.n = n] \in D
        <4>1. y \in Message
          BY <1>2
        <4>2. y = [g[i] EXCEPT !.n = n]
          BY <2>1, <3>1, <4>1, SameMessage
        <4> QED
          BY <4>2
      <3>2. ASSUME NEW k \in (i + 1)..(j - 1), k \in DOMAIN g,
                   MsgSrc[g[k]] = MsgSrc[g[i]], MsgNum[g[k]] = n
            PROVE  \E l \in i..j : g[l] = [g[i] EXCEPT !.n = n]
        <4>1. g[k] \in Message
          BY <1>2, <3>2
        <4>2. g[k] = [g[i] EXCEPT !.n = n]
          BY <2>1, <3>2, <4>1, SameMessage
        <4>3. k \in i..j
          BY <2>1
        <4> QED
          BY <4>2, <4>3
      <3> QED
        BY <2>2, <2>3, <3>1, <3>2
    <2> QED
      BY <2>2, <2>3, <2>4
  <1>7. \A i \in DOMAIN g : reply[g[i].conn] = reply[c]
    BY <1>3, <1>5 DEF OfPipe
  <1> QED
    BY <1>6, <1>7 DEF GotInOrder, g, D

\* The order is there at the start and a step keeps it: what a client gets, it gets
\* while it is served.
MessagesInv == TypeOK /\ MessagesFlow /\ MessagesInOrder

\* The initial states have it.
LEMMA InitMessages == Init => MessagesInv
  <1> SUFFICES ASSUME Init
               PROVE  MessagesInv
    OBVIOUS
  <1>1. MessagesInOrder
    BY DEF Init, MessagesInOrder
  <1>2. ASSUME NEW c \in Conns
        PROVE  /\ got[c] = <<>> /\ send[c] = <<>> /\ inHand[c] = <<>> /\ inbox[c] = <<>>
               /\ PipeTo(c) = <<>> /\ ~Subscribed(c)
    <2>1. /\ got[c] = <<>> /\ send[c] = <<>> /\ inHand[c] = <<>> /\ inbox[c] = <<>>
          /\ ~Subscribed(c)
      BY DEF Init, Subscribed
    <2>2. <<>> \in Seq(Message) /\ <<>> \o <<>> = <<>>
      BY MovesAlong
    <2> QED
      BY <2>1, <2>2 DEF PipeTo
  <1>3. MessagesFlow
    BY <1>2 DEF MessagesFlow, Sorted, NoGap
  <1> QED
    BY <1>1, <1>3, TypeInit DEF MessagesInv

\* Every step keeps it.
LEMMA NextMessages == MessagesInv /\ [Next]_vars => MessagesInv'
  <1> SUFFICES ASSUME MessagesInv, [Next]_vars
               PROVE  MessagesInv'
    OBVIOUS
  <1>1. TypeOK' /\ MessagesFlow'
    BY TypeStep, MessagesFlowStep DEF MessagesInv
  <1>2. (\A c \in Conns : Served(c) => GotInOrder(c))'
    BY <1>1, ServedInOrder, PTL
  <1>3. ASSUME NEW c \in Conns
        PROVE  GotInOrder(c)'
    <2>1. CASE Served(c)'
      BY <1>2, <2>1
    <2>2. CASE got'[c] = got[c]
      <3>1. dropped[c] \subseteq dropped'[c] /\ reply' = reply
        BY GotEffect, ClientsKept DEF MessagesInv
      <3>2. GotInOrder(c)
        BY DEF MessagesInv, MessagesInOrder, GotInOrder
      <3> QED
        BY <2>2, <3>1, <3>2 DEF GotInOrder
    <2> QED
      BY <2>1, <2>2, GotEffect DEF MessagesInv
  <1>4. MessagesInOrder'
    BY <1>3 DEF MessagesInOrder, GotInOrder
  <1> QED
    BY <1>1, <1>4 DEF MessagesInv

\* A client receives the messages of its own reply subject only, those of one backend
\* connection in order, and misses between them only those dropped for a full Send
\* channel (proxy.go:616-641, reverse.go:652-660).
THEOREM MessagesKeepOrder == Spec => []MessagesInOrder
  <1>1. MessagesInv => MessagesInOrder
    BY DEF MessagesInv
  <1> QED
    BY <1>1, InitMessages, NextMessages, PTL DEF Spec


-------------------------------------------------------------------------------
(* Sequences of frames.                                                    *)

\* The numbers of frames.
LEMMA FrameNumbers ==
    /\ FrameNum \in [Frame -> Nat]
    /\ \A f \in Frame : /\ FrameSrc[f] = f.conn /\ FrameNum[f] = f.n
                        /\ f.conn \in Conns /\ f.n \in Nat
    /\ Frame \subseteq [conn : Conns, n : Nat]
  <1>1. \A f \in Frame : f.conn \in Conns /\ f.n \in Nat
    BY SocketAssumption DEF Frame
  <1>2. Frame \subseteq [conn : Conns, n : Nat]
    BY SocketAssumption DEF Frame
  <1> QED
    BY <1>1, <1>2 DEF FrameSrc, FrameNum

\* A frame is known by its client and its number.
LEMMA SameFrame ==
    ASSUME NEW f \in Frame, NEW g \in Frame, NEW n, FrameSrc[g] = FrameSrc[f], FrameNum[g] = n
    PROVE  g = [f EXCEPT !.n = n]
  <1>1. g.conn = f.conn /\ g.n = n
    BY FrameNumbers
  <1>2. f \in [conn : Conns, n : Nat] /\ g \in [conn : Conns, n : Nat]
    BY FrameNumbers
  <1>3. [f EXCEPT !.n = n] = [conn |-> f.conn, n |-> n]
    BY <1>2
  <1>4. g = [conn |-> g.conn, n |-> g.n]
    BY <1>2
  <1> QED
    BY <1>1, <1>3, <1>4

\* Nothing is in order.
LEMMA EmptyInFlow ==
    ASSUME NEW D, NEW F, NEW last
    PROVE  InFlow(<<>>, D, F, last)
  BY DEF InFlow, Sorted, NoGap, UpTo

\* A sequence stays in order for the same clients, and for new ones it has nothing of.
LEMMA InFlowKept ==
    ASSUME NEW p \in Seq(Frame), NEW D, NEW F, NEW G, NEW last, NEW next,
           InFlow(p, D, F, last),
           \A e \in G : \/ e \in F /\ next[e] = last[e]
                        \/ \A i \in DOMAIN p : p[i].conn # e
    PROVE  InFlow(p, D, G, next)
  <1>1. ASSUME NEW e \in G
        PROVE  UpTo(p, D, FrameSrc, FrameNum, e, next[e])
    <2>1. CASE e \in F /\ next[e] = last[e]
      BY <2>1 DEF InFlow
    <2>2. CASE \A i \in DOMAIN p : p[i].conn # e
      <3>1. \A i \in DOMAIN p : p[i] \in Frame
        OBVIOUS
      <3>2. \A i \in DOMAIN p : FrameSrc[p[i]] # e
        BY <2>2, <3>1, FrameNumbers
      <3> QED
        BY <3>2 DEF UpTo
    <2> QED
      BY <1>1, <2>1, <2>2
  <1> QED
    BY <1>1 DEF InFlow

\* More frames may be missing.
LEMMA InFlowMore ==
    ASSUME NEW p, NEW D, NEW E, NEW F, NEW last, InFlow(p, D, F, last), \A y \in D : y \in E
    PROVE  InFlow(p, E, F, last)
  BY MoreMayMiss DEF InFlow

\* The next frame of a client follows.
LEMMA InFlowNext ==
    ASSUME NEW p \in Seq(Frame), NEW x \in Frame, NEW D, NEW F \in SUBSET Conns,
           NEW last \in [Conns -> Nat], NEW next,
           InFlow(p, D, F, last), x.conn \in F, x.n = last[x.conn] + 1,
           next = [last EXCEPT ![x.conn] = last[x.conn] + 1]
    PROVE  InFlow(Append(p, x), D, F, next)
  <1>1. FrameSrc[x] = x.conn /\ FrameNum[x] = last[x.conn] + 1 /\ x.conn \in Conns
    BY FrameNumbers
  <1>2. /\ Sorted(p, FrameSrc, FrameNum) /\ NoGap(p, D, FrameSrc, FrameNum, Conns)
        /\ \A e \in F : UpTo(p, D, FrameSrc, FrameNum, e, last[e])
    BY DEF InFlow
  <1> DEFINE q == Append(p, x)
             l == last[x.conn]
  <1>3. l \in Nat /\ FrameNum \in [Frame -> Nat] /\ FrameNum[x] = l + 1
    BY <1>1, FrameNumbers
  <1>4. UpTo(p, D, FrameSrc, FrameNum, FrameSrc[x], l)
    BY <1>1, <1>2
  <1> HIDE DEF l
  <1>5. /\ Sorted(q, FrameSrc, FrameNum) /\ NoGap(q, D, FrameSrc, FrameNum, Conns)
        /\ UpTo(q, D, FrameSrc, FrameNum, FrameSrc[x], l + 1)
        /\ \A b, m : b # FrameSrc[x] /\ UpTo(p, D, FrameSrc, FrameNum, b, m)
                     => UpTo(q, D, FrameSrc, FrameNum, b, m)
    BY <1>2, <1>3, <1>4, NextInOrder
  <1>6. next[x.conn] = l + 1 /\ \A e \in F : e # x.conn => next[e] = last[e]
    BY <1>1 DEF l
  <1> HIDE DEF q
  <1>7. \A e \in F : UpTo(q, D, FrameSrc, FrameNum, e, next[e])
    BY <1>1, <1>2, <1>5, <1>6
  <1> QED
    BY <1>5, <1>7 DEF InFlow, q

\* The first frame leaves.
LEMMA InFlowTail ==
    ASSUME NEW p \in Seq(Frame), p # <<>>, NEW D, NEW F, NEW last, InFlow(p, D, F, last)
    PROVE  InFlow(Tail(p), D, F, last)
  <1>1. /\ Sorted(p, FrameSrc, FrameNum) /\ NoGap(p, D, FrameSrc, FrameNum, Conns)
        /\ FrameNum \in [Frame -> Nat]
    BY FrameNumbers DEF InFlow
  <1>2. /\ Sorted(Tail(p), FrameSrc, FrameNum) /\ NoGap(Tail(p), D, FrameSrc, FrameNum, Conns)
        /\ \A b, l : UpTo(p, D, FrameSrc, FrameNum, b, l) => UpTo(Tail(p), D, FrameSrc, FrameNum, b, l)
    BY <1>1, TailInOrder
  <1> QED
    BY <1>2 DEF InFlow

\* A frame that may be missing leaves.
LEMMA InFlowWithout ==
    ASSUME NEW a \in Seq(Frame), NEW x \in Frame, NEW r \in Seq(Frame), NEW D, NEW F, NEW last,
           InFlow((a \o <<x>>) \o r, D, F, last), x \in D
    PROVE  InFlow(a \o r, D, F, last)
  <1> DEFINE p == (a \o <<x>>) \o r
  <1>1. /\ Sorted(p, FrameSrc, FrameNum) /\ NoGap(p, D, FrameSrc, FrameNum, Conns)
        /\ FrameNum \in [Frame -> Nat]
    BY FrameNumbers DEF InFlow
  <1>2. /\ Sorted(a \o r, FrameSrc, FrameNum) /\ NoGap(a \o r, D, FrameSrc, FrameNum, Conns)
        /\ \A b, l : UpTo(p, D, FrameSrc, FrameNum, b, l) => UpTo(a \o r, D, FrameSrc, FrameNum, b, l)
    BY <1>1, WithoutInOrder
  <1> QED
    BY <1>2 DEF InFlow


-------------------------------------------------------------------------------
(* What steps do to frames.                                                *)

\* Every h8srd is in a queue group of its own, or in none.
OwnGroups == \A g \in DataGroups : \A d, e \in g : d = e

\* A frame that is read reaches all h8srd that are up.
LEMMA ReadEffect ==
    ASSUME TypeOK, OwnGroups, NEW c \in Conns, ReadFrame(c)
    PROVE  /\ pc[c] = "open" /\ frames' = [frames EXCEPT ![c] = frames[c] + 1]
           /\ [conn |-> c, n |-> frames[c] + 1] \in Frame
           /\ \A d \in up : dataQ'[d] = Append(dataQ[d], [conn |-> c, n |-> frames[c] + 1])
           /\ \A d \in Reverses \ up : dataQ'[d] = dataQ[d]
           /\ UNCHANGED <<pc, delivered, wsConns, backend>>
  <1>1. ASSUME NEW chosen \in Routes
        PROVE  \A d \in Reverses : d \in chosen <=> d \in up
    <2>1. chosen \subseteq up
      BY DEF Routes
    <2>2. ASSUME NEW d \in Reverses, d \in up
          PROVE  d \in chosen
      <3>1. PICK g \in DataGroups : d \in g
        BY SocketAssumption
      <3>2. PICK e \in g : g \cap chosen = {e}
        BY <2>2, <3>1 DEF Routes
      <3>3. e = d
        BY <3>1, <3>2 DEF OwnGroups
      <3> QED
        BY <3>2, <3>3
    <2> QED
      BY <2>1, <2>2
  <1>2. /\ pc[c] = "open" /\ frames' = [frames EXCEPT ![c] = frames[c] + 1]
        /\ UNCHANGED <<pc, delivered, wsConns, backend>>
    BY DEF ReadFrame, reverseVars
  <1>3. [conn |-> c, n |-> frames[c] + 1] \in Frame
    <2>1. frames[c] \in 0..MaxFrames /\ MaxFrames \in Nat
      BY SocketAssumption DEF TypeOK
    <2>2. frames[c] < MaxFrames
      BY DEF ReadFrame
    <2>3. frames[c] + 1 \in 1..MaxFrames
      BY <2>1, <2>2
    <2> QED
      BY <2>3 DEF Frame
  <1>4. PICK chosen \in Routes :
           dataQ' = [d \in Reverses |->
                       IF d \in chosen THEN Append(dataQ[d], [conn |-> c, n |-> frames[c] + 1])
                       ELSE dataQ[d]]
    BY DEF ReadFrame
  <1>5. up \subseteq Reverses
    BY DEF TypeOK
  <1>6. /\ \A d \in up : dataQ'[d] = Append(dataQ[d], [conn |-> c, n |-> frames[c] + 1])
        /\ \A d \in Reverses \ up : dataQ'[d] = dataQ[d]
    BY <1>1, <1>4, <1>5
  <1> QED
    BY <1>2, <1>3, <1>6

\* A frame that is handled goes to the backend connection of its reply subject, if it
\* is open.
LEMMA HandledFrame ==
    ASSUME TypeOK, NEW d \in Reverses, HandleFrame(d)
    PROVE  /\ dataQ[d] # <<>> /\ Head(dataQ[d]) \in Frame
           /\ dataQ' = [dataQ EXCEPT ![d] = Tail(dataQ[d])]
           /\ UNCHANGED <<pc, frames, wsConns>>
           /\ \A c \in Conns :
                 IF c \in wsConns[d][reply[Head(dataQ[d]).conn]] /\ backend[<<d, c>>] = "open"
                 THEN delivered'[<<d, c>>] = Append(delivered[<<d, c>>], Head(dataQ[d]))
                 ELSE delivered'[<<d, c>>] = delivered[<<d, c>>]
           /\ \A h \in Reverses \ {d}, c \in Conns : delivered'[<<h, c>>] = delivered[<<h, c>>]
  <1>1. /\ dataQ[d] # <<>> /\ dataQ' = [dataQ EXCEPT ![d] = Tail(dataQ[d])]
        /\ UNCHANGED <<pc, frames, wsConns>>
    BY DEF HandleFrame, handlerVars
  <1> DEFINE f == Head(dataQ[d])
             known == wsConns[d][reply[f.conn]]
  <1>2. f \in Frame
    <2>1. dataQ[d] \in Seq(Frame)
      BY DEF TypeOK
    <2> QED
      BY <1>1, <2>1, QueueTail
  <1>3. \A c, e \in known : c = e
    <2>1. f.conn \in Conns
      BY <1>2, FrameNumbers
    <2>2. reply[f.conn] \in Replies
      BY <2>1 DEF TypeOK
    <2> QED
      BY <2>2 DEF TypeOK
  <1>4. \/ /\ \A c \in known : backend[<<d, c>>] = "gone"
           /\ delivered' = delivered
        \/ \E c \in known :
              /\ backend[<<d, c>>] = "open"
              /\ delivered' = [delivered EXCEPT ![<<d, c>>] = Append(delivered[<<d, c>>], f)]
        \/ \E c \in known :
              /\ backend[<<d, c>>] \in {"gone", "closed"}
              /\ delivered' = delivered
    BY DEF HandleFrame, NextFrame, KeyFor, MayBeLost
  <1> HIDE DEF f, known
  <1>5. delivered \in [Reverses \X Conns -> Seq(Frame)]
    BY DEF TypeOK
  <1>8. /\ \A c \in Conns :
              IF c \in known /\ backend[<<d, c>>] = "open"
              THEN delivered'[<<d, c>>] = Append(delivered[<<d, c>>], f)
              ELSE delivered'[<<d, c>>] = delivered[<<d, c>>]
        /\ \A h \in Reverses \ {d}, c \in Conns : delivered'[<<h, c>>] = delivered[<<h, c>>]
    <2>1. CASE \E c \in known :
                  /\ backend[<<d, c>>] = "open"
                  /\ delivered' = [delivered EXCEPT ![<<d, c>>] = Append(delivered[<<d, c>>], f)]
      BY <1>3, <1>5, <2>1
    <2>2. CASE delivered' = delivered /\ \A c \in known : backend[<<d, c>>] # "open"
      BY <2>2
    <2> QED
      BY <1>3, <1>4, <2>1, <2>2
  <1> QED
    BY <1>1, <1>2, <1>8 DEF f, known

\* Frames are delivered when they are handled, and read when the handler is open.
LEMMA FramesKept ==
    ASSUME TypeOK, [Next]_vars
    PROVE  /\ delivered' = delivered \/ \E d \in Reverses : HandleFrame(d)
           /\ \/ \E c \in Conns : ReadFrame(c)
              \/ \A e \in Open' : Early(e) \/ (e \in Open /\ frames'[e] = frames[e])
  <1>1. delivered' = delivered \/ \E d \in Reverses : HandleFrame(d)
    <2>1. CASE UNCHANGED <<reverseVars, crashVars>>
      BY <2>1 DEF reverseVars
    <2>2. ASSUME NEW d \in Reverses,
                 \/ HandleEstablished(d) \/ HandleClosed(d) \/ Crash(d) \/ Restart(d)
                 \/ \E by \in Callbacks \cup Conns : DeleteEntry(d, by)
                 \/ \E c \in Conns : Pump(d, c) \/ BackendLeaves(d, c) \/ PumpEnds(d, c)
          PROVE  delivered' = delivered
      BY <2>2 DEF HandleEstablished, HandleClosed, Crash, Restart, DeleteEntry, Pump,
         BackendLeaves, PumpEnds, reverseVars
    <2> QED
      BY <2>1, <2>2, ReverseKept
  <1>2. ASSUME NEW e \in Conns, pc'[e] = "open", ~Early(e), \A c \in Conns : ~ReadFrame(c)
        PROVE  pc[e] = "open" /\ frames'[e] = frames[e]
    <2>1. pc[e] = "open"
      BY <1>2, PcKept DEF Early
    <2>2. CASE frames' = frames
      BY <2>1, <2>2
    <2>3. ASSUME NEW c \in Conns, PublishFails(c)
          PROVE  frames'[e] = frames[e]
      <3>1. pc'[c] = "unsubscribing" /\ frames' = [frames EXCEPT ![c] = frames[c] + 1]
        BY <2>3 DEF PublishFails, TypeOK
      <3>2. c # e /\ frames \in [Conns -> 0..MaxFrames]
        BY <1>2, <3>1 DEF TypeOK
      <3> QED
        BY <3>1, <3>2
    <2>4. frames' = frames \/ \E c \in Conns : PublishFails(c)
      <3>1. CASE UNCHANGED vars
        BY <3>1 DEF vars, handlerVars
      <3>2. ASSUME NEW c \in Conns,
                   \/ Refuse(c) \/ Announce(c) \/ HandlerStep(c) \/ WriterStep(c)
                   \/ CallbackStep(c) \/ ClientLeaves(c)
            PROVE  frames' = frames
        BY <3>2 DEF Refuse, Announce, HandlerStep, Pool, Subscribe, SubscribeFails, ReadError,
           Unsubscribe, RemoveFromPool, CloseSend, CloseConn, WriterStep, Write, WriteFails,
           WriterReturns, CallbackStep, Callback, Deliver, ClientLeaves, handlerVars
      <3>3. ASSUME NEW d \in Reverses,
                   \/ HandleEstablished(d) \/ HandleClosed(d) \/ HandleFrame(d)
                   \/ Crash(d) \/ Restart(d)
                   \/ \E by \in Callbacks \cup Conns : DeleteEntry(d, by)
                   \/ \E c \in Conns : Pump(d, c) \/ BackendLeaves(d, c) \/ PumpEnds(d, c)
            PROVE  frames' = frames
        BY <3>3 DEF HandleEstablished, HandleClosed, HandleFrame, Crash, Restart, DeleteEntry,
           Pump, BackendLeaves, PumpEnds, handlerVars
      <3> QED
        BY <1>2, <3>1, <3>2, <3>3 DEF Next, ProxyStep
    <2> QED
      BY <2>1, <2>2, <2>3, <2>4
  <1> QED
    BY <1>1, <1>2 DEF Open


-------------------------------------------------------------------------------
(* Frames keep their order.                                                *)

\* What of FramesFlow is about where frames are.
FramePlaces ==
    /\ \A d \in Reverses : \A i \in DOMAIN dataQ[d] : ~Early(dataQ[d][i].conn)
    /\ \A b \in Reverses \X Conns :
          /\ backend[b] = "none" => delivered[b] = <<>>
          /\ \A i \in DOMAIN delivered[b] :
                ~Early(delivered[b][i].conn) /\ reply[delivered[b][i].conn] = reply[b[2]]

\* What a queue of frames keeps for a step that reads none.
LEMMA OpenInFlow ==
    ASSUME TypeOK, [Next]_vars, \A c \in Conns : ~ReadFrame(c),
           NEW p \in Seq(Frame), NEW D, InFlow(p, D, Open, frames),
           \A i \in DOMAIN p : ~Early(p[i].conn)
    PROVE  InFlow(p, D, Open', frames')
  <1>1. \A e \in Open' : Early(e) \/ (e \in Open /\ frames'[e] = frames[e])
    BY FramesKept
  <1>2. \A e \in Open' : \/ e \in Open /\ frames'[e] = frames[e]
                         \/ \A i \in DOMAIN p : p[i].conn # e
    BY <1>1
  <1> DEFINE F == Open
             G == Open'
             last == frames
             next == frames'
  <1>3. /\ InFlow(p, D, F, last)
        /\ \A e \in G : \/ e \in F /\ next[e] = last[e]
                        \/ \A i \in DOMAIN p : p[i].conn # e
    BY <1>2
  <1> HIDE DEF F, G, last, next
  <1>4. InFlow(p, D, G, next)
    BY <1>3, InFlowKept
  <1> QED
    BY <1>4 DEF G, next

\* The pending frames of an h8srd.
LEMMA QueueFlowStep ==
    ASSUME TypeOK, Down, FramesFlow, OwnGroups, [Next]_vars, NEW d \in Reverses
    PROVE  InFlow(dataQ'[d], {}, Open', frames')
  <1>1. /\ InFlow(dataQ[d], {}, Open, frames) /\ dataQ[d] \in Seq(Frame)
        /\ \A i \in DOMAIN dataQ[d] : ~Early(dataQ[d][i].conn)
    BY DEF FramesFlow, TypeOK
  <1>2. ASSUME NEW c \in Conns, ReadFrame(c)
        PROVE  InFlow(dataQ'[d], {}, Open', frames')
    <2>1. Open' = Open
      BY <1>2, ReadEffect DEF Open
    <2>2. CASE d \in up
      <3> DEFINE x == [conn |-> c, n |-> frames[c] + 1]
      <3>1. dataQ'[d] = Append(dataQ[d], x) /\ x \in Frame
        BY <1>2, <2>2, ReadEffect
      <3>2. /\ Open \in SUBSET Conns /\ frames \in [Conns -> Nat] /\ x.conn \in Open
            /\ x.n = frames[x.conn] + 1
            /\ frames' = [frames EXCEPT ![x.conn] = frames[x.conn] + 1]
        <4>1. x.conn = c /\ x.n = frames[c] + 1
          OBVIOUS
        <4>2. frames \in [Conns -> Nat]
          BY SocketAssumption DEF TypeOK
        <4>3. Open \in SUBSET Conns /\ c \in Open
          BY <1>2, ReadEffect DEF Open
        <4>4. frames' = [frames EXCEPT ![c] = frames[c] + 1]
          BY <1>2, ReadEffect
        <4> HIDE DEF x
        <4> QED
          BY <4>1, <4>2, <4>3, <4>4
      <3> DEFINE q == dataQ[d]
      <3>3. InFlow(q, {}, Open, frames) /\ q \in Seq(Frame)
        BY <1>1
      <3> HIDE DEF x, q
      <3>4. InFlow(Append(q, x), {}, Open, frames')
        BY <3>1, <3>2, <3>3, InFlowNext
      <3> QED
        BY <2>1, <3>1, <3>4 DEF q
    <2>3. CASE d \notin up
      <3>1. dataQ'[d] = <<>>
        BY <1>2, <2>3, ReadEffect DEF Down
      <3> QED
        BY <3>1, EmptyInFlow
    <2> QED
      BY <2>2, <2>3
  <1>3. ASSUME \A c \in Conns : ~ReadFrame(c)
        PROVE  InFlow(dataQ'[d], {}, Open', frames')
    <2>1. InFlow(dataQ[d], {}, Open', frames')
      BY <1>1, <1>3, OpenInFlow
    <2>2. CASE dataQ'[d] = dataQ[d]
      BY <2>1, <2>2
    <2>3. CASE dataQ'[d] = <<>>
      BY <2>3, EmptyInFlow
    <2>4. CASE dataQ[d] # <<>> /\ dataQ'[d] = Tail(dataQ[d])
      <3> DEFINE q == dataQ[d]
      <3>1. InFlow(q, {}, Open', frames') /\ q \in Seq(Frame) /\ q # <<>>
        BY <1>1, <2>1, <2>4
      <3> HIDE DEF q
      <3>2. InFlow(Tail(q), {}, Open', frames')
        BY <3>1, InFlowTail
      <3> QED
        BY <2>4, <3>2 DEF q
    <2>5. dataQ \in [Reverses -> Seq(Frame)]
      BY DEF TypeOK
    <2>6. \/ dataQ'[d] = dataQ[d] \/ dataQ'[d] = <<>>
          \/ dataQ[d] # <<>> /\ dataQ'[d] = Tail(dataQ[d])
      BY <1>3, <2>5, DataEffect
    <2> QED
      BY <2>2, <2>3, <2>4, <2>6
  <1> QED
    BY <1>2, <1>3

\* Where frames are.
LEMMA FramePlacesStep ==
    ASSUME TypeOK, Table, OwnGroups, FramesFlow, [Next]_vars
    PROVE  FramePlaces'
  <1>0. /\ reply' = reply /\ \A e \in Conns : ~Early(e) => ~Early(e)'
        /\ dataQ \in [Reverses -> Seq(Frame)] /\ delivered \in [Reverses \X Conns -> Seq(Frame)]
        /\ FramePlaces
    BY ClientsKept, PcKept DEF TypeOK, FramesFlow, FramePlaces
  <1>1. ASSUME NEW d \in Reverses, NEW i \in DOMAIN dataQ'[d]
        PROVE  ~Early(dataQ[d][i].conn)'
    <2>1. CASE \E j \in DOMAIN dataQ[d] : dataQ'[d][i] = dataQ[d][j]
      <3>1. PICK j \in DOMAIN dataQ[d] : dataQ'[d][i] = dataQ[d][j]
        BY <2>1
      <3>2. dataQ[d] \in Seq(Frame)
        BY <1>0
      <3>3. dataQ[d][j] \in Frame
        BY <3>2
      <3>4. dataQ[d][j].conn \in Conns /\ ~Early(dataQ[d][j].conn)
        BY <1>0, <3>3, FrameNumbers DEF FramePlaces
      <3> QED
        BY <1>0, <3>1, <3>4 DEF Early
    <2>2. ASSUME NEW c \in Conns, ReadFrame(c),
                 dataQ'[d] = Append(dataQ[d], [conn |-> c, n |-> frames[c] + 1])
          PROVE  ~Early(dataQ[d][i].conn)'
      <3> DEFINE x == [conn |-> c, n |-> frames[c] + 1]
      <3>1. x \in Frame /\ x.conn = c /\ pc'[c] = "open"
        BY <2>2, ReadEffect
      <3>2. dataQ[d] \in Seq(Frame) /\ dataQ'[d] = Append(dataQ[d], x)
        BY <1>0, <2>2
      <3> HIDE DEF x
      <3>3. dataQ'[d][i] = x \/ \E j \in DOMAIN dataQ[d] : dataQ'[d][i] = dataQ[d][j]
        BY <3>1, <3>2, QueueAppend
      <3> QED
        BY <2>1, <3>1, <3>3 DEF Early
    <2>3. \/ dataQ'[d] = dataQ[d]
          \/ dataQ'[d] = <<>>
          \/ dataQ[d] # <<>> /\ dataQ'[d] = Tail(dataQ[d])
          \/ \E c \in Conns : /\ ReadFrame(c)
                              /\ \/ dataQ'[d] = Append(dataQ[d], [conn |-> c, n |-> frames[c] + 1])
                                 \/ dataQ'[d] = dataQ[d]
      <3>1. ASSUME NEW c \in Conns, ReadFrame(c)
            PROVE  \/ dataQ'[d] = Append(dataQ[d], [conn |-> c, n |-> frames[c] + 1])
                   \/ dataQ'[d] = dataQ[d]
        BY <3>1, ReadEffect
      <3>2. dataQ \in [Reverses -> Seq(Frame)]
        BY <1>0
      <3> QED
        BY <3>1, <3>2, DataEffect
    <2>4. CASE dataQ[d] # <<>> /\ dataQ'[d] = Tail(dataQ[d])
      <3>1. dataQ[d] \in Seq(Frame)
        BY <1>0
      <3>2. i \in Nat /\ i + 1 \in DOMAIN dataQ[d] /\ dataQ'[d][i] = dataQ[d][i + 1]
        BY <2>4, <3>1, QueueTail
      <3> QED
        BY <2>1, <3>2
    <2>5. CASE dataQ'[d] = dataQ[d]
      BY <2>1, <2>5
    <2>6. dataQ'[d] # <<>>
      OBVIOUS
    <2> QED
      BY <2>2, <2>3, <2>4, <2>5, <2>6
  <1>2. ASSUME NEW d \in Reverses, NEW c \in Conns, backend'[<<d, c>>] = "none"
        PROVE  delivered'[<<d, c>>] = <<>>
    <2>1. backend[<<d, c>>] = "none"
      BY <1>2, BackendEffect
    <2>2. delivered[<<d, c>>] = <<>>
      BY <1>0, <2>1 DEF FramePlaces
    <2>3. ASSUME NEW h \in Reverses, HandleFrame(h)
          PROVE  delivered'[<<d, c>>] = delivered[<<d, c>>]
      BY <2>1, <2>3, HandledFrame
    <2> QED
      BY <2>2, <2>3, FramesKept
  <1>3. ASSUME NEW d \in Reverses, NEW c \in Conns, NEW i \in DOMAIN delivered'[<<d, c>>]
        PROVE  /\ ~Early(delivered[<<d, c>>][i].conn)'
               /\ reply[delivered'[<<d, c>>][i].conn] = reply[c]
    <2>1. ASSUME NEW j \in DOMAIN delivered[<<d, c>>],
                 delivered'[<<d, c>>][i] = delivered[<<d, c>>][j]
          PROVE  /\ ~Early(delivered[<<d, c>>][i].conn)'
                 /\ reply[delivered'[<<d, c>>][i].conn] = reply[c]
      <3>1. delivered[<<d, c>>] \in Seq(Frame) /\ <<d, c>> \in Reverses \X Conns /\ <<d, c>>[2] = c
        BY <1>0
      <3>2. delivered[<<d, c>>][j] \in Frame
        BY <3>1
      <3>3. /\ delivered[<<d, c>>][j].conn \in Conns /\ ~Early(delivered[<<d, c>>][j].conn)
            /\ reply[delivered[<<d, c>>][j].conn] = reply[c]
        BY <1>0, <3>1, <3>2, FrameNumbers DEF FramePlaces
      <3> QED
        BY <1>0, <2>1, <3>3 DEF Early
    <2>2. ASSUME HandleFrame(d),
                 c \in wsConns[d][reply[Head(dataQ[d]).conn]], backend[<<d, c>>] = "open",
                 delivered'[<<d, c>>] = Append(delivered[<<d, c>>], Head(dataQ[d]))
          PROVE  /\ ~Early(delivered[<<d, c>>][i].conn)'
                 /\ reply[delivered'[<<d, c>>][i].conn] = reply[c]
      <3> DEFINE x == Head(dataQ[d])
      <3>1. x \in Frame /\ dataQ[d] # <<>> /\ dataQ[d] \in Seq(Frame)
        BY <1>0, <2>2, HandledFrame
      <3>2. x = dataQ[d][1] /\ 1 \in DOMAIN dataQ[d]
        BY <3>1, QueueTail
      <3>3. ~Early(x.conn) /\ x.conn \in Conns
        BY <1>0, <3>1, <3>2, FrameNumbers DEF FramePlaces
      <3>4. reply[x.conn] \in Replies
        BY <3>3 DEF TypeOK
      <3>5. reply[c] = reply[x.conn]
        BY <2>2, <3>4 DEF Table
      <3>6. delivered[<<d, c>>] \in Seq(Frame) /\ delivered'[<<d, c>>] = Append(delivered[<<d, c>>], x)
        BY <1>0, <2>2
      <3> DEFINE old == delivered[<<d, c>>]
                 new == delivered'[<<d, c>>]
      <3>7. new[i] = x \/ \E j \in DOMAIN old : new[i] = old[j]
        <4>1. old \in Seq(Frame) /\ x \in Frame /\ new = Append(old, x) /\ i \in DOMAIN new
          BY <3>1, <3>6
        <4> HIDE DEF x, old, new
        <4> QED
          BY <4>1, QueueAppend
      <3> HIDE DEF x
      <3>8. pc'[x.conn] \notin {"idle", "announced", "pooled"}
        BY <1>0, <3>3 DEF Early
      <3> QED
        BY <2>1, <3>5, <3>7, <3>8 DEF Early
    <2>3. CASE delivered'[<<d, c>>] = delivered[<<d, c>>]
      BY <2>1, <2>3
    <2>4. \/ delivered'[<<d, c>>] = delivered[<<d, c>>]
          \/ /\ HandleFrame(d) /\ c \in wsConns[d][reply[Head(dataQ[d]).conn]]
             /\ backend[<<d, c>>] = "open"
             /\ delivered'[<<d, c>>] = Append(delivered[<<d, c>>], Head(dataQ[d]))
      <3>1. ASSUME NEW h \in Reverses, HandleFrame(h), h # d
            PROVE  delivered'[<<d, c>>] = delivered[<<d, c>>]
        BY <3>1, HandledFrame
      <3>2. ASSUME HandleFrame(d)
            PROVE  IF c \in wsConns[d][reply[Head(dataQ[d]).conn]] /\ backend[<<d, c>>] = "open"
                   THEN delivered'[<<d, c>>] = Append(delivered[<<d, c>>], Head(dataQ[d]))
                   ELSE delivered'[<<d, c>>] = delivered[<<d, c>>]
        BY <3>2, HandledFrame
      <3> QED
        BY <3>1, <3>2, FramesKept
    <2> QED
      BY <2>2, <2>3, <2>4
  <1> QED
    BY <1>0, <1>1, <1>2, <1>3 DEF FramePlaces


\* An element of two sequences together is one of either.
LEMMA OfEither ==
    ASSUME NEW S, NEW a \in Seq(S), NEW r \in Seq(S)
    PROVE  \A i \in DOMAIN (a \o r) : \/ \E j \in DOMAIN a : (a \o r)[i] = a[j]
                                     \/ \E j \in DOMAIN r : (a \o r)[i] = r[j]
  <1>1. /\ Len(a) \in Nat /\ Len(r) \in Nat /\ DOMAIN (a \o r) = 1..(Len(a) + Len(r))
        /\ DOMAIN a = 1..Len(a) /\ DOMAIN r = 1..Len(r)
    OBVIOUS
  <1>2. \A i \in 1..Len(a) : (a \o r)[i] = a[i]
    OBVIOUS
  <1>3. \A i \in (Len(a) + 1)..(Len(a) + Len(r)) : (a \o r)[i] = r[i - Len(a)]
    OBVIOUS
  <1>4. \A i \in 1..(Len(a) + Len(r)) :
           \/ i \in 1..Len(a)
           \/ i \in (Len(a) + 1)..(Len(a) + Len(r)) /\ i - Len(a) \in 1..Len(r)
    BY <1>1
  <1> QED
    BY <1>1, <1>2, <1>3, <1>4

\* A backend connection that is given frames was given frames before, or is new.
LEMMA ActiveBefore ==
    ASSUME TypeOK, AnnouncedOnce, [Next]_vars, NEW d \in Reverses, NEW c \in Conns, Active(d, c)'
    PROVE  Active(d, c) \/ (HandleEstablished(d) /\ backend[<<d, c>>] = "none")
  <1>1. c \in wsConns'[d][reply[c]] /\ backend'[<<d, c>>] = "open"
    BY ClientsKept DEF Active, KeyFor
  <1>2. backend[<<d, c>>] = "open" \/ (HandleEstablished(d) /\ c = Head(estQ[d]))
    BY <1>1, BackendEffect
  <1>3. HandleEstablished(d) => backend[<<d, Head(estQ[d])>>] = "none"
    BY HeadIsNew
  <1>4. CASE backend[<<d, c>>] = "open"
    <2>1. reply[c] \in Replies
      BY DEF TypeOK
    <2>2. \/ wsConns'[d][reply[c]] = wsConns[d][reply[c]]
          \/ HandleEstablished(d) /\ wsConns'[d][reply[c]] = {Head(estQ[d])}
          \/ wsConns'[d][reply[c]] = {}
      BY <2>1, EntryEffect
    <2>3. wsConns'[d][reply[c]] # {Head(estQ[d])} \/ ~HandleEstablished(d)
      BY <1>1, <1>3, <1>4
    <2> QED
      BY <1>1, <1>4, <2>2, <2>3 DEF Active, KeyFor
  <1> QED
    BY <1>2, <1>3, <1>4

\* The frames a backend connection is given.
LEMMA ActiveFlowStep ==
    ASSUME TypeOK, Table, Down, AnnouncedOnce, FramesFlow, OwnGroups, [Next]_vars,
           NEW d \in Reverses, NEW c \in Conns, Active(d, c)'
    PROVE  InFlow(PipeIn(d, c)', Others(c), Open', frames')
  <1> DEFINE a == delivered[<<d, c>>]
             p == dataQ[d]
             D == Others(c)
  <1>0. /\ a \in Seq(Frame) /\ p \in Seq(Frame) /\ a \o p \in Seq(Frame)
        /\ InFlow(p, {}, Open, frames)
        /\ \A i \in DOMAIN p : ~Early(p[i].conn)
        /\ \A i \in DOMAIN a : ~Early(a[i].conn)
        /\ PipeIn(d, c) = a \o p
    <2>1. a \in Seq(Frame) /\ p \in Seq(Frame)
      BY DEF TypeOK
    <2>2. a \o p \in Seq(Frame)
      BY <2>1, QueueConcat
    <2>3. <<d, c>> \in Reverses \X Conns
      OBVIOUS
    <2> QED
      BY <2>1, <2>2, <2>3 DEF FramesFlow, PipeIn
  <1>1. ASSUME HandleEstablished(d), backend[<<d, c>>] = "none"
        PROVE  InFlow(PipeIn(d, c)', Others(c), Open', frames')
    <2>1. UNCHANGED <<pc, frames, delivered, dataQ>>
      BY <1>1 DEF HandleEstablished, handlerVars
    <2>2. a = <<>>
      BY <1>1 DEF FramesFlow
    <2>3. PipeIn(d, c)' = <<>> \o p
      BY <2>1, <2>2 DEF PipeIn
    <2>4. <<>> \o p = p
      BY <1>0
    <2>5. InFlow(p, Others(c), Open, frames)
      BY <1>0, InFlowMore
    <2> QED
      BY <2>1, <2>3, <2>4, <2>5 DEF Open
  <1>2. ASSUME Active(d, c)
        PROVE  InFlow(PipeIn(d, c)', Others(c), Open', frames')
    <2>1. InFlow(a \o p, D, Open, frames)
      BY <1>0, <1>2 DEF FramesFlow
    <2>2. ASSUME NEW e \in Conns, ReadFrame(e)
          PROVE  InFlow(PipeIn(d, c)', D, Open', frames')
      <3> DEFINE x == [conn |-> e, n |-> frames[e] + 1]
      <3>1. d \in up
        BY <1>2 DEF Active, Down
      <3>2. /\ dataQ'[d] = Append(p, x) /\ x \in Frame /\ delivered' = delivered /\ Open' = Open
            /\ frames' = [frames EXCEPT ![e] = frames[e] + 1] /\ e \in Open
        BY <2>2, <3>1, ReadEffect DEF Open
      <3>3. x.conn = e /\ x.n = frames[e] + 1
        OBVIOUS
      <3>4. /\ Open \in SUBSET Conns /\ frames \in [Conns -> Nat]
        BY SocketAssumption DEF Open, TypeOK
      <3> HIDE DEF x, a, p, D
      <3>5. Append(a \o p, x) = a \o Append(p, x)
        <4>1. \A t, u \in Seq(Frame) : \A m \in Frame : Append(t \o u, m) = t \o Append(u, m)
          BY MovesAlong
        <4>2. a \in Seq(Frame) /\ p \in Seq(Frame) /\ x \in Frame
          BY <1>0, <3>2
        <4> QED
          BY <4>1, <4>2
      <3> DEFINE q == a \o p
      <3>6. /\ q \in Seq(Frame) /\ InFlow(q, D, Open, frames) /\ x.conn \in Open
            /\ x.n = frames[x.conn] + 1
            /\ frames' = [frames EXCEPT ![x.conn] = frames[x.conn] + 1]
        BY <1>0, <2>1, <3>2, <3>3
      <3> HIDE DEF q
      <3>7. InFlow(Append(q, x), D, Open, frames')
        BY <3>2, <3>4, <3>6, InFlowNext
      <3>8. PipeIn(d, c)' = a \o Append(p, x)
        BY <3>2 DEF PipeIn, a
      <3> QED
        BY <3>2, <3>5, <3>7, <3>8 DEF q
    <2>3. ASSUME \A e \in Conns : ~ReadFrame(e)
          PROVE  InFlow(PipeIn(d, c)', D, Open', frames')
      <3>1. InFlow(a \o p, D, Open', frames')
        <4>1. \A i \in DOMAIN (a \o p) : ~Early((a \o p)[i].conn)
          <5> HIDE DEF a, p
          <5>1. \A i \in DOMAIN (a \o p) :
                   \/ \E j \in DOMAIN a : (a \o p)[i] = a[j]
                   \/ \E j \in DOMAIN p : (a \o p)[i] = p[j]
            <6>1. a \in Seq(Frame) /\ p \in Seq(Frame)
              BY <1>0
            <6> QED
              BY <6>1, OfEither
          <5> QED
            BY <1>0, <5>1
        <4> HIDE DEF a, p, D
        <4> QED
          BY <1>0, <2>1, <2>3, <4>1, OpenInFlow
      <3>2. CASE PipeIn(d, c)' = a \o p
        BY <3>1, <3>2
      <3>3. ASSUME HandleFrame(d)
            PROVE  InFlow(PipeIn(d, c)', D, Open', frames')
        <4> DEFINE x == Head(p)
                   s == reply[x.conn]
        <4>1. /\ p # <<>> /\ x \in Frame /\ dataQ'[d] = Tail(p)
              /\ IF c \in wsConns[d][s] /\ backend[<<d, c>>] = "open"
                 THEN delivered'[<<d, c>>] = Append(a, x)
                 ELSE delivered'[<<d, c>>] = a
          <5>1. dataQ \in [Reverses -> Seq(Frame)]
            BY DEF TypeOK
          <5> QED
            BY <3>3, <5>1, HandledFrame
        <4>2. CASE s = reply[c]
          <5>1. delivered'[<<d, c>>] = Append(a, x)
            BY <1>2, <4>1, <4>2 DEF Active, KeyFor
          <5>2. Append(a, Head(p)) \o Tail(p) = a \o p
            BY <1>0, <4>1, MovesAlong
          <5> QED
            BY <3>2, <4>1, <5>1, <5>2 DEF PipeIn
        <4>3. CASE s # reply[c]
          <5>1. x.conn \in Conns
            BY <4>1, FrameNumbers
          <5>2. s \in Replies
            BY <5>1 DEF TypeOK
          <5>3. c \notin wsConns[d][s]
            <6>1. \A t \in Replies : c \in wsConns[d][t] => reply[c] = t
              BY DEF Table
            <6> QED
              BY <4>3, <5>2, <6>1
          <5>4. delivered'[<<d, c>>] = a
            BY <4>1, <5>3
          <5>5. PipeIn(d, c)' = a \o Tail(p)
            BY <4>1, <5>4 DEF PipeIn
          <5>6. x \in D
            BY <4>1, <4>3 DEF Others
          <5>7. p # <<>> => (a \o <<Head(p)>>) \o Tail(p) = a \o p
            BY <1>0, MovesAlong
          <5>8. Tail(p) \in Seq(Frame)
            BY <1>0, <4>1, QueueTail
          <5> DEFINE t == Tail(p)
          <5>9. (a \o <<x>>) \o t = a \o p
            BY <4>1, <5>7
          <5>12. t \in Seq(Frame) /\ x \in Frame /\ a \in Seq(Frame)
            BY <1>0, <4>1, <5>8
          <5> HIDE DEF a, p, x, t, D
          <5>10. InFlow((a \o <<x>>) \o t, D, Open', frames')
            BY <3>1, <5>9
          <5>11. InFlow(a \o t, D, Open', frames')
            BY <5>6, <5>10, <5>12, InFlowWithout
          <5> QED
            BY <5>5, <5>11 DEF t
        <4> QED
          BY <4>2, <4>3
      <3>4. ASSUME ~HandleFrame(d)
            PROVE  PipeIn(d, c)' = a \o p
        <4>1. delivered'[<<d, c>>] = a
          BY <3>4, FramesKept, HandledFrame
        <4>2. ~Crash(d)
          BY CrashEffect DEF Active
        <4>3. dataQ'[d] = p
          BY <2>3, <3>4, <4>2, DataEffect DEF TypeOK
        <4> QED
          BY <4>1, <4>3 DEF PipeIn
      <3> QED
        BY <3>2, <3>3, <3>4
    <2> QED
      BY <2>2, <2>3
  <1> QED
    BY <1>1, <1>2, ActiveBefore


\* Of a client with its reply subject, what is in order misses nothing.
LEMMA GivenInOrder ==
    ASSUME NEW c \in Conns, NEW q \in Seq(Frame),
           Sorted(q, FrameSrc, FrameNum), NoGap(q, Others(c), FrameSrc, FrameNum, Conns),
           \A i \in DOMAIN q : reply[q[i].conn] = reply[c]
    PROVE  \A i, j \in DOMAIN q : i < j /\ q[i].conn = q[j].conn =>
              /\ q[i].n < q[j].n
              /\ \A n \in (q[i].n + 1)..(q[j].n - 1) :
                    \E k \in (i + 1)..(j - 1) : q[k] = [q[i] EXCEPT !.n = n]
  <1> SUFFICES ASSUME NEW i \in DOMAIN q, NEW j \in DOMAIN q, i < j, q[i].conn = q[j].conn
               PROVE  /\ q[i].n < q[j].n
                      /\ \A n \in (q[i].n + 1)..(q[j].n - 1) :
                            \E k \in (i + 1)..(j - 1) : q[k] = [q[i] EXCEPT !.n = n]
    OBVIOUS
  <1> DEFINE D == Others(c)
  <1>1. FrameNum \in [Frame -> Nat] /\ D \subseteq Frame
    BY FrameNumbers DEF Others
  <1>2. \A y \in D : reply[y.conn] # reply[c]
    BY DEF Others
  <1>9. NoGap(q, D, FrameSrc, FrameNum, Conns)
    OBVIOUS
  <1> HIDE DEF D
  <1>3. Between(q, D, FrameSrc, FrameNum, Conns)
    BY <1>1, <1>9, BetweenInOrder
  <1>4. q[i] \in Frame /\ q[j] \in Frame
    OBVIOUS
  <1>5. /\ FrameSrc[q[i]] = q[i].conn /\ FrameNum[q[i]] = q[i].n /\ q[i].conn \in Conns
        /\ FrameSrc[q[j]] = q[j].conn /\ FrameNum[q[j]] = q[j].n
    BY <1>4, FrameNumbers
  <1>6. /\ q[i].n < q[j].n
        /\ \A n \in (q[i].n + 1)..(q[j].n - 1) :
              \/ \E y \in D : FrameSrc[y] = q[i].conn /\ FrameNum[y] = n
              \/ \E k \in (i + 1)..(j - 1) :
                    k \in DOMAIN q /\ FrameSrc[q[k]] = FrameSrc[q[i]] /\ FrameNum[q[k]] = n
    BY <1>3, <1>5 DEF Between
  <1>7. \A y \in D : FrameSrc[y] # q[i].conn
    <2>1. reply[q[i].conn] = reply[c]
      OBVIOUS
    <2>2. \A y \in D : FrameSrc[y] = y.conn
      BY <1>1, FrameNumbers
    <2> QED
      BY <1>2, <2>1, <2>2
  <1>8. ASSUME NEW n, NEW k \in DOMAIN q, FrameSrc[q[k]] = FrameSrc[q[i]], FrameNum[q[k]] = n
        PROVE  q[k] = [q[i] EXCEPT !.n = n]
    <2>1. q[k] \in Frame
      OBVIOUS
    <2> QED
      BY <1>4, <1>8, <2>1, SameFrame
  <1>10. ASSUME NEW n \in (q[i].n + 1)..(q[j].n - 1)
         PROVE  \E k \in (i + 1)..(j - 1) : q[k] = [q[i] EXCEPT !.n = n]
    <2>1. PICK k \in (i + 1)..(j - 1) :
             k \in DOMAIN q /\ FrameSrc[q[k]] = FrameSrc[q[i]] /\ FrameNum[q[k]] = n
      BY <1>6, <1>7
    <2> QED
      BY <1>8, <2>1
  <1> QED
    BY <1>6, <1>10

\* What a backend connection is given when a frame is handled.
LEMMA DeliveredInOrder ==
    ASSUME TypeOK, Table, FramesFlow, NEW d \in Reverses, NEW c \in Conns, HandleFrame(d),
           delivered'[<<d, c>>] # delivered[<<d, c>>]
    PROVE  /\ delivered'[<<d, c>>] \in Seq(Frame)
           /\ Sorted(delivered'[<<d, c>>], FrameSrc, FrameNum)
           /\ NoGap(delivered'[<<d, c>>], Others(c), FrameSrc, FrameNum, Conns)
  <1> DEFINE a == delivered[<<d, c>>]
             p == dataQ[d]
             x == Head(p)
             q == Append(a, x)
             r == Tail(p)
             D == Others(c)
  <1>1. /\ p # <<>> /\ x \in Frame
        /\ c \in wsConns[d][reply[x.conn]] /\ backend[<<d, c>>] = "open"
        /\ delivered'[<<d, c>>] = q
    BY HandledFrame
  <1>2. a \in Seq(Frame) /\ p \in Seq(Frame)
    BY DEF TypeOK
  <1>3. q \in Seq(Frame) /\ r \in Seq(Frame)
    BY <1>1, <1>2, QueueTail, QueueAppend
  <1>4. q \o r = a \o p
    <2>1. p # <<>> => Append(a, Head(p)) \o Tail(p) = a \o p
      BY <1>2, MovesAlong
    <2> QED
      BY <1>1, <2>1
  <1>5. CASE Active(d, c)
    <2>1. InFlow(a \o p, D, Open, frames)
      BY <1>5 DEF FramesFlow, PipeIn
    <2>2. /\ Sorted(q \o r, FrameSrc, FrameNum) /\ NoGap(q \o r, D, FrameSrc, FrameNum, Conns)
          /\ FrameNum \in [Frame -> Nat]
      BY <1>4, <2>1, FrameNumbers DEF InFlow
    <2> HIDE DEF q, r, D
    <2>3. Sorted(q, FrameSrc, FrameNum) /\ NoGap(q, D, FrameSrc, FrameNum, Conns)
      BY <1>3, <2>2, BeforeInOrder
    <2> QED
      BY <1>1, <1>3, <2>3 DEF D
  <1>6. reply[c] = reply[x.conn]
    <2>1. x.conn \in Conns
      BY <1>1, FrameNumbers
    <2>2. reply[x.conn] \in Replies
      BY <2>1 DEF TypeOK
    <2>3. \A t \in Replies : c \in wsConns[d][t] => reply[c] = t
      BY DEF Table
    <2> QED
      BY <1>1, <2>2, <2>3
  <1>7. Active(d, c)
    BY <1>1, <1>6 DEF Active, KeyFor
  <1> QED
    BY <1>5, <1>7


\* Frames are in order, where they wait and where they were given.
FramesInv == ControlInv /\ FramesFlow /\ FramesContiguous

\* The initial states have it.
LEMMA InitFrames == Init => FramesInv
  <1> SUFFICES ASSUME Init
               PROVE  FramesInv
    OBVIOUS
  <1>1. FramesContiguous
    BY DEF Init, FramesContiguous
  <1>2. \A d \in Reverses : InFlow(dataQ[d], {}, Open, frames)
    <2>1. \A d \in Reverses : dataQ[d] = <<>>
      BY DEF Init
    <2> QED
      BY <2>1, EmptyInFlow
  <1>3. \A d \in Reverses, c \in Conns : ~Active(d, c)
    BY DEF Init, Active
  <1>4. FramePlaces
    BY DEF Init, FramePlaces
  <1> QED
    BY <1>1, <1>2, <1>3, <1>4, InitControl DEF FramesInv, FramesFlow, FramePlaces

\* Every step keeps it.
LEMMA NextFrames == OwnGroups /\ FramesInv /\ [Next]_vars => FramesInv'
  <1> SUFFICES ASSUME OwnGroups, FramesInv, [Next]_vars
               PROVE  FramesInv'
    OBVIOUS
  <1>1. /\ TypeOK /\ Table /\ Down /\ AnnouncedOnce /\ FramesFlow
        /\ ControlInv' /\ reply' = reply
    BY NextControl, ClientsKept DEF FramesInv, ControlInv, Control
  <1>2. FramePlaces'
    BY <1>1, FramePlacesStep
  <1>3. \A d \in Reverses : InFlow(dataQ'[d], {}, Open', frames')
    BY <1>1, QueueFlowStep
  <1>4. ASSUME NEW d \in Reverses, NEW c \in Conns, Active(d, c)'
        PROVE  InFlow(PipeIn(d, c)', Others(c)', Open', frames')
    <2>1. Others(c)' = Others(c)
      BY <1>1 DEF Others
    <2> QED
      BY <1>1, <1>4, <2>1, ActiveFlowStep
  <1>5. FramesFlow'
    BY <1>2, <1>3, <1>4 DEF FramesFlow, FramePlaces
  <1>6. ASSUME NEW d \in Reverses, NEW c \in Conns,
               NEW i \in DOMAIN delivered'[<<d, c>>], NEW j \in DOMAIN delivered'[<<d, c>>],
               i < j, delivered'[<<d, c>>][i].conn = delivered'[<<d, c>>][j].conn
        PROVE  /\ delivered'[<<d, c>>][i].n < delivered'[<<d, c>>][j].n
               /\ \A n \in (delivered'[<<d, c>>][i].n + 1)..(delivered'[<<d, c>>][j].n - 1) :
                     \E k \in (i + 1)..(j - 1) :
                        delivered'[<<d, c>>][k] = [delivered'[<<d, c>>][i] EXCEPT !.n = n]
    <2> DEFINE q == delivered'[<<d, c>>]
    <2>1. CASE q = delivered[<<d, c>>]
      <3>1. \A m, l \in DOMAIN delivered[<<d, c>>] :
               m < l /\ delivered[<<d, c>>][m].conn = delivered[<<d, c>>][l].conn =>
                  /\ delivered[<<d, c>>][m].n < delivered[<<d, c>>][l].n
                  /\ \A n \in (delivered[<<d, c>>][m].n + 1)..(delivered[<<d, c>>][l].n - 1) :
                        \E k \in (m + 1)..(l - 1) :
                           delivered[<<d, c>>][k] = [delivered[<<d, c>>][m] EXCEPT !.n = n]
        BY DEF FramesInv, FramesContiguous
      <3> QED
        BY <1>6, <2>1, <3>1
    <2>2. CASE q # delivered[<<d, c>>]
      <3>1. HandleFrame(d)
        BY <1>1, <2>2, FramesKept, HandledFrame
      <3>2. /\ q \in Seq(Frame) /\ Sorted(q, FrameSrc, FrameNum)
            /\ NoGap(q, Others(c), FrameSrc, FrameNum, Conns)
        BY <1>1, <2>2, <3>1, DeliveredInOrder
      <3>3. \A m \in DOMAIN q : reply[q[m].conn] = reply[c]
        <4>1. <<d, c>> \in Reverses \X Conns /\ <<d, c>>[2] = c
          OBVIOUS
        <4> QED
          BY <1>1, <1>2, <4>1 DEF FramePlaces
      <3> HIDE DEF q
      <3>4. \A m, l \in DOMAIN q : m < l /\ q[m].conn = q[l].conn =>
               /\ q[m].n < q[l].n
               /\ \A n \in (q[m].n + 1)..(q[l].n - 1) :
                     \E k \in (m + 1)..(l - 1) : q[k] = [q[m] EXCEPT !.n = n]
        BY <3>2, <3>3, GivenInOrder
      <3> QED
        BY <1>6, <3>4 DEF q
    <2> QED
      BY <2>1, <2>2
  <1>7. FramesContiguous'
    BY <1>2, <1>6 DEF FramesContiguous, FramePlaces
  <1> QED
    BY <1>1, <1>5, <1>7 DEF FramesInv

\* If no two h8srd share a queue group, a backend connection is given the frames of its
\* own reply subject only, those of one client in order and without a gap
\* (reverse.go:643, 673-689).
THEOREM FramesKeepOrder ==
    ASSUME OwnGroups
    PROVE  Spec => []FramesContiguous
  <1>1. FramesInv => FramesContiguous
    BY DEF FramesInv
  <1>2. FramesInv /\ [Next]_vars => FramesInv'
    BY NextFrames
  <1> QED
    BY <1>1, <1>2, InitFrames, PTL DEF Spec

================================================================================
