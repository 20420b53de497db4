--------------------------- MODULE HttpTunnelProofs ---------------------------
(* Proofs about HttpTunnel, for every value of its constants. *)
EXTENDS HttpTunnel, TLAPS

-------------------------------------------------------------------------------
(* Type correctness.                                                       *)

\* A published reply is appended to its stream and put in the inbox.
LEMMA PublishReplyType ==
    ASSUME TypeOK, NEW r \in Requests, NEW m \in Reply, PublishReply(r, m)
    PROVE  /\ stream' \in [Requests -> Seq(Reply)]
           /\ inbox' \in Seq(Envelope)
  <1>1. stream[r] \in Seq(Reply) /\ Len(stream[r]) \in Nat
    BY DEF TypeOK
  <1>2. Append(stream[r], m) \in Seq(Reply)
    BY <1>1
  <1>3. [req |-> r, at |-> Len(stream[r]) + 1] \in Envelope
    BY <1>1 DEF Envelope
  <1>4. inbox \in Seq(Envelope) /\ stream \in [Requests -> Seq(Reply)]
    BY DEF TypeOK
  <1>5. CASE UNCHANGED <<stream, inbox>>
    BY <1>4, <1>5
  <1>6. CASE /\ stream' = [stream EXCEPT ![r] = Append(@, m)]
             /\ inbox' = Append(inbox, [req |-> r, at |-> Len(stream[r]) + 1])
    BY <1>2, <1>3, <1>4, <1>6
  <1> QED
    BY <1>5, <1>6 DEF PublishReply

\* Routing a request leaves queues, streams and inbox well typed.
LEMMA RouteRequestType ==
    ASSUME TypeOK, NEW r \in Requests, RouteRequest(r)
    PROVE  /\ stream' \in [Requests -> Seq(Reply)]
           /\ inbox' \in Seq(Envelope)
           /\ queue' \in [Responders -> Seq(Requests)]
  <1>1. CASE up # {} /\ UNCHANGED <<stream, inbox>>
             /\ \E chosen \in Routes :
                   queue' = [d \in Responders |->
                                IF d \in chosen THEN Append(queue[d], r) ELSE queue[d]]
    <2>1. \A d \in Responders : queue[d] \in Seq(Requests) /\ Append(queue[d], r) \in Seq(Requests)
      BY DEF TypeOK
    <2> QED
      BY <1>1, <2>1 DEF TypeOK
  <1>2. CASE /\ PublishReply(r, [kind |-> "noResponders", head |-> "503", from |-> Server])
             /\ UNCHANGED queue
    <2>1. [kind |-> "noResponders", head |-> "503", from |-> Server] \in Reply
      BY DEF Reply, Kinds, Heads
    <2> QED
      BY <1>2, <2>1, PublishReplyType DEF TypeOK
  <1> QED
    BY <1>1, <1>2 DEF RouteRequest

\* The message a handler receives next, and what its kind and head can be.
LEMMA HeadType ==
    ASSUME TypeOK, NEW r \in Requests, chan[r] # <<>>
    PROVE  /\ Head(chan[r]) \in Envelope
           /\ Tail(chan[r]) \in Seq(Envelope)
           /\ Len(Tail(chan[r])) = Len(chan[r]) - 1
  BY DEF TypeOK

\* The status written by copyHeadersOnce is a status.
LEMMA StatusAfterType ==
    ASSUME TypeOK, NEW r \in Requests, NEW e \in Envelope,
           e.req = r, e.at \in DOMAIN stream[r]
    PROVE  StatusAfter(r, Msg(e)) \in Statuses
  <1>1. Msg(e) \in Reply
    BY DEF TypeOK, Msg
  <1> QED
    BY <1>1 DEF StatusAfter, TypeOK, Statuses, Reply

-------------------------------------------------------------------------------
(* What is in flight for a request is a sequence of positions that grows   *)
(* from the handler to the inbox: what the handler took comes before what  *)
(* is in its channel, and that before what is in the inbox.                *)

InFlight(e, r) == e.req = r /\ e.at <= Len(stream[r])

Increasing(s) == \A i, j \in DOMAIN s : i < j => s[i].at < s[j].at

\* Every envelope stands for a published reply; a channel and a handler only
\* hold those of their own request.
Published ==
    /\ \A i \in DOMAIN inbox : inbox[i].at <= Len(stream[inbox[i].req])
    /\ \A r \in Requests :
          /\ \A i \in DOMAIN chan[r] : InFlight(chan[r][i], r)
          /\ \A i \in DOMAIN taken[r] : InFlight(taken[r][i], r)

Ordered ==
    /\ \A i, j \in DOMAIN inbox :
          i < j /\ inbox[i].req = inbox[j].req => inbox[i].at < inbox[j].at
    /\ \A r \in Requests :
          /\ Increasing(chan[r])
          /\ Increasing(taken[r])
          /\ \A i \in DOMAIN taken[r], j \in DOMAIN chan[r] : taken[r][i].at < chan[r][j].at
          /\ \A i \in DOMAIN chan[r], j \in DOMAIN inbox :
                inbox[j].req = r => chan[r][i].at < inbox[j].at
          /\ \A i \in DOMAIN taken[r], j \in DOMAIN inbox :
                inbox[j].req = r => taken[r][i].at < inbox[j].at

IInv == TypeOK /\ Published /\ Ordered

\* A step that moves no reply.
LEMMA StillOrder ==
    ASSUME IInv, UNCHANGED <<chan, inbox, stream, taken>>
    PROVE  Published' /\ Ordered'
  BY DEF IInv, Published, Ordered, InFlight, Increasing

\* Publishing a reply appends the newest position of its request.
LEMMA NewestOrder ==
    ASSUME IInv, NEW r \in Requests, NEW m \in Reply, PublishReply(r, m),
           r \notin PublishOnly, UNCHANGED <<chan, taken>>
    PROVE  Published' /\ Ordered'
  <1> DEFINE e == [req |-> r, at |-> Len(stream[r]) + 1]
  <1>0. TypeOK /\ Published /\ Ordered
    BY DEF IInv
  <1>1. \A x \in Requests : Len(stream[x]) \in Nat
    BY <1>0 DEF TypeOK
  <1>2. /\ Len(stream'[r]) = Len(stream[r]) + 1
        /\ \A x \in Requests : Len(stream'[x]) \in Nat /\ Len(stream[x]) <= Len(stream'[x])
    <2>1. stream[r] \in Seq(Reply)
      BY <1>0 DEF TypeOK
    <2>2. Len(Append(stream[r], m)) = Len(stream[r]) + 1
      BY <2>1
    <2>3. \A x \in Requests : stream'[x] = IF x = r THEN Append(stream[r], m) ELSE stream[x]
      BY <1>0 DEF PublishReply, TypeOK
    <2>4. ASSUME NEW x \in Requests, x # r
          PROVE  stream'[x] = stream[x]
      BY <2>3, <2>4
    <2>5. stream'[r] = Append(stream[r], m)
      BY <2>3
    <2>6. Len(stream'[r]) = Len(stream[r]) + 1
      BY <2>2, <2>5
    <2> QED
      BY <1>1, <2>4, <2>6
  <1>3. /\ inbox \in Seq(Envelope)
        /\ inbox' = Append(inbox, e)
        /\ Len(inbox) \in Nat
        /\ DOMAIN inbox' = 1..(Len(inbox) + 1)
        /\ DOMAIN inbox = 1..Len(inbox)
        /\ \A i \in DOMAIN inbox : inbox'[i] = inbox[i] /\ inbox[i] \in Envelope
        /\ inbox'[Len(inbox) + 1] = e
    BY <1>0 DEF TypeOK, PublishReply
  <1>4. \A x \in Requests : /\ \A i \in DOMAIN chan[x] : chan[x][i] \in Envelope
                            /\ \A i \in DOMAIN taken[x] : taken[x][i] \in Envelope
    BY <1>0 DEF TypeOK
  <1>5. Published'
    <2>1. \A i \in DOMAIN inbox' : inbox'[i].at <= Len(stream'[inbox'[i].req])
      <3> SUFFICES ASSUME NEW i \in DOMAIN inbox'
                   PROVE  inbox'[i].at <= Len(stream'[inbox'[i].req])
        OBVIOUS
      <3>1. CASE i = Len(inbox) + 1
        BY <1>1, <1>2, <1>3, <3>1
      <3>2. CASE i \in DOMAIN inbox
        BY <1>0, <1>1, <1>2, <1>3, <3>2 DEF Published, Envelope
      <3> QED
        BY <1>3, <3>1, <3>2
    <2>2. \A x \in Requests : \A i \in DOMAIN chan[x] : InFlight(chan[x][i], x)'
      BY <1>0, <1>1, <1>2, <1>4 DEF Published, InFlight, Envelope
    <2>3. \A x \in Requests : \A i \in DOMAIN taken[x] : InFlight(taken[x][i], x)'
      BY <1>0, <1>1, <1>2, <1>4 DEF Published, InFlight, Envelope
    <2> QED
      BY <2>1, <2>2, <2>3 DEF Published, InFlight
  <1>6. Ordered'
    <2>1. \A i, j \in DOMAIN inbox' :
             i < j /\ inbox'[i].req = inbox'[j].req => inbox'[i].at < inbox'[j].at
      <3> SUFFICES ASSUME NEW i \in DOMAIN inbox', NEW j \in DOMAIN inbox',
                          i < j, inbox'[i].req = inbox'[j].req
                   PROVE  inbox'[i].at < inbox'[j].at
        OBVIOUS
      <3>1. i \in DOMAIN inbox
        BY <1>3
      <3>2. CASE j = Len(inbox) + 1
        BY <1>0, <1>1, <1>3, <3>1, <3>2 DEF Published, Envelope
      <3>3. CASE j \in DOMAIN inbox
        BY <1>0, <1>3, <3>1, <3>3 DEF Ordered
      <3> QED
        BY <1>3, <3>2, <3>3
    <2>2. \A x \in Requests : \A i \in DOMAIN chan[x], j \in DOMAIN inbox' :
             inbox'[j].req = x => chan[x][i].at < inbox'[j].at
      BY <1>0, <1>1, <1>3, <1>4 DEF Published, Ordered, InFlight, Envelope
    <2>3. \A x \in Requests : \A i \in DOMAIN taken[x], j \in DOMAIN inbox' :
             inbox'[j].req = x => taken[x][i].at < inbox'[j].at
      BY <1>0, <1>1, <1>3, <1>4 DEF Published, Ordered, InFlight, Envelope
    <2> QED
      BY <1>0, <2>1, <2>2, <2>3 DEF Ordered
  <1> QED
    BY <1>5, <1>6

\* Publishing a reply keeps the order, and leaves a PublishOnly request alone.
LEMMA PublishReplyOrder ==
    ASSUME IInv, NEW r \in Requests, NEW m \in Reply, PublishReply(r, m),
           UNCHANGED <<chan, taken>>
    PROVE  Published' /\ Ordered'
  <1>1. CASE r \in PublishOnly
    BY <1>1, StillOrder DEF PublishReply
  <1> QED
    BY <1>1, NewestOrder

\* A handler takes the oldest reply of its channel.
LEMMA ReceiveOrder ==
    ASSUME IInv, NEW r \in Requests, Receive(r)
    PROVE  Published' /\ Ordered'
  <1>0. TypeOK /\ Published /\ Ordered
    BY DEF IInv
  <1> DEFINE c == chan[r]
             t == taken[r]
  <1>1. /\ c \in Seq(Envelope) /\ c # <<>> /\ t \in Seq(Envelope)
        /\ stream' = stream /\ inbox' = inbox
        /\ chan' = [chan EXCEPT ![r] = Tail(c)]
        /\ taken' = [taken EXCEPT ![r] = Append(t, Head(c))]
    BY <1>0 DEF TypeOK, Receive, Rest
  <1>2. /\ Len(c) \in Nat \ {0}
        /\ DOMAIN c = 1..Len(c)
        /\ DOMAIN Tail(c) = 1..(Len(c) - 1)
        /\ \A i \in 1..(Len(c) - 1) : Tail(c)[i] = c[i + 1]
        /\ Head(c) = c[1]
    BY <1>1
  <1>3. /\ Len(t) \in Nat
        /\ DOMAIN t = 1..Len(t)
        /\ DOMAIN Append(t, Head(c)) = 1..(Len(t) + 1)
        /\ \A i \in 1..Len(t) : Append(t, Head(c))[i] = t[i]
        /\ Append(t, Head(c))[Len(t) + 1] = c[1]
    BY <1>1, <1>2
  <1>4. \A x \in Requests : /\ chan'[x] = IF x = r THEN Tail(c) ELSE chan[x]
                            /\ taken'[x] = IF x = r THEN Append(t, Head(c)) ELSE taken[x]
    BY <1>0, <1>1 DEF TypeOK
  <1>5. Published'
    <2>1. \A i \in DOMAIN Tail(c) : InFlight(Tail(c)[i], r)
      BY <1>0, <1>2 DEF Published
    <2>2. \A i \in DOMAIN Append(t, Head(c)) : InFlight(Append(t, Head(c))[i], r)
      BY <1>0, <1>2, <1>3 DEF Published
    <2> QED
      BY <1>0, <1>1, <1>4, <2>1, <2>2 DEF Published, InFlight
  <1>6. Ordered'
    <2>1. Increasing(Tail(c))
      BY <1>0, <1>2 DEF Ordered, Increasing
    <2>2. Increasing(Append(t, Head(c)))
      BY <1>0, <1>2, <1>3 DEF Ordered, Increasing
    <2>3. \A i \in DOMAIN Append(t, Head(c)), j \in DOMAIN Tail(c) :
             Append(t, Head(c))[i].at < Tail(c)[j].at
      BY <1>0, <1>2, <1>3, SMTT(30) DEF Ordered, Increasing
    <2>4. \A i \in DOMAIN Tail(c), j \in DOMAIN inbox :
             inbox[j].req = r => Tail(c)[i].at < inbox[j].at
      BY <1>0, <1>2 DEF Ordered
    <2>5. \A i \in DOMAIN Append(t, Head(c)), j \in DOMAIN inbox :
             inbox[j].req = r => Append(t, Head(c))[i].at < inbox[j].at
      BY <1>0, <1>2, <1>3 DEF Ordered
    <2>6. \A x \in Requests : Increasing(chan'[x]) /\ Increasing(taken'[x])
      BY <1>0, <1>4, <2>1, <2>2 DEF Ordered
    <2>7. \A x \in Requests :
             /\ \A i \in DOMAIN taken'[x], j \in DOMAIN chan'[x] : taken'[x][i].at < chan'[x][j].at
             /\ \A i \in DOMAIN chan'[x], j \in DOMAIN inbox :
                   inbox[j].req = x => chan'[x][i].at < inbox[j].at
             /\ \A i \in DOMAIN taken'[x], j \in DOMAIN inbox :
                   inbox[j].req = x => taken'[x][i].at < inbox[j].at
      <3> SUFFICES ASSUME NEW x \in Requests
                   PROVE  /\ \A i \in DOMAIN taken'[x], j \in DOMAIN chan'[x] :
                                taken'[x][i].at < chan'[x][j].at
                          /\ \A i \in DOMAIN chan'[x], j \in DOMAIN inbox :
                                inbox[j].req = x => chan'[x][i].at < inbox[j].at
                          /\ \A i \in DOMAIN taken'[x], j \in DOMAIN inbox :
                                inbox[j].req = x => taken'[x][i].at < inbox[j].at
        OBVIOUS
      <3>1. CASE x = r
        BY <1>4, <2>3, <2>4, <2>5, <3>1
      <3>2. CASE x # r
        BY <1>0, <1>4, <3>2 DEF Ordered
      <3> QED
        BY <3>1, <3>2
    <2> QED
      BY <1>0, <1>1, <2>6, <2>7 DEF Ordered, Increasing
  <1> QED
    BY <1>5, <1>6
\* Removing the oldest message of the inbox.
LEMMA InboxTail ==
    ASSUME IInv, inbox # <<>>
    PROVE  /\ Head(inbox) \in Envelope
           /\ Head(inbox) = inbox[1]
           /\ Len(inbox) \in Nat \ {0}
           /\ DOMAIN inbox = 1..Len(inbox)
           /\ DOMAIN Tail(inbox) = 1..(Len(inbox) - 1)
           /\ \A i \in 1..(Len(inbox) - 1) : Tail(inbox)[i] = inbox[i + 1]
           /\ Tail(inbox) \in Seq(Envelope)
  <1>1. inbox \in Seq(Envelope)
    BY DEF IInv, TypeOK
  <1> QED
    BY <1>1

\* A reply that leaves the inbox and goes nowhere.
LEMMA DiscardOrder ==
    ASSUME IInv, inbox # <<>>, inbox' = Tail(inbox), UNCHANGED <<chan, stream, taken>>
    PROVE  Published' /\ Ordered'
  <1>1. Published /\ Ordered
    BY DEF IInv
  <1>2. Published'
    BY <1>1, InboxTail DEF Published, InFlight
  <1>3. \A i, j \in DOMAIN Tail(inbox) :
           i < j /\ Tail(inbox)[i].req = Tail(inbox)[j].req
           => Tail(inbox)[i].at < Tail(inbox)[j].at
    BY <1>1, InboxTail DEF Ordered
  <1>4. \A x \in Requests :
           /\ \A i \in DOMAIN chan[x], j \in DOMAIN Tail(inbox) :
                 Tail(inbox)[j].req = x => chan[x][i].at < Tail(inbox)[j].at
           /\ \A i \in DOMAIN taken[x], j \in DOMAIN Tail(inbox) :
                 Tail(inbox)[j].req = x => taken[x][i].at < Tail(inbox)[j].at
    BY <1>1, InboxTail DEF Ordered
  <1> QED
    BY <1>1, <1>2, <1>3, <1>4 DEF Ordered, Increasing

\* dispatch moves the oldest reply of the inbox to the end of a channel.
LEMMA SendOrder ==
    ASSUME IInv, inbox # <<>>, inbox' = Tail(inbox), UNCHANGED <<stream, taken>>,
           chan' = [chan EXCEPT ![Head(inbox).req] = Append(@, Head(inbox))]
    PROVE  Published' /\ Ordered'
  <1> DEFINE e == Head(inbox)
             r == e.req
             c == chan[r]
  <1>0. TypeOK /\ Published /\ Ordered
    BY DEF IInv
  <1>1. r \in Requests /\ e.at \in Nat /\ e = inbox[1]
    BY InboxTail DEF Envelope
  <1>2. c \in Seq(Envelope)
    BY <1>0, <1>1 DEF TypeOK
  <1>3. /\ Len(c) \in Nat
        /\ DOMAIN c = 1..Len(c)
        /\ DOMAIN Append(c, e) = 1..(Len(c) + 1)
        /\ \A i \in 1..Len(c) : Append(c, e)[i] = c[i]
        /\ Append(c, e)[Len(c) + 1] = e
    BY <1>2, InboxTail
  <1>4. \A x \in Requests : chan'[x] = IF x = r THEN Append(c, e) ELSE chan[x]
    BY <1>0, <1>1 DEF TypeOK
  <1>5. Published'
    <2>a. InFlight(e, r)
      <3>1. 1 \in DOMAIN inbox
        BY InboxTail
      <3> QED
        BY <1>0, <1>1, <3>1 DEF Published, InFlight
    <2>b. \A i \in 1..Len(c) : InFlight(c[i], r)
      BY <1>0, <1>1, <1>3 DEF Published
    <2>1. \A i \in DOMAIN Append(c, e) : InFlight(Append(c, e)[i], r)
      BY <1>3, <2>a, <2>b
    <2>2. \A x \in Requests : \A i \in DOMAIN chan'[x] : InFlight(chan'[x][i], x)
      BY <1>0, <1>4, <2>1 DEF Published
    <2>3. \A i \in DOMAIN Tail(inbox) : Tail(inbox)[i].at <= Len(stream[Tail(inbox)[i].req])
      BY <1>0, InboxTail DEF Published
    <2> QED
      BY <1>0, <2>2, <2>3 DEF Published, InFlight
  <1>6. Ordered'
    <2>1. \A i, j \in DOMAIN Tail(inbox) :
             i < j /\ Tail(inbox)[i].req = Tail(inbox)[j].req
             => Tail(inbox)[i].at < Tail(inbox)[j].at
      BY <1>0, InboxTail DEF Ordered
    <2>a. 1 \in DOMAIN inbox
      BY InboxTail
    <2>b. /\ \A i \in DOMAIN c : c[i].at < e.at
          /\ \A i \in DOMAIN taken[r] : taken[r][i].at < e.at
      BY <1>0, <1>1, <2>a DEF Ordered
    <2>c. \A j \in DOMAIN Tail(inbox) : Tail(inbox)[j].req = r => e.at < Tail(inbox)[j].at
      <3> SUFFICES ASSUME NEW j \in DOMAIN Tail(inbox), Tail(inbox)[j].req = r
                   PROVE  e.at < Tail(inbox)[j].at
        OBVIOUS
      <3>1. j + 1 \in DOMAIN inbox /\ 1 < j + 1 /\ Tail(inbox)[j] = inbox[j + 1]
        BY InboxTail
      <3> QED
        BY <1>0, <1>1, <2>a, <3>1 DEF Ordered
    <2>2. Increasing(Append(c, e))
      BY <1>0, <1>1, <1>3, <2>b DEF Ordered, Increasing
    <2>3. \A i \in DOMAIN taken[r], j \in DOMAIN Append(c, e) :
             taken[r][i].at < Append(c, e)[j].at
      BY <1>0, <1>1, <1>3, <2>b DEF Ordered
    <2>d. \A i \in DOMAIN c, j \in DOMAIN Tail(inbox) :
             Tail(inbox)[j].req = r => c[i].at < Tail(inbox)[j].at
      <3> SUFFICES ASSUME NEW i \in DOMAIN c, NEW j \in DOMAIN Tail(inbox),
                          Tail(inbox)[j].req = r
                   PROVE  c[i].at < Tail(inbox)[j].at
        OBVIOUS
      <3>1. j + 1 \in DOMAIN inbox /\ Tail(inbox)[j] = inbox[j + 1]
        BY InboxTail
      <3> QED
        BY <1>0, <1>1, <3>1 DEF Ordered
    <2>4. \A i \in DOMAIN Append(c, e), j \in DOMAIN Tail(inbox) :
             Tail(inbox)[j].req = r => Append(c, e)[i].at < Tail(inbox)[j].at
      BY <1>3, <2>c, <2>d, SMTT(30)
    <2>5. \A x \in Requests : \A i \in DOMAIN taken[x], j \in DOMAIN Tail(inbox) :
             Tail(inbox)[j].req = x => taken[x][i].at < Tail(inbox)[j].at
      BY <1>0, InboxTail DEF Ordered
    <2>6. \A x \in Requests :
             /\ Increasing(chan'[x])
             /\ \A i \in DOMAIN taken[x], j \in DOMAIN chan'[x] : taken[x][i].at < chan'[x][j].at
             /\ \A i \in DOMAIN chan'[x], j \in DOMAIN Tail(inbox) :
                   Tail(inbox)[j].req = x => chan'[x][i].at < Tail(inbox)[j].at
      <3> SUFFICES ASSUME NEW x \in Requests
                   PROVE  /\ Increasing(chan'[x])
                          /\ \A i \in DOMAIN taken[x], j \in DOMAIN chan'[x] :
                                taken[x][i].at < chan'[x][j].at
                          /\ \A i \in DOMAIN chan'[x], j \in DOMAIN Tail(inbox) :
                                Tail(inbox)[j].req = x => chan'[x][i].at < Tail(inbox)[j].at
        OBVIOUS
      <3>1. CASE x = r
        BY <1>4, <2>2, <2>3, <2>4, <3>1
      <3>2. CASE x # r
        BY <1>0, <1>4, <3>2, InboxTail DEF Ordered
      <3> QED
        BY <3>1, <3>2
    <2> QED
      BY <1>0, <2>1, <2>5, <2>6 DEF Ordered, Increasing
  <1> QED
    BY <1>5, <1>6
-------------------------------------------------------------------------------
(* Every action preserves the invariant.                                   *)

\* The beginning of a request.
LEMMA BeginInv ==
    ASSUME IInv, NEW r \in Requests,
           Reject(r) \/ ForwardOnly(r) \/ Register(r) \/ Publish(r)
    PROVE  IInv'
  <1>0. TypeOK
    BY DEF IInv
  <1>1. CASE Reject(r)
    <2>1. TypeOK'
      BY <1>0, <1>1 DEF Reject, TypeOK, natsVars, responderVars, Statuses
    <2> QED
      BY <1>1, <2>1, StillOrder DEF Reject, natsVars, IInv
  <1>2. CASE Register(r)
    <2>1. TypeOK'
      BY <1>0, <1>2 DEF Register, TypeOK, natsVars, responderVars
    <2> QED
      BY <1>2, <2>1, StillOrder DEF Register, natsVars, IInv
  <1>3. ASSUME RouteRequest(r), UNCHANGED <<chan, taken>>
        PROVE  Published' /\ Ordered'
    <2>1. [kind |-> "noResponders", head |-> "503", from |-> Server] \in Reply
      BY DEF Reply, Kinds, Heads
    <2> QED
      BY <1>3, <2>1, PublishReplyOrder, StillOrder DEF RouteRequest
  <1>4. CASE ForwardOnly(r)
    <2>1. /\ stream' \in [Requests -> Seq(Reply)]
          /\ inbox' \in Seq(Envelope)
          /\ queue' \in [Responders -> Seq(Requests)]
      BY <1>0, <1>4, RouteRequestType DEF ForwardOnly, TypeOK
    <2>2. TypeOK'
      BY <1>0, <1>4, <2>1 DEF ForwardOnly, TypeOK, Statuses
    <2>3. Published' /\ Ordered'
      BY <1>3, <1>4, StillOrder DEF ForwardOnly
    <2> QED
      BY <2>2, <2>3 DEF IInv
  <1>5. CASE Publish(r)
    <2>1. /\ stream' \in [Requests -> Seq(Reply)]
          /\ inbox' \in Seq(Envelope)
          /\ queue' \in [Responders -> Seq(Requests)]
      BY <1>0, <1>5, RouteRequestType DEF Publish
    <2>2. TypeOK'
      BY <1>0, <1>5, <2>1 DEF Publish, TypeOK
    <2>3. Published' /\ Ordered'
      BY <1>3, <1>5 DEF Publish
    <2> QED
      BY <2>2, <2>3 DEF IInv
  <1> QED
    BY <1>1, <1>2, <1>4, <1>5

\* The wait is given up, or the deferred calls run, or the client leaves.
LEMMA LocalInv ==
    ASSUME IInv, NEW r \in Requests,
           \/ PublishFails(r) \/ ObserveGone(r) \/ Timeout(r)
           \/ Unregister(r) \/ PublishClosed(r) \/ ClientGone(r)
    PROVE  IInv'
  <1>0. TypeOK
    BY DEF IInv
  <1>1. UNCHANGED <<chan, inbox, stream, taken>>
    BY DEF PublishFails, ObserveGone, Timeout, Unregister, PublishClosed, ClientGone, natsVars
  <1>2. TypeOK'
    <2>1. CASE PublishFails(r)
      BY <1>0, <2>1 DEF PublishFails, TypeOK, natsVars, responderVars, Statuses, Heads
    <2>2. CASE ObserveGone(r)
      BY <1>0, <2>2 DEF ObserveGone, ReturnBecause, TypeOK, natsVars, responderVars, Reasons
    <2>3. CASE Timeout(r)
      <3>1. status' \in [Requests -> Statuses] /\ errorPage' \subseteq Requests
        <4>1. CASE WroteHeaders(r)
          BY <1>0, <2>3, <4>1 DEF Timeout, TypeOK
        <4>2. CASE ~WroteHeaders(r)
          <5>1. /\ status' = [status EXCEPT ![r] = "504"] /\ "504" \in Statuses
                /\ errorPage' = errorPage \cup {r}
            BY <2>3, <4>2 DEF Timeout, Statuses
          <5> QED
            BY <1>0, <5>1 DEF TypeOK
        <4> QED
          BY <4>1, <4>2
      <3>2. /\ reason' \in [Requests -> Reasons]
            /\ pc' \in [Requests -> {"idle", "registered", "waiting",
                                    "unregister", "closing", "done"}]
        BY <1>0, <2>3 DEF Timeout, ReturnBecause, TypeOK, Reasons
      <3> QED
        BY <1>0, <2>3, <3>1, <3>2 DEF Timeout, TypeOK, natsVars, responderVars
    <2>4. CASE Unregister(r)
      BY <1>0, <2>4 DEF Unregister, Delete, TypeOK, natsVars, responderVars
    <2>5. CASE PublishClosed(r)
      BY <1>0, <2>5 DEF PublishClosed, TypeOK, natsVars, responderVars
    <2>6. CASE ClientGone(r)
      BY <1>0, <2>6 DEF ClientGone, TypeOK, natsVars, responderVars
    <2> QED
      BY <2>1, <2>2, <2>3, <2>4, <2>5, <2>6
  <1> QED
    BY <1>1, <1>2, StillOrder DEF IInv

\* A message is taken from the channel.
LEMMA TakeInv ==
    ASSUME IInv, NEW r \in Requests, TakeData(r) \/ TakeDataWriteFails(r) \/ TakeEnd(r)
    PROVE  IInv'
  <1>0. TypeOK /\ Published
    BY DEF IInv
  <1>1. Receive(r)
    BY DEF TakeData, TakeDataWriteFails, TakeEnd
  <1>2. /\ Head(chan[r]) \in Envelope
        /\ Tail(chan[r]) \in Seq(Envelope)
        /\ Len(Tail(chan[r])) <= RespChanBuffer
    BY <1>0, <1>1, HeadType, ConfigAssumption DEF Receive, TypeOK
  <1>3. StatusAfter(r, Msg(Head(chan[r]))) \in Statuses
    <2>1. Head(chan[r]) = chan[r][1] /\ 1 \in DOMAIN chan[r]
      BY <1>0, <1>1 DEF Receive, TypeOK
    <2>2. InFlight(Head(chan[r]), r)
      BY <1>0, <2>1 DEF Published
    <2>3. stream[r] \in Seq(Reply)
      BY <1>0 DEF TypeOK
    <2>4. Head(chan[r]).at \in DOMAIN stream[r]
      BY <1>2, <2>2, <2>3 DEF InFlight, Envelope
    <2> QED
      BY <1>0, <1>2, <2>2, <2>4, StatusAfterType DEF InFlight
  <1>4. /\ pc' \in [Requests -> {"idle", "registered", "waiting", "unregister", "closing", "done"}]
        /\ reason' \in [Requests -> Reasons]
        /\ body' \in [Requests -> Seq(Envelope)]
    <2>1. Append(body[r], Head(chan[r])) \in Seq(Envelope)
      BY <1>0, <1>2 DEF TypeOK
    <2>2. CASE TakeData(r)
      BY <1>0, <2>1, <2>2 DEF TakeData, Write, TypeOK
    <2>3. CASE TakeDataWriteFails(r)
      BY <1>0, <2>3 DEF TakeDataWriteFails, ReturnBecause, TypeOK, Reasons
    <2>4. CASE TakeEnd(r)
      BY <1>0, <2>4 DEF TakeEnd, ReturnBecause, TypeOK, Reasons
    <2> QED
      BY <2>2, <2>3, <2>4
  <1>5. /\ chan' \in [Requests -> Seq(Envelope)]
        /\ \A x \in Requests : Len(chan'[x]) <= RespChanBuffer
    BY <1>0, <1>1, <1>2 DEF Receive, Rest, TypeOK
  <1>6. taken' \in [Requests -> Seq(Envelope)]
    <2>1. Append(taken[r], Head(chan[r])) \in Seq(Envelope)
      BY <1>0, <1>2 DEF TypeOK
    <2> QED
      BY <1>0, <1>1, <2>1 DEF Receive, TypeOK
  <1>7. TypeOK'
    BY <1>0, <1>1, <1>3, <1>4, <1>5, <1>6 DEF Receive, TypeOK, responderVars
  <1> QED
    BY <1>1, <1>7, ReceiveOrder DEF IInv

\* The reply subscription.
LEMMA DispatchInv ==
    ASSUME IInv, Dispatch \/ LoseReply
    PROVE  IInv'
  <1>0. TypeOK
    BY DEF IInv
  <1> DEFINE e == Head(inbox)
  <1>1. CASE /\ UNCHANGED <<chan, inbox, stream, taken, lost>>
             /\ found' \in BOOLEAN
             /\ UNCHANGED <<handlerVars, responderVars>>
    <2>1. TypeOK'
      BY <1>0, <1>1 DEF TypeOK, handlerVars, responderVars
    <2> QED
      BY <1>1, <2>1, StillOrder DEF IInv
  <1>2. CASE /\ inbox # <<>> /\ inbox' = Tail(inbox) /\ UNCHANGED <<stream, taken>>
             /\ found' \in BOOLEAN
             /\ Discard(e) /\ UNCHANGED chan /\ UNCHANGED <<handlerVars, responderVars>>
    <2>0. e \in Envelope /\ e.req \in Requests /\ e.at \in Nat \ {0} /\ Tail(inbox) \in Seq(Envelope)
      BY <1>2, InboxTail DEF Envelope
    <2>1. lost' \in [Requests -> SUBSET (Nat \ {0})]
      BY <1>0, <1>2, <2>0 DEF Discard, TypeOK
    <2>2. TypeOK'
      BY <1>0, <1>2, <2>0, <2>1 DEF TypeOK, handlerVars, responderVars
    <2> QED
      BY <1>2, <2>2, DiscardOrder DEF IInv
  <1>3. CASE /\ inbox # <<>> /\ inbox' = Tail(inbox) /\ UNCHANGED <<stream, taken>>
             /\ found' \in BOOLEAN
             /\ HasRoom(e)
             /\ chan' = [chan EXCEPT ![e.req] = Send(@, e)]
             /\ UNCHANGED lost /\ UNCHANGED <<handlerVars, responderVars>>
    <2>0. e \in Envelope /\ e.req \in Requests /\ Tail(inbox) \in Seq(Envelope)
      BY <1>3, InboxTail DEF Envelope
    <2>1. /\ chan[e.req] \in Seq(Envelope)
          /\ Append(chan[e.req], e) \in Seq(Envelope)
          /\ Len(Append(chan[e.req], e)) <= RespChanBuffer
      BY <1>0, <2>0, <1>3, ConfigAssumption DEF TypeOK, HasRoom
    <2>2. /\ chan' \in [Requests -> Seq(Envelope)]
          /\ \A x \in Requests : Len(chan'[x]) <= RespChanBuffer
      BY <1>0, <2>0, <1>3, <2>1 DEF TypeOK, Send
    <2>3. TypeOK'
      BY <1>0, <1>3, <2>0, <2>2 DEF TypeOK, handlerVars, responderVars
    <2> QED
      BY <1>3, <2>3, SendOrder DEF IInv, Send
  <1>4. CASE Load
    BY <1>0, <1>1, <1>2, <1>4 DEF Load, handlerVars, TypeOK
  <1>5. CASE Offer
    BY <1>2, <1>3, <1>5 DEF Offer, handlerVars
  <1>6. CASE LoseReply
    BY <1>0, <1>2, <1>6 DEF LoseReply, handlerVars, TypeOK
  <1> QED
    BY <1>4, <1>5, <1>6 DEF Dispatch

\* The responders.
LEMMA ResponderInv ==
    ASSUME IInv, NEW d \in Responders, ResponderStep(d) \/ Crash(d) \/ Restart(d)
    PROVE  IInv'
  <1>0. TypeOK
    BY DEF IInv
  <1>1. ASSUME Serving(d)
        PROVE  Head(queue[d]) \in Requests /\ Tail(queue[d]) \in Seq(Requests)
    BY <1>0, <1>1 DEF Serving, TypeOK
  <1>2. ASSUME Serving(d), NEW kind \in Kinds, NEW head \in Heads, Answer(d, kind, head),
               UNCHANGED <<chan, taken>>
        PROVE  /\ stream' \in [Requests -> Seq(Reply)]
               /\ inbox' \in Seq(Envelope)
               /\ Published' /\ Ordered'
    <2>1. [kind |-> kind, head |-> head, from |-> d] \in Reply
      BY DEF Reply
    <2> QED
      BY <1>0, <1>1, <1>2, <2>1, PublishReplyType, PublishReplyOrder DEF Answer
  <1>3. ASSUME Serving(d), Return(d)
        PROVE  /\ queue' \in [Responders -> Seq(Requests)]
               /\ stage' \in [Responders -> {"idle", "streaming"}]
               /\ sentChunks' \in [Responders -> 0..MaxChunks]
    BY <1>0, <1>1, <1>3, ConfigAssumption, SMTT(30) DEF Return, TypeOK
  <1>4. HeadOf(d) \in Heads /\ "none" \in Heads /\ {"502", "400"} \subseteq Heads
    BY DEF HeadOf, Heads
  <1>5. {"error", "chunk", "eof", "cut", "single", "term"} \subseteq Kinds
    BY DEF Kinds
  <1>6. CASE \E code \in {"502", "400"} :
               /\ Serving(d) /\ Answer(d, "error", code) /\ Return(d)
               /\ UNCHANGED <<chan, found, lost, up, crashes, handlerVars>>
    BY <1>0, <1>2, <1>3, <1>4, <1>5, <1>6 DEF IInv, TypeOK, handlerVars
  <1>7. CASE \E kind \in {"eof", "cut"}, head \in Heads :
               /\ Serving(d) /\ Answer(d, kind, head) /\ Return(d)
               /\ UNCHANGED <<chan, found, lost, up, crashes, handlerVars>>
    BY <1>0, <1>2, <1>3, <1>5, <1>7 DEF IInv, TypeOK, handlerVars
  <1>8. CASE \E kind \in {"chunk", "single", "term", "eof"}, head \in Heads :
               /\ Serving(d) /\ sentChunks[d] < MaxChunks /\ Answer(d, kind, head)
               /\ sentChunks' = [sentChunks EXCEPT ![d] = @ + 1]
               /\ UNCHANGED <<chan, found, lost, up, queue, stage, crashes, handlerVars>>
    <2>1. sentChunks' \in [Responders -> 0..MaxChunks]
      BY <1>0, <1>8, ConfigAssumption DEF TypeOK
    <2>2. PICK kind \in {"chunk", "single", "term", "eof"}, head \in Heads : Answer(d, kind, head)
      BY <1>8
    <2>3. /\ stream' \in [Requests -> Seq(Reply)]
          /\ inbox' \in Seq(Envelope)
          /\ Published' /\ Ordered'
      BY <1>2, <1>5, <1>8, <2>2 DEF handlerVars
    <2> QED
      BY <1>0, <1>8, <2>1, <2>3 DEF IInv, TypeOK, handlerVars
  <1>9. CASE Serving(d) /\ Return(d) /\ UNCHANGED <<natsVars, up, crashes, handlerVars>>
    BY <1>0, <1>3, <1>9, StillOrder DEF IInv, TypeOK, handlerVars, natsVars
  <1>10. CASE BackendAnswers(d)
    BY <1>0, <1>10, StillOrder DEF BackendAnswers, IInv, TypeOK, handlerVars, natsVars
  <1>11. CASE Crash(d) \/ Restart(d)
    <2>1. UNCHANGED natsVars /\ UNCHANGED handlerVars
      BY <1>11 DEF Crash, Restart
    <2>2. up' \subseteq Responders /\ crashes' \in 0..MaxCrashes
      BY <1>0, <1>11, ConfigAssumption, SMTT(30) DEF Crash, Restart, TypeOK
    <2>3. /\ queue' \in [Responders -> Seq(Requests)]
          /\ stage' \in [Responders -> {"idle", "streaming"}]
          /\ sentChunks' \in [Responders -> 0..MaxChunks]
      <3>1. CASE Crash(d)
        <4>1. <<>> \in Seq(Requests) /\ 0 \in 0..MaxChunks
          BY ConfigAssumption
        <4> QED
          BY <1>0, <3>1, <4>1 DEF Crash, TypeOK
      <3>2. CASE Restart(d)
        BY <1>0, <3>2 DEF Restart, TypeOK
      <3> QED
        BY <1>11, <3>1, <3>2
    <2> QED
      BY <1>0, <2>1, <2>2, <2>3, StillOrder DEF IInv, TypeOK, handlerVars, natsVars
  <1>12. CASE AnswerError(d)
    BY <1>6, <1>12 DEF AnswerError
  <1>13. CASE AnswerNothing(d)
    BY <1>9, <1>13 DEF AnswerNothing
  <1>14. CASE ReadChunk(d)
    BY <1>4, <1>8, <1>14 DEF ReadChunk
  <1>15. CASE ServicePublish(d)
    <2>1. {"none", "backend"} \subseteq Heads
      BY DEF Heads
    <2> QED
      BY <1>8, <1>15, <2>1 DEF ServicePublish
  <1>16. CASE ReadEOF(d) \/ ReadError(d)
    BY <1>4, <1>7, <1>16 DEF ReadEOF, ReadError
  <1>17. CASE ServiceReturn(d)
    BY <1>9, <1>17 DEF ServiceReturn
  <1> QED
    BY <1>10, <1>11, <1>12, <1>13, <1>14, <1>15, <1>16, <1>17 DEF ResponderStep

-------------------------------------------------------------------------------
(* The theorems.                                                           *)

\* Nothing is on the way at the start.
LEMMA InitInv == Init => IInv
  <1> SUFFICES ASSUME Init PROVE IInv
    OBVIOUS
  <1>1. /\ <<>> \in Seq(Envelope) /\ <<>> \in Seq(Reply) /\ <<>> \in Seq(Requests)
        /\ Len(<<>>) = 0 /\ DOMAIN <<>> = {}
    OBVIOUS
  <1>2. 0 <= RespChanBuffer /\ 0 \in 0..MaxChunks /\ 0 \in 0..MaxCrashes
    BY ConfigAssumption
  <1>3. TypeOK
    <2>1. /\ chan \in [Requests -> Seq(Envelope)]
          /\ body \in [Requests -> Seq(Envelope)]
          /\ taken \in [Requests -> Seq(Envelope)]
          /\ inbox \in Seq(Envelope)
          /\ stream \in [Requests -> Seq(Reply)]
          /\ queue \in [Responders -> Seq(Requests)]
      BY <1>1 DEF Init
    <2>2. \A r \in Requests : Len(chan[r]) <= RespChanBuffer
      BY <1>1, <1>2 DEF Init
    <2>3. /\ lost \in [Requests -> SUBSET (Nat \ {0})]
          /\ sentChunks \in [Responders -> 0..MaxChunks]
          /\ stage \in [Responders -> {"idle", "streaming"}]
          /\ crashes \in 0..MaxCrashes
          /\ up \subseteq Responders
      BY <1>2 DEF Init
    <2>4. /\ status \in [Requests -> Statuses]
          /\ reason \in [Requests -> Reasons]
          /\ closed \in [Requests -> Reasons \cup {"none"}]
          /\ pc \in [Requests -> {"idle", "registered", "waiting", "unregister", "closing", "done"}]
      BY DEF Init, Statuses, Heads, Reasons
    <2> QED
      BY <2>1, <2>2, <2>3, <2>4 DEF Init, TypeOK
  <1>4. Published /\ Ordered
    BY <1>1 DEF Init, Published, Ordered, Increasing
  <1> QED
    BY <1>3, <1>4 DEF IInv

\* Every action of every actor preserves the inductive invariant.
LEMMA NextInv == IInv /\ [Next]_vars => IInv'
  <1> SUFFICES ASSUME IInv, [Next]_vars PROVE IInv'
    OBVIOUS
  <1>1. ASSUME NEW r \in Requests,
               \/ Reject(r) \/ ForwardOnly(r) \/ Register(r) \/ ClientGone(r)
               \/ HandlerStep(r)
        PROVE  IInv'
    BY <1>1, BeginInv, LocalInv, TakeInv DEF HandlerStep
  <1>2. CASE Dispatch \/ LoseReply
    BY <1>2, DispatchInv
  <1>3. ASSUME NEW d \in Responders, ResponderStep(d) \/ Crash(d) \/ Restart(d)
        PROVE  IInv'
    BY <1>3, ResponderInv
  <1>4. CASE UNCHANGED vars
    BY <1>4, StillOrder DEF vars, handlerVars, natsVars, responderVars, IInv, TypeOK
  <1> QED
    BY <1>1, <1>2, <1>3, <1>4 DEF Next

\* The invariant holds in every behaviour, whatever the numbers of requests,
\* responders, chunks and crashes and the capacity of the channels.
LEMMA Invariance == Spec => []IInv
  BY InitInv, NextInv, PTL DEF Spec

\* Type correctness of the HTTP path (state of proxy.go and reverse.go).
THEOREM TypeCorrect == Spec => []TypeOK
  <1>1. IInv => TypeOK
    BY DEF IInv
  <1> QED
    BY <1>1, Invariance, PTL

\* Replies reach their own handler in order and at most once
\* (proxy.go:257-275, 506).
THEOREM RepliesInOrder == Spec => []InOrder
  <1>1. IInv => InOrder
    BY DEF IInv, Published, Ordered, InFlight, Increasing, InOrder
  <1> QED
    BY <1>1, Invariance, PTL
===============================================================================
