---------------------------- MODULE WsTunnelProofs ----------------------------
(* Proofs about the WebSocket path, for every number of clients, keys,       *)
(* sessions and h8srd instances: who hangs up on a backend, and which backend *)
(* connections are known.                                                     *)
EXTENDS WsTunnel, SequenceTheorems, TLAPS

\* Subscribe has not been called.
Early(c) == pc[c] \in {"idle", "announced", "pooled"}

-------------------------------------------------------------------------------
(* The control messages.                                                   *)

\* The pool has a connection under its own key, and a close notice is published only
\* for one whose key a client has that has left, was shut out or broke its connection.
Noticed ==
    /\ \A k \in Keys : \A c \in pool[k] : key[c] = k /\ pc[c] \notin {"idle", "announced"}
    /\ \A c \in noticed : /\ pc[c] \notin {"idle", "announced"}
                          /\ \E e \in gone \cup shut \cup broken : key[e] = key[c]
    /\ \A d \in Reverses : \A i \in DOMAIN closedQ[d] : closedQ[d][i] \in noticed

\* A connection is announced once, and dialled after that.
AnnouncedOnce ==
    /\ \A d \in Reverses, c \in Conns : pc[c] = "idle" => backend[<<d, c>>] = "none"
    /\ \A d \in Reverses : \A i \in DOMAIN estQ[d] :
          /\ pc[estQ[d][i]] # "idle"
          /\ backend[<<d, estQ[d][i]>>] = "none"
          /\ \A j \in DOMAIN estQ[d] : estQ[d][i] = estQ[d][j] => i = j

\* An h8srd that is down has nothing pending and no connection.
Down ==
    \A d \in Reverses \ up :
        /\ estQ[d] = <<>> /\ dataQ[d] = <<>>
        /\ \A c \in Conns : backend[<<d, c>>] # "open"

\* An entry of wsConns is under the reply subject of its connection, which was dialled.
Table ==
    \A d \in Reverses, s \in Replies : \A c \in wsConns[d][s] :
        reply[c] = s /\ backend[<<d, c>>] # "none"

\* Who is about to delete the entry of a connection without company has closed it.
ClosedFirst ==
    \A d \in Reverses, by \in Callbacks \cup Conns, c \in Conns :
        <<d, by, reply[c]>> \in deleting /\ Alone(c) => backend[<<d, c>>] = "closed"

\* The announcement of c is still on its way to d.
Opening(d, c) == \E i \in DOMAIN estQ[d] : estQ[d][i] = c

\* A close notice is on its way until it has closed the connection, unless it came
\* before the announcement.
NoticeWorks ==
    \A d \in Reverses, c \in noticed :
        Alone(c) /\ (backend[<<d, c>>] = "open" \/ Opening(d, c)) =>
            Closing(d, c) \/ <<d, c>> \in early

Control == Noticed /\ AnnouncedOnce /\ Down /\ Table /\ ClosedFirst

-------------------------------------------------------------------------------
(* Sequences.                                                              *)

\* What leaves a queue and what stays.
LEMMA QueueTail ==
    ASSUME NEW S, NEW q \in Seq(S), q # <<>>
    PROVE  /\ Head(q) = q[1] /\ Head(q) \in S /\ Tail(q) \in Seq(S)
           /\ 1 \in DOMAIN q
           /\ Len(Tail(q)) < Len(q)
           /\ \A k \in DOMAIN Tail(q) : k \in Nat /\ k + 1 \in DOMAIN q /\ k + 1 # 1 /\ Tail(q)[k] = q[k + 1]
           /\ \A k \in DOMAIN q : k = 1 \/ (k - 1 \in DOMAIN Tail(q) /\ Tail(q)[k - 1] = q[k])
  <1>1. Len(Tail(q)) = Len(q) - 1 /\ Len(q) \in Nat
    OBVIOUS
  <1>2. Len(Tail(q)) < Len(q)
    BY <1>1
  <1> QED
    BY <1>2

\* What joins a queue.
LEMMA QueueAppend ==
    ASSUME NEW S, NEW q \in Seq(S), NEW m \in S
    PROVE  /\ Append(q, m) \in Seq(S)
           /\ Len(Append(q, m)) = Len(q) + 1 /\ Len(q) \in Nat
           /\ \A k \in DOMAIN q : k \in DOMAIN Append(q, m) /\ Append(q, m)[k] = q[k]
           /\ Len(q) + 1 \in DOMAIN Append(q, m)
           /\ Append(q, m)[Len(q) + 1] = m
           /\ \A k \in DOMAIN Append(q, m) : k \in DOMAIN q \/ k = Len(q) + 1
  OBVIOUS

\* A message is not joined to more than it finds.
LEMMA QueueConcat ==
    ASSUME NEW S, NEW q \in Seq(S), NEW r \in Seq(S)
    PROVE  q \o r \in Seq(S) /\ Len(q \o r) = Len(q) + Len(r)
  OBVIOUS

\* There is room for one more.
LEMMA RoomForOne ==
    ASSUME NEW N \in Nat, NEW a \in Nat, NEW b \in Nat, a < N, b <= 1
    PROVE  a + b <= N
  OBVIOUS

-------------------------------------------------------------------------------
(* The type invariant, in four parts.                                      *)

HandlerTypes ==
    /\ key \in [Conns -> Keys]
    /\ reply \in [Conns -> Replies]
    /\ pc \in [Conns -> Pcs]
    /\ gone \subseteq Conns
    /\ shut \subseteq Conns
    /\ broken \subseteq Conns
    /\ pool \in [Keys -> SUBSET Conns]
    /\ \A k \in Keys : \A c, e \in pool[k] : c = e
    /\ frames \in [Conns -> 0..MaxFrames]

DeliveryTypes ==
    /\ inbox \in [Conns -> Seq(Message)]
    /\ inHand \in [Conns -> Seq(Message)]
    /\ send \in [Conns -> Seq(Message)]
    /\ \A c \in Conns : Len(send[c]) <= SendBuffer /\ Len(inHand[c]) <= 1
    /\ writer \subseteq Conns
    /\ got \in [Conns -> Seq(Message)]
    /\ panicked \in BOOLEAN
    /\ dropped \in [Conns -> SUBSET Message]

NatsTypes ==
    /\ estQ \in [Reverses -> Seq(Conns)]
    /\ closedQ \in [Reverses -> Seq(Conns)]
    /\ dataQ \in [Reverses -> Seq(Frame)]
    /\ announced \subseteq Conns
    /\ noticed \subseteq Conns
    /\ up \subseteq Reverses
    /\ crashes \in 0..MaxCrashes

ReverseTypes ==
    /\ wsConns \in [Reverses -> [Replies -> SUBSET Conns]]
    /\ \A d \in Reverses : \A s \in Replies : \A c, e \in wsConns[d][s] : c = e
    /\ backend \in [Reverses \X Conns -> {"none", "open", "gone", "closed"}]
    /\ pumping \subseteq Reverses \X Conns
    /\ deleting \subseteq Reverses \X (Callbacks \cup Conns) \X Replies
    /\ delivered \in [Reverses \X Conns -> Seq(Frame)]
    /\ sent \in [Reverses \X Conns -> 0..MaxMessages]
    /\ early \subseteq Reverses \X Conns

\* The parts make the type invariant, and what leaves the variables of a part alone
\* keeps it.
LEMMA TypeParts ==
    /\ TypeOK <=> HandlerTypes /\ DeliveryTypes /\ NatsTypes /\ ReverseTypes
    /\ TypeOK' <=> HandlerTypes' /\ DeliveryTypes' /\ NatsTypes' /\ ReverseTypes'
  BY DEF TypeOK, HandlerTypes, DeliveryTypes, NatsTypes, ReverseTypes

\* Steps that leave handlers and clients alone keep their types.
LEMMA HandlerTypesKept ==
    HandlerTypes /\ UNCHANGED <<handlerVars, clientVars>> => HandlerTypes'
  BY DEF HandlerTypes, handlerVars, clientVars

\* Steps that deliver nothing keep the types of what is delivered.
LEMMA DeliveryTypesKept == DeliveryTypes /\ UNCHANGED deliveryVars => DeliveryTypes'
  BY DEF DeliveryTypes, deliveryVars

\* Steps without a message keep the types of the queues.
LEMMA NatsTypesKept ==
    NatsTypes /\ UNCHANGED <<controlVars, dataQ, noticeVars, crashVars>> => NatsTypes'
  BY DEF NatsTypes, controlVars, noticeVars, crashVars

\* Steps of the proxy keep the types of h8srd.
LEMMA ReverseTypesKept == ReverseTypes /\ UNCHANGED reverseVars => ReverseTypes'
  BY DEF ReverseTypes, reverseVars

\* A control message about a connection leaves the queues queues of connections.
LEMMA ToAllType ==
    ASSUME NEW q \in [Reverses -> Seq(Conns)], NEW c \in Conns
    PROVE  ToAll(q, c) \in [Reverses -> Seq(Conns)]
  <1>1. \A d \in Reverses : Append(q[d], c) \in Seq(Conns)
    BY QueueAppend
  <1> QED
    BY <1>1 DEF ToAll

\* A close notice leaves the variables it changes in their types.
LEMMA NoticeClosedType ==
    ASSUME TypeOK, NEW k \in Keys, NoticeClosed(k)
    PROVE  closedQ' \in [Reverses -> Seq(Conns)] /\ noticed' \subseteq Conns
  <1>0. /\ closedQ \in [Reverses -> Seq(Conns)] /\ noticed \subseteq Conns
        /\ pool[k] \subseteq Conns
    BY DEF TypeOK
  <1>1. CASE UNCHANGED <<closedQ, noticed>>
    BY <1>0, <1>1
  <1>2. ASSUME NEW c \in pool[k], closedQ' = ToAll(closedQ, c), noticed' = noticed \cup {c}
        PROVE  closedQ' \in [Reverses -> Seq(Conns)] /\ noticed' \subseteq Conns
    <2>1. ToAll(closedQ, c) \in [Reverses -> Seq(Conns)]
      BY <1>0, ToAllType
    <2> QED
      BY <1>0, <1>2, <2>1
  <1> QED
    BY <1>1, <1>2 DEF NoticeClosed

\* The steps of the handler keep the type invariant.
LEMMA HandlerTypeStep ==
    ASSUME TypeOK, NEW c \in Conns,
           Refuse(c) \/ Announce(c) \/ ReadFrame(c) \/ PublishFails(c) \/ HandlerStep(c)
    PROVE  TypeOK'
  <1> USE TypeParts, HandlerTypesKept, DeliveryTypesKept, NatsTypesKept, ReverseTypesKept
  <1> USE DEF handlerVars, noticeVars, controlVars
  <1>0. HandlerTypes /\ DeliveryTypes /\ NatsTypes /\ ReverseTypes
    OBVIOUS
  <1>1. ASSUME NEW p \in Pcs, pc' = [pc EXCEPT ![c] = p], UNCHANGED <<frames, clientVars>>,
               UNCHANGED pool \/ pool' = [pool EXCEPT ![key[c]] = {c}]
                              \/ pool' = [pool EXCEPT ![key[c]] = {}]
        PROVE  HandlerTypes'
    BY <1>0, <1>1 DEF HandlerTypes, clientVars
  <1>2. CASE Refuse(c)
    BY <1>0, <1>1, <1>2 DEF Refuse, Pcs
  <1>3. CASE Announce(c)
    <2>1. estQ' \in [Reverses -> Seq(Conns)] /\ announced' \subseteq Conns
      BY <1>0, <1>3, ToAllType, ZenonT(30) DEF NatsTypes, Announce
    <2>2. NatsTypes'
      BY <1>0, <1>3, <2>1 DEF NatsTypes, Announce, crashVars
    <2> QED
      BY <1>0, <1>1, <1>3, <2>2 DEF Announce, Pcs
  <1>4. CASE Pool(c)
    BY <1>0, <1>1, <1>4 DEF Pool, Pcs
  <1>5. CASE Subscribe(c)
    <2>1. DeliveryTypes'
      BY <1>0, <1>5 DEF DeliveryTypes, Subscribe
    <2> QED
      BY <1>0, <1>1, <1>5, <2>1 DEF Subscribe, Pcs
  <1>6. CASE SubscribeFails(c)
    BY <1>0, <1>1, <1>6 DEF SubscribeFails, Pcs
  <1>7. ASSUME ReadFrame(c) \/ PublishFails(c)
        PROVE  frames[c] + 1 \in 1..MaxFrames
    BY <1>0, <1>7, SocketAssumption DEF HandlerTypes, ReadFrame, PublishFails
  <1>8. CASE ReadFrame(c)
    <2>1. [conn |-> c, n |-> frames[c] + 1] \in Frame
      BY <1>7, <1>8 DEF Frame
    <2>2. \A d \in Reverses : Append(dataQ[d], [conn |-> c, n |-> frames[c] + 1]) \in Seq(Frame)
      BY <1>0, <2>1, QueueAppend DEF NatsTypes
    <2>3. dataQ' \in [Reverses -> Seq(Frame)]
      BY <1>0, <1>8, <2>2 DEF NatsTypes, ReadFrame
    <2>4. NatsTypes'
      BY <1>0, <1>8, <2>3 DEF NatsTypes, ReadFrame, crashVars
    <2>5. HandlerTypes'
      BY <1>0, <1>7, <1>8, SocketAssumption DEF HandlerTypes, ReadFrame, clientVars
    <2> QED
      BY <1>0, <1>8, <2>4, <2>5 DEF ReadFrame
  <1>9. CASE PublishFails(c)
    <2>1. HandlerTypes'
      BY <1>0, <1>7, <1>9, SocketAssumption DEF HandlerTypes, PublishFails, clientVars, Pcs
    <2> QED
      BY <1>0, <1>9, <2>1 DEF PublishFails
  <1>10. CASE ReadError(c)
    <2>1. closedQ' \in [Reverses -> Seq(Conns)] /\ noticed' \subseteq Conns
      BY <1>0, <1>10, NoticeClosedType DEF ReadError, HandlerTypes
    <2>2. NatsTypes'
      BY <1>0, <1>10, <2>1 DEF NatsTypes, ReadError, crashVars
    <2>3. HandlerTypes'
      BY <1>0, <1>10 DEF HandlerTypes, ReadError, Pcs
    <2> QED
      BY <1>0, <1>10, <2>2, <2>3 DEF ReadError
  <1>11. CASE Unsubscribe(c)
    <2>1. DeliveryTypes'
      BY <1>0, <1>11 DEF DeliveryTypes, Unsubscribe
    <2> QED
      BY <1>0, <1>1, <1>11, <2>1 DEF Unsubscribe, Pcs
  <1>12. CASE RemoveFromPool(c)
    BY <1>0, <1>1, <1>12 DEF RemoveFromPool, Pcs
  <1>13. CASE CloseSend(c)
    BY <1>0, <1>1, <1>13 DEF CloseSend, Pcs
  <1>14. CASE CloseConn(c)
    <2>1. HandlerTypes'
      BY <1>0, <1>14 DEF HandlerTypes, CloseConn, Pcs
    <2> QED
      BY <1>0, <1>14, <2>1 DEF CloseConn
  <1> QED
    BY <1>2, <1>3, <1>4, <1>5, <1>6, <1>8, <1>9, <1>10, <1>11, <1>12, <1>13, <1>14
    DEF HandlerStep

\* So do those of the writer and of the callback, and a client that leaves.
LEMMA DeliveryTypeStep ==
    ASSUME TypeOK, NEW c \in Conns, WriterStep(c) \/ CallbackStep(c) \/ ClientLeaves(c)
    PROVE  TypeOK'
  <1> USE TypeParts, HandlerTypesKept, DeliveryTypesKept, NatsTypesKept, ReverseTypesKept
  <1>0. HandlerTypes /\ DeliveryTypes /\ NatsTypes /\ ReverseTypes
    OBVIOUS
  <1>a. /\ send[c] \in Seq(Message) /\ inHand[c] \in Seq(Message) /\ inbox[c] \in Seq(Message)
        /\ got[c] \in Seq(Message)
        /\ Len(send[c]) <= SendBuffer /\ Len(inHand[c]) <= 1
        /\ SendBuffer \in Nat
    BY <1>0, SocketAssumption DEF DeliveryTypes
  <1>b. send[c] # <<>> => /\ Head(send[c]) \in Message /\ Tail(send[c]) \in Seq(Message)
                          /\ Len(Tail(send[c])) <= SendBuffer
                          /\ Append(got[c], Head(send[c])) \in Seq(Message)
    <2> SUFFICES ASSUME send[c] # <<>>
                 PROVE  /\ Head(send[c]) \in Message /\ Tail(send[c]) \in Seq(Message)
                        /\ Len(Tail(send[c])) <= SendBuffer
                        /\ Append(got[c], Head(send[c])) \in Seq(Message)
      OBVIOUS
    <2>1. /\ Head(send[c]) \in Message /\ Tail(send[c]) \in Seq(Message)
          /\ Len(Tail(send[c])) < Len(send[c])
      BY <1>a, QueueTail
    <2>2. Len(Tail(send[c])) \in Nat /\ Len(send[c]) \in Nat
      BY <1>a, <2>1
    <2>3. Append(got[c], Head(send[c])) \in Seq(Message)
      BY <1>a, <2>1, QueueAppend
    <2> QED
      BY <1>a, <2>1, <2>2, <2>3
  <1>1. CASE Write(c)
    <2>1. DeliveryTypes'
      BY <1>0, <1>1, <1>b DEF DeliveryTypes, Write, Unsent
    <2> QED
      BY <1>0, <1>1, <2>1 DEF Write
  <1>2. CASE WriteFails(c)
    <2>1. closedQ' \in [Reverses -> Seq(Conns)] /\ noticed' \subseteq Conns
      BY <1>0, <1>2, NoticeClosedType DEF WriteFails, HandlerTypes
    <2>2. NatsTypes'
      BY <1>0, <1>2, <2>1 DEF NatsTypes, WriteFails, crashVars
    <2>3. DeliveryTypes'
      BY <1>0, <1>2, <1>b DEF DeliveryTypes, WriteFails, Unsent
    <2>4. HandlerTypes'
      BY <1>0, <1>2 DEF HandlerTypes, WriteFails, handlerVars
    <2> QED
      BY <1>0, <1>2, <2>2, <2>3, <2>4 DEF WriteFails
  <1>3. CASE WriterReturns(c)
    <2>1. DeliveryTypes'
      BY <1>0, <1>3 DEF DeliveryTypes, WriterReturns
    <2> QED
      BY <1>0, <1>3, <2>1 DEF WriterReturns
  <1>4. CASE Callback(c)
    <2>1. Head(inbox[c]) \in Message /\ Tail(inbox[c]) \in Seq(Message)
      BY <1>a, <1>4, QueueTail DEF Callback
    <2>2. <<Head(inbox[c])>> \in Seq(Message) /\ Len(<<Head(inbox[c])>>) <= 1
      BY <2>1
    <2>3. DeliveryTypes'
      BY <1>0, <1>4, <2>1, <2>2 DEF DeliveryTypes, Callback
    <2> QED
      BY <1>0, <1>4, <2>3 DEF Callback
  <1>5. CASE Deliver(c)
    <2>1. inHand[c] # <<>>
      BY <1>5 DEF Deliver
    <2>2. inHand[c][1] \in Message
      BY <1>a, <2>1, QueueTail
    <2>3. HasRoom(c) => Sent(c) \in Seq(Message) /\ Len(Sent(c)) <= SendBuffer
      <3>1. Sent(c) \in Seq(Message) /\ Len(Sent(c)) = Len(send[c]) + Len(inHand[c])
        BY <1>a, QueueConcat DEF Sent
      <3>2. Len(send[c]) \in Nat /\ Len(inHand[c]) \in Nat
        BY <1>a
      <3> QED
        BY <1>a, <3>1, <3>2, RoomForOne DEF HasRoom
    <2>4. \/ send' = send
          \/ HasRoom(c) /\ send' = [send EXCEPT ![c] = Sent(c)]
      BY <1>5 DEF Deliver
    <2>5. send' \in [Conns -> Seq(Message)] /\ \A e \in Conns : Len(send'[e]) <= SendBuffer
      BY <1>0, <2>3, <2>4 DEF DeliveryTypes
    <2>6. Len(<<>>) <= 1 /\ <<>> \in Seq(Message)
      OBVIOUS
    <2>7. /\ inHand' \in [Conns -> Seq(Message)] /\ \A e \in Conns : Len(inHand'[e]) <= 1
          /\ dropped' \in [Conns -> SUBSET Message]
          /\ panicked' \in BOOLEAN
      BY <1>0, <1>5, <2>2, <2>6 DEF DeliveryTypes, Deliver
    <2>8. DeliveryTypes'
      BY <1>0, <1>5, <2>5, <2>7 DEF DeliveryTypes, Deliver
    <2> QED
      BY <1>0, <1>5, <2>8 DEF Deliver
  <1>6. CASE ClientLeaves(c)
    <2>1. HandlerTypes'
      BY <1>0, <1>6 DEF HandlerTypes, ClientLeaves, handlerVars
    <2> QED
      BY <1>0, <1>6, <2>1 DEF ClientLeaves
  <1> QED
    BY <1>1, <1>2, <1>3, <1>4, <1>5, <1>6 DEF WriterStep, CallbackStep

\* So do the steps of an h8srd.
LEMMA ReverseTypeStep ==
    ASSUME TypeOK, NEW d \in Reverses,
           \/ HandleEstablished(d) \/ HandleClosed(d) \/ HandleFrame(d)
           \/ Crash(d) \/ Restart(d)
           \/ \E by \in Callbacks \cup Conns : DeleteEntry(d, by)
           \/ \E c \in Conns : Pump(d, c) \/ BackendLeaves(d, c) \/ PumpEnds(d, c)
    PROVE  TypeOK'
  <1> USE TypeParts, HandlerTypesKept, DeliveryTypesKept, NatsTypesKept, ReverseTypesKept
  <1>0. HandlerTypes /\ DeliveryTypes /\ NatsTypes /\ ReverseTypes
    OBVIOUS
  <1>a. ASSUME NEW known, CloseBackend(d, known)
        PROVE  backend' \in [Reverses \X Conns -> {"none", "open", "gone", "closed"}]
    BY <1>0, <1>a DEF ReverseTypes, CloseBackend
  <1>b. ASSUME NEW by \in Callbacks \cup Conns, NEW s \in Replies, WillDelete(d, by, s)
        PROVE  deleting' \subseteq Reverses \X (Callbacks \cup Conns) \X Replies
    BY <1>0, <1>b DEF ReverseTypes, WillDelete
  <1>c. ASSUME NEW c \in Conns
        PROVE  KeyFor(c) \in Replies
    BY <1>0 DEF HandlerTypes, KeyFor
  <1>1. CASE HandleEstablished(d)
    <2>1. Head(estQ[d]) \in Conns /\ Tail(estQ[d]) \in Seq(Conns)
      BY <1>0, <1>1, QueueTail DEF NatsTypes, HandleEstablished
    <2>2. PICK c \in Conns : c = Head(estQ[d])
      BY <2>1
    <2>3. /\ \/ /\ wsConns' = [wsConns EXCEPT ![d][KeyFor(c)] = {c}]
                /\ backend' = [backend EXCEPT ![<<d, c>>] = "open"]
                /\ pumping' = pumping \cup {<<d, c>>}
             \/ UNCHANGED <<wsConns, backend, pumping>>
          /\ UNCHANGED <<deleting, delivered, sent, early, closedQ, handlerVars, clientVars,
                   deliveryVars, noticeVars, dataQ, crashVars>>
          /\ estQ' = [estQ EXCEPT ![d] = Tail(@)]
      BY <1>1, <2>2 DEF HandleEstablished
    <2>4. ASSUME wsConns' = [wsConns EXCEPT ![d][KeyFor(c)] = {c}],
                 backend' = [backend EXCEPT ![<<d, c>>] = "open"],
                 pumping' = pumping \cup {<<d, c>>}
          PROVE  ReverseTypes'
      <3>1. /\ wsConns' \in [Reverses -> [Replies -> SUBSET Conns]]
            /\ \A h \in Reverses : \A s \in Replies : \A b, e \in wsConns'[h][s] : b = e
        BY <1>0, <1>c, <2>4 DEF ReverseTypes
      <3>2. backend' \in [Reverses \X Conns -> {"none", "open", "gone", "closed"}]
        BY <1>0, <2>4 DEF ReverseTypes
      <3>3. pumping' \subseteq Reverses \X Conns
        BY <1>0, <2>4 DEF ReverseTypes
      <3> QED
        BY <1>0, <2>3, <3>1, <3>2, <3>3 DEF ReverseTypes
    <2>7. ReverseTypes'
      BY <1>0, <2>3, <2>4 DEF ReverseTypes
    <2>8. estQ' \in [Reverses -> Seq(Conns)]
      BY <1>0, <2>1, <2>3 DEF NatsTypes
    <2>9. NatsTypes'
      BY <1>0, <2>3, <2>8 DEF NatsTypes, noticeVars, crashVars
    <2> QED
      BY <1>0, <2>3, <2>7, <2>9
  <1>2. CASE HandleClosed(d)
    <2>1. Head(closedQ[d]) \in Conns /\ Tail(closedQ[d]) \in Seq(Conns)
      BY <1>0, <1>2, QueueTail DEF NatsTypes, HandleClosed
    <2>2. closedQ' \in [Reverses -> Seq(Conns)]
      BY <1>0, <1>2, <2>1 DEF NatsTypes, HandleClosed
    <2>3. NatsTypes'
      BY <1>0, <1>2, <2>2 DEF NatsTypes, HandleClosed, noticeVars, crashVars
    <2>4. "closed" \in Callbacks
      BY DEF Callbacks
    <2>5. early' \subseteq Reverses \X Conns
      BY <1>0, <1>2, <2>1 DEF ReverseTypes, HandleClosed
    <2>6. backend' \in [Reverses \X Conns -> {"none", "open", "gone", "closed"}]
      <3>1. CASE UNCHANGED backend
        BY <1>0, <3>1 DEF ReverseTypes
      <3> QED
        BY <1>2, <1>a, <3>1 DEF HandleClosed
    <2>7. deleting' \subseteq Reverses \X (Callbacks \cup Conns) \X Replies
      <3>1. CASE UNCHANGED deleting
        BY <1>0, <3>1 DEF ReverseTypes
      <3>2. CASE WillDelete(d, "closed", KeyFor(Head(closedQ[d])))
        BY <1>b, <1>c, <2>1, <2>4, <3>2
      <3> QED
        BY <1>2, <3>1, <3>2 DEF HandleClosed
    <2>8. ReverseTypes'
      BY <1>0, <1>2, <2>5, <2>6, <2>7 DEF ReverseTypes, HandleClosed
    <2> QED
      BY <1>0, <1>2, <2>3, <2>8 DEF HandleClosed
  <1>3. CASE HandleFrame(d)
    <2>1. Head(dataQ[d]) \in Frame /\ Tail(dataQ[d]) \in Seq(Frame)
      BY <1>0, <1>3, QueueTail DEF NatsTypes, HandleFrame
    <2>2. Head(dataQ[d]).conn \in Conns
      BY <2>1 DEF Frame
    <2>3. dataQ' \in [Reverses -> Seq(Frame)]
      BY <1>0, <1>3, <2>1 DEF NatsTypes, HandleFrame
    <2>4. NatsTypes'
      BY <1>0, <1>3, <2>3 DEF NatsTypes, HandleFrame, noticeVars, crashVars, controlVars
    <2>5. "data" \in Callbacks
      BY DEF Callbacks
    <2>6. backend' \in [Reverses \X Conns -> {"none", "open", "gone", "closed"}]
      <3>1. CASE UNCHANGED backend
        BY <1>0, <3>1 DEF ReverseTypes
      <3> QED
        BY <1>3, <1>a, <3>1 DEF HandleFrame
    <2>7. deleting' \subseteq Reverses \X (Callbacks \cup Conns) \X Replies
      <3>1. CASE UNCHANGED deleting
        BY <1>0, <3>1 DEF ReverseTypes
      <3>2. CASE WillDelete(d, "data", KeyFor(NextFrame(d).conn))
        BY <1>b, <1>c, <2>2, <2>5, <3>2 DEF NextFrame
      <3> QED
        BY <1>3, <3>1, <3>2 DEF HandleFrame
    <2>8. \A b \in Reverses \X Conns : Append(delivered[b], Head(dataQ[d])) \in Seq(Frame)
      BY <1>0, <2>1, QueueAppend DEF ReverseTypes
    <2>9. delivered' \in [Reverses \X Conns -> Seq(Frame)]
      <3>1. CASE UNCHANGED delivered
        BY <1>0, <3>1 DEF ReverseTypes
      <3>2. ASSUME NEW c, delivered' = [delivered EXCEPT ![<<d, c>>] = Append(@, NextFrame(d))]
            PROVE  delivered' \in [Reverses \X Conns -> Seq(Frame)]
        BY <1>0, <2>8, <3>2 DEF ReverseTypes, NextFrame
      <3> QED
        BY <1>3, <3>1, <3>2 DEF HandleFrame
    <2>10. ReverseTypes'
      BY <1>0, <1>3, <2>6, <2>7, <2>9 DEF ReverseTypes, HandleFrame
    <2> QED
      BY <1>0, <1>3, <2>4, <2>10 DEF HandleFrame
  <1>4. ASSUME NEW c \in Conns, Pump(d, c)
        PROVE  TypeOK'
    <2>1. sent[<<d, c>>] + 1 \in 1..MaxMessages
      BY <1>0, <1>4, SocketAssumption DEF ReverseTypes, Pump
    <2>2. [from |-> d, conn |-> c, n |-> sent[<<d, c>>] + 1] \in Message
      BY <2>1 DEF Message
    <2>3. \A e \in Conns :
             Append(inbox[e], [from |-> d, conn |-> c, n |-> sent[<<d, c>>] + 1]) \in Seq(Message)
      BY <1>0, <2>2, QueueAppend DEF DeliveryTypes
    <2>4. inbox' \in [Conns -> Seq(Message)]
      BY <1>0, <1>4, <2>3 DEF DeliveryTypes, Pump
    <2>5. sent' \in [Reverses \X Conns -> 0..MaxMessages]
      BY <1>0, <1>4, <2>1, SocketAssumption DEF ReverseTypes, Pump
    <2>6. DeliveryTypes'
      BY <1>0, <1>4, <2>4 DEF DeliveryTypes, Pump
    <2>7. ReverseTypes'
      BY <1>0, <1>4, <2>5 DEF ReverseTypes, Pump
    <2> QED
      BY <1>0, <1>4, <2>6, <2>7 DEF Pump
  <1>5. ASSUME NEW c \in Conns, BackendLeaves(d, c)
        PROVE  TypeOK'
    <2>1. ReverseTypes'
      BY <1>0, <1>5 DEF ReverseTypes, BackendLeaves
    <2> QED
      BY <1>0, <1>5, <2>1 DEF BackendLeaves
  <1>6. ASSUME NEW c \in Conns, PumpEnds(d, c)
        PROVE  TypeOK'
    <2>1. ReverseTypes'
      BY <1>0, <1>6, <1>a, <1>b, <1>c DEF ReverseTypes, PumpEnds
    <2> QED
      BY <1>0, <1>6, <2>1 DEF PumpEnds
  <1>7. ASSUME NEW by \in Callbacks \cup Conns, DeleteEntry(d, by)
        PROVE  TypeOK'
    <2>1. PICK s \in Replies : deleting' = deleting \ {<<d, by, s>>} /\ Delete(d, s)
      BY <1>7 DEF DeleteEntry
    <2>2. /\ wsConns' \in [Reverses -> [Replies -> SUBSET Conns]]
          /\ \A h \in Reverses : \A r \in Replies : \A b, e \in wsConns'[h][r] : b = e
      BY <1>0, <2>1 DEF ReverseTypes, Delete
    <2>3. ReverseTypes'
      BY <1>0, <1>7, <2>1, <2>2 DEF ReverseTypes, DeleteEntry
    <2> QED
      BY <1>0, <1>7, <2>3 DEF DeleteEntry
  <1>8. CASE Crash(d)
    <2>1. /\ wsConns' \in [Reverses -> [Replies -> SUBSET Conns]]
          /\ \A h \in Reverses : \A s \in Replies : \A b, e \in wsConns'[h][s] : b = e
      BY <1>0, <1>8 DEF ReverseTypes, Crash
    <2>2. backend' \in [Reverses \X Conns -> {"none", "open", "gone", "closed"}]
      BY <1>0, <1>8 DEF ReverseTypes, Crash
    <2>3. ReverseTypes'
      BY <1>0, <1>8, <2>1, <2>2 DEF ReverseTypes, Crash
    <2>4. NatsTypes'
      BY <1>0, <1>8, SocketAssumption DEF NatsTypes, Crash, noticeVars
    <2> QED
      BY <1>0, <1>8, <2>3, <2>4 DEF Crash
  <1>9. CASE Restart(d)
    <2>1. NatsTypes'
      BY <1>0, <1>9 DEF NatsTypes, Restart, noticeVars, controlVars
    <2> QED
      BY <1>0, <1>9, <2>1 DEF Restart
  <1> QED
    BY <1>1, <1>2, <1>3, <1>4, <1>5, <1>6, <1>7, <1>8, <1>9

\* Every step keeps the type invariant.
LEMMA TypeStep == TypeOK /\ [Next]_vars => TypeOK'
  <1> SUFFICES ASSUME TypeOK, [Next]_vars
               PROVE  TypeOK'
    OBVIOUS
  <1>1. CASE UNCHANGED vars
    BY <1>1, TypeParts, HandlerTypesKept, DeliveryTypesKept, NatsTypesKept, ReverseTypesKept
    DEF vars
  <1> QED
    BY <1>1, HandlerTypeStep, DeliveryTypeStep, ReverseTypeStep DEF Next, ProxyStep

\* The initial states have it.
LEMMA TypeInit == Init => TypeOK
  <1> SUFFICES ASSUME Init
               PROVE  TypeOK
    OBVIOUS
  <1> USE SocketAssumption
  <1>1. HandlerTypes
    BY DEF Init, HandlerTypes, Pcs
  <1>2. DeliveryTypes
    <2>1. <<>> \in Seq(Message) /\ Len(<<>>) <= SendBuffer /\ Len(<<>>) <= 1
      OBVIOUS
    <2>2. /\ inbox \in [Conns -> Seq(Message)]
          /\ inHand \in [Conns -> Seq(Message)]
          /\ send \in [Conns -> Seq(Message)]
          /\ got \in [Conns -> Seq(Message)]
          /\ dropped \in [Conns -> SUBSET Message]
      BY <2>1 DEF Init
    <2>3. \A c \in Conns : Len(send[c]) <= SendBuffer /\ Len(inHand[c]) <= 1
      BY <2>1 DEF Init
    <2> QED
      BY <2>2, <2>3 DEF Init, DeliveryTypes
  <1>3. NatsTypes
    BY DEF Init, NatsTypes
  <1>4. ReverseTypes
    BY DEF Init, ReverseTypes
  <1> QED
    BY <1>1, <1>2, <1>3, <1>4, TypeParts

\* Every state of the WebSocket path has the types.
THEOREM TypeCorrect == Spec => []TypeOK
  BY TypeInit, TypeStep, PTL DEF Spec

-------------------------------------------------------------------------------
(* What a step can never do to some of the variables.                      *)

\* Clients keep their keys and their reply subjects; who has left has left, and what
\* was published was published.
LEMMA ClientsKept ==
    ASSUME [Next]_vars
    PROVE  /\ key' = key /\ reply' = reply
           /\ gone \subseteq gone' /\ shut \subseteq shut' /\ noticed \subseteq noticed'
           /\ broken \subseteq broken'
           /\ early \subseteq early'
  <1> USE DEF handlerVars, clientVars, noticeVars, reverseVars
  <1>1. CASE UNCHANGED vars
    BY <1>1 DEF vars
  <1>2. ASSUME NEW c \in Conns,
               Refuse(c) \/ Announce(c) \/ ReadFrame(c) \/ PublishFails(c) \/ HandlerStep(c)
        PROVE  /\ key' = key /\ reply' = reply
               /\ gone \subseteq gone' /\ shut \subseteq shut' /\ noticed \subseteq noticed'
           /\ broken \subseteq broken'
               /\ early \subseteq early'
    BY <1>2 DEF Refuse, Announce, ReadFrame, PublishFails, HandlerStep, Pool, Subscribe,
       SubscribeFails, ReadError, NoticeClosed, Unsubscribe, RemoveFromPool, CloseSend, CloseConn
  <1>3. ASSUME NEW c \in Conns, WriterStep(c) \/ CallbackStep(c) \/ ClientLeaves(c)
        PROVE  /\ key' = key /\ reply' = reply
               /\ gone \subseteq gone' /\ shut \subseteq shut' /\ noticed \subseteq noticed'
           /\ broken \subseteq broken'
               /\ early \subseteq early'
    BY <1>3 DEF WriterStep, CallbackStep, Write, WriteFails, NoticeClosed, WriterReturns,
       Callback, Deliver, ClientLeaves
  <1>4. ASSUME NEW d \in Reverses,
               \/ HandleEstablished(d) \/ HandleClosed(d) \/ HandleFrame(d)
               \/ Crash(d) \/ Restart(d)
               \/ \E by \in Callbacks \cup Conns : DeleteEntry(d, by)
               \/ \E c \in Conns : Pump(d, c) \/ BackendLeaves(d, c) \/ PumpEnds(d, c)
        PROVE  /\ key' = key /\ reply' = reply
               /\ gone \subseteq gone' /\ shut \subseteq shut' /\ noticed \subseteq noticed'
           /\ broken \subseteq broken'
               /\ early \subseteq early'
    BY <1>4 DEF HandleEstablished, HandleClosed, HandleFrame, Crash, Restart, DeleteEntry,
       Pump, BackendLeaves, PumpEnds
  <1> QED
    BY <1>1, <1>2, <1>3, <1>4 DEF Next, ProxyStep

\* An h8srd does nothing to the handler of the proxy, and only the handler's steps
\* and the writer's change its state.
LEMMA HandlerKept ==
    ASSUME [Next]_vars
    PROVE  \/ \E c \in Conns :
                 \/ Refuse(c) \/ Announce(c) \/ ReadFrame(c) \/ PublishFails(c)
                 \/ HandlerStep(c) \/ WriteFails(c)
           \/ UNCHANGED <<pc, pool, frames, shut, announced, noticed>>
  <1> USE DEF handlerVars, clientVars, noticeVars
  <1>1. CASE UNCHANGED vars
    BY <1>1 DEF vars
  <1>2. ASSUME NEW c \in Conns, Write(c) \/ WriterReturns(c) \/ CallbackStep(c) \/ ClientLeaves(c)
        PROVE  UNCHANGED <<pc, pool, frames, shut, announced, noticed>>
    BY <1>2 DEF Write, WriterReturns, CallbackStep, Callback, Deliver, ClientLeaves
  <1>3. ASSUME NEW d \in Reverses,
               \/ HandleEstablished(d) \/ HandleClosed(d) \/ HandleFrame(d)
               \/ Crash(d) \/ Restart(d)
               \/ \E by \in Callbacks \cup Conns : DeleteEntry(d, by)
               \/ \E c \in Conns : Pump(d, c) \/ BackendLeaves(d, c) \/ PumpEnds(d, c)
        PROVE  UNCHANGED <<pc, pool, frames, shut, announced, noticed>>
    BY <1>3 DEF HandleEstablished, HandleClosed, HandleFrame, Crash, Restart, DeleteEntry,
       Pump, BackendLeaves, PumpEnds
  <1> QED
    BY <1>1, <1>2, <1>3 DEF Next, ProxyStep, WriterStep

\* A handler does not go back.
LEMMA PcKept ==
    ASSUME TypeOK, [Next]_vars, NEW e \in Conns
    PROVE  /\ pc[e] # "idle" => pc'[e] # "idle"
           /\ pc[e] \notin {"idle", "announced"} => pc'[e] \notin {"idle", "announced"}
           /\ ~Early(e) => ~Early(e)'
           /\ pc'[e] = "open" => pc[e] \in {"pooled", "open"}
  <1> USE DEF handlerVars
  <1>0. pc \in [Conns -> Pcs]
    BY DEF TypeOK
  <1>1. CASE pc' = pc
    BY <1>1 DEF Early
  <1>2. ASSUME NEW c \in Conns, NEW p \in Pcs, pc' = [pc EXCEPT ![c] = p],
               \/ pc[c] = "idle" /\ p \in {"announced", "done"}
               \/ pc[c] = "announced" /\ p = "pooled"
               \/ pc[c] = "pooled" /\ p \in {"open", "removing"}
               \/ p \notin {"idle", "announced", "pooled", "open"}
        PROVE  /\ pc[e] # "idle" => pc'[e] # "idle"
               /\ pc[e] \notin {"idle", "announced"} => pc'[e] \notin {"idle", "announced"}
               /\ ~Early(e) => ~Early(e)'
               /\ pc'[e] = "open" => pc[e] \in {"pooled", "open"}
    BY <1>0, <1>2 DEF Early
  <1>3. ASSUME NEW c \in Conns,
               Refuse(c) \/ Announce(c) \/ ReadFrame(c) \/ PublishFails(c) \/ WriteFails(c)
        PROVE  /\ pc[e] # "idle" => pc'[e] # "idle"
               /\ pc[e] \notin {"idle", "announced"} => pc'[e] \notin {"idle", "announced"}
               /\ ~Early(e) => ~Early(e)'
               /\ pc'[e] = "open" => pc[e] \in {"pooled", "open"}
    BY <1>1, <1>2, <1>3 DEF Refuse, Announce, ReadFrame, PublishFails, WriteFails, Pcs
  <1>4. ASSUME NEW c \in Conns, HandlerStep(c)
        PROVE  /\ pc[e] # "idle" => pc'[e] # "idle"
               /\ pc[e] \notin {"idle", "announced"} => pc'[e] \notin {"idle", "announced"}
               /\ ~Early(e) => ~Early(e)'
               /\ pc'[e] = "open" => pc[e] \in {"pooled", "open"}
    BY <1>1, <1>2, <1>4 DEF HandlerStep, Pool, Subscribe, SubscribeFails, ReadError,
       Unsubscribe, RemoveFromPool, CloseSend, CloseConn, Pcs
  <1> QED
    BY <1>1, <1>3, <1>4, HandlerKept

\* A close notice is appended to queues, about a connection in the pool.
LEMMA NoticeEffect ==
    ASSUME TypeOK, NEW k \in Keys, NoticeClosed(k)
    PROVE  /\ \A c \in noticed' : c \in noticed \/ c \in pool[k]
           /\ \A d \in Reverses : \A i \in DOMAIN closedQ'[d] :
                 \/ i \in DOMAIN closedQ[d] /\ closedQ'[d][i] = closedQ[d][i]
                 \/ closedQ'[d][i] \in noticed'
           /\ \A d \in Reverses : \A i \in DOMAIN closedQ[d] :
                 i \in DOMAIN closedQ'[d] /\ closedQ'[d][i] = closedQ[d][i]
           /\ \A c \in noticed' \ noticed : \A d \in up : Closing(d, c)'
  <1>0. closedQ \in [Reverses -> Seq(Conns)] /\ pool[k] \subseteq Conns /\ up \subseteq Reverses
    BY DEF TypeOK
  <1>1. CASE UNCHANGED <<closedQ, noticed>>
    BY <1>1
  <1>2. ASSUME NEW c \in pool[k], closedQ' = ToAll(closedQ, c), noticed' = noticed \cup {c}
        PROVE  /\ \A b \in noticed' : b \in noticed \/ b \in pool[k]
               /\ \A d \in Reverses : \A i \in DOMAIN closedQ'[d] :
                     \/ i \in DOMAIN closedQ[d] /\ closedQ'[d][i] = closedQ[d][i]
                     \/ closedQ'[d][i] \in noticed'
               /\ \A d \in Reverses : \A i \in DOMAIN closedQ[d] :
                     i \in DOMAIN closedQ'[d] /\ closedQ'[d][i] = closedQ[d][i]
               /\ \A b \in noticed' \ noticed : \A d \in up : Closing(d, b)'
    <2>1. ASSUME NEW d \in Reverses
          PROVE  /\ \A i \in DOMAIN closedQ'[d] :
                       \/ i \in DOMAIN closedQ[d] /\ closedQ'[d][i] = closedQ[d][i]
                       \/ closedQ'[d][i] = c
                 /\ \A i \in DOMAIN closedQ[d] :
                       i \in DOMAIN closedQ'[d] /\ closedQ'[d][i] = closedQ[d][i]
                 /\ d \in up => \E i \in DOMAIN closedQ'[d] : closedQ'[d][i] = c
      <3>1. CASE d \in up
        <4>1. closedQ'[d] = Append(closedQ[d], c)
          BY <1>2, <3>1 DEF ToAll
        <4>2. closedQ[d] \in Seq(Conns) /\ c \in Conns
          BY <1>0
        <4> QED
          BY <4>1, <4>2, QueueAppend
      <3>2. CASE d \notin up
        BY <1>2, <3>2 DEF ToAll
      <3> QED
        BY <3>1, <3>2
    <2> QED
      BY <1>0, <1>2, <2>1 DEF Closing
  <1> QED
    BY <1>1, <1>2 DEF NoticeClosed

\* Elsewhere close notices only leave their queues.
LEMMA ClosedQueueKept ==
    ASSUME TypeOK, [Next]_vars
    PROVE  \/ \E c \in Conns : (ReadError(c) \/ WriteFails(c)) /\ NoticeClosed(key[c])
           \/ /\ noticed' = noticed
              /\ \/ closedQ' = closedQ
                 \/ \E d \in Reverses : closedQ' = [closedQ EXCEPT ![d] = <<>>] /\ Crash(d)
                 \/ \E d \in Reverses : HandleClosed(d)
  <1> USE DEF controlVars, noticeVars
  <1>1. CASE UNCHANGED vars
    BY <1>1 DEF vars
  <1>2. ASSUME NEW c \in Conns,
               \/ Refuse(c) \/ Announce(c) \/ ReadFrame(c) \/ PublishFails(c)
               \/ Pool(c) \/ Subscribe(c) \/ SubscribeFails(c)
               \/ Unsubscribe(c) \/ RemoveFromPool(c) \/ CloseSend(c) \/ CloseConn(c)
        PROVE  closedQ' = closedQ /\ noticed' = noticed
    BY <1>2 DEF Refuse, Announce, ReadFrame, PublishFails, Pool, Subscribe,
       SubscribeFails, Unsubscribe, RemoveFromPool, CloseSend, CloseConn
  <1>3. ASSUME NEW c \in Conns, Write(c) \/ WriterReturns(c) \/ CallbackStep(c) \/ ClientLeaves(c)
        PROVE  closedQ' = closedQ /\ noticed' = noticed
    BY <1>3 DEF Write, WriterReturns, CallbackStep, Callback, Deliver, ClientLeaves
  <1>4. ASSUME NEW c \in Conns, ReadError(c) \/ WriteFails(c)
        PROVE  NoticeClosed(key[c])
    BY <1>4 DEF ReadError, WriteFails
  <1>5. ASSUME NEW d \in Reverses,
               \/ HandleEstablished(d) \/ HandleFrame(d) \/ Restart(d)
               \/ \E by \in Callbacks \cup Conns : DeleteEntry(d, by)
               \/ \E c \in Conns : Pump(d, c) \/ BackendLeaves(d, c) \/ PumpEnds(d, c)
        PROVE  closedQ' = closedQ /\ noticed' = noticed
    BY <1>5 DEF HandleEstablished, HandleFrame, Restart, DeleteEntry, Pump, BackendLeaves, PumpEnds
  <1>6. ASSUME NEW d \in Reverses, HandleClosed(d) \/ Crash(d)
        PROVE  noticed' = noticed /\ (Crash(d) => closedQ' = [closedQ EXCEPT ![d] = <<>>])
    BY <1>6 DEF HandleClosed, Crash
  <1> QED
    BY <1>1, <1>2, <1>3, <1>4, <1>5, <1>6 DEF Next, ProxyStep, HandlerStep, WriterStep

-------------------------------------------------------------------------------
(* The invariant of the control messages, part by part.                    *)

\* The pool and the close notices: a notice is for a connection the pool has under
\* the key of the one whose handler or writer publishes it.
LEMMA NoticedStep == TypeOK /\ Noticed /\ [Next]_vars => Noticed'
  <1> SUFFICES ASSUME TypeOK, Noticed, [Next]_vars
               PROVE  Noticed'
    OBVIOUS
  <1>0. /\ key \in [Conns -> Keys] /\ pool \in [Keys -> SUBSET Conns] /\ noticed \subseteq Conns
        /\ pc \in [Conns -> Pcs]
        /\ closedQ \in [Reverses -> Seq(Conns)]
        /\ noticed' \subseteq Conns
    BY TypeStep DEF TypeOK
  <1>1. \A e \in Conns : pc[e] \notin {"idle", "announced"} => pc'[e] \notin {"idle", "announced"}
    BY PcKept
  <1>2. \A k \in Keys : \A c \in pool'[k] : key'[c] = k /\ pc'[c] \notin {"idle", "announced"}
    <2>1. CASE UNCHANGED pool
      BY <1>0, <1>1, <2>1, ClientsKept DEF Noticed
    <2>2. ASSUME NEW c \in Conns, Pool(c)
          PROVE  \A k \in Keys : \A b \in pool'[k] : key'[b] = k /\ pc'[b] \notin {"idle", "announced"}
      <3>1. \A k \in Keys : \A b \in pool'[k] : b \in pool[k] \/ (b = c /\ k = key[c])
        BY <1>0, <2>2 DEF Pool
      <3>2. pc'[c] = "pooled"
        BY <1>0, <2>2 DEF Pool
      <3> QED
        BY <1>0, <1>1, <3>1, <3>2, ClientsKept DEF Noticed
    <2>3. ASSUME NEW c \in Conns, RemoveFromPool(c)
          PROVE  \A k \in Keys : \A b \in pool'[k] : key'[b] = k /\ pc'[b] \notin {"idle", "announced"}
      <3>1. \A k \in Keys : \A b \in pool'[k] : b \in pool[k]
        BY <1>0, <2>3 DEF RemoveFromPool
      <3> QED
        BY <1>0, <1>1, <3>1, ClientsKept DEF Noticed
    <2>4. ASSUME NEW c \in Conns,
                 \/ Refuse(c) \/ Announce(c) \/ ReadFrame(c) \/ PublishFails(c) \/ WriteFails(c)
                 \/ Subscribe(c) \/ SubscribeFails(c) \/ ReadError(c)
                 \/ Unsubscribe(c) \/ CloseSend(c) \/ CloseConn(c)
          PROVE  UNCHANGED pool
      BY <2>4 DEF Refuse, Announce, ReadFrame, PublishFails, WriteFails, Subscribe, SubscribeFails,
         ReadError, Unsubscribe, CloseSend, CloseConn, handlerVars
    <2> QED
      BY <2>1, <2>2, <2>3, <2>4, HandlerKept DEF HandlerStep
  <1>3. CASE noticed' = noticed
    <2>1. \A c \in noticed' : /\ pc'[c] \notin {"idle", "announced"}
                              /\ \E e \in gone' \cup shut' \cup broken' : key'[e] = key'[c]
      BY <1>0, <1>1, <1>3, ClientsKept DEF Noticed
    <2>2. ASSUME NEW d \in Reverses, NEW i \in DOMAIN closedQ'[d],
                 closedQ' = closedQ \/ (\E h \in Reverses : closedQ' = [closedQ EXCEPT ![h] = <<>>])
                 \/ \E h \in Reverses : HandleClosed(h)
          PROVE  closedQ'[d][i] \in noticed
      <3>1. CASE closedQ' = closedQ
        BY <1>0, <3>1, <2>2 DEF Noticed
      <3>2. ASSUME NEW h \in Reverses, closedQ' = [closedQ EXCEPT ![h] = <<>>]
            PROVE  closedQ'[d][i] \in noticed
        <4>1. h # d
          BY <1>0, <2>2, <3>2
        <4> QED
          BY <1>0, <2>2, <3>2, <4>1 DEF Noticed
      <3>3. ASSUME NEW h \in Reverses, HandleClosed(h)
            PROVE  closedQ'[d][i] \in noticed
        <4>1. closedQ' = [closedQ EXCEPT ![h] = Tail(closedQ[h])] /\ closedQ[h] # <<>>
          BY <3>3 DEF HandleClosed
        <4>2. CASE h # d
          BY <1>0, <2>2, <4>1, <4>2 DEF Noticed
        <4>3. CASE h = d
          <5>1. i + 1 \in DOMAIN closedQ[d] /\ closedQ'[d][i] = closedQ[d][i + 1]
            BY <1>0, <2>2, <4>1, <4>3, QueueTail
          <5> QED
            BY <5>1 DEF Noticed
        <4> QED
          BY <4>2, <4>3
      <3> QED
        BY <2>2, <3>1, <3>2, <3>3
    <2>3. \/ \E c \in Conns : (ReadError(c) \/ WriteFails(c)) /\ NoticeClosed(key[c])
          \/ \A d \in Reverses : \A i \in DOMAIN closedQ'[d] : closedQ'[d][i] \in noticed'
      BY <1>3, <2>2, ClosedQueueKept
    <2>4. ASSUME NEW c \in Conns, NoticeClosed(key[c])
          PROVE  \A d \in Reverses : \A i \in DOMAIN closedQ'[d] : closedQ'[d][i] \in noticed'
      <3>1. \A d \in Reverses : \A i \in DOMAIN closedQ'[d] :
                 \/ i \in DOMAIN closedQ[d] /\ closedQ'[d][i] = closedQ[d][i]
                 \/ closedQ'[d][i] \in noticed'
        BY <1>0, <2>4, NoticeEffect
      <3> QED
        BY <1>3, <3>1 DEF Noticed
    <2> QED
      BY <1>2, <2>1, <2>3, <2>4 DEF Noticed
  <1>4. ASSUME NEW c \in Conns, ReadError(c) \/ WriteFails(c), NoticeClosed(key[c])
        PROVE  Noticed'
    <2>0. c \in gone' \cup shut' \cup broken' /\ key[c] \in Keys /\ key' = key
      <3>1. CASE ReadError(c)
        BY <1>0, <3>1 DEF ReadError
      <3>2. CASE WriteFails(c)
        BY <1>0, <3>2 DEF WriteFails
      <3> QED
        BY <1>4, <3>1, <3>2
    <2>1. /\ \A b \in noticed' : b \in noticed \/ b \in pool[key[c]]
          /\ \A d \in Reverses : \A i \in DOMAIN closedQ'[d] :
                 \/ i \in DOMAIN closedQ[d] /\ closedQ'[d][i] = closedQ[d][i]
                 \/ closedQ'[d][i] \in noticed'
      BY <1>4, <2>0, NoticeEffect
    <2>2. \A b \in noticed' : /\ pc'[b] \notin {"idle", "announced"}
                              /\ \E e \in gone' \cup shut' \cup broken' : key'[e] = key'[b]
      <3> SUFFICES ASSUME NEW b \in noticed'
                   PROVE  /\ pc[b] \notin {"idle", "announced"}
                          /\ \E e \in gone' \cup shut' \cup broken' : key'[e] = key'[b]
        BY <1>0, <1>1, ClientsKept
      <3>1. CASE b \in noticed
        BY <3>1, ClientsKept DEF Noticed
      <3>2. CASE b \in pool[key[c]]
        BY <2>0, <3>2 DEF Noticed
      <3> QED
        BY <2>1, <3>1, <3>2
    <2>3. \A d \in Reverses : \A i \in DOMAIN closedQ'[d] : closedQ'[d][i] \in noticed'
      BY <2>1, ClientsKept DEF Noticed
    <2> QED
      BY <1>2, <2>2, <2>3 DEF Noticed
  <1> QED
    BY <1>3, <1>4, ClosedQueueKept

\* The proxy and its clients do nothing to an h8srd but put messages in its queues.
LEMMA ReverseKept ==
    ASSUME [Next]_vars
    PROVE  \/ UNCHANGED <<reverseVars, crashVars>>
           \/ \E d \in Reverses :
                 \/ HandleEstablished(d) \/ HandleClosed(d) \/ HandleFrame(d)
                 \/ Crash(d) \/ Restart(d)
                 \/ \E by \in Callbacks \cup Conns : DeleteEntry(d, by)
                 \/ \E c \in Conns : Pump(d, c) \/ BackendLeaves(d, c) \/ PumpEnds(d, c)
  <1>1. CASE UNCHANGED vars
    BY <1>1 DEF vars
  <1>2. ASSUME NEW c \in Conns,
               Refuse(c) \/ Announce(c) \/ ReadFrame(c) \/ PublishFails(c) \/ HandlerStep(c)
        PROVE  UNCHANGED <<reverseVars, crashVars>>
    BY <1>2 DEF Refuse, Announce, ReadFrame, PublishFails, HandlerStep, Pool, Subscribe,
       SubscribeFails, ReadError, Unsubscribe, RemoveFromPool, CloseSend, CloseConn
  <1>3. ASSUME NEW c \in Conns, WriterStep(c) \/ CallbackStep(c) \/ ClientLeaves(c)
        PROVE  UNCHANGED <<reverseVars, crashVars>>
    BY <1>3 DEF WriterStep, CallbackStep, Write, WriteFails, WriterReturns,
       Callback, Deliver, ClientLeaves
  <1> QED
    BY <1>1, <1>2, <1>3 DEF Next, ProxyStep

\* What a step does to a backend connection.
LEMMA BackendEffect ==
    ASSUME TypeOK, [Next]_vars, NEW d \in Reverses, NEW c \in Conns
    PROVE  \/ backend'[<<d, c>>] = backend[<<d, c>>]
           \/ HandleEstablished(d) /\ c = Head(estQ[d]) /\ backend'[<<d, c>>] = "open"
           \/ backend[<<d, c>>] = "open" /\ backend'[<<d, c>>] = "gone"
           \/ backend[<<d, c>>] \in {"gone", "closed"} /\ backend'[<<d, c>>] = "closed"
           \/ /\ HandleClosed(d) /\ backend'[<<d, c>>] = "closed"
              /\ c \in wsConns[d][KeyFor(Head(closedQ[d]))]
           \/ Crash(d) /\ backend[<<d, c>>] # "none" /\ backend'[<<d, c>>] = "closed"
  <1>0. backend \in [Reverses \X Conns -> {"none", "open", "gone", "closed"}]
    BY DEF TypeOK
  <1> USE DEF reverseVars, CloseBackend
  <1>1. CASE UNCHANGED <<reverseVars, crashVars>>
    BY <1>1
  <1> SUFFICES ASSUME NEW h \in Reverses,
                      \/ HandleEstablished(h) \/ HandleClosed(h) \/ HandleFrame(h)
                      \/ Crash(h) \/ Restart(h)
                      \/ \E by \in Callbacks \cup Conns : DeleteEntry(h, by)
                      \/ \E e \in Conns : Pump(h, e) \/ BackendLeaves(h, e) \/ PumpEnds(h, e),
                      backend'[<<d, c>>] # backend[<<d, c>>]
               PROVE  \/ HandleEstablished(d) /\ c = Head(estQ[d]) /\ backend'[<<d, c>>] = "open"
                      \/ backend[<<d, c>>] = "open" /\ backend'[<<d, c>>] = "gone"
                      \/ backend[<<d, c>>] \in {"gone", "closed"} /\ backend'[<<d, c>>] = "closed"
                      \/ /\ HandleClosed(d) /\ backend'[<<d, c>>] = "closed"
                         /\ c \in wsConns[d][KeyFor(Head(closedQ[d]))]
                      \/ Crash(d) /\ backend[<<d, c>>] # "none" /\ backend'[<<d, c>>] = "closed"
    BY <1>1, ReverseKept
  <1>2. CASE HandleEstablished(h)
    BY <1>0, <1>2 DEF HandleEstablished
  <1>3. CASE HandleClosed(h)
    BY <1>0, <1>3 DEF HandleClosed
  <1>4. CASE HandleFrame(h)
    BY <1>0, <1>4 DEF HandleFrame
  <1>5. CASE Crash(h)
    BY <1>0, <1>5 DEF Crash
  <1>6. CASE Restart(h) \/ \E by \in Callbacks \cup Conns : DeleteEntry(h, by)
    BY <1>6 DEF Restart, DeleteEntry
  <1>7. ASSUME NEW e \in Conns, Pump(h, e) \/ BackendLeaves(h, e) \/ PumpEnds(h, e)
        PROVE  \/ backend[<<d, c>>] = "open" /\ backend'[<<d, c>>] = "gone"
               \/ backend[<<d, c>>] \in {"gone", "closed"} /\ backend'[<<d, c>>] = "closed"
    BY <1>0, <1>7 DEF Pump, BackendLeaves, PumpEnds
  <1> QED
    BY <1>2, <1>3, <1>4, <1>5, <1>6, <1>7

\* What a step does to an entry of wsConns.
LEMMA EntryEffect ==
    ASSUME TypeOK, [Next]_vars, NEW d \in Reverses, NEW s \in Replies
    PROVE  \/ wsConns'[d][s] = wsConns[d][s]
           \/ /\ HandleEstablished(d) /\ s = reply[Head(estQ[d])]
              /\ wsConns'[d][s] = {Head(estQ[d])}
              /\ backend'[<<d, Head(estQ[d])>>] = "open"
              /\ <<d, Head(estQ[d])>> \in pumping'
           \/ wsConns'[d][s] = {} /\ \E by \in Callbacks \cup Conns :
                 <<d, by, s>> \in deleting /\ deleting' = deleting \ {<<d, by, s>>} /\ DeleteEntry(d, by)
           \/ wsConns'[d][s] = {} /\ Crash(d)
  <1>0. /\ wsConns \in [Reverses -> [Replies -> SUBSET Conns]]
        /\ backend \in [Reverses \X Conns -> {"none", "open", "gone", "closed"}]
    BY DEF TypeOK
  <1> USE DEF reverseVars
  <1>1. CASE UNCHANGED wsConns
    BY <1>1
  <1>2. ASSUME NEW h \in Reverses,
               \/ HandleClosed(h) \/ HandleFrame(h) \/ Restart(h)
               \/ \E e \in Conns : Pump(h, e) \/ BackendLeaves(h, e) \/ PumpEnds(h, e)
        PROVE  UNCHANGED wsConns
    BY <1>2 DEF HandleClosed, HandleFrame, Restart, Pump, BackendLeaves, PumpEnds
  <1>3. ASSUME NEW h \in Reverses, HandleEstablished(h), wsConns' # wsConns
        PROVE  \/ wsConns'[d][s] = wsConns[d][s]
               \/ /\ HandleEstablished(d) /\ s = reply[Head(estQ[d])]
                  /\ wsConns'[d][s] = {Head(estQ[d])}
                  /\ backend'[<<d, Head(estQ[d])>>] = "open"
                  /\ <<d, Head(estQ[d])>> \in pumping'
    <2>1. Head(estQ[h]) \in Conns
      BY <1>3, QueueTail DEF HandleEstablished, TypeOK
    <2>2. /\ wsConns' = [wsConns EXCEPT ![h][reply[Head(estQ[h])]] = {Head(estQ[h])}]
          /\ backend' = [backend EXCEPT ![<<h, Head(estQ[h])>>] = "open"]
          /\ pumping' = pumping \cup {<<h, Head(estQ[h])>>}
      BY <1>3 DEF HandleEstablished, KeyFor
    <2>3. CASE h = d /\ s = reply[Head(estQ[h])]
      <3>1. /\ wsConns'[d][s] = {Head(estQ[d])}
            /\ backend'[<<d, Head(estQ[d])>>] = "open"
            /\ <<d, Head(estQ[d])>> \in pumping'
        BY <1>0, <2>1, <2>2, <2>3
      <3> QED
        BY <1>3, <2>3, <3>1
    <2>4. CASE ~(h = d /\ s = reply[Head(estQ[h])])
      BY <1>0, <2>2, <2>4
    <2> QED
      BY <2>3, <2>4
  <1>4. ASSUME NEW h \in Reverses, NEW by \in Callbacks \cup Conns, DeleteEntry(h, by)
        PROVE  \/ wsConns'[d][s] = wsConns[d][s]
               \/ /\ wsConns'[d][s] = {}
                  /\ <<d, by, s>> \in deleting
                  /\ deleting' = deleting \ {<<d, by, s>>}
                  /\ DeleteEntry(d, by)
    <2>1. PICK r \in Replies : /\ <<h, by, r>> \in deleting
                               /\ deleting' = deleting \ {<<h, by, r>>}
                               /\ wsConns' = [wsConns EXCEPT ![h][r] = {}]
      BY <1>4 DEF DeleteEntry, Delete
    <2>2. CASE h = d /\ r = s
      <3>1. wsConns'[d][s] = {}
        BY <1>0, <2>1, <2>2
      <3> QED
        BY <1>4, <2>1, <2>2, <3>1
    <2>3. CASE ~(h = d /\ r = s)
      BY <1>0, <2>1, <2>3
    <2> QED
      BY <2>2, <2>3
  <1>5. ASSUME NEW h \in Reverses, Crash(h)
        PROVE  \/ wsConns'[d][s] = wsConns[d][s]
               \/ wsConns'[d][s] = {} /\ Crash(d)
    <2>1. wsConns' = [wsConns EXCEPT ![h] = [r \in Replies |-> {}]]
      BY <1>5 DEF Crash
    <2>2. CASE h = d
      BY <1>0, <1>5, <2>1, <2>2
    <2>3. CASE h # d
      BY <1>0, <2>1, <2>3
    <2> QED
      BY <2>2, <2>3
  <1> QED
    BY <1>1, <1>2, <1>3, <1>4, <1>5, ReverseKept

\* What a step does to the pending announcements.
LEMMA EstablishedEffect ==
    ASSUME TypeOK, [Next]_vars
    PROVE  \/ estQ' = estQ
           \/ \E c \in Conns : /\ Announce(c) /\ pc[c] = "idle" /\ pc'[c] = "announced"
                               /\ estQ' = ToAll(estQ, c)
           \/ \E d \in Reverses : /\ HandleEstablished(d) /\ estQ[d] # <<>>
                                  /\ estQ' = [estQ EXCEPT ![d] = Tail(estQ[d])]
           \/ \E d \in Reverses : Crash(d) /\ estQ' = [estQ EXCEPT ![d] = <<>>]
  <1> USE DEF controlVars
  <1>1. CASE UNCHANGED vars
    BY <1>1 DEF vars
  <1>2. ASSUME NEW c \in Conns, Announce(c)
        PROVE  \/ estQ' = estQ
               \/ /\ Announce(c) /\ pc[c] = "idle" /\ pc'[c] = "announced"
                  /\ estQ' = ToAll(estQ, c)
    BY <1>2 DEF Announce, TypeOK
  <1>3. ASSUME NEW c \in Conns,
               Refuse(c) \/ ReadFrame(c) \/ PublishFails(c) \/ HandlerStep(c)
        PROVE  estQ' = estQ
    BY <1>3 DEF Refuse, ReadFrame, PublishFails, HandlerStep, Pool, Subscribe,
       SubscribeFails, ReadError, Unsubscribe, RemoveFromPool, CloseSend, CloseConn
  <1>4. ASSUME NEW c \in Conns, WriterStep(c) \/ CallbackStep(c) \/ ClientLeaves(c)
        PROVE  estQ' = estQ
    BY <1>4 DEF WriterStep, CallbackStep, Write, WriteFails, WriterReturns,
       Callback, Deliver, ClientLeaves
  <1>5. ASSUME NEW d \in Reverses,
               \/ HandleClosed(d) \/ HandleFrame(d) \/ Restart(d)
               \/ \E by \in Callbacks \cup Conns : DeleteEntry(d, by)
               \/ \E c \in Conns : Pump(d, c) \/ BackendLeaves(d, c) \/ PumpEnds(d, c)
        PROVE  estQ' = estQ
    BY <1>5 DEF HandleClosed, HandleFrame, Restart, DeleteEntry, Pump, BackendLeaves, PumpEnds
  <1>6. ASSUME NEW d \in Reverses, HandleEstablished(d) \/ Crash(d)
        PROVE  \/ /\ HandleEstablished(d) /\ estQ[d] # <<>>
                  /\ estQ' = [estQ EXCEPT ![d] = Tail(estQ[d])]
               \/ Crash(d) /\ estQ' = [estQ EXCEPT ![d] = <<>>]
    BY <1>6 DEF HandleEstablished, Crash
  <1> QED
    BY <1>1, <1>2, <1>3, <1>4, <1>5, <1>6 DEF Next, ProxyStep

\* An announcement that is handled dials a backend, or does not.
LEMMA DialEffect ==
    ASSUME TypeOK, NEW d \in Reverses, HandleEstablished(d)
    PROVE  /\ estQ[d] # <<>> /\ Head(estQ[d]) \in Conns
           /\ estQ' = [estQ EXCEPT ![d] = Tail(estQ[d])]
           /\ \/ UNCHANGED <<wsConns, backend, pumping>>
              \/ /\ wsConns' = [wsConns EXCEPT ![d][reply[Head(estQ[d])]] = {Head(estQ[d])}]
                 /\ backend' = [backend EXCEPT ![<<d, Head(estQ[d])>>] = "open"]
                 /\ pumping' = pumping \cup {<<d, Head(estQ[d])>>}
           /\ UNCHANGED <<pc, up, closedQ, noticed, early, dataQ>>
  <1>1. estQ[d] # <<>> /\ estQ \in [Reverses -> Seq(Conns)]
    BY DEF HandleEstablished, TypeOK
  <1>2. Head(estQ[d]) \in Conns
    BY <1>1, QueueTail
  <1> QED
    BY <1>1, <1>2 DEF HandleEstablished, KeyFor, handlerVars, noticeVars, crashVars

\* A connection that is to be closed is in the table, so it was dialled.
LEMMA ClosedWasDialled ==
    ASSUME TypeOK, Table, NEW d \in Reverses, NEW c \in Conns, HandleClosed(d),
           c \in wsConns[d][KeyFor(Head(closedQ[d]))]
    PROVE  reply[c] = reply[Head(closedQ[d])] /\ backend[<<d, c>>] # "none"
  <1>1. Head(closedQ[d]) \in Conns
    BY QueueTail DEF HandleClosed, TypeOK
  <1>2. KeyFor(Head(closedQ[d])) \in Replies /\ KeyFor(Head(closedQ[d])) = reply[Head(closedQ[d])]
    BY <1>1 DEF KeyFor, TypeOK
  <1> QED
    BY <1>2 DEF Table

\* Announcements: a connection is announced from idle, and only what was announced is
\* dialled.
LEMMA AnnouncedOnceStep == TypeOK /\ AnnouncedOnce /\ Table /\ [Next]_vars => AnnouncedOnce'
  <1> SUFFICES ASSUME TypeOK, AnnouncedOnce, Table, [Next]_vars
               PROVE  AnnouncedOnce'
    OBVIOUS
  <1>0. /\ estQ \in [Reverses -> Seq(Conns)] /\ estQ' \in [Reverses -> Seq(Conns)]
        /\ backend \in [Reverses \X Conns -> {"none", "open", "gone", "closed"}]
    BY TypeStep DEF TypeOK
  <1>a. \A d \in Reverses : \A i \in DOMAIN estQ[d] : estQ[d][i] \in Conns
    BY <1>0
  <1>b. \A d \in Reverses : \A i \in DOMAIN estQ'[d] : estQ'[d][i] \in Conns
    BY <1>0
  <1>1. ASSUME NEW d \in Reverses, NEW c \in Conns, backend[<<d, c>>] = "none",
               ~(HandleEstablished(d) /\ c = Head(estQ[d]))
        PROVE  backend'[<<d, c>>] = "none"
    BY <1>1, BackendEffect, ClosedWasDialled
  <1>2. ASSUME NEW d \in Reverses, NEW c \in Conns, pc'[c] = "idle"
        PROVE  backend'[<<d, c>>] = "none"
    <2>1. pc[c] = "idle"
      BY <1>2, PcKept
    <2>2. ~(HandleEstablished(d) /\ c = Head(estQ[d]))
      <3>1. HandleEstablished(d) => pc[Head(estQ[d])] # "idle"
        <4> SUFFICES ASSUME HandleEstablished(d)
                     PROVE  pc[Head(estQ[d])] # "idle"
          OBVIOUS
        <4>1. estQ[d] \in Seq(Conns) /\ estQ[d] # <<>>
          BY <1>0, DialEffect
        <4>2. Head(estQ[d]) = estQ[d][1] /\ 1 \in DOMAIN estQ[d]
          BY <4>1, QueueTail
        <4> QED
          BY <4>2 DEF AnnouncedOnce
      <3> QED
        BY <2>1, <3>1
    <2> QED
      BY <1>1, <2>1, <2>2 DEF AnnouncedOnce
  <1>3. ASSUME NEW d \in Reverses, NEW i \in DOMAIN estQ'[d]
        PROVE  /\ pc'[estQ'[d][i]] # "idle"
               /\ backend'[<<d, estQ'[d][i]>>] = "none"
               /\ \A j \in DOMAIN estQ'[d] : estQ'[d][i] = estQ'[d][j] => i = j
    <2>1. CASE HandleEstablished(d)
      <3>1. estQ'[d] = Tail(estQ[d]) /\ estQ[d] # <<>>
        BY <1>0, <2>1, DialEffect
      <3>2. /\ Head(estQ[d]) = estQ[d][1] /\ 1 \in DOMAIN estQ[d]
            /\ \A k \in DOMAIN estQ'[d] :
                  k \in Nat /\ k + 1 \in DOMAIN estQ[d] /\ k + 1 # 1 /\ estQ'[d][k] = estQ[d][k + 1]
        BY <1>0, <3>1, QueueTail
      <3>3. i \in Nat /\ i + 1 \in DOMAIN estQ[d] /\ estQ'[d][i] = estQ[d][i + 1] /\ i + 1 # 1
        BY <1>3, <3>2
      <3>4. \A k \in DOMAIN estQ[d] : estQ[d][i + 1] = estQ[d][k] => i + 1 = k
        BY <3>3 DEF AnnouncedOnce
      <3>5. estQ'[d][i] # Head(estQ[d])
        BY <3>2, <3>3, <3>4
      <3>6. pc[estQ'[d][i]] # "idle" /\ backend[<<d, estQ'[d][i]>>] = "none"
        BY <3>3 DEF AnnouncedOnce
      <3>7. pc'[estQ'[d][i]] # "idle" /\ backend'[<<d, estQ'[d][i]>>] = "none"
        BY <1>1, <1>3, <1>b, <3>5, <3>6, PcKept
      <3>8. ASSUME NEW j \in DOMAIN estQ'[d], estQ'[d][i] = estQ'[d][j]
            PROVE  i = j
        <4>1. j \in Nat /\ j + 1 \in DOMAIN estQ[d] /\ estQ'[d][j] = estQ[d][j + 1]
          BY <3>2
        <4>2. i + 1 = j + 1
          BY <3>3, <3>4, <3>8, <4>1
        <4> QED
          BY <3>3, <4>1, <4>2
      <3> QED
        BY <3>7, <3>8
    <2>2. CASE ~HandleEstablished(d) /\ estQ'[d] = estQ[d]
      <3>1. pc[estQ[d][i]] # "idle" /\ backend[<<d, estQ[d][i]>>] = "none" /\ estQ[d][i] \in Conns
        BY <1>3, <1>a, <2>2 DEF AnnouncedOnce
      <3>2. pc'[estQ[d][i]] # "idle" /\ backend'[<<d, estQ[d][i]>>] = "none"
        BY <1>1, <2>2, <3>1, PcKept
      <3> QED
        BY <1>3, <2>2, <3>2 DEF AnnouncedOnce
    <2>3. ASSUME NEW c \in Conns, Announce(c), pc[c] = "idle", pc'[c] = "announced",
                 estQ' = ToAll(estQ, c), ~HandleEstablished(d), estQ'[d] # estQ[d]
          PROVE  /\ pc'[estQ'[d][i]] # "idle"
                 /\ backend'[<<d, estQ'[d][i]>>] = "none"
                 /\ \A j \in DOMAIN estQ'[d] : estQ'[d][i] = estQ'[d][j] => i = j
      <3>1. estQ'[d] = Append(estQ[d], c)
        BY <2>3 DEF ToAll
      <3>2. /\ \A k \in DOMAIN estQ[d] : k \in DOMAIN estQ'[d] /\ estQ'[d][k] = estQ[d][k]
            /\ estQ'[d][Len(estQ[d]) + 1] = c
            /\ \A k \in DOMAIN estQ'[d] : k \in DOMAIN estQ[d] \/ k = Len(estQ[d]) + 1
        BY <1>0, <3>1, QueueAppend
      <3>3. \A k \in DOMAIN estQ[d] : pc[estQ[d][k]] # "idle"
        BY DEF AnnouncedOnce
      <3>4. \A k \in DOMAIN estQ[d] : estQ[d][k] # c
        BY <2>3, <3>3
      <3>5. \A j \in DOMAIN estQ'[d] : estQ'[d][i] = estQ'[d][j] => i = j
        <4> SUFFICES ASSUME NEW j \in DOMAIN estQ'[d], estQ'[d][i] = estQ'[d][j]
                     PROVE  i = j
          OBVIOUS
        <4>1. CASE i \in DOMAIN estQ[d] /\ j \in DOMAIN estQ[d]
          BY <3>2, <4>1 DEF AnnouncedOnce
        <4>2. CASE i = Len(estQ[d]) + 1
          BY <3>2, <3>4, <4>2
        <4>3. CASE j = Len(estQ[d]) + 1
          BY <3>2, <3>4, <4>3
        <4> QED
          BY <1>3, <3>2, <4>1, <4>2, <4>3
      <3>6. pc[estQ'[d][i]] # "idle" \/ estQ'[d][i] = c
        BY <1>3, <3>2, <3>3
      <3>7. pc'[estQ'[d][i]] # "idle"
        BY <1>3, <1>b, <2>3, <3>6, PcKept
      <3>8. backend[<<d, estQ'[d][i]>>] = "none"
        BY <1>3, <2>3, <3>2 DEF AnnouncedOnce
      <3>9. backend'[<<d, estQ'[d][i]>>] = "none"
        BY <1>1, <1>3, <1>b, <2>3, <3>8
      <3> QED
        BY <3>5, <3>7, <3>9
    <2>4. ASSUME NEW h \in Reverses, HandleEstablished(h), h # d
          PROVE  estQ'[d] = estQ[d]
      BY <1>0, <2>4, DialEffect, ZenonT(30)
    <2>5. ASSUME NEW h \in Reverses, estQ' = [estQ EXCEPT ![h] = <<>>]
          PROVE  estQ'[d] = estQ[d]
      BY <1>0, <1>3, <2>5
    <2> QED
      BY <2>1, <2>2, <2>3, <2>4, <2>5, EstablishedEffect
  <1>4. \A d \in Reverses, c \in Conns : pc'[c] = "idle" => backend'[<<d, c>>] = "none"
    BY <1>2
  <1> QED
    BY <1>3, <1>4 DEF AnnouncedOnce

\* The table: an entry is written when its connection is dialled.
LEMMA TableStep == TypeOK /\ Table /\ [Next]_vars => Table'
  <1> SUFFICES ASSUME TypeOK, Table, [Next]_vars
               PROVE  Table'
    OBVIOUS
  <1>0. wsConns' \in [Reverses -> [Replies -> SUBSET Conns]]
    BY TypeStep DEF TypeOK
  <1>1. ASSUME NEW d \in Reverses, NEW s \in Replies, NEW c \in wsConns'[d][s]
        PROVE  reply[c] = s /\ backend'[<<d, c>>] # "none"
    <2>0. c \in Conns
      BY <1>0
    <2>1. CASE wsConns'[d][s] = wsConns[d][s]
      <3>1. reply[c] = s /\ backend[<<d, c>>] # "none"
        BY <1>1, <2>1 DEF Table
      <3>2. \/ backend'[<<d, c>>] = backend[<<d, c>>]
            \/ backend'[<<d, c>>] \in {"open", "gone", "closed"}
        BY <2>0, BackendEffect
      <3> QED
        BY <3>1, <3>2
    <2>2. CASE /\ s = reply[Head(estQ[d])]
               /\ wsConns'[d][s] = {Head(estQ[d])}
               /\ backend'[<<d, Head(estQ[d])>>] = "open"
      BY <1>1, <2>2
    <2>3. wsConns'[d][s] # {}
      BY <1>1
    <2> QED
      BY <2>1, <2>2, <2>3, EntryEffect
  <1>2. reply' = reply
    BY ClientsKept
  <1> QED
    BY <1>1, <1>2 DEF Table

\* What a step does to the pending frames.
LEMMA DataEffect ==
    ASSUME TypeOK, [Next]_vars
    PROVE  \/ dataQ' = dataQ
           \/ \E c \in Conns : ReadFrame(c)
           \/ \E d \in Reverses : /\ HandleFrame(d) /\ dataQ[d] # <<>>
                                  /\ dataQ' = [dataQ EXCEPT ![d] = Tail(dataQ[d])]
           \/ \E d \in Reverses : Crash(d) /\ dataQ' = [dataQ EXCEPT ![d] = <<>>]
  <1>1. CASE UNCHANGED vars
    BY <1>1 DEF vars
  <1>2. ASSUME NEW c \in Conns,
               Refuse(c) \/ Announce(c) \/ PublishFails(c) \/ HandlerStep(c)
        PROVE  dataQ' = dataQ
    BY <1>2 DEF Refuse, Announce, PublishFails, HandlerStep, Pool, Subscribe,
       SubscribeFails, ReadError, Unsubscribe, RemoveFromPool, CloseSend, CloseConn
  <1>3. ASSUME NEW c \in Conns, WriterStep(c) \/ CallbackStep(c) \/ ClientLeaves(c)
        PROVE  dataQ' = dataQ
    BY <1>3 DEF WriterStep, CallbackStep, Write, WriteFails, WriterReturns,
       Callback, Deliver, ClientLeaves
  <1>4. ASSUME NEW d \in Reverses,
               \/ HandleEstablished(d) \/ HandleClosed(d) \/ Restart(d)
               \/ \E by \in Callbacks \cup Conns : DeleteEntry(d, by)
               \/ \E c \in Conns : Pump(d, c) \/ BackendLeaves(d, c) \/ PumpEnds(d, c)
        PROVE  dataQ' = dataQ
    BY <1>4 DEF HandleEstablished, HandleClosed, Restart, DeleteEntry, Pump, BackendLeaves, PumpEnds
  <1>5. ASSUME NEW d \in Reverses, HandleFrame(d) \/ Crash(d)
        PROVE  \/ /\ HandleFrame(d) /\ dataQ[d] # <<>>
                  /\ dataQ' = [dataQ EXCEPT ![d] = Tail(dataQ[d])]
               \/ Crash(d) /\ dataQ' = [dataQ EXCEPT ![d] = <<>>]
    BY <1>5 DEF HandleFrame, Crash
  <1> QED
    BY <1>1, <1>2, <1>3, <1>4, <1>5 DEF Next, ProxyStep

\* Only a crash and a restart change who is up.
LEMMA UpEffect ==
    ASSUME [Next]_vars
    PROVE  \/ up' = up
           \/ \E d \in Reverses : Crash(d) /\ up' = up \ {d}
           \/ \E d \in Reverses : Restart(d) /\ up' = up \cup {d}
  <1> USE DEF crashVars
  <1>1. CASE UNCHANGED <<reverseVars, crashVars>>
    BY <1>1
  <1>2. ASSUME NEW d \in Reverses,
               \/ HandleEstablished(d) \/ HandleClosed(d) \/ HandleFrame(d)
               \/ \E by \in Callbacks \cup Conns : DeleteEntry(d, by)
               \/ \E c \in Conns : Pump(d, c) \/ BackendLeaves(d, c) \/ PumpEnds(d, c)
        PROVE  up' = up
    BY <1>2 DEF HandleEstablished, HandleClosed, HandleFrame, DeleteEntry, Pump, BackendLeaves, PumpEnds
  <1>3. ASSUME NEW d \in Reverses, Crash(d) \/ Restart(d)
        PROVE  (Crash(d) /\ up' = up \ {d}) \/ (Restart(d) /\ up' = up \cup {d})
    BY <1>3 DEF Crash, Restart
  <1> QED
    BY <1>1, <1>2, <1>3, ReverseKept

\* A crash takes everything an h8srd has.
LEMMA CrashEffect ==
    ASSUME TypeOK, NEW d \in Reverses, Crash(d)
    PROVE  /\ estQ'[d] = <<>> /\ closedQ'[d] = <<>> /\ dataQ'[d] = <<>>
           /\ \A s \in Replies : wsConns'[d][s] = {}
           /\ \A c \in Conns : backend'[<<d, c>>] \in {"none", "closed"}
           /\ \A by, s : <<d, by, s>> \notin deleting'
           /\ \A h \in Reverses \ {d} : estQ'[h] = estQ[h] /\ closedQ'[h] = closedQ[h] /\ dataQ'[h] = dataQ[h]
           /\ \A b \in pumping : b[1] # d => b \in pumping'
           /\ \A x \in deleting : x[1] # d => x \in deleting'
           /\ up' = up \ {d} /\ d \notin up'
  <1>1. /\ estQ \in [Reverses -> Seq(Conns)] /\ closedQ \in [Reverses -> Seq(Conns)]
        /\ dataQ \in [Reverses -> Seq(Frame)]
        /\ wsConns \in [Reverses -> [Replies -> SUBSET Conns]]
        /\ backend \in [Reverses \X Conns -> {"none", "open", "gone", "closed"}]
    BY DEF TypeOK
  <1>2. \A c \in Conns : backend'[<<d, c>>] \in {"none", "closed"}
    BY <1>1 DEF Crash
  <1>3. \A by, s : <<d, by, s>> \notin deleting'
    BY DEF Crash
  <1> QED
    BY <1>1, <1>2, <1>3 DEF Crash

\* Who is down stays so: nothing is put in the queues of an h8srd that is not up.
LEMMA DownStep == TypeOK /\ Down /\ [Next]_vars => Down'
  <1> SUFFICES ASSUME TypeOK, Down, [Next]_vars
               PROVE  Down'
    OBVIOUS
  <1>0. /\ estQ \in [Reverses -> Seq(Conns)] /\ dataQ \in [Reverses -> Seq(Frame)]
        /\ up \subseteq Reverses
    BY DEF TypeOK
  <1>1. ASSUME NEW d \in Reverses \ up'
        PROVE  /\ estQ'[d] = <<>> /\ dataQ'[d] = <<>>
               /\ \A c \in Conns : backend'[<<d, c>>] # "open"
    <2>1. CASE Crash(d)
      BY <2>1, CrashEffect
    <2>2. CASE ~Crash(d)
      <3>1. d \notin up
        BY <2>2, UpEffect
      <3>2. /\ estQ[d] = <<>> /\ dataQ[d] = <<>>
            /\ \A c \in Conns : backend[<<d, c>>] # "open"
        BY <3>1 DEF Down
      <3>3. ~HandleEstablished(d) /\ ~HandleFrame(d)
        BY <3>2 DEF HandleEstablished, HandleFrame
      <3>4. \A c \in Conns : backend'[<<d, c>>] # "open"
        BY <3>2, <3>3, BackendEffect
      <3>5. estQ'[d] = <<>>
        <4>1. ASSUME NEW c \in Conns, estQ' = ToAll(estQ, c)
              PROVE  estQ'[d] = <<>>
          BY <3>1, <3>2, <4>1 DEF ToAll
        <4>2. ASSUME NEW h \in Reverses, NEW q, h # d, estQ' = [estQ EXCEPT ![h] = q]
              PROVE  estQ'[d] = <<>>
          BY <1>0, <3>2, <4>2
        <4> QED
          BY <2>2, <3>2, <3>3, <4>1, <4>2, EstablishedEffect
      <3>6. dataQ'[d] = <<>>
        <4>1. ASSUME NEW c \in Conns, ReadFrame(c)
              PROVE  dataQ'[d] = <<>>
          BY <3>1, <3>2, <4>1 DEF ReadFrame, Routes
        <4>2. ASSUME NEW h \in Reverses, NEW q, h # d, dataQ' = [dataQ EXCEPT ![h] = q]
              PROVE  dataQ'[d] = <<>>
          BY <1>0, <3>2, <4>2
        <4> QED
          BY <2>2, <3>2, <3>3, <4>1, <4>2, DataEffect
      <3> QED
        BY <3>4, <3>5, <3>6
    <2> QED
      BY <2>1, <2>2
  <1> QED
    BY <1>1 DEF Down

\* Who is to delete an entry of an h8srd.
LEMMA DeletingEffect ==
    ASSUME TypeOK, [Next]_vars, NEW d \in Reverses, NEW by \in Callbacks \cup Conns,
           NEW s \in Replies, <<d, by, s>> \in deleting', <<d, by, s>> \notin deleting
    PROVE  \/ /\ HandleClosed(d) /\ s = reply[Head(closedQ[d])] /\ wsConns[d][s] # {}
              /\ \A c \in wsConns[d][s] : backend'[<<d, c>>] = "closed"
           \/ \E c \in Conns : reply[c] = s /\ backend'[<<d, c>>] = "closed" /\ PumpEnds(d, c)
           \/ \E c \in wsConns[d][s] : backend'[<<d, c>>] = "closed" /\ HandleFrame(d)
  <1> USE DEF reverseVars, WillDelete, CloseBackend
  <1>0. /\ backend \in [Reverses \X Conns -> {"none", "open", "gone", "closed"}]
        /\ wsConns \in [Reverses -> [Replies -> SUBSET Conns]]
    BY DEF TypeOK
  <1>1. CASE UNCHANGED <<reverseVars, crashVars>>
    BY <1>1
  <1>2. ASSUME NEW h \in Reverses,
               \/ HandleEstablished(h) \/ Crash(h) \/ Restart(h)
               \/ \E b \in Callbacks \cup Conns : DeleteEntry(h, b)
               \/ \E c \in Conns : Pump(h, c) \/ BackendLeaves(h, c)
        PROVE  <<d, by, s>> \in deleting
    BY <1>2 DEF HandleEstablished, Crash, Restart, DeleteEntry, Pump, BackendLeaves
  <1>3. ASSUME NEW h \in Reverses, HandleClosed(h)
        PROVE  /\ HandleClosed(d) /\ s = reply[Head(closedQ[d])] /\ wsConns[d][s] # {}
               /\ \A c \in wsConns[d][s] : backend'[<<d, c>>] = "closed"
    <2>1. /\ <<d, by, s>> = <<h, "closed", reply[Head(closedQ[h])]>>
          /\ wsConns[h][reply[Head(closedQ[h])]] # {}
          /\ backend' = [b \in DOMAIN backend |->
                   IF b[1] = h /\ b[2] \in wsConns[h][reply[Head(closedQ[h])]]
                   THEN "closed" ELSE backend[b]]
      BY <1>3 DEF HandleClosed, KeyFor
    <2>2. h = d /\ s = reply[Head(closedQ[d])]
      BY <2>1
    <2> QED
      BY <1>0, <1>3, <2>1, <2>2
  <1>4. ASSUME NEW h \in Reverses, HandleFrame(h)
        PROVE  \E c \in wsConns[d][s] : backend'[<<d, c>>] = "closed" /\ HandleFrame(d)
    <2>1. PICK c \in wsConns[h][KeyFor(NextFrame(h).conn)] :
             /\ <<d, by, s>> = <<h, "data", KeyFor(NextFrame(h).conn)>>
             /\ backend' = [b \in DOMAIN backend |->
                      IF b[1] = h /\ b[2] \in {c} THEN "closed" ELSE backend[b]]
      <3>1. \/ UNCHANGED deleting
            \/ \E c \in wsConns[h][KeyFor(NextFrame(h).conn)] :
                  /\ CloseBackend(h, {c})
                  /\ WillDelete(h, "data", KeyFor(NextFrame(h).conn))
        BY <1>4 DEF HandleFrame
      <3>2. PICK c \in wsConns[h][KeyFor(NextFrame(h).conn)] :
               /\ CloseBackend(h, {c})
               /\ WillDelete(h, "data", KeyFor(NextFrame(h).conn))
        BY <3>1
      <3>3. <<d, by, s>> = <<h, "data", KeyFor(NextFrame(h).conn)>>
        BY <3>2
      <3>4. backend' = [b \in DOMAIN backend |->
                      IF b[1] = h /\ b[2] \in {c} THEN "closed" ELSE backend[b]]
        BY <3>2
      <3> QED
        BY <3>3, <3>4
    <2>2. h = d /\ s = KeyFor(NextFrame(d).conn)
      BY <2>1
    <2>3. c \in wsConns[d][s] /\ c \in Conns
      BY <1>0, <2>1, <2>2
    <2>4. backend'[<<d, c>>] = "closed"
      BY <1>0, <2>1, <2>2, <2>3
    <2> QED
      BY <1>4, <2>2, <2>3, <2>4
  <1>5. ASSUME NEW h \in Reverses, NEW c \in Conns, PumpEnds(h, c)
        PROVE  reply[c] = s /\ backend'[<<d, c>>] = "closed" /\ PumpEnds(d, c)
    <2>1. <<d, by, s>> = <<h, c, reply[c]>>
      BY <1>5 DEF PumpEnds, KeyFor
    <2>2. h = d /\ s = reply[c]
      BY <2>1
    <2> QED
      BY <1>0, <1>5, <2>2 DEF PumpEnds
  <1> QED
    BY <1>1, <1>2, <1>3, <1>4, <1>5, ReverseKept

\* An entry is deleted after its connection was closed.
LEMMA ClosedFirstStep ==
    TypeOK /\ Table /\ AnnouncedOnce /\ ClosedFirst /\ [Next]_vars => ClosedFirst'
  <1> SUFFICES ASSUME TypeOK, Table, AnnouncedOnce, ClosedFirst, [Next]_vars
               PROVE  ClosedFirst'
    OBVIOUS
  <1>0. /\ wsConns \in [Reverses -> [Replies -> SUBSET Conns]]
        /\ reply \in [Conns -> Replies] /\ reply' = reply
        /\ estQ \in [Reverses -> Seq(Conns)]
    BY ClientsKept DEF TypeOK
  <1>1. ASSUME NEW d \in Reverses, NEW by \in Callbacks \cup Conns, NEW c \in Conns,
               <<d, by, reply[c]>> \in deleting', Alone(c)
        PROVE  backend'[<<d, c>>] = "closed"
    <2>1. \A e \in Conns : reply[e] = reply[c] => e = c
      BY <1>1 DEF Alone
    <2>2. CASE <<d, by, reply[c]>> \in deleting
      <3>1. backend[<<d, c>>] = "closed"
        BY <1>1, <2>2 DEF ClosedFirst
      <3>2. ~(HandleEstablished(d) /\ c = Head(estQ[d]))
        <4> SUFFICES ASSUME HandleEstablished(d)
                     PROVE  backend[<<d, Head(estQ[d])>>] = "none"
          BY <3>1
        <4>1. estQ[d] \in Seq(Conns) /\ estQ[d] # <<>>
          BY <1>0, DialEffect
        <4>2. Head(estQ[d]) = estQ[d][1] /\ 1 \in DOMAIN estQ[d]
          BY <4>1, QueueTail
        <4> QED
          BY <4>2 DEF AnnouncedOnce
      <3> QED
        BY <3>1, <3>2, BackendEffect
    <2>3. CASE <<d, by, reply[c]>> \notin deleting
      <3>1. reply[c] \in Replies
        BY <1>0
      <3>2. \/ /\ wsConns[d][reply[c]] # {}
               /\ \A e \in wsConns[d][reply[c]] : backend'[<<d, e>>] = "closed"
            \/ \E e \in Conns : reply[e] = reply[c] /\ backend'[<<d, e>>] = "closed"
            \/ \E e \in wsConns[d][reply[c]] : backend'[<<d, e>>] = "closed"
        BY <1>1, <2>3, <3>1, DeletingEffect
      <3>3. \A e \in wsConns[d][reply[c]] : e = c
        <4>1. wsConns[d][reply[c]] \subseteq Conns
          BY <1>0, <3>1
        <4>2. \A e \in wsConns[d][reply[c]] : reply[e] = reply[c]
          BY <3>1 DEF Table
        <4> QED
          BY <2>1, <4>1, <4>2
      <3> QED
        BY <2>1, <3>2, <3>3
    <2> QED
      BY <2>2, <2>3
  <1> QED
    BY <1>0, <1>1 DEF ClosedFirst, Alone

\* Who is to be dialled has not been dialled before.
LEMMA HeadIsNew ==
    ASSUME TypeOK, AnnouncedOnce, NEW d \in Reverses, HandleEstablished(d)
    PROVE  /\ Head(estQ[d]) \in Conns /\ backend[<<d, Head(estQ[d])>>] = "none"
           /\ Opening(d, Head(estQ[d]))
  <1>1. estQ[d] \in Seq(Conns) /\ estQ[d] # <<>>
    BY DialEffect DEF TypeOK
  <1>2. Head(estQ[d]) = estQ[d][1] /\ 1 \in DOMAIN estQ[d] /\ Head(estQ[d]) \in Conns
    BY <1>1, QueueTail
  <1> QED
    BY <1>2 DEF AnnouncedOnce, Opening

\* A backend connection that becomes open is entered in the table and pumped.
LEMMA OpenedIsKnown ==
    ASSUME TypeOK, AnnouncedOnce, [Next]_vars, NEW d \in Reverses, NEW c \in Conns,
           backend[<<d, c>>] # "open", backend'[<<d, c>>] = "open"
    PROVE  wsConns'[d][reply[c]] = {c}
  <1>1. HandleEstablished(d) /\ c = Head(estQ[d])
    BY BackendEffect
  <1>2. wsConns' = [wsConns EXCEPT ![d][reply[c]] = {c}]
    BY <1>1, DialEffect
  <1>3. wsConns \in [Reverses -> [Replies -> SUBSET Conns]] /\ reply[c] \in Replies
    BY DEF TypeOK
  <1> QED
    BY <1>2, <1>3

\* What is pumped and in the table stays so, or who has closed it says so.
LEMMA KnownEffect ==
    ASSUME TypeOK, Table, [Next]_vars, NEW d \in Reverses, NEW c \in Conns,
           c \in wsConns[d][reply[c]], ~Crash(d),
           <<d, c>> \in pumping /\ backend[<<d, c>>] # "closed"
    PROVE  \/ <<d, c>> \in pumping' /\ backend'[<<d, c>>] # "closed"
           \/ \E by \in Callbacks \cup Conns : <<d, by, reply[c]>> \in deleting'
  <1> USE DEF reverseVars, CloseBackend, WillDelete
  <1>0. /\ backend \in [Reverses \X Conns -> {"none", "open", "gone", "closed"}]
        /\ wsConns \in [Reverses -> [Replies -> SUBSET Conns]]
        /\ reply \in [Conns -> Replies]
        /\ "closed" \in Callbacks /\ "data" \in Callbacks
    BY DEF TypeOK, Callbacks
  <1>1. CASE UNCHANGED <<reverseVars, crashVars>>
    BY <1>1
  <1>2. ASSUME NEW h \in Reverses, HandleEstablished(h)
        PROVE  <<d, c>> \in pumping' /\ backend'[<<d, c>>] # "closed"
    <2>1. Head(estQ[h]) \in Conns
      BY <1>2, DialEffect
    <2> QED
      BY <1>0, <1>2, <2>1, DialEffect
  <1>3. ASSUME NEW h \in Reverses, HandleClosed(h)
        PROVE  \/ <<d, c>> \in pumping' /\ backend'[<<d, c>>] # "closed"
               \/ \E by \in Callbacks \cup Conns : <<d, by, reply[c]>> \in deleting'
    <2>1. CASE UNCHANGED <<backend, deleting>>
      BY <1>3, <2>1 DEF HandleClosed
    <2>2. CASE /\ backend' = [b \in DOMAIN backend |->
                      IF b[1] = h /\ b[2] \in wsConns[h][KeyFor(Head(closedQ[h]))]
                      THEN "closed" ELSE backend[b]]
               /\ deleting' = deleting \cup {<<h, "closed", KeyFor(Head(closedQ[h]))>>}
      <3>1. CASE h = d /\ c \in wsConns[d][KeyFor(Head(closedQ[d]))]
        <4>1. reply[c] = reply[Head(closedQ[d])]
          BY <1>3, <3>1, ClosedWasDialled
        <4> QED
          BY <1>0, <2>2, <3>1, <4>1 DEF KeyFor
      <3>2. CASE ~(h = d /\ c \in wsConns[d][KeyFor(Head(closedQ[d]))])
        <4>1. backend'[<<d, c>>] = backend[<<d, c>>]
          BY <1>0, <2>2, <3>2
        <4> QED
          BY <1>3, <4>1 DEF HandleClosed
      <3> QED
        BY <3>1, <3>2
    <2> QED
      BY <1>3, <2>1, <2>2 DEF HandleClosed
  <1>4. ASSUME NEW h \in Reverses, HandleFrame(h)
        PROVE  \/ <<d, c>> \in pumping' /\ backend'[<<d, c>>] # "closed"
               \/ \E by \in Callbacks \cup Conns : <<d, by, reply[c]>> \in deleting'
    <2>1. CASE UNCHANGED backend
      BY <1>4, <2>1 DEF HandleFrame
    <2>2. ASSUME NEW e \in wsConns[h][KeyFor(NextFrame(h).conn)],
                 backend' = [b \in DOMAIN backend |->
                      IF b[1] = h /\ b[2] \in {e} THEN "closed" ELSE backend[b]],
                 deleting' = deleting \cup {<<h, "data", KeyFor(NextFrame(h).conn)>>}
          PROVE  \/ <<d, c>> \in pumping' /\ backend'[<<d, c>>] # "closed"
                 \/ \E by \in Callbacks \cup Conns : <<d, by, reply[c]>> \in deleting'
      <3>1. CASE h = d /\ c = e
        <4>1. Head(dataQ[d]) \in Frame
          BY <1>4, <3>1, QueueTail DEF HandleFrame, TypeOK
        <4>2. KeyFor(NextFrame(d).conn) \in Replies
          BY <1>0, <4>1 DEF Frame, NextFrame, KeyFor
        <4>3. reply[c] = KeyFor(NextFrame(d).conn)
          BY <2>2, <3>1, <4>2 DEF Table
        <4> QED
          BY <1>0, <2>2, <3>1, <4>3
      <3>2. CASE ~(h = d /\ c = e)
        <4>1. backend'[<<d, c>>] = backend[<<d, c>>]
          BY <1>0, <2>2, <3>2
        <4> QED
          BY <1>4, <4>1 DEF HandleFrame
      <3> QED
        BY <3>1, <3>2
    <2> QED
      BY <1>4, <2>1, <2>2 DEF HandleFrame
  <1>5. ASSUME NEW h \in Reverses, Crash(h)
        PROVE  <<d, c>> \in pumping' /\ backend'[<<d, c>>] # "closed"
    <2>1. h # d
      BY <1>5
    <2> QED
      BY <1>0, <1>5, <2>1 DEF Crash
  <1>6. ASSUME NEW h \in Reverses, Restart(h) \/ \E by \in Callbacks \cup Conns : DeleteEntry(h, by)
        PROVE  <<d, c>> \in pumping' /\ backend'[<<d, c>>] # "closed"
    BY <1>6 DEF Restart, DeleteEntry
  <1>7. ASSUME NEW h \in Reverses, NEW e \in Conns, Pump(h, e) \/ BackendLeaves(h, e)
        PROVE  <<d, c>> \in pumping' /\ backend'[<<d, c>>] # "closed"
    BY <1>0, <1>7 DEF Pump, BackendLeaves
  <1>8. ASSUME NEW h \in Reverses, NEW e \in Conns, PumpEnds(h, e)
        PROVE  \/ <<d, c>> \in pumping' /\ backend'[<<d, c>>] # "closed"
               \/ \E by \in Callbacks \cup Conns : <<d, by, reply[c]>> \in deleting'
    <2>1. /\ pumping' = pumping \ {<<h, e>>}
          /\ backend' = [b \in DOMAIN backend |->
                      IF b[1] = h /\ b[2] \in {e} THEN "closed" ELSE backend[b]]
          /\ deleting' = deleting \cup {<<h, e, reply[e]>>}
      BY <1>8 DEF PumpEnds, KeyFor
    <2>2. CASE h = d /\ c = e
      BY <2>1, <2>2
    <2>3. CASE ~(h = d /\ c = e)
      BY <1>0, <2>1, <2>3
    <2> QED
      BY <2>2, <2>3
  <1> QED
    BY <1>1, <1>2, <1>3, <1>4, <1>5, <1>6, <1>7, <1>8, ReverseKept

\* Who is to delete an entry is until it does.
LEMMA DeletingKept ==
    ASSUME TypeOK, [Next]_vars, NEW d \in Reverses, NEW by \in Callbacks \cup Conns,
           NEW s \in Replies, <<d, by, s>> \in deleting
    PROVE  <<d, by, s>> \in deleting' \/ wsConns'[d][s] = {}
  <1>0. wsConns \in [Reverses -> [Replies -> SUBSET Conns]]
    BY DEF TypeOK
  <1>1. CASE UNCHANGED <<reverseVars, crashVars>>
    BY <1>1 DEF reverseVars
  <1>2. ASSUME NEW h \in Reverses,
               \/ HandleEstablished(h) \/ HandleClosed(h) \/ HandleFrame(h) \/ Restart(h)
               \/ \E c \in Conns : Pump(h, c) \/ BackendLeaves(h, c) \/ PumpEnds(h, c)
        PROVE  <<d, by, s>> \in deleting'
    BY <1>2 DEF HandleEstablished, HandleClosed, HandleFrame, Restart, Pump, BackendLeaves,
       PumpEnds, WillDelete, reverseVars
  <1>3. ASSUME NEW h \in Reverses, Crash(h)
        PROVE  <<d, by, s>> \in deleting' \/ wsConns'[d][s] = {}
    <2>1. CASE h = d
      BY <1>3, <2>1, CrashEffect
    <2>2. CASE h # d
      BY <1>3, <2>2, CrashEffect
    <2> QED
      BY <2>1, <2>2
  <1>4. ASSUME NEW h \in Reverses, NEW b \in Callbacks \cup Conns, DeleteEntry(h, b)
        PROVE  <<d, by, s>> \in deleting' \/ wsConns'[d][s] = {}
    <2>1. PICK r \in Replies : /\ deleting' = deleting \ {<<h, b, r>>}
                               /\ wsConns' = [wsConns EXCEPT ![h][r] = {}]
      BY <1>4 DEF DeleteEntry, Delete
    <2>2. CASE h = d /\ r = s
      BY <1>0, <2>1, <2>2
    <2>3. CASE ~(h = d /\ r = s)
      BY <2>1, <2>3
    <2> QED
      BY <2>2, <2>3
  <1> QED
    BY <1>1, <1>2, <1>3, <1>4, ReverseKept

\* Open connections are known, and known ones are pumped or about to be deleted.
LEMMA KnownStep ==
    TypeOK /\ Control /\ BackendsAreKnown /\ [Next]_vars => BackendsAreKnown'
  <1> SUFFICES ASSUME TypeOK, Control, BackendsAreKnown, [Next]_vars
               PROVE  BackendsAreKnown'
    OBVIOUS
  <1>0. /\ wsConns \in [Reverses -> [Replies -> SUBSET Conns]]
        /\ reply \in [Conns -> Replies] /\ reply' = reply
        /\ backend \in [Reverses \X Conns -> {"none", "open", "gone", "closed"}]
    BY ClientsKept DEF TypeOK
  <1>1. ASSUME NEW d \in Reverses, NEW c \in Conns, backend'[<<d, c>>] = "open", Alone(c)
        PROVE  c \in wsConns'[d][reply[c]]
    <2>1. CASE backend[<<d, c>>] # "open"
      BY <1>1, <2>1, OpenedIsKnown DEF Control
    <2>2. CASE backend[<<d, c>>] = "open"
      <3>1. c \in wsConns[d][reply[c]] /\ reply[c] \in Replies
        BY <1>0, <1>1, <2>2 DEF BackendsAreKnown, KeyFor
      <3>2. CASE wsConns'[d][reply[c]] = wsConns[d][reply[c]]
        BY <3>1, <3>2
      <3>3. CASE /\ HandleEstablished(d) /\ reply[c] = reply[Head(estQ[d])]
                 /\ wsConns'[d][reply[c]] = {Head(estQ[d])}
        <4>1. Head(estQ[d]) = c
          BY <1>1, <3>3, DialEffect DEF Alone
        <4> QED
          BY <3>3, <4>1
      <3>4. ~\E by \in Callbacks \cup Conns : <<d, by, reply[c]>> \in deleting
        BY <1>1, <2>2 DEF Control, ClosedFirst
      <3>5. ~Crash(d)
        BY <1>1, CrashEffect
      <3> QED
        BY <3>1, <3>2, <3>3, <3>4, <3>5, EntryEffect
    <2> QED
      BY <2>1, <2>2
  <1>2. ASSUME NEW d \in Reverses, NEW c \in Conns, c \in wsConns'[d][reply[c]]
        PROVE  \/ <<d, c>> \in pumping' /\ backend'[<<d, c>>] # "closed"
               \/ \E by \in Callbacks \cup Conns : <<d, by, reply[c]>> \in deleting'
    <2>0. reply[c] \in Replies /\ wsConns'[d][reply[c]] # {} /\ ~Crash(d)
      BY <1>0, <1>2, CrashEffect
    <2>1. CASE c \in wsConns[d][reply[c]]
      <3>1. CASE <<d, c>> \in pumping /\ backend[<<d, c>>] # "closed"
        BY <2>0, <2>1, <3>1, KnownEffect DEF Control
      <3>2. ASSUME NEW by \in Callbacks \cup Conns, <<d, by, reply[c]>> \in deleting
            PROVE  <<d, by, reply[c]>> \in deleting'
        BY <2>0, <3>2, DeletingKept
      <3> QED
        BY <2>1, <3>1, <3>2 DEF BackendsAreKnown, KeyFor
    <2>2. CASE c \notin wsConns[d][reply[c]]
      <3>1. /\ wsConns'[d][reply[c]] = {Head(estQ[d])}
            /\ backend'[<<d, Head(estQ[d])>>] = "open"
            /\ <<d, Head(estQ[d])>> \in pumping'
        BY <1>2, <2>0, <2>2, EntryEffect
      <3>2. c = Head(estQ[d])
        BY <1>2, <3>1
      <3> QED
        BY <3>1, <3>2
    <2> QED
      BY <2>1, <2>2
  <1>3. \A c \in Conns : Alone(c)' <=> Alone(c)
    BY <1>0 DEF Alone
  <1> QED
    BY <1>0, <1>1, <1>2, <1>3 DEF BackendsAreKnown, KeyFor

\* A close notice that is handled closes the connections of its reply subject, or
\* finds none.
LEMMA HandledNotice ==
    ASSUME TypeOK, NEW d \in Reverses, HandleClosed(d)
    PROVE  /\ closedQ[d] # <<>> /\ Head(closedQ[d]) \in Conns
           /\ closedQ' = [closedQ EXCEPT ![d] = Tail(closedQ[d])]
           /\ \/ <<d, Head(closedQ[d])>> \in early'
              \/ /\ wsConns[d][reply[Head(closedQ[d])]] # {}
                 /\ \A c \in wsConns[d][reply[Head(closedQ[d])]] : backend'[<<d, c>>] = "closed"
           /\ UNCHANGED <<estQ, wsConns>>
  <1>1. closedQ[d] # <<>> /\ closedQ[d] \in Seq(Conns)
    BY DEF HandleClosed, TypeOK
  <1>2. Head(closedQ[d]) \in Conns
    BY <1>1, QueueTail
  <1>3. /\ backend \in [Reverses \X Conns -> {"none", "open", "gone", "closed"}]
        /\ wsConns \in [Reverses -> [Replies -> SUBSET Conns]]
        /\ reply[Head(closedQ[d])] \in Replies
    BY <1>2 DEF TypeOK
  <1>4. wsConns[d][reply[Head(closedQ[d])]] \subseteq Conns
    BY <1>3
  <1> QED
    BY <1>1, <1>2, <1>3, <1>4 DEF HandleClosed, CloseBackend, KeyFor

\* An open connection without company is told of a close notice, or has been told too
\* early.
LEMMA NoticeWorksStep == TypeOK /\ Control /\ NoticeWorks /\ [Next]_vars => NoticeWorks'
  <1> SUFFICES ASSUME TypeOK, Control, NoticeWorks, [Next]_vars
               PROVE  NoticeWorks'
    OBVIOUS
  <1>0. /\ reply \in [Conns -> Replies] /\ reply' = reply /\ early \subseteq early'
        /\ wsConns \in [Reverses -> [Replies -> SUBSET Conns]]
        /\ estQ \in [Reverses -> Seq(Conns)] /\ closedQ \in [Reverses -> Seq(Conns)]
        /\ noticed \subseteq Conns /\ noticed' \subseteq Conns
        /\ key \in [Conns -> Keys]
    BY ClientsKept, TypeStep DEF TypeOK
  <1>1. ASSUME NEW d \in Reverses, NEW c \in Conns, c \in noticed,
               backend'[<<d, c>>] = "open" \/ Opening(d, c)'
        PROVE  backend[<<d, c>>] = "open" \/ Opening(d, c)
    <2>1. CASE backend'[<<d, c>>] = "open"
      BY <2>1, BackendEffect, HeadIsNew DEF Control
    <2>2. CASE Opening(d, c)' /\ HandleEstablished(d)
      <3>1. estQ[d] # <<>> /\ estQ'[d] = Tail(estQ[d])
        BY <1>0, <2>2, DialEffect
      <3> QED
        BY <1>0, <2>2, <3>1, QueueTail DEF Opening
    <2>3. CASE Opening(d, c)' /\ estQ'[d] = estQ[d]
      BY <2>3 DEF Opening
    <2>4. ASSUME NEW e \in Conns, pc[e] = "idle", estQ' = ToAll(estQ, e), Opening(d, c)'
          PROVE  Opening(d, c)
      <3>1. pc[c] # "idle"
        BY <1>1 DEF Control, Noticed
      <3>2. c # e
        BY <2>4, <3>1
      <3>3. CASE estQ'[d] = Append(estQ[d], e)
        <4>1. \A k \in DOMAIN estQ'[d] :
                 (k \in DOMAIN estQ[d] /\ estQ'[d][k] = estQ[d][k]) \/ estQ'[d][k] = e
          BY <1>0, <3>3, QueueAppend
        <4> QED
          BY <2>4, <3>2, <4>1 DEF Opening
      <3>4. CASE estQ'[d] = estQ[d]
        BY <2>4, <3>4 DEF Opening
      <3> QED
        BY <2>4, <3>3, <3>4 DEF ToAll
    <2>5. ASSUME NEW h \in Reverses, Crash(h) \/ HandleEstablished(h), h # d
          PROVE  estQ'[d] = estQ[d]
      <3>1. CASE Crash(h)
        BY <2>5, <3>1, CrashEffect
      <3>2. CASE HandleEstablished(h)
        <4>1. estQ' = [estQ EXCEPT ![h] = Tail(estQ[h])]
          BY <3>2, DialEffect
        <4> QED
          BY <1>0, <2>5, <4>1
      <3> QED
        BY <2>5, <3>1, <3>2
    <2>6. ASSUME Crash(d)
          PROVE  ~Opening(d, c)'
      BY <2>6, CrashEffect DEF Opening
    <2> QED
      BY <1>1, <2>1, <2>2, <2>3, <2>4, <2>5, <2>6, EstablishedEffect
  <1>2. ASSUME NEW d \in Reverses, NEW c \in Conns, c \in noticed, Alone(c),
               Closing(d, c), backend[<<d, c>>] = "open" \/ Opening(d, c),
               backend'[<<d, c>>] = "open" \/ Opening(d, c)'
        PROVE  Closing(d, c)' \/ <<d, c>> \in early'
    <2>1. CASE closedQ'[d] = closedQ[d]
      BY <1>2, <2>1 DEF Closing
    <2>2. CASE \E e \in Conns : NoticeClosed(key[e])
      <3>1. \A i \in DOMAIN closedQ[d] : i \in DOMAIN closedQ'[d] /\ closedQ'[d][i] = closedQ[d][i]
        BY <1>0, <2>2, NoticeEffect
      <3> QED
        BY <1>2, <3>1 DEF Closing
    <2>3. ~Crash(d)
      <3> SUFFICES ASSUME Crash(d)
                   PROVE  FALSE
        OBVIOUS
      <3>1. estQ'[d] = <<>> /\ backend'[<<d, c>>] # "open"
        BY CrashEffect
      <3> QED
        BY <1>2, <3>1 DEF Opening
    <2>4. ASSUME NEW h \in Reverses, Crash(h), h # d
          PROVE  closedQ'[d] = closedQ[d]
      BY <2>4, CrashEffect
    <2>5. ASSUME NEW h \in Reverses, HandleClosed(h), h # d
          PROVE  closedQ'[d] = closedQ[d]
      BY <1>0, <2>5, HandledNotice
    <2>6. CASE HandleClosed(d)
      <3>1. closedQ[d] # <<>> /\ closedQ'[d] = Tail(closedQ[d])
        BY <1>0, <2>6, HandledNotice
      <3>2. /\ Head(closedQ[d]) = closedQ[d][1]
            /\ \A k \in DOMAIN closedQ[d] :
                  k = 1 \/ (k - 1 \in DOMAIN closedQ'[d] /\ closedQ'[d][k - 1] = closedQ[d][k])
        BY <1>0, <3>1, QueueTail
      <3>3. CASE c = Head(closedQ[d])
        <4>1. SUFFICES ASSUME wsConns[d][reply[c]] # {},
                              \A e \in wsConns[d][reply[c]] : backend'[<<d, e>>] = "closed"
                       PROVE  FALSE
          BY <2>6, <3>3, HandledNotice
        <4>2. wsConns[d][reply[c]] \subseteq Conns /\ reply[c] \in Replies
          BY <1>0
        <4>3. \A e \in wsConns[d][reply[c]] : reply[e] = reply[c] /\ backend[<<d, e>>] # "none"
          BY <4>2 DEF Control, Table
        <4>4. c \in wsConns[d][reply[c]]
          BY <1>2, <4>1, <4>2, <4>3 DEF Alone
        <4>5. backend'[<<d, c>>] = "closed" /\ backend[<<d, c>>] # "none"
          BY <4>1, <4>3, <4>4
        <4>6. ~Opening(d, c)
          BY <4>5 DEF Control, AnnouncedOnce, Opening
        <4>7. ~Opening(d, c)'
          BY <2>6, <4>6, HandledNotice DEF Opening
        <4> QED
          BY <1>2, <4>5, <4>7
      <3>4. CASE c # Head(closedQ[d])
        BY <1>2, <3>2, <3>4 DEF Closing
      <3> QED
        BY <3>3, <3>4
    <2> QED
      BY <2>1, <2>2, <2>3, <2>4, <2>5, <2>6, ClosedQueueKept
  <1>3. ASSUME NEW d \in Reverses, NEW c \in Conns, c \in noticed' \ noticed,
               backend'[<<d, c>>] = "open" \/ Opening(d, c)'
        PROVE  Closing(d, c)'
    <2>1. PICK e \in Conns : (ReadError(e) \/ WriteFails(e)) /\ NoticeClosed(key[e])
      BY <1>3, ClosedQueueKept
    <2>2. estQ' = estQ /\ backend' = backend /\ up' = up
      BY <2>1 DEF ReadError, WriteFails, reverseVars, crashVars
    <2>3. d \in up
      <3> SUFFICES ASSUME d \notin up
                   PROVE  FALSE
        OBVIOUS
      <3>1. estQ'[d] = <<>> /\ backend'[<<d, c>>] # "open"
        BY <2>2 DEF Control, Down
      <3> QED
        BY <1>3, <3>1 DEF Opening
    <2>4. \A b \in noticed' \ noticed : \A h \in up : Closing(h, b)'
      BY <1>0, <2>1, NoticeEffect
    <2> QED
      BY <1>3, <2>3, <2>4
  <1>4. \A c \in Conns : Alone(c)' <=> Alone(c)
    BY <1>0 DEF Alone
  <1>5. ASSUME NEW d \in Reverses, NEW c \in Conns, c \in noticed', Alone(c),
               backend'[<<d, c>>] = "open" \/ Opening(d, c)'
        PROVE  Closing(d, c)' \/ <<d, c>> \in early'
    <2>1. CASE c \notin noticed
      BY <1>3, <1>5, <2>1
    <2>2. CASE c \in noticed
      <3>1. backend[<<d, c>>] = "open" \/ Opening(d, c)
        BY <1>1, <1>5, <2>2
      <3>2. Closing(d, c) \/ <<d, c>> \in early
        BY <1>5, <2>2, <3>1 DEF NoticeWorks
      <3> QED
        BY <1>0, <1>2, <1>5, <2>2, <3>1, <3>2
    <2> QED
      BY <2>1, <2>2
  <1> QED
    BY <1>0, <1>4, <1>5 DEF NoticeWorks

-------------------------------------------------------------------------------
(* What holds of the control messages.                                     *)

\* The inductive invariant.
ControlInv == TypeOK /\ Control /\ BackendsAreKnown /\ NoticeWorks

\* The initial states have it.
LEMMA InitControl == Init => ControlInv
  <1> SUFFICES ASSUME Init
               PROVE  ControlInv
    OBVIOUS
  <1>1. Noticed
    BY DEF Init, Noticed
  <1>2. AnnouncedOnce /\ Down
    BY DEF Init, AnnouncedOnce, Down
  <1>3. Table
    BY DEF Init, Table
  <1>4. ClosedFirst
    BY DEF Init, ClosedFirst
  <1>5. NoticeWorks
    BY DEF Init, NoticeWorks
  <1>6. reply \in [Conns -> Replies]
    BY TypeInit DEF TypeOK
  <1>7. BackendsAreKnown
    BY <1>6 DEF Init, BackendsAreKnown, KeyFor
  <1> QED
    BY <1>1, <1>2, <1>3, <1>4, <1>5, <1>7, TypeInit DEF ControlInv, Control

\* Every step keeps it.
LEMMA NextControl == ControlInv /\ [Next]_vars => ControlInv'
  <1> SUFFICES ASSUME ControlInv, [Next]_vars
               PROVE  ControlInv'
    OBVIOUS
  <1>1. TypeOK /\ Noticed /\ AnnouncedOnce /\ Down /\ Table /\ ClosedFirst
    BY DEF ControlInv, Control
  <1>2. TypeOK' /\ Noticed' /\ AnnouncedOnce' /\ Down' /\ Table' /\ ClosedFirst'
    BY <1>1, TypeStep, NoticedStep, AnnouncedOnceStep, DownStep, TableStep, ClosedFirstStep
  <1> QED
    BY <1>2, KnownStep, NoticeWorksStep DEF ControlInv, Control

\* The invariant holds always.
LEMMA ControlInvariance == Spec => []ControlInv
  BY InitControl, NextControl, PTL DEF Spec

\* A frame or a close notice finds the connection it is for.
THEOREM BackendsKnown == Spec => []BackendsAreKnown
  <1>1. ControlInv => BackendsAreKnown
    BY DEF ControlInv
  <1> QED
    BY <1>1, ControlInvariance, PTL

\* A connection that stays open after its close notice was handled is one whose
\* notice overtook the announcement.
THEOREM StrayIsOvertaken == Spec => []StrayWasOvertaken
  <1>1. ControlInv => StrayWasOvertaken
    BY DEF ControlInv, NoticeWorks, StrayWasOvertaken, TypeOK
  <1> QED
    BY <1>1, ControlInvariance, PTL

\* A backend is hung up on for a notice of its reply subject only, which the proxy
\* publishes only for a key whose client has left, could not be written to, or has sent
\* what ReadMessage refuses.
THEOREM HangUpHasCause == Spec => CloseIsCaused
  <1>1. ASSUME ControlInv, [Next]_vars, NEW d \in Reverses, NEW c \in Conns,
               backend[<<d, c>>] = "open", backend'[<<d, c>>] = "closed"
        PROVE  \/ d \notin up'
               \/ \E e \in gone \cup shut \cup broken, n \in noticed :
                     key[n] = key[e] /\ reply[n] = reply[c]
    <2>0. TypeOK /\ Table /\ Noticed
      BY <1>1 DEF ControlInv, Control
    <2>1. CASE Crash(d)
      BY <2>0, <2>1, CrashEffect
    <2>2. CASE HandleClosed(d) /\ c \in wsConns[d][KeyFor(Head(closedQ[d]))]
      <3>1. reply[c] = reply[Head(closedQ[d])]
        BY <2>0, <2>2, ClosedWasDialled
      <3>2. closedQ[d] \in Seq(Conns) /\ closedQ[d] # <<>>
        BY <2>0, <2>2, HandledNotice DEF TypeOK
      <3>3. Head(closedQ[d]) = closedQ[d][1] /\ 1 \in DOMAIN closedQ[d]
        BY <3>2, QueueTail
      <3>4. Head(closedQ[d]) \in noticed
        BY <2>0, <3>3 DEF Noticed
      <3> QED
        BY <2>0, <3>1, <3>4 DEF Noticed
    <2> QED
      BY <1>1, <2>0, <2>1, <2>2, BackendEffect
  <1>2. ControlInv /\ [Next]_vars =>
            [\A d \in Reverses, c \in Conns :
                backend[<<d, c>>] = "open" /\ backend'[<<d, c>>] = "closed" =>
                   \/ d \notin up'
                   \/ \E e \in gone \cup shut \cup broken, n \in noticed :
                         key[n] = key[e] /\ reply[n] = reply[c]]_vars
    BY <1>1
  <1> QED
    BY <1>2, ControlInvariance, PTL DEF Spec, CloseIsCaused

================================================================================
