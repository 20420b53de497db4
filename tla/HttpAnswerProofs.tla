---------------------------- MODULE HttpAnswerProofs ----------------------------
(* What a client of the HTTP path is answered with: proofs about HttpTunnel, *)
(* for every value of its constants, on top of the order of replies; and that *)
(* the HTTP path implements ReplyStream: every step of HttpTunnel is a post,  *)
(* a receive or an abandonment of one exchange, or changes no exchange.       *)
EXTENDS HttpTunnelProofs, SequenceTheorems

-------------------------------------------------------------------------------
(* What a step does to the replies on their way.                           *)

\* A published reply is the last of its stream and of the inbox.
LEMMA PublishReplyEffect ==
    ASSUME IInv, NEW r \in Requests, NEW m \in Reply, PublishReply(r, m), r \notin PublishOnly
    PROVE  /\ Len(stream[r]) \in Nat
           /\ Len(stream'[r]) = Len(stream[r]) + 1
           /\ stream'[r][Len(stream[r]) + 1] = m
           /\ \A p \in 1..Len(stream[r]) : stream'[r][p] = stream[r][p]
           /\ \A x \in Requests \ {r} : stream'[x] = stream[x]
           /\ DOMAIN inbox = 1..Len(inbox) /\ Len(inbox) \in Nat
           /\ DOMAIN inbox' = 1..(Len(inbox) + 1)
           /\ \A i \in DOMAIN inbox : inbox'[i] = inbox[i]
           /\ inbox'[Len(inbox) + 1] = [req |-> r, at |-> Len(stream[r]) + 1]
  <1>1. TypeOK
    BY DEF IInv
  <1>2. stream[r] \in Seq(Reply) /\ stream'[r] = Append(stream[r], m)
    BY <1>1 DEF TypeOK, PublishReply
  <1>3. \A x \in Requests \ {r} : stream'[x] = stream[x]
    BY <1>1 DEF TypeOK, PublishReply
  <1>4. /\ inbox \in Seq(Envelope)
        /\ inbox' = Append(inbox, [req |-> r, at |-> Len(stream[r]) + 1])
    BY <1>1 DEF TypeOK, PublishReply
  <1>5. /\ DOMAIN inbox = 1..Len(inbox) /\ Len(inbox) \in Nat
        /\ DOMAIN inbox' = 1..(Len(inbox) + 1)
        /\ \A i \in DOMAIN inbox : inbox'[i] = inbox[i]
        /\ inbox'[Len(inbox) + 1] = [req |-> r, at |-> Len(stream[r]) + 1]
    BY <1>4
  <1> QED
    BY <1>2, <1>3, <1>5

\* A reply is published while nothing else about replies changes.
Post(r, m) == r \notin PublishOnly /\ PublishReply(r, m) /\ UNCHANGED <<chan, lost, taken>>

\* The oldest reply of the inbox is sent to its handler, or discarded.
Arrive ==
    /\ inbox # <<>>
    /\ inbox' = Tail(inbox)
    /\ \/ /\ HasRoom(Head(inbox))
          /\ chan' = [chan EXCEPT ![Head(inbox).req] = Append(@, Head(inbox))]
          /\ UNCHANGED lost
       \/ /\ LossyInbox \/ Head(inbox).req \notin pending \/ ~HasRoom(Head(inbox))
          /\ Discard(Head(inbox))
          /\ UNCHANGED chan
    /\ UNCHANGED <<stream, handlerVars, responderVars>>

\* No reply moves.
Still == UNCHANGED <<stream, inbox, chan, lost, taken>>

\* What a responder publishes for the request it serves is a reply to a request, which
\* moves unless the request is PublishOnly.
LEMMA AnswerPosts ==
    ASSUME IInv, NEW d \in Responders, Serving(d),
           NEW kind \in Kinds, NEW head \in Heads, Answer(d, kind, head),
           UNCHANGED <<chan, lost, taken>>
    PROVE  /\ Head(queue[d]) \in Requests
           /\ [kind |-> kind, head |-> head, from |-> d] \in Reply
           /\ \/ Head(queue[d]) \in PublishOnly /\ Still
              \/ Post(Head(queue[d]), [kind |-> kind, head |-> head, from |-> d])
  <1>1. queue[d] \in Seq(Requests) /\ queue[d] # <<>>
    BY DEF IInv, TypeOK, Serving
  <1>2. Head(queue[d]) \in Requests /\ [kind |-> kind, head |-> head, from |-> d] \in Reply
    BY <1>1 DEF Reply
  <1>3. CASE Head(queue[d]) \in PublishOnly
    BY <1>2, <1>3 DEF Answer, PublishReply, Still
  <1>4. CASE Head(queue[d]) \notin PublishOnly
    BY <1>2, <1>4 DEF Answer, Post
  <1> QED
    BY <1>2, <1>3, <1>4

\* A step of a responder publishes a reply to the request it serves, or moves none.
LEMMA ResponderFlow ==
    ASSUME IInv, NEW d \in Responders, ResponderStep(d) \/ Crash(d) \/ Restart(d)
    PROVE  /\ UNCHANGED handlerVars
           /\ \/ Still
              \/ /\ Serving(d) /\ Head(queue[d]) \in Requests
                 /\ \E m \in Reply : /\ m.from = d
                                     /\ d \in Reverses => m.kind = "cut" \/ m.head # "none" \/ sentChunks[d] > 0
                                     /\ Post(Head(queue[d]), m)
  <1>1. HeadOf(d) \in Heads /\ "none" \in Heads /\ {"502", "400"} \subseteq Heads
    BY DEF HeadOf, Heads
  <1>2. {"error", "chunk", "eof", "cut", "single", "term"} \subseteq Kinds
    BY DEF Kinds
  <1>3. UNCHANGED handlerVars
    BY DEF ResponderStep, AnswerError, AnswerNothing, BackendAnswers, ReadChunk, ReadEOF,
           ReadError, ServicePublish, ServiceReturn, Crash, Restart
  <1>4. UNCHANGED taken
    BY <1>3 DEF handlerVars
  <1>5. sentChunks[d] \in Nat
    BY ConfigAssumption DEF IInv, TypeOK
  <1>6. d \in Services => d \notin Reverses
    BY ConfigAssumption
  <1>7. ASSUME NEW kind \in Kinds, NEW head \in Heads, Serving(d), Answer(d, kind, head),
               UNCHANGED <<chan, lost>>,
               d \in Reverses => kind = "cut" \/ head # "none" \/ sentChunks[d] > 0
        PROVE  \/ Still
               \/ /\ Serving(d) /\ Head(queue[d]) \in Requests
                  /\ \E m \in Reply : /\ m.from = d
                                      /\ d \in Reverses => m.kind = "cut" \/ m.head # "none" \/ sentChunks[d] > 0
                                      /\ Post(Head(queue[d]), m)
    <2> DEFINE m == [kind |-> kind, head |-> head, from |-> d]
    <2>1. Head(queue[d]) \in Requests /\ m \in Reply /\ (Still \/ Post(Head(queue[d]), m))
      BY <1>4, <1>7, AnswerPosts
    <2>2. m.from = d /\ m.kind = kind /\ m.head = head
      OBVIOUS
    <2> QED
      BY <1>7, <2>1, <2>2
  <1>8. CASE AnswerError(d)
    <2>1. PICK code \in {"502", "400"} : Answer(d, "error", code)
      BY <1>8 DEF AnswerError
    <2> QED
      BY <1>1, <1>2, <1>3, <1>7, <1>8, <2>1 DEF AnswerError
  <1>9. CASE AnswerNothing(d) \/ BackendAnswers(d) \/ Crash(d) \/ Restart(d)
    BY <1>3, <1>4, <1>9 DEF AnswerNothing, BackendAnswers, Crash, Restart, natsVars, Still
  <1>10. CASE ReadChunk(d)
    <2>1. PICK kind \in {"chunk", "term"} : Answer(d, kind, HeadOf(d))
      BY <1>10 DEF ReadChunk
    <2>2. HeadOf(d) # "none" \/ sentChunks[d] > 0
      BY <1>5 DEF HeadOf
    <2> QED
      BY <1>1, <1>2, <1>3, <1>7, <1>10, <2>1, <2>2 DEF ReadChunk
  <1>11. CASE ReadEOF(d)
    <2>1. HeadOf(d) # "none" \/ sentChunks[d] > 0
      BY <1>5 DEF HeadOf
    <2> QED
      BY <1>1, <1>2, <1>3, <1>7, <1>11, <2>1 DEF ReadEOF
  <1>12. CASE ReadError(d)
    BY <1>1, <1>2, <1>3, <1>7, <1>12 DEF ReadError
  <1>13. CASE ServicePublish(d)
    <2>1. {"none", "backend"} \subseteq Heads
      BY DEF Heads
    <2> QED
      BY <1>2, <1>3, <1>6, <1>7, <1>13, <2>1 DEF ServicePublish
  <1>14. CASE ServiceReturn(d)
    BY <1>3, <1>4, <1>14 DEF ServiceReturn, natsVars, Still
  <1> QED
    BY <1>8, <1>9, <1>10, <1>11, <1>12, <1>13, <1>14 DEF ResponderStep

\* The request of a handler is published: the server answers it if nobody else does.
LEMMA RouteFlow ==
    ASSUME IInv, NEW r \in Requests, RouteRequest(r), UNCHANGED <<chan, lost, taken>>
    PROVE  Still \/ \E m \in Reply : m.head # "none" /\ Post(r, m)
  <1>1. CASE UNCHANGED <<stream, inbox>>
    BY <1>1 DEF Still
  <1>2. CASE /\ r \notin PublishOnly
             /\ PublishReply(r, [kind |-> "noResponders", head |-> "503", from |-> Server])
    BY <1>2 DEF Post, Reply, Kinds, Heads
  <1> QED
    BY <1>1, <1>2 DEF RouteRequest, PublishReply

\* The steps of a handler other than a receive.
Local(r) ==
    \/ Reject(r) \/ Register(r) \/ PublishFails(r) \/ ObserveGone(r) \/ Timeout(r)
    \/ Unregister(r) \/ PublishClosed(r) \/ ClientGone(r)

\* They leave the replies on their way and the responders alone.
LEMMA LocalFlow ==
    ASSUME NEW r \in Requests, Local(r)
    PROVE  Still /\ UNCHANGED responderVars
  BY DEF Local, Reject, Register, PublishFails, ObserveGone, Timeout, Unregister, PublishClosed,
     ClientGone, natsVars, Still

\* The callback of the reply subscription: a lookup that finds the channel moves nothing.
LEMMA ArriveFlow ==
    ASSUME IInv, Dispatch \/ LoseReply
    PROVE  Arrive \/ Still
  <1>1. CASE Load
    BY <1>1 DEF Load, Arrive, Still, handlerVars
  <1>2. CASE Offer
    BY <1>2 DEF Offer, Arrive, Send
  <1>3. CASE LoseReply
    BY <1>3 DEF LoseReply, Arrive
  <1> QED
    BY <1>1, <1>2, <1>3 DEF Dispatch

\* The server answers for a request that is just being published, a responder for the
\* one it serves; a message of h8srd without a header is not its first, or follows a
\* read error.
ServerPosts ==
    \E r \in Requests, m \in Reply :
        (ForwardOnly(r) \/ Publish(r)) /\ m.head # "none" /\ Post(r, m)
ResponderPosts ==
    \E d \in Responders, m \in Reply :
        /\ ResponderStep(d) /\ Serving(d) /\ Head(queue[d]) \in Requests
        /\ m.from = d
        /\ d \in Reverses => m.kind = "cut" \/ m.head # "none" \/ sentChunks[d] > 0
        /\ Post(Head(queue[d]), m)

\* Every step publishes one reply, or lets one arrive, or hands one to its handler, or
\* moves none.
LEMMA StepFlow ==
    ASSUME IInv, [Next]_vars
    PROVE  \/ Still
           \/ Arrive
           \/ \E r \in Requests : Receive(r)
           \/ ServerPosts
           \/ ResponderPosts
  <1>1. ASSUME NEW r \in Requests, Local(r)
        PROVE  Still
    BY <1>1, LocalFlow
  <1>2. ASSUME NEW r \in Requests, ForwardOnly(r) \/ Publish(r)
        PROVE  Still \/ ServerPosts
    <2>1. UNCHANGED <<chan, lost, taken>>
      BY <1>2 DEF ForwardOnly, Publish
    <2>2. CASE RouteRequest(r)
      BY <1>2, <2>1, <2>2, RouteFlow DEF ServerPosts
    <2>3. CASE UNCHANGED <<stream, inbox>>
      BY <2>1, <2>3 DEF Still
    <2> QED
      BY <1>2, <2>2, <2>3 DEF ForwardOnly, Publish
  <1>3. ASSUME NEW r \in Requests, TakeData(r) \/ TakeDataWriteFails(r) \/ TakeEnd(r)
        PROVE  Receive(r)
    BY <1>3 DEF TakeData, TakeDataWriteFails, TakeEnd
  <1>4. CASE Dispatch \/ LoseReply
    BY <1>4, ArriveFlow
  <1>5. ASSUME NEW d \in Responders, ResponderStep(d)
        PROVE  Still \/ ResponderPosts
    BY <1>5, ResponderFlow DEF ResponderPosts
  <1>6. ASSUME NEW d \in Responders, Crash(d) \/ Restart(d)
        PROVE  Still
    BY <1>6 DEF Crash, Restart, natsVars, handlerVars, Still
  <1>7. CASE UNCHANGED vars
    BY <1>7 DEF vars, handlerVars, natsVars, Still
  <1>8. CASE \E r \in Requests :
                \/ Reject(r) \/ ForwardOnly(r) \/ Register(r) \/ ClientGone(r)
                \/ HandlerStep(r)
    BY <1>1, <1>2, <1>3, <1>8 DEF HandlerStep, Local
  <1> QED
    BY <1>4, <1>5, <1>6, <1>7, <1>8 DEF Next

\* What was published stays published.
LEMMA StreamGrows ==
    ASSUME IInv, [Next]_vars
    PROVE  \A x \in Requests :
              /\ Len(stream[x]) \in Nat /\ Len(stream'[x]) \in Nat
              /\ Len(stream[x]) <= Len(stream'[x])
              /\ stream[x] # <<>> => stream'[x] # <<>>
              /\ \A p \in 1..Len(stream[x]) : stream'[x][p] = stream[x][p]
  <1>1. IInv'
    BY NextInv
  <1>2. \A x \in Requests : stream[x] \in Seq(Reply) /\ stream'[x] \in Seq(Reply)
    BY <1>1 DEF IInv, TypeOK
  <1>3. \A x \in Requests : Len(stream[x]) \in Nat /\ Len(stream'[x]) \in Nat
    BY <1>2
  <1>4. CASE UNCHANGED stream
    BY <1>2, <1>3, <1>4
  <1>5. ASSUME NEW r \in Requests, NEW m \in Reply, Post(r, m)
        PROVE  \A x \in Requests :
                  /\ Len(stream[x]) <= Len(stream'[x])
                  /\ \A p \in 1..Len(stream[x]) : stream'[x][p] = stream[x][p]
    <2>1. /\ Len(stream'[r]) = Len(stream[r]) + 1
          /\ \A p \in 1..Len(stream[r]) : stream'[r][p] = stream[r][p]
          /\ \A x \in Requests \ {r} : stream'[x] = stream[x]
      BY <1>5, PublishReplyEffect DEF Post
    <2> SUFFICES ASSUME NEW x \in Requests
                 PROVE  /\ Len(stream[x]) <= Len(stream'[x])
                        /\ \A p \in 1..Len(stream[x]) : stream'[x][p] = stream[x][p]
      OBVIOUS
    <2>2. CASE x = r
      BY <1>3, <2>1, <2>2
    <2>3. CASE x # r
      BY <1>3, <2>1, <2>3
    <2> QED
      BY <2>2, <2>3
  <1>6. \A x \in Requests :
           /\ Len(stream[x]) <= Len(stream'[x])
           /\ \A p \in 1..Len(stream[x]) : stream'[x][p] = stream[x][p]
    BY <1>3, <1>4, <1>5, StepFlow DEF Still, Arrive, Receive, ServerPosts, ResponderPosts
  <1>7. \A x \in Requests : stream[x] # <<>> => stream'[x] # <<>>
    <2> SUFFICES ASSUME NEW x \in Requests, stream[x] # <<>>
                 PROVE  stream'[x] # <<>>
      OBVIOUS
    <2>1. Len(stream[x]) >= 1
      BY <1>2
    <2> QED
      BY <1>2, <1>6, <2>1
  <1> QED
    BY <1>3, <1>6, <1>7

-------------------------------------------------------------------------------
(* The handler: where it is, and what it has written and registered.       *)

\* What a handler has done at each place.
Phases ==
    \A r \in Requests :
        /\ r \in pending <=> pc[r] \in {"registered", "waiting", "unregister"}
        /\ r \in PublishOnly => r \notin pending
        /\ closed[r] # "none" => pc[r] = "done"
        /\ ~Over(r) => /\ reason[r] = "completed"
                       /\ r \notin errorPage
                       /\ status[r] \notin {"403", "404"}
        /\ pc[r] \in {"idle", "registered"} => status[r] = "none"
        /\ status[r] = "none" \/ r \in errorPage => taken[r] = <<>>

\* The message a handler takes is a reply published for its request, and it decides the
\* status if nothing has been written.
LEMMA ReceiveStatus ==
    ASSUME IInv, NEW r \in Requests, Receive(r)
    PROVE  /\ Head(chan[r]) = chan[r][1] /\ 1 \in DOMAIN chan[r]
           /\ Head(chan[r]).req = r /\ Head(chan[r]).at \in 1..Len(stream[r])
           /\ Msg(Head(chan[r])) = stream[r][Head(chan[r]).at]
           /\ Msg(Head(chan[r])) \in Reply
           /\ status'[r] = StatusAfter(r, Msg(Head(chan[r])))
           /\ status'[r] # "none"
           /\ status'[r] \in {"403", "404"} => status'[r] = status[r]
           /\ status' = [status EXCEPT ![r] = status'[r]]
           /\ taken' = [taken EXCEPT ![r] = Append(taken[r], Head(chan[r]))]
           /\ taken'[r] # <<>>
  <1>1. TypeOK /\ Published
    BY DEF IInv
  <1>2. chan[r] \in Seq(Envelope) /\ chan[r] # <<>> /\ stream[r] \in Seq(Reply)
    BY <1>1 DEF TypeOK, Receive
  <1>3. Head(chan[r]) = chan[r][1] /\ 1 \in DOMAIN chan[r] /\ Head(chan[r]) \in Envelope
    BY <1>2
  <1>4. Head(chan[r]).req = r /\ Head(chan[r]).at \in 1..Len(stream[r])
    BY <1>1, <1>2, <1>3 DEF Published, InFlight, Envelope
  <1>5. Msg(Head(chan[r])) = stream[r][Head(chan[r]).at] /\ Msg(Head(chan[r])) \in Reply
    BY <1>2, <1>4 DEF Msg
  <1>6. status' = [status EXCEPT ![r] = StatusAfter(r, Msg(Head(chan[r])))]
    BY DEF Receive
  <1>7. status'[r] = StatusAfter(r, Msg(Head(chan[r]))) /\ status' = [status EXCEPT ![r] = status'[r]]
    BY <1>1, <1>6 DEF TypeOK
  <1>8. status'[r] # "none" /\ (status'[r] \in {"403", "404"} => status'[r] = status[r])
    BY <1>5, <1>7 DEF StatusAfter, WroteHeaders, Reply, Heads
  <1>9. taken' = [taken EXCEPT ![r] = Append(taken[r], Head(chan[r]))]
    BY DEF Receive
  <1>10. taken'[r] # <<>>
    <2>1. taken[r] \in Seq(Envelope) /\ taken'[r] = Append(taken[r], Head(chan[r]))
      BY <1>1, <1>9 DEF TypeOK
    <2> QED
      BY <1>3, <2>1
  <1> QED
    BY <1>3, <1>4, <1>5, <1>7, <1>8, <1>9, <1>10

\* What a handler does to its own variables is not seen by other handlers.
LEMMA PhasesStep == IInv /\ Phases /\ [Next]_vars => Phases'
  <1> SUFFICES ASSUME IInv, Phases, [Next]_vars
               PROVE  Phases'
    OBVIOUS
  <1>1. TypeOK
    BY DEF IInv
  <1>2. ASSUME UNCHANGED handlerVars
        PROVE  Phases'
    BY <1>2 DEF Phases, handlerVars, Over
  <1>3. ASSUME NEW r \in Requests, Reject(r)
        PROVE  Phases'
    BY <1>1, <1>3 DEF Phases, Reject, Over, TypeOK
  <1>4. ASSUME NEW r \in Requests, ForwardOnly(r)
        PROVE  Phases'
    BY <1>1, <1>4 DEF Phases, ForwardOnly, Over, TypeOK
  <1>5. ASSUME NEW r \in Requests, Register(r) \/ Publish(r)
        PROVE  Phases'
    <2>1. CASE Register(r)
      BY <1>1, <2>1 DEF Phases, Register, Over, TypeOK
    <2>2. CASE Publish(r)
      BY <1>1, <2>2 DEF Phases, Publish, Over, TypeOK
    <2> QED
      BY <1>5, <2>1, <2>2
  <1>6. ASSUME NEW r \in Requests, PublishFails(r) \/ ObserveGone(r) \/ Timeout(r)
        PROVE  Phases'
    <2>1. CASE PublishFails(r)
      BY <1>1, <2>1 DEF Phases, PublishFails, Over, TypeOK
    <2>2. CASE ObserveGone(r)
      BY <1>1, <2>2 DEF Phases, ObserveGone, ReturnBecause, Over, TypeOK
    <2>3. CASE Timeout(r)
      BY <1>1, <2>3 DEF Phases, Timeout, TimerMayFire, ReturnBecause, WroteHeaders, Over, TypeOK
    <2> QED
      BY <1>6, <2>1, <2>2, <2>3
  <1>7. ASSUME NEW r \in Requests, TakeData(r) \/ TakeDataWriteFails(r) \/ TakeEnd(r)
        PROVE  Phases'
    <2>1. Receive(r)
      BY <1>7 DEF TakeData, TakeDataWriteFails, TakeEnd
    <2>2. /\ status'[r] # "none"
          /\ status'[r] \in {"403", "404"} => status'[r] = status[r]
          /\ \A x \in Requests \ {r} : status'[x] = status[x] /\ taken'[x] = taken[x]
      BY <1>1, <2>1, ReceiveStatus DEF TypeOK
    <2>3. pc[r] = "waiting" /\ UNCHANGED <<pending, closed, errorPage>>
      BY <2>1 DEF Receive
    <2>4. /\ pc'[r] \in {"waiting", "unregister"}
          /\ pc'[r] = "waiting" => reason'[r] = reason[r]
          /\ \A x \in Requests \ {r} : pc'[x] = pc[x] /\ reason'[x] = reason[x]
      BY <1>1, <1>7, <2>3 DEF TakeData, TakeDataWriteFails, TakeEnd, ReturnBecause, TypeOK
    <2> SUFFICES ASSUME NEW x \in Requests
                 PROVE  /\ x \in pending' <=> pc'[x] \in {"registered", "waiting", "unregister"}
                        /\ x \in PublishOnly => x \notin pending'
                        /\ closed'[x] # "none" => pc'[x] = "done"
                        /\ ~Over(x)' => /\ reason'[x] = "completed"
                                       /\ x \notin errorPage'
                                       /\ status'[x] \notin {"403", "404"}
                        /\ pc'[x] \in {"idle", "registered"} => status'[x] = "none"
                        /\ status'[x] = "none" \/ x \in errorPage' => taken'[x] = <<>>
      BY DEF Phases
    <2>5. CASE x = r
      BY <2>2, <2>3, <2>4, <2>5 DEF Phases, Over
    <2>6. CASE x # r
      BY <2>2, <2>3, <2>4, <2>6 DEF Phases, Over
    <2> QED
      BY <2>5, <2>6
  <1>8. ASSUME NEW r \in Requests, Unregister(r) \/ PublishClosed(r) \/ ClientGone(r)
        PROVE  Phases'
    <2>1. CASE Unregister(r)
      BY <1>1, <2>1 DEF Phases, Unregister, Delete, Over, TypeOK
    <2>2. CASE PublishClosed(r)
      BY <1>1, <2>2 DEF Phases, PublishClosed, Over, TypeOK
    <2>3. CASE ClientGone(r)
      BY <1>1, <2>3 DEF Phases, ClientGone, Over
    <2> QED
      BY <1>8, <2>1, <2>2, <2>3
  <1>9. CASE Dispatch \/ LoseReply
    BY <1>2, <1>9 DEF Dispatch, Load, Offer, LoseReply
  <1>10. ASSUME NEW d \in Responders, ResponderStep(d) \/ Crash(d) \/ Restart(d)
         PROVE  Phases'
    BY <1>2, <1>10, ResponderFlow
  <1>11. CASE UNCHANGED vars
    BY <1>2, <1>11 DEF vars
  <1> QED
    BY <1>3, <1>4, <1>5, <1>6, <1>7, <1>8, <1>9, <1>10, <1>11 DEF Next, HandlerStep

\* The steps after which handlers have received and written what they had before.
LEMMA QuietStep ==
    ASSUME IInv, Phases, [Next]_vars
    PROVE  \/ /\ UNCHANGED <<taken, body>>
              /\ \A x \in Requests : reason'[x] = "write_error" <=> reason[x] = "write_error"
           \/ \E r \in Requests : TakeData(r) \/ TakeDataWriteFails(r) \/ TakeEnd(r)
  <1>1. TypeOK
    BY DEF IInv
  <1>2. CASE UNCHANGED <<taken, body, reason>>
    BY <1>2
  <1>3. ASSUME NEW r \in Requests, ObserveGone(r) \/ Timeout(r)
        PROVE  /\ UNCHANGED <<taken, body>>
               /\ \A x \in Requests : reason'[x] = "write_error" <=> reason[x] = "write_error"
    <2>1. UNCHANGED <<taken, body>> /\ pc[r] = "waiting"
      BY <1>3 DEF ObserveGone, Timeout, TimerMayFire
    <2>2. reason[r] = "completed"
      BY <2>1 DEF Phases, Over
    <2>3. \A x \in Requests : reason'[x] = IF x = r THEN reason'[r] ELSE reason[x]
      BY <1>1, <1>3 DEF ObserveGone, Timeout, ReturnBecause, TypeOK
    <2>4. reason'[r] # "write_error"
      BY <1>1, <1>3 DEF ObserveGone, Timeout, ReturnBecause, TypeOK
    <2> QED
      BY <2>1, <2>2, <2>3, <2>4
  <1>4. ASSUME NEW r \in Requests,
               \/ Reject(r) \/ ForwardOnly(r) \/ Register(r) \/ ClientGone(r)
               \/ Publish(r) \/ PublishFails(r) \/ Unregister(r) \/ PublishClosed(r)
        PROVE  UNCHANGED <<taken, body, reason>>
    BY <1>4 DEF Reject, ForwardOnly, Register, ClientGone, Publish, PublishFails, Unregister,
       PublishClosed
  <1>5. CASE Dispatch \/ LoseReply \/ UNCHANGED vars
    BY <1>5 DEF Dispatch, Load, Offer, LoseReply, vars, handlerVars
  <1>6. ASSUME NEW d \in Responders, ResponderStep(d) \/ Crash(d) \/ Restart(d)
        PROVE  UNCHANGED <<taken, body, reason>>
    BY <1>6, ResponderFlow DEF handlerVars
  <1> QED
    BY <1>2, <1>3, <1>4, <1>5, <1>6 DEF Next, HandlerStep

\* A published reply does not change.
LEMMA ReplyStable ==
    ASSUME IInv, [Next]_vars, NEW e \in Envelope, e.at <= Len(stream[e.req])
    PROVE  stream'[e.req][e.at] = stream[e.req][e.at]
  <1>1. e.req \in Requests /\ e.at \in Nat \ {0}
    BY DEF Envelope
  <1> QED
    BY <1>1, StreamGrows

-------------------------------------------------------------------------------
(* The body.                                                               *)

IsData(e) == Msg(e).kind \in {"chunk", "error", "single"}

\* The body is the data among what the handler took, in that order, unless a write
\* failed and the rest is missing.
Bodies ==
    \A r \in Requests :
        /\ Increasing(body[r])
        /\ \A j \in DOMAIN body[r] :
              IsData(body[r][j]) /\ \E i \in DOMAIN taken[r] : taken[r][i] = body[r][j]
        /\ reason[r] # "write_error" =>
              \A i \in DOMAIN taken[r] :
                  IsData(taken[r][i]) => \E j \in DOMAIN body[r] : body[r][j] = taken[r][i]

\* What a receive appends to taken, and to the body if it is written.
LEMMA TakeEffect ==
    ASSUME IInv, NEW r \in Requests, Receive(r)
    PROVE  LET e == chan[r][1]
           IN /\ UNCHANGED stream
              /\ e \in Envelope
              /\ \A x \in Requests \ {r} : taken'[x] = taken[x]
              /\ Len(taken[r]) \in Nat /\ DOMAIN taken[r] = 1..Len(taken[r])
              /\ Len(taken'[r]) = Len(taken[r]) + 1
              /\ DOMAIN taken'[r] = 1..(Len(taken[r]) + 1)
              /\ \A i \in DOMAIN taken[r] : taken'[r][i] = taken[r][i]
              /\ taken'[r][Len(taken[r]) + 1] = e
              /\ \A i \in DOMAIN taken[r] : taken[r][i].at < e.at
              /\ Incoming(r) = Msg(e).kind
              /\ Last(taken'[r]) = e
  <1> DEFINE e == chan[r][1]
  <1>1. TypeOK /\ Ordered
    BY DEF IInv
  <1>2. /\ e = Head(chan[r]) /\ 1 \in DOMAIN chan[r]
        /\ taken' = [taken EXCEPT ![r] = Append(taken[r], e)]
    BY ReceiveStatus
  <1>3. taken[r] \in Seq(Envelope) /\ e \in Envelope
    BY <1>1, <1>2 DEF TypeOK
  <1>4. taken'[r] = Append(taken[r], e) /\ \A x \in Requests \ {r} : taken'[x] = taken[x]
    BY <1>1, <1>2 DEF TypeOK
  <1>5. \A i \in DOMAIN taken[r] : taken[r][i].at < e.at
    BY <1>1, <1>2 DEF Ordered
  <1>6. Incoming(r) = Msg(e).kind
    BY <1>2 DEF Incoming
  <1>7. UNCHANGED stream
    BY DEF Receive
  <1> HIDE DEF e
  <1>8. /\ Len(taken[r]) \in Nat /\ DOMAIN taken[r] = 1..Len(taken[r])
        /\ Len(taken'[r]) = Len(taken[r]) + 1
        /\ DOMAIN taken'[r] = 1..(Len(taken[r]) + 1)
        /\ \A i \in DOMAIN taken[r] : taken'[r][i] = taken[r][i]
        /\ taken'[r][Len(taken[r]) + 1] = e
    BY <1>3, <1>4
  <1>9. Last(taken'[r]) = e
    BY <1>8 DEF Last
  <1> QED
    BY <1>3, <1>4, <1>5, <1>6, <1>7, <1>8, <1>9 DEF e

\* A step keeps the body the data of what was taken.
LEMMA BodiesStep == IInv /\ Phases /\ Bodies /\ [Next]_vars => Bodies'
  <1> SUFFICES ASSUME IInv, Phases, Bodies, [Next]_vars
               PROVE  Bodies'
    OBVIOUS
  <1>1. TypeOK /\ Published
    BY DEF IInv
  <1>2. \A x \in Requests : \A i \in DOMAIN taken[x] : IsData(taken[x][i]) =>
           stream'[taken[x][i].req][taken[x][i].at].kind \in {"chunk", "error", "single"}
    <2> SUFFICES ASSUME NEW x \in Requests, NEW i \in DOMAIN taken[x], IsData(taken[x][i])
                 PROVE  stream'[taken[x][i].req][taken[x][i].at].kind \in {"chunk", "error", "single"}
      OBVIOUS
    <2>1. taken[x][i] \in Envelope
      BY <1>1 DEF TypeOK
    <2>2. taken[x][i].at <= Len(stream[taken[x][i].req])
      BY <1>1 DEF Published, InFlight
    <2> QED
      BY <2>1, <2>2, ReplyStable DEF IsData, Msg
  <1>3. ASSUME NEW x \in Requests, NEW i \in DOMAIN taken[x],
               stream'[taken[x][i].req][taken[x][i].at].kind \in {"chunk", "error", "single"}
        PROVE  IsData(taken[x][i])
    <2>1. taken[x][i] \in Envelope
      BY <1>1 DEF TypeOK
    <2>2. taken[x][i].at <= Len(stream[taken[x][i].req])
      BY <1>1 DEF Published, InFlight
    <2> QED
      BY <1>3, <2>1, <2>2, ReplyStable DEF IsData, Msg
  <1>4. CASE /\ UNCHANGED <<taken, body>>
             /\ \A x \in Requests : reason'[x] = "write_error" <=> reason[x] = "write_error"
    <2> SUFFICES ASSUME NEW r \in Requests
                 PROVE  /\ Increasing(body[r])
                        /\ \A j \in DOMAIN body[r] :
                              IsData(body[r][j])' /\ \E i \in DOMAIN taken[r] : taken[r][i] = body[r][j]
                        /\ reason'[r] # "write_error" =>
                              \A i \in DOMAIN taken[r] :
                                 IsData(taken[r][i])' => \E j \in DOMAIN body[r] : body[r][j] = taken[r][i]
      BY <1>4 DEF Bodies, Increasing
    <2>1. \A j \in DOMAIN body[r] : IsData(body[r][j])'
      BY <1>2, <1>4 DEF Bodies, IsData, Msg
    <2>2. reason'[r] # "write_error" =>
             \A i \in DOMAIN taken[r] :
                 IsData(taken[r][i])' => \E j \in DOMAIN body[r] : body[r][j] = taken[r][i]
      BY <1>3, <1>4 DEF Bodies, IsData, Msg
    <2> QED
      BY <2>1, <2>2 DEF Bodies
  <1>5. ASSUME NEW r \in Requests, TakeData(r) \/ TakeDataWriteFails(r) \/ TakeEnd(r)
        PROVE  Bodies'
    <2> DEFINE e == chan[r][1]
    <2>1. Receive(r) /\ e = Head(chan[r])
      BY <1>5, ReceiveStatus DEF TakeData, TakeDataWriteFails, TakeEnd
    <2>2. /\ UNCHANGED stream
          /\ \A x \in Requests \ {r} : taken'[x] = taken[x]
          /\ Len(taken[r]) \in Nat /\ DOMAIN taken[r] = 1..Len(taken[r])
          /\ DOMAIN taken'[r] = 1..(Len(taken[r]) + 1)
          /\ \A i \in DOMAIN taken[r] : taken'[r][i] = taken[r][i]
          /\ taken'[r][Len(taken[r]) + 1] = e
          /\ \A i \in DOMAIN taken[r] : taken[r][i].at < e.at
          /\ Incoming(r) = Msg(e).kind
          /\ e \in Envelope
      BY <2>1, TakeEffect
    <2>3. \A x \in Requests \ {r} : body'[x] = body[x] /\ reason'[x] = reason[x]
      BY <1>1, <1>5 DEF TakeData, TakeDataWriteFails, TakeEnd, Write, ReturnBecause, TypeOK
    <2>4. /\ body[r] \in Seq(Envelope)
          /\ \A j \in DOMAIN body[r] : \E i \in DOMAIN taken[r] : taken[r][i] = body[r][j]
          /\ Increasing(body[r])
      BY <1>1 DEF TypeOK, Bodies
    <2> HIDE DEF e
    <2>6. /\ Increasing(body'[r])
          /\ \A j \in DOMAIN body'[r] :
                IsData(body'[r][j]) /\ \E i \in DOMAIN taken'[r] : taken'[r][i] = body'[r][j]
          /\ reason'[r] # "write_error" =>
                \A i \in DOMAIN taken'[r] :
                    IsData(taken'[r][i]) => \E j \in DOMAIN body'[r] : body'[r][j] = taken'[r][i]
      <3>1. CASE TakeData(r)
        <4>1. body'[r] = Append(body[r], e) /\ IsData(e) /\ reason'[r] = reason[r]
          BY <1>1, <2>1, <2>2, <3>1 DEF TakeData, Write, TypeOK, IsData
        <4>2. /\ Len(body[r]) \in Nat /\ DOMAIN body[r] = 1..Len(body[r])
              /\ DOMAIN body'[r] = 1..(Len(body[r]) + 1)
              /\ \A j \in 1..Len(body[r]) : body'[r][j] = body[r][j]
              /\ body'[r][Len(body[r]) + 1] = e
          BY <2>2, <2>4, <4>1
        <4>3. Increasing(body'[r])
          <5>1. ASSUME NEW j \in DOMAIN body[r]
                PROVE  body[r][j].at < e.at
            <6>1. PICK i \in DOMAIN taken[r] : taken[r][i] = body[r][j]
              BY <2>4
            <6>2. taken[r][i].at < e.at
              BY <2>2
            <6> QED
              BY <6>1, <6>2
          <5> QED
            BY <2>4, <4>2, <5>1, SMTT(30) DEF Increasing
        <4>4. \A j \in DOMAIN body'[r] :
                 IsData(body'[r][j]) /\ \E i \in DOMAIN taken'[r] : taken'[r][i] = body'[r][j]
          <5>1. \A j \in DOMAIN body[r] : IsData(body[r][j])
            BY DEF Bodies
          <5> SUFFICES ASSUME NEW j \in DOMAIN body'[r]
                       PROVE  IsData(body'[r][j]) /\ \E i \in DOMAIN taken'[r] : taken'[r][i] = body'[r][j]
            OBVIOUS
          <5>2. CASE j = Len(body[r]) + 1
            <6>1. body'[r][j] = e /\ Len(taken[r]) + 1 \in DOMAIN taken'[r]
              BY <2>2, <4>2, <5>2
            <6> QED
              BY <2>2, <4>1, <6>1
          <5>3. CASE j \in DOMAIN body[r]
            <6>1. PICK i \in DOMAIN taken[r] : taken[r][i] = body[r][j]
              BY <2>4, <5>3
            <6>2. i \in DOMAIN taken'[r] /\ taken'[r][i] = taken[r][i]
              BY <2>2
            <6> QED
              BY <4>2, <5>1, <5>3, <6>1, <6>2
          <5> QED
            BY <4>2, <5>2, <5>3
        <4>5. ASSUME reason'[r] # "write_error", NEW i \in DOMAIN taken'[r], IsData(taken'[r][i])
              PROVE  \E j \in DOMAIN body'[r] : body'[r][j] = taken'[r][i]
          <5>1. CASE i = Len(taken[r]) + 1
            BY <2>2, <4>2, <5>1
          <5>2. CASE i \in DOMAIN taken[r]
            <6>1. PICK j \in DOMAIN body[r] : body[r][j] = taken[r][i]
              BY <2>2, <4>1, <4>5, <5>2 DEF Bodies
            <6> QED
              BY <2>2, <4>2, <5>2, <6>1, SMTT(30)
          <5> QED
            BY <2>2, <5>1, <5>2
        <4> QED
          BY <4>3, <4>4, <4>5
      <3>2. CASE TakeDataWriteFails(r)
        <4>1. body' = body /\ reason'[r] = "write_error"
          BY <1>1, <3>2 DEF TakeDataWriteFails, ReturnBecause, TypeOK
        <4>2. \A j \in DOMAIN body[r] : IsData(body[r][j])
          BY DEF Bodies
        <4> QED
          BY <2>2, <2>4, <4>1, <4>2
      <3>3. CASE TakeEnd(r)
        <4>1. body' = body /\ ~IsData(e)
          BY <2>2, <3>3 DEF TakeEnd, IsData
        <4>2. \A j \in DOMAIN body[r] : IsData(body[r][j])
          BY DEF Bodies
        <4>3. reason[r] = "completed"
          BY <2>1 DEF Phases, Over, Receive
        <4>4. ASSUME NEW i \in DOMAIN taken'[r], IsData(taken'[r][i])
              PROVE  \E j \in DOMAIN body'[r] : body'[r][j] = taken'[r][i]
          <5>1. i \in DOMAIN taken[r]
            BY <2>2, <4>1, <4>4
          <5> QED
            BY <2>2, <4>1, <4>3, <4>4, <5>1 DEF Bodies
        <4> QED
          BY <2>2, <2>4, <4>1, <4>2, <4>4
      <3> QED
        BY <1>5, <3>1, <3>2, <3>3
    <2>7. \A x : stream'[x.req][x.at] = stream[x.req][x.at]
      BY <2>2
    <2> SUFFICES ASSUME NEW x \in Requests
                 PROVE  /\ Increasing(body'[x])
                        /\ \A j \in DOMAIN body'[x] :
                              IsData(body'[x][j]) /\ \E i \in DOMAIN taken'[x] : taken'[x][i] = body'[x][j]
                        /\ reason'[x] # "write_error" =>
                              \A i \in DOMAIN taken'[x] :
                                 IsData(taken'[x][i]) => \E j \in DOMAIN body'[x] : body'[x][j] = taken'[x][i]
      BY <2>2 DEF Bodies, Increasing, IsData, Msg
    <2>8. CASE x = r
      BY <2>6, <2>8
    <2>9. CASE x # r
      BY <2>2, <2>3, <2>9 DEF Bodies
    <2> QED
      BY <2>8, <2>9
  <1> QED
    BY <1>4, <1>5, QuietStep

-------------------------------------------------------------------------------
(* The end of an exchange.                                                 *)

\* Only a receive completes an exchange.
LEMMA AnsweredBefore ==
    ASSUME IInv, Phases, [Next]_vars,
           ~\E r \in Requests : TakeData(r) \/ TakeDataWriteFails(r) \/ TakeEnd(r)
    PROVE  \A x \in Requests : Answered(x)' => Answered(x)
  <1>1. TypeOK
    BY DEF IInv
  <1>2. ASSUME UNCHANGED <<pc, reason, errorPage, status>>
        PROVE  \A x \in Requests : Answered(x)' => Answered(x)
    BY <1>2 DEF Answered, Over
  <1>3. ASSUME NEW r \in Requests, Local(r) \/ ForwardOnly(r) \/ Publish(r)
        PROVE  \A x \in Requests : Answered(x)' => Answered(x)
    <2>1. CASE Reject(r)
      BY <1>1, <2>1 DEF Reject, Answered, Over, TypeOK
    <2>2. CASE ForwardOnly(r)
      BY <1>1, <2>2 DEF ForwardOnly, Answered, Over, TypeOK
    <2>3. CASE Register(r) \/ Publish(r)
      BY <1>1, <2>3 DEF Register, Publish, Answered, Over, TypeOK
    <2>4. CASE PublishFails(r)
      BY <1>1, <2>4 DEF PublishFails, Answered, Over, TypeOK
    <2>5. CASE ObserveGone(r)
      BY <1>1, <2>5 DEF ObserveGone, ReturnBecause, Answered, Over, TypeOK
    <2>6. CASE Timeout(r)
      BY <1>1, <2>6 DEF Timeout, ReturnBecause, Answered, Over, TypeOK
    <2>7. CASE Unregister(r) \/ PublishClosed(r)
      BY <1>1, <2>7 DEF Unregister, PublishClosed, Answered, Over, TypeOK
    <2>8. CASE ClientGone(r)
      BY <1>2, <2>8 DEF ClientGone
    <2> QED
      BY <1>3, <2>1, <2>2, <2>3, <2>4, <2>5, <2>6, <2>7, <2>8 DEF Local
  <1>4. CASE Dispatch \/ LoseReply \/ UNCHANGED vars
    BY <1>2, <1>4 DEF Dispatch, Load, Offer, LoseReply, vars, handlerVars
  <1>5. ASSUME NEW d \in Responders, ResponderStep(d) \/ Crash(d) \/ Restart(d)
        PROVE  \A x \in Requests : Answered(x)' => Answered(x)
    BY <1>2, <1>5, ResponderFlow DEF handlerVars
  <1> QED
    BY <1>3, <1>4, <1>5 DEF Next, HandlerStep, Local

\* A handler that receives an end, or gives up on a write, has stopped waiting.
LEMMA TakeOutcome ==
    ASSUME IInv, Phases, NEW r \in Requests,
           TakeData(r) \/ TakeDataWriteFails(r) \/ TakeEnd(r)
    PROVE  /\ Receive(r)
           /\ \A x \in Requests \ {r} : Answered(x)' <=> Answered(x)
           /\ \A x \in Requests \ {r} : Over(x)' <=> Over(x)
           /\ ~Over(r)
           /\ Over(r)' => (Answered(r)' <=> reason'[r] # "write_error" /\ r \notin PublishOnly)
           /\ Over(r)' /\ reason'[r] # "write_error" => Msg(chan[r][1]).kind \in EndKinds
           /\ Msg(chan[r][1]).kind \in EndKinds =>
                 TakeDataWriteFails(r) \/ (Over(r)' /\ reason'[r] # "write_error")
           /\ TakeDataWriteFails(r) => /\ Msg(chan[r][1]).kind \notin EndKinds
                                       /\ Over(r)' /\ reason'[r] = "write_error"
  <1>1. TypeOK
    BY DEF IInv
  <1>2. Receive(r)
    BY DEF TakeData, TakeDataWriteFails, TakeEnd
  <1>3. /\ pc[r] = "waiting" /\ reason[r] = "completed"
        /\ r \notin errorPage /\ status[r] \notin {"403", "404"}
        /\ UNCHANGED errorPage
    BY <1>2 DEF Receive, Phases, Over
  <1>4. /\ \A x \in Requests \ {r} : status'[x] = status[x]
        /\ status'[r] \notin {"403", "404"}
    BY <1>1, <1>2, <1>3, ReceiveStatus DEF TypeOK
  <1>5. \A x \in Requests \ {r} : pc'[x] = pc[x] /\ reason'[x] = reason[x]
    BY <1>1 DEF TakeData, TakeDataWriteFails, TakeEnd, ReturnBecause, TypeOK
  <1>6. Incoming(r) = Msg(chan[r][1]).kind
    BY <1>2, TakeEffect
  <1>7. /\ pc'[r] \in {"waiting", "unregister"}
        /\ reason'[r] \in {"completed", "termination_chunk", "write_error"}
        /\ pc'[r] = "unregister" /\ reason'[r] # "write_error" => Incoming(r) \in EndKinds
        /\ Incoming(r) \in EndKinds =>
              TakeDataWriteFails(r) \/ (pc'[r] = "unregister" /\ reason'[r] # "write_error")
        /\ TakeDataWriteFails(r) =>
              Incoming(r) \notin EndKinds /\ pc'[r] = "unregister" /\ reason'[r] = "write_error"
    <2>1. CASE TakeData(r)
      BY <1>1, <1>3, <2>1 DEF TakeData, EndKinds, TakeDataWriteFails, ReturnBecause, TypeOK
    <2>2. CASE TakeDataWriteFails(r)
      BY <1>1, <1>3, <2>2 DEF TakeDataWriteFails, ReturnBecause, EndKinds, TypeOK
    <2>3. CASE TakeEnd(r)
      BY <1>1, <1>3, <2>3 DEF TakeEnd, ReturnBecause, EndKinds, TakeDataWriteFails, TypeOK
    <2> QED
      BY <2>1, <2>2, <2>3
  <1> QED
    BY <1>2, <1>3, <1>4, <1>5, <1>6, <1>7 DEF Answered, Over

\* A handler that answers has taken an end.
LEMMA EndsStep == IInv /\ Phases /\ CompletedHasEnd /\ [Next]_vars => CompletedHasEnd'
  <1> SUFFICES ASSUME IInv, Phases, CompletedHasEnd, [Next]_vars, NEW x \in Requests, Answered(x)'
               PROVE  taken'[x] # <<>> /\ Msg(Last(taken[x]))'.kind \in EndKinds
    BY DEF CompletedHasEnd
  <1>1. TypeOK /\ Published
    BY DEF IInv
  <1>2. ASSUME Answered(x), taken'[x] = taken[x]
        PROVE  taken'[x] # <<>> /\ Msg(Last(taken[x]))'.kind \in EndKinds
    <2> DEFINE e == Last(taken[x])
    <2>1. taken[x] # <<>> /\ Msg(e).kind \in EndKinds
      BY <1>2 DEF CompletedHasEnd
    <2>2. taken[x] \in Seq(Envelope)
      BY <1>1 DEF TypeOK
    <2>3. Len(taken[x]) \in DOMAIN taken[x] /\ e = taken[x][Len(taken[x])] /\ e \in Envelope
      BY <2>1, <2>2 DEF Last
    <2>4. e.at <= Len(stream[e.req])
      BY <1>1, <2>3 DEF Published, InFlight
    <2>5. stream'[e.req][e.at] = stream[e.req][e.at]
      BY <2>3, <2>4, ReplyStable
    <2>6. Last(taken'[x]) = e
      BY <1>2
    <2>7. Msg(Last(taken[x]))' = stream'[Last(taken'[x]).req][Last(taken'[x]).at]
      BY DEF Msg
    <2> QED
      BY <1>2, <2>1, <2>5, <2>6, <2>7 DEF Msg
  <1>3. CASE ~\E r \in Requests : TakeData(r) \/ TakeDataWriteFails(r) \/ TakeEnd(r)
    BY <1>2, <1>3, AnsweredBefore, QuietStep
  <1>4. ASSUME NEW r \in Requests, TakeData(r) \/ TakeDataWriteFails(r) \/ TakeEnd(r)
        PROVE  taken'[x] # <<>> /\ Msg(Last(taken[x]))'.kind \in EndKinds
    <2>1. CASE x # r
      BY <1>2, <1>4, <2>1, TakeOutcome, TakeEffect
    <2>2. CASE x = r
      <3>1. Over(r)' /\ Receive(r) /\ Msg(chan[r][1]).kind \in EndKinds
        BY <1>4, <2>2, TakeOutcome DEF Answered
      <3>2. taken'[r] # <<>> /\ Last(taken'[r]) = chan[r][1] /\ UNCHANGED stream
        BY <3>1, TakeEffect, ReceiveStatus
      <3> QED
        BY <2>2, <3>1, <3>2 DEF Msg
    <2> QED
      BY <2>1, <2>2
  <1> QED
    BY <1>3, <1>4

-------------------------------------------------------------------------------
(* Where every published reply is.                                         *)

InInbox(r, p) == \E i \in DOMAIN inbox : inbox[i] = [req |-> r, at |-> p]
InChan(r, p) == \E i \in DOMAIN chan[r] : chan[r][i].at = p
Taken(r, p) == \E i \in DOMAIN taken[r] : taken[r][i].at = p

\* A published reply is lost, taken, in the channel of its handler or still in the inbox.
Accounted ==
    \A r \in Requests : \A p \in 1..Len(stream[r]) :
        p \in lost[r] \/ Taken(r, p) \/ InChan(r, p) \/ InInbox(r, p)

\* The oldest reply of the inbox, and what becomes of the others when it leaves.
LEMMA InboxMoves ==
    ASSUME IInv, inbox # <<>>, inbox' = Tail(inbox)
    PROVE  /\ Head(inbox) = inbox[1] /\ 1 \in DOMAIN inbox
           /\ Head(inbox).req \in Requests /\ Head(inbox).at \in Nat \ {0}
           /\ Head(inbox) = [req |-> Head(inbox).req, at |-> Head(inbox).at]
           /\ Head(inbox).at <= Len(stream[Head(inbox).req])
           /\ \A r, p : InInbox(r, p) => InInbox(r, p)' \/ (r = Head(inbox).req /\ p = Head(inbox).at)
  <1>1. /\ Head(inbox) = inbox[1] /\ 1 \in DOMAIN inbox
        /\ Head(inbox) \in Envelope
        /\ Len(inbox) \in Nat \ {0}
        /\ DOMAIN inbox = 1..Len(inbox)
        /\ DOMAIN inbox' = 1..(Len(inbox) - 1)
        /\ \A i \in 1..(Len(inbox) - 1) : inbox'[i] = inbox[i + 1]
    BY InboxTail
  <1>2. /\ Head(inbox).req \in Requests /\ Head(inbox).at \in Nat \ {0}
        /\ Head(inbox) = [req |-> Head(inbox).req, at |-> Head(inbox).at]
    BY <1>1 DEF Envelope
  <1>3. Head(inbox).at <= Len(stream[Head(inbox).req])
    BY <1>1 DEF IInv, Published
  <1>4. ASSUME NEW r, NEW p, InInbox(r, p), ~(r = Head(inbox).req /\ p = Head(inbox).at)
        PROVE  InInbox(r, p)'
    <2>1. PICK i \in DOMAIN inbox : inbox[i] = [req |-> r, at |-> p]
      BY <1>4 DEF InInbox
    <2>2. i # 1
      BY <1>1, <1>4, <2>1
    <2>3. i - 1 \in DOMAIN inbox' /\ inbox'[i - 1] = [req |-> r, at |-> p]
      BY <1>1, <2>1, <2>2
    <2> QED
      BY <2>3 DEF InInbox
  <1> QED
    BY <1>1, <1>2, <1>3, <1>4

\* A step keeps every published reply in the inbox or the channel, taken, or discarded.
LEMMA AccountedStep == IInv /\ Accounted /\ [Next]_vars => Accounted'
  <1> SUFFICES ASSUME IInv, Accounted, [Next]_vars
               PROVE  Accounted'
    OBVIOUS
  <1>1. TypeOK
    BY DEF IInv
  <1>2. CASE Still
    BY <1>2 DEF Still, Accounted, InInbox, InChan, Taken
  <1>3. CASE Arrive
    <2> DEFINE e == Head(inbox)
    <2>1. /\ inbox # <<>> /\ inbox' = Tail(inbox) /\ UNCHANGED <<stream, taken>>
      BY <1>3 DEF Arrive, handlerVars
    <2>2. /\ e.req \in Requests /\ e.at \in Nat \ {0}
          /\ \A r, p : InInbox(r, p) => InInbox(r, p)' \/ (r = e.req /\ p = e.at)
      BY <2>1, InboxMoves
    <2>3. \A r \in Requests, p \in Nat : Taken(r, p) => Taken(r, p)'
      BY <2>1 DEF Taken
    <2>4. CASE chan' = [chan EXCEPT ![e.req] = Append(@, e)] /\ UNCHANGED lost
      <3>1. chan[e.req] \in Seq(Envelope) /\ e \in Envelope
        BY <1>1, <2>1, <2>2, InboxTail DEF TypeOK
      <3>2. \A r \in Requests, p \in Nat : InChan(r, p) => InChan(r, p)'
        <4> SUFFICES ASSUME NEW r \in Requests, NEW p \in Nat, NEW i \in DOMAIN chan[r], chan[r][i].at = p
                     PROVE  i \in DOMAIN chan'[r] /\ chan'[r][i] = chan[r][i]
          BY DEF InChan
        <4>1. CASE r = e.req
          <5>1. chan'[r] = Append(chan[r], e)
            BY <1>1, <2>2, <2>4, <4>1 DEF TypeOK
          <5> QED
            BY <3>1, <4>1, <5>1
        <4>2. CASE r # e.req
          BY <1>1, <2>4, <4>2 DEF TypeOK
        <4> QED
          BY <4>1, <4>2
      <3>3. \E i \in DOMAIN chan'[e.req] : chan'[e.req][i].at = e.at
        <4>1. chan'[e.req] = Append(chan[e.req], e)
          BY <1>1, <2>2, <2>4 DEF TypeOK
        <4>2. Len(chan[e.req]) + 1 \in DOMAIN chan'[e.req] /\ chan'[e.req][Len(chan[e.req]) + 1] = e
          BY <3>1, <4>1
        <4> QED
          BY <4>2
      <3>4. ASSUME NEW r \in Requests, NEW p \in Nat, r = e.req, p = e.at
            PROVE  InChan(r, p)'
        BY <3>3, <3>4 DEF InChan
      <3> QED
        BY <2>1, <2>2, <2>3, <2>4, <3>2, <3>4 DEF Accounted
    <2>5. CASE Discard(e) /\ UNCHANGED chan
      <3>1. \A r \in Requests : lost[r] \subseteq lost'[r]
        BY <1>1, <2>2, <2>5 DEF Discard, TypeOK
      <3>2. e.at \in lost'[e.req]
        BY <1>1, <2>2, <2>5 DEF Discard, TypeOK
      <3>3. \A r \in Requests, p \in Nat : InChan(r, p) => InChan(r, p)'
        BY <2>5 DEF InChan
      <3> QED
        BY <2>1, <2>2, <2>3, <3>1, <3>2, <3>3 DEF Accounted
    <2> QED
      BY <1>3, <2>4, <2>5 DEF Arrive
  <1>4. ASSUME NEW r \in Requests, Receive(r)
        PROVE  Accounted'
    <2>1. UNCHANGED <<stream, inbox, lost>>
      BY <1>4 DEF Receive
    <2>2. /\ Len(taken[r]) \in Nat /\ DOMAIN taken[r] = 1..Len(taken[r])
          /\ DOMAIN taken'[r] = 1..(Len(taken[r]) + 1)
          /\ \A i \in DOMAIN taken[r] : taken'[r][i] = taken[r][i]
          /\ taken'[r][Len(taken[r]) + 1] = chan[r][1]
          /\ \A x \in Requests \ {r} : taken'[x] = taken[x]
      BY <1>4, TakeEffect
    <2>3. /\ chan'[r] = Tail(chan[r]) /\ chan[r] \in Seq(Envelope) /\ chan[r] # <<>>
          /\ \A x \in Requests \ {r} : chan'[x] = chan[x]
      BY <1>1, <1>4 DEF Receive, Rest, TypeOK
    <2>4. \A x \in Requests, p \in Nat : Taken(x, p) => Taken(x, p)'
      BY <2>2 DEF Taken
    <2>5. ASSUME NEW x \in Requests, NEW p \in Nat, InChan(x, p)
          PROVE  InChan(x, p)' \/ Taken(x, p)'
      <3>1. CASE x # r
        BY <2>3, <2>5, <3>1 DEF InChan
      <3>2. CASE x = r
        <4>1. PICK i \in DOMAIN chan[r] : chan[r][i].at = p
          BY <2>5, <3>2 DEF InChan
        <4>2. CASE i = 1
          <5>1. Len(taken[r]) + 1 \in DOMAIN taken'[r] /\ taken'[r][Len(taken[r]) + 1].at = p
            BY <2>2, <4>1, <4>2
          <5> QED
            BY <3>2, <5>1 DEF Taken
        <4>3. CASE i # 1
          <5>1. i - 1 \in DOMAIN chan'[r] /\ chan'[r][i - 1] = chan[r][i]
            BY <2>3, <4>1, <4>3
          <5> QED
            BY <3>2, <4>1, <5>1 DEF InChan
        <4> QED
          BY <4>2, <4>3
      <3> QED
        BY <3>1, <3>2
    <2>6. \A x \in Requests, p \in Nat : InInbox(x, p) => InInbox(x, p)'
      BY <2>1 DEF InInbox
    <2> QED
      BY <2>1, <2>4, <2>5, <2>6 DEF Accounted
  <1>5. ASSUME NEW r \in Requests, NEW m \in Reply, Post(r, m)
        PROVE  Accounted'
    <2>1. r \notin PublishOnly /\ PublishReply(r, m) /\ UNCHANGED <<chan, lost, taken>>
      BY <1>5 DEF Post
    <2>2. /\ Len(stream[r]) \in Nat
          /\ Len(stream'[r]) = Len(stream[r]) + 1
          /\ \A x \in Requests \ {r} : stream'[x] = stream[x]
          /\ DOMAIN inbox = 1..Len(inbox) /\ Len(inbox) \in Nat
          /\ DOMAIN inbox' = 1..(Len(inbox) + 1)
          /\ \A i \in DOMAIN inbox : inbox'[i] = inbox[i]
          /\ inbox'[Len(inbox) + 1] = [req |-> r, at |-> Len(stream[r]) + 1]
      BY <2>1, PublishReplyEffect
    <2>3. \A x, p : InInbox(x, p) => InInbox(x, p)'
      BY <2>2 DEF InInbox
    <2>4. \E i \in DOMAIN inbox' : inbox'[i] = [req |-> r, at |-> Len(stream[r]) + 1]
      <3>1. Len(inbox) + 1 \in DOMAIN inbox'
        BY <2>2
      <3> QED
        BY <2>2, <3>1
    <2>5. \A x \in Requests, p \in Nat : /\ Taken(x, p) => Taken(x, p)'
                                         /\ InChan(x, p) => InChan(x, p)'
      BY <2>1 DEF Taken, InChan
    <2> SUFFICES ASSUME NEW x \in Requests, NEW p \in 1..Len(stream'[x])
                 PROVE  p \in lost'[x] \/ Taken(x, p)' \/ InChan(x, p)' \/ InInbox(x, p)'
      BY DEF Accounted
    <2>6. CASE p \in 1..Len(stream[x])
      BY <2>1, <2>3, <2>5, <2>6 DEF Accounted
    <2>7. CASE p \notin 1..Len(stream[x])
      <3>1. x = r /\ p = Len(stream[r]) + 1
        BY <2>2, <2>7
      <3> QED
        BY <2>4, <3>1 DEF InInbox
    <2> QED
      BY <2>6, <2>7
  <1> QED
    BY <1>2, <1>3, <1>4, <1>5, StepFlow DEF ServerPosts, ResponderPosts

-------------------------------------------------------------------------------
(* The first reply to a request.                                           *)

Queued(r, d) == \E i \in DOMAIN queue[d] : queue[d][i] = r

\* Only a published request is served or answered.
Asked ==
    \A r \in Requests : pc[r] \in {"idle", "registered"} =>
        stream[r] = <<>> /\ \A d \in Responders : ~Queued(r, d)

\* A responder that has sent something has answered the request it serves, where its
\* replies are received.
Begun ==
    \A d \in Responders : sentChunks[d] > 0 =>
        queue[d] # <<>> /\ (stream[Head(queue[d])] # <<>> \/ Head(queue[d]) \in PublishOnly)

\* The first reply to a request has a header, or it is h8srd's after a read error, or a
\* service's.
Headed ==
    \A r \in Requests : stream[r] # <<>> /\ stream[r][1].head = "none" =>
        stream[r][1].kind = "cut" \/ stream[r][1].from \in Services

\* Where NATS discards nothing, the first reply is discarded only when the handler has
\* taken back its registration.
FirstKept ==
    ~LossyInbox => \A r \in Requests : 1 \in lost[r] => pc[r] \in {"closing", "done"}

\* A handler goes on and never back.
LEMMA PcForward ==
    ASSUME IInv, [Next]_vars
    PROVE  \A x \in Requests :
              /\ pc'[x] = "idle" => pc[x] = "idle"
              /\ pc'[x] = "registered" => pc[x] \in {"idle", "registered"}
              /\ pc[x] \in {"closing", "done"} => pc'[x] \in {"closing", "done"}
              /\ Over(x) => Over(x)'
  <1>1. TypeOK
    BY DEF IInv
  <1>2. CASE UNCHANGED pc
    BY <1>1, <1>2 DEF Over
  <1>3. ASSUME NEW r \in Requests, Local(r) \/ ForwardOnly(r) \/ Publish(r)
        PROVE  \A x \in Requests :
                  /\ pc'[x] = "idle" => pc[x] = "idle"
                  /\ pc'[x] = "registered" => pc[x] \in {"idle", "registered"}
                  /\ pc[x] \in {"closing", "done"} => pc'[x] \in {"closing", "done"}
                  /\ Over(x) => Over(x)'
    BY <1>1, <1>3 DEF Local, Reject, Register, PublishFails, ObserveGone, Timeout, TimerMayFire,
       Unregister, PublishClosed, ClientGone, ForwardOnly, Publish, TypeOK, Over
  <1>4. ASSUME NEW r \in Requests, TakeData(r) \/ TakeDataWriteFails(r) \/ TakeEnd(r)
        PROVE  \A x \in Requests :
                  /\ pc'[x] = "idle" => pc[x] = "idle"
                  /\ pc'[x] = "registered" => pc[x] \in {"idle", "registered"}
                  /\ pc[x] \in {"closing", "done"} => pc'[x] \in {"closing", "done"}
                  /\ Over(x) => Over(x)'
    BY <1>1, <1>4 DEF TakeData, TakeDataWriteFails, TakeEnd, Receive, TypeOK, Over
  <1>5. CASE Dispatch \/ LoseReply \/ UNCHANGED vars
    BY <1>2, <1>5 DEF Dispatch, Load, Offer, LoseReply, vars, handlerVars
  <1>6. ASSUME NEW d \in Responders, ResponderStep(d) \/ Crash(d) \/ Restart(d)
        PROVE  UNCHANGED pc
    BY <1>6, ResponderFlow DEF handlerVars
  <1> QED
    BY <1>2, <1>3, <1>4, <1>5, <1>6 DEF Next, HandlerStep, Local

\* What a responder is asked and has begun: its queue grows at the end when a request
\* is published, and loses its head when the callback returns.
LEMMA QueueStep ==
    ASSUME IInv, [Next]_vars, NEW d \in Responders
    PROVE  \/ \E r \in Requests :
                 /\ ForwardOnly(r) \/ Publish(r)
                 /\ queue'[d] = Append(queue[d], r)
                 /\ sentChunks'[d] = sentChunks[d]
           \/ queue'[d] = queue[d] /\ sentChunks'[d] = sentChunks[d]
           \/ queue'[d] = queue[d] /\ Serving(d) /\ Head(queue[d]) \in PublishOnly
           \/ queue'[d] = queue[d] /\ Serving(d) /\ ResponderPosts /\ stream'[Head(queue[d])] # <<>>
           \/ queue'[d] = Tail(queue[d]) /\ queue[d] # <<>> /\ sentChunks'[d] = 0
           \/ queue'[d] = <<>> /\ sentChunks'[d] = 0
  <1>1. TypeOK
    BY DEF IInv
  <1>2. CASE UNCHANGED <<queue, sentChunks>>
    BY <1>2
  <1>3. ASSUME NEW r \in Requests, ForwardOnly(r) \/ Publish(r)
        PROVE  /\ queue'[d] = queue[d] \/ queue'[d] = Append(queue[d], r)
               /\ sentChunks'[d] = sentChunks[d]
    BY <1>3 DEF ForwardOnly, Publish, RouteRequest
  <1>4. ASSUME NEW e \in Responders, ResponderStep(e) \/ Crash(e) \/ Restart(e), e # d
        PROVE  queue'[d] = queue[d] /\ sentChunks'[d] = sentChunks[d]
    BY <1>1, <1>4 DEF ResponderStep, AnswerError, AnswerNothing, BackendAnswers, ReadChunk, ReadEOF,
       ReadError, ServicePublish, ServiceReturn, Return, Crash, Restart, TypeOK
  <1>5. CASE (ReadChunk(d) \/ ServicePublish(d)) /\ Head(queue[d]) \notin PublishOnly
    <2>1. /\ UNCHANGED queue /\ Serving(d) /\ UNCHANGED <<chan, lost>> /\ UNCHANGED handlerVars
          /\ \E kind \in Kinds, head \in Heads : Answer(d, kind, head)
      BY <1>5 DEF ReadChunk, ServicePublish, HeadOf, Kinds, Heads
    <2>2. PICK kind \in Kinds, head \in Heads : Answer(d, kind, head)
      BY <2>1
    <2>3. /\ Head(queue[d]) \in Requests
          /\ [kind |-> kind, head |-> head, from |-> d] \in Reply
          /\ Post(Head(queue[d]), [kind |-> kind, head |-> head, from |-> d])
      BY <1>5, <2>1, <2>2, AnswerPosts DEF handlerVars
    <2>4. stream'[Head(queue[d])] = Append(stream[Head(queue[d])], [kind |-> kind, head |-> head, from |-> d])
      BY <1>1, <2>3 DEF Post, PublishReply, TypeOK
    <2>5. stream[Head(queue[d])] \in Seq(Reply)
      BY <1>1, <2>3 DEF TypeOK
    <2>6. stream'[Head(queue[d])] # <<>>
      BY <2>3, <2>4, <2>5
    <2>7. ~Still
      <3>1. Append(stream[Head(queue[d])], [kind |-> kind, head |-> head, from |-> d]) # stream[Head(queue[d])]
        <4>1. Len(Append(stream[Head(queue[d])], [kind |-> kind, head |-> head, from |-> d]))
              = Len(stream[Head(queue[d])]) + 1
          BY <2>3, <2>5
        <4>2. Len(stream[Head(queue[d])]) \in Nat
          BY <2>5
        <4> QED
          BY <4>1, <4>2
      <3> QED
        BY <2>4, <3>1 DEF Still
    <2>8. ResponderPosts
      BY <1>5, <2>7, ResponderFlow DEF ResponderPosts, ResponderStep
    <2> QED
      BY <2>1, <2>6, <2>8
  <1>6. CASE (ReadChunk(d) \/ ServicePublish(d)) /\ Head(queue[d]) \in PublishOnly
    BY <1>6 DEF ReadChunk, ServicePublish
  <1>7. CASE \/ AnswerError(d) \/ AnswerNothing(d) \/ BackendAnswers(d) \/ ReadEOF(d) \/ ReadError(d)
             \/ ServiceReturn(d) \/ Crash(d) \/ Restart(d)
    <2>1. CASE BackendAnswers(d) \/ Restart(d)
      BY <1>2, <2>1 DEF BackendAnswers, Restart
    <2>2. CASE Crash(d)
      BY <1>1, <2>2 DEF Crash, TypeOK
    <2>3. CASE Return(d) /\ Serving(d)
      BY <1>1, <2>3 DEF Return, Serving, TypeOK
    <2> QED
      BY <1>7, <2>1, <2>2, <2>3 DEF AnswerError, AnswerNothing, ReadEOF, ReadError, ServiceReturn
  <1>8. ASSUME NEW r \in Requests,
               \/ Local(r) \/ TakeData(r) \/ TakeDataWriteFails(r) \/ TakeEnd(r)
        PROVE  UNCHANGED <<queue, sentChunks>>
    <2>1. CASE Local(r)
      BY <2>1, LocalFlow DEF responderVars
    <2> QED
      BY <1>8, <2>1 DEF TakeData, TakeDataWriteFails, TakeEnd, Receive, responderVars
  <1>9. CASE Dispatch \/ LoseReply \/ UNCHANGED vars
    BY <1>2, <1>9 DEF Dispatch, Load, Offer, LoseReply, vars, responderVars
  <1>10. ASSUME NEW e \in Responders, ResponderStep(e) \/ Crash(e) \/ Restart(e), e = d
        PROVE  \/ ReadChunk(d) \/ ServicePublish(d)
               \/ AnswerError(d) \/ AnswerNothing(d) \/ BackendAnswers(d) \/ ReadEOF(d) \/ ReadError(d)
               \/ ServiceReturn(d) \/ Crash(d) \/ Restart(d)
    BY <1>10 DEF ResponderStep
  <1>11. CASE \E r \in Requests : ForwardOnly(r) \/ Publish(r)
    BY <1>3, <1>11
  <1>12. CASE \E e \in Responders : ResponderStep(e) \/ Crash(e) \/ Restart(e)
    BY <1>4, <1>5, <1>6, <1>7, <1>10, <1>12
  <1>13. CASE \E r \in Requests : Local(r) \/ TakeData(r) \/ TakeDataWriteFails(r) \/ TakeEnd(r)
    BY <1>2, <1>8, <1>13
  <1> QED
    BY <1>9, <1>11, <1>12, <1>13 DEF Next, HandlerStep, Local

\* A request gets into a queue only when its handler publishes it.
LEMMA QueuedBefore ==
    ASSUME IInv, [Next]_vars, NEW d \in Responders, NEW x \in Requests, Queued(x, d)'
    PROVE  Queued(x, d) \/ ForwardOnly(x) \/ Publish(x)
  <1>1. queue[d] \in Seq(Requests)
    BY DEF IInv, TypeOK
  <1>2. PICK i \in DOMAIN queue'[d] : queue'[d][i] = x
    BY DEF Queued
  <1>3. ASSUME NEW r \in Requests, ForwardOnly(r) \/ Publish(r), queue'[d] = Append(queue[d], r)
        PROVE  Queued(x, d) \/ ForwardOnly(x) \/ Publish(x)
    <2>1. (i \in DOMAIN queue[d] /\ queue[d][i] = x) \/ x = r
      BY <1>1, <1>2, <1>3
    <2> QED
      BY <1>3, <2>1 DEF Queued
  <1>4. CASE queue'[d] = queue[d]
    BY <1>2, <1>4 DEF Queued
  <1>5. CASE queue'[d] = Tail(queue[d]) /\ queue[d] # <<>>
    <2>1. i + 1 \in DOMAIN queue[d] /\ queue[d][i + 1] = x
      BY <1>1, <1>2, <1>5
    <2> QED
      BY <2>1 DEF Queued
  <1>6. CASE queue'[d] = <<>>
    BY <1>2, <1>6
  <1> QED
    BY <1>3, <1>4, <1>5, <1>6, QueueStep

\* A responder serves a request it has been asked.
LEMMA ServedIsQueued ==
    ASSUME IInv, NEW d \in Responders, Serving(d)
    PROVE  Head(queue[d]) \in Requests /\ Queued(Head(queue[d]), d)
  <1>1. queue[d] \in Seq(Requests) /\ queue[d] # <<>>
    BY DEF IInv, TypeOK, Serving
  <1>2. 1 \in DOMAIN queue[d] /\ queue[d][1] = Head(queue[d]) /\ Head(queue[d]) \in Requests
    BY <1>1
  <1> QED
    BY <1>2 DEF Queued

\* A reply is posted for one request.
LEMMA PostEffect ==
    ASSUME IInv, NEW r \in Requests, NEW m \in Reply, Post(r, m)
    PROVE  /\ UNCHANGED <<chan, lost, taken>>
           /\ Len(stream[r]) \in Nat /\ Len(stream'[r]) = Len(stream[r]) + 1
           /\ stream'[r][Len(stream[r]) + 1] = m
           /\ \A x \in Requests \ {r} : stream'[x] = stream[x]
           /\ stream' # stream
  <1>1. /\ UNCHANGED <<chan, lost, taken>>
        /\ Len(stream[r]) \in Nat /\ Len(stream'[r]) = Len(stream[r]) + 1
        /\ stream'[r][Len(stream[r]) + 1] = m
        /\ \A x \in Requests \ {r} : stream'[x] = stream[x]
    BY PublishReplyEffect DEF Post
  <1> QED
    BY <1>1

\* An idle handler's request is unknown to the responders, and stays so.
LEMMA AskedStep == IInv /\ Asked /\ [Next]_vars => Asked'
  <1> SUFFICES ASSUME IInv, Asked, [Next]_vars,
                      NEW x \in Requests, pc'[x] \in {"idle", "registered"}
               PROVE  stream'[x] = <<>> /\ \A d \in Responders : ~Queued(x, d)'
    BY DEF Asked
  <1>1. TypeOK
    BY DEF IInv
  <1>2. stream[x] = <<>> /\ \A d \in Responders : ~Queued(x, d)
    BY PcForward DEF Asked
  <1>3. ~ForwardOnly(x) /\ ~Publish(x)
    BY <1>1 DEF ForwardOnly, Publish, TypeOK
  <1>4. stream'[x] = stream[x]
    <2>1. CASE UNCHANGED stream
      BY <2>1
    <2>2. CASE ServerPosts
      <3>1. PICK r \in Requests, m \in Reply : (ForwardOnly(r) \/ Publish(r)) /\ Post(r, m)
        BY <2>2 DEF ServerPosts
      <3> QED
        BY <1>3, <3>1, PostEffect
    <2>3. CASE ResponderPosts
      <3>1. PICK d \in Responders, m \in Reply : Serving(d) /\ Post(Head(queue[d]), m)
        BY <2>3 DEF ResponderPosts
      <3>2. Head(queue[d]) \in Requests /\ Head(queue[d]) # x
        BY <1>2, <3>1, ServedIsQueued
      <3> QED
        BY <3>1, <3>2, PostEffect
    <2> QED
      BY <2>1, <2>2, <2>3, StepFlow DEF Still, Arrive, Receive
  <1> QED
    BY <1>2, <1>3, <1>4, QueuedBefore

\* What a responder has begun to answer keeps its place at the head of the queue.
LEMMA BegunStep == IInv /\ Begun /\ [Next]_vars => Begun'
  <1> SUFFICES ASSUME IInv, Begun, [Next]_vars, NEW d \in Responders, sentChunks'[d] > 0
               PROVE  /\ queue'[d] # <<>>
                      /\ stream'[Head(queue'[d])] # <<>> \/ Head(queue'[d]) \in PublishOnly
    BY DEF Begun
  <1>1. queue[d] \in Seq(Requests)
    BY DEF IInv, TypeOK
  <1>2. sentChunks[d] > 0 =>
           /\ queue[d] # <<>> /\ Head(queue[d]) \in Requests
           /\ stream'[Head(queue[d])] # <<>> \/ Head(queue[d]) \in PublishOnly
    BY <1>1, StreamGrows DEF Begun
  <1>3. ASSUME NEW r \in Requests, queue'[d] = Append(queue[d], r), sentChunks'[d] = sentChunks[d]
        PROVE  /\ queue'[d] # <<>>
               /\ stream'[Head(queue'[d])] # <<>> \/ Head(queue'[d]) \in PublishOnly
    <2>1. Append(queue[d], r) # <<>> /\ Head(Append(queue[d], r)) = Head(queue[d])
      BY <1>1, <1>2, <1>3
    <2> QED
      BY <1>2, <1>3, <2>1
  <1>4. CASE queue'[d] = queue[d] /\ sentChunks'[d] = sentChunks[d]
    BY <1>2, <1>4
  <1>5. CASE /\ queue'[d] = queue[d] /\ Serving(d)
             /\ stream'[Head(queue[d])] # <<>> \/ Head(queue[d]) \in PublishOnly
    BY <1>5 DEF Serving
  <1>6. CASE sentChunks'[d] = 0
    BY <1>6
  <1> QED
    BY <1>3, <1>4, <1>5, <1>6, QueueStep

\* Only the first reply decides, and only its publisher could leave the header out.
LEMMA HeadedStep == IInv /\ Begun /\ Headed /\ [Next]_vars => Headed'
  <1> SUFFICES ASSUME IInv, Begun, Headed, [Next]_vars,
                      NEW x \in Requests, stream'[x] # <<>>, stream'[x][1].head = "none"
               PROVE  stream'[x][1].kind = "cut" \/ stream'[x][1].from \in Services
    BY DEF Headed
  <1>1. stream[x] \in Seq(Reply)
    BY DEF IInv, TypeOK
  <1>2. CASE stream[x] # <<>>
    <2>1. 1 \in 1..Len(stream[x])
      BY <1>1, <1>2
    <2>2. stream'[x][1] = stream[x][1]
      BY <2>1, StreamGrows
    <2> QED
      BY <1>2, <2>2 DEF Headed
  <1>3. ASSUME stream[x] = <<>>, NEW r \in Requests, NEW m \in Reply, Post(r, m)
        PROVE  x = r /\ stream'[x][1] = m
    <2>1. x = r
      BY <1>3, PostEffect
    <2>2. Len(stream[x]) = 0
      BY <1>3
    <2> QED
      BY <1>3, <2>1, <2>2, PostEffect
  <1>4. CASE stream[x] = <<>> /\ ServerPosts
    BY <1>3, <1>4 DEF ServerPosts
  <1>5. CASE stream[x] = <<>> /\ ResponderPosts
    <2>1. PICK d \in Responders, m \in Reply :
             /\ Serving(d) /\ Head(queue[d]) \in Requests
             /\ m.from = d
             /\ d \in Reverses => m.kind = "cut" \/ m.head # "none" \/ sentChunks[d] > 0
             /\ Post(Head(queue[d]), m)
      BY <1>5 DEF ResponderPosts
    <2>2. x = Head(queue[d]) /\ stream'[x][1] = m
      BY <1>3, <1>5, <2>1
    <2>3. ~(sentChunks[d] > 0)
      BY <1>5, <2>1, <2>2 DEF Begun, Post
    <2> QED
      BY <2>1, <2>2, <2>3 DEF Responders
  <1> QED
    BY <1>2, <1>4, <1>5, StepFlow DEF Still, Arrive, Receive

\* Dispatch refuses the first reply only when its handler is not registered any more.
LEMMA FirstKeptStep == IInv /\ Phases /\ Asked /\ FirstKept /\ [Next]_vars => FirstKept'
  <1> SUFFICES ASSUME IInv, Phases, Asked, FirstKept, [Next]_vars, ~LossyInbox,
                      NEW x \in Requests, 1 \in lost'[x]
               PROVE  pc'[x] \in {"closing", "done"}
    BY DEF FirstKept
  <1>1. TypeOK /\ Ordered
    BY DEF IInv
  <1>2. CASE 1 \in lost[x]
    BY <1>2, PcForward DEF FirstKept
  <1>3. CASE 1 \notin lost[x] /\ Arrive
    <2> DEFINE e == Head(inbox)
    <2>1. /\ inbox # <<>> /\ inbox' = Tail(inbox) /\ UNCHANGED pc
          /\ e.req \notin pending \/ ~HasRoom(e)
          /\ Discard(e)
      BY <1>3 DEF Arrive, handlerVars
    <2>2. /\ e = inbox[1] /\ 1 \in DOMAIN inbox
          /\ e.req \in Requests /\ e.at <= Len(stream[e.req])
      BY <2>1, InboxMoves
    <2> HIDE DEF e
    <2>3. e.req = x /\ e.at = 1
      BY <1>1, <1>3, <2>1, <2>2 DEF Discard, TypeOK
    <2>4. stream[x] # <<>>
      BY <2>2, <2>3
    <2>5. pc[x] \notin {"idle", "registered"}
      BY <2>4 DEF Asked
    <2>6. CASE ~HasRoom(e)
      <3>1. ~(Len(chan[x]) < RespChanBuffer)
        BY <2>3, <2>6 DEF HasRoom
      <3>2. chan[x] \in Seq(Envelope) /\ RespChanBuffer \in Nat \ {0}
        BY <1>1, ConfigAssumption DEF TypeOK
      <3>3. 1 \in DOMAIN chan[x] /\ chan[x][1] \in Envelope
        BY <3>1, <3>2
      <3>4. chan[x][1].at < 1
        BY <1>1, <2>2, <2>3, <3>3 DEF Ordered
      <3> QED
        BY <3>3, <3>4 DEF Envelope
    <2>7. CASE x \notin pending
      BY <1>1, <2>1, <2>5, <2>7 DEF Phases, TypeOK
    <2> QED
      BY <2>1, <2>3, <2>6, <2>7
  <1> QED
    BY <1>2, <1>3, StepFlow, PostEffect DEF Still, Receive, ServerPosts, ResponderPosts

-------------------------------------------------------------------------------
(* The status line.                                                        *)

\* The fallback status tells that the first reply had no header.
Honest ==
    ~LossyInbox => \A r \in Requests : status[r] = "fallback200" =>
        /\ stream[r] # <<>>
        /\ stream[r][1].head = "none"
        /\ stream[r][1].kind = "cut" \/ stream[r][1].from \in Services

\* Only a receive falls back to the status 200.
LEMMA FallbackByReceive ==
    ASSUME IInv, [Next]_vars, NEW x \in Requests, status'[x] = "fallback200"
    PROVE  status[x] = "fallback200" \/ Receive(x)
  <1>1. TypeOK
    BY DEF IInv
  <1>2. CASE UNCHANGED status
    BY <1>2
  <1>3. ASSUME NEW r \in Requests, Local(r) \/ ForwardOnly(r) \/ Publish(r)
        PROVE  status[x] = "fallback200"
    BY <1>1, <1>3 DEF Local, Reject, Register, PublishFails, ObserveGone, Timeout, Unregister,
       PublishClosed, ClientGone, ForwardOnly, Publish, TypeOK
  <1>4. ASSUME NEW r \in Requests, TakeData(r) \/ TakeDataWriteFails(r) \/ TakeEnd(r)
        PROVE  status[x] = "fallback200" \/ Receive(x)
    <2>1. Receive(r) /\ status' = [status EXCEPT ![r] = status'[r]]
      BY <1>4, ReceiveStatus DEF TakeData, TakeDataWriteFails, TakeEnd
    <2> QED
      BY <1>1, <2>1 DEF TypeOK
  <1>5. CASE Dispatch \/ LoseReply \/ UNCHANGED vars
    BY <1>2, <1>5 DEF Dispatch, Load, Offer, LoseReply, vars, handlerVars
  <1>6. ASSUME NEW d \in Responders, ResponderStep(d) \/ Crash(d) \/ Restart(d)
        PROVE  UNCHANGED status
    BY <1>6, ResponderFlow DEF handlerVars
  <1> QED
    BY <1>2, <1>3, <1>4, <1>5, <1>6 DEF Next, HandlerStep, Local

\* Where NATS discards nothing, the first message a handler takes is the first reply.
LEMMA FirstTaken ==
    ASSUME IInv, Accounted, FirstKept, ~LossyInbox,
           NEW r \in Requests, Receive(r), taken[r] = <<>>
    PROVE  stream[r] # <<>> /\ Msg(Head(chan[r])) = stream[r][1]
  <1> DEFINE e == chan[r][1]
  <1>1. TypeOK /\ Ordered
    BY DEF IInv
  <1>2. /\ e = Head(chan[r]) /\ 1 \in DOMAIN chan[r]
        /\ e.at \in 1..Len(stream[r]) /\ Msg(e) = stream[r][e.at]
    BY ReceiveStatus
  <1>3. /\ stream[r] \in Seq(Reply) /\ chan[r] \in Seq(Envelope)
        /\ Len(stream[r]) \in Nat
    BY <1>1 DEF TypeOK
  <1>4. stream[r] # <<>> /\ 1 \in 1..Len(stream[r])
    BY <1>2, <1>3
  <1>5. 1 \notin lost[r] /\ ~Taken(r, 1)
    BY DEF FirstKept, Receive, Taken
  <1>6. CASE InChan(r, 1)
    <2>1. PICK i \in DOMAIN chan[r] : chan[r][i].at = 1
      BY <1>6 DEF InChan
    <2>2. e.at <= 1
      BY <1>1, <1>2, <1>3, <2>1 DEF Ordered, Increasing
    <2>3. e.at = 1
      BY <1>2, <1>3, <2>2
    <2> QED
      BY <1>2, <1>4, <2>3
  <1>7. CASE InInbox(r, 1)
    <2>1. PICK j \in DOMAIN inbox : inbox[j] = [req |-> r, at |-> 1]
      BY <1>7 DEF InInbox
    <2>2. e.at < 1
      BY <1>1, <1>2, <2>1 DEF Ordered
    <2> QED
      BY <1>2, <1>3, <2>2
  <1> QED
    BY <1>4, <1>5, <1>6, <1>7 DEF Accounted

\* A step keeps the fallback status honest.
LEMMA HonestStep ==
    IInv /\ Phases /\ Accounted /\ Headed /\ FirstKept /\ Honest /\ [Next]_vars => Honest'
  <1> SUFFICES ASSUME IInv, Phases, Accounted, Headed, FirstKept, Honest, [Next]_vars, ~LossyInbox,
                      NEW x \in Requests, status'[x] = "fallback200"
               PROVE  /\ stream'[x] # <<>>
                      /\ stream'[x][1].head = "none"
                      /\ stream'[x][1].kind = "cut" \/ stream'[x][1].from \in Services
    BY DEF Honest
  <1>1. TypeOK
    BY DEF IInv
  <1>2. CASE status[x] = "fallback200"
    <2>1. /\ stream[x] # <<>> /\ stream[x][1].head = "none"
          /\ stream[x][1].kind = "cut" \/ stream[x][1].from \in Services
      BY <1>2 DEF Honest
    <2>2. 1 \in 1..Len(stream[x])
      BY <1>1, <2>1 DEF TypeOK
    <2> QED
      BY <2>1, <2>2, StreamGrows
  <1>3. CASE status[x] # "fallback200" /\ Receive(x)
    <2>1. status'[x] = StatusAfter(x, Msg(Head(chan[x])))
      BY <1>3, ReceiveStatus
    <2>2. status[x] = "none" /\ Msg(Head(chan[x])).head = "none"
      <3>1. "fallback200" \notin Heads
        BY DEF Heads
      <3> QED
        BY <1>3, <2>1, <3>1, ReceiveStatus DEF StatusAfter, WroteHeaders, Reply
    <2>3. taken[x] = <<>>
      BY <2>2 DEF Phases
    <2>4. stream[x] # <<>> /\ stream[x][1].head = "none"
      BY <1>3, <2>2, <2>3, FirstTaken
    <2> QED
      BY <1>3, <2>4 DEF Headed, Receive
  <1> QED
    BY <1>2, <1>3, FallbackByReceive

-------------------------------------------------------------------------------
(* One responder per request, if all subscribe in one queue group.         *)

\* If all responders are in one queue group, one of them serves or answers a request.
OneSpeaker ==
    QueueGroups = {Responders} => \A r \in Requests :
        /\ \A p, q \in 1..Len(stream[r]) : stream[r][p].from = stream[r][q].from
        /\ \A d \in Responders : Queued(r, d) =>
              /\ \A p \in 1..Len(stream[r]) : stream[r][p].from = d
              /\ \A e \in Responders : Queued(r, e) => e = d

\* A published request reaches one responder, or the server answers it.
LEMMA RoutedToOne ==
    ASSUME IInv, Asked, QueueGroups = {Responders},
           NEW r \in Requests, pc[r] \in {"idle", "registered"}, RouteRequest(r)
    PROVE  /\ \A d, e \in Responders : Queued(r, d)' /\ Queued(r, e)' => e = d
           /\ stream' # stream => \A d \in Responders : ~Queued(r, d)'
  <1>1. TypeOK
    BY DEF IInv
  <1>2. \A d \in Responders : ~Queued(r, d)
    BY DEF Asked
  <1>3. ASSUME NEW chosen \in Routes, up # {},
               queue' = [d \in Responders |->
                            IF d \in chosen THEN Append(queue[d], r) ELSE queue[d]]
        PROVE  \A d, e \in Responders : Queued(r, d)' /\ Queued(r, e)' => e = d
    <2>1. up \subseteq Responders /\ chosen \subseteq up
      BY <1>1, <1>3 DEF TypeOK, Routes
    <2>2. PICK c \in Responders : Responders \cap chosen = {c}
      BY <1>3, <2>1 DEF Routes
    <2>3. \A d \in Responders : d # c => ~Queued(r, d)'
      BY <1>2, <1>3, <2>2 DEF Queued
    <2> QED
      BY <2>3
  <1>4. CASE UNCHANGED queue
    BY <1>2, <1>4 DEF Queued
  <1> QED
    BY <1>3, <1>4 DEF RouteRequest

\* With one queue group a request keeps having one responder at most.
LEMMA SpeakerStep == IInv /\ Asked /\ OneSpeaker /\ [Next]_vars => OneSpeaker'
  <1> SUFFICES ASSUME IInv, Asked, OneSpeaker, [Next]_vars, QueueGroups = {Responders},
                      NEW x \in Requests
               PROVE  /\ \A p, q \in 1..Len(stream'[x]) : stream'[x][p].from = stream'[x][q].from
                      /\ \A d \in Responders : Queued(x, d)' =>
                            /\ \A p \in 1..Len(stream'[x]) : stream'[x][p].from = d
                            /\ \A e \in Responders : Queued(x, e)' => e = d
    BY DEF OneSpeaker
  <1>1. TypeOK
    BY DEF IInv
  <1>2. CASE ForwardOnly(x) \/ Publish(x)
    <2>1. pc[x] \in {"idle", "registered"} /\ UNCHANGED <<chan, lost, taken>>
      BY <1>2 DEF ForwardOnly, Publish
    <2>2. stream[x] = <<>> /\ \A d \in Responders : ~Queued(x, d)
      BY <2>1 DEF Asked
    <2>3. CASE RouteRequest(x)
      <3>1. /\ \A d, e \in Responders : Queued(x, d)' /\ Queued(x, e)' => e = d
            /\ stream' # stream => \A d \in Responders : ~Queued(x, d)'
        BY <2>1, <2>3, RoutedToOne
      <3>2. CASE stream' = stream
        BY <2>2, <3>1, <3>2
      <3>3. CASE stream' # stream
        <4>1. x \notin PublishOnly /\ stream'[x] = Append(<<>>, [kind |-> "noResponders", head |-> "503", from |-> Server])
          BY <1>1, <2>2, <2>3, <3>3 DEF RouteRequest, PublishReply, TypeOK
        <4>2. Len(stream'[x]) = 1
          BY <4>1
        <4> QED
          BY <3>1, <3>3, <4>2
      <3> QED
        BY <3>2, <3>3
    <2>4. CASE UNCHANGED <<queue, stream, inbox>>
      BY <2>2, <2>4 DEF Queued
    <2> QED
      BY <1>2, <2>3, <2>4 DEF ForwardOnly, Publish
  <1>3. CASE ~ForwardOnly(x) /\ ~Publish(x)
    <2>1. \A d \in Responders : Queued(x, d)' => Queued(x, d)
      BY <1>3, QueuedBefore
    <2>2. CASE stream'[x] = stream[x]
      BY <2>1, <2>2 DEF OneSpeaker
    <2>3. CASE stream'[x] # stream[x] /\ ResponderPosts
      <3>1. PICK d \in Responders, m \in Reply : Serving(d) /\ m.from = d /\ Post(Head(queue[d]), m)
        BY <2>3 DEF ResponderPosts
      <3>2. Head(queue[d]) = x /\ Queued(x, d)
        BY <2>3, <3>1, ServedIsQueued, PostEffect
      <3>3. /\ \A p \in 1..Len(stream[x]) : stream[x][p].from = d
            /\ \A e \in Responders : Queued(x, e) => e = d
        BY <3>2 DEF OneSpeaker
      <3>4. /\ Len(stream'[x]) = Len(stream[x]) + 1 /\ Len(stream[x]) \in Nat
            /\ stream'[x][Len(stream[x]) + 1].from = d
        BY <3>1, <3>2, PostEffect
      <3>5. \A p \in 1..Len(stream[x]) : stream'[x][p] = stream[x][p]
        BY StreamGrows
      <3>6. \A p \in 1..Len(stream'[x]) : stream'[x][p].from = d
        BY <3>3, <3>4, <3>5
      <3> QED
        BY <2>1, <3>3, <3>6
    <2>4. CASE stream'[x] # stream[x] /\ ServerPosts
      BY <1>3, <2>4, PostEffect DEF ServerPosts
    <2> QED
      BY <2>2, <2>3, <2>4, StepFlow DEF Still, Arrive, Receive
  <1> QED
    BY <1>2, <1>3

-------------------------------------------------------------------------------
(* The invariant.                                                          *)

AInv == /\ IInv
        /\ Phases /\ Bodies /\ CompletedHasEnd
        /\ Accounted
        /\ Asked /\ Begun /\ Headed /\ FirstKept
        /\ Honest /\ OneSpeaker

\* The initial states have the invariant.
LEMMA InitAInv == Init => AInv
  <1> SUFFICES ASSUME Init
               PROVE  AInv
    OBVIOUS
  <1>1. IInv
    BY InitInv
  <1>2. Phases
    BY DEF Init, Phases, Over
  <1>3. Bodies /\ CompletedHasEnd
    <2>1. \A r \in Requests : body[r] = <<>> /\ taken[r] = <<>> /\ ~Answered(r)
      BY DEF Init, Answered, Over
    <2> QED
      BY <2>1 DEF Bodies, CompletedHasEnd, Increasing
  <1>4. Accounted /\ OneSpeaker
    <2>1. \A r \in Requests : 1..Len(stream[r]) = {}
      BY DEF Init
    <2>2. \A r \in Requests, d \in Responders : ~Queued(r, d)
      BY DEF Init, Queued
    <2> QED
      BY <2>1, <2>2 DEF Accounted, OneSpeaker
  <1>5. Asked /\ Begun /\ Headed /\ FirstKept /\ Honest
    BY DEF Init, Asked, Begun, Headed, FirstKept, Honest, Queued
  <1> QED
    BY <1>1, <1>2, <1>3, <1>4, <1>5 DEF AInv

\* Every step keeps the invariant, one part after the other.
LEMMA NextAInv == AInv /\ [Next]_vars => AInv'
  BY NextInv, PhasesStep, BodiesStep, EndsStep, AccountedStep, AskedStep, BegunStep, HeadedStep,
     FirstKeptStep, HonestStep, SpeakerStep DEF AInv

\* The invariant holds always.
LEMMA AnswerInvariance == Spec => []AInv
  BY InitAInv, NextAInv, PTL DEF Spec

-------------------------------------------------------------------------------
(* What the invariant says of a state.                                     *)

\* A reply a handler skipped was discarded before it.
LEMMA SkippedLost == AInv => SkippedWereLost
  <1> SUFFICES ASSUME AInv, NEW r \in Requests, NEW i \in DOMAIN taken[r], NEW p \in 1..taken[r][i].at
               PROVE  p \in lost[r] \/ \E j \in 1..i : taken[r][j].at = p
    BY DEF SkippedWereLost
  <1>1. TypeOK /\ Published /\ Ordered /\ Accounted
    BY DEF AInv, IInv
  <1>2. /\ taken[r] \in Seq(Envelope) /\ chan[r] \in Seq(Envelope) /\ stream[r] \in Seq(Reply)
        /\ taken[r][i].at \in Nat \ {0}
    <2>1. taken[r] \in Seq(Envelope) /\ chan[r] \in Seq(Envelope) /\ stream[r] \in Seq(Reply)
      BY <1>1 DEF TypeOK
    <2>2. taken[r][i] \in Envelope
      BY <2>1
    <2> QED
      BY <2>1, <2>2 DEF Envelope
  <1>3. p \in 1..Len(stream[r])
    BY <1>1, <1>2 DEF Published, InFlight
  <1>4. CASE Taken(r, p)
    <2>1. PICK j \in DOMAIN taken[r] : taken[r][j].at = p
      BY <1>4 DEF Taken
    <2>2. ~(i < j)
      BY <1>1, <1>2, <2>1 DEF Ordered, Increasing
    <2>3. j \in 1..i
      BY <1>2, <2>2
    <2> QED
      BY <2>1, <2>3
  <1>5. CASE InChan(r, p)
    BY <1>1, <1>2, <1>5 DEF InChan, Ordered
  <1>6. CASE InInbox(r, p)
    <2>1. PICK j \in DOMAIN inbox : inbox[j] = [req |-> r, at |-> p]
      BY <1>6 DEF InInbox
    <2>2. taken[r][i].at < p
      BY <1>1, <2>1 DEF Ordered
    <2> QED
      BY <1>2, <2>2
  <1> QED
    BY <1>1, <1>3, <1>4, <1>5, <1>6 DEF Accounted

\* An answer that was completed is whole.
LEMMA BodyWhole == AInv => WholeBody
  <1> SUFFICES ASSUME AInv, NEW r \in Requests, Answered(r), lost[r] = {}
               PROVE  LET upToEnd == {[req |-> r, at |-> p] : p \in 1..Last(taken[r]).at}
                      IN /\ Range(body[r]) = {e \in upToEnd : IsData(e)}
                         /\ \A i, j \in DOMAIN body[r] : i < j => body[r][i].at < body[r][j].at
    BY DEF WholeBody, IsData
  <1> DEFINE last == Len(taken[r])
             upToEnd == {[req |-> r, at |-> p] : p \in 1..Last(taken[r]).at}
  <1>1. TypeOK /\ Published /\ Ordered /\ Bodies /\ CompletedHasEnd /\ SkippedWereLost
    BY SkippedLost DEF AInv, IInv
  <1>2. taken[r] \in Seq(Envelope) /\ taken[r] # <<>> /\ reason[r] # "write_error"
    BY <1>1 DEF TypeOK, CompletedHasEnd, Answered
  <1>3. last \in DOMAIN taken[r] /\ Last(taken[r]) = taken[r][last]
    BY <1>2 DEF Last
  <1>4. ASSUME NEW i \in DOMAIN taken[r]
        PROVE  /\ taken[r][i] = [req |-> r, at |-> taken[r][i].at]
               /\ taken[r][i].at \in 1..taken[r][last].at
    <2>1. taken[r][i] \in Envelope /\ taken[r][last] \in Envelope /\ taken[r][i].req = r
      BY <1>1, <1>2, <1>3 DEF Published, InFlight
    <2>2. taken[r][i].at <= taken[r][last].at
      BY <1>1, <1>2, <1>3, <2>1 DEF Ordered, Increasing, Envelope
    <2> QED
      BY <2>1, <2>2 DEF Envelope
  <1>5. ASSUME NEW j \in DOMAIN body[r]
        PROVE  body[r][j] \in upToEnd /\ IsData(body[r][j])
    <2>1. PICK i \in DOMAIN taken[r] : taken[r][i] = body[r][j]
      BY <1>1 DEF Bodies
    <2> QED
      BY <1>1, <1>3, <1>4, <2>1 DEF Bodies
  <1>6. ASSUME NEW p \in 1..Last(taken[r]).at, IsData([req |-> r, at |-> p])
        PROVE  \E j \in DOMAIN body[r] : body[r][j] = [req |-> r, at |-> p]
    <2>1. PICK k \in 1..last : taken[r][k].at = p
      BY <1>1, <1>3, <1>6 DEF SkippedWereLost
    <2>2. k \in DOMAIN taken[r]
      BY <1>2
    <2>3. taken[r][k] = [req |-> r, at |-> p]
      BY <1>4, <2>1, <2>2
    <2> QED
      BY <1>1, <1>2, <1>6, <2>2, <2>3 DEF Bodies
  <1>7. Range(body[r]) = {e \in upToEnd : IsData(e)}
    <2>1. \A e : e \in Range(body[r]) <=> \E j \in DOMAIN body[r] : body[r][j] = e
      BY DEF Range
    <2> QED
      BY <1>5, <1>6, <2>1
  <1> QED
    BY <1>1, <1>7 DEF Bodies, Increasing

-------------------------------------------------------------------------------
(* The theorems.                                                           *)

\* Only the lookup of the callback finds a channel.
LEMMA FoundByLoad ==
    ASSUME IInv, [Next]_vars, ~found, found'
    PROVE  Load
  <1>1. ASSUME NEW r \in Requests, Local(r)
        PROVE  UNCHANGED found
    BY <1>1 DEF Local, Reject, Register, PublishFails, ObserveGone, Timeout, Unregister,
       PublishClosed, ClientGone, natsVars
  <1>2. ASSUME NEW r \in Requests, ForwardOnly(r) \/ Publish(r)
        PROVE  UNCHANGED found
    BY <1>2 DEF ForwardOnly, Publish
  <1>3. ASSUME NEW r \in Requests, TakeData(r) \/ TakeDataWriteFails(r) \/ TakeEnd(r)
        PROVE  UNCHANGED found
    BY <1>3 DEF TakeData, TakeDataWriteFails, TakeEnd, Receive
  <1>4. CASE Offer \/ LoseReply \/ UNCHANGED vars
    BY <1>4 DEF Offer, LoseReply, vars, natsVars
  <1>5. ASSUME NEW d \in Responders, ResponderStep(d) \/ Crash(d) \/ Restart(d)
        PROVE  UNCHANGED found
    BY <1>5 DEF ResponderStep, AnswerError, AnswerNothing, BackendAnswers, ReadChunk, ReadEOF,
       ReadError, ServicePublish, ServiceReturn, Crash, Restart, natsVars
  <1> QED
    BY <1>1, <1>2, <1>3, <1>4, <1>5 DEF Next, HandlerStep, Local, Dispatch

\* A handler misses no reply but those that dispatch or NATS discarded
\* (proxy.go:265-274, 488-546).
THEOREM NothingStuck == Spec => []SkippedWereLost
  BY AnswerInvariance, SkippedLost, PTL

\* An exchange is called completed only on a reply that ends the answer
\* (proxy.go:522-545, reverse.go:488-497).
THEOREM CompletedByEnd == Spec => []CompletedHasEnd
  <1>1. AInv => CompletedHasEnd
    BY DEF AInv
  <1> QED
    BY <1>1, AnswerInvariance, PTL

\* The body of a completed exchange that lost nothing is everything published for
\* it, in order (proxy.go:522-539, reverse.go:402-436).
THEOREM CompletedIsWhole == Spec => []WholeBody
  BY AnswerInvariance, BodyWhole, PTL

\* The proxy's own error text is never mixed into an answer (proxy.go:477, 501-503).
THEOREM ErrorPageAlone == Spec => []NoErrorPageInAnswer
  <1>1. AInv => NoErrorPageInAnswer
    <2> SUFFICES ASSUME AInv, NEW r \in errorPage
                 PROVE  body[r] = <<>>
      BY DEF NoErrorPageInAnswer
    <2>1. TypeOK /\ Phases /\ Bodies
      BY DEF AInv, IInv
    <2>2. r \in Requests /\ taken[r] = <<>> /\ body[r] \in Seq(Envelope)
      BY <2>1 DEF TypeOK, Phases
    <2>3. \A j \in DOMAIN body[r] : FALSE
      BY <2>1, <2>2 DEF Bodies
    <2>4. Len(body[r]) \in Nat /\ DOMAIN body[r] = 1..Len(body[r])
      BY <2>2
    <2>5. Len(body[r]) = 0
      BY <2>3, <2>4
    <2> QED
      BY <2>2, <2>5
  <1> QED
    BY <1>1, AnswerInvariance, PTL

\* Whatever the capacity of the channels, a full one never costs the client its status
\* line, as long as NATS itself discards nothing (proxy.go:472-475, 516-519, 825-838).
THEOREM StatusIsHonest ==
    ASSUME ~LossyInbox
    PROVE  Spec => []HonestStatus
  <1>1. AInv => HonestStatus
    BY DEF AInv, Honest, HonestStatus
  <1> QED
    BY <1>1, AnswerInvariance, PTL

\* If every responder subscribes in one queue group, a client hears one of them
\* (reverse.go:130-134, README.md:250).
THEOREM OneGroupOneVoice ==
    ASSUME QueueGroups = {Responders}
    PROVE  Spec => []OneVoice
  <1>1. AInv => OneVoice
    <2> SUFFICES ASSUME AInv, NEW r \in Requests, NEW i \in DOMAIN body[r], NEW j \in DOMAIN body[r]
                 PROVE  Msg(body[r][i]).from = Msg(body[r][j]).from
      BY DEF OneVoice
    <2>1. TypeOK /\ Published /\ Bodies /\ OneSpeaker
      BY DEF AInv, IInv
    <2>2. ASSUME NEW k \in DOMAIN body[r]
          PROVE  body[r][k].req = r /\ body[r][k].at \in 1..Len(stream[r])
      <3>1. PICK l \in DOMAIN taken[r] : taken[r][l] = body[r][k]
        BY <2>1 DEF Bodies
      <3>2. taken[r][l] \in Envelope /\ InFlight(taken[r][l], r) /\ stream[r] \in Seq(Reply)
        BY <2>1 DEF TypeOK, Published
      <3> QED
        BY <3>1, <3>2 DEF InFlight, Envelope
    <2>3. \A p, q \in 1..Len(stream[r]) : stream[r][p].from = stream[r][q].from
      BY <2>1 DEF OneSpeaker
    <2> QED
      BY <2>2, <2>3 DEF Msg
  <1> QED
    BY <1>1, AnswerInvariance, PTL

\* While a handler waits, dispatch discards a reply of its request only because the
\* channel is full (proxy.go:268-273).
THEOREM DiscardOnlyWhenFull ==
    ASSUME ~LossyInbox
    PROVE  Spec => DropOnlyWhenFull
  <1>1. AInv /\ [Next]_vars =>
           [\A r \in Requests :
               pc[r] = "waiting" /\ lost'[r] # lost[r] => Len(chan[r]) = RespChanBuffer]_vars
    <2> SUFFICES ASSUME AInv, [Next]_vars,
                        NEW r \in Requests, pc[r] = "waiting", lost'[r] # lost[r]
                 PROVE  Len(chan[r]) = RespChanBuffer
      OBVIOUS
    <2>1. TypeOK /\ IInv /\ Phases
      BY DEF AInv, IInv
    <2>2. Arrive
      BY <2>1, StepFlow, PostEffect DEF Still, Receive, ServerPosts, ResponderPosts
    <2>3. /\ Head(inbox).req \notin pending \/ ~HasRoom(Head(inbox))
          /\ Discard(Head(inbox))
      BY <2>2 DEF Arrive
    <2>4. Head(inbox).req = r
      BY <2>1, <2>3 DEF Discard, TypeOK
    <2>5. r \in pending
      BY <2>1 DEF Phases
    <2>6. ~(Len(chan[r]) < RespChanBuffer)
      BY <2>3, <2>4, <2>5 DEF HasRoom
    <2>7. Len(chan[r]) \in Nat /\ RespChanBuffer \in Nat /\ Len(chan[r]) <= RespChanBuffer
      BY <2>1, ConfigAssumption DEF TypeOK
    <2> QED
      BY <2>6, <2>7
  <1> QED
    BY <1>1, AnswerInvariance, PTL DEF Spec, DropOnlyWhenFull

\* Once the close notice of an exchange is out dispatch finds its channel for no further
\* reply; only a reply it had looked up before can still be put there
\* (proxy.go:265-268, 455-473).
THEOREM UnknownAfterClose == Spec => ClosedThenUnknown
  <1>1. AInv /\ [Next]_vars =>
           [\A r \in Requests : closed[r] # "none" /\ found' /\ Head(inbox').req = r => found]_vars
    <2> SUFFICES ASSUME AInv, [Next]_vars,
                        NEW r \in Requests, closed[r] # "none", found', Head(inbox').req = r, ~found
                 PROVE  FALSE
      OBVIOUS
    <2>1. TypeOK /\ IInv /\ Phases
      BY DEF AInv, IInv
    <2>2. r \notin pending
      BY <2>1 DEF Phases
    <2>3. Load
      BY <2>1, FoundByLoad
    <2> QED
      BY <2>2, <2>3 DEF Load
  <1> QED
    BY <1>1, AnswerInvariance, PTL DEF Spec, ClosedThenUnknown
-------------------------------------------------------------------------------
(* The refinement mapping, one exchange at a time.                         *)

KindsOf(s) == [i \in 1..Len(s) |-> s[i].kind]
PositionsOf(s) == [i \in 1..Len(s) |-> s[i].at]
OutcomeOf(r) == IF ~Over(r) THEN "open" ELSE IF Answered(r) THEN "complete" ELSE "abandoned"

\* The length of a sequence is that of the interval it is a function on.
LEMMA SequenceLength ==
    ASSUME NEW S, NEW n \in Nat, NEW f \in [1..n -> S], f \in Seq(S)
    PROVE  Len(f) = n
  <1>1. Len(f) \in Nat /\ DOMAIN f = 1..Len(f)
    BY LenProperties
  <1>2. 1..Len(f) = 1..n
    BY <1>1
  <1>3. \A i \in Nat \ {0} : i <= Len(f) <=> i <= n
    BY <1>1, <1>2
  <1> QED
    BY <1>1, <1>3

\* The mapping forgets all of a reply but its kind.
LEMMA KindsOfAppend ==
    ASSUME NEW s \in Seq(Reply), NEW m \in Reply
    PROVE  KindsOf(Append(s, m)) = Append(KindsOf(s), m.kind)
  <1> DEFINE t == Append(s, m)
             k == KindsOf(s)
  <1>1. /\ Len(s) \in Nat /\ Len(t) = Len(s) + 1 /\ t \in Seq(Reply)
        /\ \A i \in 1..Len(s) : t[i] = s[i]
        /\ t[Len(s) + 1] = m
    OBVIOUS
  <1>0. \A u \in Seq(Reply) : \A i \in 1..Len(u) : u[i].kind \in Kinds
    <2>1. \A v \in Reply : v.kind \in Kinds
      BY DEF Reply
    <2> QED
      BY <2>1, ElementOfSeq
  <1>2. k \in Seq(Kinds) /\ Len(k) = Len(s)
    <2>1. k \in [1..Len(s) -> Kinds]
      BY <1>0 DEF KindsOf
    <2>2. k \in Seq(Kinds)
      BY <1>1, <2>1, SeqDef
    <2> QED
      BY <1>1, <2>1, <2>2, SequenceLength
  <1>3. KindsOf(t) \in Seq(Kinds) /\ Len(KindsOf(t)) = Len(t)
    <2>1. KindsOf(t) \in [1..Len(t) -> Kinds]
      BY <1>0, <1>1 DEF KindsOf
    <2>2. KindsOf(t) \in Seq(Kinds)
      BY <1>1, <2>1, SeqDef
    <2> QED
      BY <1>1, <2>1, <2>2, SequenceLength
  <1>4. m.kind \in Kinds
    BY DEF Reply
  <1>5. /\ Append(k, m.kind) \in Seq(Kinds)
        /\ Len(Append(k, m.kind)) = Len(s) + 1
        /\ \A i \in 1..Len(s) : Append(k, m.kind)[i] = k[i]
        /\ Append(k, m.kind)[Len(s) + 1] = m.kind
    BY <1>2, <1>4
  <1>6. \A i \in 1..Len(s) + 1 : KindsOf(t)[i] = Append(k, m.kind)[i]
    BY <1>1, <1>5 DEF KindsOf
  <1> HIDE DEF k, t
  <1>7. KindsOf(t) = Append(k, m.kind)
    BY <1>1, <1>3, <1>5, <1>6, SeqEqual
  <1> QED
    BY <1>7 DEF k, t

\* And all of what a handler took but its position.
LEMMA PositionsOfAppend ==
    ASSUME NEW s \in Seq(Envelope), NEW e \in Envelope
    PROVE  PositionsOf(Append(s, e)) = Append(PositionsOf(s), e.at)
  <1> DEFINE t == Append(s, e)
             k == PositionsOf(s)
             P == Nat \ {0}
  <1>1. /\ Len(s) \in Nat /\ Len(t) = Len(s) + 1 /\ t \in Seq(Envelope)
        /\ \A i \in 1..Len(s) : t[i] = s[i]
        /\ t[Len(s) + 1] = e
    OBVIOUS
  <1>0. \A u \in Seq(Envelope) : \A i \in 1..Len(u) : u[i].at \in P
    <2>1. \A v \in Envelope : v.at \in P
      BY DEF Envelope
    <2> QED
      BY <2>1, ElementOfSeq
  <1>2. k \in Seq(P) /\ Len(k) = Len(s)
    <2>1. k \in [1..Len(s) -> P]
      BY <1>0 DEF PositionsOf
    <2>2. k \in Seq(P)
      BY <1>1, <2>1, SeqDef
    <2> QED
      BY <1>1, <2>1, <2>2, SequenceLength
  <1>3. PositionsOf(t) \in Seq(P) /\ Len(PositionsOf(t)) = Len(t)
    <2>1. PositionsOf(t) \in [1..Len(t) -> P]
      BY <1>0, <1>1 DEF PositionsOf
    <2>2. PositionsOf(t) \in Seq(P)
      BY <1>1, <2>1, SeqDef
    <2> QED
      BY <1>1, <2>1, <2>2, SequenceLength
  <1>4. e.at \in P
    BY DEF Envelope
  <1>5. /\ Append(k, e.at) \in Seq(P)
        /\ Len(Append(k, e.at)) = Len(s) + 1
        /\ \A i \in 1..Len(s) : Append(k, e.at)[i] = k[i]
        /\ Append(k, e.at)[Len(s) + 1] = e.at
    BY <1>2, <1>4
  <1>6. \A i \in 1..Len(s) + 1 : PositionsOf(t)[i] = Append(k, e.at)[i]
    BY <1>1, <1>5 DEF PositionsOf
  <1> HIDE DEF k, t, P
  <1>7. PositionsOf(t) = Append(k, e.at)
    BY <1>1, <1>3, <1>5, <1>6, SeqEqual
  <1> QED
    BY <1>7 DEF k, t

\* The mapping of all exchanges is the mapping of each.
LEMMA Mapping ==
    /\ postedBar = [r \in Exchanges |-> KindsOf(stream[r])]
    /\ gotBar = [r \in Exchanges |-> PositionsOf(taken[r])]
    /\ outcomeBar = [r \in Exchanges |-> OutcomeOf(r)]
  BY DEF postedBar, gotBar, outcomeBar, KindsOf, PositionsOf, OutcomeOf

\* The same of the next state.
LEMMA MappingNext ==
    /\ postedBar' = [r \in Exchanges |-> KindsOf(stream'[r])]
    /\ gotBar' = [r \in Exchanges |-> PositionsOf(taken'[r])]
    /\ outcomeBar' = [r \in Exchanges |-> OutcomeOf(r)']
  BY DEF postedBar, gotBar, outcomeBar, KindsOf, PositionsOf, OutcomeOf

-------------------------------------------------------------------------------
(* Outcomes.                                                               *)

\* A step that receives nothing abandons one exchange and moves no reply, or leaves
\* every outcome as it was.
LEMMA OutcomeStep ==
    ASSUME AInv, [Next]_vars,
           ~\E r \in Requests : TakeData(r) \/ TakeDataWriteFails(r) \/ TakeEnd(r)
    PROVE  \/ \A x \in Exchanges : OutcomeOf(x)' = OutcomeOf(x)
           \/ /\ Still
              /\ \E r \in Exchanges : /\ OutcomeOf(r) = "open" /\ OutcomeOf(r)' = "abandoned"
                                      /\ \A x \in Exchanges \ {r} : OutcomeOf(x)' = OutcomeOf(x)
  <1> DEFINE Same == \A x \in Exchanges : OutcomeOf(x)' = OutcomeOf(x)
             Given(r) == /\ OutcomeOf(r) = "open" /\ OutcomeOf(r)' = "abandoned"
                         /\ \A x \in Exchanges \ {r} : OutcomeOf(x)' = OutcomeOf(x)
  <1>1. TypeOK /\ Phases /\ IInv /\ Exchanges \subseteq Requests
    BY DEF AInv, IInv, Exchanges
  <1>2. ASSUME UNCHANGED <<pc, reason, errorPage, status>>
        PROVE  Same
    BY <1>2 DEF OutcomeOf, Answered, Over
  <1>3. ASSUME NEW r \in Requests, Local(r)
        PROVE  Same \/ (r \in Exchanges /\ Given(r))
    <2>1. CASE Reject(r)
      BY <1>1, <2>1 DEF Reject, OutcomeOf, Answered, Over, TypeOK
    <2>2. CASE Register(r)
      BY <1>1, <2>2 DEF Register, OutcomeOf, Answered, Over, TypeOK
    <2>3. CASE PublishFails(r)
      BY <1>1, <2>3 DEF PublishFails, OutcomeOf, Answered, Over, TypeOK
    <2>4. CASE ObserveGone(r)
      BY <1>1, <2>4 DEF ObserveGone, ReturnBecause, OutcomeOf, Answered, Over, TypeOK
    <2>5. CASE Timeout(r)
      BY <1>1, <2>5 DEF Timeout, TimerMayFire, ReturnBecause, OutcomeOf, Answered, Over, TypeOK
    <2>6. CASE Unregister(r)
      BY <1>1, <2>6 DEF Unregister, OutcomeOf, Answered, Over, TypeOK
    <2>7. CASE PublishClosed(r)
      BY <1>1, <2>7 DEF PublishClosed, OutcomeOf, Answered, Over, TypeOK
    <2>8. CASE ClientGone(r)
      BY <1>2, <2>8 DEF ClientGone
    <2> QED
      BY <1>3, <2>1, <2>2, <2>3, <2>4, <2>5, <2>6, <2>7, <2>8 DEF Local
  <1>4. ASSUME NEW r \in Requests, ForwardOnly(r)
        PROVE  Same
    BY <1>1, <1>4 DEF ForwardOnly, Exchanges, OutcomeOf, Answered, Over, TypeOK
  <1>5. ASSUME NEW r \in Requests, Publish(r)
        PROVE  Same
    BY <1>1, <1>5 DEF Publish, OutcomeOf, Answered, Over, TypeOK
  <1>6. CASE Dispatch \/ LoseReply \/ UNCHANGED vars
    BY <1>2, <1>6 DEF Dispatch, Load, Offer, LoseReply, vars, handlerVars
  <1>7. ASSUME NEW d \in Responders, ResponderStep(d) \/ Crash(d) \/ Restart(d)
        PROVE  Same
    BY <1>1, <1>2, <1>7, ResponderFlow DEF handlerVars
  <1>8. CASE \E r \in Requests : Local(r)
    <2>1. PICK r \in Requests : Local(r)
      BY <1>8
    <2>2. Still
      BY <2>1, LocalFlow
    <2> QED
      BY <1>3, <2>1, <2>2
  <1> QED
    BY <1>4, <1>5, <1>6, <1>7, <1>8 DEF Next, HandlerStep, Local

-------------------------------------------------------------------------------
(* Every step is a step of ReplyStream or a stutter.                       *)

\* A published reply is a post.
LEMMA PostRefines ==
    ASSUME AInv, [Next]_vars, NEW r \in Requests, NEW m \in Reply, Post(r, m)
    PROVE  [Stream!Next]_(Stream!vars)
  <1>1. IInv /\ TypeOK /\ taken' = taken
    BY DEF AInv, IInv, Post
  <1>2. stream' = [stream EXCEPT ![r] = Append(@, m)] /\ stream \in [Requests -> Seq(Reply)]
    BY <1>1 DEF Post, PublishReply, TypeOK
  <1>3. gotBar' = gotBar
    BY <1>1, Mapping, MappingNext
  <1>4. outcomeBar' = outcomeBar
    <2>1. ~\E x \in Requests : TakeData(x) \/ TakeDataWriteFails(x) \/ TakeEnd(x)
      BY <1>1, PostEffect DEF TakeData, TakeDataWriteFails, TakeEnd, Receive
    <2>2. ~Still
      BY <1>1, PostEffect DEF Still
    <2> QED
      BY <2>1, <2>2, OutcomeStep, Mapping, MappingNext
  <1>5. CASE r \in Exchanges
    <2>1. KindsOf(stream'[r]) = Append(KindsOf(stream[r]), m.kind)
      BY <1>2, KindsOfAppend
    <2>2. postedBar' = [postedBar EXCEPT ![r] = Append(@, m.kind)]
      BY <1>2, <1>5, <2>1, Mapping, MappingNext DEF Exchanges
    <2>3. m.kind \in Kinds
      BY DEF Reply
    <2> QED
      BY <1>3, <1>4, <1>5, <2>2, <2>3 DEF Stream!Next, Stream!Post
  <1>6. CASE r \notin Exchanges
    <2>1. \A x \in Exchanges : stream'[x] = stream[x]
      BY <1>2, <1>6 DEF Exchanges
    <2>2. postedBar' = postedBar
      BY <2>1, Mapping, MappingNext
    <2> QED
      BY <1>3, <1>4, <2>2 DEF Stream!vars
  <1> QED
    BY <1>5, <1>6

\* A message a handler takes is a receive, which completes the exchange, leaves it
\* open, or abandons it because the write failed.
LEMMA TakeRefines ==
    ASSUME AInv, [Next]_vars,
           NEW r \in Requests, TakeData(r) \/ TakeDataWriteFails(r) \/ TakeEnd(r)
    PROVE  [Stream!Next]_(Stream!vars)
  <1> DEFINE e == chan[r][1]
             p == e.at
  <1>1. IInv /\ TypeOK /\ Phases /\ Ordered
    BY DEF AInv, IInv
  <1>2. Receive(r) /\ ~Over(r)
    BY <1>1, TakeOutcome
  <1>3. r \in Exchanges /\ Exchanges \subseteq Requests /\ r \notin PublishOnly
    BY <1>1, <1>2 DEF Receive, Phases, Exchanges
  <1>4. /\ e = Head(chan[r]) /\ 1 \in DOMAIN chan[r] /\ e \in Envelope
        /\ p \in 1..Len(stream[r]) /\ Msg(e) = stream[r][p]
        /\ \A i \in DOMAIN taken[r] : taken[r][i].at < p
        /\ taken[r] \in Seq(Envelope) /\ stream[r] \in Seq(Reply)
        /\ stream' = stream
    BY <1>1, <1>2, ReceiveStatus, TakeEffect DEF TypeOK
  <1>5. taken' = [taken EXCEPT ![r] = Append(taken[r], e)] /\ taken \in [Requests -> Seq(Envelope)]
    BY <1>1, <1>2, <1>4, ReceiveStatus DEF TypeOK
  <1>6. postedBar' = postedBar
    BY <1>4, Mapping, MappingNext
  <1>7. gotBar' = [gotBar EXCEPT ![r] = Append(@, p)]
    <2>1. PositionsOf(taken'[r]) = Append(PositionsOf(taken[r]), p)
      BY <1>3, <1>4, <1>5, PositionsOfAppend
    <2> HIDE DEF p
    <2> QED
      BY <1>3, <1>5, <2>1, Mapping, MappingNext
  <1>8. p \in (Stream!LastGot(r) + 1)..Len(postedBar[r])
    <2>1. Len(postedBar[r]) = Len(stream[r])
      <3>1. Len(stream[r]) \in Nat /\ KindsOf(stream[r]) \in [1..Len(stream[r]) -> Kinds]
        <4>1. \A i \in 1..Len(stream[r]) : stream[r][i] \in Reply
          BY <1>4
        <4> QED
          BY <1>4, <4>1 DEF KindsOf, Reply
      <3>2. KindsOf(stream[r]) \in Seq(Kinds)
        BY <3>1, SeqDef
      <3> QED
        BY <1>3, <3>1, <3>2, SequenceLength, Mapping
    <2>2. Stream!LastGot(r) \in Nat /\ Stream!LastGot(r) < p
      <3> DEFINE g == PositionsOf(taken[r])
      <3>1. Len(taken[r]) \in Nat /\ DOMAIN taken[r] = 1..Len(taken[r])
        BY <1>4
      <3>2. g \in [1..Len(taken[r]) -> Nat \ {0}]
        <4>1. \A i \in 1..Len(taken[r]) : taken[r][i] \in Envelope
          BY <1>4
        <4> QED
          BY <4>1 DEF PositionsOf, Envelope
      <3>3. g \in Seq(Nat \ {0})
        BY <3>1, <3>2, SeqDef
      <3>4. Len(g) = Len(taken[r])
        BY <3>1, <3>2, <3>3, SequenceLength
      <3>5. gotBar[r] = g
        BY <1>3, Mapping
      <3>6. \A i \in 1..Len(taken[r]) : g[i] = taken[r][i].at
        BY DEF PositionsOf
      <3> HIDE DEF g, p
      <3>7. CASE g = <<>>
        <4>1. Stream!LastGot(r) = 0
          BY <3>5, <3>7 DEF Stream!LastGot
        <4>2. p \in Nat /\ 0 < p
          BY <1>4
        <4> QED
          BY <4>1, <4>2
      <3>8. CASE g # <<>>
        <4>1. Len(g) \in 1..Len(taken[r])
          BY <3>1, <3>3, <3>4, <3>8
        <4>2. Stream!LastGot(r) = taken[r][Len(g)].at
          BY <3>5, <3>6, <3>8, <4>1 DEF Stream!LastGot
        <4>3. g[Len(g)] \in Nat
          BY <3>2, <4>1
        <4> QED
          BY <1>4, <3>1, <3>6, <4>1, <4>2, <4>3
      <3> QED
        BY <3>7, <3>8
    <2> HIDE DEF p
    <2> QED
      BY <1>4, <2>1, <2>2
  <1>9. postedBar[r][p] = Msg(e).kind
    BY <1>3, <1>4, Mapping DEF KindsOf
  <1>10. /\ OutcomeOf(r) = "open"
         /\ Msg(e).kind \in EndKinds => OutcomeOf(r)' = "complete"
         /\ Msg(e).kind \notin EndKinds => OutcomeOf(r)' \in {"open", "abandoned"}
         /\ \A x \in Exchanges \ {r} : OutcomeOf(x)' = OutcomeOf(x)
    BY <1>1, <1>3, TakeOutcome DEF OutcomeOf
  <1> DEFINE o == OutcomeOf(r)'
  <1>11. outcomeBar[r] = "open" /\ outcomeBar' = [outcomeBar EXCEPT ![r] = o]
    BY <1>3, <1>10, Mapping, MappingNext
  <1>12. o \in IF postedBar[r][p] \in EndKinds THEN {"complete"} ELSE {"open", "abandoned"}
    BY <1>9, <1>10
  <1> HIDE DEF p, o
  <1> QED
    BY <1>3, <1>6, <1>7, <1>8, <1>11, <1>12 DEF Stream!Next, Stream!Receive

\* Every step of HttpTunnel is a step of ReplyStream or changes no exchange.
LEMMA StepRefines == AInv /\ [Next]_vars => [Stream!Next]_(Stream!vars)
  <1> SUFFICES ASSUME AInv, [Next]_vars
               PROVE  [Stream!Next]_(Stream!vars)
    OBVIOUS
  <1>1. IInv
    BY DEF AInv
  <1>2. CASE \E r \in Requests : TakeData(r) \/ TakeDataWriteFails(r) \/ TakeEnd(r)
    BY <1>2, TakeRefines
  <1>3. CASE ServerPosts \/ ResponderPosts
    BY <1>3, PostRefines DEF ServerPosts, ResponderPosts
  <1>4. CASE /\ ~\E r \in Requests : TakeData(r) \/ TakeDataWriteFails(r) \/ TakeEnd(r)
             /\ stream' = stream /\ taken' = taken
    <2>1. postedBar' = postedBar /\ gotBar' = gotBar
      BY <1>4, Mapping, MappingNext
    <2>2. CASE \A x \in Exchanges : OutcomeOf(x)' = OutcomeOf(x)
      <3>1. outcomeBar' = outcomeBar
        BY <2>2, Mapping, MappingNext
      <3> QED
        BY <2>1, <3>1 DEF Stream!vars
    <2>3. ASSUME NEW r \in Exchanges,
                 OutcomeOf(r) = "open", OutcomeOf(r)' = "abandoned",
                 \A x \in Exchanges \ {r} : OutcomeOf(x)' = OutcomeOf(x)
          PROVE  [Stream!Next]_(Stream!vars)
      <3>1. outcomeBar[r] = "open" /\ outcomeBar' = [outcomeBar EXCEPT ![r] = "abandoned"]
        BY <2>3, Mapping, MappingNext
      <3> QED
        BY <2>1, <3>1 DEF Stream!Next, Stream!Abandon
    <2> QED
      BY <1>4, <2>2, <2>3, OutcomeStep
  <1>5. ASSUME NEW r \in Requests, Receive(r),
               ~\E x \in Requests : TakeData(x) \/ TakeDataWriteFails(x) \/ TakeEnd(x)
        PROVE  FALSE
    <2>1. UNCHANGED taken
      BY <1>1, <1>5, QuietStep DEF AInv
    <2>2. Len(taken'[r]) = Len(taken[r]) + 1 /\ Len(taken[r]) \in Nat
      BY <1>1, <1>5, TakeEffect
    <2> QED
      BY <2>1, <2>2
  <1> QED
    BY <1>1, <1>2, <1>3, <1>4, <1>5, StepFlow DEF Still, Arrive, handlerVars

\* In the beginning nothing is posted, and every exchange is open.
LEMMA InitRefines == Init => Stream!Init
  <1> SUFFICES ASSUME Init
               PROVE  Stream!Init
    OBVIOUS
  <1>1. Exchanges \subseteq Requests
    BY DEF Exchanges
  <1>2. \A r \in Exchanges : KindsOf(stream[r]) = <<>> /\ PositionsOf(taken[r]) = <<>>
    BY <1>1 DEF Init, KindsOf, PositionsOf
  <1>3. \A r \in Exchanges : OutcomeOf(r) = "open"
    BY <1>1 DEF Init, OutcomeOf, Over
  <1> QED
    BY <1>2, <1>3, Mapping DEF Stream!Init

\* The HTTP path implements ReplyStream: through the shared subscription, the dispatcher,
\* the bounded channel and the timer, an exchange receives posted replies in order and at
\* most once, and nothing after its end (proxy.go:257-275, 442-548).
THEOREM HttpImplementsReplyStream == Spec => ImplementsReplyStream
  BY AnswerInvariance, InitRefines, StepRefines, PTL DEF Spec, ImplementsReplyStream, Stream!Spec
=============================================================================
