------------------------------ MODULE HttpTunnel ------------------------------
(***************************************************************************)
(* The HTTP path of h8s: a request handler of h8sproxy publishes a request *)
(* on NATS, an h8srd instance or an h8sservice answers it with a stream of *)
(* reply messages, and the dispatcher of the proxy hands the replies to    *)
(* the handler through a bounded channel.                                  *)
(*                                                                         *)
(* Three kinds of process interleave: the handler goroutines (one per      *)
(* request), the callback of the proxy's one reply subscription            *)
(* (dispatch), and the callbacks of the responders' subscriptions.  NATS   *)
(* is external: it delivers a message to the live subscribers, keeps the   *)
(* order within one subscription, may drop what a subscription has not yet *)
(* handled, and answers for a subject nobody subscribes to.                *)
(***************************************************************************)
EXTENDS Naturals, Sequences, SequencesExt

CONSTANTS
    Requests,        \* the HTTP requests the proxy admits (one reply inbox token each)
    Reverses,        \* h8srd data subscriptions that match the requests' subject
    Services,        \* h8sservice (nats micro) endpoints on that subject
    QueueGroups,     \* the queue groups they subscribe in; a subscriber without one is a group of its own
    RespChanBuffer,  \* capacity of a handler's response channel
    PublishOnly,     \* the requests that reach a proxy with the PublishOnly option
    LossyInbox,      \* does NATS discard replies of a slow reply subscription?
    MaxChunks,       \* bound: messages a service, body chunks an h8srd publishes per answer
    MaxCrashes       \* bound: responder crashes

Responders == Reverses \cup Services

ASSUME ConfigAssumption ==
    /\ Reverses \cap Services = {}
    /\ UNION QueueGroups = Responders
    /\ \A g, h \in QueueGroups : g # h => g \cap h = {}
    /\ RespChanBuffer \in Nat \ {0}
    /\ PublishOnly \subseteq Requests
    /\ LossyInbox \in BOOLEAN
    /\ MaxChunks \in Nat
    /\ MaxCrashes \in Nat

\* What a reply message is to the proxy.  "eof" and "cut" are the same empty
\* message on the wire; they differ in what happened at the backend.
Kinds == {"chunk",          \* body data
          "eof",            \* empty message: h8srd's after the last byte of the body, or a service's
          "cut",            \* empty message after a read error on the backend's body
          "error",          \* text of an error h8srd answers with
          "single",         \* complete answer of a service, with Content-Length
          "term",           \* data "0\r\n\r\n"
          "noResponders"}   \* the empty 503 message of the NATS server
EndKinds == {"eof", "cut", "single", "term", "noResponders"}

\* The status header of a reply message; "none" if it carries no header.
Heads == {"none", "backend", "502", "400", "503"}
\* The status the client is answered with; "none" before headers are written.
Statuses == Heads \cup {"fallback200", "200", "504", "403", "404"}
Reasons == {"completed", "ctx_done", "timeout", "termination_chunk", "write_error"}

Server == "nats-server"
Reply == [kind : Kinds, head : Heads, from : Responders \cup {Server}]
\* A message on its way to the handler: the at-th reply published for req.
Envelope == [req : Requests, at : Nat \ {0}]

VARIABLES
    pc,        \* where the handler of a request is
    gone,      \* requests whose client has disconnected
    pending,   \* keys of pendingReqs
    chan,      \* respChan of each request
    status,    \* status line written to the client
    body,      \* data messages written to the client
    errorPage, \* requests answered with the text of an http.Error of the proxy
    reason,    \* the handler's local variable reason
    closed,    \* reason published on the connection close subject; "none" before
    inbox,     \* pending messages of the subscription on _INBOX.h8s.<ProxyID>.*; the
               \* callback handles its head
    found,     \* has the callback found the response channel for the head?
    stream,    \* history: the replies published on that inbox for each request, in order
    taken,     \* history: the messages each handler received from its channel
    lost,      \* history: positions of replies discarded on the way to the handler
    up,        \* live responders
    queue,     \* pending requests of each responder; its head is being served
    stage,     \* "idle", or "streaming" once the head's backend has answered
    sentChunks,\* chunks already published for the head
    crashes    \* number of crashes so far

handlerVars == <<pc, gone, pending, status, body, errorPage, reason, closed, taken>>
natsVars == <<chan, inbox, found, stream, lost>>
responderVars == <<up, queue, stage, sentChunks, crashes>>
vars == <<handlerVars, natsVars, responderVars>>

TypeOK ==
    /\ pc \in [Requests -> {"idle", "registered", "waiting", "unregister", "closing", "done"}]
    /\ gone \subseteq Requests
    /\ pending \subseteq Requests
    /\ chan \in [Requests -> Seq(Envelope)]
    /\ \A r \in Requests : Len(chan[r]) <= RespChanBuffer
    /\ status \in [Requests -> Statuses]
    /\ body \in [Requests -> Seq(Envelope)]
    /\ errorPage \subseteq Requests
    /\ reason \in [Requests -> Reasons]
    /\ closed \in [Requests -> Reasons \cup {"none"}]
    /\ inbox \in Seq(Envelope)
    /\ found \in BOOLEAN
    /\ stream \in [Requests -> Seq(Reply)]
    /\ taken \in [Requests -> Seq(Envelope)]
    /\ lost \in [Requests -> SUBSET (Nat \ {0})]
    /\ up \subseteq Responders
    /\ queue \in [Responders -> Seq(Requests)]
    /\ stage \in [Responders -> {"idle", "streaming"}]
    /\ sentChunks \in [Responders -> 0..MaxChunks]
    /\ crashes \in 0..MaxCrashes

Init ==
    /\ pc = [r \in Requests |-> "idle"]
    /\ gone = {}
    /\ pending = {}
    /\ chan = [r \in Requests |-> <<>>]
    /\ status = [r \in Requests |-> "none"]
    /\ body = [r \in Requests |-> <<>>]
    /\ errorPage = {}
    /\ reason = [r \in Requests |-> "completed"]
    /\ closed = [r \in Requests |-> "none"]
    /\ inbox = <<>>
    /\ found = FALSE
    /\ stream = [r \in Requests |-> <<>>]
    /\ taken = [r \in Requests |-> <<>>]
    /\ lost = [r \in Requests |-> {}]
    /\ up = Responders
    /\ queue = [d \in Responders |-> <<>>]
    /\ stage = [d \in Responders |-> "idle"]
    /\ sentChunks = [d \in Responders |-> 0]
    /\ crashes = 0

-------------------------------------------------------------------------------
(* NATS: routing of a request, and publication of one reply.               *)

\* Definitions whose name starts with Fault are not part of the model: each is a
\* plausible bug in the definition that follows it, and a property must catch it.
FaultRoutesToAll == {up}

\* One live member of every queue group receives a published request.
Routes == {chosen \in SUBSET up :
              \A g \in QueueGroups :
                  g \cap up # {} => \E d \in g : g \cap chosen = {d}}

\* The reply m is published on the inbox subject of request r.  A PublishOnly proxy
\* has another inbox, where no reply finds a handler: such a reply is left out.
PublishReply(r, m) ==
    IF r \in PublishOnly
    THEN UNCHANGED <<stream, inbox>>
    ELSE /\ stream' = [stream EXCEPT ![r] = Append(@, m)]
         /\ inbox' = Append(inbox, [req |-> r, at |-> Len(stream[r]) + 1])

\* The request is published: it reaches the chosen subscribers, or, if there
\* are none, the server replies that nobody responds.
RouteRequest(r) ==
    \/ /\ up # {}
       /\ \E chosen \in Routes :
              queue' = [d \in Responders |->
                           IF d \in chosen THEN Append(queue[d], r) ELSE queue[d]]
       /\ UNCHANGED <<stream, inbox>>
    \/ /\ up = {}
       /\ PublishReply(r, [kind |-> "noResponders", head |-> "503", from |-> Server])
       /\ UNCHANGED queue

Msg(e) == stream[e.req][e.at]

-------------------------------------------------------------------------------
(* The handler of a request (Handler in proxy.go).                         *)

\* Authorization, host filter or interest filter refuse the request.
Reject(r) ==
    /\ pc[r] = "idle"
    /\ pc' = [pc EXCEPT ![r] = "done"]
    /\ \E code \in {"403", "404"} : status' = [status EXCEPT ![r] = code]
    /\ UNCHANGED <<gone, pending, body, errorPage, reason, closed, taken,
                   natsVars, responderVars>>

\* PublishOnly: publish, or fail to, and answer 200 without waiting.
ForwardOnly(r) ==
    /\ pc[r] = "idle"
    /\ r \in PublishOnly
    /\ \/ RouteRequest(r)
       \/ UNCHANGED <<queue, stream, inbox>>
    /\ status' = [status EXCEPT ![r] = "200"]
    /\ pc' = [pc EXCEPT ![r] = "closing"]
    /\ UNCHANGED <<gone, pending, body, errorPage, reason, closed, taken,
                   chan, found, lost, up, stage, sentChunks, crashes>>

\* pendingReqs.Store: the channel is registered before the request is published.
Register(r) ==
    /\ pc[r] = "idle"
    /\ r \notin PublishOnly
    /\ pending' = pending \cup {r}
    /\ pc' = [pc EXCEPT ![r] = "registered"]
    /\ UNCHANGED <<gone, status, body, errorPage, reason, closed, taken,
                   natsVars, responderVars>>

\* Publish the request and start waiting for replies.
Publish(r) ==
    /\ pc[r] = "registered"
    /\ RouteRequest(r)
    /\ pc' = [pc EXCEPT ![r] = "waiting"]
    /\ UNCHANGED <<gone, pending, status, body, errorPage, reason, closed, taken,
                   chan, found, lost, up, stage, sentChunks, crashes>>

\* NATS refuses the publication: 502, with reason left at "completed".
PublishFails(r) ==
    /\ pc[r] = "registered"
    /\ status' = [status EXCEPT ![r] = "502"]
    /\ errorPage' = errorPage \cup {r}
    /\ pc' = [pc EXCEPT ![r] = "unregister"]
    /\ UNCHANGED <<gone, pending, body, reason, closed, taken, natsVars, responderVars>>

\* wroteHeaders.
FaultWroteHeadersUnset(r) == FALSE
WroteHeaders(r) == status[r] # "none"

\* The handler returns and its deferred close notice will say why.
FaultReasonShadowed(r, why) == UNCHANGED reason
ReturnBecause(r, why) == reason' = [reason EXCEPT ![r] = why]

\* <-ctx.Done(): the client has disconnected.
ObserveGone(r) ==
    /\ pc[r] = "waiting"
    /\ r \in gone
    /\ ReturnBecause(r, "ctx_done")
    /\ pc' = [pc EXCEPT ![r] = "unregister"]
    /\ UNCHANGED <<gone, pending, status, body, errorPage, closed, taken,
                   natsVars, responderVars>>

\* The sliding timer is restarted by every message, so it covers every wait;
\* time is abstract.
FaultTimerUntilHeaders(r) == pc[r] = "waiting" /\ ~WroteHeaders(r)
TimerMayFire(r) == pc[r] = "waiting"

\* <-timer.C
Timeout(r) ==
    /\ TimerMayFire(r)
    /\ ReturnBecause(r, "timeout")
    /\ IF WroteHeaders(r)
       THEN UNCHANGED <<status, errorPage>>
       ELSE /\ status' = [status EXCEPT ![r] = "504"]
            /\ errorPage' = errorPage \cup {r}
    /\ pc' = [pc EXCEPT ![r] = "unregister"]
    /\ UNCHANGED <<gone, pending, body, closed, taken, natsVars, responderVars>>

\* copyHeadersOnce: the first message taken decides the status line.
StatusAfter(r, m) ==
    IF WroteHeaders(r) THEN status[r]
    ELSE IF m.head # "none" THEN m.head ELSE "fallback200"

\* What a receive leaves in the channel.
FaultDrain(s) == <<>>
Rest(s) == Tail(s)

\* rm := <-respChan, common to the outcomes below.
Receive(r) ==
    /\ pc[r] = "waiting"
    /\ chan[r] # <<>>
    /\ chan' = [chan EXCEPT ![r] = Rest(@)]
    /\ taken' = [taken EXCEPT ![r] = Append(@, Head(chan[r]))]
    /\ status' = [status EXCEPT ![r] = StatusAfter(r, Msg(Head(chan[r])))]
    /\ UNCHANGED <<gone, pending, errorPage, closed, inbox, found, stream, lost, responderVars>>

Incoming(r) == Msg(Head(chan[r])).kind

\* res.Write(rm.Data)
FaultWriteAfterHeaders(r) ==
    body' = [body EXCEPT ![r] = IF WroteHeaders(r) THEN Append(@, Head(chan[r])) ELSE @]
Write(r) == body' = [body EXCEPT ![r] = Append(@, Head(chan[r]))]

\* Data is written and flushed, and the wait goes on.  A service's message
\* with Content-Length is written, whatever the outcome, and ends the wait.
TakeData(r) ==
    /\ Receive(r)
    /\ Incoming(r) \in {"chunk", "error", "single"}
    /\ Write(r)
    /\ pc' = IF Incoming(r) = "single" THEN [pc EXCEPT ![r] = "unregister"] ELSE pc
    /\ UNCHANGED reason

\* The write of a chunk fails because the client's connection is gone.
TakeDataWriteFails(r) ==
    /\ Receive(r)
    /\ Incoming(r) \in {"chunk", "error"}
    /\ r \in gone
    /\ ReturnBecause(r, "write_error")
    /\ pc' = [pc EXCEPT ![r] = "unregister"]
    /\ UNCHANGED body

\* The terminating chunk, or an empty message, ends the wait.
TakeEnd(r) ==
    /\ Receive(r)
    /\ Incoming(r) \in {"term", "eof", "cut", "noResponders"}
    /\ IF Incoming(r) = "term" THEN ReturnBecause(r, "termination_chunk")
                               ELSE UNCHANGED reason
    /\ pc' = [pc EXCEPT ![r] = "unregister"]
    /\ UNCHANGED body

\* Deferred pendingReqs.Delete.
FaultForget(r) == UNCHANGED pending
FaultDeleteAll(r) == pending' = {}
Delete(r) == pending' = pending \ {r}

Unregister(r) ==
    /\ pc[r] = "unregister"
    /\ Delete(r)
    /\ pc' = [pc EXCEPT ![r] = "closing"]
    /\ UNCHANGED <<gone, status, body, errorPage, reason, closed, taken,
                   natsVars, responderVars>>

\* Deferred publication of the reason on the connection close subject.
PublishClosed(r) ==
    /\ pc[r] = "closing"
    /\ closed' = [closed EXCEPT ![r] = reason[r]]
    /\ pc' = [pc EXCEPT ![r] = "done"]
    /\ UNCHANGED <<gone, pending, status, body, errorPage, reason, taken,
                   natsVars, responderVars>>

\* Environment: the client disconnects while its request is being handled.
ClientGone(r) ==
    /\ pc[r] \notin {"idle", "done"}
    /\ r \notin gone
    /\ gone' = gone \cup {r}
    /\ UNCHANGED <<pc, pending, status, body, errorPage, reason, closed, taken,
                   natsVars, responderVars>>

-------------------------------------------------------------------------------
(* The callback of the proxy's reply subscription.                         *)

Discard(e) == lost' = [lost EXCEPT ![e.req] = @ \cup {e.at}]

\* The handler's channel has room.
FaultHasRoom(e) == TRUE
HasRoom(e) == Len(chan[e.req]) < RespChanBuffer

\* respChan <- msg
FaultSendFirst(s, e) == <<e>> \o s
Send(s, e) == Append(s, e)

\* pendingReqs.Load, on the oldest message: the callback returns if no handler
\* is registered under its request, and has the handler's channel otherwise.
Load ==
    /\ inbox # <<>>
    /\ ~found
    /\ LET e == Head(inbox)
       IN IF e.req \in pending
          THEN /\ found' = TRUE
               /\ UNCHANGED <<inbox, lost>>
          ELSE /\ inbox' = Tail(inbox)
               /\ Discard(e)
               /\ UNCHANGED found
    /\ UNCHANGED <<chan, stream, handlerVars, responderVars>>

\* The non-blocking send to that channel, whether or not its handler is still
\* registered; the callback returns.
Offer ==
    /\ inbox # <<>>
    /\ found
    /\ found' = FALSE
    /\ inbox' = Tail(inbox)
    /\ LET e == Head(inbox)
       IN IF HasRoom(e)
          THEN /\ chan' = [chan EXCEPT ![e.req] = Send(@, e)]
               /\ UNCHANGED lost
          ELSE /\ Discard(e)
               /\ UNCHANGED chan
    /\ UNCHANGED <<stream, handlerVars, responderVars>>

\* dispatch, the callback of the reply subscription.
Dispatch == Load \/ Offer

\* NATS (external): a slow reply subscription loses its next message.
LoseReply ==
    /\ LossyInbox
    /\ inbox # <<>>
    /\ ~found
    /\ inbox' = Tail(inbox)
    /\ Discard(Head(inbox))
    /\ UNCHANGED <<chan, found, stream, handlerVars, responderVars>>

-------------------------------------------------------------------------------
(* A responder serves the requests of its subscription one at a time.      *)

Serving(d) == d \in up /\ queue[d] # <<>>

\* What responder d publishes for the request it serves.
Answer(d, kind, head) ==
    PublishReply(Head(queue[d]), [kind |-> kind, head |-> head, from |-> d])

\* The callback returns.
Return(d) ==
    /\ queue' = [queue EXCEPT ![d] = Tail(@)]
    /\ stage' = [stage EXCEPT ![d] = "idle"]
    /\ sentChunks' = [sentChunks EXCEPT ![d] = 0]

\* h8srd: resolver, URL, path or backend failure, answered by publishError.
AnswerError(d) ==
    /\ d \in Reverses /\ Serving(d) /\ stage[d] = "idle"
    /\ \E code \in {"502", "400"} : Answer(d, "error", code)
    /\ Return(d)
    /\ UNCHANGED <<chan, found, lost, up, crashes, handlerVars>>

\* h8srd: http.NewRequest fails and nothing is published.
AnswerNothing(d) ==
    /\ d \in Reverses /\ Serving(d) /\ stage[d] = "idle"
    /\ Return(d)
    /\ UNCHANGED <<natsVars, up, crashes, handlerVars>>

\* h8srd: the backend has answered with a status and headers.
BackendAnswers(d) ==
    /\ d \in Reverses /\ Serving(d) /\ stage[d] = "idle"
    /\ stage' = [stage EXCEPT ![d] = "streaming"]
    /\ UNCHANGED <<natsVars, up, queue, sentChunks, crashes, handlerVars>>

\* The header goes with the first message only.
FaultHeadOfLate(d) == IF sentChunks[d] = 1 THEN "backend" ELSE "none"
HeadOf(d) == IF sentChunks[d] = 0 THEN "backend" ELSE "none"

\* h8srd: a read of the backend's body returned data, which may happen to be the
\* five bytes that the proxy takes for a terminating chunk.
ReadChunk(d) ==
    /\ d \in Reverses /\ Serving(d) /\ stage[d] = "streaming"
    /\ sentChunks[d] < MaxChunks
    /\ \E kind \in {"chunk", "term"} : Answer(d, kind, HeadOf(d))
    /\ sentChunks' = [sentChunks EXCEPT ![d] = @ + 1]
    /\ UNCHANGED <<chan, found, lost, up, queue, stage, crashes, handlerVars>>

\* h8srd: io.EOF.
ReadEOF(d) ==
    /\ d \in Reverses /\ Serving(d) /\ stage[d] = "streaming"
    /\ Answer(d, "eof", HeadOf(d))
    /\ Return(d)
    /\ UNCHANGED <<chan, found, lost, up, crashes, handlerVars>>

\* h8srd: any other read error; the empty message never carries the header.
ReadError(d) ==
    /\ d \in Reverses /\ Serving(d) /\ stage[d] = "streaming"
    /\ Answer(d, "cut", "none")
    /\ Return(d)
    /\ UNCHANGED <<chan, found, lost, up, crashes, handlerVars>>

\* A service publishes a message: its handler is given the request, so it may
\* respond as often as it likes, with any header and data.
ServicePublish(d) ==
    /\ d \in Services /\ Serving(d)
    /\ sentChunks[d] < MaxChunks
    /\ \E kind \in {"chunk", "single", "term", "eof"}, head \in {"none", "backend"} :
          Answer(d, kind, head)
    /\ sentChunks' = [sentChunks EXCEPT ![d] = @ + 1]
    /\ UNCHANGED <<chan, found, lost, up, queue, stage, crashes, handlerVars>>

\* The service's handler returns.
ServiceReturn(d) ==
    /\ d \in Services /\ Serving(d)
    /\ Return(d)
    /\ UNCHANGED <<natsVars, up, crashes, handlerVars>>

\* A responder crashes: what it was serving and what it had queued is gone.
Crash(d) ==
    /\ d \in up
    /\ crashes < MaxCrashes
    /\ crashes' = crashes + 1
    /\ up' = up \ {d}
    /\ queue' = [queue EXCEPT ![d] = <<>>]
    /\ stage' = [stage EXCEPT ![d] = "idle"]
    /\ sentChunks' = [sentChunks EXCEPT ![d] = 0]
    /\ UNCHANGED <<natsVars, handlerVars>>

\* It starts again and subscribes anew.
Restart(d) ==
    /\ d \in Responders \ up
    /\ up' = up \cup {d}
    /\ UNCHANGED <<natsVars, queue, stage, sentChunks, crashes, handlerVars>>

-------------------------------------------------------------------------------

\* The steps a handler goroutine takes by itself once its request is accepted.
HandlerStep(r) ==
    \/ Publish(r) \/ PublishFails(r)
    \/ ObserveGone(r) \/ Timeout(r)
    \/ TakeData(r) \/ TakeDataWriteFails(r) \/ TakeEnd(r)
    \/ Unregister(r) \/ PublishClosed(r)

ResponderStep(d) ==
    \/ AnswerError(d) \/ AnswerNothing(d) \/ BackendAnswers(d)
    \/ ReadChunk(d) \/ ReadEOF(d) \/ ReadError(d)
    \/ ServicePublish(d) \/ ServiceReturn(d)

Next ==
    \/ \E r \in Requests :
          \/ Reject(r) \/ ForwardOnly(r) \/ Register(r) \/ ClientGone(r)
          \/ HandlerStep(r)
    \/ Dispatch
    \/ LoseReply
    \/ \E d \in Responders : ResponderStep(d) \/ Crash(d) \/ Restart(d)

Fairness ==
    /\ \A r \in Requests : WF_vars(HandlerStep(r))
    /\ WF_vars(Dispatch)
    /\ \A d \in Responders : WF_vars(ResponderStep(d))

Spec == Init /\ [][Next]_vars /\ Fairness
-------------------------------------------------------------------------------
(* Properties.                                                             *)

\* The handler has stopped waiting, for whatever reason.
Over(r) == pc[r] \in {"unregister", "closing", "done"}

\* The handler waited for an answer and calls the exchange completed: both
\* "completed" and "termination_chunk" say so on the close subject.
Answered(r) ==
    /\ Over(r)
    /\ reason[r] \in {"completed", "termination_chunk"}
    /\ r \notin errorPage
    /\ r \notin PublishOnly
    /\ status[r] \notin {"403", "404"}

\* Every handler receives replies of its own request only, in the order they
\* were published, none twice: nothing is reordered or crosses over on the way
\* through the shared subscription, dispatch and the response channel
\* (proxy.go:257-275, 506).
InOrder ==
    \A r \in Requests :
        /\ \A i \in DOMAIN taken[r] : taken[r][i].req = r /\ taken[r][i].at <= Len(stream[r])
        /\ \A i, j \in DOMAIN taken[r] : i < j => taken[r][i].at < taken[r][j].at

\* A reply a handler skipped was discarded by dispatch or by NATS; it is not
\* stuck in a channel or forgotten by the handler (proxy.go:265-274, 488-546).
SkippedWereLost ==
    \A r \in Requests : \A i \in DOMAIN taken[r] : \A p \in 1..taken[r][i].at :
        p \in lost[r] \/ \E j \in 1..i : taken[r][j].at = p

\* An exchange is called completed only on a reply that ends the answer.  In
\* particular h8srd's error reply, which has neither a Content-Length nor an
\* end, never completes one: only a timeout or the client ends it
\* (proxy.go:522-545, reverse.go:488-497).
CompletedHasEnd ==
    \A r \in Requests : Answered(r) =>
        /\ taken[r] # <<>>
        /\ Msg(Last(taken[r])).kind \in EndKinds

\* If no reply of a completed exchange was discarded, the body the client got is
\* all the data published up to the end of the answer, in that order
\* (proxy.go:522-539, reverse.go:402-436).
WholeBody ==
    \A r \in Requests : Answered(r) /\ lost[r] = {} =>
        LET upToEnd == {[req |-> r, at |-> p] : p \in 1..Last(taken[r]).at}
            IsData(e) == Msg(e).kind \in {"chunk", "error", "single"}
        IN /\ Range(body[r]) = {e \in upToEnd : IsData(e)}
           /\ \A i, j \in DOMAIN body[r] : i < j => body[r][i].at < body[r][j].at

\* A full channel never costs the client its status line: it falls back to 200
\* only if the first reply published for the request had no header: a service
\* left it out, or h8srd read an error before the first byte of the body
\* (proxy.go:472-475, 516-519, 825-838, reverse.go:417-434).
HonestStatus ==
    \A r \in Requests : status[r] = "fallback200" =>
        /\ stream[r][1].head = "none"
        /\ stream[r][1].kind = "cut" \/ stream[r][1].from \in Services

\* The client's body is never put together from the answers of two responders
\* (reverse.go:130-134, README.md:250).
OneVoice ==
    \A r \in Requests : \A i, j \in DOMAIN body[r] :
        Msg(body[r][i]).from = Msg(body[r][j]).from

\* The proxy's own error text never follows data of an answer
\* (proxy.go:477, 501-503).
NoErrorPageInAnswer == \A r \in errorPage : body[r] = <<>>

\* While a handler waits, dispatch discards a reply of its request only because
\* the channel is full (proxy.go:268-273).
DropOnlyWhenFull ==
    [][\A r \in Requests :
          pc[r] = "waiting" /\ lost'[r] # lost[r] => Len(chan[r]) = RespChanBuffer]_vars

\* Once the close notice of an exchange is out, dispatch finds its channel for no
\* further reply: all that may still be put in it is the one reply the callback
\* had looked up before, because the deferred Delete runs before the deferred
\* Publish (proxy.go:265-268, 455-473).
ClosedThenUnknown ==
    [][\A r \in Requests : closed[r] # "none" /\ found' /\ Head(inbox').req = r => found]_vars

\* Whatever the responders do, a handler that registered ends, removes its
\* registration and publishes its close notice (proxy.go:455-504).
EveryExchangeEnds ==
    \A r \in Requests :
        r \in pending ~> (pc[r] = "done" /\ r \notin pending /\ closed[r] # "none")

\* The exchange as its client sees it: the promise of ReplyStream, kept through
\* the subscription, the dispatcher, the channel and the timer.  A proxy with the
\* PublishOnly option has no exchange with its client.
Exchanges == Requests \ PublishOnly
postedBar == [r \in Exchanges |-> [i \in 1..Len(stream[r]) |-> stream[r][i].kind]]
gotBar == [r \in Exchanges |-> [i \in 1..Len(taken[r]) |-> taken[r][i].at]]
outcomeBar == [r \in Exchanges |->
                  IF ~Over(r) THEN "open" ELSE IF Answered(r) THEN "complete" ELSE "abandoned"]

Stream == INSTANCE ReplyStream
            WITH Requests <- Exchanges,
                 posted <- postedBar, got <- gotBar, outcome <- outcomeBar

\* The HTTP path implements ReplyStream (proxy.go:257-275, 442-548).
ImplementsReplyStream == Stream!Spec
===============================================================================
