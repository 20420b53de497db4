-------------------------------- MODULE WsTunnel --------------------------------
(***************************************************************************)
(* The WebSocket path of h8s.  handleWebSocket of h8sproxy announces an    *)
(* upgraded connection on a control subject, subscribes to its reply       *)
(* subject and publishes the client's frames on a data subject.  Every     *)
(* h8srd that hears the announcement dials its own backend connection,     *)
(* writes the frames it receives to it and pumps the backend's messages to *)
(* the reply subject.  A close notice on another control subject ends it.  *)
(*                                                                         *)
(* Of a client's connection the proxy runs three goroutines: the handler   *)
(* that reads frames, the writer of the Send channel and the callback of   *)
(* the reply subscription.  Of h8srd, the callbacks of the established,    *)
(* closed and data subscriptions are three goroutines, and every backend   *)
(* connection has a pump.  NATS keeps the order within a subscription and  *)
(* nothing between two of them.                                            *)
(***************************************************************************)
EXTENDS Naturals, Sequences, Functions

CONSTANTS
    Conns,          \* client connections
    Keys,           \* values of Sec-WebSocket-Key, which also name inboxes
    Sessions,       \* sessions a client may ask for
    Reverses,       \* h8srd instances of the host
    DataGroups,     \* queue groups of their data subscriptions
    SendBuffer,     \* WSSendBuffer, the capacity of a Send channel
    ControlMayFail, \* may the publication of a control message fail?
    MaxFrames,      \* bound: frames of a client
    MaxMessages,    \* bound: messages of a backend connection
    MaxTraffic,     \* bound: frames and messages of all together
    MaxCrashes      \* bound: h8srd crashes

\* The callbacks of h8srd that delete an entry of wsConns; a pump does so too, and
\* is named by its connection.
Callbacks == {"closed", "data"}

\* Reply subjects: the inbox named after a key, or the results of a session.
Replies == Keys \cup Sessions

ASSUME SocketAssumption ==
    /\ UNION DataGroups = Reverses
    /\ \A g, h \in DataGroups : g # h => g \cap h = {}
    /\ Callbacks \cap Conns = {}
    /\ SendBuffer \in Nat \ {0}
    /\ ControlMayFail \in BOOLEAN
    /\ MaxFrames \in Nat
    /\ MaxMessages \in Nat
    /\ MaxTraffic \in Nat
    /\ MaxCrashes \in Nat

Frame == [conn : Conns, n : 1..MaxFrames]
\* The n-th message of the backend connection that d dialled for conn.
Message == [from : Reverses, conn : Conns, n : 1..MaxMessages]

VARIABLES
    \* clients
    key,        \* Sec-WebSocket-Key of each connection
    reply,      \* its reply subject
    \* h8sproxy
    pc,         \* where handleWebSocket is
    gone,       \* connections whose client has left
    shut,       \* connections the proxy has closed itself
    broken,     \* connections whose client sent what ReadMessage refuses
    pool,       \* WSPool.conns: at most one connection for each key
    frames,     \* frames read from each client
    inbox,      \* pending messages of the reply subscription
    inHand,     \* the message its callback is about to send, if any
    send,       \* Send channel
    writer,     \* connections with a writer goroutine
    got,        \* messages written to the client
    panicked,   \* the process has died of a panic
    \* NATS
    estQ, closedQ, dataQ, \* pending messages of the three subscriptions of an h8srd
    \* h8srd
    wsConns,    \* for each reply subject, the connection its backend was dialled for
    backend,    \* state of each backend connection
    pumping,    \* backend connections with a pump goroutine
    deleting,   \* <<d, by, s>>: in d, by has closed a connection and will now delete the entry of s
    delivered,  \* frames written to each backend connection
    sent,       \* messages pumped from each backend connection
    up,         \* live instances
    crashes,
    \* history
    announced,  \* connections whose establishment was published
    noticed,    \* connections whose close notice was published
    dropped,    \* messages discarded for a full Send channel
    early       \* <<d, c>>: d handled the close notice of c with no backend to close

handlerVars == <<pc, pool, frames>>
clientVars == <<key, reply, gone, shut, broken>>
deliveryVars == <<inbox, inHand, send, writer, got, dropped, panicked>>
noticeVars == <<announced, noticed>>
controlVars == <<estQ, closedQ>>
reverseVars == <<wsConns, backend, pumping, deleting, delivered, sent, early>>
crashVars == <<up, crashes>>
vars == <<handlerVars, clientVars, deliveryVars, noticeVars, controlVars, dataQ,
          reverseVars, crashVars>>

Pcs == {"idle", "announced", "pooled", "open", "unsubscribing", "removing",
        "closingSend", "closingConn", "done"}

TypeOK ==
    /\ key \in [Conns -> Keys]
    /\ reply \in [Conns -> Replies]
    /\ pc \in [Conns -> Pcs]
    /\ gone \subseteq Conns
    /\ shut \subseteq Conns
    /\ broken \subseteq Conns
    /\ pool \in [Keys -> SUBSET Conns]
    /\ \A k \in Keys : \A c, e \in pool[k] : c = e
    /\ frames \in [Conns -> 0..MaxFrames]
    /\ inbox \in [Conns -> Seq(Message)]
    /\ inHand \in [Conns -> Seq(Message)]
    /\ send \in [Conns -> Seq(Message)]
    /\ \A c \in Conns : Len(send[c]) <= SendBuffer /\ Len(inHand[c]) <= 1
    /\ writer \subseteq Conns
    /\ got \in [Conns -> Seq(Message)]
    /\ panicked \in BOOLEAN
    /\ estQ \in [Reverses -> Seq(Conns)]
    /\ closedQ \in [Reverses -> Seq(Conns)]
    /\ dataQ \in [Reverses -> Seq(Frame)]
    /\ wsConns \in [Reverses -> [Replies -> SUBSET Conns]]
    /\ \A d \in Reverses : \A s \in Replies : \A c, e \in wsConns[d][s] : c = e
    /\ backend \in [Reverses \X Conns -> {"none", "open", "gone", "closed"}]
    /\ pumping \subseteq Reverses \X Conns
    /\ deleting \subseteq Reverses \X (Callbacks \cup Conns) \X Replies
    /\ delivered \in [Reverses \X Conns -> Seq(Frame)]
    /\ sent \in [Reverses \X Conns -> 0..MaxMessages]
    /\ up \subseteq Reverses
    /\ crashes \in 0..MaxCrashes
    /\ announced \subseteq Conns
    /\ noticed \subseteq Conns
    /\ dropped \in [Conns -> SUBSET Message]
    /\ early \subseteq Reverses \X Conns

\* Frames and messages so far, which MaxTraffic bounds.
Traffic == FoldFunction(+, 0, frames) + FoldFunction(+, 0, sent)

\* What handleWebSocket subscribes to for a client with the key k.
SubscribeSubjects(k) == {k} \cup Sessions

Init ==
    /\ key \in [Conns -> Keys]
    /\ reply \in {r \in [Conns -> Replies] : \A c \in Conns : r[c] \in SubscribeSubjects(key[c])}
    /\ pc = [c \in Conns |-> "idle"]
    /\ gone = {}
    /\ shut = {}
    /\ broken = {}
    /\ pool = [k \in Keys |-> {}]
    /\ frames = [c \in Conns |-> 0]
    /\ inbox = [c \in Conns |-> <<>>]
    /\ inHand = [c \in Conns |-> <<>>]
    /\ send = [c \in Conns |-> <<>>]
    /\ writer = {}
    /\ got = [c \in Conns |-> <<>>]
    /\ panicked = FALSE
    /\ estQ = [d \in Reverses |-> <<>>]
    /\ closedQ = [d \in Reverses |-> <<>>]
    /\ dataQ = [d \in Reverses |-> <<>>]
    /\ wsConns = [d \in Reverses |-> [s \in Replies |-> {}]]
    /\ backend = [b \in Reverses \X Conns |-> "none"]
    /\ pumping = {}
    /\ deleting = {}
    /\ delivered = [b \in Reverses \X Conns |-> <<>>]
    /\ sent = [b \in Reverses \X Conns |-> 0]
    /\ up = Reverses
    /\ crashes = 0
    /\ announced = {}
    /\ noticed = {}
    /\ dropped = [c \in Conns |-> {}]
    /\ early = {}

-------------------------------------------------------------------------------
(* NATS.                                                                   *)

\* A control message about c reaches every live h8srd.
ToAll(q, c) == [d \in Reverses |-> IF d \in up THEN Append(q[d], c) ELSE q[d]]

\* A frame reaches one live member of every queue group.
Routes == {chosen \in SUBSET up :
              \A g \in DataGroups : g \cap up # {} => \E d \in g : g \cap chosen = {d}}

-------------------------------------------------------------------------------
(* h8sproxy: handleWebSocket.                                              *)

\* The upgrade fails, or the request has no Sec-WebSocket-Key.
Refuse(c) ==
    /\ pc[c] = "idle"
    /\ pc' = [pc EXCEPT ![c] = "done"]
    /\ UNCHANGED <<pool, frames, clientVars, deliveryVars, noticeVars, controlVars,
                   dataQ, reverseVars, crashVars>>

\* cmConnectionEstablished, unless the pool already knows the key.
Announce(c) ==
    /\ pc[c] = "idle"
    /\ pc' = [pc EXCEPT ![c] = "announced"]
    /\ \/ /\ pool[key[c]] = {}
          /\ estQ' = ToAll(estQ, c)
          /\ announced' = announced \cup {c}
       \/ /\ pool[key[c]] # {} \/ ControlMayFail
          /\ UNCHANGED <<estQ, announced>>
    /\ UNCHANGED <<pool, frames, noticed, closedQ, clientVars, deliveryVars, dataQ,
                   reverseVars, crashVars>>

\* WSPool.Set
Pool(c) ==
    /\ pc[c] = "announced"
    /\ pool' = [pool EXCEPT ![key[c]] = {c}]
    /\ pc' = [pc EXCEPT ![c] = "pooled"]
    /\ UNCHANGED <<frames, clientVars, deliveryVars, noticeVars, controlVars, dataQ,
                   reverseVars, crashVars>>

\* Subscribe to the reply subject and start the writer.
Subscribe(c) ==
    /\ pc[c] = "pooled"
    /\ pc' = [pc EXCEPT ![c] = "open"]
    /\ writer' = writer \cup {c}
    /\ UNCHANGED <<pool, frames, inHand, send, got, panicked, dropped, inbox,
                   clientVars, noticeVars, controlVars, dataQ, reverseVars,
                   crashVars>>

\* NATS refuses the subscription: return, without a close notice.
SubscribeFails(c) ==
    /\ pc[c] = "pooled"
    /\ ControlMayFail
    /\ pc' = [pc EXCEPT ![c] = "removing"]
    /\ UNCHANGED <<pool, frames, clientVars, deliveryVars, noticeVars, controlVars,
                   dataQ, reverseVars, crashVars>>

\* One turn of the read loop.
ReadFrame(c) ==
    /\ pc[c] = "open"
    /\ c \notin shut
    /\ frames[c] < MaxFrames
    /\ Traffic < MaxTraffic
    /\ frames' = [frames EXCEPT ![c] = @ + 1]
    /\ \E chosen \in Routes :
          dataQ' = [d \in Reverses |->
                       IF d \in chosen THEN Append(dataQ[d], [conn |-> c, n |-> frames[c] + 1])
                       ELSE dataQ[d]]
    /\ UNCHANGED <<pc, pool, clientVars, deliveryVars, noticeVars, controlVars,
                   reverseVars, crashVars>>

\* The frame cannot be published (it exceeds NATS' limit): break.
PublishFails(c) ==
    /\ pc[c] = "open"
    /\ c \notin shut
    /\ frames[c] < MaxFrames
    /\ Traffic < MaxTraffic
    /\ pc' = [pc EXCEPT ![c] = "unsubscribing"]
    /\ frames' = [frames EXCEPT ![c] = @ + 1]
    /\ UNCHANGED <<pool, clientVars, deliveryVars, noticeVars, controlVars, dataQ,
                   reverseVars, crashVars>>

\* cmConnectionClosed: a close notice for the connection the pool has for key k.
NoticeClosed(k) ==
    \/ \E c \in pool[k] : /\ closedQ' = ToAll(closedQ, c)
                          /\ noticed' = noticed \cup {c}
    \/ /\ pool[k] = {} \/ ControlMayFail
       /\ UNCHANGED <<closedQ, noticed>>

\* ReadMessage fails: the client has left, the writer has closed the connection, or a
\* frame exceeds the read limit or breaks the protocol, for which it sends a close frame.
ReadError(c) ==
    /\ pc[c] = "open"
    /\ \/ c \in gone \cup shut /\ UNCHANGED broken
       \/ c \notin gone \cup shut /\ broken' = broken \cup {c}
    /\ NoticeClosed(key[c])
    /\ pc' = [pc EXCEPT ![c] = "unsubscribing"]
    /\ UNCHANGED <<key, reply, gone, shut, pool, frames, announced, estQ, deliveryVars,
                   dataQ, reverseVars, crashVars>>

\* The deferred calls, last to first.  Unsubscribe drops the pending messages but
\* does not wait for a callback that runs.
Unsubscribe(c) ==
    /\ pc[c] = "unsubscribing"
    /\ pc' = [pc EXCEPT ![c] = "removing"]
    /\ inbox' = [inbox EXCEPT ![c] = <<>>]
    /\ UNCHANGED <<pool, frames, inHand, send, writer, got, panicked, dropped,
                   clientVars, noticeVars, controlVars, dataQ, reverseVars,
                   crashVars>>

RemoveFromPool(c) ==
    /\ pc[c] = "removing"
    /\ pool' = [pool EXCEPT ![key[c]] = {}]
    /\ pc' = [pc EXCEPT ![c] = "closingSend"]
    /\ UNCHANGED <<frames, clientVars, deliveryVars, noticeVars, controlVars, dataQ,
                   reverseVars, crashVars>>

CloseSend(c) ==
    /\ pc[c] = "closingSend"
    /\ pc' = [pc EXCEPT ![c] = "closingConn"]
    /\ UNCHANGED <<pool, frames, clientVars, deliveryVars, noticeVars, controlVars,
                   dataQ, reverseVars, crashVars>>

FaultSendStaysOpen(c) == FALSE
SendClosed(c) == pc[c] \in {"closingConn", "done"}

CloseConn(c) ==
    /\ pc[c] = "closingConn"
    /\ pc' = [pc EXCEPT ![c] = "done"]
    /\ shut' = shut \cup {c}
    /\ UNCHANGED <<key, reply, gone, broken, pool, frames, deliveryVars, noticeVars,
                   controlVars, dataQ,
                   reverseVars, crashVars>>
-------------------------------------------------------------------------------
(* h8sproxy: the writer goroutine and the callback of the reply subscription. *)

Subscribed(c) == ~panicked /\ pc[c] \in {"open", "unsubscribing"}

\* What a receive leaves in the channel.
FaultWriteAgain(c) == send[c]
Unsent(c) == Tail(send[c])

\* WriteMessage; what is written after the client has left is not received.
Write(c) ==
    /\ c \in writer \ shut
    /\ send[c] # <<>>
    /\ send' = [send EXCEPT ![c] = Unsent(c)]
    /\ got' = IF c \in gone THEN got ELSE [got EXCEPT ![c] = Append(@, Head(send[c]))]
    /\ UNCHANGED <<inbox, inHand, writer, dropped, panicked, handlerVars, clientVars,
                   noticeVars, controlVars, dataQ, reverseVars, crashVars>>

\* WriteMessage fails, as it does after a close frame: close notice, close the
\* connection, return.
WriteFails(c) ==
    /\ c \in writer \cap (gone \cup shut \cup broken)
    /\ send[c] # <<>>
    /\ send' = [send EXCEPT ![c] = Unsent(c)]
    /\ NoticeClosed(key[c])
    /\ shut' = shut \cup {c}
    /\ writer' = writer \ {c}
    /\ UNCHANGED <<key, reply, gone, broken, announced, estQ, inbox, inHand, got, dropped, panicked,
                   handlerVars, dataQ, reverseVars, crashVars>>

\* The channel is closed and empty.
WriterReturns(c) ==
    /\ c \in writer
    /\ send[c] = <<>>
    /\ SendClosed(c)
    /\ writer' = writer \ {c}
    /\ UNCHANGED <<inbox, inHand, send, got, dropped, panicked, handlerVars, clientVars,
                   noticeVars, controlVars, dataQ, reverseVars, crashVars>>

\* NATS takes the next message and calls the callback with it.
Callback(c) ==
    /\ Subscribed(c)
    /\ inbox[c] # <<>>
    /\ inHand[c] = <<>>
    /\ inHand' = [inHand EXCEPT ![c] = <<Head(inbox[c])>>]
    /\ inbox' = [inbox EXCEPT ![c] = Tail(@)]
    /\ UNCHANGED <<send, writer, got, dropped, panicked, handlerVars, clientVars,
                   noticeVars, controlVars, dataQ, reverseVars, crashVars>>

FaultHasRoom(c) == TRUE
HasRoom(c) == Len(send[c]) < SendBuffer

Sent(c) == send[c] \o inHand[c]

\* Its non-blocking send: a full channel drops the message, a closed one panics.
Deliver(c) ==
    /\ inHand[c] # <<>>
    /\ inHand' = [inHand EXCEPT ![c] = <<>>]
    /\ \/ /\ SendClosed(c)
          /\ panicked' = TRUE
          /\ UNCHANGED <<send, dropped>>
       \/ /\ ~SendClosed(c) /\ HasRoom(c)
          /\ send' = [send EXCEPT ![c] = Sent(c)]
          /\ UNCHANGED <<dropped, panicked>>
       \/ /\ ~SendClosed(c) /\ ~HasRoom(c)
          /\ dropped' = [dropped EXCEPT ![c] = @ \cup {inHand[c][1]}]
          /\ UNCHANGED <<send, panicked>>
    /\ UNCHANGED <<inbox, writer, got, handlerVars, clientVars, noticeVars,
                   controlVars, dataQ, reverseVars, crashVars>>

\* Environment: the client leaves.
ClientLeaves(c) ==
    /\ pc[c] # "idle"
    /\ c \notin gone
    /\ gone' = gone \cup {c}
    /\ UNCHANGED <<key, reply, shut, broken, handlerVars, deliveryVars, noticeVars, controlVars, dataQ,
                   reverseVars, crashVars>>

-------------------------------------------------------------------------------
(* h8srd.                                                                  *)

\* The key of wsConns.
FaultKeyFor(c) == key[c]
KeyFor(c) == reply[c]

\* wsConns.Delete: by reply subject, whatever the entry is by now.
FaultKeepEntry(d, s) == UNCHANGED wsConns
Delete(d, s) == wsConns' = [wsConns EXCEPT ![d][s] = {}]

\* conn.Close on the backend connections of d for the clients in known.
FaultNotClosed(d, known) == UNCHANGED backend
CloseBackend(d, known) ==
    backend' = [b \in DOMAIN backend |->
                   IF b[1] = d /\ b[2] \in known THEN "closed" ELSE backend[b]]

\* The next step of by in d will be to delete the entry of s.
WillDelete(d, by, s) == deleting' = deleting \cup {<<d, by, s>>}
Busy(d, by) == \E s \in Replies : <<d, by, s>> \in deleting

\* handleControlEstablished: dial the backend, which may fail; store the
\* connection and start its pump.
HandleEstablished(d) ==
    /\ estQ[d] # <<>>
    /\ estQ' = [estQ EXCEPT ![d] = Tail(@)]
    /\ LET c == Head(estQ[d])
       IN \/ /\ wsConns' = [wsConns EXCEPT ![d][KeyFor(c)] = {c}]
             /\ backend' = [backend EXCEPT ![<<d, c>>] = "open"]
             /\ pumping' = pumping \cup {<<d, c>>}
          \/ UNCHANGED <<wsConns, backend, pumping>>
    /\ UNCHANGED <<deleting, delivered, sent, early, closedQ, handlerVars, clientVars,
                   deliveryVars, noticeVars, dataQ, crashVars>>

\* handleControlClosed: close the connection it loads, if there is one.
HandleClosed(d) ==
    /\ closedQ[d] # <<>>
    /\ ~Busy(d, "closed")
    /\ closedQ' = [closedQ EXCEPT ![d] = Tail(@)]
    /\ LET c == Head(closedQ[d])
           known == wsConns[d][KeyFor(c)]
       IN \/ /\ known = {}
             /\ early' = early \cup {<<d, c>>}
             /\ UNCHANGED <<backend, deleting>>
          \/ /\ known # {}
             /\ CloseBackend(d, known)
             /\ WillDelete(d, "closed", KeyFor(c))
             /\ UNCHANGED early
    /\ UNCHANGED <<wsConns, pumping, delivered, sent, estQ, handlerVars, clientVars,
                   deliveryVars, noticeVars, dataQ, crashVars>>

NextFrame(d) == Head(dataQ[d])

\* The frame has no connection, or a write to it succeeds that nobody will read.
FaultMayBeLost(d, known) == TRUE
MayBeLost(d, known) == \A c \in known : backend[<<d, c>>] = "gone"

\* handleWebSocketFrame: an unknown reply subject drops the frame.  A write to a
\* connection the backend has left is lost or fails, one to a closed connection
\* fails; then the connection is closed.
HandleFrame(d) ==
    /\ dataQ[d] # <<>>
    /\ ~Busy(d, "data")
    /\ dataQ' = [dataQ EXCEPT ![d] = Tail(@)]
    /\ LET f == NextFrame(d)
           s == KeyFor(f.conn)
           known == wsConns[d][s]
       IN \/ /\ MayBeLost(d, known)
             /\ UNCHANGED <<backend, deleting, delivered>>
          \/ \E c \in known :
                /\ backend[<<d, c>>] = "open"
                /\ delivered' = [delivered EXCEPT ![<<d, c>>] = Append(@, f)]
                /\ UNCHANGED <<backend, deleting>>
          \/ \E c \in known :
                /\ backend[<<d, c>>] \in {"gone", "closed"}
                /\ CloseBackend(d, {c})
                /\ WillDelete(d, "data", s)
                /\ UNCHANGED delivered
    /\ UNCHANGED <<wsConns, pumping, sent, early, handlerVars, clientVars, deliveryVars,
                   noticeVars, controlVars, crashVars>>

\* The subscribers of the reply subject of c.
FaultRecipients(c) == {e \in Conns : Subscribed(e)}
Recipients(c) == {e \in Conns : Subscribed(e) /\ reply[e] = reply[c]}

\* The pump reads a message of the backend and publishes it on the reply subject.
Pump(d, c) ==
    /\ <<d, c>> \in pumping
    /\ backend[<<d, c>>] = "open"
    /\ sent[<<d, c>>] < MaxMessages
    /\ Traffic < MaxTraffic
    /\ sent' = [sent EXCEPT ![<<d, c>>] = @ + 1]
    /\ inbox' = [e \in Conns |->
                    IF e \in Recipients(c)
                    THEN Append(inbox[e], [from |-> d, conn |-> c, n |-> sent[<<d, c>>] + 1])
                    ELSE inbox[e]]
    /\ UNCHANGED <<inHand, send, writer, got, dropped, panicked, wsConns, backend,
                   pumping, deleting, delivered, early, handlerVars, clientVars, noticeVars,
                   controlVars, dataQ, crashVars>>

\* Environment: the backend leaves.
BackendLeaves(d, c) ==
    /\ backend[<<d, c>>] = "open"
    /\ backend' = [backend EXCEPT ![<<d, c>>] = "gone"]
    /\ UNCHANGED <<wsConns, pumping, deleting, delivered, sent, early, handlerVars,
                   clientVars, deliveryVars, noticeVars, controlVars, dataQ, crashVars>>

\* The pump's read fails and it closes the connection.
PumpEnds(d, c) ==
    /\ <<d, c>> \in pumping
    /\ backend[<<d, c>>] \in {"gone", "closed"}
    /\ pumping' = pumping \ {<<d, c>>}
    /\ CloseBackend(d, {c})
    /\ WillDelete(d, c, KeyFor(c))
    /\ UNCHANGED <<wsConns, delivered, sent, early, handlerVars, clientVars, deliveryVars,
                   noticeVars, controlVars, dataQ, crashVars>>

\* Whoever has closed a connection deletes its entry.
DeleteEntry(d, by) ==
    \E s \in Replies :
        /\ <<d, by, s>> \in deleting
        /\ deleting' = deleting \ {<<d, by, s>>}
        /\ Delete(d, s)
        /\ UNCHANGED <<backend, pumping, delivered, sent, early, handlerVars, clientVars,
                       deliveryVars, noticeVars, controlVars, dataQ, crashVars>>

\* An h8srd crashes with its connections and pending messages.
Crash(d) ==
    /\ d \in up
    /\ crashes < MaxCrashes
    /\ crashes' = crashes + 1
    /\ up' = up \ {d}
    /\ estQ' = [estQ EXCEPT ![d] = <<>>]
    /\ closedQ' = [closedQ EXCEPT ![d] = <<>>]
    /\ dataQ' = [dataQ EXCEPT ![d] = <<>>]
    /\ wsConns' = [wsConns EXCEPT ![d] = [s \in Replies |-> {}]]
    /\ backend' = [b \in DOMAIN backend |->
                      IF b[1] = d /\ backend[b] # "none" THEN "closed" ELSE backend[b]]
    /\ pumping' = {b \in pumping : b[1] # d}
    /\ deleting' = {x \in deleting : x[1] # d}
    /\ UNCHANGED <<delivered, sent, early, handlerVars, clientVars, deliveryVars, noticeVars>>

\* It starts again and subscribes anew; nobody announces the open connections.
Restart(d) ==
    /\ d \in Reverses \ up
    /\ up' = up \cup {d}
    /\ UNCHANGED <<crashes, handlerVars, clientVars, deliveryVars, noticeVars,
                   controlVars, dataQ, reverseVars>>

-------------------------------------------------------------------------------

HandlerStep(c) ==
    \/ Pool(c) \/ Subscribe(c) \/ SubscribeFails(c) \/ ReadError(c)
    \/ Unsubscribe(c) \/ RemoveFromPool(c) \/ CloseSend(c) \/ CloseConn(c)
WriterStep(c) == Write(c) \/ WriteFails(c) \/ WriterReturns(c)
CallbackStep(c) == Callback(c) \/ Deliver(c)

ProxyStep ==
    /\ ~panicked
    /\ \E c \in Conns :
          \/ Refuse(c) \/ Announce(c) \/ ReadFrame(c) \/ PublishFails(c)
          \/ HandlerStep(c) \/ WriterStep(c) \/ CallbackStep(c)

Next ==
    \/ ProxyStep
    \/ \E c \in Conns : ClientLeaves(c)
    \/ \E d \in Reverses :
          \/ HandleEstablished(d) \/ HandleClosed(d) \/ HandleFrame(d)
          \/ Crash(d) \/ Restart(d)
          \/ \E by \in Callbacks \cup Conns : DeleteEntry(d, by)
          \/ \E c \in Conns : Pump(d, c) \/ BackendLeaves(d, c) \/ PumpEnds(d, c)

\* The goroutines run; what a client that has not left sends, and whether
\* ReadMessage refuses it, is up to the client.
Fairness ==
    /\ \A c \in Conns :
          /\ WF_vars(~panicked /\ HandlerStep(c) /\ (pc[c] = "open" => c \in gone \cup shut))
          /\ WF_vars(~panicked /\ WriterStep(c))
          /\ WF_vars(~panicked /\ CallbackStep(c))
    /\ \A d \in Reverses :
          /\ WF_vars(HandleEstablished(d))
          /\ WF_vars(HandleClosed(d) \/ DeleteEntry(d, "closed"))
          /\ WF_vars(HandleFrame(d) \/ DeleteEntry(d, "data"))
          /\ \A c \in Conns : WF_vars(PumpEnds(d, c) \/ DeleteEntry(d, c))

Spec == Init /\ [][Next]_vars /\ Fairness
-------------------------------------------------------------------------------
(* Properties.                                                             *)

\* A backend connection is given frames of its own reply subject only, those of one
\* client without a gap: what it misses was sent before it was dialled or after it
\* was closed.  Holds for one h8srd, or several without a queue group
\* (reverse.go:643, 673-689).
FramesContiguous ==
    \A b \in Reverses \X Conns : \A i, j \in DOMAIN delivered[b] :
        LET f == delivered[b][i]
            g == delivered[b][j]
        IN /\ reply[f.conn] = reply[b[2]]
           /\ i < j /\ f.conn = g.conn =>
                /\ f.n < g.n
                /\ \A n \in (f.n + 1)..(g.n - 1) :
                      \E k \in (i + 1)..(j - 1) : delivered[b][k] = [f EXCEPT !.n = n]

\* A client receives messages of its own reply subject only, those of one backend
\* connection in order, and between them it misses only those the callback dropped
\* for a full Send channel (proxy.go:616-641, reverse.go:652-660).
MessagesInOrder ==
    \A c \in Conns : \A i, j \in DOMAIN got[c] :
        LET m == got[c][i]
            l == got[c][j]
        IN /\ reply[m.conn] = reply[c]
           /\ i < j /\ m.from = l.from /\ m.conn = l.conn =>
                /\ m.n < l.n
                /\ \A n \in (m.n + 1)..(l.n - 1) :
                      LET skipped == [m EXCEPT !.n = n]
                      IN skipped \in dropped[c] \/ \E k \in i..j : got[c][k] = skipped

\* No other client has the reply subject of c, as two clients with one session have.
Alone(c) == \A e \in Conns \ {c} : reply[e] # reply[c]

\* A close notice about c that d has not yet handled.
Closing(d, c) == \E i \in DOMAIN closedQ[d] : closedQ[d][i] = c

\* When a client with a reply subject of its own has its close notice out and
\* handled, no backend connection of it stays open, except where the notice
\* overtook the announcement (proxy.go:648, 705-731, reverse.go:663-671).
StrayWasOvertaken ==
    \A d \in Reverses, c \in noticed :
        Alone(c) /\ backend[<<d, c>>] = "open" /\ ~Closing(d, c) => <<d, c>> \in early

\* A frame or a close notice finds the connection it is for: an open backend
\* connection is in wsConns while no other client shares its reply subject (a
\* session), and what is there is pumped and not closed, or a goroutine that closed
\* one is about to delete the entry (reverse.go:643-651, 665-670, 686-687).
BackendsAreKnown ==
    \A d \in Reverses, c \in Conns :
        LET known == c \in wsConns[d][KeyFor(c)]
        IN /\ backend[<<d, c>>] = "open" /\ Alone(c) => known
           /\ known =>
                \/ <<d, c>> \in pumping /\ backend[<<d, c>>] # "closed"
                \/ \E by \in Callbacks \cup Conns : <<d, by, KeyFor(c)>> \in deleting

\* h8srd hangs up on a live backend only for a close notice with its reply subject,
\* and the proxy publishes a notice only when a client that has the key in it leaves,
\* cannot be written to, or sends what ReadMessage refuses; or h8srd crashes itself.
\* So a client with a key and a reply subject of its own is not hung up on for another
\* (proxy.go:633, 645-650, 705-731, reverse.go:663-671).
CloseIsCaused ==
    [][\A d \in Reverses, c \in Conns :
          backend[<<d, c>>] = "open" /\ backend'[<<d, c>>] = "closed" =>
             \/ d \notin up'
             \/ \E e \in gone \cup shut \cup broken, n \in noticed :
                   key[n] = key[e] /\ reply[n] = reply[c]]_vars

\* After a client has left, the handler returns and its writer with it, unless the
\* process died (proxy.go:603-671).
ConnectionEnds ==
    \A c \in Conns :
        c \in gone /\ pc[c] # "idle" ~> (pc[c] = "done" /\ c \notin writer) \/ panicked

\* When a client leaves, a backend connection it has is closed, unless the process
\* died or the handler returned without a close notice (proxy.go:648, 668).
BackendFollowsClient ==
    \A d \in Reverses, c \in Conns :
        c \in gone /\ pc[c] = "open" /\ backend[<<d, c>>] = "open" ~>
           \/ backend[<<d, c>>] # "open"
           \/ panicked
           \/ pc[c] = "done" /\ c \notin noticed

\* "Send channel full, dropping message" (proxy.go:621): dropping is the worst
\* that happens to a message; the callback never panics on a closed channel.
CallbackNeverPanics == ~panicked
=================================================================================
