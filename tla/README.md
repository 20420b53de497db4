# h8s in TLA+

h8s carries HTTP and WebSocket traffic over NATS. `h8sd` (package `h8sproxy`)
accepts connections and publishes what they ask for on subjects derived from
host, path and method; `h8srd` (package `h8sreverse`) or a native service
(package `h8sservice`) subscribes to those subjects and answers on the reply
subject of each message. This directory holds TLA+ models of that system, the
TLC runs that check them on small instances and proofs checked by TLAPS.

    cd tla
    tlc -workers 2 -config http_two.cfg MCHttpTunnel
    tlapm HttpTunnelProofs.tla

`PROJECT.json` lists components, runs, mutants, the hazards of the code and, in
`map`, the source lines each definition stands for.

## The system

| Component | State | Operations | Module |
|---|---|---|---|
| `h8sproxy` HTTP handler | `pendingReqs`; per request a response channel, a sliding timer, `wroteHeaders`, `reason` | `Handler`, `dispatch`, `copyHeadersOnce` | `HttpTunnel` |
| `h8sproxy` admission | none | authorization, CIDR, CORS, host and interest filter | `HostRouting` (host filter), `InterestTracking` (interest filter), `HttpTunnel` (`Reject`: any refusal) |
| `h8sproxy` WebSocket | `WSPool`; per connection the Send channel and a reply subscription | `handleWebSocket`, `cmConnectionEstablished`, `cmConnectionClosed` | `WsTunnel` |
| `h8sreverse` HTTP | none between messages | `handleMsg`, `publishError` | `HttpTunnel`, its path and host in `HostRouting` |
| `h8sreverse` WebSocket | `wsConns`, a pump goroutine per backend connection | `handleControlEstablished`, `handleControlClosed`, `handleWebSocketFrame` | `WsTunnel` |
| `h8sreverse` subscriptions | `activeSubs` | `SubscribeForHost`, `UnsubscribeForHost`; `SubscribeAll` is not called by any program here | `IngressController`, `HostRouting` |
| `tracker` | `InterestMap`, `InterestSeen` | `Add`, `Remove`, `ValidRequest`, `RunEvictions` | `InterestTracking` |
| `h8sservice` | handlers, publisher loop, `websocketConnections` | `Run`, `Shutdown`, `Add`, `Delete` | `InterestTracking` (loop and shutdown), `HostRouting` (subscriptions and table) |
| `subjectmapper` | none | request to subject and back | `SubjectMapper` |
| `ingress` (in `k8srd`) | `routes`, `knownHosts`; the informer's cache | `reconcile`, `Resolve`, `findMatch` | `IngressController` |
| server, commands, tests | configuration | TLS, flags, wiring | not modelled |

The parts share no memory: everything between them is a NATS message. Within a
process the actors are goroutines. In the proxy these are the HTTP handlers, one callback
for all replies (`_INBOX.h8s.<ProxyID>.*`), and per WebSocket a handler, a
writer and a callback. In `h8srd` each subscription has one serial callback, and
each backend connection a pump. In a service the publisher loop and `Shutdown`
are different goroutines, and in the tracker each subscription has its callback,
beside the eviction loop. In `k8srd` the informer calls the controller, which
changes subscriptions under a lock that the callbacks of these subscriptions
take to resolve a backend.

What makes this hard:

- **Order.** NATS keeps the order within one subscription only. Announcements,
  close notices and frames of a WebSocket travel in three subscriptions, and
  registrations and unregistrations of an interest in two.
- **Addressing.** Who receives a message is decided by subjects in which the end
  of the host and the start of the path are not marked, by wildcards, by queue
  groups, and by host comparisons that treat ports and letter case differently.
- **Loss.** The response channel and the Send channel drop what does not fit.
  Messages without a subscriber, or pending when a process dies, are gone.
- **Time.** The reply timer slides and races answers already queued; the tracker
  evicts what it has not heard of for a minute while registrations are under way.
- **Cleanup.** Handlers deregister, close channels and send notices in deferred
  calls while the callbacks that use the same objects still run.
- **Reconfiguration.** The Ingress resources change while requests are under way,
  and one of the six subscriptions of a host may be refused.
- **Failure.** An `h8srd` may die in the middle of an answer; a read of the
  backend may fail before its first byte; a publication may fail.

What makes each component right, in short: a client gets the answer to its own
request, whole or recognisably incomplete, with the backend's status; handlers
always end and leave nothing registered; frames and messages keep their order
and their client; backend connections live as long as their client; the
tracker admits what running services offer and forgets what stopped ones did; a
request reaches the processes of its host and nobody else, with the path the client
asked for; subscriptions and routes follow the Ingress resources.

## Modules

**HttpTunnel** models the HTTP path. Each request is an actor whose `pc` follows
`Handler`: `Register` (pendingReqs.Store), `Publish`, the select loop
(`ObserveGone`, `Timeout`, `TakeData`, `TakeDataWriteFails`, `TakeEnd`), and the deferred `Unregister` and
`PublishClosed`. `Dispatch` is the reply callback, in two steps, because the handler
does not wait for it: `Load` looks the channel up and `Offer` is the non-blocking send to
what was found (`found`), though the handler may have deregistered in between.
A responder serves its subscription one request at a time: `BackendAnswers`,
`ReadChunk`, `ReadEOF` and `ReadError` are the stream of `handleMsg`;
`AnswerError` and `AnswerNothing` its failures. A service's handler is given the request
itself, so `ServicePublish` may answer with any header and data, as often as it likes, until
`ServiceReturn`. A reply is a kind, the status header it
carries and who sent it. `PublishOnly` names the requests that reach a proxy
in that mode (`ForwardOnly`), which is another one with another inbox, where no reply finds
a handler. A responder that crashes may subscribe again (`Restart`). `stream`, `taken` and `lost` are history: what was
published for a request, what its handler received, what was discarded.

**ReplyStream** is the promise made to one client: replies are received in
order, at most once, possibly not all; an exchange is complete only by receiving
a reply that ends the answer; afterwards it receives nothing. `HttpTunnel`
implements it (`ImplementsReplyStream`): channel, registry, timer and shared
subscription disappear in the refinement mapping `postedBar`, `gotBar`,
`outcomeBar`. Requests of a proxy in PublishOnly mode are no exchanges: nobody waits
for their replies.

**InterestTracking** models the publisher loop and `Shutdown` of services, the
two NATS subscriptions of the tracker, its maps and its eviction. Time is
counted in periods of 5 seconds (the pause of both loops); `interestSeen` is an
age. Whether rounds and deliveries take less than a period in this behaviour is
chosen once, in the variable `prompt`; only `EvictionSparesLive` asks for it.

**WsTunnel** models a WebSocket from the client to the backend. In the proxy
`pc` follows `handleWebSocket` from `Announce` over `Pool` and `Subscribe` to
the read loop and the deferred calls `Unsubscribe`, `RemoveFromPool`,
`CloseSend`, `CloseConn`, in their order. The loop ends by `ReadError` when the client has left
or the writer has closed the connection, and also when the client sends what `ReadMessage`
refuses, more than the read limit or a breach of the protocol (`broken`). The writer is `Write`,
`WriteFails`, `WriterReturns`. The callback is two steps, `Callback` (NATS calls
it) and `Deliver` (its select), because `Unsubscribe` does not wait for it. In
h8srd, `HandleEstablished`, `HandleClosed` and `HandleFrame` serve the three
subscriptions; a backend connection is named by the instance and the
connection it was dialled for. The dial blocks its subscription: the
announcement leaves `estQ` when the dial is over. `key` and `reply`, chosen in the
initial state, let clients share a key (the pool's index and their inbox) or a
session (a reply subject that is not an inbox). Closing a connection and deleting its entry of
`wsConns` are two steps (`deleting`, `DeleteEntry`), because three goroutines do both and
the deletion is by reply subject, whatever the entry is by then.

**SubjectMapper** has the operators of `subjectmapper` and of the patterns
`SubscribeForHost` makes. A hostname is a sequence of labels with a mark for a
port; a label or path segment is a text and the form it is written in (plain,
capitals, with a dot, escaped, with a stray `%`, a number of an IPv4 address, an IPv6 address up
to its first dot), and the forms tell whether the host is an address. `Underscored` replaces
the colons of one, so `::1` becomes the label `__1`, and `::ffff:1.2.3.4` four tokens. A path
is what its slashes separate, empty segments included, so `/api` and `/api/` differ;
`ProcessPath` drops the segments that are empty or cannot be unescaped. A subject keeps scheme, method
and one sequence of tokens: the reversed labels followed by the path.
`Matches` is the matching rule of NATS, external to this repository.

**HostRouting** composes them: the host filter of h8sd (`Admitted`), the messages a
client causes (`Request`, `Upgrade`, `SendFrame`, `Close`), with every exit of
`handleWebSocket` that leaves one of them out (`Announce`, `Notify`, `Vanish`,
`SubscribeFails`), the six subscriptions
of every h8srd, of which the ones for data may be in a queue group
(`GroupAt`, `Deliveries`), and those of services, which are made one by one while
clients come and go and which NATS may refuse (`Subscribe`). `HandleRequest`,
`HandleFrame`, `HandleEstablished`, `HandleClosed` are the callbacks of h8srd as far as
addressing goes: the path found in the subject, the host comparison, whether
the connection can be dialled, whether a frame finds it and can be written to it;
`BackendEnds` is the pump that gives up. `Add` and `Delete` keep the service's table. What a client
sends, the hostname flags and queue groups are chosen in the initial state, so
that one run goes through all combinations.

**IngressController** is k8srd. `Change` lets the informer's cache move on and
leaves a notification; `List`, `Update`, `RemoveHost`, `SubscribeNext`,
`SubscribeFails` and `Unlock` are the steps of `reconcile`, with the lock held
from `Update` to `Unlock`, as in the code. One step of `SubscribeNext` is one of the six
subscriptions, so a callback may run, and a request be published, between any two. `Callback` and
`Forward` are a subscription's callback before and after it waits for the lock.
An Ingress is the sequence of its rules, of which a later one may overwrite an earlier one
(`Overwrite`), within an Ingress in the order of its rules and between two in any order.
`RoutesOf`, `Table`, `Matching` and `Resolve` are the route table and the longest prefix;
`HasPrefix` is a comparison of strings, told in segments: the last segment of a prefix may end
within one of the path (`Begins`), and a prefix with a slash at its end asks for that slash. A
backend that is no Service (`NoService`) ends the process (`Panic`).

**RouteFollower** is what the controller promises: the routes in force are those
of some version of the Ingress resources, never of an older one than before, and in the
end those of the last, unless a version no routes can be made of stops the controller (`Stop`). `IngressController` implements it (`FollowsIngresses`); lists,
locks, subscriptions and notifications disappear.

**MCHttpTunnel**, **MCInterestTracking**, **MCWsTunnel**, **MCHostRouting** and
**MCIngressController** hold the instances. **HttpTunnelProofs** and
**HttpAnswerProofs**, **InterestTrackingProofs**, **WsTunnelProofs** and
**WsOrderProofs**, **SubjectMapperProofs**, **HostRoutingProofs** and
**IngressControllerProofs** hold the proofs.

Operators named `Fault...` are not used by any specification. Each is a
plausible bug in the definition after it; `PROJECT.json` pairs it with the
property that finds it when it takes that definition's place.

## Runs

| Run | Instance | Checks |
|---|---|---|
| `http_two` | 2 requests, 1 h8srd, channels of 2, 2 chunks | types, `InOrder`, `SkippedWereLost`, `CompletedHasEnd`, `WholeBody`, `HonestStatus`, `NoErrorPageInAnswer`, `DropOnlyWhenFull`, `ClosedThenUnknown` |
| `http_group` | a request and one of a proxy in PublishOnly mode; an h8srd and a service in one queue group, one of which may crash; NATS may discard replies | `OneVoice`, `ImplementsReplyStream`, `EveryExchangeEnds` |
| `interest_replicas` | 2 replicas of one endpoint; late, reordered and lost messages, a restart of the proxy | types, `EvictionSparesLive`, `SilentAfterShutdown`, `LiveInterestReturns`, `ForgottenAfterShutdown` |
| `ws_one` | 1 client, 1 h8srd, up to 3 frames or messages, at most 3 in all, Send channel of 1, a crash, failing publications | types, `FramesContiguous`, `MessagesInOrder`, `StrayWasOvertaken`, `ConnectionEnds`, `BackendFollowsClient` |
| `ws_two` | 2 clients with any keys and sessions, 1 h8srd; constraint `Sparse` | `FramesContiguous`, `MessagesInOrder`, `BackendsAreKnown`, `CloseIsCaused` |
| `routing` | 1 client with any of 8 offers, 2 h8srd with equal hosts, one with a port, or a host and its parent, alone or grouped, 1 service | types, `ServedOncePerGroup`, `LookupPathSurvives`, `EntryHasConnection`, `LostHasCause` |
| `ingress` | 2 Ingresses of 3 and 4 contents (a repeated and a disputed path, a prefix that ends in a slash, a backend that is no Service), 2 changes, 1 refused subscription, a request and a WebSocket | types, `SubscriptionsFollowKnown`, `SettledServesDesired`, `RoutedByPrefix`, `FallbackHasCause`, `FollowsIngresses`, `HostIsServed` |

Five more runs end in a counterexample, each a disagreement between the code and
what the repository says of it: `interest_removal`, `interest_websocket`,
`ws_panic`, `routing_port` and `ingress_specific` (the findings below).

**Bounds.** Channels hold one or two messages; the defaults are 128 for a response
channel and 1024 for a Send channel. Full and not full are then both reached
within a few steps, and the code does not look at the capacity in any other way.
Two chunks are the least at which the first message, which carries the header,
differs from a later one. Three frames are the least at which a gap can show between two, and
three WebSocket messages the least at which a Send channel of one fills, drops and accepts
again. Two requests, clients, replicas or
instances show what sharing a subscription or an entry does: no definition counts
them. One crash hits every point of a stream. `MaxChunks` also cuts a service that would
answer for ever and restart the timer each time: such an exchange ends only when its client
leaves, and `EveryExchangeEnds` says nothing of it. `TTL` is one period
instead of twelve: the tracker only compares an age with it. `MaxBacklog` bounds
the registrations pending when a period ends. `Sparse` of `ws_two` leaves connecting,
closing and deleting of two clients unrestricted and allows one frame or message
where these could be confused. In `routing` one client is enough, because
nothing of one client depends on another but the order in a queue, which
`WsTunnel` has; the offers contain every disagreement between two hosts the code compares: a
port, capitals, a parent domain, another `X-Forwarded-Host` with as many or
fewer labels, an escaped path. In `ingress` two changes are the least after which a list,
taken before the lock, is older than the cache, a host goes and comes back, or two
Ingresses dispute a path; one failure hits every one of the six subscriptions; the paths asked
for there are clean, and paths in general are left to the theorems. `CHECK_DEADLOCK FALSE` is set where
the system may stop: requests, connections and services are finite in number.

**Fairness.** Weak fairness of each goroutine's own steps, which the Go scheduler
gives. The timer of a waiting handler is part of the handler, hence it fires in
the end if nothing else happens. Responders, callbacks and time go on, and so does
the goroutine that runs the controller's handlers. Nothing is
assumed of clients, of the cluster, of crashes, restarts or losses, of the start and shutdown of
a service, of a client's next frame or of a backend's next message. A backend
that never answers stops its h8srd for the 30 seconds of its HTTP client and is
then an `AnswerError`.

## Findings

- `interest_removal`: `Shutdown` promises the tracker immediate removal, but it
  unregisters while the publisher loop may still register, and the two kinds of
  message overtake each other. The interest then stays until its TTL.
  `ForgottenAfterShutdown` shows that it does go.
- `interest_websocket`: WebSocket handlers are registered with the method `ws`
  and looked up with `GET`, so with interest tracking their upgrades are refused.
- `ws_panic`: the handler closes the Send channel while the reply callback may
  be running; a send on a closed channel ends the process.
- `routing_port`: README.md:219-220 asks for a hostname flag that matches the host clients use
  and recommends one with a port in development; proxy.go:371 drops the port from the header and
  reverse.go:506 compares the header with the whole flag, so such an h8srd gets the requests of
  its host, for subjects have no port, and turns down every WebSocket announcement.
- `ingress_specific`: the subscriptions of a host are said to be specific to
  it, but its wildcard also matches every request for a subdomain.

Behaviour that no document contradicts but that the properties make visible:

- `CompletedHasEnd`: an error answer of h8srd has no end marker, so the client
  of a failed backend is held until the timer fires.
- `HonestStatus`: after a read error before the first byte, and from a service
  without a status header, the client gets 200.
- `WholeBody` needs `lost[r] = {}`: a full response channel leaves a hole in a
  body that the client takes for complete. Likewise a timeout in mid-stream ends
  the body as if it were whole.
- `StrayWasOvertaken`: a close notice that is handled while h8srd still dials the
  backend is forgotten, and the connection dialled is never closed. Of the notices
  published, only these go wrong. The property speaks of clients with a reply subject of
  their own (`Alone`): in a shared session the notice of one client closes the entry of another.
- `CompletedHasEnd` counts the five bytes `0\r\n\r\n` as an end, as the proxy does: a
  backend whose body happens to be read as exactly these ends its answer there.
- `ClosedThenUnknown`: after the close notice dispatch finds the channel for no further reply.
  One it had found the channel for before may still be put into it, where nobody takes it.
- `LostHasCause`: a frame finds no connection where the announcement was not published (a pooled
  key, a failed publication), was turned down or has been followed by the close notice; where h8srd
  could not resolve or dial the backend or has lost it again; in an h8srd of a parent domain, which
  gets the frames but not the announcement; and where `X-Forwarded-Host` differs from
  `Host`, because the data subject is built from the one and the control subject from
  the other. In a queue group the frames of a client are spread over the
  instances, all of which have dialled a backend connection.
- `FramesContiguous` holds if no two h8srd share a queue group (`OwnGroups`, the
  hypothesis of `FramesKeepOrder`): in a shared one NATS may give a frame to one instance and the
  next to another, and each has a backend connection of its own. The frames an h8srd had
  pending or that are sent until it subscribes again are lost with it in a crash, together with
  the connection, and nothing tells the client.
- `ServedOncePerGroup` asks for an answer only if hostname and request agree in letter
  case: filters ignore it, subjects do not. It also shows that a group shared by a domain
  and its parent lets either of them serve a request.
- `LookupPathSurvives` excepts an `X-Forwarded-Host` of more or fewer labels than `Host`: the path is cut at
  the wrong place, since it starts where the header's host would end. It is the path a
  resolver chooses the backend by; the backend itself is sent the path of a header.
- `RoutedByPrefix` excepts WebSockets of hosts with several labels:
  reverse.go:541 takes the path from a fixed index and finds labels of the host in
  it. It also excepts paths that are not clean (`Clean`). Segments with a dot arrive escaped, and
  no Ingress prefix is. Slashes at the end or in a row are gone (mapper.go:206-217) while the
  prefixes keep theirs (controller.go:79-84), so the rule `/api/` does not get a request for `/api/`.
- `ColonsCollide`: the colons of an IPv6 address become underscores (mapper.go:189), so the hosts
  `[::1]` and `__1` have the same subjects.
- `EntryHasConnection`: an entry stays in a service's table if the handler returns without a close
  notice (proxy.go:624-627, 665-669, or a failed publication), or the notice overtakes the
  announcement or comes before its subscription; nothing removes it later.
- `SettledServesDesired`: a host whose subscription failed is tried again only
  when some Ingress changes, because the resync period is 0.
- `HostIsServed` excuses a dead process: controller.go:174 reads the name of a backend's Service
  without a check, so one Ingress with another resource as its backend ends k8srd, for the
  hosts of all.
- `FollowsIngresses` leaves open which of two Ingresses wins a host and path: the
  order of the lister decides, and it may be another one each time.
- `BackendFollowsClient` excuses a handler that returned without a close notice:
  after a frame that cannot be published (`PublishFails`, proxy.go:668) or a
  subscription that fails (`SubscribeFails`) every h8srd keeps its backend connection.

And some the models contain without a property that speaks of it:

- The proxy announces a connection (proxy.go:606) before it subscribes to the reply subject
  (proxy.go:615), so the backend's first messages may find no subscriber.
- A backend that leaves is not reported to its client (reverse.go:654-659).
- Clients of one session share a reply subject, and the later one replaces the
  connection of the earlier in `wsConns` (reverse.go:643), which nothing closes any more.
- Pool, announcement and subscription are three steps (proxy.go:606-615), and a second
  client with the same key may come between them.
- The host `example.com` with the path `/foo` and the host `foo.example.com` with none have one
  subject, so an h8srd of either serves both.

Outside of the models, met while reading for them: `GetConnectionsBySubject` reads the header
`X-H8S-PublishSubject` while the proxy writes `X-H8s-PublishSubject`, and NATS headers
keep the letter case, so it finds nothing (used in examples/myServer/main.go:109);
an endpoint registered with the scheme `https` is never reached, because the proxy
always publishes `http`; a body over `MaxBodySize` is cut, forwarded and only logged
(proxy.go:745); of a list in `X-Forwarded-Host` the host filter reads the first entry while the
subject is made of the whole text; a path segment that cannot be unescaped a second
time, such as `100%`, is missing in the subject (mapper.go:218).

## Proofs

Eight modules hold proofs, all checked to the last leaf. Every invariant and every action
property of a run is a theorem, as are the safety parts of the two refinements; liveness is not.
The theorems hold for all values of the constants that satisfy the assumption named in the
component's module (`ConfigAssumption`, `RoutingAssumption`, ...). Where a theorem needs more,
that is its hypothesis:

| Hypothesis | Theorems | Why |
|---|---|---|
| `~LossyInbox` | `StatusIsHonest`, `DiscardOnlyWhenFull` | NATS does not discard what is pending for the proxy; otherwise any reply may be missing |
| `QueueGroups = {Responders}` | `OneGroupOneVoice` | README.md:250 promises one answer only inside a queue group |
| `OwnGroups` | `FramesKeepOrder` | the frames of a client are spread over a shared queue group |
| `GroupsDiffer` | `OneServesTheGroup` | an h8srd with the generated queue group of a service (`h8ss-...`) would share its requests with that service |

### HttpTunnelProofs

For every set of requests and responders, every
grouping, capacity and bound that satisfy `ConfigAssumption`:

- `TypeCorrect`: `Spec => []TypeOK`, which includes that no response channel
  ever exceeds its capacity, since only `Offer` appends and it looks first;
- `RepliesInOrder`: `Spec => []InOrder`.

`InOrder` is not inductive: what a handler will receive next is in its channel or
still in the subscription. The inductive invariant is

    IInv == TypeOK /\ Published /\ Ordered

`Published` says that every envelope on the way (in the subscription, a channel
or already taken) names a reply that was published. `Ordered` says that for each request the
positions in `taken`, then the channel, then its part of `inbox`, increase:
each within itself, and everything in an earlier stage before everything in a
later one. `Offer` and `Receive` move the first element of one stage to the end of the
one before, publications append a position larger than any before. One lemma per
kind of step (`BeginInv`, `LocalInv`, `TakeInv`, `DispatchInv`,
`ResponderInv`) carries the argument; `NextInv` collects them. TLC checked
`IInv` on a small instance before it was proved.

### HttpAnswerProofs

The rest of the HTTP path, on top of `IInv`: `NothingStuck` (`SkippedWereLost`), `CompletedByEnd`
(`CompletedHasEnd`), `CompletedIsWhole` (`WholeBody`), `ErrorPageAlone` (`NoErrorPageInAnswer`),
`StatusIsHonest` (`HonestStatus`), `OneGroupOneVoice` (`OneVoice`), the action properties
`DiscardOnlyWhenFull` and `UnknownAfterClose`, and `HttpImplementsReplyStream`. They share one invariant:

    AInv == IInv /\ Phases /\ Bodies /\ CompletedHasEnd /\ Accounted
            /\ Asked /\ Begun /\ Headed /\ FirstKept /\ Honest /\ OneSpeaker

| Part | Why it is needed |
|---|---|
| `Phases` | what a handler has done at each place: registered, written a header, given up |
| `Bodies` | the body is the data of what was taken, in that order; with `InOrder` and `Accounted` a completed body is whole |
| `Accounted` | a published reply is lost, taken, in the channel or in the inbox, so one that was skipped is lost |
| `Asked`, `Begun`, `Headed` | only published requests are served, and the first reply to one has the header unless a read failed before it or a service left it out |
| `FirstKept`, `Honest` | the first reply is not discarded while its handler waits, as its channel is empty then; so a status without a header tells of such a reply |
| `OneSpeaker` | one responder of the group serves a request or has answered it |

The refinement is proved step by step: the initial states map to initial ones
(`InitRefines`), and each action is a post, a receive, an end or a stutter of one exchange of
`ReplyStream` (`StepRefines`).

### InterestTrackingProofs

- `TypeCorrect`: `Spec => []TypeOK`;
- `LiveIsSpared`: `Spec => EvictionSparesLive`;
- `ShutdownIsSilent`: `Spec => SilentAfterShutdown`.

The invariant is `IInv == TypeOK /\ LoopRuns /\ HeardStarted /\ Fresh`. `Fresh` bounds an age by
what was lost: an interest that a running service has registered is no older than the messages
lost so far, or one period older while the registration of the present period is still to
come. Eviction asks for more than `TTL` periods, which takes as many losses, so
`losses < TTL` excludes it. `LoopRuns` says that the publisher loop has returned when `Shutdown`
has, from which the silence follows.

### WsTunnelProofs

- `TypeCorrect`: `Spec => []TypeOK`;
- `BackendsKnown`: `Spec => []BackendsAreKnown`;
- `StrayIsOvertaken`: `Spec => []StrayWasOvertaken`;
- `HangUpHasCause`: `Spec => CloseIsCaused`, an action property: behind a closed backend
  connection is a notice, and behind the notice a client that left, could not be written to or
  sent what `ReadMessage` refuses.

They follow from `ControlInv == TypeOK /\ Control /\ BackendsAreKnown /\ NoticeWorks`. `Control` says
what the deferred calls and the three goroutines that close a connection have done by when: a close
notice is out only for a key whose client left, was shut out or sent what cannot be read (`Noticed`), a client is
announced once and dialled after that (`AnnouncedOnce`), a dead h8srd has nothing left (`Down`), an entry
of `wsConns` is under its connection's reply subject (`Table`), and who is about to delete an
entry has closed the connection (`ClosedFirst`). `NoticeWorks` follows one notice: it is
pending until it has closed the connection, unless it came before the announcement.

### WsOrderProofs

- `MessagesKeepOrder`: `Spec => []MessagesInOrder`;
- `FramesKeepOrder`: `Spec => []FramesContiguous`.

As with HTTP replies, what a client has got is in order because all it is going to get is:
the invariants are about pipes. `MessagesFlow` says that `got`, the Send channel, the callback's message and
the inbox, one after the other, have the messages of each backend connection in order, and that
what is missing between two was dropped for a full channel. `FramesFlow` says the same, without any
gap, of the frames a backend connection was given and those its h8srd has pending. A step either moves an
element across the border of two parts of the pipe, which changes nothing, or appends
one with the next number. `FramesFlow` needs `ControlInv`: a frame goes to the connection
that `wsConns` has for its reply subject, which is open and the client's.

### SubjectMapperProofs

Facts about the operators, for all hostnames and paths (from no assumption but the hypotheses named):

- `ReverseHostnameInjective`: hostnames with the same tokens have the same labels, if neither is an
  IPv6 address (`NoColons`), whether or not they are IPv4 addresses, which are not reversed;
- `ColonsCollide`: without that hypothesis it is false, for every IPv6 address without a dot;
- `PathRestored`: what `handleMsg` cuts out of a subject is the processed path, if the host it
  counts has as many labels as the host of the subject;
- `OnePatternPerMessage`: the six patterns of a host do not overlap;
- `HostIsHeard`: one of them matches every request for the host;
- `ParentHearsSubdomain`: so does one of its parent's, which is why
  `SpecificToHost` fails, for any host and not just that of the run.

### HostRoutingProofs

For any clients, h8srd, services, offers, hostnames, groups and bounds that satisfy
`RoutingAssumption` (hosts are hostnames without wildcards, instances and
services are different processes):

- `LookupPathsAreKept`: `Spec => []LookupPathSurvives`;
- `EntriesHaveConnections`: `Spec => []EntryHasConnection`;
- `LossesHaveCauses`: `Spec => LostHasCause`, an action property;
- `OneServesTheGroup`: `GroupsDiffer` implies `Spec => []ServedOncePerGroup`;
- `TypeCorrect`: `Spec => []TypeOK`.

None of them is inductive. The first three follow from one invariant, `Inv`:

| Part | Why it is needed |
|---|---|
| `Configured`, `Listening` | types; the subscriptions of an h8srd never go |
| `AnnouncementsHeard` | an announcement is pending only where the tokens of its host are those of the process |
| `PathsFound` | backends are looked up with the path computed from subject and header, to which `PathRestored` applies |
| `NoticesFollow` | an entry, or an announcement that will become one, is of an open client, or of one whose handler published no notice, or its notice is pending behind it, overtaken or unheard; `EntryHasConnection` is the case of empty queues |
| `FramesOfOpen`, `AnnouncementsKnown` | a frame is of a client that was upgraded, and every h8srd of its host still has the announcement pending, is connected, turned it down, failed, or has seen its end, unless none was published; `LostHasCause` follows |

The lemmas `NewlyPending` and `NoLongerPending` say once which action adds a
message to a queue and which removes it; the parts use only them. `ControlDelivery`
carries over from `SubjectMapperProofs` that the control patterns match no data subject.

`OneServesTheGroup` needs `RequestsInv == Inv /\ SubscriptionsType /\ RequestsSpread`. A request has
reached an h8srd when it is pending there or was served; `RequestsSpread` says that it reaches
none before it is published, never two that share a group, and one of the group of each h8srd
with its hostname. Publishing is the one step that matters (`RequestSpreads`): `HostIsHeard` gives a
matching subscription, `Deliveries` chooses one of its group, and that is an h8srd's
because the groups of services differ. `StillReached` and `NewlyReached` cover all other steps.

`TypeCorrect` has one part that is not a matter of types: a client loses at most as many frames in an h8srd
as it has sent. `FramesBounded` adds up what is lost and what waits in the two
subscriptions for frames. A frame adds one to that sum because of `OnePatternPerMessage`, and the lemmas
`OfAppend` and `OfTail` count the messages of one client in a queue.

### IngressControllerProofs

For any finite set of Ingresses, any rules, requests and bounds that satisfy
`IngressAssumption`:

- `SubscriptionsKept`: `Spec => []SubscriptionsFollowKnown`;
- `SettledHosts`: `Spec => []SettledServesDesired`;
- `TypeCorrect`: `Spec => []TypeOK`;
- `PrefixesAreKept`: `Spec => []RoutedByPrefix`;
- `FallbacksHaveCauses`: `Spec => []FallbackHasCause`;
- `RoutesFollow`: `Spec => Follower!Init /\ [][Follower!Next]_(Follower!vars)`, the refinement of
  `RouteFollower` without its fairness.

The first two speak of states in which `reconcile` is not at work, so the
invariant has to say what holds in its midst:

    IInv == pc \in {...} /\ Opening /\ Recorded /\ Subscribed /\ Notified /\ Reconciled

`Subscribed` counts, beside the six subscriptions of each known host, those
`SubscribeForHost` has made so far for the host it is at, and `Opening` says that there is one
such host at most, that it is desired and not known, and that the lock is
held. `Unlock` then finds nothing half done. `Notified` says that as long as the last version is not listed
a notification is pending, and `Reconciled` that between
reconciliations the known hosts are those of the version listed, which are
the last when nothing is pending. One lemma per operation, each about all parts.
`RoutesFollow` adds that the version served is not newer than the one listed; a panic is the `Stop` of
`RouteFollower`.

What becomes of requests needs more:

    RoutingInv == IInv /\ Progress /\ Mail /\ Results

`Progress` says that the version served is one that was listed and that the table was built
from it; `ProgressStep` adds that no step changes a version or goes back to an older one. `Mail` says that
a request that is pending or in hand was published, while a version was served that is not newer than the present
one. `Results` are the two properties themselves, with the versions they speak of bounded by
the one served, so that later steps cannot touch them. That the table has one route for each host and
prefix, a part of `TypeOK`, is `OverwriteIsMap`. Two facts about operators carry the argument:

- `TableCovers`: whatever the order in which the lister returns the Ingresses (`AllListed`), a
  path that a rule of some Ingress matches is matched by a route of the table, though perhaps
  that of another Ingress (`OverwriteCovers`: what overwrites a route has its host and prefix);
- `ResolveFinds`: if any route matches, `Resolve` finds a backend. Of two prefixes of a path one is a
  prefix of the other (`ShorterPrefix`, `DeeperPrefix`), so a longest one exists (`Greatest`). For the last
  segment of a prefix, which may end in the midst of one of the path, this rests on
  `BeginningsAssumption`: the beginnings of a text are finitely many and one of any two begins the
  other. That the empty text is a token is assumed there too, for the prover does not know that texts
  are strings.

`CleanPath` says that `ProcessPath` leaves a clean path alone, and `PathSeen` that the path in the
subject is then the one asked for, but for the WebSockets `RoutedByPrefix` excepts.

### Only model-checked

The liveness properties (`EveryExchangeEnds`, `LiveInterestReturns`, `ForgottenAfterShutdown`,
`ConnectionEnds`, `BackendFollowsClient`, `HostIsServed`), and of `FollowsIngresses` the fairness of `RouteFollower`:
the prover has no rule for fairness and cannot reason about ENABLED.

## Not modelled

NATS itself is external: routing, queue groups, the no-responders reply and the
slow-consumer loss are modelled from how the code uses them. Headers, bodies and URLs
are abstracted to what a property tells apart. TLS, flags, metrics, telemetry and logging
have no state the properties could speak of; authorization and CIDR checks are pure
tests of one request. `SubscribeAll` is called by no program of the repository.
A restart of k8srd after a panic is not modelled: it begins again from `Init`. In an Ingress, rules
without a host, which `reconcile` skips, are left out, and a rule with several paths stands
as so many rules. The chat of the example service is not modelled. That a service whose endpoint was
refused still publishes its interest (service.go:172) would need `HostRouting` and
`InterestTracking` in one module: each has its half.

## Plan

1. *(done)* `HttpTunnel`, `ReplyStream`, `InterestTracking`, `WsTunnel`; types and reply order proved.
2. *(done)* `SubjectMapper` and `HostRouting`: subjects, subscriptions, filters, the
   service's table; the mapper's facts and four properties proved.
3. *(done)* `IngressController` and `RouteFollower`.
4. *(done)* Proofs about `IngressController`: `SubscriptionsFollowKnown`,
   `SettledServesDesired`, the safety of `RouteFollower`.
5. *(done)* Proofs of every other invariant and action property: `HttpTunnel` and its
   refinement of `ReplyStream`, `InterestTracking`, `WsTunnel` (control, then order),
   `HostRouting` (`ServedOncePerGroup`, types) and `IngressController` (types and requests).
6. What would add most now: a lemma per liveness argument that needs no fairness (each
   waiting step stays enabled until it is taken, each measure falls), and `HostRouting` with the interest
   of `InterestTracking`, for services that publish interest in an endpoint NATS refused them.
