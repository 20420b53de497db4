------------------------------- MODULE HostRouting -------------------------------
(***************************************************************************)
(* Which processes a client's traffic reaches: the host filter of h8sd     *)
(* admits it, the subject mapper gives its messages subjects, and the      *)
(* subscriptions of h8srd instances and of services receive them.  An      *)
(* h8srd has the six subscriptions of its hostname; those for data may be  *)
(* in a queue group.  A service has a subscription for each of its         *)
(* endpoints and two for the control messages of its host, from which it   *)
(* keeps a table of WebSocket connections.                                 *)
(*                                                                         *)
(* The configuration of h8srd and what a client sends are chosen in the    *)
(* initial state.  Messages of one subscription stay in order, those of    *)
(* different subscriptions are handled in any order.  Every client has a   *)
(* Sec-WebSocket-Key and a reply subject of its own.  What happens to the  *)
(* answers, to equal keys and inside a WebSocket connection is left to     *)
(* HttpTunnel and WsTunnel.                                                *)
(***************************************************************************)
EXTENDS SubjectMapper

CONSTANTS
    Clients,
    Offers,        \* what a client may send
    HostFilters,   \* host filters of h8sd
    Instances,     \* h8srd processes
    Hostnames,     \* for each of them its possible hostname flags
    QueueGroups,   \* its possible queue groups; {}: none
    Services,      \* service processes
    EndpointOf,    \* the endpoint of each, served over HTTP and WebSocket
    MaxFrames,     \* bound: frames of a client
    MaxRefused     \* bound: subscriptions NATS refuses a service

Processes == Instances \cup Services

\* The places of the patterns of SubscribeForHost; a service uses the second for its
\* request endpoint and the fourth for its WebSocket endpoint.
Places == 1..6
Requests == {1, 2}
Frames == {3, 4}
Established == 5
Closed == 6

ASSUME RoutingAssumption ==
    /\ Instances \cap Services = {}
    /\ \A d \in Instances : Hostnames[d] \subseteq Hostname \ {NoHost}
    /\ Offers \subseteq [host : Hostname, forwarded : Hostname, path : Path, ws : BOOLEAN]
    /\ \A s \in Services : EndpointOf[s].host \in Hostname
    /\ MaxFrames \in Nat
    /\ MaxRefused \in Nat

VARIABLES
    \* configuration
    offer,      \* what each client sends
    hostname,   \* FilterHost of each h8srd
    group,      \* its QueueGroup
    \* h8sd
    stage,      \* where the handler of each client is
    frames,     \* frames it has published
    unannounced,\* history: clients upgraded without an announcement
    unnoticed,  \* history: clients closed without a notice
    \* NATS
    live,       \* subscriptions, as <<process, place>>
    queue,      \* pending messages of each, as clients
    \* h8srd
    accepted,   \* <<d, c>>: d has handled an announcement of c
    \* services
    starting,   \* places a service has yet to subscribe to
    table,      \* <<s, c>>: websocketConnections of s has c
    \* history
    refused,    \* <<d, c>>: d has turned down an announcement of c
    failed,     \* <<d, c>>: d could not connect for c or lost the connection again
    lost,       \* frames of each c that found no connection in d
    served,     \* requests handled: by whom, and the path its backend was looked up with
    ended,      \* <<d, c>>: d has handled the close notice of c
    overtaken,  \* <<s, c>>: s handled the close notice of c before the announcement
    unheard     \* <<p, c>>: p had no subscription for the close notice of c

configVars == <<offer, hostname, group>>
proxyVars == <<stage, frames, unannounced, unnoticed, unheard>>
serviceVars == <<live, starting>>
resultVars == <<accepted, table, refused, failed, lost, served, ended, overtaken>>
vars == <<configVars, proxyVars, serviceVars, queue, resultVars>>

-------------------------------------------------------------------------------
(* Subscriptions.                                                          *)

\* The endpoint of a service, as AddRequestHandler and NewWebsocketHandler name it.
EndpointPattern(scheme, method, e) ==
    [scheme |-> scheme, method |-> method,
     tokens |-> ReverseHostname(e.host) \o ProcessPath(e.path), more |-> FALSE]

PatternOf(p, i) ==
    IF p \in Services /\ i \in Requests THEN EndpointPattern(EndpointOf[p].scheme, "GET", EndpointOf[p])
    ELSE IF p \in Services /\ i \in Frames THEN EndpointPattern("ws", "ws", EndpointOf[p])
    ELSE HostPatterns(IF p \in Services THEN EndpointOf[p].host ELSE hostname[p])[i]

FaultControlGroup(p, i) == group[p]
FaultRootGroup(p, i) == IF i \in {1, 3} THEN group[p] ELSE {}

\* The queue group of a subscription: h8srd never shares control messages.
InstanceGroup(p, i) == IF i \in Requests \cup Frames THEN group[p] ELSE {}

\* Services share an endpoint, not the control messages.
ServiceGroup(p, i) == IF i \in Requests \cup Frames THEN {EndpointOf[p]} ELSE {}
GroupAt(sub) ==
    IF sub[1] \in Services THEN ServiceGroup(sub[1], sub[2]) ELSE InstanceGroup(sub[1], sub[2])

\* NATS: every matching subscription without a group receives the message, and one
\* of those in a group, whatever their patterns are.
Deliveries(subject) ==
    LET matching == {sub \in live : Matches(PatternOf(sub[1], sub[2]), subject)}
    IN {chosen \in SUBSET matching :
           /\ \A sub \in matching : GroupAt(sub) = {} => sub \in chosen
           /\ \A sub \in matching : GroupAt(sub) # {} =>
                 \E one \in chosen :
                    {other \in chosen : GroupAt(other) = GroupAt(sub)} = {one}}

\* Publish a message of c on the subject.
Publish(c, subject) ==
    \E chosen \in Deliveries(subject) :
        queue' = [sub \in DOMAIN queue |->
                     IF sub \in chosen THEN Append(queue[sub], c) ELSE queue[sub]]

Init ==
    /\ offer \in [Clients -> Offers]
    /\ hostname \in {h \in [Instances -> UNION {Hostnames[d] : d \in Instances}] :
                        \A d \in Instances : h[d] \in Hostnames[d]}
    /\ group \in [Instances -> QueueGroups]
    /\ stage = [c \in Clients |-> "new"]
    /\ frames = [c \in Clients |-> 0]
    /\ live = Instances \X Places
    /\ queue = [sub \in Processes \X Places |-> <<>>]
    /\ accepted = {}
    /\ starting = [s \in Services |-> {2, 4, 5, 6}]
    /\ table = {}
    /\ refused = {}
    /\ failed = {}
    /\ unannounced = {}
    /\ unnoticed = {}
    /\ lost = [x \in Instances \X Clients |-> 0]
    /\ served = {}
    /\ ended = {}
    /\ overtaken = {}
    /\ unheard = {}

-------------------------------------------------------------------------------
(* h8sd.                                                                   *)

\* req.Host, once the handler has normalised it, and the X-Forwarded-Host.
Host(c) == WithoutPort(offer[c].host)
Forwarded(c) == offer[c].forwarded
SubjectHost(c) == RoutingHost(Host(c), Forwarded(c))

\* The host filter.
Admitted(c) ==
    \/ HostFilters = {}
    \/ \E filter \in HostFilters :
          \/ EqualFold(Host(c), WithoutPort(filter))
          \/ Forwarded(c) # NoHost /\ EqualFold(WithoutPort(Forwarded(c)), WithoutPort(filter))

Deny(c) ==
    /\ stage[c] = "new"
    /\ ~Admitted(c)
    /\ stage' = [stage EXCEPT ![c] = "denied"]
    /\ UNCHANGED <<configVars, frames, unannounced, unnoticed, unheard, serviceVars, queue, resultVars>>

\* A request is published.
Request(c) ==
    /\ stage[c] = "new"
    /\ Admitted(c)
    /\ ~offer[c].ws
    /\ stage' = [stage EXCEPT ![c] = "sent"]
    /\ Publish(c, PublishSubject("GET", SubjectHost(c), offer[c].path))
    /\ UNCHANGED <<configVars, frames, unannounced, unnoticed, unheard, serviceVars, resultVars>>

\* A WebSocket connection is announced, unless its key is in the pool or publishing
\* fails, which is only logged.
Announce(c) ==
    \/ /\ Publish(c, ControlSubject("established", Host(c)))
       /\ UNCHANGED unannounced
    \/ /\ unannounced' = unannounced \cup {c}
       /\ UNCHANGED queue
Upgrade(c) ==
    /\ stage[c] = "new"
    /\ Admitted(c)
    /\ offer[c].ws
    /\ stage' = [stage EXCEPT ![c] = "open"]
    /\ Announce(c)
    /\ UNCHANGED <<configVars, frames, unnoticed, unheard, serviceVars, resultVars>>

\* The handler returns without a close notice: its subscription for the replies fails
\* before the first frame, or a frame cannot be published.
Vanish(c) ==
    /\ stage[c] = "open"
    /\ stage' = [stage EXCEPT ![c] = "closed"]
    /\ unnoticed' = unnoticed \cup {c}
    /\ UNCHANGED <<configVars, frames, unannounced, unheard, serviceVars, queue, resultVars>>
SubscribeFails(c) == frames[c] = 0 /\ Vanish(c)

\* It sends frames
SendFrame(c) ==
    \/ /\ stage[c] = "open"
       /\ frames[c] < MaxFrames
       /\ frames' = [frames EXCEPT ![c] = @ + 1]
       /\ Publish(c, WebSocketPublishSubject(SubjectHost(c), offer[c].path))
       /\ UNCHANGED <<configVars, stage, unannounced, unnoticed, unheard, serviceVars, resultVars>>
    \/ frames[c] < MaxFrames /\ Vanish(c)

\* and is closed, with a notice unless the key is not in the pool or publishing fails.
Notify(c) ==
    \/ /\ Publish(c, ControlSubject("closed", Host(c)))
       /\ unheard' = unheard \cup {<<p, c>> : p \in {q \in Processes : <<q, Closed>> \notin live}}
       /\ UNCHANGED unnoticed
    \/ /\ unnoticed' = unnoticed \cup {c}
       /\ UNCHANGED <<queue, unheard>>
Close(c) ==
    /\ stage[c] = "open"
    /\ stage' = [stage EXCEPT ![c] = "closed"]
    /\ Notify(c)
    /\ UNCHANGED <<configVars, frames, unannounced, serviceVars, resultVars>>

-------------------------------------------------------------------------------
(* h8srd.                                                                  *)

\* A callback takes the next message of its subscription.
FaultTake(p, i, c) ==
    /\ queue[<<p, i>>] # <<>>
    /\ c = Head(queue[<<p, i>>])
    /\ UNCHANGED queue
Take(p, i, c) ==
    /\ queue[<<p, i>>] # <<>>
    /\ c = Head(queue[<<p, i>>])
    /\ queue' = [queue EXCEPT ![<<p, i>>] = Tail(@)]

\* An announcement of c that p has yet to handle.
Announcing(p, c) == \E n \in DOMAIN queue[<<p, Established>>] : queue[<<p, Established>>][n] = c

\* The path handleMsg looks the backend up with: what follows, in the subject, as many
\* tokens as the Host in the header has.  The backend is then sent the path of the
\* header.
LookupPath(c) ==
    PathInSubject(PublishSubject("GET", SubjectHost(c), offer[c].path), Host(c))

\* handleMsg for a request
HandleRequest(d, c) ==
    /\ \E i \in Requests : Take(d, i, c)
    /\ served' = served \cup {[by |-> d, client |-> c, path |-> LookupPath(c)]}
    /\ UNCHANGED <<configVars, proxyVars, serviceVars, accepted, table, refused, failed, lost, ended, overtaken>>

\* and for a frame, which needs a connection; a failed write ends the connection.
HandleFrame(d, c) ==
    /\ \E i \in Frames : Take(d, i, c)
    /\ \/ /\ <<d, c>> \notin accepted
          /\ lost' = [lost EXCEPT ![<<d, c>>] = @ + 1]
          /\ UNCHANGED <<accepted, failed>>
       \/ /\ <<d, c>> \in accepted
          /\ UNCHANGED <<accepted, failed, lost>>
       \/ /\ <<d, c>> \in accepted
          /\ accepted' = accepted \ {<<d, c>>}
          /\ failed' = failed \cup {<<d, c>>}
          /\ UNCHANGED lost
    /\ UNCHANGED <<configVars, proxyVars, serviceVars, table, refused, served, ended, overtaken>>

\* handleControlEstablished compares the Host with its filter first, then resolves the
\* backend, unescapes the path and dials, each of which may fail.
HandleEstablished(d, c) ==
    /\ Take(d, Established, c)
    /\ \/ /\ EqualFold(Host(c), hostname[d])
          /\ accepted' = accepted \cup {<<d, c>>}
          /\ UNCHANGED <<refused, failed>>
       \/ /\ EqualFold(Host(c), hostname[d])
          /\ failed' = failed \cup {<<d, c>>}
          /\ UNCHANGED <<accepted, refused>>
       \/ /\ ~EqualFold(Host(c), hostname[d])
          /\ refused' = refused \cup {<<d, c>>}
          /\ UNCHANGED <<accepted, failed>>
    /\ UNCHANGED <<configVars, proxyVars, serviceVars, table, lost, served, ended, overtaken>>

\* The pump of a connection whose backend has closed it or failed removes it.
BackendEnds(d, c) ==
    /\ <<d, c>> \in accepted
    /\ accepted' = accepted \ {<<d, c>>}
    /\ failed' = failed \cup {<<d, c>>}
    /\ UNCHANGED <<configVars, proxyVars, serviceVars, queue,
                   table, refused, lost, served, ended, overtaken>>

\* handleControlClosed does not compare.
HandleClosed(d, c) ==
    /\ Take(d, Closed, c)
    /\ accepted' = accepted \ {<<d, c>>}
    /\ ended' = ended \cup {<<d, c>>}
    /\ UNCHANGED <<configVars, proxyVars, serviceVars, table, refused, failed, lost, served, overtaken>>

-------------------------------------------------------------------------------
(* Services.                                                               *)

\* Run makes its subscriptions in this order; what NATS refuses is only logged.
Subscribe(s) ==
    /\ starting[s] # {}
    /\ LET i == Min(starting[s])
       IN /\ starting' = [starting EXCEPT ![s] = @ \ {i}]
          /\ \/ live' = live \cup {<<s, i>>}
             \/ /\ Cardinality({j \in Places \ starting[s] : <<s, j>> \notin live}) < MaxRefused + 2
                /\ UNCHANGED live
    /\ UNCHANGED <<configVars, proxyVars, queue, resultVars>>

\* The micro service calls the endpoint's handler.
ServeRequest(s, c) ==
    /\ \E i \in Requests : Take(s, i, c)
    /\ served' = served \cup {[by |-> s, client |-> c, path |-> EndpointOf[s].path]}
    /\ UNCHANGED <<configVars, proxyVars, serviceVars, accepted, table, refused, failed, lost, ended, overtaken>>

\* A frame goes to the WebSocket handler's Read, whatever the table holds.
ReadFrame(s, c) ==
    /\ \E i \in Frames : Take(s, i, c)
    /\ UNCHANGED <<configVars, proxyVars, serviceVars, resultVars>>

\* The control handler: Add
Add(s, c) ==
    /\ Take(s, Established, c)
    /\ table' = table \cup {<<s, c>>}
    /\ UNCHANGED <<configVars, proxyVars, serviceVars, accepted, refused, failed, lost, served, ended,
                   overtaken>>

FaultRemaining(s, c) == table
Remaining(s, c) == table \ {<<s, c>>}

\* and Delete.
Delete(s, c) ==
    /\ Take(s, Closed, c)
    /\ table' = Remaining(s, c)
    /\ overtaken' = IF Announcing(s, c) THEN overtaken \cup {<<s, c>>} ELSE overtaken
    /\ UNCHANGED <<configVars, proxyVars, serviceVars, accepted, refused, failed, lost, served, ended>>

-------------------------------------------------------------------------------

Next ==
    \/ \E c \in Clients :
          \/ Deny(c) \/ Request(c) \/ Upgrade(c) \/ SubscribeFails(c) \/ SendFrame(c) \/ Close(c)
    \/ \E d \in Instances, c \in Clients :
          \/ HandleRequest(d, c) \/ HandleFrame(d, c)
          \/ HandleEstablished(d, c) \/ BackendEnds(d, c) \/ HandleClosed(d, c)
    \/ \E s \in Services : Subscribe(s)
    \/ \E s \in Services, c \in Clients :
          \/ ServeRequest(s, c) \/ ReadFrame(s, c) \/ Add(s, c) \/ Delete(s, c)

Spec == Init /\ [][Next]_vars
-------------------------------------------------------------------------------
(* Properties.                                                             *)

TypeOK ==
    /\ offer \in [Clients -> Offers]
    /\ \A d \in Instances : hostname[d] \in Hostnames[d]
    /\ group \in [Instances -> QueueGroups]
    /\ stage \in [Clients -> {"new", "denied", "sent", "open", "closed"}]
    /\ frames \in [Clients -> 0..MaxFrames]
    /\ live \subseteq Processes \X Places
    /\ queue \in [Processes \X Places -> Seq(Clients)]
    /\ accepted \subseteq Instances \X Clients
    /\ starting \in [Services -> SUBSET Places]
    /\ table \subseteq Services \X Clients
    /\ refused \subseteq Instances \X Clients
    /\ failed \subseteq Instances \X Clients
    /\ lost \in [Instances \X Clients -> 0..MaxFrames]
    /\ \A x \in served : x.by \in Processes /\ x.client \in Clients
    /\ ended \subseteq Instances \X Clients
    /\ overtaken \subseteq Services \X Clients
    /\ unheard \subseteq Processes \X Clients
    /\ unannounced \subseteq Clients
    /\ unnoticed \subseteq Clients

Quiet == \A sub \in DOMAIN queue : queue[sub] = <<>>

\* An h8srd whose hostname flag is the Host of a client's request, written in the same
\* way, never turns down the announcement of the client's connection.  README.md:219-220
\* says the flag must match that host and recommends one with a port in development;
\* h8sd drops the port from the header and handleControlEstablished compares the header
\* with the whole flag (proxy.go:371, reverse.go:505-509).
MatchingHostnameAccepts == \A x \in refused : offer[x[2]].host # hostname[x[1]]

\* A frame finds no connection in an h8srd only if its announcement was never published,
\* is still pending there, was turned down or has been followed by the close notice; or
\* h8srd could not connect or lost the connection to the backend; or it was never sent
\* the announcement, because it serves a parent domain or because the data subject is
\* that of X-Forwarded-Host and the control subject that of Host
\* (proxy.go:583-608, 673-690, reverse.go:120-151, 511-580, 636-690).
LostHasCause ==
    [][\A d \in Instances, c \in Clients :
          lost'[<<d, c>>] # lost[<<d, c>>] =>
             \/ Announcing(d, c)
             \/ c \in unannounced
             \/ <<d, c>> \in refused \cup failed \cup ended
             \/ ReverseHostname(hostname[d]) # ReverseHostname(Host(c))
             \/ ReverseHostname(SubjectHost(c)) # ReverseHostname(Host(c))]_vars

\* A request is served by at most one h8srd of a queue group, also where the patterns of
\* a domain and of its parent both match, and at least by one of the group of each
\* h8srd whose hostname is that of the subject, in the same letter case
\* (reverse.go:119-144, README.md:249-251).
ServedOncePerGroup ==
    \A c \in Clients, d \in Instances :
        LET mates == {e \in Instances : e = d \/ (group[d] # {} /\ group[e] = group[d])}
            by == {x.by : x \in {y \in served : y.client = c}} \cap mates
        IN /\ Cardinality(by) <= 1
           /\ /\ Quiet
              /\ stage[c] = "sent"
              /\ ReverseHostname(hostname[d]) = ReverseHostname(SubjectHost(c))
              => by # {}

\* The path h8srd finds in the subject, by which its resolver chooses the backend, is
\* that of the request, segment by segment, less the empty ones, unless X-Forwarded-Host
\* has more or fewer labels than Host (reverse.go:239-258, mapper.go:66-74).
LookupPathSurvives ==
    \A x \in served :
        x.by \in Instances /\ Len(ReverseHostname(SubjectHost(x.client))) = Len(ReverseHostname(Host(x.client)))
        => x.path = ProcessPath(offer[x.client].path)

\* When nothing is pending, an entry in the table of a service is an open connection,
\* unless h8sd published no close notice, or the notice overtook the announcement, which
\* travels in another subscription, or came before the service was subscribed to it
\* (service.go:204-228, proxy.go:624-627, 645-669).
EntryHasConnection ==
    Quiet => \A x \in table :
                stage[x[2]] = "open" \/ x[2] \in unnoticed \/ x \in overtaken \cup unheard
==================================================================================
