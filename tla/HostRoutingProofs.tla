--------------------------- MODULE HostRoutingProofs ---------------------------
(* Proofs about HostRouting, for every value of its constants. *)
EXTENDS HostRouting, SubjectMapperProofs, FiniteSetTheorems

-------------------------------------------------------------------------------
(* What clients send and processes subscribe to.                           *)

Configured ==
    /\ offer \in [Clients -> Offers]
    /\ hostname \in [Instances -> Hostname]
    /\ queue \in [Processes \X Places -> Seq(Clients)]

\* The configuration never changes.
LEMMA Unchanging ==
    ASSUME Next
    PROVE  UNCHANGED configVars
  <1>1. ASSUME NEW c \in Clients,
               \/ Deny(c) \/ Request(c) \/ Upgrade(c)
               \/ SubscribeFails(c) \/ SendFrame(c) \/ Close(c)
        PROVE  UNCHANGED configVars
    BY <1>1 DEF Deny, Request, Upgrade, SubscribeFails, Vanish, SendFrame, Close
  <1>2. ASSUME NEW d \in Instances, NEW c \in Clients,
               \/ HandleRequest(d, c) \/ HandleFrame(d, c) \/ HandleEstablished(d, c)
               \/ BackendEnds(d, c) \/ HandleClosed(d, c)
        PROVE  UNCHANGED configVars
    BY <1>2 DEF HandleRequest, HandleFrame, HandleEstablished, BackendEnds, HandleClosed
  <1>3. ASSUME NEW s \in Services, Subscribe(s)
        PROVE  UNCHANGED configVars
    BY <1>3 DEF Subscribe
  <1>4. ASSUME NEW s \in Services, NEW c \in Clients,
               ServeRequest(s, c) \/ ReadFrame(s, c) \/ Add(s, c) \/ Delete(s, c)
        PROVE  UNCHANGED configVars
    BY <1>4 DEF ServeRequest, ReadFrame, Add, Delete
  <1> QED
    BY <1>1, <1>2, <1>3, <1>4, Zenon DEF Next

\* Host and X-Forwarded-Host of a client are hostnames.
LEMMA HostType ==
    ASSUME Configured, NEW c \in Clients
    PROVE  /\ Host(c) \in Hostname
           /\ SubjectHost(c) \in Hostname
           /\ Host(c).port = FALSE
           /\ offer[c].path \in Path
  <1>1. /\ offer[c].host \in Hostname
        /\ offer[c].forwarded \in Hostname
        /\ offer[c].path \in Path
    BY RoutingAssumption DEF Configured
  <1>2. Host(c) \in Hostname /\ Host(c).port = FALSE
    BY <1>1 DEF Host, WithoutPort, Hostname
  <1> QED
    BY <1>1, <1>2 DEF SubjectHost, RoutingHost, Forwarded

\* A message of c appears in a queue only where its subject matches.
LEMMA PublishDelivers ==
    ASSUME Configured, NEW c \in Clients, NEW subject, Publish(c, subject)
    PROVE  /\ queue' \in [Processes \X Places -> Seq(Clients)]
           /\ \A sub \in Processes \X Places :
                 \/ queue'[sub] = queue[sub]
                 \/ /\ sub \in live
                    /\ Matches(PatternOf(sub[1], sub[2]), subject)
                    /\ queue'[sub] = Append(queue[sub], c)
           /\ \A sub \in live \cap (Processes \X Places) :
                 Matches(PatternOf(sub[1], sub[2]), subject) /\ GroupAt(sub) = {}
                    => queue'[sub] = Append(queue[sub], c)
  <1>1. PICK chosen \in Deliveries(subject) :
           queue' = [sub \in DOMAIN queue |->
                        IF sub \in chosen THEN Append(queue[sub], c) ELSE queue[sub]]
    BY DEF Publish
  <1>2. /\ \A sub \in chosen : sub \in live /\ Matches(PatternOf(sub[1], sub[2]), subject)
        /\ \A sub \in live :
              Matches(PatternOf(sub[1], sub[2]), subject) /\ GroupAt(sub) = {} => sub \in chosen
    BY DEF Deliveries
  <1>3. /\ DOMAIN queue = Processes \X Places
        /\ \A sub \in Processes \X Places :
              queue[sub] \in Seq(Clients) /\ Append(queue[sub], c) \in Seq(Clients)
    BY DEF Configured
  <1> QED
    BY <1>1, <1>2, <1>3

\* Pending(p, i, c): a message of c is in the queue of the subscription.
Pending(p, i, c) == \E n \in DOMAIN queue[<<p, i>>] : queue[<<p, i>>][n] = c

\* Publishing makes c pending in matching subscriptions and nobody else anywhere.
LEMMA PublishPending ==
    ASSUME Configured, NEW c \in Clients, NEW subject, Publish(c, subject),
           NEW p \in Processes, NEW i \in Places, NEW e \in Clients
    PROVE  /\ Pending(p, i, e) => Pending(p, i, e)'
           /\ Pending(p, i, e)' /\ ~Pending(p, i, e) =>
                 /\ e = c
                 /\ <<p, i>> \in live
                 /\ Matches(PatternOf(p, i), subject)
           /\ <<p, i>> \in live /\ Matches(PatternOf(p, i), subject) /\ GroupAt(<<p, i>>) = {}
                 => Pending(p, i, c)'
  <1> DEFINE q == queue[<<p, i>>]
             r == queue'[<<p, i>>]
  <1>1. q \in Seq(Clients) /\ <<p, i>> \in Processes \X Places
    BY DEF Configured
  <1>2. \/ r = q
        \/ r = Append(q, c) /\ <<p, i>> \in live /\ Matches(PatternOf(p, i), subject)
    BY <1>1, PublishDelivers
  <1>3. <<p, i>> \in live /\ Matches(PatternOf(p, i), subject) /\ GroupAt(<<p, i>>) = {}
           => r = Append(q, c)
    BY <1>1, PublishDelivers
  <1>4. /\ DOMAIN Append(q, c) = (DOMAIN q) \cup {Len(q) + 1}
        /\ Append(q, c)[Len(q) + 1] = c
        /\ \A n \in DOMAIN q : Append(q, c)[n] = q[n]
    BY <1>1
  <1>5. /\ Pending(p, i, e) <=> \E n \in DOMAIN q : q[n] = e
        /\ Pending(p, i, e)' <=> \E n \in DOMAIN r : r[n] = e
        /\ Pending(p, i, c)' <=> \E n \in DOMAIN r : r[n] = c
    BY DEF Pending
  <1> HIDE DEF q, r
  <1> QED
    BY <1>2, <1>3, <1>4, <1>5

\* Taking a message leaves nothing pending that was not, and all that is of others.
LEMMA TakePending ==
    ASSUME Configured, NEW p \in Processes, NEW i \in Places, NEW c \in Clients, Take(p, i, c),
           NEW o \in Processes, NEW j \in Places, NEW e \in Clients
    PROVE  /\ queue' \in [Processes \X Places -> Seq(Clients)]
           /\ Pending(p, i, c)
           /\ Pending(o, j, e)' => Pending(o, j, e)
           /\ Pending(o, j, e) /\ (e # c \/ <<o, j>> # <<p, i>>) => Pending(o, j, e)'
  <1> DEFINE q == queue[<<p, i>>]
  <1>1. /\ q \in Seq(Clients) /\ q # <<>> /\ c = Head(q)
        /\ queue' = [queue EXCEPT ![<<p, i>>] = Tail(q)]
        /\ queue \in [Processes \X Places -> Seq(Clients)]
        /\ <<p, i>> \in Processes \X Places
        /\ <<o, j>> \in Processes \X Places
    BY DEF Configured, Take
  <1>2. /\ Tail(q) \in Seq(Clients)
        /\ q[1] = c /\ 1 \in DOMAIN q
        /\ \A n \in DOMAIN Tail(q) : n + 1 \in DOMAIN q /\ Tail(q)[n] = q[n + 1]
        /\ \A n \in DOMAIN q : n # 1 => n - 1 \in DOMAIN Tail(q) /\ Tail(q)[n - 1] = q[n]
    BY <1>1
  <1>3. queue' \in [Processes \X Places -> Seq(Clients)]
    BY <1>1, <1>2
  <1>4. Pending(p, i, c)
    BY <1>2 DEF Pending
  <1>5. CASE <<o, j>> = <<p, i>>
    <2>1. /\ Pending(o, j, e) <=> \E n \in DOMAIN q : q[n] = e
          /\ Pending(o, j, e)' <=> \E n \in DOMAIN Tail(q) : Tail(q)[n] = e
      BY <1>1, <1>5 DEF Pending
    <2> QED
      BY <1>2, <1>3, <1>4, <1>5, <2>1
  <1>6. CASE <<o, j>> # <<p, i>>
    <2>1. queue'[<<o, j>>] = queue[<<o, j>>]
      BY <1>1, <1>6
    <2> QED
      BY <1>3, <1>4, <2>1 DEF Pending
  <1> QED
    BY <1>5, <1>6

-------------------------------------------------------------------------------
(* Which steps change what is pending.                                     *)

\* What the handler of a client publishes.
Publishes(c) ==
    \/ Request(c) /\ Publish(c, PublishSubject("GET", SubjectHost(c), offer[c].path))
    \/ Upgrade(c) /\ Publish(c, ControlSubject("established", Host(c)))
    \/ SendFrame(c) /\ Publish(c, WebSocketPublishSubject(SubjectHost(c), offer[c].path))
    \/ Close(c) /\ Publish(c, ControlSubject("closed", Host(c)))

\* The steps of a handler that publish nothing change no queue.
LEMMA ClientQueue ==
    ASSUME NEW c \in Clients,
           \/ Deny(c) \/ Request(c) \/ Upgrade(c)
           \/ SubscribeFails(c) \/ SendFrame(c) \/ Close(c)
    PROVE  queue' = queue \/ Publishes(c)
  <1>1. CASE Deny(c) \/ SubscribeFails(c)
    BY <1>1 DEF Deny, SubscribeFails, Vanish
  <1>2. CASE Request(c)
    BY <1>2 DEF Request, Publishes
  <1>3. CASE Upgrade(c)
    <2>1. Announce(c)
      BY <1>3 DEF Upgrade
    <2>2. queue' = queue \/ Publish(c, ControlSubject("established", Host(c)))
      BY <2>1 DEF Announce
    <2> QED
      BY <1>3, <2>2 DEF Publishes
  <1>4. CASE SendFrame(c)
    <2>1. queue' = queue \/ Publish(c, WebSocketPublishSubject(SubjectHost(c), offer[c].path))
      BY <1>4 DEF SendFrame, Vanish
    <2> QED
      BY <1>4, <2>1 DEF Publishes
  <1>5. CASE Close(c)
    <2>1. Notify(c)
      BY <1>5 DEF Close
    <2>2. queue' = queue \/ Publish(c, ControlSubject("closed", Host(c)))
      BY <2>1 DEF Notify
    <2> QED
      BY <1>5, <2>2 DEF Publishes
  <1> QED
    BY <1>1, <1>2, <1>3, <1>4, <1>5

\* A step changes queues by publishing, or takes a message for one of the callbacks.
LEMMA QueueMoves ==
    ASSUME Next
    PROVE  \/ queue' = queue
           \/ \E c \in Clients : Publishes(c)
           \/ \E d \in Instances, c \in Clients :
                 \/ HandleRequest(d, c) \/ HandleFrame(d, c)
                 \/ HandleEstablished(d, c) \/ HandleClosed(d, c)
           \/ \E s \in Services, c \in Clients :
                 ServeRequest(s, c) \/ ReadFrame(s, c) \/ Add(s, c) \/ Delete(s, c)
  <1>1. \A c \in Clients :
           (\/ Deny(c) \/ Request(c) \/ Upgrade(c)
            \/ SubscribeFails(c) \/ SendFrame(c) \/ Close(c)) => queue' = queue \/ Publishes(c)
    BY ClientQueue
  <1>2. \A s \in Services : Subscribe(s) => queue' = queue
    BY DEF Subscribe
  <1>3. \A d \in Instances, c \in Clients : BackendEnds(d, c) => queue' = queue
    BY DEF BackendEnds
  <1> QED
    BY <1>1, <1>2, <1>3, Zenon DEF Next

\* A callback takes a message of its subscription.
LEMMA CallbacksTake ==
    ASSUME NEW p, NEW c
    PROVE  /\ HandleRequest(p, c) => \E i \in Requests : Take(p, i, c)
           /\ HandleFrame(p, c) => \E i \in Frames : Take(p, i, c)
           /\ HandleEstablished(p, c) => Take(p, Established, c)
           /\ HandleClosed(p, c) => Take(p, Closed, c)
           /\ ServeRequest(p, c) => \E i \in Requests : Take(p, i, c)
           /\ ReadFrame(p, c) => \E i \in Frames : Take(p, i, c)
           /\ Add(p, c) => Take(p, Established, c)
           /\ Delete(p, c) => Take(p, Closed, c)
  BY DEF HandleRequest, HandleFrame, HandleEstablished, HandleClosed, ServeRequest, ReadFrame,
     Add, Delete

\* Processes and places of those callbacks.
LEMMA PlacesAre ==
    /\ Instances \subseteq Processes /\ Services \subseteq Processes
    /\ Requests \subseteq Places /\ Frames \subseteq Places
    /\ Established \in Places /\ Closed \in Places
  BY DEF Requests, Frames, Places, Established, Closed, Processes

\* What the steps of the three kinds of processes leave alone.
LEMMA StepsKeep ==
    ASSUME Next
    PROVE  \/ /\ \E c \in Clients : \/ Deny(c) \/ Request(c) \/ Upgrade(c)
                                   \/ SubscribeFails(c) \/ SendFrame(c) \/ Close(c)
              /\ UNCHANGED <<serviceVars, resultVars>>
           \/ /\ \E d \in Instances, c \in Clients :
                    \/ HandleRequest(d, c) \/ HandleFrame(d, c) \/ HandleEstablished(d, c)
                    \/ BackendEnds(d, c) \/ HandleClosed(d, c)
              /\ UNCHANGED <<proxyVars, serviceVars, table, overtaken>>
           \/ /\ \E s \in Services : Subscribe(s)
              /\ UNCHANGED <<proxyVars, queue, resultVars>>
           \/ /\ \E s \in Services, c \in Clients :
                    ServeRequest(s, c) \/ ReadFrame(s, c) \/ Add(s, c) \/ Delete(s, c)
              /\ UNCHANGED <<proxyVars, serviceVars, accepted, refused, failed, lost, ended>>
  <1>1. ASSUME NEW c \in Clients,
               \/ Deny(c) \/ Request(c) \/ Upgrade(c)
               \/ SubscribeFails(c) \/ SendFrame(c) \/ Close(c)
        PROVE  UNCHANGED <<serviceVars, resultVars>>
    BY <1>1 DEF Deny, Request, Upgrade, SubscribeFails, Vanish, SendFrame, Close
  <1>2. ASSUME NEW d \in Instances, NEW c \in Clients,
               \/ HandleRequest(d, c) \/ HandleFrame(d, c) \/ HandleEstablished(d, c)
               \/ BackendEnds(d, c) \/ HandleClosed(d, c)
        PROVE  UNCHANGED <<proxyVars, serviceVars, table, overtaken>>
    BY <1>2 DEF HandleRequest, HandleFrame, HandleEstablished, BackendEnds, HandleClosed
  <1>3. ASSUME NEW s \in Services, Subscribe(s)
        PROVE  UNCHANGED <<proxyVars, queue, resultVars>>
    BY <1>3 DEF Subscribe
  <1>4. ASSUME NEW s \in Services, NEW c \in Clients,
               ServeRequest(s, c) \/ ReadFrame(s, c) \/ Add(s, c) \/ Delete(s, c)
        PROVE  UNCHANGED <<proxyVars, serviceVars, accepted, refused, failed, lost, ended>>
    BY <1>4 DEF ServeRequest, ReadFrame, Add, Delete, resultVars
  <1> QED
    BY <1>1, <1>2, <1>3, <1>4, Zenon DEF Next

\* What has happened stays known.
LEMMA HistoryGrows ==
    ASSUME Next
    PROVE  /\ refused \subseteq refused' /\ failed \subseteq failed' /\ ended \subseteq ended'
           /\ served \subseteq served' /\ overtaken \subseteq overtaken'
           /\ unheard \subseteq unheard'
           /\ unannounced \subseteq unannounced' /\ unnoticed \subseteq unnoticed'
  <1>1. ASSUME UNCHANGED <<refused, failed, ended, served, overtaken>>, NEW c \in Clients,
               \/ Deny(c) \/ Request(c) \/ Upgrade(c)
               \/ SubscribeFails(c) \/ SendFrame(c) \/ Close(c)
        PROVE  /\ unheard \subseteq unheard'
               /\ unannounced \subseteq unannounced' /\ unnoticed \subseteq unnoticed'
    BY <1>1 DEF Deny, Request, Upgrade, Announce, SubscribeFails, Vanish, SendFrame, Close, Notify
  <1>2. ASSUME NEW d \in Instances, NEW c \in Clients,
               \/ HandleRequest(d, c) \/ HandleFrame(d, c) \/ HandleEstablished(d, c)
               \/ BackendEnds(d, c) \/ HandleClosed(d, c)
        PROVE  /\ refused \subseteq refused' /\ failed \subseteq failed' /\ ended \subseteq ended'
               /\ served \subseteq served'
    BY <1>2 DEF HandleRequest, HandleFrame, HandleEstablished, BackendEnds, HandleClosed
  <1>3. ASSUME NEW s \in Services, NEW c \in Clients,
               ServeRequest(s, c) \/ ReadFrame(s, c) \/ Add(s, c) \/ Delete(s, c)
        PROVE  served \subseteq served' /\ overtaken \subseteq overtaken'
    BY <1>3 DEF ServeRequest, ReadFrame, Add, Delete, resultVars
  <1> QED
    BY <1>1, <1>2, <1>3, StepsKeep DEF proxyVars, resultVars

\* A message becomes pending when its client's handler publishes it.
LEMMA NewlyPending ==
    ASSUME Configured, Next, NEW p \in Processes, NEW i \in Places, NEW e \in Clients,
           Pending(p, i, e)', ~Pending(p, i, e)
    PROVE  /\ <<p, i>> \in live
           /\ \/ /\ Request(e)
                 /\ Matches(PatternOf(p, i), PublishSubject("GET", SubjectHost(e), offer[e].path))
              \/ /\ Upgrade(e)
                 /\ Publish(e, ControlSubject("established", Host(e)))
                 /\ Matches(PatternOf(p, i), ControlSubject("established", Host(e)))
              \/ /\ SendFrame(e)
                 /\ Publish(e, WebSocketPublishSubject(SubjectHost(e), offer[e].path))
                 /\ Matches(PatternOf(p, i), WebSocketPublishSubject(SubjectHost(e), offer[e].path))
              \/ Close(e) /\ Matches(PatternOf(p, i), ControlSubject("closed", Host(e)))
  <1>1. queue' # queue
    BY DEF Pending
  <1>2. ASSUME NEW o \in Processes, NEW j \in Places, NEW c \in Clients
        PROVE  ~Take(o, j, c)
    BY TakePending
  <1>3. PICK c \in Clients : Publishes(c)
    <2>1. \A d \in Instances, c \in Clients :
             ~(HandleRequest(d, c) \/ HandleFrame(d, c)
               \/ HandleEstablished(d, c) \/ HandleClosed(d, c))
      BY <1>2, CallbacksTake, PlacesAre
    <2>2. \A s \in Services, c \in Clients :
             ~(ServeRequest(s, c) \/ ReadFrame(s, c) \/ Add(s, c) \/ Delete(s, c))
      BY <1>2, CallbacksTake, PlacesAre
    <2> QED
      BY <1>1, <2>1, <2>2, QueueMoves
  <1>4. ASSUME NEW subject, Publish(c, subject)
        PROVE  e = c /\ <<p, i>> \in live /\ Matches(PatternOf(p, i), subject)
    BY <1>4, PublishPending
  <1> QED
    BY <1>3, <1>4, Zenon DEF Publishes

\* A message of a control subscription stops being pending when its handler takes it.
LEMMA NoLongerPending ==
    ASSUME Configured, Next, NEW p \in Processes, NEW i \in {Established, Closed},
           NEW e \in Clients, Pending(p, i, e), ~Pending(p, i, e)'
    PROVE  \/ i = Established /\ p \in Instances /\ HandleEstablished(p, e)
           \/ i = Closed /\ p \in Instances /\ HandleClosed(p, e)
           \/ i = Established /\ p \in Services /\ Add(p, e)
           \/ i = Closed /\ p \in Services /\ Delete(p, e)
  <1>1. queue' # queue
    BY DEF Pending
  <1>2. ASSUME NEW c \in Clients, NEW subject, Publish(c, subject)
        PROVE  FALSE
    <2>1. i \in Places
      BY DEF Established, Closed, Places
    <2> QED
      BY <1>2, <2>1, PublishPending
  <1>3. ASSUME NEW o \in Processes, NEW j \in Places, NEW c \in Clients, Take(o, j, c)
        PROVE  o = p /\ j = i /\ c = e
    <2>1. i \in Places
      BY DEF Established, Closed, Places
    <2> QED
      BY <1>3, <2>1, TakePending
  <1>4. /\ i \notin Requests \cup Frames /\ Established # Closed
    BY DEF Requests, Frames, Established, Closed
  <1>5. ~(\E c \in Clients : Publishes(c))
    BY <1>2 DEF Publishes
  <1>7. ASSUME NEW d \in Instances, NEW c \in Clients,
               HandleRequest(d, c) \/ HandleFrame(d, c)
               \/ HandleEstablished(d, c) \/ HandleClosed(d, c)
        PROVE  /\ d = p /\ c = e
               /\ \/ i = Established /\ HandleEstablished(d, c)
                  \/ i = Closed /\ HandleClosed(d, c)
    BY <1>3, <1>4, <1>7, CallbacksTake, PlacesAre
  <1>8. ASSUME NEW s \in Services, NEW c \in Clients,
               ServeRequest(s, c) \/ ReadFrame(s, c) \/ Add(s, c) \/ Delete(s, c)
        PROVE  /\ s = p /\ c = e
               /\ \/ i = Established /\ Add(s, c)
                  \/ i = Closed /\ Delete(s, c)
    BY <1>3, <1>4, <1>8, CallbacksTake, PlacesAre
  <1> QED
    BY <1>1, <1>5, <1>7, <1>8, QueueMoves

-------------------------------------------------------------------------------
(* Control messages.                                                       *)

\* A control subscription hears the messages of its kind for hosts that are written like
\* its own, and no data.
LEMMA ControlPattern ==
    ASSUME NEW h \in Hostname, NEW g \in Hostname, NEW this, NEW that, this # "*"
    PROVE  Matches(Pattern("control", this, h, FALSE), ControlSubject(that, g)) <=>
              this = that /\ ReverseHostname(h) = ReverseHostname(g)
  <1> DEFINE a == ReverseHostname(h)
             b == ReverseHostname(g)
             P == Pattern("control", this, h, FALSE)
             S == ControlSubject(that, g)
  <1>1. /\ a \in Seq(Token) /\ b \in Seq(Token)
        /\ \A i \in 1..Len(a) : a[i] # Star
    BY ReverseHostnameType
  <1>2. S.scheme = "control" /\ S.method = that /\ S.tokens = b
    <2>1. ProcessPath(<<>>) = <<>>
      BY ProcessNoPath
    <2>2. S = [scheme |-> "control", method |-> that, tokens |-> b \o <<>>]
      BY <2>1 DEF ControlSubject, Subject
    <2>3. b \o <<>> = b
      BY <1>1
    <2> QED
      BY <2>2, <2>3
  <1>3. P.scheme = "control" /\ P.method = this /\ P.tokens = a /\ P.more = FALSE
    BY DEF Pattern
  <1> HIDE DEF a, b, P, S
  <1>4. Matches(P, S) <=>
           /\ this \in {"*", that}
           /\ Len(a) = Len(b)
           /\ \A i \in DOMAIN a : a[i] \in {Star, b[i]}
    BY <1>2, <1>3 DEF Matches
  <1>5. (Len(a) = Len(b) /\ \A i \in DOMAIN a : a[i] \in {Star, b[i]}) <=> a = b
    BY <1>1
  <1>6. Matches(P, S) <=> this = that /\ a = b
    BY <1>4, <1>5
  <1> QED
    BY <1>6 DEF a, b, P, S

\* Where the control messages of a client are heard.
Hears(p, c) ==
    ReverseHostname(IF p \in Services THEN EndpointOf[p].host ELSE hostname[p])
        = ReverseHostname(Host(c))

\* An announcement reaches the fifth subscription of a process and a close notice the
\* sixth, if the process hears the client's host; requests and frames reach neither.
LEMMA ControlDelivery ==
    ASSUME Configured, NEW p \in Processes, NEW c \in Clients
    PROVE  /\ Matches(PatternOf(p, Established), ControlSubject("established", Host(c))) <=> Hears(p, c)
           /\ Matches(PatternOf(p, Closed), ControlSubject("closed", Host(c))) <=> Hears(p, c)
           /\ ~Matches(PatternOf(p, Established), ControlSubject("closed", Host(c)))
           /\ ~Matches(PatternOf(p, Closed), ControlSubject("established", Host(c)))
           /\ \A i \in {Established, Closed} :
                 /\ ~Matches(PatternOf(p, i), PublishSubject("GET", SubjectHost(c), offer[c].path))
                 /\ ~Matches(PatternOf(p, i), WebSocketPublishSubject(SubjectHost(c), offer[c].path))
                 /\ GroupAt(<<p, i>>) = {}
  <1> DEFINE h == IF p \in Services THEN EndpointOf[p].host ELSE hostname[p]
  <1>1. h \in Hostname /\ Host(c) \in Hostname
    <2>1. CASE p \in Services
      BY <2>1, HostType, RoutingAssumption
    <2>2. CASE p \notin Services
      BY <2>2, HostType DEF Configured, Processes
    <2> QED
      BY <2>1, <2>2
  <1>2. /\ PatternOf(p, Established) = Pattern("control", "established", h, FALSE)
        /\ PatternOf(p, Closed) = Pattern("control", "closed", h, FALSE)
    <2>1. PatternOf(p, Established) = HostPatterns(h)[5] /\ PatternOf(p, Closed) = HostPatterns(h)[6]
      <3>1. CASE p \in Services
        BY <3>1 DEF PatternOf, Established, Closed, Requests, Frames
      <3>2. CASE p \notin Services
        BY <3>2 DEF PatternOf, Established, Closed, Requests, Frames
      <3> QED
        BY <3>1, <3>2
    <2> QED
      BY <2>1, PatternsOfHost
  <1>3. \A i \in {Established, Closed} : GroupAt(<<p, i>>) = {}
    BY DEF GroupAt, ServiceGroup, InstanceGroup, Established, Closed, Requests, Frames
  <1>4. /\ PublishSubject("GET", SubjectHost(c), offer[c].path).scheme = "http"
        /\ WebSocketPublishSubject(SubjectHost(c), offer[c].path).scheme = "ws"
    BY DEF PublishSubject, WebSocketPublishSubject, Subject
  <1>5. \A i \in {Established, Closed} : PatternOf(p, i).scheme = "control"
    BY <1>2 DEF Pattern
  <1>6. Hears(p, c) <=> ReverseHostname(h) = ReverseHostname(Host(c))
    BY DEF Hears
  <1> HIDE DEF h
  <1>7. ASSUME NEW this \in {"established", "closed"}, NEW that \in {"established", "closed"}
        PROVE  Matches(Pattern("control", this, h, FALSE), ControlSubject(that, Host(c))) <=>
                  this = that /\ Hears(p, c)
    <2>1. this # "*"
      OBVIOUS
    <2>2. Matches(Pattern("control", this, h, FALSE), ControlSubject(that, Host(c))) <=>
             this = that /\ ReverseHostname(h) = ReverseHostname(Host(c))
      BY <1>1, <2>1, ControlPattern
    <2> QED
      BY <1>6, <2>2
  <1>8. /\ Matches(PatternOf(p, Established), ControlSubject("established", Host(c))) <=> Hears(p, c)
        /\ Matches(PatternOf(p, Closed), ControlSubject("closed", Host(c))) <=> Hears(p, c)
    BY <1>2, <1>7
  <1>9. /\ ~Matches(PatternOf(p, Established), ControlSubject("closed", Host(c)))
        /\ ~Matches(PatternOf(p, Closed), ControlSubject("established", Host(c)))
    BY <1>2, <1>7
  <1>10. ASSUME NEW i \in {Established, Closed}
         PROVE  /\ ~Matches(PatternOf(p, i), PublishSubject("GET", SubjectHost(c), offer[c].path))
                /\ ~Matches(PatternOf(p, i), WebSocketPublishSubject(SubjectHost(c), offer[c].path))
    BY <1>4, <1>5 DEF Matches
  <1> QED
    BY <1>3, <1>8, <1>9, <1>10

-------------------------------------------------------------------------------
(* The inductive invariant.                                                *)

Listening == Instances \X Places \subseteq live

\* An announcement only reaches those it is for.
AnnouncementsHeard ==
    \A p \in Processes, c \in Clients : Pending(p, Established, c) => Hears(p, c)

\* Only an open WebSocket has frames.
FramesOfOpen ==
    \A d \in Instances, i \in Frames, c \in Clients :
        Pending(d, i, c) => stage[c] \in {"open", "closed"}

\* An h8srd of the host of a WebSocket has its announcement, or has dealt with it, if
\* there was one.
AnnouncementsKnown ==
    \A d \in Instances, c \in Clients :
        stage[c] \in {"open", "closed"} /\ Hears(d, c) =>
            \/ Pending(d, Established, c)
            \/ <<d, c>> \in accepted \cup refused \cup failed \cup ended
            \/ c \in unannounced

\* Backends are looked up with the path that was found in the subject.
PathsFound ==
    \A x \in served : x.client \in Clients /\ (x.by \in Instances => x.path = LookupPath(x.client))

\* Once a service has, or is about to have, an entry for a WebSocket that was closed,
\* the close notice is on its way to it, unless it was overtaken or unheard, or there
\* was none.
NoticesFollow ==
    \A s \in Services, c \in Clients :
        Pending(s, Established, c) \/ <<s, c>> \in table =>
            /\ Hears(s, c)
            /\ \/ stage[c] = "open"
               \/ /\ stage[c] = "closed"
                  /\ \/ Pending(s, Closed, c)
                     \/ <<s, c>> \in overtaken \cup unheard
                     \/ c \in unnoticed

Inv ==
    /\ Configured
    /\ stage \in [Clients -> {"new", "denied", "sent", "open", "closed"}]
    /\ table \subseteq Services \X Clients
    /\ refused \subseteq Instances \X Clients
    /\ Listening
    /\ AnnouncementsHeard
    /\ FramesOfOpen
    /\ AnnouncementsKnown
    /\ PathsFound
    /\ NoticesFollow

\* The kinds of processes and of subscriptions.
LEMMA ProcessesAre ==
    /\ Instances \subseteq Processes /\ Services \subseteq Processes
    /\ \A d \in Instances : d \notin Services
    /\ Requests \subseteq Places /\ Frames \subseteq Places
    /\ Established \in Places /\ Closed \in Places
    /\ Established # Closed /\ Established \notin Requests \cup Frames
    /\ Closed \notin Requests \cup Frames
  BY RoutingAssumption DEF Processes, Places, Requests, Frames, Established, Closed

\* The initial states satisfy the invariant.
LEMMA InitInv == Init => Inv
  <1> SUFFICES ASSUME Init
               PROVE  Inv
    OBVIOUS
  <1>1. \A p \in Processes, i \in Places, c \in Clients : ~Pending(p, i, c)
    BY DEF Init, Pending
  <1>2. Configured
    <2>1. hostname \in [Instances -> Hostname]
      BY RoutingAssumption DEF Init
    <2> QED
      BY <2>1 DEF Init, Configured
  <1>3. /\ stage \in [Clients -> {"new", "denied", "sent", "open", "closed"}]
        /\ table = {} /\ refused = {} /\ served = {}
        /\ \A c \in Clients : stage[c] = "new"
        /\ live = Instances \X Places
    BY DEF Init
  <1> QED
    BY <1>1, <1>2, <1>3, ProcessesAre DEF Inv, Listening, AnnouncementsHeard, FramesOfOpen,
       AnnouncementsKnown, PathsFound, NoticesFollow

\* Only the callbacks for requests serve.
LEMMA ServedMoves ==
    ASSUME Next
    PROVE  \/ served' = served
           \/ \E d \in Instances, c \in Clients :
                 /\ HandleRequest(d, c)
                 /\ served' = served \cup {[by |-> d, client |-> c, path |-> LookupPath(c)]}
           \/ \E s \in Services, c \in Clients :
                 served' = served \cup {[by |-> s, client |-> c, path |-> EndpointOf[s].path]}
  <1>1. ASSUME NEW d \in Instances, NEW c \in Clients, HandleRequest(d, c)
        PROVE  served' = served \cup {[by |-> d, client |-> c, path |-> LookupPath(c)]}
    BY <1>1 DEF HandleRequest
  <1>2. ASSUME NEW d \in Instances, NEW c \in Clients,
               \/ HandleFrame(d, c) \/ HandleEstablished(d, c)
               \/ BackendEnds(d, c) \/ HandleClosed(d, c)
        PROVE  served' = served
    BY <1>2 DEF HandleFrame, HandleEstablished, BackendEnds, HandleClosed
  <1>3. ASSUME NEW s \in Services, NEW c \in Clients, ServeRequest(s, c)
        PROVE  served' = served \cup {[by |-> s, client |-> c, path |-> EndpointOf[s].path]}
    BY <1>3 DEF ServeRequest
  <1>4. ASSUME NEW s \in Services, NEW c \in Clients,
               ReadFrame(s, c) \/ Add(s, c) \/ Delete(s, c)
        PROVE  served' = served
    BY <1>4 DEF ReadFrame, Add, Delete, resultVars
  <1> QED
    BY <1>1, <1>2, <1>3, <1>4, StepsKeep DEF resultVars

\* What the callbacks write.
LEMMA RefusedMoves ==
    ASSUME Next
    PROVE  \/ refused' = refused
           \/ \E d \in Instances, c \in Clients :
                 HandleEstablished(d, c) /\ refused' = refused \cup {<<d, c>>}
  <1>1. ASSUME NEW d \in Instances, NEW c \in Clients, HandleEstablished(d, c)
        PROVE  refused' = refused \/ refused' = refused \cup {<<d, c>>}
    BY <1>1 DEF HandleEstablished
  <1>2. ASSUME NEW d \in Instances, NEW c \in Clients,
               \/ HandleRequest(d, c) \/ HandleFrame(d, c)
               \/ BackendEnds(d, c) \/ HandleClosed(d, c)
        PROVE  refused' = refused
    BY <1>2 DEF HandleRequest, HandleFrame, BackendEnds, HandleClosed
  <1> QED
    BY <1>1, <1>2, StepsKeep DEF resultVars

\* Entries come and go with the control messages only.
LEMMA TableMoves ==
    ASSUME Next
    PROVE  \/ table' = table
           \/ \E s \in Services, c \in Clients : Add(s, c) /\ table' = table \cup {<<s, c>>}
           \/ \E s \in Services, c \in Clients : Delete(s, c) /\ table' = table \ {<<s, c>>}
  <1>1. ASSUME NEW s \in Services, NEW c \in Clients, Add(s, c)
        PROVE  table' = table \cup {<<s, c>>}
    BY <1>1 DEF Add
  <1>2. ASSUME NEW s \in Services, NEW c \in Clients, Delete(s, c)
        PROVE  table' = table \ {<<s, c>>}
    BY <1>2 DEF Delete, Remaining
  <1>3. ASSUME NEW s \in Services, NEW c \in Clients, ServeRequest(s, c) \/ ReadFrame(s, c)
        PROVE  table' = table
    BY <1>3 DEF ServeRequest, ReadFrame, resultVars
  <1> QED
    BY <1>1, <1>2, <1>3, StepsKeep DEF resultVars

\* Types, and that no subscription is ever given up.
LEMMA NextConfigured ==
    ASSUME Inv, Next
    PROVE  /\ Configured'
           /\ stage' \in [Clients -> {"new", "denied", "sent", "open", "closed"}]
           /\ table' \subseteq Services \X Clients
           /\ refused' \subseteq Instances \X Clients
           /\ live \subseteq live'
  <1>1. UNCHANGED configVars
    BY Unchanging
  <1>2. Configured
    BY DEF Inv
  <1>3. queue' \in [Processes \X Places -> Seq(Clients)]
    <2>1. ASSUME NEW c \in Clients, NEW subject, Publish(c, subject)
          PROVE  queue' \in [Processes \X Places -> Seq(Clients)]
      BY <1>2, <2>1, PublishDelivers
    <2>2. ASSUME NEW p \in Processes, NEW i \in Places, NEW c \in Clients, Take(p, i, c)
          PROVE  queue' \in [Processes \X Places -> Seq(Clients)]
      BY <1>2, <2>2, TakePending
    <2>3. ASSUME queue' = queue
          PROVE  queue' \in [Processes \X Places -> Seq(Clients)]
      BY <1>2, <2>3 DEF Configured
    <2> QED
      <3>1. \A c \in Clients : Publishes(c) => queue' \in [Processes \X Places -> Seq(Clients)]
        BY <2>1 DEF Publishes
      <3>2. \A d \in Instances, c \in Clients :
               HandleRequest(d, c) \/ HandleFrame(d, c)
               \/ HandleEstablished(d, c) \/ HandleClosed(d, c)
               => queue' \in [Processes \X Places -> Seq(Clients)]
        BY <2>2, CallbacksTake, PlacesAre
      <3>3. \A s \in Services, c \in Clients :
               ServeRequest(s, c) \/ ReadFrame(s, c) \/ Add(s, c) \/ Delete(s, c)
               => queue' \in [Processes \X Places -> Seq(Clients)]
        BY <2>2, CallbacksTake, PlacesAre
      <3> QED
        BY <2>3, <3>1, <3>2, <3>3, QueueMoves
  <1>4. /\ stage' \in [Clients -> {"new", "denied", "sent", "open", "closed"}]
        /\ live \subseteq live'
    <2>1. ASSUME NEW c \in Clients,
                 \/ Deny(c) \/ Request(c) \/ Upgrade(c)
                 \/ SubscribeFails(c) \/ SendFrame(c) \/ Close(c)
          PROVE  stage' \in [Clients -> {"new", "denied", "sent", "open", "closed"}]
      BY <2>1 DEF Inv, Deny, Request, Upgrade, SubscribeFails, Vanish, SendFrame, Close
    <2>2. \A s \in Services : Subscribe(s) => live \subseteq live'
      BY DEF Subscribe
    <2> QED
      BY <2>1, <2>2, StepsKeep DEF Inv, proxyVars, serviceVars
  <1>5. /\ table' \subseteq Services \X Clients
        /\ refused' \subseteq Instances \X Clients
    <2>1. table' \subseteq Services \X Clients
      BY TableMoves DEF Inv
    <2>2. refused' \subseteq Instances \X Clients
      BY RefusedMoves DEF Inv
    <2> QED
      BY <2>1, <2>2
  <1>6. Configured'
    BY <1>1, <1>2, <1>3 DEF Configured, configVars
  <1> QED
    BY <1>4, <1>5, <1>6

\* Who hears a WebSocket does not depend on the state.
LEMMA StableHosts ==
    ASSUME Inv, Next
    PROVE  /\ \A c \in Clients : /\ Host(c)' = Host(c)
                                 /\ SubjectHost(c)' = SubjectHost(c)
                                 /\ LookupPath(c)' = LookupPath(c)
           /\ \A p \in Processes, c \in Clients : Hears(p, c)' = Hears(p, c)
  BY Unchanging DEF configVars, Host, Forwarded, SubjectHost, LookupPath, Hears

\* How a handler's stage moves.
LEMMA StageMoves ==
    ASSUME Inv, Next, NEW c \in Clients
    PROVE  \/ stage'[c] = stage[c]
           \/ Deny(c) /\ stage[c] = "new" /\ stage'[c] = "denied"
           \/ Request(c) /\ stage[c] = "new" /\ stage'[c] = "sent"
           \/ Upgrade(c) /\ stage[c] = "new" /\ stage'[c] = "open"
           \/ Vanish(c) /\ stage[c] = "open" /\ stage'[c] = "closed"
           \/ Close(c) /\ stage[c] = "open" /\ stage'[c] = "closed"
  <1>1. stage \in [Clients -> {"new", "denied", "sent", "open", "closed"}]
    BY DEF Inv
  <1>2. ASSUME stage' # stage
        PROVE  \E e \in Clients : Deny(e) \/ Request(e) \/ Upgrade(e) \/ Vanish(e) \/ Close(e)
    <2>1. \A e \in Clients : SubscribeFails(e) \/ SendFrame(e) => Vanish(e)
      BY <1>2 DEF SubscribeFails, SendFrame
    <2>2. \A s \in Services : ~Subscribe(s)
      BY <1>2 DEF Subscribe, proxyVars
    <2>3. \A d \in Instances, e \in Clients :
             ~(HandleRequest(d, e) \/ HandleFrame(d, e) \/ HandleEstablished(d, e)
               \/ BackendEnds(d, e) \/ HandleClosed(d, e))
      BY <1>2 DEF HandleRequest, HandleFrame, HandleEstablished, BackendEnds, HandleClosed, proxyVars
    <2>4. \A s \in Services, e \in Clients :
             ~(ServeRequest(s, e) \/ ReadFrame(s, e) \/ Add(s, e) \/ Delete(s, e))
      BY <1>2 DEF ServeRequest, ReadFrame, Add, Delete, proxyVars
    <2> QED
      BY <2>1, <2>2, <2>3, <2>4 DEF Next
  <1>3. ASSUME NEW e \in Clients, Deny(e) \/ Request(e) \/ Upgrade(e) \/ Vanish(e) \/ Close(e),
               e # c
        PROVE  stage'[c] = stage[c]
    BY <1>1, <1>3 DEF Deny, Request, Upgrade, Vanish, Close
  <1>4. /\ Deny(c) => stage[c] = "new" /\ stage'[c] = "denied"
        /\ Request(c) => stage[c] = "new" /\ stage'[c] = "sent"
        /\ Upgrade(c) => stage[c] = "new" /\ stage'[c] = "open"
        /\ Vanish(c) => stage[c] = "open" /\ stage'[c] = "closed"
        /\ Close(c) => stage[c] = "open" /\ stage'[c] = "closed"
    BY <1>1 DEF Deny, Request, Upgrade, Vanish, Close
  <1> QED
    BY <1>2, <1>3, <1>4

\* Every step keeps each part of the invariant.
LEMMA NextAnnouncementsHeard ==
    ASSUME Inv, Next
    PROVE  AnnouncementsHeard'
  <1> SUFFICES ASSUME NEW p \in Processes, NEW c \in Clients, Pending(p, Established, c)'
               PROVE  Hears(p, c)
    BY StableHosts DEF AnnouncementsHeard
  <1>1. CASE Pending(p, Established, c)
    BY <1>1 DEF Inv, AnnouncementsHeard
  <1>2. CASE ~Pending(p, Established, c)
    BY <1>2, NewlyPending, ControlDelivery, ProcessesAre DEF Inv
  <1> QED
    BY <1>1, <1>2

\* The third and fourth pattern of a host are for frames,
LEMMA FrameSchemes ==
    ASSUME NEW h
    PROVE  HostPatterns(h)[3].scheme = "ws" /\ HostPatterns(h)[4].scheme = "ws"
  <1>1. \A more : Pattern("ws", "ws", h, more).scheme = "ws"
    BY DEF Pattern
  <1>2. /\ HostPatterns(h)[3] = Pattern("ws", "ws", h, TRUE)
        /\ HostPatterns(h)[4] = Pattern("ws", "ws", h, FALSE)
    BY DEF HostPatterns
  <1> QED
    BY <1>1, <1>2

\* and so are the subscriptions an h8srd makes with them.
LEMMA FramePattern ==
    ASSUME Configured, NEW d \in Instances, NEW i \in Frames
    PROVE  PatternOf(d, i).scheme = "ws"
  <1>1. PatternOf(d, i) = HostPatterns(hostname[d])[i]
    BY ProcessesAre DEF PatternOf
  <1>2. HostPatterns(hostname[d])[i].scheme = "ws"
    BY FrameSchemes DEF Frames
  <1> QED
    BY <1>1, <1>2

\* A frame becomes pending only by SendFrame.
LEMMA NextFramesOfOpen ==
    ASSUME Inv, Next
    PROVE  FramesOfOpen'
  <1> SUFFICES ASSUME NEW d \in Instances, NEW i \in Frames, NEW c \in Clients, Pending(d, i, c)'
               PROVE  stage'[c] \in {"open", "closed"}
    BY DEF FramesOfOpen
  <1>1. CASE Pending(d, i, c)
    <2>1. stage[c] \in {"open", "closed"}
      BY <1>1 DEF Inv, FramesOfOpen
    <2> QED
      BY <2>1, StageMoves
  <1>2. CASE ~Pending(d, i, c)
    <2>1. SendFrame(c)
      <3>1. PatternOf(d, i).scheme = "ws"
        BY FramePattern DEF Inv
      <3>2. /\ PublishSubject("GET", SubjectHost(c), offer[c].path).scheme = "http"
            /\ ControlSubject("established", Host(c)).scheme = "control"
            /\ ControlSubject("closed", Host(c)).scheme = "control"
        BY DEF PublishSubject, ControlSubject, Subject
      <3>3. /\ ~Matches(PatternOf(d, i), PublishSubject("GET", SubjectHost(c), offer[c].path))
            /\ ~Matches(PatternOf(d, i), ControlSubject("established", Host(c)))
            /\ ~Matches(PatternOf(d, i), ControlSubject("closed", Host(c)))
        BY <3>1, <3>2 DEF Matches
      <3>4. Configured /\ d \in Processes /\ i \in Places
        BY ProcessesAre DEF Inv
      <3> QED
        BY <1>2, <3>3, <3>4, NewlyPending
    <2>2. stage[c] = "open" /\ stage'[c] \in {stage[c], "closed"}
      BY <2>1 DEF SendFrame, Vanish, Inv
    <2> QED
      BY <2>2
  <1> QED
    BY <1>1, <1>2

\* An announcement leaves its queue only by being handled.
LEMMA NextAnnouncementsKnown ==
    ASSUME Inv, Next
    PROVE  AnnouncementsKnown'
  <1> SUFFICES ASSUME NEW d \in Instances, NEW c \in Clients,
                      stage'[c] \in {"open", "closed"}, Hears(d, c)
               PROVE  \/ Pending(d, Established, c)'
                      \/ <<d, c>> \in accepted' \cup refused' \cup failed' \cup ended'
                      \/ c \in unannounced'
    BY StableHosts, ProcessesAre DEF AnnouncementsKnown
  <1>1. CASE stage[c] \in {"open", "closed"}
    <2>1. \/ Pending(d, Established, c)
          \/ <<d, c>> \in accepted \cup refused \cup failed \cup ended
          \/ c \in unannounced
      BY <1>1 DEF Inv, AnnouncementsKnown
    <2>2. <<d, c>> \in accepted => <<d, c>> \in accepted' \cup failed' \cup ended'
      <3>1. ASSUME NEW o \in Instances, NEW e \in Clients, <<d, c>> \in accepted,
                   \/ HandleRequest(o, e) \/ HandleFrame(o, e) \/ HandleEstablished(o, e)
                   \/ BackendEnds(o, e) \/ HandleClosed(o, e)
            PROVE  <<d, c>> \in accepted' \cup failed' \cup ended'
        BY <3>1 DEF HandleRequest, HandleFrame, HandleEstablished, BackendEnds, HandleClosed
      <3> QED
        BY <3>1, StepsKeep DEF resultVars
    <2>3. CASE Pending(d, Established, c) /\ ~Pending(d, Established, c)'
      <3>1. HandleEstablished(d, c)
        BY <2>3, NoLongerPending, ProcessesAre DEF Inv
      <3> QED
        BY <3>1 DEF HandleEstablished
    <2> QED
      BY <2>1, <2>2, <2>3, HistoryGrows
  <1>2. CASE stage[c] \notin {"open", "closed"}
    <2>1. Upgrade(c)
      BY <1>2, StageMoves
    <2>2. Publish(c, ControlSubject("established", Host(c))) \/ c \in unannounced'
      BY <2>1 DEF Upgrade, Announce
    <2>3. <<d, Established>> \in live
      BY ProcessesAre DEF Inv, Listening
    <2>4. /\ Matches(PatternOf(d, Established), ControlSubject("established", Host(c)))
          /\ GroupAt(<<d, Established>>) = {}
      BY ControlDelivery, ProcessesAre DEF Inv
    <2> QED
      BY <2>2, <2>3, <2>4, PublishPending, ProcessesAre DEF Inv
  <1> QED
    BY <1>1, <1>2

\* What is served is looked up with the path found in the subject.
LEMMA NextPathsFound ==
    ASSUME Inv, Next
    PROVE  PathsFound'
  <1> SUFFICES ASSUME NEW x \in served'
               PROVE  x.client \in Clients /\ (x.by \in Instances => x.path = LookupPath(x.client))
    BY StableHosts DEF PathsFound
  <1>1. \/ x \in served
        \/ \E d \in Instances, c \in Clients :
              x = [by |-> d, client |-> c, path |-> LookupPath(c)]
        \/ \E s \in Services, c \in Clients :
              x = [by |-> s, client |-> c, path |-> EndpointOf[s].path]
    BY ServedMoves
  <1> QED
    BY <1>1, ProcessesAre DEF Inv, PathsFound

\* A connection is closed with its notice, which Delete handles.
LEMMA NextNoticesFollow ==
    ASSUME Inv, Next
    PROVE  NoticesFollow'
  <1> SUFFICES ASSUME NEW s \in Services, NEW c \in Clients,
                      Pending(s, Established, c)' \/ <<s, c>> \in table'
               PROVE  /\ Hears(s, c)
                      /\ \/ stage'[c] = "open"
                         \/ /\ stage'[c] = "closed"
                            /\ \/ Pending(s, Closed, c)'
                               \/ <<s, c>> \in overtaken' \cup unheard'
                               \/ c \in unnoticed'
    BY StableHosts, ProcessesAre DEF NoticesFollow
  <1>1. \/ Pending(s, Established, c) \/ <<s, c>> \in table
        \/ Upgrade(c) /\ Hears(s, c)
    <2>1. CASE Pending(s, Established, c)' /\ ~Pending(s, Established, c)
      BY <2>1, NewlyPending, ControlDelivery, ProcessesAre DEF Inv
    <2>2. CASE <<s, c>> \in table' /\ <<s, c>> \notin table
      <3>1. Add(s, c)
        BY <2>2, TableMoves
      <3> QED
        BY <3>1, TakePending, ProcessesAre DEF Add, Inv
    <2> QED
      BY <2>1, <2>2
  <1>2. /\ overtaken \subseteq overtaken'
        /\ unheard \subseteq unheard'
        /\ unnoticed \subseteq unnoticed'
    BY HistoryGrows
  <1>3. CASE Upgrade(c) /\ Hears(s, c)
    BY <1>3 DEF Upgrade, Inv
  <1>4. CASE Pending(s, Established, c) \/ <<s, c>> \in table
    <2>1. /\ Hears(s, c)
          /\ \/ stage[c] = "open"
             \/ /\ stage[c] = "closed"
                /\ \/ Pending(s, Closed, c)
                   \/ <<s, c>> \in overtaken \cup unheard
                   \/ c \in unnoticed
      BY <1>4 DEF Inv, NoticesFollow
    <2>2. CASE Close(c) /\ c \notin unnoticed'
      <3>1. /\ Publish(c, ControlSubject("closed", Host(c)))
            /\ unheard' = unheard \cup {<<p, c>> : p \in {q \in Processes : <<q, Closed>> \notin live}}
            /\ stage'[c] = "closed"
        <4>1. Notify(c) /\ stage'[c] = "closed"
          BY <2>2 DEF Close, Inv
        <4> QED
          BY <2>2, <4>1 DEF Notify
      <3>2. CASE <<s, Closed>> \in live
        <4>1. /\ Matches(PatternOf(s, Closed), ControlSubject("closed", Host(c)))
              /\ GroupAt(<<s, Closed>>) = {}
          BY <2>1, ControlDelivery, ProcessesAre DEF Inv
        <4>2. Pending(s, Closed, c)'
          BY <3>1, <3>2, <4>1, PublishPending, ProcessesAre DEF Inv
        <4> QED
          BY <2>1, <3>1, <4>2
      <3>3. CASE <<s, Closed>> \notin live
        <4>1. <<s, c>> \in unheard'
          BY <3>1, <3>3, ProcessesAre
        <4> QED
          BY <2>1, <3>1, <4>1
      <3> QED
        BY <3>2, <3>3
    <2>3. CASE ~Close(c) /\ ~Vanish(c)
      <3>1. stage'[c] = stage[c]
        BY <2>1, <2>3, StageMoves
      <3>2. CASE Pending(s, Closed, c) /\ ~Pending(s, Closed, c)'
        <4>1. Delete(s, c)
          BY <3>2, NoLongerPending, ProcessesAre DEF Inv
        <4>2. Take(s, Closed, c) /\ table' = table \ {<<s, c>>}
          BY <4>1 DEF Delete, Remaining
        <4>3. Pending(s, Established, c)
          BY <4>2, TakePending, ProcessesAre DEF Inv
        <4>4. <<s, c>> \in overtaken'
          BY <4>1, <4>3 DEF Delete, Announcing, Pending
        <4> QED
          BY <2>1, <3>1, <4>4
      <3> QED
        BY <1>2, <2>1, <3>1, <3>2
    <2>4. CASE stage'[c] = "closed" /\ c \in unnoticed'
      BY <2>1, <2>4
    <2>5. Vanish(c) => stage'[c] = "closed" /\ c \in unnoticed'
      BY DEF Vanish, Inv
    <2>6. Close(c) => stage'[c] = "closed"
      BY DEF Close, Inv
    <2> QED
      BY <2>2, <2>3, <2>4, <2>5, <2>6
  <1> QED
    BY <1>1, <1>3, <1>4

\* All parts together.
LEMMA NextInv ==
    ASSUME Inv, [Next]_vars
    PROVE  Inv'
  <1>1. CASE Next
    <2>1. Listening'
      BY <1>1, NextConfigured DEF Inv, Listening
    <2> QED
      BY <1>1, <2>1, NextConfigured, NextAnnouncementsHeard, NextFramesOfOpen,
         NextAnnouncementsKnown, NextPathsFound, NextNoticesFollow
      DEF Inv
  <1>2. CASE UNCHANGED vars
    BY <1>2 DEF Inv, vars, configVars, proxyVars, serviceVars, resultVars, Configured, Listening,
       AnnouncementsHeard, FramesOfOpen, AnnouncementsKnown, PathsFound, NoticesFollow,
       Pending, Hears, Host, Forwarded, SubjectHost, LookupPath
  <1> QED
    BY <1>1, <1>2

-------------------------------------------------------------------------------
(* The theorems.                                                           *)

\* The invariant holds throughout.
LEMMA Invariance == Spec => []Inv
  <1>1. Init => Inv
    BY InitInv
  <1>2. Inv /\ [Next]_vars => Inv'
    BY NextInv
  <1> QED
    BY <1>1, <1>2, PTL DEF Spec

\* For all hosts and paths h8srd looks the backend up with the path the client asked
\* for, unless X-Forwarded-Host has more or fewer labels than Host
\* (reverse.go:239-258).
THEOREM LookupPathsAreKept == Spec => []LookupPathSurvives
  <1>1. ASSUME Inv
        PROVE  LookupPathSurvives
    <2> SUFFICES ASSUME NEW x \in served, x.by \in Instances,
                        Len(ReverseHostname(SubjectHost(x.client))) =
                           Len(ReverseHostname(Host(x.client)))
                 PROVE  x.path = ProcessPath(offer[x.client].path)
      BY DEF LookupPathSurvives
    <2>1. x.client \in Clients /\ x.path = LookupPath(x.client)
      BY <1>1 DEF Inv, PathsFound
    <2>2. /\ SubjectHost(x.client) \in Hostname
          /\ Host(x.client) \in Hostname
          /\ offer[x.client].path \in Path
      BY <1>1, <2>1, HostType DEF Inv
    <2>3. Len(Host(x.client).labels) = Len(SubjectHost(x.client).labels)
      BY <2>2, ReverseHostnameType
    <2> QED
      BY <2>1, <2>2, <2>3, PathRestored DEF LookupPath
  <1> QED
    BY <1>1, Invariance, PTL

\* A service's table keeps an entry of a closed connection only if the close notice
\* was overtaken, unheard or never published, however many services and clients there
\* are (service.go:204-228, proxy.go:624-627, 645-669).
THEOREM EntriesHaveConnections == Spec => []EntryHasConnection
  <1>1. ASSUME Inv
        PROVE  EntryHasConnection
    <2> SUFFICES ASSUME Quiet, NEW x \in table
                 PROVE  stage[x[2]] = "open" \/ x[2] \in unnoticed \/ x \in overtaken \cup unheard
      BY DEF EntryHasConnection
    <2>1. PICK s \in Services, c \in Clients : x = <<s, c>>
      BY <1>1 DEF Inv
    <2>2. ~Pending(s, Closed, c)
      <3>1. queue[<<s, Closed>>] = <<>>
        BY <1>1, ProcessesAre DEF Quiet, Inv, Configured
      <3> QED
        BY <3>1 DEF Pending
    <2> QED
      BY <1>1, <2>1, <2>2 DEF Inv, NoticesFollow
  <1> QED
    BY <1>1, Invariance, PTL

\* The causes of a lost frame are those LostHasCause names, for any number of h8srd,
\* hosts and clients (proxy.go:583-608, reverse.go:120-151, 511-580, 636-690).
THEOREM LossesHaveCauses == Spec => LostHasCause
  <1>1. ASSUME Inv, [Next]_vars, NEW d \in Instances, NEW c \in Clients,
               lost'[<<d, c>>] # lost[<<d, c>>]
        PROVE  \/ Announcing(d, c)
               \/ c \in unannounced
               \/ <<d, c>> \in refused \cup failed \cup ended
               \/ ReverseHostname(hostname[d]) # ReverseHostname(Host(c))
               \/ ReverseHostname(SubjectHost(c)) # ReverseHostname(Host(c))
    <2>1. PICK o \in Instances, e \in Clients : HandleFrame(o, e) /\ lost' # lost
      <3>1. CASE Next
        <4>1. PICK o \in Instances, e \in Clients :
                 \/ HandleRequest(o, e) \/ HandleFrame(o, e) \/ HandleEstablished(o, e)
                 \/ BackendEnds(o, e) \/ HandleClosed(o, e)
          BY <1>1, <3>1, StepsKeep DEF resultVars
        <4>2. HandleFrame(o, e)
          BY <1>1, <4>1 DEF HandleRequest, HandleEstablished, BackendEnds, HandleClosed
        <4> QED
          BY <1>1, <4>2
      <3>2. CASE UNCHANGED vars
        BY <1>1, <3>2 DEF vars, resultVars
      <3> QED
        BY <1>1, <3>1, <3>2
    <2>2. o = d /\ e = c /\ <<d, c>> \notin accepted
      <3>1. <<o, e>> \notin accepted /\ lost' = [lost EXCEPT ![<<o, e>>] = @ + 1]
        BY <2>1 DEF HandleFrame
      <3> QED
        BY <1>1, <3>1
    <2>3. PICK i \in Frames : Take(d, i, c)
      BY <2>1, <2>2 DEF HandleFrame
    <2>4. stage[c] \in {"open", "closed"}
      BY <1>1, <2>3, TakePending, ProcessesAre DEF Inv, FramesOfOpen
    <2>5. \/ ~Hears(d, c) \/ Pending(d, Established, c)
          \/ c \in unannounced \/ <<d, c>> \in refused \cup failed \cup ended
      BY <1>1, <2>2, <2>4 DEF Inv, AnnouncementsKnown
    <2> QED
      BY <2>5, ProcessesAre DEF Hears, Pending, Announcing
  <1> DEFINE Caused == \A d \in Instances, c \in Clients :
                          lost'[<<d, c>>] # lost[<<d, c>>] =>
                             \/ Announcing(d, c)
                             \/ c \in unannounced
                             \/ <<d, c>> \in refused \cup failed \cup ended
                             \/ ReverseHostname(hostname[d]) # ReverseHostname(Host(c))
                             \/ ReverseHostname(SubjectHost(c)) # ReverseHostname(Host(c))
  <1>2. Inv /\ [Next]_vars => [Caused]_vars
    BY <1>1
  <1>3. LostHasCause <=> [][Caused]_vars
    BY DEF LostHasCause
  <1> HIDE DEF Caused
  <1> QED
    BY <1>2, <1>3, Invariance, PTL DEF Spec

-------------------------------------------------------------------------------
(* Requests.                                                               *)

\* A request of c has reached p: it is pending there, or p has served it.
ServedBy(p, c) == \E x \in served : x.by = p /\ x.client = c
Reached(p, c) == (\E i \in Requests : Pending(p, i, c)) \/ ServedBy(p, c)

\* The instances among which d shares requests.
Mates(d) == {e \in Instances : e = d \/ (group[d] # {} /\ group[e] = group[d])}

\* The group of no service is that of an h8srd: the former are generated, with the
\* prefix h8ss, the latter is a flag (service.go:58, 323, main.go:38).
GroupsDiffer == \A s \in Services : {EndpointOf[s]} \notin QueueGroups

\* A request reaches an h8srd only once its client's handler has published it, and then
\* exactly one of those that share the requests for its host.
RequestsSpread ==
    /\ \A d \in Instances, c \in Clients : Reached(d, c) => stage[c] = "sent"
    /\ \A d, e \in Instances, c \in Clients :
          e \in Mates(d) /\ Reached(d, c) /\ Reached(e, c) => d = e
    /\ \A d \in Instances, c \in Clients :
          stage[c] = "sent" /\ ReverseHostname(hostname[d]) = ReverseHostname(SubjectHost(c))
             => \E e \in Mates(d) : Reached(e, c)

\* Subscriptions and configuration have their types.
SubscriptionsType ==
    /\ live \subseteq Processes \X Places
    /\ group \in [Instances -> QueueGroups]

RequestsInv == Inv /\ SubscriptionsType /\ RequestsSpread

\* The subscriptions of an h8srd have the patterns of its hostname, those for
\* requests of the scheme http.
LEMMA RequestPattern ==
    ASSUME Configured, NEW d \in Instances, NEW i \in Places
    PROVE  /\ hostname[d] \in Hostname
           /\ PatternOf(d, i) = HostPatterns(hostname[d])[i]
           /\ i \in Requests => PatternOf(d, i).scheme = "http"
           /\ i \notin Requests => PatternOf(d, i).scheme # "http"
  <1>1. hostname[d] \in Hostname
    BY DEF Configured
  <1>2. PatternOf(d, i) = HostPatterns(hostname[d])[i]
    BY ProcessesAre DEF PatternOf
  <1>3. ASSUME NEW h
        PROVE  /\ HostPatterns(h)[1].scheme = "http" /\ HostPatterns(h)[2].scheme = "http"
               /\ HostPatterns(h)[3].scheme = "ws" /\ HostPatterns(h)[4].scheme = "ws"
               /\ HostPatterns(h)[5].scheme = "control" /\ HostPatterns(h)[6].scheme = "control"
    <2>1. /\ \A more : Pattern("http", "*", h, more).scheme = "http"
          /\ \A more : Pattern("ws", "ws", h, more).scheme = "ws"
          /\ \A event : Pattern("control", event, h, FALSE).scheme = "control"
      BY DEF Pattern
    <2>2. /\ HostPatterns(h)[1] = Pattern("http", "*", h, TRUE)
          /\ HostPatterns(h)[2] = Pattern("http", "*", h, FALSE)
          /\ HostPatterns(h)[3] = Pattern("ws", "ws", h, TRUE)
          /\ HostPatterns(h)[4] = Pattern("ws", "ws", h, FALSE)
          /\ HostPatterns(h)[5] = Pattern("control", "established", h, FALSE)
          /\ HostPatterns(h)[6] = Pattern("control", "closed", h, FALSE)
      BY PatternsOfHost
    <2> QED
      BY <2>1, <2>2
  <1>4. /\ i \in Requests => i = 1 \/ i = 2
        /\ i \notin Requests => i = 3 \/ i = 4 \/ i = 5 \/ i = 6
    BY DEF Requests, Places
  <1> QED
    BY <1>1, <1>2, <1>3, <1>4

\* A request reaches an h8srd that it had not reached when it is published.
LEMMA NewlyReached ==
    ASSUME Inv, Next, NEW d \in Instances, NEW c \in Clients, Reached(d, c)', ~Reached(d, c)
    PROVE  Request(c) /\ \E i \in Requests : Pending(d, i, c)' /\ ~Pending(d, i, c)
  <1>1. CASE \E i \in Requests : Pending(d, i, c)'
    <2>1. PICK i \in Requests : Pending(d, i, c)' /\ ~Pending(d, i, c)
      BY <1>1 DEF Reached
    <2>2. PatternOf(d, i).scheme = "http"
      BY RequestPattern, ProcessesAre DEF Inv
    <2>3. /\ WebSocketPublishSubject(SubjectHost(c), offer[c].path).scheme = "ws"
          /\ ControlSubject("established", Host(c)).scheme = "control"
          /\ ControlSubject("closed", Host(c)).scheme = "control"
      BY DEF WebSocketPublishSubject, ControlSubject, Subject
    <2>4. /\ ~Matches(PatternOf(d, i), WebSocketPublishSubject(SubjectHost(c), offer[c].path))
          /\ ~Matches(PatternOf(d, i), ControlSubject("established", Host(c)))
          /\ ~Matches(PatternOf(d, i), ControlSubject("closed", Host(c)))
      BY <2>2, <2>3 DEF Matches
    <2>5. Configured /\ d \in Processes /\ i \in Places
      BY ProcessesAre DEF Inv
    <2>6. Request(c)
      BY <2>1, <2>4, <2>5, NewlyPending
    <2> QED
      BY <2>1, <2>6
  <1>2. CASE ServedBy(d, c)' /\ ~ServedBy(d, c)
    <2>1. PICK x \in served' : x.by = d /\ x.client = c /\ x \notin served
      BY <1>2 DEF ServedBy
    <2>2. HandleRequest(d, c)
      BY <2>1, ServedMoves, ProcessesAre
    <2>3. PICK i \in Requests : Take(d, i, c)
      BY <2>2 DEF HandleRequest
    <2>4. Pending(d, i, c)
      BY <2>3, TakePending, ProcessesAre DEF Inv
    <2> QED
      BY <2>4 DEF Reached
  <1> QED
    BY <1>1, <1>2 DEF Reached

\* Once it has reached an h8srd it stays there until it is served.
LEMMA StillReached ==
    ASSUME Inv, Next, NEW d \in Instances, NEW c \in Clients, Reached(d, c)
    PROVE  Reached(d, c)'
  <1>1. served \subseteq served'
    BY HistoryGrows
  <1>2. CASE ServedBy(d, c)
    BY <1>1, <1>2 DEF Reached, ServedBy
  <1>3. CASE \E i \in Requests : Pending(d, i, c)
    <2>1. PICK i \in Requests : Pending(d, i, c)
      BY <1>3
    <2>2. ASSUME ~Pending(d, i, c)'
          PROVE  HandleRequest(d, c)
      <3>1. queue' # queue
        BY <2>1, <2>2 DEF Pending
      <3>2. ASSUME NEW e \in Clients, NEW subject, Publish(e, subject)
            PROVE  FALSE
        BY <2>1, <2>2, <3>2, PublishPending, ProcessesAre DEF Inv
      <3>3. ASSUME NEW o \in Processes, NEW j \in Places, NEW e \in Clients, Take(o, j, e)
            PROVE  o = d /\ j = i /\ e = c
        BY <2>1, <2>2, <3>3, TakePending, ProcessesAre DEF Inv
      <3>4. i \notin Frames /\ i # Established /\ i # Closed
        BY DEF Requests, Frames, Established, Closed
      <3>5. ~(\E e \in Clients : Publishes(e))
        BY <3>2 DEF Publishes
      <3>6. ASSUME NEW o \in Instances, NEW e \in Clients,
                   HandleRequest(o, e) \/ HandleFrame(o, e)
                   \/ HandleEstablished(o, e) \/ HandleClosed(o, e)
            PROVE  HandleRequest(d, c)
        BY <3>3, <3>4, <3>6, CallbacksTake, ProcessesAre
      <3>7. ASSUME NEW s \in Services, NEW e \in Clients,
                   ServeRequest(s, e) \/ ReadFrame(s, e) \/ Add(s, e) \/ Delete(s, e)
            PROVE  FALSE
        <4>1. s \in Processes /\ s # d /\ \E j \in Places : Take(s, j, e)
          BY <3>7, CallbacksTake, ProcessesAre
        <4> QED
          BY <3>3, <4>1
      <3> QED
        BY <3>1, <3>5, <3>6, <3>7, QueueMoves
    <2>3. CASE HandleRequest(d, c)
      <3>1. [by |-> d, client |-> c, path |-> LookupPath(c)] \in served'
        BY <2>3 DEF HandleRequest
      <3> QED
        BY <3>1 DEF Reached, ServedBy
    <2> QED
      BY <2>1, <2>2, <2>3 DEF Reached
  <1> QED
    BY <1>2, <1>3 DEF Reached

\* When a request is published, two mates do not get it both, and one of the mates of an
\* h8srd for its host does.
LEMMA RequestSpreads ==
    ASSUME RequestsInv, NEW c \in Clients, Request(c)
    PROVE  /\ \A d, e \in Instances : \A i, j \in Requests :
                 /\ e \in Mates(d)
                 /\ Pending(d, i, c)' /\ ~Pending(d, i, c)
                 /\ Pending(e, j, c)' /\ ~Pending(e, j, c)
                 => d = e
           /\ \A d \in Instances :
                 GroupsDiffer /\ ReverseHostname(hostname[d]) = ReverseHostname(SubjectHost(c)) =>
                    \E e \in Mates(d), i \in Requests : Pending(e, i, c)'
  <1> DEFINE subject == PublishSubject("GET", SubjectHost(c), offer[c].path)
             matching == {sub \in live : Matches(PatternOf(sub[1], sub[2]), subject)}
  <1>1. Configured /\ Listening /\ SubscriptionsType
    BY DEF RequestsInv, Inv
  <1>2. PICK chosen \in Deliveries(subject) :
           queue' = [sub \in DOMAIN queue |->
                        IF sub \in chosen THEN Append(queue[sub], c) ELSE queue[sub]]
    BY DEF Request, Publish
  <1>3. /\ chosen \subseteq matching
        /\ \A sub \in matching : GroupAt(sub) = {} => sub \in chosen
        /\ \A sub \in matching : GroupAt(sub) # {} =>
              \E one \in chosen : {other \in chosen : GroupAt(other) = GroupAt(sub)} = {one}
    BY <1>2 DEF Deliveries
  <1>4. ASSUME NEW p \in Processes, NEW i \in Places
        PROVE  /\ <<p, i>> \in chosen => Pending(p, i, c)'
               /\ <<p, i>> \notin chosen => (Pending(p, i, c)' <=> Pending(p, i, c))
    <2> DEFINE q == queue[<<p, i>>]
    <2>1. q \in Seq(Clients) /\ <<p, i>> \in DOMAIN queue
      BY <1>1 DEF Configured
    <2>2. queue'[<<p, i>>] = IF <<p, i>> \in chosen THEN Append(q, c) ELSE q
      BY <1>2, <2>1
    <2>3. Len(q) + 1 \in DOMAIN Append(q, c) /\ Append(q, c)[Len(q) + 1] = c
      BY <2>1
    <2> QED
      BY <2>2, <2>3 DEF Pending
  <1>5. subject.scheme = "http"
    BY DEF PublishSubject, Subject
  <1> HIDE DEF subject
  <1>6. ASSUME NEW d \in Instances, NEW e \in Instances, NEW i \in Requests, NEW j \in Requests,
               e \in Mates(d), <<d, i>> \in chosen, <<e, j>> \in chosen
        PROVE  d = e
    <2>1. CASE e # d
      <3>1. group[d] # {} /\ group[e] = group[d]
        BY <1>6, <2>1 DEF Mates
      <3>2. GroupAt(<<d, i>>) = group[d] /\ GroupAt(<<e, j>>) = group[e]
        BY ProcessesAre DEF GroupAt, InstanceGroup
      <3>3. PICK one \in chosen : {other \in chosen : GroupAt(other) = GroupAt(<<d, i>>)} = {one}
        BY <1>3, <1>6, <3>1, <3>2
      <3>4. <<d, i>> = one /\ <<e, j>> = one
        BY <1>6, <3>1, <3>2, <3>3
      <3> QED
        BY <3>4
    <2> QED
      BY <2>1
  <1>7. ASSUME NEW d \in Instances, GroupsDiffer,
               ReverseHostname(hostname[d]) = ReverseHostname(SubjectHost(c))
        PROVE  \E e \in Mates(d), i \in Requests : Pending(e, i, c)'
    <2>1. /\ hostname[d] \in Hostname /\ SubjectHost(c) \in Hostname
          /\ offer[c].path \in Path
          /\ ReverseHostname(SubjectHost(c)) = ReverseHostname(hostname[d])
      BY <1>1, <1>7, HostType DEF Configured
    <2>2. PICK i \in {1, 2} : Matches(HostPatterns(hostname[d])[i], subject)
      BY <2>1, HostIsHeard DEF subject
    <2>3. i \in Requests /\ i \in Places
      BY DEF Requests, Places
    <2>4. <<d, i>> \in matching
      BY <1>1, <2>2, <2>3, RequestPattern DEF Listening
    <2>5. GroupAt(<<d, i>>) = group[d]
      BY <2>3, ProcessesAre DEF GroupAt, InstanceGroup
    <2>6. CASE group[d] = {}
      <3>1. <<d, i>> \in chosen
        BY <1>3, <2>4, <2>5, <2>6
      <3>2. d \in Mates(d)
        BY DEF Mates
      <3> QED
        BY <1>4, <2>3, <3>1, <3>2, ProcessesAre
    <2>7. CASE group[d] # {}
      <3>1. PICK one \in chosen : GroupAt(one) = group[d]
        BY <1>3, <2>4, <2>5, <2>7
      <3>2. one \in live /\ Matches(PatternOf(one[1], one[2]), subject)
        BY <1>3
      <3>3. PICK e \in Processes, j \in Places : one = <<e, j>>
        BY <1>1, <3>2 DEF SubscriptionsType
      <3>4. e \in Instances
        <4>1. CASE e \in Services
          <5>1. GroupAt(one) \in {{}, {EndpointOf[e]}}
            BY <3>3, <4>1 DEF GroupAt, ServiceGroup
          <5>2. group[d] \in QueueGroups
            BY <1>1 DEF SubscriptionsType
          <5> QED
            BY <1>7, <2>7, <3>1, <4>1, <5>1, <5>2 DEF GroupsDiffer
        <4> QED
          BY <4>1 DEF Processes
      <3>5. group[e] = group[d]
        BY <2>7, <3>1, <3>3, <3>4, ProcessesAre DEF GroupAt, InstanceGroup
      <3>6. j \in Requests
        BY <1>1, <1>5, <3>2, <3>3, <3>4, RequestPattern DEF Matches
      <3>7. e \in Mates(d)
        BY <2>7, <3>4, <3>5 DEF Mates
      <3> QED
        BY <1>4, <3>3, <3>6, <3>7
    <2> QED
      BY <2>6, <2>7
  <1>8. ASSUME NEW d \in Instances, NEW i \in Requests, Pending(d, i, c)', ~Pending(d, i, c)
        PROVE  <<d, i>> \in chosen
    BY <1>4, <1>8, ProcessesAre
  <1> QED
    BY <1>6, <1>7, <1>8

\* The invariant is inductive.
LEMMA NextRequestsSpread ==
    ASSUME RequestsInv, GroupsDiffer, Next
    PROVE  RequestsSpread'
  <1>1. Inv /\ RequestsSpread
    BY DEF RequestsInv
  <1>2. \A d \in Instances, c \in Clients : Reached(d, c)' /\ ~Reached(d, c) =>
           Request(c) /\ \E i \in Requests : Pending(d, i, c)' /\ ~Pending(d, i, c)
    BY <1>1, NewlyReached
  <1>3. \A d \in Instances, c \in Clients : Reached(d, c) => Reached(d, c)'
    BY <1>1, StillReached
  <1>4. \A c \in Clients :
           /\ Request(c) => stage[c] = "new" /\ stage'[c] = "sent"
           /\ stage[c] = "sent" => stage'[c] = "sent"
           /\ stage'[c] = "sent" => stage[c] = "sent" \/ Request(c)
    <2> TAKE c \in Clients
    <2>1. Request(c) => stage[c] = "new" /\ stage'[c] = "sent"
      BY <1>1 DEF Inv, Request
    <2> QED
      BY <1>1, <2>1, StageMoves
  <1>5. /\ \A c \in Clients : SubjectHost(c)' = SubjectHost(c)
        /\ hostname' = hostname /\ group' = group
        /\ \A d \in Instances : Mates(d)' = Mates(d)
    BY <1>1, StableHosts, Unchanging DEF configVars, Mates
  <1>6. ASSUME NEW d \in Instances, NEW c \in Clients, Reached(d, c)'
        PROVE  stage'[c] = "sent"
    BY <1>1, <1>2, <1>4, <1>6 DEF RequestsSpread
  <1>7. ASSUME NEW d \in Instances, NEW e \in Instances, NEW c \in Clients,
               e \in Mates(d), Reached(d, c)', Reached(e, c)'
        PROVE  d = e
    <2>1. CASE Reached(d, c) /\ Reached(e, c)
      BY <1>1, <1>7, <2>1 DEF RequestsSpread
    <2>2. CASE ~Reached(d, c) \/ ~Reached(e, c)
      <3>1. Request(c)
        BY <1>2, <1>7, <2>2
      <3>2. ~Reached(d, c) /\ ~Reached(e, c)
        BY <1>1, <1>4, <3>1 DEF RequestsSpread
      <3>3. PICK i \in Requests : Pending(d, i, c)' /\ ~Pending(d, i, c)
        BY <1>2, <1>7, <3>2
      <3>4. PICK j \in Requests : Pending(e, j, c)' /\ ~Pending(e, j, c)
        BY <1>2, <1>7, <3>2
      <3> QED
        BY <1>7, <3>1, <3>3, <3>4, RequestSpreads
    <2> QED
      BY <2>1, <2>2
  <1>8. ASSUME NEW d \in Instances, NEW c \in Clients, stage'[c] = "sent",
               ReverseHostname(hostname[d]) = ReverseHostname(SubjectHost(c))
        PROVE  \E e \in Mates(d) : Reached(e, c)'
    <2>1. CASE stage[c] = "sent"
      <3>1. PICK e \in Mates(d) : Reached(e, c)
        BY <1>1, <1>8, <2>1 DEF RequestsSpread
      <3>2. e \in Instances
        BY DEF Mates
      <3> QED
        BY <1>3, <3>1, <3>2
    <2>2. CASE Request(c)
      <3>1. PICK e \in Mates(d), i \in Requests : Pending(e, i, c)'
        BY <1>8, <2>2, RequestSpreads
      <3> QED
        BY <3>1 DEF Reached
    <2> QED
      BY <1>4, <1>8, <2>1, <2>2
  <1>9. \A d \in Instances, c \in Clients : Reached(d, c)' => stage'[c] = "sent"
    BY <1>6
  <1>10. \A d, e \in Instances, c \in Clients :
            e \in Mates(d)' /\ Reached(d, c)' /\ Reached(e, c)' => d = e
    BY <1>5, <1>7
  <1>11. \A d \in Instances, c \in Clients :
            stage'[c] = "sent" /\ ReverseHostname(hostname'[d]) = ReverseHostname(SubjectHost(c)')
              => \E e \in Mates(d)' : Reached(e, c)'
    BY <1>5, <1>8
  <1> QED
    BY <1>9, <1>10, <1>11 DEF RequestsSpread

-------------------------------------------------------------------------------
(* Frames.                                                                 *)

\* The messages of c in a queue.
Of(c, q) == {n \in DOMAIN q : q[n] = c}
Waiting(d, i, c) == Cardinality(Of(c, queue[<<d, i>>]))

\* Every frame lost in an h8srd, or waiting there, is one of those the client has sent:
\* no frame reaches an h8srd twice.
FramesBounded ==
    \A d \in Instances, c \in Clients :
        /\ frames[c] \in 0..MaxFrames
        /\ lost[<<d, c>>] \in Nat
        /\ lost[<<d, c>>] + Waiting(d, 3, c) + Waiting(d, 4, c) <= frames[c]

\* The types Inv does not speak of.
OtherTypes ==
    /\ SubscriptionsType
    /\ \A d \in Instances : hostname[d] \in Hostnames[d]
    /\ frames \in [Clients -> 0..MaxFrames]
    /\ accepted \subseteq Instances \X Clients
    /\ starting \in [Services -> SUBSET Places]
    /\ lost \in [Instances \X Clients -> Nat]
    /\ \A x \in served : x.by \in Processes
    /\ ended \subseteq Instances \X Clients
    /\ overtaken \subseteq Services \X Clients
    /\ unheard \subseteq Processes \X Clients
    /\ failed \subseteq Instances \X Clients
    /\ unannounced \subseteq Clients /\ unnoticed \subseteq Clients

TypesInv == Inv /\ OtherTypes /\ FramesBounded

\* The messages of a client in a queue are finitely many.
LEMMA OfType ==
    ASSUME NEW q \in Seq(Clients), NEW c
    PROVE  IsFiniteSet(Of(c, q)) /\ Cardinality(Of(c, q)) \in Nat
  <1>1. Len(q) \in Nat /\ DOMAIN q = 1..Len(q)
    OBVIOUS
  <1>2. IsFiniteSet(1..Len(q))
    BY <1>1, FS_Interval
  <1>3. Of(c, q) \in SUBSET (1..Len(q))
    BY <1>1 DEF Of
  <1>4. IsFiniteSet(Of(c, q))
    BY <1>2, <1>3, FS_Subset
  <1> QED
    BY <1>4, FS_CardinalityType

\* One more message is at most one more of a client, and none of another one.
LEMMA OfAppend ==
    ASSUME NEW q \in Seq(Clients), NEW c \in Clients, NEW e \in Clients
    PROVE  Cardinality(Of(c, Append(q, e))) = Cardinality(Of(c, q)) + (IF e = c THEN 1 ELSE 0)
  <1> DEFINE n == Len(q) + 1
  <1>1. /\ Len(q) \in Nat /\ DOMAIN q = 1..Len(q)
        /\ DOMAIN Append(q, e) = (DOMAIN q) \cup {n}
        /\ Append(q, e)[n] = e
        /\ \A m \in DOMAIN q : Append(q, e)[m] = q[m]
    OBVIOUS
  <1>2. n \notin DOMAIN q
    BY <1>1
  <1>3. IsFiniteSet(Of(c, q)) /\ n \notin Of(c, q)
    BY <1>2, OfType DEF Of
  <1> HIDE DEF n
  <1>4. CASE e = c
    <2>1. Of(c, Append(q, e)) = Of(c, q) \cup {n}
      BY <1>1, <1>4 DEF Of
    <2> QED
      BY <1>3, <1>4, <2>1, FS_AddElement
  <1>5. CASE e # c
    <2>1. Of(c, Append(q, e)) = Of(c, q)
      BY <1>1, <1>5 DEF Of
    <2>2. Cardinality(Of(c, q)) \in Nat
      BY OfType
    <2> QED
      BY <1>5, <2>1, <2>2
  <1> QED
    BY <1>4, <1>5

\* Without its head a queue has no more messages of any client, and one less of the
\* head's.
LEMMA OfTail ==
    ASSUME NEW q \in Seq(Clients), q # <<>>, NEW c \in Clients
    PROVE  Cardinality(Of(c, Tail(q))) + (IF Head(q) = c THEN 1 ELSE 0) <= Cardinality(Of(c, q))
  <1> DEFINE S == Of(c, Tail(q))
             T == Of(c, q) \ {1}
             f == [n \in S |-> n + 1]
  <1>1. /\ Len(q) \in Nat /\ Len(q) > 0 /\ DOMAIN q = 1..Len(q)
        /\ DOMAIN Tail(q) = 1..(Len(q) - 1)
        /\ Tail(q) \in Seq(Clients)
        /\ \A n \in 1..(Len(q) - 1) : Tail(q)[n] = q[n + 1]
        /\ Head(q) = q[1]
    OBVIOUS
  <1>2. /\ IsFiniteSet(Of(c, q)) /\ Cardinality(Of(c, q)) \in Nat
        /\ Cardinality(S) \in Nat
    BY <1>1, OfType
  <1>3. S \subseteq 1..(Len(q) - 1) /\ \A n \in S : n + 1 \in T
    <2>1. S \subseteq 1..(Len(q) - 1) /\ \A n \in S : Tail(q)[n] = c
      BY <1>1 DEF Of
    <2>2. \A n \in 1..(Len(q) - 1) : n + 1 \in 1..Len(q) /\ n + 1 # 1
      BY <1>1
    <2> HIDE DEF S
    <2> QED
      BY <1>1, <2>1, <2>2 DEF Of
  <1> HIDE DEF S
  <1>4. f \in Injection(S, T)
    <2>1. f \in [S -> T]
      BY <1>3
    <2>2. \A m, n \in S : f[m] = f[n] => m = n
      <3>1. \A m, n \in 1..(Len(q) - 1) : m + 1 = n + 1 => m = n
        BY <1>1
      <3> QED
        BY <1>3, <3>1
    <2> HIDE DEF f
    <2> QED
      BY <2>1, <2>2 DEF Injection, IsInjective
  <1>5. /\ IsFiniteSet(T)
        /\ Cardinality(T) = IF 1 \in Of(c, q) THEN Cardinality(Of(c, q)) - 1
                            ELSE Cardinality(Of(c, q))
    BY <1>2, FS_RemoveElement
  <1> HIDE DEF T, f
  <1>6. Cardinality(S) <= Cardinality(T)
    BY <1>4, <1>5, FS_Injection
  <1>7. Head(q) = c => 1 \in Of(c, q)
    BY <1>1 DEF Of
  <1> QED
    BY <1>2, <1>5, <1>6, <1>7 DEF S

\* Publishing adds a message of the client to the queues of matching subscriptions.
LEMMA PublishWaiting ==
    ASSUME Configured, NEW c \in Clients, NEW subject, Publish(c, subject),
           NEW d \in Processes, NEW i \in Places, NEW e \in Clients
    PROVE  /\ Waiting(d, i, e) \in Nat
           /\ \/ Waiting(d, i, e)' = Waiting(d, i, e)
              \/ /\ Waiting(d, i, e)' = Waiting(d, i, e) + 1
                 /\ e = c /\ Matches(PatternOf(d, i), subject)
  <1> DEFINE q == queue[<<d, i>>]
  <1>1. q \in Seq(Clients)
    BY DEF Configured
  <1>2. \/ queue'[<<d, i>>] = q
        \/ queue'[<<d, i>>] = Append(q, c) /\ Matches(PatternOf(d, i), subject)
    BY PublishDelivers
  <1> HIDE DEF q
  <1>3. Cardinality(Of(e, q)) \in Nat
    BY <1>1, OfType
  <1>4. Cardinality(Of(e, Append(q, c))) = Cardinality(Of(e, q)) + (IF c = e THEN 1 ELSE 0)
    BY <1>1, OfAppend
  <1>5. /\ Waiting(d, i, e) = Cardinality(Of(e, q))
        /\ Waiting(d, i, e)' = Cardinality(Of(e, queue'[<<d, i>>]))
    BY DEF Waiting, Of, q
  <1>6. CASE queue'[<<d, i>>] = q
    BY <1>3, <1>5, <1>6
  <1>7. CASE queue'[<<d, i>>] = Append(q, c) /\ Matches(PatternOf(d, i), subject)
    <2>1. Waiting(d, i, e)' = Waiting(d, i, e) + (IF c = e THEN 1 ELSE 0)
      BY <1>4, <1>5, <1>7
    <2> QED
      BY <1>3, <1>5, <1>7, <2>1
  <1> QED
    BY <1>2, <1>6, <1>7

\* Taking a message leaves one less of the client.
LEMMA TakeWaiting ==
    ASSUME Configured, NEW p \in Processes, NEW j \in Places, NEW c \in Clients, Take(p, j, c),
           NEW d \in Processes, NEW i \in Places, NEW e \in Clients
    PROVE  /\ Waiting(d, i, e) \in Nat /\ Waiting(d, i, e)' \in Nat
           /\ Waiting(d, i, e)' <= Waiting(d, i, e)
           /\ d = p /\ i = j /\ e = c => Waiting(d, i, e)' + 1 <= Waiting(d, i, e)
  <1> DEFINE q == queue[<<d, i>>]
  <1>1. /\ q \in Seq(Clients) /\ queue[<<p, j>>] \in Seq(Clients)
        /\ DOMAIN queue = Processes \X Places
    BY DEF Configured
  <1>2. \/ queue'[<<d, i>>] = q /\ ~(d = p /\ i = j)
        \/ /\ queue'[<<d, i>>] = Tail(q) /\ q # <<>> /\ Head(q) = c
           /\ d = p /\ i = j
    BY <1>1 DEF Take
  <1>3. /\ Waiting(d, i, e) = Cardinality(Of(e, q))
        /\ Waiting(d, i, e)' = Cardinality(Of(e, queue'[<<d, i>>]))
    BY DEF Waiting, Of
  <1> HIDE DEF q
  <1>4. Cardinality(Of(e, q)) \in Nat
    BY <1>1, OfType
  <1>5. q # <<>> => /\ Cardinality(Of(e, Tail(q))) \in Nat
                    /\ Cardinality(Of(e, Tail(q))) + (IF Head(q) = e THEN 1 ELSE 0)
                          <= Cardinality(Of(e, q))
    <2> SUFFICES ASSUME q # <<>>
                 PROVE  /\ Cardinality(Of(e, Tail(q))) \in Nat
                        /\ Cardinality(Of(e, Tail(q))) + (IF Head(q) = e THEN 1 ELSE 0)
                              <= Cardinality(Of(e, q))
      OBVIOUS
    <2>1. Tail(q) \in Seq(Clients)
      BY <1>1
    <2>2. Cardinality(Of(e, Tail(q))) \in Nat
      BY <2>1, OfType
    <2> QED
      BY <1>1, <2>2, OfTail
  <1>6. CASE queue'[<<d, i>>] = q /\ ~(d = p /\ i = j)
    <2>1. Waiting(d, i, e)' = Waiting(d, i, e)
      BY <1>3, <1>6
    <2> QED
      BY <1>3, <1>4, <1>6, <2>1
  <1>7. CASE queue'[<<d, i>>] = Tail(q) /\ q # <<>> /\ Head(q) = c
    <2>1. Waiting(d, i, e)' = Cardinality(Of(e, Tail(q)))
      BY <1>3, <1>7
    <2>2. Waiting(d, i, e)' \in Nat /\ Waiting(d, i, e)' + (IF c = e THEN 1 ELSE 0) <= Waiting(d, i, e)
      BY <1>3, <1>5, <1>7, <2>1
    <2> QED
      BY <1>3, <1>4, <2>2
  <1> QED
    BY <1>2, <1>6, <1>7

\* The frames of a client that wait in an h8srd.
LEMMA WaitingType ==
    ASSUME Configured, NEW d \in Processes, NEW i \in Places, NEW e \in Clients
    PROVE  Waiting(d, i, e) \in Nat
  BY OfType DEF Configured, Waiting

\* A message that is no frame joins no queue of frames, and a frame at most one.
LEMMA FramesJoinOnce ==
    ASSUME Configured, NEW c \in Clients, NEW subject, Publish(c, subject),
           NEW d \in Instances, NEW e \in Clients
    PROVE  /\ e # c \/ subject.scheme # "ws" =>
                Waiting(d, 3, e)' + Waiting(d, 4, e)' = Waiting(d, 3, e) + Waiting(d, 4, e)
           /\ Waiting(d, 3, e)' + Waiting(d, 4, e)' <= Waiting(d, 3, e) + Waiting(d, 4, e) + 1
  <1>1. 3 \in Places /\ 4 \in Places /\ d \in Processes /\ 3 \in Frames /\ 4 \in Frames
    BY ProcessesAre DEF Places, Frames
  <1>2. \A i \in {3, 4} :
           /\ Waiting(d, i, e) \in Nat
           /\ \/ Waiting(d, i, e)' = Waiting(d, i, e)
              \/ /\ Waiting(d, i, e)' = Waiting(d, i, e) + 1
                 /\ e = c /\ Matches(PatternOf(d, i), subject)
    BY <1>1, PublishWaiting
  <1>3. PatternOf(d, 3).scheme = "ws" /\ PatternOf(d, 4).scheme = "ws"
    BY <1>1, FramePattern
  <1>4. \A i \in {3, 4} : Matches(PatternOf(d, i), subject) => subject.scheme = "ws"
    BY <1>3 DEF Matches
  <1>5. ~(Matches(PatternOf(d, 3), subject) /\ Matches(PatternOf(d, 4), subject))
    <2>1. /\ PatternOf(d, 3) = HostPatterns(hostname[d])[3]
          /\ PatternOf(d, 4) = HostPatterns(hostname[d])[4]
          /\ hostname[d] \in Hostname
      BY <1>1, RequestPattern
    <2> QED
      BY <2>1, OnePatternPerMessage
  <1> QED
    BY <1>2, <1>4, <1>5

\* Every step keeps the bound.
LEMMA NextFramesBounded ==
    ASSUME TypesInv, Next
    PROVE  FramesBounded'
  <1>1. Inv /\ Configured /\ FramesBounded
    BY DEF TypesInv, Inv
  <1>2. 3 \in Places /\ 4 \in Places /\ Frames = {3, 4} /\ MaxFrames \in Nat
    BY RoutingAssumption DEF Places, Frames
  <1> SUFFICES ASSUME NEW d \in Instances, NEW c \in Clients
               PROVE  /\ frames'[c] \in 0..MaxFrames
                      /\ lost'[<<d, c>>] \in Nat
                      /\ lost'[<<d, c>>] + Waiting(d, 3, c)' + Waiting(d, 4, c)' <= frames'[c]
    BY DEF FramesBounded
  <1>3. Waiting(d, 3, c)' \in Nat /\ Waiting(d, 4, c)' \in Nat
    <2>1. queue' \in [Processes \X Places -> Seq(Clients)]
      BY <1>1, NextConfigured DEF Configured
    <2>2. \A i \in {3, 4} : queue'[<<d, i>>] \in Seq(Clients)
      BY <1>2, <2>1, ProcessesAre
    <2>3. \A i \in {3, 4} : Waiting(d, i, c)' = Cardinality(Of(c, queue'[<<d, i>>]))
      BY DEF Waiting, Of
    <2> QED
      BY <2>2, <2>3, OfType
  <1> DEFINE before == Waiting(d, 3, c) + Waiting(d, 4, c)
             after == Waiting(d, 3, c)' + Waiting(d, 4, c)'
  <1>4. /\ frames[c] \in 0..MaxFrames /\ lost[<<d, c>>] \in Nat
        /\ before \in Nat /\ after \in Nat
        /\ lost[<<d, c>>] + before <= frames[c]
        /\ d \in Processes
    <2>1. Waiting(d, 3, c) \in Nat /\ Waiting(d, 4, c) \in Nat /\ d \in Processes
      BY <1>1, <1>2, WaitingType, ProcessesAre
    <2>2. Waiting(d, 3, c)' \in Nat /\ Waiting(d, 4, c)' \in Nat
      BY <1>3
    <2>3. /\ frames[c] \in 0..MaxFrames /\ lost[<<d, c>>] \in Nat
          /\ lost[<<d, c>>] + Waiting(d, 3, c) + Waiting(d, 4, c) <= frames[c]
      BY <1>1 DEF FramesBounded
    <2> QED
      BY <2>1, <2>2, <2>3
  <1>5. ASSUME NEW e \in Clients, NEW subject, Publish(e, subject)
        PROVE  /\ e # c \/ subject.scheme # "ws" => after = before
               /\ after <= before + 1
    <2>1. /\ e # c \/ subject.scheme # "ws" =>
                Waiting(d, 3, c)' + Waiting(d, 4, c)' = Waiting(d, 3, c) + Waiting(d, 4, c)
          /\ Waiting(d, 3, c)' + Waiting(d, 4, c)' <= Waiting(d, 3, c) + Waiting(d, 4, c) + 1
      BY <1>1, <1>5, FramesJoinOnce
    <2> QED
      BY <2>1
  <1>6. ASSUME NEW p \in Processes, NEW j \in Places, NEW e \in Clients, Take(p, j, e)
        PROVE  /\ after <= before
               /\ p = d /\ j \in Frames /\ e = c => after + 1 <= before
    <2>1. \A i \in {3, 4} :
             /\ Waiting(d, i, c) \in Nat /\ Waiting(d, i, c)' \in Nat
             /\ Waiting(d, i, c)' <= Waiting(d, i, c)
             /\ d = p /\ i = j /\ c = e => Waiting(d, i, c)' + 1 <= Waiting(d, i, c)
      BY <1>1, <1>2, <1>4, <1>6, TakeWaiting
    <2> QED
      BY <1>2, <2>1
  <1>7. ASSUME queue' = queue
        PROVE  after = before
    BY <1>7 DEF Waiting, Of
  <1> HIDE DEF before, after
  <1>8. ASSUME frames'[c] = frames[c], lost'[<<d, c>>] = lost[<<d, c>>], after <= before
        PROVE  /\ frames'[c] \in 0..MaxFrames /\ lost'[<<d, c>>] \in Nat
               /\ lost'[<<d, c>>] + after <= frames'[c]
    BY <1>4, <1>8
  <1>9. ASSUME NEW e \in Clients, SendFrame(e)
        PROVE  /\ frames'[c] \in 0..MaxFrames /\ lost'[<<d, c>>] \in Nat
               /\ lost'[<<d, c>>] + after <= frames'[c]
    <2> SUFFICES ASSUME ~Vanish(e)
                 PROVE  /\ frames'[c] \in 0..MaxFrames /\ lost'[<<d, c>>] \in Nat
                        /\ lost'[<<d, c>>] + after <= frames'[c]
      <3>1. ASSUME Vanish(e)
            PROVE  frames' = frames /\ lost' = lost /\ queue' = queue
        BY <3>1 DEF Vanish, resultVars
      <3>2. ASSUME Vanish(e)
            PROVE  after <= before
        BY <1>4, <1>7, <3>1, <3>2
      <3> QED
        BY <1>8, <3>1, <3>2
    <2>1. /\ frames[e] < MaxFrames
          /\ frames' = [frames EXCEPT ![e] = @ + 1]
          /\ lost' = lost
          /\ Publish(e, WebSocketPublishSubject(SubjectHost(e), offer[e].path))
      BY <1>9 DEF SendFrame, resultVars
    <2>2. CASE e = c
      <3>1. frames'[c] = frames[c] + 1 /\ frames[c] < MaxFrames
        BY <2>1, <2>2 DEF TypesInv, OtherTypes
      <3>2. after <= before + 1
        BY <1>5, <2>1
      <3> QED
        BY <1>2, <1>4, <2>1, <3>1, <3>2
    <2>3. CASE e # c
      <3>1. frames'[c] = frames[c]
        BY <2>1, <2>3 DEF TypesInv, OtherTypes
      <3>2. after = before
        BY <1>5, <2>1, <2>3
      <3> QED
        BY <1>4, <1>8, <2>1, <3>1, <3>2
    <2> QED
      BY <2>2, <2>3
  <1>10. ASSUME NEW o \in Instances, NEW e \in Clients, HandleFrame(o, e)
        PROVE  /\ frames'[c] \in 0..MaxFrames /\ lost'[<<d, c>>] \in Nat
               /\ lost'[<<d, c>>] + after <= frames'[c]
    <2>1. PICK j \in Frames : Take(o, j, e)
      BY <1>10 DEF HandleFrame
    <2>2. /\ frames' = frames
          /\ lost' = lost \/ lost' = [lost EXCEPT ![<<o, e>>] = @ + 1]
      BY <1>10 DEF HandleFrame, proxyVars
    <2>3. after <= before /\ (o = d /\ e = c => after + 1 <= before)
      BY <1>6, <2>1, ProcessesAre
    <2>4. CASE o = d /\ e = c
      <3>1. lost'[<<d, c>>] \in {lost[<<d, c>>], lost[<<d, c>>] + 1}
        BY <2>2, <2>4 DEF TypesInv, OtherTypes
      <3> QED
        BY <1>4, <2>2, <2>3, <2>4, <3>1
    <2>5. CASE ~(o = d /\ e = c)
      <3>1. lost'[<<d, c>>] = lost[<<d, c>>]
        BY <2>2, <2>5 DEF TypesInv, OtherTypes
      <3> QED
        BY <1>8, <2>2, <2>3, <3>1
    <2> QED
      BY <2>4, <2>5
  <1>11. ASSUME NEW e \in Clients, Deny(e) \/ Request(e) \/ Upgrade(e) \/ SubscribeFails(e) \/ Close(e)
         PROVE  UNCHANGED <<frames, lost>> /\ after <= before
    <2>1. UNCHANGED <<frames, lost>>
      BY <1>11 DEF Deny, Request, Upgrade, SubscribeFails, Vanish, Close, resultVars
    <2>2. /\ PublishSubject("GET", SubjectHost(e), offer[e].path).scheme # "ws"
          /\ \A event : ControlSubject(event, Host(e)).scheme # "ws"
      BY DEF PublishSubject, ControlSubject, Subject
    <2>3. ASSUME NEW subject, Publish(e, subject), subject.scheme # "ws"
          PROVE  after = before
      BY <1>5, <2>3
    <2>4. /\ Request(e) => Publish(e, PublishSubject("GET", SubjectHost(e), offer[e].path))
          /\ Upgrade(e) => queue' = queue \/ Publish(e, ControlSubject("established", Host(e)))
          /\ Close(e) => queue' = queue \/ Publish(e, ControlSubject("closed", Host(e)))
          /\ Deny(e) \/ SubscribeFails(e) => queue' = queue
      BY DEF Deny, SubscribeFails, Vanish, Request, Upgrade, Announce, Close, Notify
    <2>5. after = before
      BY <1>7, <1>11, <2>2, <2>3, <2>4
    <2> QED
      BY <1>4, <2>1, <2>5
  <1>12. ASSUME \/ \E s \in Services : Subscribe(s)
                \/ \E o \in Instances, e \in Clients : BackendEnds(o, e)
         PROVE  UNCHANGED <<frames, lost>> /\ after <= before
    <2>1. UNCHANGED <<frames, lost, queue>>
      BY <1>12 DEF Subscribe, BackendEnds, resultVars, proxyVars
    <2> QED
      BY <1>4, <1>7, <2>1
  <1>13. ASSUME NEW o \in Instances, NEW e \in Clients,
                HandleRequest(o, e) \/ HandleEstablished(o, e) \/ HandleClosed(o, e)
         PROVE  UNCHANGED <<frames, lost>> /\ after <= before
    <2>1. UNCHANGED <<frames, lost>> /\ \E j \in Places : Take(o, j, e)
      BY <1>13, ProcessesAre DEF HandleRequest, HandleEstablished, BackendEnds, HandleClosed, proxyVars
    <2> QED
      BY <1>6, <2>1, ProcessesAre
  <1>14. ASSUME NEW s \in Services, NEW e \in Clients,
                ServeRequest(s, e) \/ ReadFrame(s, e) \/ Add(s, e) \/ Delete(s, e)
         PROVE  UNCHANGED <<frames, lost>> /\ after <= before
    <2>1. UNCHANGED <<frames, lost>> /\ \E j \in Places : Take(s, j, e)
      BY <1>14, ProcessesAre DEF ServeRequest, ReadFrame, Add, Delete, proxyVars, resultVars
    <2> QED
      BY <1>6, <2>1, ProcessesAre
  <1>15. /\ frames'[c] \in 0..MaxFrames /\ lost'[<<d, c>>] \in Nat
         /\ lost'[<<d, c>>] + after <= frames'[c]
    <2>1. ASSUME UNCHANGED <<frames, lost>>, after <= before
          PROVE  /\ frames'[c] \in 0..MaxFrames /\ lost'[<<d, c>>] \in Nat
                 /\ lost'[<<d, c>>] + after <= frames'[c]
      BY <1>8, <2>1
    <2> QED
      BY <1>9, <1>10, <1>11, <1>12, <1>13, <1>14, <2>1 DEF Next
  <1>16. lost'[<<d, c>>] + Waiting(d, 3, c)' + Waiting(d, 4, c)' = lost'[<<d, c>>] + after
    <2>1. Waiting(d, 3, c)' \in Nat /\ Waiting(d, 4, c)' \in Nat
      BY <1>3
    <2> QED
      BY <1>15, <2>1 DEF after
  <1> QED
    BY <1>15, <1>16

\* A set of places has a least one.
LEMMA LeastPlace ==
    ASSUME NEW S \in SUBSET Places, S # {}
    PROVE  Min(S) \in S
  <1>1. \E x \in S : \A y \in S : x =< y
    <2>1. CASE 1 \in S
      BY <2>1 DEF Places
    <2>2. CASE 1 \notin S /\ 2 \in S
      BY <2>2 DEF Places
    <2>3. CASE 1 \notin S /\ 2 \notin S /\ 3 \in S
      BY <2>3 DEF Places
    <2>4. CASE 1 \notin S /\ 2 \notin S /\ 3 \notin S /\ 4 \in S
      BY <2>4 DEF Places
    <2>5. CASE S \subseteq {5, 6} /\ 5 \in S
      BY <2>5
    <2>6. CASE S = {6}
      BY <2>6
    <2>7. \A x \in S : x \in {1, 2, 3, 4, 5, 6}
      BY DEF Places
    <2>8. CASE 1 \notin S /\ 2 \notin S /\ 3 \notin S /\ 4 \notin S
      <3>1. S \subseteq {5, 6}
        BY <2>7, <2>8
      <3> QED
        BY <2>5, <2>6, <3>1
    <2> QED
      BY <2>1, <2>2, <2>3, <2>4, <2>8
  <1> QED
    BY <1>1 DEF Min

\* The other types hold initially,
LEMMA InitTypes == Init => OtherTypes /\ FramesBounded
  <1> SUFFICES ASSUME Init
               PROVE  OtherTypes /\ FramesBounded
    OBVIOUS
  <1>1. MaxFrames \in Nat
    BY RoutingAssumption
  <1>2. OtherTypes
    <2>1. live \subseteq Processes \X Places
      BY ProcessesAre DEF Init
    <2>2. {2, 4, 5, 6} \subseteq Places
      BY DEF Places
    <2>3. starting \in [Services -> SUBSET Places]
      BY <2>2 DEF Init
    <2> QED
      BY <1>1, <2>1, <2>3 DEF Init, OtherTypes, SubscriptionsType
  <1>3. FramesBounded
    <2> SUFFICES ASSUME NEW d \in Instances, NEW c \in Clients
                 PROVE  /\ frames[c] \in 0..MaxFrames
                        /\ lost[<<d, c>>] \in Nat
                        /\ lost[<<d, c>>] + Waiting(d, 3, c) + Waiting(d, 4, c) <= frames[c]
      BY DEF FramesBounded
    <2>1. queue[<<d, 3>>] = <<>> /\ queue[<<d, 4>>] = <<>>
      BY ProcessesAre DEF Init, Frames
    <2>2. Of(c, <<>>) = {}
      BY DEF Of
    <2>3. Waiting(d, 3, c) = 0 /\ Waiting(d, 4, c) = 0
      BY <2>1, <2>2, FS_EmptySet DEF Waiting
    <2>4. frames[c] = 0 /\ lost[<<d, c>>] = 0
      BY DEF Init
    <2> QED
      BY <1>1, <2>3, <2>4
  <1> QED
    BY <1>2, <1>3

\* and no step leaves them.
LEMMA NextSubscriptions ==
    ASSUME OtherTypes, Next
    PROVE  /\ SubscriptionsType' /\ starting' \in [Services -> SUBSET Places]
           /\ \A d \in Instances : hostname'[d] \in Hostnames[d]
  <1>1. UNCHANGED <<hostname, group>>
    BY Unchanging DEF configVars
  <1>2. CASE UNCHANGED <<live, starting>>
    BY <1>1, <1>2 DEF OtherTypes, SubscriptionsType
  <1>3. ASSUME NEW s \in Services, Subscribe(s)
        PROVE  live' \subseteq Processes \X Places /\ starting' \in [Services -> SUBSET Places]
    <2>1. starting[s] \in SUBSET Places /\ starting[s] # {}
      BY <1>3 DEF OtherTypes, Subscribe
    <2>2. Min(starting[s]) \in Places
      BY <2>1, LeastPlace
    <2>3. live' = live \cup {<<s, Min(starting[s])>>} \/ live' = live
      BY <1>3 DEF Subscribe
    <2>4. starting' = [starting EXCEPT ![s] = @ \ {Min(starting[s])}]
      BY <1>3 DEF Subscribe
    <2>5. live' \subseteq Processes \X Places
      BY <2>2, <2>3, ProcessesAre DEF OtherTypes, SubscriptionsType
    <2>6. starting' \in [Services -> SUBSET Places]
      BY <2>4 DEF OtherTypes
    <2> QED
      BY <2>5, <2>6
  <1>4. UNCHANGED <<live, starting>> \/ \E s \in Services : Subscribe(s)
    BY StepsKeep DEF serviceVars
  <1> QED
    BY <1>1, <1>2, <1>3, <1>4 DEF OtherTypes, SubscriptionsType

\* Nor does a step leave the types of the rest.
LEMMA NextOtherTypes ==
    ASSUME TypesInv, Next
    PROVE  OtherTypes'
  <1>1. OtherTypes
    BY DEF TypesInv
  <1>2. frames' \in [Clients -> 0..MaxFrames]
    <2>1. CASE frames' = frames
      BY <1>1, <2>1 DEF OtherTypes
    <2>2. ASSUME NEW c \in Clients, SendFrame(c)
          PROVE  frames' \in [Clients -> 0..MaxFrames]
      <3>1. frames[c] < MaxFrames => frames[c] + 1 \in 0..MaxFrames
        BY <1>1, RoutingAssumption DEF OtherTypes
      <3>2. frames' = frames \/ (frames[c] < MaxFrames /\ frames' = [frames EXCEPT ![c] = @ + 1])
        BY <2>2 DEF SendFrame, Vanish
      <3> QED
        BY <1>1, <3>1, <3>2 DEF OtherTypes
    <2>3. frames' = frames \/ \E c \in Clients : SendFrame(c)
      <3>1. \A c \in Clients :
               Deny(c) \/ Request(c) \/ Upgrade(c) \/ SubscribeFails(c) \/ Close(c) => frames' = frames
        BY DEF Deny, Request, Upgrade, SubscribeFails, Vanish, Close
      <3> QED
        BY <3>1, StepsKeep DEF proxyVars
    <2> QED
      BY <2>1, <2>2, <2>3
  <1>3. lost' \in [Instances \X Clients -> Nat]
    <2>1. CASE lost' = lost
      BY <1>1, <2>1 DEF OtherTypes
    <2>2. ASSUME NEW d \in Instances, NEW c \in Clients, HandleFrame(d, c)
          PROVE  lost' \in [Instances \X Clients -> Nat]
      <3>1. lost' = lost \/ lost' = [lost EXCEPT ![<<d, c>>] = @ + 1]
        BY <2>2 DEF HandleFrame
      <3>2. lost[<<d, c>>] + 1 \in Nat
        BY <1>1 DEF OtherTypes
      <3> QED
        BY <1>1, <3>1, <3>2 DEF OtherTypes
    <2>3. lost' = lost \/ \E d \in Instances, c \in Clients : HandleFrame(d, c)
      <3>1. \A d \in Instances, c \in Clients :
               HandleRequest(d, c) \/ HandleEstablished(d, c) \/ BackendEnds(d, c) \/ HandleClosed(d, c)
               => lost' = lost
        BY DEF HandleRequest, HandleEstablished, BackendEnds, HandleClosed
      <3> QED
        BY <3>1, StepsKeep DEF resultVars
    <2> QED
      BY <2>1, <2>2, <2>3
  <1>4. \A x \in served' : x.by \in Processes
    BY <1>1, ServedMoves, ProcessesAre DEF OtherTypes
  <1>5. /\ accepted' \subseteq Instances \X Clients
        /\ failed' \subseteq Instances \X Clients
        /\ ended' \subseteq Instances \X Clients
    <2>1. ASSUME NEW d \in Instances, NEW c \in Clients,
                 \/ HandleRequest(d, c) \/ HandleFrame(d, c) \/ HandleEstablished(d, c)
                 \/ BackendEnds(d, c) \/ HandleClosed(d, c)
          PROVE  /\ accepted' \subseteq accepted \cup {<<d, c>>}
                 /\ failed' \subseteq failed \cup {<<d, c>>}
                 /\ ended' \subseteq ended \cup {<<d, c>>}
      BY <2>1 DEF HandleRequest, HandleFrame, HandleEstablished, BackendEnds, HandleClosed
    <2>2. \/ UNCHANGED <<accepted, failed, ended>>
          \/ \E d \in Instances, c \in Clients :
                /\ accepted' \subseteq accepted \cup {<<d, c>>}
                /\ failed' \subseteq failed \cup {<<d, c>>}
                /\ ended' \subseteq ended \cup {<<d, c>>}
      BY <2>1, StepsKeep DEF resultVars
    <2> QED
      BY <1>1, <2>2 DEF OtherTypes
  <1>6. overtaken' \subseteq Services \X Clients
    <2>1. ASSUME NEW s \in Services, NEW c \in Clients,
                 ServeRequest(s, c) \/ ReadFrame(s, c) \/ Add(s, c) \/ Delete(s, c)
          PROVE  overtaken' \subseteq overtaken \cup {<<s, c>>}
      BY <2>1 DEF ServeRequest, ReadFrame, Add, Delete, resultVars
    <2>2. \/ overtaken' = overtaken
          \/ \E s \in Services, c \in Clients : overtaken' \subseteq overtaken \cup {<<s, c>>}
      BY <2>1, StepsKeep DEF resultVars
    <2> QED
      BY <1>1, <2>2 DEF OtherTypes
  <1>7. /\ unheard' \subseteq Processes \X Clients
        /\ unannounced' \subseteq Clients
        /\ unnoticed' \subseteq Clients
    <2>1. ASSUME NEW c \in Clients,
                 \/ Deny(c) \/ Request(c) \/ Upgrade(c)
                 \/ SubscribeFails(c) \/ SendFrame(c) \/ Close(c)
          PROVE  /\ unheard' \subseteq unheard \cup (Processes \X Clients)
                 /\ unannounced' \subseteq unannounced \cup {c}
                 /\ unnoticed' \subseteq unnoticed \cup {c}
      <3>1. CASE Close(c)
        <4>1. unannounced' = unannounced
          BY <3>1 DEF Close
        <4>2. CASE unnoticed' = unnoticed \cup {c} /\ unheard' = unheard
          BY <4>1, <4>2
        <4> DEFINE deaf == {q \in Processes : <<q, Closed>> \notin live}
        <4>3. CASE unnoticed' = unnoticed /\ unheard' = unheard \cup {<<p, c>> : p \in deaf}
          <5>1. deaf \subseteq Processes
            OBVIOUS
          <5> HIDE DEF deaf
          <5>2. {<<p, c>> : p \in deaf} \subseteq Processes \X Clients
            BY <5>1
          <5> QED
            BY <4>1, <4>3, <5>2
        <4> QED
          BY <3>1, <4>2, <4>3 DEF Close, Notify
      <3>2. CASE Upgrade(c)
        BY <3>2 DEF Upgrade, Announce
      <3>3. CASE Deny(c) \/ Request(c) \/ SubscribeFails(c) \/ SendFrame(c)
        BY <3>3 DEF Deny, Request, SubscribeFails, Vanish, SendFrame
      <3> QED
        BY <2>1, <3>1, <3>2, <3>3
    <2>2. \/ UNCHANGED <<unheard, unannounced, unnoticed>>
          \/ \E c \in Clients : /\ unheard' \subseteq unheard \cup (Processes \X Clients)
                               /\ unannounced' \subseteq unannounced \cup {c}
                               /\ unnoticed' \subseteq unnoticed \cup {c}
      BY <2>1, StepsKeep DEF proxyVars
    <2> QED
      BY <1>1, <2>2 DEF OtherTypes
  <1> QED
    BY <1>1, <1>2, <1>3, <1>4, <1>5, <1>6, <1>7, NextSubscriptions DEF OtherTypes

\* The types hold throughout,
LEMMA TypesInvariance == Spec => []TypesInv
  <1>1. Init => TypesInv
    BY InitInv, InitTypes DEF TypesInv
  <1>2. TypesInv /\ [Next]_vars => TypesInv'
    <2> SUFFICES ASSUME TypesInv, [Next]_vars
                 PROVE  TypesInv'
      OBVIOUS
    <2>1. Inv'
      BY NextInv DEF TypesInv
    <2>2. CASE Next
      BY <2>1, <2>2, NextOtherTypes, NextFramesBounded DEF TypesInv
    <2>3. CASE UNCHANGED vars
      BY <2>1, <2>3 DEF TypesInv, OtherTypes, SubscriptionsType, FramesBounded, Waiting, Of, vars,
         configVars, proxyVars, serviceVars, resultVars
    <2> QED
      BY <2>2, <2>3
  <1> QED
    BY <1>1, <1>2, PTL DEF Spec

\* and so do those facts about requests that depend on the queue groups.
LEMMA RequestsInvariance ==
    ASSUME GroupsDiffer
    PROVE  Spec => []RequestsInv
  <1>1. Init => RequestsInv
    <2> SUFFICES ASSUME Init
                 PROVE  RequestsInv
      OBVIOUS
    <2>1. Inv /\ SubscriptionsType
      BY InitInv, InitTypes DEF OtherTypes
    <2>2. \A d \in Instances, c \in Clients : ~Reached(d, c) /\ stage[c] = "new"
      <3>1. \A d \in Instances, i \in Requests : queue[<<d, i>>] = <<>>
        BY ProcessesAre DEF Init
      <3>2. \A d \in Instances, i \in Requests, c \in Clients : ~Pending(d, i, c)
        BY <3>1 DEF Pending
      <3> QED
        BY <3>2 DEF Init, Reached, ServedBy
    <2> QED
      BY <2>1, <2>2 DEF RequestsInv, RequestsSpread
  <1>2. RequestsInv /\ TypesInv /\ [Next]_vars => RequestsInv'
    <2> SUFFICES ASSUME RequestsInv, TypesInv, [Next]_vars
                 PROVE  RequestsInv'
      OBVIOUS
    <2>1. Inv'
      BY NextInv DEF RequestsInv
    <2>2. CASE Next
      BY <2>1, <2>2, NextRequestsSpread, NextSubscriptions DEF RequestsInv, TypesInv
    <2>3. CASE UNCHANGED vars
      <3>1. UNCHANGED <<offer, hostname, group, live, queue, served, stage>>
        BY <2>3 DEF vars, configVars, proxyVars, serviceVars, resultVars
      <3>2. SubscriptionsType'
        BY <3>1 DEF RequestsInv, SubscriptionsType
      <3>3. \A d \in Instances, c \in Clients : Reached(d, c)' <=> Reached(d, c)
        BY <3>1 DEF Reached, Pending, ServedBy
      <3>4. /\ \A d \in Instances : Mates(d)' = Mates(d)
            /\ \A c \in Clients : SubjectHost(c)' = SubjectHost(c)
        BY <3>1 DEF Mates, SubjectHost, Host, Forwarded
      <3>5. RequestsSpread'
        <4>1. \A d \in Instances, c \in Clients : Reached(d, c)' => stage'[c] = "sent"
          BY <3>1, <3>3 DEF RequestsInv, RequestsSpread
        <4>2. \A d, e \in Instances, c \in Clients :
                 e \in Mates(d)' /\ Reached(d, c)' /\ Reached(e, c)' => d = e
          BY <3>3, <3>4 DEF RequestsInv, RequestsSpread
        <4>3. \A d \in Instances, c \in Clients :
                 stage'[c] = "sent"
                 /\ ReverseHostname(hostname'[d]) = ReverseHostname(SubjectHost(c)')
                 => \E e \in Mates(d)' : Reached(e, c)'
          <5> SUFFICES ASSUME NEW d \in Instances, NEW c \in Clients, stage'[c] = "sent",
                              ReverseHostname(hostname'[d]) = ReverseHostname(SubjectHost(c)')
                       PROVE  \E e \in Mates(d)' : Reached(e, c)'
            OBVIOUS
          <5>1. PICK e \in Mates(d) : Reached(e, c)
            BY <3>1, <3>4 DEF RequestsInv, RequestsSpread
          <5>2. e \in Instances
            BY DEF Mates
          <5> QED
            BY <3>3, <3>4, <5>1, <5>2
        <4> QED
          BY <4>1, <4>2, <4>3 DEF RequestsSpread
      <3> QED
        BY <2>1, <3>2, <3>5 DEF RequestsInv
    <2> QED
      BY <2>2, <2>3
  <1> QED
    BY <1>1, <1>2, TypesInvariance, PTL DEF Spec

\* Type correctness of h8sd's handlers, the subscriptions and their queues, and what
\* h8srd and services keep; a client loses in an h8srd at most the frames it sent, as
\* the two patterns for frames do not overlap (reverse.go:119-151).
THEOREM TypeCorrect == Spec => []TypeOK
  <1>1. TypesInv => TypeOK
    <2> SUFFICES ASSUME TypesInv
                 PROVE  TypeOK
      OBVIOUS
    <2>1. Inv /\ OtherTypes
      BY DEF TypesInv
    <2>2. lost \in [Instances \X Clients -> 0..MaxFrames]
      <3>1. ASSUME NEW d \in Instances, NEW c \in Clients
            PROVE  lost[<<d, c>>] \in 0..MaxFrames
        <4>1. Waiting(d, 3, c) \in Nat /\ Waiting(d, 4, c) \in Nat
          BY <2>1, WaitingType, ProcessesAre DEF Inv, Frames
        <4>2. /\ frames[c] \in 0..MaxFrames /\ lost[<<d, c>>] \in Nat
              /\ lost[<<d, c>>] + Waiting(d, 3, c) + Waiting(d, 4, c) <= frames[c]
          BY DEF TypesInv, FramesBounded
        <4>3. MaxFrames \in Nat
          BY RoutingAssumption
        <4> QED
          BY <4>1, <4>2, <4>3
      <3> QED
        BY <2>1, <3>1 DEF OtherTypes
    <2> QED
      BY <2>1, <2>2 DEF TypeOK, Inv, Configured, PathsFound, OtherTypes, SubscriptionsType
  <1> QED
    BY <1>1, TypesInvariance, PTL

\* Whatever hostnames and queue groups h8srd processes are given, a request is served by
\* at most one of those in a group, and once nothing is pending by one of the group of
\* every h8srd whose hostname it is for; provided that no h8srd is put into the generated
\* queue group of a service (reverse.go:119-144, service.go:58, 323).
THEOREM OneServesTheGroup ==
    ASSUME GroupsDiffer
    PROVE  Spec => []ServedOncePerGroup
  <1>1. ASSUME RequestsInv
        PROVE  ServedOncePerGroup
    <2> SUFFICES ASSUME NEW c \in Clients, NEW d \in Instances
                 PROVE  LET by == {x.by : x \in {y \in served : y.client = c}} \cap Mates(d)
                        IN /\ Cardinality(by) <= 1
                           /\ /\ Quiet
                              /\ stage[c] = "sent"
                              /\ ReverseHostname(hostname[d]) = ReverseHostname(SubjectHost(c))
                              => by # {}
      BY DEF ServedOncePerGroup, Mates
    <2> DEFINE by == {x.by : x \in {y \in served : y.client = c}} \cap Mates(d)
    <2>1. \A e \in Mates(d) : e \in by <=> ServedBy(e, c)
      BY DEF ServedBy
    <2>2. by \subseteq Mates(d) /\ Mates(d) \subseteq Instances
      BY DEF Mates
    <2> HIDE DEF by
    <2>3. \A e, o \in by : e = o
      <3> SUFFICES ASSUME NEW e \in by, NEW o \in by
                   PROVE  e = o
        OBVIOUS
      <3>1. Reached(e, c) /\ Reached(o, c) /\ e \in Instances /\ o \in Instances
        BY <2>1, <2>2 DEF Reached
      <3>2. o \in Mates(e)
        BY <2>2, <3>1 DEF Mates
      <3> QED
        BY <1>1, <3>1, <3>2 DEF RequestsInv, RequestsSpread
    <2>4. Cardinality(by) <= 1
      <3>1. CASE by = {}
        BY <3>1, FS_EmptySet
      <3>2. CASE by # {}
        <4>1. PICK e \in by : by = {e}
          BY <2>3, <3>2
        <4>2. Cardinality({e}) = 1
          BY FS_Singleton
        <4> QED
          BY <4>1, <4>2
      <3> QED
        BY <3>1, <3>2
    <2>5. ASSUME Quiet, stage[c] = "sent",
                 ReverseHostname(hostname[d]) = ReverseHostname(SubjectHost(c))
          PROVE  by # {}
      <3>1. PICK e \in Mates(d) : Reached(e, c)
        BY <1>1, <2>5 DEF RequestsInv, RequestsSpread
      <3>2. \A i \in Requests : queue[<<e, i>>] = <<>>
        BY <1>1, <2>2, <2>5, ProcessesAre DEF Quiet, RequestsInv, Inv, Configured
      <3>3. \A i \in Requests : ~Pending(e, i, c)
        BY <3>2 DEF Pending
      <3>4. ServedBy(e, c)
        BY <3>1, <3>3 DEF Reached
      <3> QED
        BY <2>1, <3>4
    <2> QED
      BY <2>4, <2>5 DEF by
  <1> QED
    BY <1>1, RequestsInvariance, PTL
===============================================================================
