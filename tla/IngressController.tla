---------------------------- MODULE IngressController ----------------------------
(***************************************************************************)
(* k8srd: the ingress controller and the subscriptions it keeps in its     *)
(* reverse proxy.  The informer applies a change of an Ingress to its      *)
(* cache and notifies the controller, which handles one notification after *)
(* another: it lists the cache, builds the route table, and under its lock *)
(* puts the table in force, unsubscribes the hosts that are gone and       *)
(* subscribes to the new ones, six subjects each, one by one.  There is no *)
(* resync: nothing but a change of some Ingress starts a reconciliation.   *)
(* An Ingress whose backend is no Service panics the process.              *)
(*                                                                         *)
(* Meanwhile proxies publish requests.  A subscription's callback asks the *)
(* controller for a backend, for which it waits while the lock is held; if *)
(* there is none it falls back to the host of the request itself.          *)
(***************************************************************************)
EXTENDS SubjectMapper

CONSTANTS
    Ingresses,     \* names of Ingress resources
    Contents,      \* for each of them the rules it may have, in order; <<>>: it does not exist
    NoService,     \* a backend that is no Service but some other resource
    Beginnings,    \* <<t, u>>: the token u begins with the token t and goes on
    Traffic,       \* the requests proxies may publish, each at most once
    MaxChanges,    \* bound: changes of Ingresses
    MaxFailures    \* bound: subscriptions NATS refuses

\* A rule maps a path of its host to a backend, or names the host only; one with more
\* paths stands here as so many rules, and one without a host, which reconcile skips,
\* not at all.
AllRules == UNION {Range(content) : content \in UNION {Contents[i] : i \in Ingresses}}
Hosts == {rule.host : rule \in AllRules}
Nothing == [i \in Ingresses |-> <<>>]

\* An empty path, of a rule or in a subject, is the root.
Absolute(path) == IF path = <<>> THEN <<Empty>> ELSE path

RouteOf(rule) == {[host |-> rule.host, prefix |-> Absolute(p.prefix), backend |-> p.backend] :
                     p \in rule.paths}
AllRoutes == UNION {RouteOf(rule) : rule \in AllRules}

\* A subscription is named by the host it was made for and its place among the
\* patterns of SubscribeForHost.
Places == 1..6
Subscriptions == Hosts \X Places

ASSUME IngressAssumption ==
    /\ IsFiniteSet(Ingresses)
    /\ \A i \in Ingresses : <<>> \in Contents[i] /\ \A content \in Contents[i] : content \in Seq(AllRules)
    /\ \A rule \in AllRules : \A p, q \in rule.paths : p = q
    /\ \A route \in AllRoutes : route.prefix \in Path
    /\ Traffic \subseteq [host : Hostname, path : Path, ws : BOOLEAN]
    /\ MaxChanges \in Nat
    /\ MaxFailures \in Nat

\* Tokens have finitely many beginnings, and of two beginnings of a token one begins the
\* other; the empty one, which begins them all, is left to Begins.
\* That it is a token needs saying only because TLAPS does not know that texts are strings.
BeginningsOf(token) == {b[1] : b \in {x \in Beginnings : x[2] = token}}
ASSUME BeginningsAssumption ==
    /\ Empty \in Token
    /\ Beginnings \subseteq (Token \ {Empty}) \X (Token \ {Empty})
    /\ \A b \in Beginnings : b[1] # b[2] /\ IsFiniteSet(BeginningsOf(b[2]))
    /\ \A b, d \in Beginnings : b[2] = d[1] => <<b[1], d[2]>> \in Beginnings
    /\ \A b, d \in Beginnings : b[2] = d[2] =>
          b[1] = d[1] \/ <<b[1], d[1]>> \in Beginnings \/ <<d[1], b[1]>> \in Beginnings

VARIABLES
    versions,       \* contents of the informer's cache so far, the present one last
    notifications,  \* changes the controller has not been called for yet
    \* Controller
    pc,             \* where reconcile is; "dead" once the process has panicked
    listed,         \* the version it has listed
    serving,        \* the version the route table was built from
    table,          \* c.routes
    known,          \* c.knownHosts
    failed,         \* hosts whose subscription failed in the last reconciliation
    opening,        \* the host SubscribeForHost is at work for, if any
    opened,         \* how many patterns it has subscribed to
    \* ReverseProxy
    activeSubs,     \* subscriptions recorded for each host, how many in each place
    live,           \* subscriptions there are, how many in each place
    queue,          \* pending messages of each
    inHand,         \* the message its callback is working on, if any
    \* bounds and history
    failures,       \* subscriptions refused so far
    published,      \* for each request, the version served when it was published
    served          \* what became of each copy of a request

controllerVars == <<listed, serving, table>>
openVars == <<opening, opened, failed, failures>>
subscriptionVars == <<activeSubs, live>>
messageVars == <<inHand, published, served>>
vars == <<versions, notifications, pc, controllerVars, known, openVars,
          subscriptionVars, queue, messageVars>>

-------------------------------------------------------------------------------
(* The route table.                                                        *)

HostsOf(objects) == {rule.host : rule \in UNION {Range(objects[i]) : i \in Ingresses}}

\* Of two routes for one host and path the later overwrites the earlier.  Definitions
\* whose name starts with Fault are not part of the model: each is a plausible bug in the
\* definition that follows it, and a property must catch it.
FaultOverwrite(groups) ==
    UNION {{route \in groups[n] :
               \A m \in DOMAIN groups : \A other \in groups[m] :
                  m > n => other.host # route.host} : n \in DOMAIN groups}
Overwrite(groups) ==
    UNION {{route \in groups[n] :
               \A m \in DOMAIN groups : m > n => \A other \in groups[m] :
                  other.host # route.host \/ other.prefix # route.prefix} : n \in DOMAIN groups}

\* The routes in the rules of an Ingress, and those of all, listed in some order.
RoutesOf(content) == Overwrite([n \in DOMAIN content |-> RouteOf(content[n])])
Table(objects, order) == Overwrite([n \in DOMAIN order |-> RoutesOf(objects[order[n]])])

\* The lister returns the Ingresses in any order.  There is no table if some backend is
\* no Service: reconcile reads the name of the Service without a check.
Unusable(objects) ==
    \E rule \in UNION {Range(objects[i]) : i \in Ingresses} :
        \E p \in rule.paths : p.backend = NoService
Tables(objects) ==
    {Table(objects, order) : order \in IF Unusable(objects) THEN {} ELSE SetToSeqs(Ingresses)}

\* strings.HasPrefix: the last segment of the prefix may end within one of the path, and
\* a prefix that ends in a slash needs a slash there.
Begins(token, other) == token = other \/ token = Empty \/ <<token, other>> \in Beginnings
HasPrefix(path, prefix) ==
    /\ Len(prefix) <= Len(path)
    /\ \A n \in DOMAIN prefix :
          path[n] = prefix[n] \/ (n = Len(prefix) /\ Begins(prefix[n], path[n]))

\* Resolve and findMatch: the backend of the longest prefix, if there is one.
Matching(routes, host, path) ==
    {route \in routes : route.host = host /\ HasPrefix(path, route.prefix)}
Resolve(routes, host, path) ==
    LET matching == Matching(routes, host, path)
    IN {route.backend : route \in
           {r \in matching : \A o \in matching : HasPrefix(r.prefix, o.prefix)}}

-------------------------------------------------------------------------------
(* Requests.  A WebSocket is represented by its announcement.              *)

SubjectOf(t) == IF t.ws THEN ControlSubject("established", t.host)
                ELSE PublishSubject("GET", t.host, t.path)

\* The path k8srd resolves: taken from the subject, for a WebSocket from the data
\* subject in the announcement's header.
PathOf(t) ==
    Absolute(IF t.ws THEN WebSocketPathInSubject(WebSocketPublishSubject(t.host, t.path))
             ELSE PathInSubject(SubjectOf(t), t.host))

Receives(sub, t) == live[sub] > 0 /\ Matches(HostPatterns(sub[1])[sub[2]], SubjectOf(t))

\* A copy of a request the reverse proxy has dealt with: the subscription it came
\* through, the backend it went to ({}: the request's own host), the backend the
\* routes in force gave its path, and the versions served from its publication until
\* its callback.
Copy == [request : Traffic, sub : Subscriptions,
         to : SUBSET {r.backend : r \in AllRoutes}, want : SUBSET {r.backend : r \in AllRoutes},
         from : 1..(MaxChanges + 1), until : 1..(MaxChanges + 1)]

TypeOK ==
    /\ \A v \in DOMAIN versions : \A i \in Ingresses : versions[v][i] \in Contents[i]
    /\ Len(versions) \in 1..(MaxChanges + 1)
    /\ notifications \in 0..MaxChanges
    /\ pc \in {"idle", "listed", "locked", "dead"}
    /\ listed \in DOMAIN versions
    /\ serving \in 1..listed
    /\ table \subseteq AllRoutes
    /\ \A r, o \in table : r.host = o.host /\ r.prefix = o.prefix => r = o
    /\ known \subseteq Hosts
    /\ failed \subseteq Hosts
    /\ opening \subseteq Hosts
    /\ opened \in 0..5
    /\ activeSubs \in [Subscriptions -> 0..1]
    /\ live \in [Subscriptions -> 0..1]
    /\ queue \in [Subscriptions -> Seq(Traffic)]
    /\ inHand \in [Subscriptions -> SUBSET Traffic]
    /\ failures \in 0..MaxFailures
    /\ published \in [Traffic -> 0..serving]
    /\ served \subseteq Copy

Init ==
    /\ versions = <<Nothing>>
    /\ notifications = 0
    /\ pc = "idle"
    /\ listed = 1
    /\ serving = 1
    /\ table = {}
    /\ known = {}
    /\ failed = {}
    /\ opening = {}
    /\ opened = 0
    /\ activeSubs = [sub \in Subscriptions |-> 0]
    /\ live = [sub \in Subscriptions |-> 0]
    /\ queue = [sub \in Subscriptions |-> <<>>]
    /\ inHand = [sub \in Subscriptions |-> {}]
    /\ failures = 0
    /\ published = [t \in Traffic |-> 0]
    /\ served = {}

-------------------------------------------------------------------------------
(* The informer.                                                           *)

\* A change of an Ingress reaches the cache; the handler is yet to be called.
Change(i) ==
    /\ Len(versions) <= MaxChanges
    /\ \E content \in Contents[i] \ {Last(versions)[i]} :
          versions' = Append(versions, [Last(versions) EXCEPT ![i] = content])
    /\ notifications' = notifications + 1
    /\ UNCHANGED <<pc, controllerVars, known, openVars, subscriptionVars, queue,
                   messageVars>>

-------------------------------------------------------------------------------
(* reconcile.                                                              *)

\* onAdd, onUpdate, onDelete: list the cache as it is by now.
List ==
    /\ pc = "idle"
    /\ notifications > 0
    /\ notifications' = notifications - 1
    /\ listed' = Len(versions)
    /\ pc' = "listed"
    /\ UNCHANGED <<versions, serving, table, known, openVars, subscriptionVars, queue,
                   messageVars>>

FaultNewTables == {table \cup routes : routes \in Tables(versions[listed])}
NewTables == Tables(versions[listed])

\* Take the lock and put the new table in force.
Update ==
    /\ pc = "listed"
    /\ pc' = "locked"
    /\ serving' = listed
    /\ table' \in NewTables
    /\ failed' = {}
    /\ UNCHANGED <<versions, notifications, listed, known, opening, opened, failures,
                   subscriptionVars, queue, messageVars>>

\* A backend without a Service is a nil pointer: the process ends, and NATS drops its
\* subscriptions.
Panic ==
    /\ pc = "listed"
    /\ Unusable(versions[listed])
    /\ pc' = "dead"
    /\ known' = {}
    /\ failed' = {}
    /\ activeSubs' = [sub \in Subscriptions |-> 0]
    /\ live' = [sub \in Subscriptions |-> 0]
    /\ queue' = [sub \in Subscriptions |-> <<>>]
    /\ inHand' = [sub \in Subscriptions |-> {}]
    /\ UNCHANGED <<versions, notifications, controllerVars, opening, opened, failures,
                   published, served>>

FaultDesired == known \cup HostsOf(versions[listed])
Desired == HostsOf(versions[listed])

\* Subscription.Unsubscribe for the given numbers of subscriptions: what is pending
\* in one goes with it.
Unsubscribe(gone) ==
    /\ live' = [sub \in Subscriptions |-> live[sub] - gone[sub]]
    /\ queue' = [sub \in Subscriptions |-> IF live[sub] = gone[sub] THEN <<>> ELSE queue[sub]]

\* The hosts reconcile has yet to unsubscribe from; it does so first.
ToClose == known \ Desired

\* UnsubscribeForHost
RemoveHost(host) ==
    /\ pc = "locked"
    /\ host \in ToClose
    /\ Unsubscribe([sub \in Subscriptions |-> IF sub[1] = host THEN activeSubs[sub] ELSE 0])
    /\ activeSubs' = [sub \in Subscriptions |-> IF sub[1] = host THEN 0 ELSE activeSubs[sub]]
    /\ known' = known \ {host}
    /\ UNCHANGED <<versions, notifications, pc, controllerVars, openVars, messageVars>>

\* The hosts reconcile has yet to subscribe to, or the one it is at; one that failed
\* does not keep the others from being tried.
FaultKnownAgain ==
    {h \in Desired \ failed : ToClose = {} /\ opening \subseteq {h}}
FaultGiveUp ==
    {h \in Desired \ known : ToClose = {} /\ failed = {} /\ opening \subseteq {h}}
ToOpen ==
    {h \in Desired \ (known \cup failed) : ToClose = {} /\ opening \subseteq {h}}

\* SubscribeForHost makes its next subscription.  After the last one it records
\* them all, and the host is known.
SubscribeNext(host) ==
    /\ pc = "locked"
    /\ host \in ToOpen
    /\ live' = [live EXCEPT ![<<host, opened + 1>>] = @ + 1]
    /\ \/ /\ opened < 5
          /\ opening' = {host}
          /\ opened' = opened + 1
          /\ UNCHANGED <<activeSubs, known>>
       \/ /\ opened = 5
          /\ opening' = {}
          /\ opened' = 0
          /\ activeSubs' = [sub \in Subscriptions |->
                               IF sub[1] = host THEN activeSubs[sub] + 1 ELSE activeSubs[sub]]
          /\ known' = known \cup {host}
    /\ UNCHANGED <<versions, notifications, pc, controllerVars, failed, failures, queue,
                   messageVars>>

\* The subscriptions SubscribeForHost undoes when the next one is refused.
FaultUndone(host) == [sub \in Subscriptions |-> IF sub = <<host, opened>> THEN 1 ELSE 0]
Undone(host) ==
    [sub \in Subscriptions |-> IF sub[1] = host /\ sub[2] <= opened THEN 1 ELSE 0]

\* NATS refuses the next subscription: undo the ones made, and leave the host unknown.
SubscribeFails(host) ==
    /\ pc = "locked"
    /\ host \in ToOpen
    /\ failures < MaxFailures
    /\ failures' = failures + 1
    /\ Unsubscribe(Undone(host))
    /\ opening' = {}
    /\ opened' = 0
    /\ failed' = failed \cup {host}
    /\ UNCHANGED <<versions, notifications, pc, controllerVars, known, activeSubs,
                   messageVars>>

\* Nothing is left to do: release the lock.
Unlock ==
    /\ pc = "locked"
    /\ ToClose = {}
    /\ ToOpen = {}
    /\ pc' = "idle"
    /\ UNCHANGED <<versions, notifications, controllerVars, known, openVars,
                   subscriptionVars, queue, messageVars>>

-------------------------------------------------------------------------------
(* Requests on their way through k8srd.                                    *)

\* A proxy publishes a request; every subscription that matches gets a copy.
Publish(t) ==
    /\ published[t] = 0
    /\ published' = [published EXCEPT ![t] = serving]
    /\ queue' = [sub \in Subscriptions |->
                    IF Receives(sub, t) THEN Append(queue[sub], t) ELSE queue[sub]]
    /\ UNCHANGED <<versions, notifications, pc, controllerVars, known, openVars,
                   subscriptionVars, inHand, served>>

\* NATS calls the callback of a subscription with its next message.
Callback(sub) ==
    /\ queue[sub] # <<>>
    /\ inHand[sub] = {}
    /\ inHand' = [inHand EXCEPT ![sub] = {Head(queue[sub])}]
    /\ queue' = [queue EXCEPT ![sub] = Tail(@)]
    /\ UNCHANGED <<versions, notifications, pc, controllerVars, known, openVars,
                   subscriptionVars, published, served>>

\* It resolves the backend, which waits for the lock, and forwards the request
\* there, or without a backend to the request's own host.
Forward(sub) ==
    /\ pc # "locked"
    /\ \E t \in inHand[sub] :
          served' = served \cup
              {[request |-> t, sub |-> sub,
                to |-> Resolve(table, t.host, PathOf(t)),
                want |-> Resolve(table, t.host, Absolute(t.path)),
                from |-> published[t], until |-> serving]}
    /\ inHand' = [inHand EXCEPT ![sub] = {}]
    /\ UNCHANGED <<versions, notifications, pc, controllerVars, known, openVars,
                   subscriptionVars, queue, published>>

-------------------------------------------------------------------------------

Reconcile ==
    \/ List \/ Update \/ Panic \/ Unlock
    \/ \E host \in Hosts : RemoveHost(host) \/ SubscribeNext(host) \/ SubscribeFails(host)

Next ==
    \/ \E i \in Ingresses : Change(i)
    \/ Reconcile
    \/ \E t \in Traffic : Publish(t)
    \/ \E sub \in Subscriptions : Callback(sub) \/ Forward(sub)

\* The goroutine that runs the handlers, and the callbacks, go on; nothing is
\* assumed of the cluster or of clients.
Fairness ==
    /\ WF_vars(Reconcile)
    /\ \A sub \in Subscriptions : WF_vars(Callback(sub)) /\ WF_vars(Forward(sub))

Spec == Init /\ [][Next]_vars /\ Fairness
-------------------------------------------------------------------------------
(* Properties.                                                             *)

\* Outside of a reconciliation the subscriptions there are are those of the known
\* hosts, each once, whatever was refused or removed before: SubscribeForHost leaves
\* nothing behind when it fails, and UnsubscribeForHost takes everything back
\* (reverse.go:127-193, controller.go:203-228).
SubscriptionsFollowKnown ==
    pc # "locked" =>
        \A sub \in Subscriptions :
            /\ live[sub] = (IF sub[1] \in known THEN 1 ELSE 0)
            /\ activeSubs[sub] = live[sub]

\* When no change is waiting, the hosts served are those of the Ingresses, except
\* those NATS refused in the reconciliation after the last change; nothing will
\* retry these (controller.go:105, 213-228).
SettledServesDesired ==
    pc = "idle" /\ notifications = 0 =>
        known = HostsOf(Last(versions)) \ failed

\* A path that processPath leaves as it is: the root, or plain segments without an empty
\* one, which a slash at the end or two in a row would leave.
Clean(path) ==
    \/ Absolute(path) = <<Empty>>
    \/ \A n \in DOMAIN path : path[n].form = "plain" /\ path[n] # Empty

\* A request with a clean path is forwarded to the backend its Ingress rules give the
\* longest prefix of that path, although k8srd sees the path only through the subject.
\* For a WebSocket this holds if its host has a single label, because
\* handleControlEstablished takes the other labels for part of the path
\* (controller.go:55-96, reverse.go:240-248, 533-541).
RoutedByPrefix ==
    \A s \in served :
        /\ s.request.ws => Len(s.request.host.labels) = 1
        /\ Clean(s.request.path)
        => s.to = s.want

\* A request falls back to its own host only if, in some version of the Ingresses
\* served between its publication and its callback, no rule of any Ingress covers the
\* path: one Ingress does not take the routes of another, and no half-built table is
\* ever consulted (controller.go:157-199, reverse.go:286-293).
FallbackHasCause ==
    \A s \in served : s.to = {} =>
        \E v \in s.from..s.until : \A i \in Ingresses :
            Matching(RoutesOf(versions[v][i]), s.request.host, PathOf(s.request)) = {}

\* "SubscribeForHost subscribes to subjects specific to a given hostname"
\* (reverse.go:109): what arrives through the subscriptions of a host is a request
\* for that host.
SpecificToHost ==
    \A s \in served : s.request.host = s.sub[1]

\* The route table follows the Ingresses as RouteFollower promises
\* (controller.go:130-203).
Follower == INSTANCE RouteFollower WITH Routes <- Tables, stopped <- pc = "dead"

FollowsIngresses == Follower!Spec

\* A host that stays in the Ingresses is subscribed to in the end, unless NATS
\* refuses it or some Ingress ends the process (controller.go:157-228).
HostIsServed ==
    \A host \in Hosts :
        host \in HostsOf(Last(versions)) ~>
            host \in known \cup failed \/ host \notin HostsOf(Last(versions)) \/ pc = "dead"
==================================================================================
