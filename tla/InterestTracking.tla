--------------------------- MODULE InterestTracking ---------------------------
(***************************************************************************)
(* Interest tracking: every h8sservice publishes its interests (host, path *)
(* and method of an endpoint) every 5 seconds and unregisters them when it *)
(* shuts down; the InterestTracker of an h8sproxy keeps what it heard of   *)
(* within the last minute and admits only requests for one of those.       *)
(*                                                                         *)
(* Registrations and unregistrations are on different subjects, hence in   *)
(* different subscriptions of the tracker, each with its own callback      *)
(* goroutine: NATS keeps the order within each, not between them.  In a    *)
(* service the publisher loop and Shutdown are different goroutines.       *)
(* Time is counted in periods of 5 seconds, the pause of the publisher     *)
(* loop and of the eviction loop.                                          *)
(***************************************************************************)
EXTENDS Naturals, Sequences

CONSTANTS
    Services,     \* h8sservice instances
    Routes,       \* host and path of the endpoints
    Offers,       \* what each service registers: a set of interests
    TTL,          \* periods an interest lives unheard of (12 in the code)
    MaxLost,      \* bound: messages NATS loses
    MaxRestarts,  \* bound: restarts of the proxy
    MaxBacklog    \* bound: registrations pending when a period ends

Methods == {"GET", "POST", "ws"}
Interest == [route : Routes, method : Methods]

ASSUME TrackingAssumption ==
    /\ Offers \in [Services -> SUBSET Interest]
    /\ TTL \in Nat \ {0}
    /\ MaxLost \in Nat
    /\ MaxRestarts \in Nat
    /\ MaxBacklog \in Nat

VARIABLES
    phase,         \* of a service: what Run and Shutdown have done
    publisher,     \* where its publisher loop is
    toRegister,    \* interests the publisher has not yet published in this round
    toUnregister,  \* interests Shutdown has not yet unregistered
    regQ,          \* pending messages of the tracker's register subscription
    unregQ,        \* pending messages of its unregister subscription
    interestMap,   \* InterestMap
    interestSeen,  \* InterestSeen, as the age of an interest in periods
    heard,         \* history: services and interests the tracker has heard of since it started
    losses, restarts,
    prompt         \* do rounds and deliveries take less than a period, in this behaviour?

serviceVars == <<phase, publisher, toRegister, toUnregister>>
trackerVars == <<interestMap, interestSeen, heard>>
boundVars == <<losses, restarts, prompt>>
vars == <<serviceVars, regQ, unregQ, trackerVars, boundVars>>

Message == [service : Services, interest : Interest]

TypeOK ==
    /\ phase \in [Services -> {"new", "running", "unregistering", "cancelled", "down"}]
    /\ publisher \in [Services -> {"off", "check", "publishing", "sleeping", "returned"}]
    /\ toRegister \in [Services -> SUBSET Interest]
    /\ toUnregister \in [Services -> SUBSET Interest]
    /\ regQ \in Seq(Message)
    /\ unregQ \in Seq(Message)
    /\ interestMap \subseteq Interest
    /\ interestSeen \in [interestMap -> 0..(TTL + 1)]
    /\ heard \subseteq Services \X Interest
    /\ losses \in 0..MaxLost
    /\ restarts \in 0..MaxRestarts
    /\ prompt \in BOOLEAN

Init ==
    /\ phase = [s \in Services |-> "new"]
    /\ publisher = [s \in Services |-> "off"]
    /\ toRegister = [s \in Services |-> {}]
    /\ toUnregister = [s \in Services |-> {}]
    /\ regQ = <<>>
    /\ unregQ = <<>>
    /\ interestMap = {}
    /\ interestSeen = <<>>
    /\ heard = {}
    /\ losses = 0
    /\ restarts = 0
    /\ prompt \in BOOLEAN

-------------------------------------------------------------------------------
(* A service.                                                              *)

\* Run starts the publisher loop.
Run(s) ==
    /\ phase[s] = "new"
    /\ phase' = [phase EXCEPT ![s] = "running"]
    /\ publisher' = [publisher EXCEPT ![s] = "check"]
    /\ UNCHANGED <<toRegister, toUnregister, regQ, unregQ, trackerVars, boundVars>>

Cancelled(s) == phase[s] \in {"cancelled", "down"}

\* Definitions whose name starts with Fault are not part of the model: each is a
\* plausible bug in the definition that follows it, and a property must catch it.
FaultReturnOnError(s) == IF losses > 0 THEN "returned" ELSE "sleeping"

\* A publisher sleeps after a round, whether or not its publications failed.
AfterRound(s) == "sleeping"

\* The top of the loop: return if the context is done, else begin a round.
PublisherChecks(s) ==
    /\ publisher[s] = "check"
    /\ IF Cancelled(s)
       THEN /\ publisher' = [publisher EXCEPT ![s] = "returned"]
            /\ UNCHANGED toRegister
       ELSE /\ publisher' = [publisher EXCEPT ![s] = "publishing"]
            /\ toRegister' = [toRegister EXCEPT ![s] = Offers[s]]
    /\ UNCHANGED <<phase, toUnregister, regQ, unregQ, trackerVars, boundVars>>

\* One publication of a round, or its failure; maps are iterated in any order.
PublishRegister(s) ==
    /\ publisher[s] = "publishing"
    /\ \E i \in toRegister[s] :
          /\ toRegister' = [toRegister EXCEPT ![s] = @ \ {i}]
          /\ \/ /\ regQ' = Append(regQ, [service |-> s, interest |-> i])
                /\ UNCHANGED losses
             \/ /\ losses < MaxLost
                /\ losses' = losses + 1
                /\ UNCHANGED regQ
    /\ UNCHANGED <<phase, publisher, toUnregister, unregQ, trackerVars, restarts, prompt>>

\* The round is over: sleep for a period.
PublisherSleeps(s) ==
    /\ publisher[s] = "publishing"
    /\ toRegister[s] = {}
    /\ publisher' = [publisher EXCEPT ![s] = AfterRound(s)]
    /\ UNCHANGED <<phase, toRegister, toUnregister, regQ, unregQ, trackerVars, boundVars>>

\* Shutdown is called: it unregisters everything first.
BeginShutdown(s) ==
    /\ phase[s] = "running"
    /\ phase' = [phase EXCEPT ![s] = "unregistering"]
    /\ toUnregister' = [toUnregister EXCEPT ![s] = Offers[s]]
    /\ UNCHANGED <<publisher, toRegister, regQ, unregQ, trackerVars, boundVars>>

PublishUnregister(s) ==
    /\ phase[s] = "unregistering"
    /\ \E i \in toUnregister[s] :
          /\ toUnregister' = [toUnregister EXCEPT ![s] = @ \ {i}]
          /\ \/ /\ unregQ' = Append(unregQ, [service |-> s, interest |-> i])
                /\ UNCHANGED losses
             \/ /\ losses < MaxLost
                /\ losses' = losses + 1
                /\ UNCHANGED unregQ
    /\ UNCHANGED <<phase, publisher, toRegister, regQ, trackerVars, restarts, prompt>>

\* c.cancel()
Cancel(s) ==
    /\ phase[s] = "unregistering"
    /\ toUnregister[s] = {}
    /\ phase' = [phase EXCEPT ![s] = "cancelled"]
    /\ UNCHANGED <<publisher, toRegister, toUnregister, regQ, unregQ, trackerVars, boundVars>>

\* c.wg.Wait(): Shutdown returns after the publisher loop has.
FaultNoWait(s) == TRUE
WaitOver(s) == publisher[s] = "returned"

FinishShutdown(s) ==
    /\ phase[s] = "cancelled"
    /\ WaitOver(s)
    /\ phase' = [phase EXCEPT ![s] = "down"]
    /\ UNCHANGED <<publisher, toRegister, toUnregister, regQ, unregQ, trackerVars, boundVars>>

-------------------------------------------------------------------------------
(* The tracker.  All its operations hold the lock of Interests.            *)

\* What Add leaves in InterestSeen: a registration also refreshes.
FaultSeenOnce(i) ==
    IF i \in interestMap THEN interestSeen
    ELSE [j \in interestMap \cup {i} |-> IF j = i THEN 0 ELSE interestSeen[j]]
Refreshed(i) == [j \in interestMap \cup {i} |-> IF j = i THEN 0 ELSE interestSeen[j]]

\* registerHandler: Add.
HandleRegister ==
    /\ regQ # <<>>
    /\ regQ' = Tail(regQ)
    /\ LET m == Head(regQ)
       IN /\ interestMap' = interestMap \cup {m.interest}
          /\ interestSeen' = Refreshed(m.interest)
          /\ heard' = heard \cup {<<m.service, m.interest>>}
    /\ UNCHANGED <<serviceVars, unregQ, boundVars>>

FaultForgetMapOnly(gone) == interestMap' = interestMap \ gone /\ UNCHANGED interestSeen

\* The entries of the interests in gone are deleted from both maps.
Forget(gone) ==
    /\ interestMap' = interestMap \ gone
    /\ interestSeen' = [j \in interestMap \ gone |-> interestSeen[j]]

\* unregisterHandler: Remove.
HandleUnregister ==
    /\ unregQ # <<>>
    /\ unregQ' = Tail(unregQ)
    /\ Forget({Head(unregQ).interest})
    /\ UNCHANGED <<serviceVars, regQ, heard, boundVars>>

\* Older than the time to live.
FaultExpiredFresh == {i \in interestMap : interestSeen[i] < TTL}
Expired == {i \in interestMap : interestSeen[i] > TTL}

\* One turn of RunEvictions that finds something to delete.
EvictRound ==
    /\ Expired # {}
    /\ Forget(Expired)
    /\ UNCHANGED <<serviceVars, regQ, unregQ, heard, boundVars>>

\* The proxy restarts with an empty tracker and new subscriptions.
RestartProxy ==
    /\ restarts < MaxRestarts
    /\ restarts' = restarts + 1
    /\ interestMap' = {}
    /\ interestSeen' = <<>>
    /\ heard' = {}
    /\ regQ' = <<>>
    /\ unregQ' = <<>>
    /\ UNCHANGED <<serviceVars, losses, prompt>>

\* A request is looked up by its route and HTTP method; an upgrade is a GET.
ValidRequest(req) == [route |-> req.route, method |-> req.method] \in interestMap

\* A period passes: interests age (up to TTL + 1) and sleeping publishers wake.
\* If prompt, rounds and deliveries begun in a period are over when it ends.
Tick ==
    /\ Len(regQ) + Len(unregQ) <= MaxBacklog
    /\ prompt => /\ regQ = <<>>
                 /\ \A s \in Services : publisher[s] \in {"off", "sleeping", "returned"}
    /\ interestSeen' = [i \in interestMap |->
                           IF interestSeen[i] > TTL THEN interestSeen[i] ELSE interestSeen[i] + 1]
    /\ publisher' = [s \in Services |->
                        IF publisher[s] = "sleeping" THEN "check" ELSE publisher[s]]
    /\ UNCHANGED <<phase, toRegister, toUnregister, regQ, unregQ, interestMap, heard, boundVars>>

-------------------------------------------------------------------------------

ServiceStep(s) ==
    \/ PublisherChecks(s) \/ PublishRegister(s) \/ PublisherSleeps(s)
    \/ PublishUnregister(s) \/ Cancel(s) \/ FinishShutdown(s)

Next ==
    \/ \E s \in Services : Run(s) \/ BeginShutdown(s) \/ ServiceStep(s)
    \/ HandleRegister \/ HandleUnregister \/ EvictRound
    \/ RestartProxy
    \/ Tick

\* Goroutines and time go on; a service need not be started or shut down.
Fairness ==
    /\ \A s \in Services :
          /\ WF_vars(PublisherChecks(s) \/ PublishRegister(s) \/ PublisherSleeps(s))
          /\ WF_vars(PublishUnregister(s) \/ Cancel(s) \/ FinishShutdown(s))
    /\ WF_vars(HandleRegister)
    /\ WF_vars(HandleUnregister)
    /\ WF_vars(EvictRound)
    /\ WF_vars(Tick)

Spec == Init /\ [][Next]_vars /\ Fairness

-------------------------------------------------------------------------------
(* Properties.                                                             *)

\* While rounds and deliveries are prompt and fewer messages than TTL are lost,
\* eviction never drops an interest that a running service offers and the tracker
\* has heard from that service: every registration refreshes the time stamp
\* (tracker.go:182-188, 205-208).  An unregistration by a replica and a restart of
\* the proxy do drop it.
EvictionSparesLive ==
    [][\A i \in interestMap \ interestMap' :
          prompt /\ losses < TTL /\ unregQ' = unregQ /\ restarts' = restarts =>
             ~\E s \in Services : phase[s] = "running" /\ <<s, i>> \in heard /\ i \in Offers[s]]_vars

\* After Shutdown has returned a service publishes no registration any more
\* (service.go:343-346).
SilentAfterShutdown ==
    [][\A s \in Services :
          phase[s] = "down" /\ Len(regQ') > Len(regQ) => regQ'[Len(regQ')].service # s]_vars

\* A running service is admitted to, again and again: lost registrations, an
\* unregistration by a replica or a restart of the proxy keep its interests out
\* of the tracker only for a while (service.go:235-285).
LiveInterestReturns ==
    \A s \in Services : \A i \in Offers[s] :
        phase[s] = "running" ~> (i \in interestMap \/ phase[s] # "running")

\* The interests of services that are all down are forgotten, even if their
\* unregistrations were lost or overtaken (service.go:353-354, tracker.go:195-212).
ForgottenAfterShutdown ==
    \A i \in UNION {Offers[s] : s \in Services} :
        (\A s \in Services : i \in Offers[s] => phase[s] = "down") ~> i \notin interestMap

\* "This gives the tracker immediate removal instead of waiting for TTL
\* eviction" (service.go:339-341): once a service is down and the tracker has
\* handled every message, an interest nobody else offers is removed.
ImmediateRemoval ==
    \A s \in Services :
        phase[s] = "down" /\ regQ = <<>> /\ unregQ = <<>> =>
           \A i \in Offers[s] :
              i \in interestMap => \E t \in Services \ {s} : i \in Offers[t]

\* "InterestTracker tracks hosts and their discovered WebSocket and request/reply
\* connection handlers" (tracker.go:18): the upgrade request for a WebSocket
\* handler the tracker knows is valid.
KnownWebSocketIsValid ==
    \A p \in Routes :
        [route |-> p, method |-> "ws"] \in interestMap =>
           ValidRequest([route |-> p, method |-> "GET"])
===============================================================================
