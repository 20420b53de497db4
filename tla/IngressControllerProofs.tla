------------------------ MODULE IngressControllerProofs ------------------------
(* Proofs about IngressController, for every value of its constants. *)
EXTENDS IngressController, SubjectMapperProofs, FiniteSetTheorems, WellFoundedInduction

-------------------------------------------------------------------------------
(* Subscriptions.                                                          *)

Count(set, x) == IF x \in set THEN 1 ELSE 0

\* SubscribeForHost is at work under the lock only, for one host that is desired and not
\* known yet, and has made one to five subscriptions.
Opening ==
    /\ opened \in 0..5
    /\ opening = {} <=> opened = 0
    /\ opening # {} =>
         /\ pc = "locked"
         /\ \E host \in Desired \ (known \cup failed) : opening = {host}

\* Those recorded are those of the known hosts.
Recorded ==
    /\ activeSubs \in [Subscriptions -> Nat]
    /\ \A sub \in Subscriptions : activeSubs[sub] = Count(known, sub[1])

\* There are these, and those SubscribeForHost has made so far.
Subscribed ==
    /\ live \in [Subscriptions -> Nat]
    /\ \A sub \in Subscriptions :
          live[sub] = Count(known, sub[1]) +
                      (IF sub[1] \in opening /\ sub[2] <= opened THEN 1 ELSE 0)

\* Every change the controller has not listed has a notification.
Notified ==
    /\ versions \in Seq([Ingresses -> UNION {Contents[i] : i \in Ingresses}])
    /\ listed \in 1..Len(versions)
    /\ notifications \in Nat
    /\ notifications = 0 => listed = Len(versions)

\* Between reconciliations the hosts of the version listed last are known or failed.
Reconciled ==
    /\ known \cap failed = {}
    /\ pc = "idle" => known = Desired \ failed

IInv ==
    /\ pc \in {"idle", "listed", "locked", "dead"}
    /\ Opening
    /\ Recorded
    /\ Subscribed
    /\ Notified
    /\ Reconciled

\* The initial states satisfy the invariant.
LEMMA InitIInv == Init => IInv
  <1> SUFFICES ASSUME Init
               PROVE  IInv
    OBVIOUS
  <1>1. Notified
    <2>1. Nothing \in [Ingresses -> UNION {Contents[i] : i \in Ingresses}]
      BY IngressAssumption DEF Nothing
    <2> QED
      BY <2>1 DEF Init, Notified
  <1>2. Desired = {}
    <2>1. versions[listed] = Nothing
      BY DEF Init
    <2>2. \A i \in Ingresses : Range(Nothing[i]) = {}
      BY DEF Nothing, Range
    <2> QED
      BY <2>1, <2>2 DEF Desired, HostsOf
  <1> QED
    BY <1>1, <1>2 DEF Init, IInv, Opening, Recorded, Subscribed, Reconciled, Count

\* A change of an Ingress makes a new version and leaves the one that was listed.
LEMMA ChangeIInv ==
    ASSUME IInv, NEW i \in Ingresses, Change(i)
    PROVE  IInv'
  <1> DEFINE Objects == [Ingresses -> UNION {Contents[j] : j \in Ingresses}]
  <1>1. /\ versions \in Seq(Objects)
        /\ listed \in 1..Len(versions)
        /\ notifications \in Nat
    BY DEF IInv, Notified
  <1>2. PICK content \in Contents[i] :
           versions' = Append(versions, [Last(versions) EXCEPT ![i] = content])
    BY DEF Change
  <1>3. Last(versions) \in Objects
    BY <1>1 DEF Last
  <1>4. [Last(versions) EXCEPT ![i] = content] \in Objects
    BY <1>3
  <1> HIDE DEF Objects
  <1>5. /\ versions' \in Seq(Objects)
        /\ Len(versions') = Len(versions) + 1
        /\ versions'[listed] = versions[listed]
    BY <1>1, <1>2, <1>4
  <1>6. notifications' = notifications + 1 /\ listed' = listed
    BY DEF Change, controllerVars
  <1>7. Notified'
    BY <1>1, <1>5, <1>6 DEF Notified, Objects
  <1>8. Desired' = Desired
    BY <1>5, <1>6 DEF Desired
  <1>9. UNCHANGED <<pc, known, openVars, subscriptionVars>>
    BY DEF Change
  <1> QED
    BY <1>7, <1>8, <1>9 DEF IInv, Opening, Recorded, Subscribed, Reconciled, openVars,
       subscriptionVars

\* The steps that move no subscription: listing, the new table, the end.
LEMMA TableIInv ==
    ASSUME IInv, List \/ Update \/ Unlock
    PROVE  IInv'
  <1>1. CASE List
    <2>1. /\ pc = "idle" /\ pc' = "listed"
          /\ listed' = Len(versions)
          /\ notifications' = notifications - 1 /\ notifications > 0
          /\ UNCHANGED <<versions, known, openVars, subscriptionVars>>
      BY <1>1 DEF List
    <2>2. opening = {}
      BY <2>1 DEF IInv, Opening
    <2>3. Len(versions) \in Nat /\ Len(versions) >= 1
      BY DEF IInv, Notified
    <2>4. Notified'
      BY <2>1, <2>3 DEF IInv, Notified
    <2> QED
      BY <2>1, <2>2, <2>4 DEF IInv, Opening, Recorded, Subscribed, Reconciled, openVars,
         subscriptionVars
  <1>2. CASE Update
    <2>1. /\ pc = "listed" /\ pc' = "locked"
          /\ failed' = {}
          /\ UNCHANGED <<versions, notifications, listed, known, opening, opened, subscriptionVars>>
      BY <1>2 DEF Update
    <2>2. opening = {}
      BY <2>1 DEF IInv, Opening
    <2> QED
      BY <2>1, <2>2 DEF IInv, Opening, Recorded, Subscribed, Notified, Reconciled,
         subscriptionVars
  <1>3. CASE Unlock
    <2>1. /\ pc = "locked" /\ pc' = "idle"
          /\ ToClose = {} /\ ToOpen = {}
          /\ UNCHANGED <<versions, notifications, listed, known, openVars, subscriptionVars>>
      BY <1>3 DEF Unlock, controllerVars
    <2>2. opening = {}
      BY <2>1 DEF IInv, Opening, ToOpen
    <2>3. known = Desired \ failed
      BY <2>1, <2>2 DEF ToClose, ToOpen, IInv, Reconciled
    <2>4. Desired' = Desired
      BY <2>1 DEF Desired
    <2> QED
      BY <2>1, <2>2, <2>3, <2>4 DEF IInv, Opening, Recorded, Subscribed, Notified, Reconciled,
         openVars, subscriptionVars
  <1> QED
    BY <1>1, <1>2, <1>3

\* A panic leaves nothing.
LEMMA PanicIInv ==
    ASSUME IInv, Panic
    PROVE  IInv'
  <1>1. /\ pc = "listed" /\ pc' = "dead"
        /\ known' = {} /\ failed' = {}
        /\ activeSubs' = [sub \in Subscriptions |-> 0]
        /\ live' = [sub \in Subscriptions |-> 0]
        /\ UNCHANGED <<versions, notifications, listed, opening, opened>>
    BY DEF Panic, controllerVars
  <1>2. opening = {} /\ opened = 0
    BY <1>1 DEF IInv, Opening
  <1>3. Recorded' /\ Subscribed'
    BY <1>1, <1>2 DEF Recorded, Subscribed, Count
  <1> QED
    BY <1>1, <1>2, <1>3 DEF IInv, Opening, Notified, Reconciled

\* UnsubscribeForHost takes back what is recorded for the host.
LEMMA RemoveIInv ==
    ASSUME IInv, NEW host \in Hosts, RemoveHost(host)
    PROVE  IInv'
  <1>1. /\ pc = "locked" /\ host \in known /\ host \notin Desired
        /\ known' = known \ {host}
        /\ activeSubs' = [sub \in Subscriptions |-> IF sub[1] = host THEN 0 ELSE activeSubs[sub]]
        /\ live' = [sub \in Subscriptions |->
                       live[sub] - (IF sub[1] = host THEN activeSubs[sub] ELSE 0)]
        /\ UNCHANGED <<versions, notifications, pc, listed, openVars>>
    BY DEF RemoveHost, ToClose, Unsubscribe, controllerVars
  <1>2. Desired' = Desired
    BY <1>1 DEF Desired
  <1>3. host \notin opening
    BY <1>1 DEF IInv, Opening
  <1>4. ASSUME NEW sub \in Subscriptions
        PROVE  /\ activeSubs'[sub] = Count(known', sub[1])
               /\ live'[sub] = Count(known', sub[1]) +
                               (IF sub[1] \in opening /\ sub[2] <= opened THEN 1 ELSE 0)
    <2>1. /\ activeSubs[sub] = Count(known, sub[1])
          /\ live[sub] = Count(known, sub[1]) +
                         (IF sub[1] \in opening /\ sub[2] <= opened THEN 1 ELSE 0)
      BY DEF IInv, Recorded, Subscribed
    <2>2. CASE sub[1] = host
      BY <1>1, <1>3, <2>1, <2>2 DEF Count
    <2>3. CASE sub[1] # host
      BY <1>1, <2>1, <2>3 DEF Count
    <2> QED
      BY <2>2, <2>3
  <1>5. /\ activeSubs' \in [Subscriptions -> Nat]
        /\ live' \in [Subscriptions -> Nat]
    <2>1. \A sub \in Subscriptions : activeSubs'[sub] \in Nat /\ live'[sub] \in Nat
      BY <1>4 DEF Count
    <2> QED
      BY <1>1, <2>1
  <1> QED
    BY <1>1, <1>2, <1>4, <1>5 DEF IInv, Opening, Recorded, Subscribed, Notified, Reconciled,
       openVars

\* SubscribeForHost makes a subscription, or the last one and records them.
LEMMA SubscribeIInv ==
    ASSUME IInv, NEW host \in Hosts, SubscribeNext(host)
    PROVE  IInv'
  <1>1. /\ pc = "locked" /\ host \in Desired /\ host \notin known /\ host \notin failed
        /\ opening \subseteq {host}
        /\ live' = [live EXCEPT ![<<host, opened + 1>>] = @ + 1]
        /\ UNCHANGED <<versions, notifications, pc, listed, failed>>
    BY DEF SubscribeNext, ToOpen, controllerVars
  <1>2. Desired' = Desired
    BY <1>1 DEF Desired
  <1>3. /\ opened \in 0..5
        /\ opening = {} <=> opened = 0
        /\ activeSubs \in [Subscriptions -> Nat]
        /\ live \in [Subscriptions -> Nat]
    BY DEF IInv, Opening, Recorded, Subscribed
  <1>4. /\ <<host, opened + 1>> \in Subscriptions
        /\ \A sub \in Subscriptions :
              /\ sub = <<sub[1], sub[2]>>
              /\ sub[2] \in 1..6
    BY <1>3 DEF Subscriptions, Places
  <1>5. ASSUME NEW sub \in Subscriptions
        PROVE  /\ activeSubs[sub] = Count(known, sub[1])
               /\ live[sub] = Count(known, sub[1]) +
                              (IF sub[1] = host /\ sub[2] <= opened THEN 1 ELSE 0)
               /\ live'[sub] = Count(known, sub[1]) +
                               (IF sub[1] = host /\ sub[2] <= opened + 1 THEN 1 ELSE 0)
    <2>1. /\ activeSubs[sub] = Count(known, sub[1])
          /\ live[sub] = Count(known, sub[1]) +
                         (IF sub[1] \in opening /\ sub[2] <= opened THEN 1 ELSE 0)
      BY DEF IInv, Recorded, Subscribed
    <2>2. sub[1] \in opening /\ sub[2] <= opened <=> sub[1] = host /\ sub[2] <= opened
      BY <1>1, <1>3, <1>4
    <2>3. live[sub] = Count(known, sub[1]) +
                      (IF sub[1] = host /\ sub[2] <= opened THEN 1 ELSE 0)
      BY <2>1, <2>2
    <2>4. CASE sub = <<host, opened + 1>>
      <3>1. live'[sub] = live[sub] + 1
        BY <1>1, <1>3, <2>4
      <3>2. sub[1] = host /\ sub[2] = opened + 1
        BY <2>4
      <3> QED
        BY <1>1, <1>3, <2>1, <2>3, <3>1, <3>2 DEF Count
    <2>5. CASE sub # <<host, opened + 1>>
      <3>1. live'[sub] = live[sub]
        BY <1>1, <1>3, <2>5
      <3>2. sub[1] = host => sub[2] # opened + 1
        BY <1>4, <2>5
      <3>3. sub[1] = host /\ sub[2] <= opened <=> sub[1] = host /\ sub[2] <= opened + 1
        BY <1>3, <1>4, <3>2
      <3> QED
        BY <2>1, <2>3, <3>1, <3>3
    <2> QED
      BY <2>4, <2>5
  <1>6. live' \in [Subscriptions -> Nat]
    <2>1. \A sub \in Subscriptions : live'[sub] \in Nat
      BY <1>5 DEF Count
    <2>2. live' = [sub \in Subscriptions |-> live'[sub]]
      BY <1>1, <1>3
    <2> QED
      BY <2>1, <2>2
  <1>7. CASE opened < 5 /\ opening' = {host} /\ opened' = opened + 1 /\ UNCHANGED <<activeSubs, known>>
    <2>1. Opening'
      BY <1>1, <1>2, <1>3, <1>7 DEF Opening
    <2>2. Subscribed'
      BY <1>5, <1>6, <1>7 DEF Subscribed
    <2> QED
      BY <1>1, <1>2, <1>7, <2>1, <2>2 DEF IInv, Recorded, Notified, Reconciled
  <1>8. CASE /\ opened = 5 /\ opening' = {} /\ opened' = 0
             /\ activeSubs' = [sub \in Subscriptions |->
                                  IF sub[1] = host THEN activeSubs[sub] + 1 ELSE activeSubs[sub]]
             /\ known' = known \cup {host}
    <2>1. ASSUME NEW sub \in Subscriptions
          PROVE  /\ activeSubs'[sub] = Count(known', sub[1])
                 /\ live'[sub] = Count(known', sub[1])
      <3>1. CASE sub[1] = host
        BY <1>1, <1>4, <1>5, <1>8, <3>1 DEF Count
      <3>2. CASE sub[1] # host
        BY <1>5, <1>8, <3>2 DEF Count
      <3> QED
        BY <3>1, <3>2
    <2>2. activeSubs' \in [Subscriptions -> Nat]
      BY <1>3, <1>8
    <2>3. Recorded' /\ Opening'
      <3>1. Recorded'
        BY <2>1, <2>2 DEF Recorded
      <3>2. Opening'
        BY <1>8 DEF Opening
      <3> QED
        BY <3>1, <3>2
    <2>4. Subscribed'
      <3>1. \A sub \in Subscriptions :
               Count(known', sub[1]) +
                  (IF sub[1] \in opening' /\ sub[2] <= opened' THEN 1 ELSE 0) = Count(known', sub[1])
        BY <1>8 DEF Count
      <3> QED
        BY <1>6, <2>1, <3>1 DEF Subscribed
    <2> QED
      BY <1>1, <1>2, <1>8, <2>3, <2>4 DEF IInv, Notified, Reconciled
  <1> QED
    BY <1>7, <1>8 DEF SubscribeNext

\* A refused subscription takes back the ones before it.
LEMMA FailIInv ==
    ASSUME IInv, NEW host \in Hosts, SubscribeFails(host)
    PROVE  IInv'
  <1>1. /\ pc = "locked" /\ host \in Desired /\ host \notin known /\ host \notin failed
        /\ opening \subseteq {host} /\ opening' = {} /\ opened' = 0
        /\ failed' = failed \cup {host}
        /\ live' = [sub \in Subscriptions |-> live[sub] - Undone(host)[sub]]
        /\ UNCHANGED <<versions, notifications, pc, listed, known, activeSubs>>
    BY DEF SubscribeFails, ToOpen, Unsubscribe, controllerVars
  <1>2. Desired' = Desired
    BY <1>1 DEF Desired
  <1>3. ASSUME NEW sub \in Subscriptions
        PROVE  live'[sub] = Count(known, sub[1])
    <2>1. live[sub] = Count(known, sub[1]) +
                      (IF sub[1] \in opening /\ sub[2] <= opened THEN 1 ELSE 0)
      BY DEF IInv, Subscribed
    <2>2. sub[1] \in opening /\ sub[2] <= opened <=> sub[1] = host /\ sub[2] <= opened
      <3>1. sub[2] \in 1..6
        BY DEF Subscriptions, Places
      <3>2. opening = {} => opened = 0
        BY DEF IInv, Opening
      <3> QED
        BY <1>1, <3>1, <3>2
    <2>3. Undone(host)[sub] = IF sub[1] = host /\ sub[2] <= opened THEN 1 ELSE 0
      BY DEF Undone
    <2>4. live'[sub] = live[sub] - Undone(host)[sub]
      BY <1>1
    <2>5. Count(known, sub[1]) \in Nat
      BY DEF Count
    <2> QED
      BY <2>1, <2>2, <2>3, <2>4, <2>5
  <1>4. live' \in [Subscriptions -> Nat]
    <2>1. \A sub \in Subscriptions : live'[sub] \in Nat
      BY <1>3 DEF Count
    <2> QED
      BY <1>1, <2>1
  <1>5. Subscribed'
    <2>1. \A sub \in Subscriptions :
             Count(known, sub[1]) =
                Count(known, sub[1]) + (IF sub[1] \in opening' /\ sub[2] <= opened' THEN 1 ELSE 0)
      BY <1>1 DEF Count
    <2> QED
      BY <1>1, <1>3, <1>4, <2>1 DEF Subscribed
  <1> QED
    BY <1>1, <1>2, <1>5 DEF IInv, Opening, Recorded, Notified, Reconciled

\* Requests and their callbacks change nothing the invariant speaks of.
LEMMA MessageIInv ==
    ASSUME IInv,
           \/ \E t \in Traffic : Publish(t)
           \/ \E sub \in Subscriptions : Callback(sub) \/ Forward(sub)
           \/ UNCHANGED vars
    PROVE  IInv'
  <1>1. UNCHANGED <<versions, notifications, pc, controllerVars, known, openVars, subscriptionVars>>
    BY DEF Publish, Callback, Forward, vars
  <1>2. Desired' = Desired
    BY <1>1 DEF Desired, controllerVars
  <1> QED
    BY <1>1, <1>2 DEF IInv, Opening, Recorded, Subscribed, Notified, Reconciled, openVars,
       subscriptionVars, controllerVars

\* Every step keeps the invariant.
LEMMA IInvStep ==
    ASSUME IInv, [Next]_vars
    PROVE  IInv'
  <1>1. ASSUME NEW i \in Ingresses, Change(i)
        PROVE  IInv'
    BY <1>1, ChangeIInv
  <1>2. ASSUME NEW host \in Hosts, RemoveHost(host) \/ SubscribeNext(host) \/ SubscribeFails(host)
        PROVE  IInv'
    BY <1>2, RemoveIInv, SubscribeIInv, FailIInv
  <1>3. CASE List \/ Update \/ Panic \/ Unlock
    BY <1>3, TableIInv, PanicIInv
  <1>4. CASE \/ \E t \in Traffic : Publish(t)
             \/ \E sub \in Subscriptions : Callback(sub) \/ Forward(sub)
             \/ UNCHANGED vars
    BY <1>4, MessageIInv
  <1> QED
    BY <1>1, <1>2, <1>3, <1>4 DEF Next, Reconcile

\* The invariant holds throughout.
LEMMA Invariance == Spec => []IInv
  BY InitIInv, IInvStep, PTL DEF Spec

-------------------------------------------------------------------------------
(* What follows.                                                           *)

\* Whatever Ingresses, hosts and refusals there are, outside of a reconciliation every
\* known host has each of its six subscriptions once, recorded, and nobody else has any
\* (reverse.go:127-193, controller.go:203-228).
THEOREM SubscriptionsKept == Spec => []SubscriptionsFollowKnown
  <1>1. ASSUME IInv
        PROVE  SubscriptionsFollowKnown
    <2> SUFFICES ASSUME pc # "locked", NEW sub \in Subscriptions
                 PROVE  /\ live[sub] = (IF sub[1] \in known THEN 1 ELSE 0)
                        /\ activeSubs[sub] = live[sub]
      BY DEF SubscriptionsFollowKnown
    <2>1. opening = {}
      BY <1>1 DEF IInv, Opening
    <2> QED
      BY <1>1, <2>1 DEF IInv, Recorded, Subscribed, Count
  <1> QED
    BY <1>1, Invariance, PTL

\* When no change is waiting, the hosts of the last version of the Ingresses are known,
\* but for those refused in the last reconciliation (controller.go:105, 213-228).
THEOREM SettledHosts == Spec => []SettledServesDesired
  <1>1. ASSUME IInv
        PROVE  SettledServesDesired
    <2> SUFFICES ASSUME pc = "idle", notifications = 0
                 PROVE  known = HostsOf(Last(versions)) \ failed
      BY DEF SettledServesDesired
    <2>1. Last(versions) = versions[listed]
      BY <1>1 DEF IInv, Notified, Last
    <2> QED
      BY <1>1, <2>1 DEF IInv, Reconciled, Desired
  <1> QED
    BY <1>1, Invariance, PTL

\* A set of Ingresses can be listed in some order,
LEMMA SomeOrder == SetToSeqs(Ingresses) # {}
  <1>1. /\ Cardinality(Ingresses) \in Nat
        /\ ExistsBijection(1..Cardinality(Ingresses), Ingresses)
    BY IngressAssumption, FS_CardinalityType
  <1>2. PICK f : f \in Bijection(1..Cardinality(Ingresses), Ingresses)
    BY <1>1 DEF ExistsBijection
  <1>3. /\ f \in [1..Cardinality(Ingresses) -> Ingresses]
        /\ \A i, j \in 1..Cardinality(Ingresses) : i # j => f[i] # f[j]
    BY <1>2 DEF Bijection, Injection, IsInjective
  <1> QED
    BY <1>3 DEF SetToSeqs

\* and without Ingresses there are no routes.
LEMMA NoRoutes == Tables(Nothing) = {{}}
  <1>1. ASSUME NEW order \in SetToSeqs(Ingresses)
        PROVE  Table(Nothing, order) = {}
    <2>1. \A n \in DOMAIN order : order[n] \in Ingresses
      BY DEF SetToSeqs
    <2>2. RoutesOf(<<>>) = {}
      BY DEF RoutesOf, Overwrite
    <2>3. \A n \in DOMAIN order : RoutesOf(Nothing[order[n]]) = {}
      BY <2>1, <2>2 DEF Nothing
    <2> QED
      BY <2>3 DEF Table, Overwrite
  <1>2. ~Unusable(Nothing)
    <2>1. \A i \in Ingresses : Range(Nothing[i]) = {}
      BY DEF Nothing, Range
    <2> QED
      BY <2>1 DEF Unusable
  <1> QED
    BY <1>1, <1>2, SomeOrder DEF Tables

\* The version served is never newer than the one listed.
Behind == serving \in 1..listed

\* The safety part of RouteFollower: the routes in force are always those of a version of
\* the Ingresses, and never of an older one than before (controller.go:130-203).
THEOREM RoutesFollow == Spec => Follower!Init /\ [][Follower!Next]_(Follower!vars)
  <1>1. Init => Follower!Init
    <2> SUFFICES ASSUME Init
                 PROVE  Follower!Init
      OBVIOUS
    <2>1. versions = <<Nothing>> /\ serving = 1 /\ table = {}
      BY DEF Init
    <2>2. Len(versions) = 1 /\ versions[1] = Nothing
      BY <2>1
    <2>3. table \in Tables(versions[1])
      BY <2>1, <2>2, NoRoutes
    <2> QED
      BY <2>1, <2>2, <2>3 DEF Init, Follower!Init
  <1>2. Init => Behind
    BY DEF Init, Behind
  <1>3. ASSUME IInv, Behind, [Next]_vars
        PROVE  Behind' /\ [Follower!Next]_(Follower!vars)
    <2>1. listed \in 1..Len(versions) /\ Len(versions) \in Nat /\ serving \in 1..listed
      BY <1>3 DEF IInv, Notified, Behind
    <2>2. ASSUME NEW i \in Ingresses, Change(i)
          PROVE  Behind' /\ Follower!Next
      <3>1. PICK content \in Contents[i] :
               versions' = Append(versions, [Last(versions) EXCEPT ![i] = content])
        BY <2>2 DEF Change
      <3>2. UNCHANGED <<listed, serving, table, pc>>
        BY <2>2 DEF Change, controllerVars
      <3>3. /\ Len(versions') = Len(versions) + 1
            /\ SubSeq(versions', 1, Len(versions)) = versions
        BY <1>3, <3>1 DEF IInv, Notified
      <3> QED
        BY <2>1, <3>2, <3>3 DEF Behind, Follower!Next, Follower!Change
    <2>3. CASE Update
      <3>1. /\ serving' = listed
            /\ table' \in Tables(versions[listed])
            /\ pc = "listed" /\ pc' = "locked"
            /\ UNCHANGED <<versions, listed>>
        BY <2>3 DEF Update, NewTables
      <3>2. /\ serving' \in serving..Len(versions)
            /\ table' \in Tables(versions[serving'])
        BY <2>1, <3>1
      <3>3. Behind'
        BY <2>1, <3>1 DEF Behind
      <3> QED
        BY <3>1, <3>2, <3>3 DEF Follower!Next, Follower!Follow
    <2>4. CASE List
      <3>1. /\ listed' = Len(versions) /\ UNCHANGED <<versions, serving, table>>
            /\ pc # "dead" /\ pc' # "dead"
        BY <2>4 DEF List
      <3> QED
        BY <2>1, <3>1 DEF Behind, Follower!vars
    <2>5. ASSUME \/ Unlock
                 \/ \E host \in Hosts :
                       RemoveHost(host) \/ SubscribeNext(host) \/ SubscribeFails(host)
                 \/ \E t \in Traffic : Publish(t)
                 \/ \E sub \in Subscriptions : Callback(sub) \/ Forward(sub)
                 \/ UNCHANGED vars
          PROVE  Behind' /\ UNCHANGED Follower!vars
      <3>1. UNCHANGED <<versions, listed, serving, table>> /\ (pc' = "dead" <=> pc = "dead")
        BY <2>5 DEF Unlock, RemoveHost, SubscribeNext, SubscribeFails, Publish, Callback,
           Forward, controllerVars, vars
      <3> QED
        BY <1>3, <3>1 DEF Behind, Follower!vars
    <2>6. CASE Panic
      <3>1. /\ Unusable(versions[listed]) /\ pc' = "dead"
            /\ UNCHANGED <<versions, listed, serving, table>>
        BY <2>6 DEF Panic, controllerVars
      <3>2. Tables(versions[listed]) = {}
        BY <3>1 DEF Tables
      <3>3. listed \in serving..Len(versions)
        BY <2>1
      <3> QED
        BY <2>1, <3>1, <3>2, <3>3 DEF Behind, Follower!Next, Follower!Stop
    <2> QED
      BY <1>3, <2>2, <2>3, <2>4, <2>5, <2>6 DEF Next, Reconcile
  <1> QED
    BY <1>1, <1>2, <1>3, Invariance, PTL DEF Spec

-------------------------------------------------------------------------------
(* The longest prefix.                                                     *)

\* A set of numbers with a bound has a greatest one.
LEMMA Greatest ==
    ASSUME NEW T \in SUBSET Nat, T # {}, NEW bound \in Nat, \A n \in T : n <= bound
    PROVE  \E m \in T : \A n \in T : n <= m
  <1> DEFINE R == OpToRel(<, Nat)
             U == {n \in Nat : n <= bound /\ bound - n \in T}
  <1>1. IsWellFoundedOn(R, Nat)
    BY NatLessThanWellFounded
  <1>2. U \subseteq Nat /\ U # {}
    <2>1. PICK n \in T : TRUE
      OBVIOUS
    <2>2. bound - n \in U
      BY <2>1
    <2> QED
      BY <2>2
  <1>3. PICK k \in U : \A n \in U : <<n, k>> \notin R
    <2> HIDE DEF R, U
    <2> QED
      BY <1>1, <1>2, WFMin
  <1>4. \A n \in U : k <= n
    <2>1. \A n \in U : ~(n < k)
      BY <1>2, <1>3 DEF OpToRel
    <2> QED
      BY <1>2, <2>1
  <1>5. ASSUME NEW n \in T
        PROVE  n <= bound - k
    <2>1. bound - n \in U
      OBVIOUS
    <2> QED
      BY <1>2, <1>4, <2>1
  <1> QED
    BY <1>5

\* A token that another one properly begins with, and all of those.
Precedes(s, t) == (s = Empty /\ t # Empty) \/ <<s, t>> \in Beginnings
Preceding(t) == BeginningsOf(t) \cup (IF t = Empty THEN {} ELSE {Empty})

\* How many there are: a token has more than any of its beginnings has.
Depth(t) == Cardinality(Preceding(t))

\* The depth of a token is a number.
LEMMA DepthType ==
    ASSUME NEW t
    PROVE  IsFiniteSet(Preceding(t)) /\ Depth(t) \in Nat
  <1>1. IsFiniteSet(BeginningsOf(t))
    <2>1. CASE BeginningsOf(t) = {}
      BY <2>1, FS_EmptySet
    <2>2. CASE BeginningsOf(t) # {}
      <3>1. PICK b \in Beginnings : b[2] = t
        BY <2>2 DEF BeginningsOf
      <3> QED
        BY <3>1, BeginningsAssumption
    <2> QED
      BY <2>1, <2>2
  <1>2. IsFiniteSet({}) /\ IsFiniteSet({Empty})
    BY FS_EmptySet, FS_Singleton
  <1>3. IsFiniteSet(Preceding(t))
    BY <1>1, <1>2, FS_Union DEF Preceding
  <1> QED
    BY <1>3, FS_CardinalityType DEF Depth

\* Nothing precedes the empty token.
LEMMA EmptyFirst == Preceding(Empty) = {}
  <1>1. \A b \in Beginnings : b[2] # Empty
    BY BeginningsAssumption
  <1> QED
    BY <1>1 DEF Preceding, BeginningsOf

\* What precedes a token is not as deep.
LEMMA Deeper ==
    ASSUME NEW s, NEW t, Precedes(s, t)
    PROVE  Depth(s) < Depth(t)
  <1>1. t # Empty /\ (s # Empty => <<s, t>> \in Beginnings)
    BY BeginningsAssumption DEF Precedes
  <1>2. Preceding(s) \subseteq Preceding(t)
    <2>1. CASE s = Empty
      BY <2>1, EmptyFirst
    <2>2. CASE s # Empty
      <3>1. ASSUME NEW b \in Beginnings, b[2] = s
            PROVE  b[1] \in BeginningsOf(t)
        <4>1. <<b[1], t>> \in Beginnings
          BY <1>1, <2>2, <3>1, BeginningsAssumption
        <4> QED
          BY <4>1 DEF BeginningsOf
      <3>2. BeginningsOf(s) \subseteq BeginningsOf(t)
        BY <3>1 DEF BeginningsOf
      <3> QED
        BY <1>1, <3>2 DEF Preceding
    <2> QED
      BY <2>1, <2>2
  <1>3. s \in Preceding(t)
    BY <1>1 DEF Preceding, BeginningsOf
  <1>4. s \notin Preceding(s)
    <2>1. ASSUME NEW b \in Beginnings, b[2] = s
          PROVE  b[1] # s
      BY <2>1, BeginningsAssumption
    <2>2. s \notin BeginningsOf(s)
      BY <2>1 DEF BeginningsOf
    <2> QED
      BY <2>2 DEF Preceding
  <1>5. Preceding(s) # Preceding(t)
    BY <1>3, <1>4
  <1>6. /\ Cardinality(Preceding(s)) <= Cardinality(Preceding(t))
        /\ Cardinality(Preceding(s)) # Cardinality(Preceding(t))
    BY <1>2, <1>5, DepthType, FS_Subset
  <1> QED
    BY <1>6, DepthType DEF Depth

\* A token begins with itself and with what precedes it.
LEMMA BeginsPrecedes ==
    ASSUME NEW s, NEW t
    PROVE  /\ Begins(s, t) <=> s = t \/ Precedes(s, t)
           /\ Begins(s, t) => Depth(s) <= Depth(t)
  <1>1. Begins(s, t) <=> s = t \/ Precedes(s, t)
    BY DEF Begins, Precedes
  <1>2. Depth(s) \in Nat /\ Depth(t) \in Nat
    BY DepthType
  <1> QED
    BY <1>1, <1>2, Deeper

\* Of two beginnings of a token the one that is not as deep begins the other.
LEMMA ShorterBegins ==
    ASSUME NEW s, NEW t, NEW u, Begins(s, u), Begins(t, u), Depth(s) <= Depth(t)
    PROVE  Begins(s, t)
  <1>1. Begins(s, t) \/ Begins(t, s)
    BY BeginningsAssumption DEF Begins
  <1>2. ~Precedes(t, s)
    <2>1. Depth(s) \in Nat /\ Depth(t) \in Nat
      BY DepthType
    <2> QED
      BY <2>1, Deeper
  <1>3. Begins(t, s) => s = t
    BY <1>2, BeginsPrecedes
  <1> QED
    BY <1>1, <1>3 DEF Begins

\* A prefix, as it stands against a path.
LEMMA PrefixParts ==
    ASSUME NEW path \in Seq(Token), NEW prefix \in Seq(Token), HasPrefix(path, prefix)
    PROVE  /\ Len(prefix) \in Nat /\ Len(path) \in Nat /\ Len(prefix) <= Len(path)
           /\ DOMAIN prefix = 1..Len(prefix)
           /\ \A n \in 1..Len(prefix) :
                 /\ n < Len(prefix) => prefix[n] = path[n]
                 /\ Begins(prefix[n], path[n])
  BY DEF HasPrefix, Begins

\* Of two prefixes of a path the shorter is one of the longer.
LEMMA ShorterPrefix ==
    ASSUME NEW path \in Seq(Token), NEW p \in Seq(Token), NEW q \in Seq(Token),
           HasPrefix(path, p), HasPrefix(path, q), Len(q) < Len(p)
    PROVE  HasPrefix(p, q)
  <1>1. Len(p) \in Nat /\ Len(q) \in Nat
    OBVIOUS
  <1>2. \A n \in 1..Len(p) : n < Len(p) => p[n] = path[n]
    BY PrefixParts
  <1>3. /\ DOMAIN q = 1..Len(q)
        /\ \A n \in 1..Len(q) : (n < Len(q) => q[n] = path[n]) /\ Begins(q[n], path[n])
    BY PrefixParts
  <1>4. ASSUME NEW n \in 1..Len(q)
        PROVE  p[n] = path[n]
    <2>1. n \in 1..Len(p) /\ n < Len(p)
      BY <1>1
    <2> QED
      BY <1>2, <2>1
  <1>5. ASSUME NEW n \in DOMAIN q
        PROVE  p[n] = q[n] \/ (n = Len(q) /\ Begins(q[n], p[n]))
    <2>1. n \in 1..Len(q) /\ (n < Len(q) \/ n = Len(q))
      BY <1>1, <1>3
    <2> QED
      BY <1>3, <1>4, <2>1
  <1>6. Len(q) <= Len(p)
    BY <1>1
  <1> QED
    BY <1>5, <1>6, Zenon DEF HasPrefix

\* Of two of the same length the one that ends in the deeper token has the other.
LEMMA DeeperPrefix ==
    ASSUME NEW path \in Seq(Token), NEW p \in Seq(Token), NEW q \in Seq(Token),
           HasPrefix(path, p), HasPrefix(path, q), Len(q) = Len(p),
           Len(p) > 0 => Depth(q[Len(p)]) <= Depth(p[Len(p)])
    PROVE  HasPrefix(p, q)
  <1> DEFINE L == Len(p)
  <1>1. /\ L \in Nat
        /\ \A n \in 1..L : (n < L => p[n] = path[n]) /\ Begins(p[n], path[n])
    BY PrefixParts
  <1>2. /\ DOMAIN q = 1..L
        /\ \A n \in 1..L : (n < L => q[n] = path[n]) /\ Begins(q[n], path[n])
    <2>1. /\ DOMAIN q = 1..Len(q)
          /\ \A n \in 1..Len(q) : (n < Len(q) => q[n] = path[n]) /\ Begins(q[n], path[n])
      BY PrefixParts
    <2> QED
      BY <2>1
  <1>3. ASSUME NEW n \in 1..L
        PROVE  p[n] = q[n] \/ (n = L /\ Begins(q[n], p[n]))
    <2>1. CASE n < L
      BY <1>1, <1>2, <2>1
    <2>2. CASE n = L
      <3>1. Begins(p[L], path[L]) /\ Begins(q[L], path[L]) /\ L > 0
        BY <1>1, <1>2, <2>2
      <3>2. Depth(q[L]) <= Depth(p[L])
        BY <3>1
      <3>3. Begins(q[L], p[L])
        BY <3>1, <3>2, ShorterBegins
      <3> QED
        BY <2>2, <3>3
    <2> QED
      BY <1>1, <2>1, <2>2
  <1>4. Len(q) <= Len(p) /\ Len(q) = L
    BY <1>1
  <1> HIDE DEF L
  <1> QED
    BY <1>2, <1>3, <1>4 DEF HasPrefix

\* Where some route matches, one has the longest prefix: findMatch finds a backend
\* (controller.go:75-96).
LEMMA ResolveFinds ==
    ASSUME NEW routes \in SUBSET AllRoutes, NEW host, NEW path \in Seq(Token),
           Matching(routes, host, path) # {}
    PROVE  Resolve(routes, host, path) # {}
  <1> DEFINE M == Matching(routes, host, path)
             Lengths == {Len(r.prefix) : r \in M}
  <1>1. \A r \in M : r.prefix \in Seq(Token) /\ HasPrefix(path, r.prefix)
    BY IngressAssumption DEF Matching, Path
  <1>2. \A r \in M : Len(r.prefix) \in Nat /\ Len(r.prefix) <= Len(path) /\ Len(path) \in Nat
    BY <1>1, PrefixParts
  <1>3. PICK L \in Lengths : \A n \in Lengths : n <= L
    <2>1. Lengths \in SUBSET Nat /\ Lengths # {} /\ \A n \in Lengths : n <= Len(path)
      BY <1>2
    <2>2. Len(path) \in Nat
      OBVIOUS
    <2> HIDE DEF Lengths
    <2> QED
      BY <2>1, <2>2, Greatest
  <1>4. L \in Nat /\ \A r \in M : Len(r.prefix) <= L
    BY <1>2, <1>3
  <1> DEFINE Longest == {r \in M : Len(r.prefix) = L}
             Depths == {Depth(r.prefix[L]) : r \in Longest}
  <1>5. Longest # {}
    BY <1>3
  <1>6. PICK r \in Longest : L > 0 => \A o \in Longest : Depth(o.prefix[L]) <= Depth(r.prefix[L])
    <2>1. CASE L = 0
      BY <1>5, <2>1
    <2>2. CASE L > 0
      <3>1. ASSUME NEW r \in Longest
            PROVE  Depth(r.prefix[L]) \in Nat /\ Depth(r.prefix[L]) <= Depth(path[L])
        <4>1. r.prefix \in Seq(Token) /\ HasPrefix(path, r.prefix) /\ L = Len(r.prefix)
          BY <1>1
        <4>2. L \in 1..Len(r.prefix)
          BY <1>4, <2>2, <4>1
        <4>3. Begins(r.prefix[L], path[L])
          BY <4>1, <4>2, PrefixParts
        <4> QED
          BY <4>3, BeginsPrecedes, DepthType
      <3>2. Depths \in SUBSET Nat /\ Depths # {} /\ \A n \in Depths : n <= Depth(path[L])
        BY <1>5, <3>1
      <3>3. PICK m \in Depths : \A n \in Depths : n <= m
        <4>1. Depth(path[L]) \in Nat
          BY DepthType
        <4> HIDE DEF Depths
        <4> QED
          BY <3>2, <4>1, Greatest
      <3> QED
        BY <3>3
    <2> QED
      BY <1>4, <2>1, <2>2
  <1>7. ASSUME NEW o \in M
        PROVE  HasPrefix(r.prefix, o.prefix)
    <2>1. /\ r.prefix \in Seq(Token) /\ HasPrefix(path, r.prefix) /\ Len(r.prefix) = L
          /\ o.prefix \in Seq(Token) /\ HasPrefix(path, o.prefix) /\ Len(o.prefix) <= L
          /\ Len(o.prefix) \in Nat
      BY <1>1, <1>2, <1>4
    <2>2. CASE Len(o.prefix) < L
      BY <2>1, <2>2, ShorterPrefix
    <2>3. CASE Len(o.prefix) = L
      <3>1. L > 0 => Depth(o.prefix[L]) <= Depth(r.prefix[L])
        BY <1>6, <2>3
      <3> QED
        BY <2>1, <2>3, <3>1, DeeperPrefix
    <2> QED
      BY <1>4, <2>1, <2>2, <2>3
  <1>8. r.backend \in Resolve(routes, host, path)
    BY <1>7 DEF Resolve
  <1> QED
    BY <1>8

-------------------------------------------------------------------------------
(* The routes in force.                                                    *)

\* The elements of a sequence.
LEMMA ElementType ==
    ASSUME NEW S, NEW q \in Seq(S), NEW n \in DOMAIN q
    PROVE  q[n] \in S
  OBVIOUS

\* In whatever order the Ingresses are listed, every one is.
LEMMA AllListed ==
    ASSUME NEW order \in SetToSeqs(Ingresses)
    PROVE  /\ order \in Seq(Ingresses)
           /\ Len(order) \in Nat
           /\ DOMAIN order = 1..Len(order)
           /\ \A i \in Ingresses : \E n \in DOMAIN order : order[n] = i
  <1> DEFINE N == Cardinality(Ingresses)
  <1>1. IsFiniteSet(Ingresses) /\ N \in Nat
    BY IngressAssumption, FS_CardinalityType
  <1>2. /\ order \in [1..N -> Ingresses]
        /\ \A m, n \in 1..N : m # n => order[m] # order[n]
    BY DEF SetToSeqs
  <1>3. order \in Injection(1..N, Ingresses)
    BY <1>2 DEF Injection, IsInjective
  <1>4. Cardinality(1..N) = N
    BY <1>1, FS_Interval
  <1> HIDE DEF N
  <1>5. order \in Surjection(1..N, Ingresses)
    <2>1. Cardinality(Ingresses) = N
      BY DEF N
    <2> QED
      BY <1>1, <1>3, <1>4, <2>1, FS_Injection
  <1>6. order \in Seq(Ingresses) /\ Len(order) = N
    BY <1>1, <1>2
  <1> QED
    BY <1>1, <1>2, <1>5, <1>6 DEF Surjection

\* What Overwrite keeps is from some group, and of the routes for a host and path in
\* whatever groups it keeps one.
LEMMA OverwriteCovers ==
    ASSUME NEW N \in Nat, NEW groups, DOMAIN groups = 1..N
    PROVE  /\ \A o \in Overwrite(groups) : \E n \in 1..N : o \in groups[n]
           /\ \A i \in 1..N : \A r \in groups[i] :
                 \E o \in Overwrite(groups) : o.host = r.host /\ o.prefix = r.prefix
  <1>1. \A o \in Overwrite(groups) : \E n \in 1..N : o \in groups[n]
    BY DEF Overwrite
  <1>2. ASSUME NEW i \in 1..N, NEW r \in groups[i]
        PROVE  \E o \in Overwrite(groups) : o.host = r.host /\ o.prefix = r.prefix
    <2> DEFINE Same(o) == o.host = r.host /\ o.prefix = r.prefix
               P == {n \in 1..N : \E o \in groups[n] : Same(o)}
    <2>1. P \in SUBSET Nat /\ P # {} /\ \A n \in P : n <= N
      OBVIOUS
    <2>2. PICK m \in P : \A n \in P : n <= m
      <3> HIDE DEF P
      <3> QED
        BY <2>1, Greatest
    <2>3. PICK o \in groups[m] : Same(o)
      OBVIOUS
    <2>4. ASSUME NEW n \in 1..N, n > m, NEW other \in groups[n]
          PROVE  other.host # o.host \/ other.prefix # o.prefix
      <3>1. m \in 1..N /\ ~(n <= m)
        BY <2>4
      <3>2. n \notin P
        BY <2>2, <3>1
      <3> QED
        BY <2>3, <3>2
    <2>5. o \in Overwrite(groups)
      BY <2>3, <2>4 DEF Overwrite
    <2> QED
      BY <2>3, <2>5
  <1> QED
    BY <1>1, <1>2

\* Of a map there is at most one route for a host and path.
IsMap(routes) == \A r, o \in routes : r.host = o.host /\ r.prefix = o.prefix => r = o

\* What Overwrite makes of maps is one.
LEMMA OverwriteIsMap ==
    ASSUME NEW N \in Nat, NEW groups, DOMAIN groups = 1..N, \A n \in 1..N : IsMap(groups[n])
    PROVE  IsMap(Overwrite(groups))
  <1> SUFFICES ASSUME NEW r \in Overwrite(groups), NEW o \in Overwrite(groups),
                      r.host = o.host, r.prefix = o.prefix
               PROVE  r = o
    BY DEF IsMap
  <1>1. PICK n \in 1..N : r \in groups[n] /\ \A m \in 1..N : m > n => \A other \in groups[m] :
           other.host # r.host \/ other.prefix # r.prefix
    BY DEF Overwrite
  <1>2. PICK k \in 1..N : o \in groups[k] /\ \A m \in 1..N : m > k => \A other \in groups[m] :
           other.host # o.host \/ other.prefix # o.prefix
    BY DEF Overwrite
  <1>3. ~(n > k) /\ ~(k > n)
    BY <1>1, <1>2
  <1>4. n = k
    BY <1>3
  <1> QED
    BY <1>1, <1>2, <1>4 DEF IsMap

\* The rules of an Ingress give a map, which has a route for every path of a rule.
LEMMA RoutesOfIngress ==
    ASSUME NEW i \in Ingresses, NEW content \in Contents[i]
    PROVE  RoutesOf(content) \subseteq AllRoutes /\ IsMap(RoutesOf(content))
  <1> DEFINE groups == [n \in DOMAIN content |-> RouteOf(content[n])]
  <1>1. content \in Seq(AllRules)
    BY IngressAssumption
  <1>2. Len(content) \in Nat /\ DOMAIN content = 1..Len(content)
    BY <1>1
  <1>3. ASSUME NEW n \in 1..Len(content)
        PROVE  RouteOf(content[n]) \subseteq AllRoutes /\ IsMap(RouteOf(content[n]))
    <2>1. content[n] \in AllRules
      BY <1>1, <1>2, ElementType
    <2>2. \A p, q \in content[n].paths : p = q
      BY <2>1, IngressAssumption
    <2>3. IsMap(RouteOf(content[n]))
      BY <2>2 DEF IsMap, RouteOf
    <2> QED
      BY <2>1, <2>3 DEF AllRoutes
  <1>4. /\ DOMAIN groups = 1..Len(content)
        /\ \A n \in 1..Len(content) : groups[n] \subseteq AllRoutes /\ IsMap(groups[n])
    BY <1>2, <1>3
  <1>5. RoutesOf(content) = Overwrite(groups)
    BY DEF RoutesOf
  <1> HIDE DEF groups
  <1>6. IsMap(Overwrite(groups))
    BY <1>2, <1>4, OverwriteIsMap
  <1>7. \A o \in Overwrite(groups) : \E n \in 1..Len(content) : o \in groups[n]
    BY <1>2, <1>4, OverwriteCovers
  <1> QED
    BY <1>4, <1>5, <1>6, <1>7

\* A table is a map that has the routes of rules only, and for a path that a rule of some
\* Ingress covers it has a route, though maybe that of another Ingress.
LEMMA TableCovers ==
    ASSUME NEW objects, \A i \in Ingresses : objects[i] \in Contents[i],
           NEW routes \in Tables(objects)
    PROVE  /\ routes \subseteq AllRoutes
           /\ IsMap(routes)
           /\ \A host, path : \A i \in Ingresses :
                 Matching(RoutesOf(objects[i]), host, path) # {} =>
                    Matching(routes, host, path) # {}
  <1>1. PICK order \in SetToSeqs(Ingresses) : routes = Table(objects, order)
    BY DEF Tables
  <1> DEFINE groups == [n \in DOMAIN order |-> RoutesOf(objects[order[n]])]
             N == Len(order)
  <1>2. /\ N \in Nat /\ DOMAIN order = 1..N
        /\ \A n \in 1..N : order[n] \in Ingresses
        /\ \A i \in Ingresses : \E n \in 1..N : order[n] = i
    <2>1. \A n \in DOMAIN order : order[n] \in Ingresses
      BY AllListed, ElementType
    <2> QED
      BY <2>1, AllListed
  <1>3. /\ DOMAIN groups = 1..N
        /\ \A n \in 1..N : groups[n] = RoutesOf(objects[order[n]])
        /\ \A n \in 1..N : groups[n] \subseteq AllRoutes /\ IsMap(groups[n])
    BY <1>2, RoutesOfIngress
  <1>4. routes = Overwrite(groups)
    BY <1>1 DEF Table
  <1> HIDE DEF groups, N
  <1>5. /\ \A o \in routes : \E n \in 1..N : o \in groups[n]
        /\ \A n \in 1..N : \A r \in groups[n] :
              \E o \in routes : o.host = r.host /\ o.prefix = r.prefix
    BY <1>2, <1>3, <1>4, OverwriteCovers
  <1>6. IsMap(routes)
    BY <1>2, <1>3, <1>4, OverwriteIsMap
  <1>7. ASSUME NEW host, NEW path, NEW i \in Ingresses,
               NEW r \in Matching(RoutesOf(objects[i]), host, path)
        PROVE  Matching(routes, host, path) # {}
    <2>1. r \in RoutesOf(objects[i]) /\ r.host = host /\ HasPrefix(path, r.prefix)
      BY <1>7 DEF Matching
    <2>2. PICK n \in 1..N : r \in groups[n]
      BY <1>2, <1>3, <2>1
    <2>3. PICK o \in routes : o.host = r.host /\ o.prefix = r.prefix
      BY <1>5, <2>2
    <2>4. o \in Matching(routes, host, path)
      BY <2>1, <2>3 DEF Matching
    <2> QED
      BY <2>4
  <1> QED
    BY <1>3, <1>5, <1>6, <1>7

\* What reconcile has listed, put in force and subscribed to is what there was.
Progress ==
    /\ \A v \in DOMAIN versions : \A i \in Ingresses : versions[v][i] \in Contents[i]
    /\ Len(versions) <= MaxChanges + 1
    /\ notifications < Len(versions)
    /\ serving \in 1..listed
    /\ table \in Tables(versions[serving])
    /\ known \subseteq Hosts
    /\ failed \subseteq Hosts
    /\ opening \subseteq Hosts
    /\ failures \in 0..MaxFailures

\* Initially nothing is listed, and there are no routes.
LEMMA InitProgress == Init => Progress
  <1> SUFFICES ASSUME Init
               PROVE  Progress
    OBVIOUS
  <1>1. /\ versions = <<Nothing>> /\ notifications = 0 /\ listed = 1 /\ serving = 1
        /\ table = {} /\ known = {} /\ failed = {} /\ opening = {} /\ failures = 0
    BY DEF Init
  <1>2. Len(versions) = 1 /\ DOMAIN versions = {1} /\ versions[1] = Nothing
    BY <1>1
  <1>3. \A i \in Ingresses : Nothing[i] \in Contents[i]
    BY IngressAssumption DEF Nothing
  <1>4. table \in Tables(versions[serving])
    BY <1>1, <1>2, NoRoutes
  <1> QED
    BY <1>1, <1>2, <1>3, <1>4, IngressAssumption DEF Progress

\* No step takes a version back, and every step keeps Progress.
LEMMA ProgressStep ==
    ASSUME IInv, Progress, [Next]_vars
    PROVE  /\ Progress'
           /\ \A v \in DOMAIN versions : v \in DOMAIN versions' /\ versions'[v] = versions[v]
           /\ serving' \in Nat /\ serving <= serving'
  <1> DEFINE Kept == \A v \in DOMAIN versions : v \in DOMAIN versions' /\ versions'[v] = versions[v]
  <1>1. /\ versions \in Seq([Ingresses -> UNION {Contents[i] : i \in Ingresses}])
        /\ Len(versions) \in Nat
        /\ DOMAIN versions = 1..Len(versions)
        /\ listed \in 1..Len(versions)
        /\ notifications \in Nat
        /\ serving \in Nat /\ serving \in 1..listed
        /\ MaxChanges \in Nat /\ MaxFailures \in Nat
    BY IngressAssumption DEF IInv, Notified, Progress
  <1>2. ASSUME NEW i \in Ingresses, Change(i)
        PROVE  Progress' /\ Kept /\ serving' = serving
    <2>1. PICK content \in Contents[i] :
             versions' = Append(versions, [Last(versions) EXCEPT ![i] = content])
      BY <1>2 DEF Change
    <2> DEFINE new == [Last(versions) EXCEPT ![i] = content]
               L == Len(versions)
    <2>2. /\ Len(versions) <= MaxChanges
          /\ notifications' = notifications + 1
          /\ UNCHANGED <<listed, serving, table, known, failed, opening, failures>>
      BY <1>2 DEF Change, controllerVars, openVars
    <2>3. /\ Last(versions) \in [Ingresses -> UNION {Contents[j] : j \in Ingresses}]
          /\ \A j \in Ingresses : Last(versions)[j] \in Contents[j]
      <3>1. Last(versions) = versions[L] /\ L \in DOMAIN versions
        BY <1>1 DEF Last
      <3>2. versions[L] \in [Ingresses -> UNION {Contents[j] : j \in Ingresses}]
        BY <1>1, <3>1, ElementType
      <3>3. \A j \in Ingresses : versions[L][j] \in Contents[j]
        BY <3>1 DEF Progress
      <3> QED
        BY <3>1, <3>2, <3>3
    <2>4. \A j \in Ingresses : new[j] \in Contents[j]
      BY <2>3
    <2>5. /\ Len(versions') = L + 1 /\ DOMAIN versions' = 1..(L + 1)
          /\ \A v \in 1..L : versions'[v] = versions[v]
          /\ versions'[L + 1] = new
      <3> HIDE DEF new
      <3> QED
        BY <1>1, <2>1 DEF new
    <2> HIDE DEF new
    <2>6. Kept
      BY <1>1, <2>5
    <2>7. \A v \in DOMAIN versions' : \A j \in Ingresses : versions'[v][j] \in Contents[j]
      <3> SUFFICES ASSUME NEW v \in 1..(L + 1), NEW j \in Ingresses
                   PROVE  versions'[v][j] \in Contents[j]
        BY <2>5
      <3>1. v = L + 1 \/ v \in DOMAIN versions
        <4>0. Len(versions) \in Nat
          BY <1>1
        <4> QED
          BY <2>5, <4>0
      <3>2. CASE v = L + 1
        <4>1. versions'[v] = new
          BY <2>5, <3>2
        <4> QED
          BY <2>4, <4>1
      <3>3. CASE v \in DOMAIN versions
        <4>1. versions'[v] = versions[v]
          BY <1>1, <2>5, <3>3
        <4> QED
          BY <3>3, <4>1 DEF Progress
      <3> QED
        BY <3>1, <3>2, <3>3
    <2>8. table' \in Tables(versions'[serving'])
      BY <1>1, <2>2, <2>5 DEF Progress
    <2>9. Len(versions') <= MaxChanges + 1 /\ notifications' < Len(versions')
      BY <1>1, <2>2, <2>5 DEF Progress
    <2> QED
      BY <2>2, <2>6, <2>7, <2>8, <2>9 DEF Progress
  <1>3. CASE List
    <2>1. /\ notifications > 0 /\ notifications' = notifications - 1 /\ listed' = Len(versions)
          /\ UNCHANGED <<versions, serving, table, known, failed, opening, failures>>
      BY <1>3 DEF List, openVars
    <2>2. serving' \in 1..listed' /\ notifications' < Len(versions')
      BY <1>1, <2>1 DEF Progress
    <2> QED
      BY <1>1, <2>1, <2>2 DEF Progress
  <1>4. CASE Update
    <2>1. /\ serving' = listed /\ table' \in Tables(versions[listed]) /\ failed' = {}
          /\ UNCHANGED <<versions, notifications, listed, known, opening, failures>>
      BY <1>4 DEF Update, NewTables
    <2> QED
      BY <1>1, <2>1 DEF Progress
  <1>5. CASE \E host \in Hosts : RemoveHost(host) \/ SubscribeNext(host) \/ SubscribeFails(host)
    <2>1. UNCHANGED <<versions, notifications, listed, serving, table>>
      BY <1>5 DEF RemoveHost, SubscribeNext, SubscribeFails, controllerVars
    <2>2. /\ known' \subseteq Hosts /\ failed' \subseteq Hosts /\ opening' \subseteq Hosts
          /\ failures' \in 0..MaxFailures
      <3>1. PICK host \in Hosts : RemoveHost(host) \/ SubscribeNext(host) \/ SubscribeFails(host)
        BY <1>5
      <3>2. /\ known \subseteq Hosts /\ failed \subseteq Hosts /\ opening \subseteq Hosts
            /\ failures \in 0..MaxFailures
        BY DEF Progress
      <3>3. CASE RemoveHost(host)
        BY <3>2, <3>3 DEF RemoveHost, openVars
      <3>4. CASE SubscribeNext(host)
        BY <3>2, <3>4 DEF SubscribeNext
      <3>5. CASE SubscribeFails(host)
        BY <1>1, <3>2, <3>5 DEF SubscribeFails
      <3> QED
        BY <3>1, <3>3, <3>4, <3>5
    <2> QED
      BY <1>1, <2>1, <2>2 DEF Progress
  <1>6. CASE \/ Unlock
             \/ \E t \in Traffic : Publish(t)
             \/ \E sub \in Subscriptions : Callback(sub) \/ Forward(sub)
             \/ UNCHANGED vars
    <2>1. UNCHANGED <<versions, notifications, listed, serving, table, known, failed, opening, failures>>
      BY <1>6 DEF Unlock, Publish, Callback, Forward, vars, controllerVars, openVars
    <2> QED
      BY <1>1, <2>1 DEF Progress
  <1>7. CASE Panic
    <2>1. /\ known' = {} /\ failed' = {}
          /\ UNCHANGED <<versions, notifications, listed, serving, table, opening, failures>>
      BY <1>7 DEF Panic, controllerVars
    <2> QED
      BY <1>1, <2>1 DEF Progress
  <1> QED
    BY <1>1, <1>2, <1>3, <1>4, <1>5, <1>6, <1>7 DEF Next, Reconcile

-------------------------------------------------------------------------------
(* Requests.                                                               *)

\* processPath leaves a clean path as it is, but for the root, of which nothing remains
\* (mapper.go:207-231).
LEMMA CleanPath ==
    ASSUME NEW path \in Path, Clean(path)
    PROVE  Absolute(ProcessPath(path)) = Absolute(path)
  <1>1. DOMAIN path = 1..Len(path) /\ Len(path) \in Nat /\ path \in Seq(Token)
    BY DEF Path
  <1>2. CASE path = <<>>
    BY <1>2, ProcessNoPath
  <1>3. CASE path = <<Empty>>
    <2> DEFINE kept == {i \in DOMAIN path : path[i].text # "" /\ path[i].form # "broken"}
               Pick(n) == CHOOSE i \in kept : Cardinality({j \in kept : j <= i}) = n
    <2>1. ProcessPath(path) = [n \in 1..Cardinality(kept) |-> Encode(path[Pick(n)])]
      BY DEF ProcessPath
    <2>2. path[1].text = "" /\ DOMAIN path = {1}
      <3>1. path[1] = Empty /\ DOMAIN path = {1}
        BY <1>3
      <3>2. Empty.text = ""
        BY DEF Empty, Plain
      <3> QED
        BY <3>1, <3>2
    <2>3. Cardinality(kept) = 0
      BY <2>2, FS_EmptySet
    <2> HIDE DEF kept, Pick
    <2>4. ProcessPath(path) = <<>>
      BY <2>1, <2>3
    <2> QED
      BY <1>3, <2>4 DEF Absolute
  <1>4. CASE path # <<>> /\ path # <<Empty>>
    <2> DEFINE kept == {i \in DOMAIN path : path[i].text # "" /\ path[i].form # "broken"}
               Pick(n) == CHOOSE i \in kept : Cardinality({j \in kept : j <= i}) = n
               L == Len(path)
    <2>1. ProcessPath(path) = [n \in 1..Cardinality(kept) |-> Encode(path[Pick(n)])]
      BY DEF ProcessPath
    <2>2. \A n \in DOMAIN path : path[n] \in Token /\ path[n].form = "plain" /\ path[n] # Empty
      BY <1>1, <1>4 DEF Clean, Absolute
    <2>3. \A n \in DOMAIN path : path[n].text # "" /\ path[n].form # "broken"
      BY <2>2 DEF Empty, Plain, Token
    <2>4. kept = 1..L
      BY <1>1, <2>3
    <2> HIDE DEF kept
    <2>5. \A n \in 1..L : {j \in 1..L : j <= n} = 1..n
      BY <1>1
    <2>6. \A n \in 1..L : Cardinality(1..n) = n
      BY <1>1, FS_Interval
    <2>7. Cardinality(kept) = L
      BY <1>1, <2>4, FS_Interval
    <2>8. ASSUME NEW n \in 1..L
          PROVE  Pick(n) = n
      <3>1. \A i \in kept : Cardinality({j \in kept : j <= i}) = i
        BY <2>4, <2>5, <2>6
      <3> QED
        BY <2>4, <3>1
    <2> HIDE DEF Pick
    <2>9. \A n \in 1..L : Encode(path[Pick(n)]) = path[n]
      BY <1>1, <2>2, <2>8 DEF Encode
    <2>10. ProcessPath(path) = [n \in 1..L |-> path[n]]
      BY <2>1, <2>7, <2>9
    <2> QED
      BY <1>1, <2>10
  <1> QED
    BY <1>2, <1>3, <1>4

\* The path k8srd resolves, and for an HTTP request, or a WebSocket to a host with one
\* label, that it is the one asked for if that is clean (reverse.go:240-248, 541).
LEMMA PathSeen ==
    ASSUME NEW t \in Traffic
    PROVE  /\ PathOf(t) \in Seq(Token)
           /\ (t.ws => Len(t.host.labels) = 1) /\ Clean(t.path) => PathOf(t) = Absolute(t.path)
  <1> DEFINE host == t.host
             path == t.path
             S == PublishSubject("GET", host, path)
             found == IF t.ws THEN SubSeq(S.tokens, 2, Len(S.tokens)) ELSE PathInSubject(S, host)
  <1>1. host \in Hostname /\ path \in Path /\ t.ws \in BOOLEAN
    BY IngressAssumption
  <1>2. /\ ProcessPath(path) \in Seq(Token)
        /\ PathInSubject(S, host) = ProcessPath(path)
        /\ S.tokens \in Seq(Token) /\ Len(S.tokens) \in Nat
    BY <1>1, ProcessPathType, PathRestored, RequestTokens
  <1>3. /\ WebSocketPublishSubject(host, path).tokens = S.tokens
    BY DEF WebSocketPublishSubject, PublishSubject, Subject
  <1>4. PathOf(t) = Absolute(found)
    BY <1>3 DEF PathOf, SubjectOf, WebSocketPathInSubject
  <1>5. PathOf(t) \in Seq(Token)
    <2>1. SubSeq(S.tokens, 2, Len(S.tokens)) \in Seq(Token)
      <3> HIDE DEF S
      <3> QED
        BY <1>2
    <2>2. found \in Seq(Token)
      BY <1>2, <2>1
    <2>3. <<Empty>> \in Seq(Token)
      BY BeginningsAssumption
    <2> HIDE DEF found
    <2> QED
      BY <1>4, <2>2, <2>3 DEF Absolute
  <1>6. ASSUME t.ws, Len(t.host.labels) = 1
        PROVE  found = ProcessPath(path)
    <2>1. Len(ReverseHostname(host)) = 1
      BY <1>1, <1>6, ReverseHostnameType
    <2>2. PathInSubject(S, host) = SubSeq(S.tokens, 2, Len(S.tokens))
      BY <2>1 DEF PathInSubject
    <2> QED
      BY <1>2, <1>6, <2>2
  <1>7. ASSUME t.ws => Len(t.host.labels) = 1
        PROVE  found = ProcessPath(path)
    BY <1>1, <1>2, <1>6, <1>7
  <1> HIDE DEF found
  <1> QED
    BY <1>1, <1>4, <1>5, <1>7, CleanPath

\* A request was published before a subscription has it.
Mail ==
    /\ queue \in [Subscriptions -> Seq(Traffic)]
    /\ inHand \in [Subscriptions -> SUBSET Traffic]
    /\ published \in [Traffic -> 0..serving]
    /\ \A sub \in Subscriptions :
          /\ \A n \in DOMAIN queue[sub] : published[queue[sub][n]] > 0
          /\ \A t \in inHand[sub] : published[t] > 0

\* What became of the copies of requests, as far as it is about the past.
Results ==
    /\ served \subseteq Copy
    /\ \A s \in served : s.until <= serving
    /\ RoutedByPrefix
    /\ FallbackHasCause

\* A queue that a subscription loses is empty.
LEMMA LostQueues ==
    ASSUME Mail, NEW gone, Unsubscribe(gone), UNCHANGED <<inHand, published, serving>>
    PROVE  Mail'
  <1>1. queue' = [sub \in Subscriptions |-> IF live[sub] = gone[sub] THEN <<>> ELSE queue[sub]]
    BY DEF Unsubscribe
  <1>2. \A sub \in Subscriptions : queue'[sub] = <<>> \/ queue'[sub] = queue[sub]
    BY <1>1
  <1>3. queue' \in [Subscriptions -> Seq(Traffic)]
    <2>1. \A sub \in Subscriptions : queue[sub] \in Seq(Traffic) /\ <<>> \in Seq(Traffic)
      BY DEF Mail
    <2> QED
      BY <1>1, <2>1
  <1>4. \A sub \in Subscriptions : \A n \in DOMAIN queue'[sub] : published[queue'[sub][n]] > 0
    <2> SUFFICES ASSUME NEW sub \in Subscriptions, NEW n \in DOMAIN queue'[sub]
                 PROVE  published[queue'[sub][n]] > 0
      OBVIOUS
    <2>1. queue'[sub] = queue[sub]
      BY <1>2
    <2> QED
      BY <2>1 DEF Mail
  <1> QED
    BY <1>3, <1>4 DEF Mail

\* Steps of proxies, callbacks and the controller keep Mail.
LEMMA MailStep ==
    ASSUME IInv, Progress, Mail, [Next]_vars
    PROVE  Mail'
  <1>1. serving \in Nat /\ serving' \in Nat /\ serving <= serving' /\ 0 < serving
    BY ProgressStep DEF Progress, IInv, Notified
  <1>2. ASSUME UNCHANGED <<queue, inHand, published>>
        PROVE  Mail'
    <2>1. published' \in [Traffic -> 0..serving']
      <3>1. 0..serving \subseteq 0..serving'
        BY <1>1
      <3> QED
        BY <1>2, <3>1 DEF Mail
    <2> QED
      BY <1>2, <2>1 DEF Mail
  <1>3. ASSUME NEW t \in Traffic, Publish(t)
        PROVE  Mail'
    <2>1. /\ published' = [published EXCEPT ![t] = serving]
          /\ queue' = [sub \in Subscriptions |->
                          IF Receives(sub, t) THEN Append(queue[sub], t) ELSE queue[sub]]
          /\ UNCHANGED <<inHand, serving>>
      BY <1>3 DEF Publish, controllerVars
    <2>2. /\ published' \in [Traffic -> 0..serving']
          /\ \A x \in Traffic : published[x] > 0 => published'[x] > 0
          /\ published'[t] > 0
      BY <1>1, <2>1 DEF Mail
    <2>3. ASSUME NEW sub \in Subscriptions
          PROVE  /\ queue'[sub] \in Seq(Traffic)
                 /\ \A n \in DOMAIN queue'[sub] : published'[queue'[sub][n]] > 0
      <3> DEFINE q == queue[sub]
      <3>1. /\ q \in Seq(Traffic)
            /\ \A n \in DOMAIN q : q[n] \in Traffic /\ published[q[n]] > 0
        BY DEF Mail
      <3>2. queue'[sub] = Append(q, t) \/ queue'[sub] = q
        BY <2>1
      <3> HIDE DEF q
      <3>3. /\ Append(q, t) \in Seq(Traffic)
            /\ \A n \in DOMAIN Append(q, t) :
                  (n \in DOMAIN q /\ Append(q, t)[n] = q[n]) \/ Append(q, t)[n] = t
        BY <3>1
      <3> QED
        BY <2>2, <3>1, <3>2, <3>3
    <2>4. queue' \in [Subscriptions -> Seq(Traffic)]
      BY <2>1, <2>3
    <2>5. \A sub \in Subscriptions : \A x \in inHand'[sub] : published'[x] > 0
      BY <2>1, <2>2 DEF Mail
    <2> QED
      BY <2>1, <2>2, <2>3, <2>4, <2>5 DEF Mail
  <1>4. ASSUME NEW sub \in Subscriptions, Callback(sub)
        PROVE  Mail'
    <2> DEFINE q == queue[sub]
    <2>1. /\ q # <<>> /\ q \in Seq(Traffic)
          /\ inHand' = [inHand EXCEPT ![sub] = {Head(q)}]
          /\ queue' = [queue EXCEPT ![sub] = Tail(q)]
          /\ UNCHANGED <<published, serving>>
          /\ \A n \in DOMAIN q : published[q[n]] > 0
      BY <1>4 DEF Callback, Mail, controllerVars
    <2>2. /\ Tail(q) \in Seq(Traffic)
          /\ \A n \in DOMAIN Tail(q) : published[Tail(q)[n]] > 0
          /\ Head(q) \in Traffic /\ published[Head(q)] > 0
      <3> HIDE DEF q
      <3>1. /\ Tail(q) \in Seq(Traffic) /\ Head(q) \in Traffic
            /\ 1 \in DOMAIN q /\ Head(q) = q[1]
            /\ \A n \in DOMAIN Tail(q) : n + 1 \in DOMAIN q /\ Tail(q)[n] = q[n + 1]
        BY <2>1
      <3> QED
        BY <2>1, <3>1
    <2> HIDE DEF q
    <2>3. queue' \in [Subscriptions -> Seq(Traffic)] /\ inHand' \in [Subscriptions -> SUBSET Traffic]
      BY <2>1, <2>2 DEF Mail
    <2>4. ASSUME NEW x \in Subscriptions
          PROVE  /\ \A n \in DOMAIN queue'[x] : published[queue'[x][n]] > 0
                 /\ \A t \in inHand'[x] : published[t] > 0
      <3>1. CASE x = sub
        <4>1. queue'[x] = Tail(q) /\ inHand'[x] = {Head(q)}
          BY <2>1, <3>1 DEF Mail
        <4> QED
          BY <2>2, <4>1
      <3>2. CASE x # sub
        <4>1. queue'[x] = queue[x] /\ inHand'[x] = inHand[x]
          BY <2>1, <3>2 DEF Mail
        <4> QED
          BY <4>1 DEF Mail
      <3> QED
        BY <3>1, <3>2
    <2> QED
      BY <2>1, <2>3, <2>4 DEF Mail
  <1>5. ASSUME NEW sub \in Subscriptions, Forward(sub)
        PROVE  Mail'
    <2>1. inHand' = [inHand EXCEPT ![sub] = {}] /\ UNCHANGED <<queue, published, serving>>
      BY <1>5 DEF Forward, controllerVars
    <2>2. \A x \in Subscriptions : inHand'[x] \subseteq inHand[x]
      BY <2>1 DEF Mail
    <2>3. inHand' \in [Subscriptions -> SUBSET Traffic]
      BY <2>1 DEF Mail
    <2> QED
      BY <2>1, <2>2, <2>3 DEF Mail
  <1>6. ASSUME NEW host \in Hosts, RemoveHost(host) \/ SubscribeFails(host)
        PROVE  Mail'
    <2>1. UNCHANGED <<inHand, published, serving>>
      BY <1>6 DEF RemoveHost, SubscribeFails, controllerVars, messageVars
    <2>2. \E gone : Unsubscribe(gone)
      BY <1>6 DEF RemoveHost, SubscribeFails
    <2> QED
      BY <2>1, <2>2, LostQueues
  <1>7. CASE \/ \E i \in Ingresses : Change(i)
             \/ List \/ Update \/ Unlock
             \/ \E host \in Hosts : SubscribeNext(host)
             \/ UNCHANGED vars
    <2>1. UNCHANGED <<queue, inHand, published>>
      BY <1>7 DEF Change, List, Update, Unlock, SubscribeNext, vars, messageVars
    <2> QED
      BY <1>2, <2>1
  <1>8. CASE Panic
    <2>1. /\ queue' = [sub \in Subscriptions |-> <<>>]
          /\ inHand' = [sub \in Subscriptions |-> {}]
          /\ UNCHANGED <<published, serving>>
      BY <1>8 DEF Panic, controllerVars
    <2>2. <<>> \in Seq(Traffic)
      OBVIOUS
    <2> QED
      BY <2>1, <2>2 DEF Mail
  <1> QED
    BY <1>3, <1>4, <1>5, <1>6, <1>7, <1>8 DEF Next, Reconcile

\* A callback that finds no route finds no rule in the Ingresses served at that time, and
\* one that finds the path it was asked for resolves it as such.
LEMMA ForwardResults ==
    ASSUME IInv, Progress, Mail, Results, NEW sub \in Subscriptions, Forward(sub)
    PROVE  Results'
  <1> DEFINE Done(t) == [request |-> t, sub |-> sub,
                         to |-> Resolve(table, t.host, PathOf(t)),
                         want |-> Resolve(table, t.host, Absolute(t.path)),
                         from |-> published[t], until |-> serving]
  <1>1. PICK t \in inHand[sub] : served' = served \cup {Done(t)}
    BY DEF Forward
  <1>2. UNCHANGED <<versions, serving, table>>
    BY DEF Forward, controllerVars
  <1>3. t \in Traffic /\ published[t] \in 1..serving
    <2>1. t \in Traffic /\ published[t] > 0 /\ published[t] \in 0..serving
      BY DEF Mail
    <2>2. serving \in Nat
      BY DEF Progress, IInv, Notified
    <2> QED
      BY <2>1, <2>2
  <1>4. /\ serving \in 1..Len(versions) /\ Len(versions) \in Nat
        /\ serving \in 1..(MaxChanges + 1)
    BY IngressAssumption DEF Progress, IInv, Notified
  <1>5. \A host, path : \A routes \in SUBSET AllRoutes :
           Resolve(routes, host, path) \in SUBSET {r.backend : r \in AllRoutes}
    BY DEF Resolve, Matching
  <1>6. /\ table \in SUBSET AllRoutes
        /\ \A host, path : \A i \in Ingresses :
              Matching(RoutesOf(versions[serving][i]), host, path) # {} =>
                 Matching(table, host, path) # {}
    <2>1. \A i \in Ingresses : versions[serving][i] \in Contents[i]
      BY <1>4 DEF Progress
    <2>2. table \in Tables(versions[serving])
      BY DEF Progress
    <2> QED
      BY <2>1, <2>2, TableCovers
  <1>7. Done(t) \in Copy
    <2>1. published[t] \in 1..(MaxChanges + 1)
      <3>1. MaxChanges \in Nat
        BY IngressAssumption
      <3> QED
        BY <1>3, <1>4, <3>1
    <2>2. /\ Done(t).to \in SUBSET {r.backend : r \in AllRoutes}
          /\ Done(t).want \in SUBSET {r.backend : r \in AllRoutes}
      BY <1>5, <1>6
    <2> QED
      BY <1>3, <1>4, <2>1, <2>2 DEF Copy
  <1>8. Done(t).until <= serving
    BY <1>4
  <1>9. /\ Done(t).request.ws => Len(Done(t).request.host.labels) = 1
        /\ Clean(Done(t).request.path)
        => Done(t).to = Done(t).want
    <2>1. (t.ws => Len(t.host.labels) = 1) /\ Clean(t.path) => PathOf(t) = Absolute(t.path)
      BY <1>3, PathSeen
    <2> QED
      BY <2>1
  <1>10. ASSUME Done(t).to = {}
         PROVE  \E v \in Done(t).from..Done(t).until : \A i \in Ingresses :
                   Matching(RoutesOf(versions[v][i]), Done(t).request.host, PathOf(Done(t).request)) = {}
    <2>1. Matching(table, t.host, PathOf(t)) = {}
      BY <1>3, <1>6, <1>10, PathSeen, ResolveFinds
    <2>2. \A i \in Ingresses : Matching(RoutesOf(versions[serving][i]), t.host, PathOf(t)) = {}
      BY <1>6, <2>1
    <2>3. serving \in Done(t).from..Done(t).until
      BY <1>3, <1>4
    <2> QED
      BY <2>2, <2>3
  <1> HIDE DEF Done
  <1>11. served' \subseteq Copy /\ \A s \in served' : s.until <= serving'
    BY <1>1, <1>2, <1>7, <1>8 DEF Results
  <1>12. RoutedByPrefix'
    BY <1>1, <1>9 DEF Results, RoutedByPrefix
  <1>13. FallbackHasCause'
    BY <1>1, <1>2, <1>10 DEF Results, FallbackHasCause
  <1> QED
    BY <1>11, <1>12, <1>13 DEF Results

\* No other step has results, and none changes a version they speak of.
LEMMA ResultsStep ==
    ASSUME IInv, Progress, Mail, Results, [Next]_vars
    PROVE  Results'
  <1>1. CASE \E sub \in Subscriptions : Forward(sub)
    BY <1>1, ForwardResults
  <1>2. CASE UNCHANGED served
    <2>1. /\ \A v \in DOMAIN versions : versions'[v] = versions[v]
          /\ serving' \in Nat /\ serving <= serving' /\ serving \in Nat
          /\ serving \in 1..Len(versions) /\ Len(versions) \in Nat
          /\ DOMAIN versions = 1..Len(versions)
      BY ProgressStep DEF Progress, IInv, Notified
    <2>2. \A s \in served : s.from \in Nat /\ s.from >= 1 /\ s.until \in Nat /\ s.until <= serving
      BY IngressAssumption DEF Results, Copy
    <2>3. served' \subseteq Copy /\ \A s \in served' : s.until <= serving'
      BY <1>2, <2>1, <2>2 DEF Results
    <2>4. RoutedByPrefix'
      BY <1>2 DEF Results, RoutedByPrefix
    <2>5. FallbackHasCause'
      <3> SUFFICES ASSUME NEW s \in served, s.to = {}
                   PROVE  \E v \in s.from..s.until : \A i \in Ingresses :
                             Matching(RoutesOf(versions'[v][i]), s.request.host, PathOf(s.request)) = {}
        BY <1>2 DEF FallbackHasCause
      <3>1. PICK v \in s.from..s.until : \A i \in Ingresses :
               Matching(RoutesOf(versions[v][i]), s.request.host, PathOf(s.request)) = {}
        BY DEF Results, FallbackHasCause
      <3>2. v \in DOMAIN versions
        BY <2>1, <2>2
      <3>3. versions'[v] = versions[v]
        BY <2>1, <3>2
      <3> QED
        BY <3>1, <3>3
    <2> QED
      BY <2>3, <2>4, <2>5 DEF Results
  <1>3. (\E sub \in Subscriptions : Forward(sub)) \/ UNCHANGED served
    BY DEF Next, Reconcile, Change, List, Update, Panic, Unlock, RemoveHost, SubscribeNext,
       SubscribeFails, Publish, Callback, vars, messageVars
  <1> QED
    BY <1>1, <1>2, <1>3

\* All of it holds throughout.
RoutingInv == IInv /\ Progress /\ Mail /\ Results

\* RoutingInv is inductive, and so an invariant.
LEMMA RoutingInvariance == Spec => []RoutingInv
  <1>1. Init => RoutingInv
    <2>1. Init => Mail /\ Results
      BY DEF Init, Mail, Results, RoutedByPrefix, FallbackHasCause
    <2> QED
      BY <2>1, InitIInv, InitProgress DEF RoutingInv
  <1>2. RoutingInv /\ [Next]_vars => RoutingInv'
    <2> SUFFICES ASSUME RoutingInv, [Next]_vars
                 PROVE  RoutingInv'
      OBVIOUS
    <2>1. IInv /\ Progress /\ Mail /\ Results
      BY DEF RoutingInv
    <2>2. IInv'
      BY <2>1, IInvStep
    <2> QED
      BY <2>1, <2>2, ProgressStep, MailStep, ResultsStep DEF RoutingInv
  <1> QED
    BY <1>1, <1>2, PTL DEF Spec

\* Type correctness of the controller, its subscriptions and the requests on their way;
\* in particular no host is ever subscribed to twice (state of controller.go and
\* reverse.go:98-193).
THEOREM TypeCorrect == Spec => []TypeOK
  <1>1. RoutingInv => TypeOK
    <2> SUFFICES ASSUME RoutingInv
                 PROVE  TypeOK
      OBVIOUS
    <2>1. IInv /\ Progress /\ Mail /\ Results
      BY DEF RoutingInv
    <2>2. /\ Len(versions) \in 1..(MaxChanges + 1)
          /\ listed \in DOMAIN versions
          /\ notifications \in 0..MaxChanges
      BY <2>1, IngressAssumption DEF IInv, Notified, Progress
    <2>3. activeSubs \in [Subscriptions -> 0..1] /\ live \in [Subscriptions -> 0..1]
      <3>1. \A sub \in Subscriptions :
               activeSubs[sub] = Count(known, sub[1]) /\
               live[sub] = Count(known, sub[1]) + (IF sub[1] \in opening /\ sub[2] <= opened THEN 1 ELSE 0)
        BY <2>1 DEF IInv, Recorded, Subscribed
      <3>2. opening \cap known = {}
        BY <2>1 DEF IInv, Opening
      <3>3. \A sub \in Subscriptions : activeSubs[sub] \in 0..1 /\ live[sub] \in 0..1
        BY <3>1, <3>2 DEF Count
      <3> QED
        BY <2>1, <3>3 DEF IInv, Recorded, Subscribed
    <2>4. opened \in 0..5 /\ pc \in {"idle", "listed", "locked", "dead"}
      BY <2>1 DEF IInv, Opening
    <2>5. /\ table \subseteq AllRoutes
          /\ \A r, o \in table : r.host = o.host /\ r.prefix = o.prefix => r = o
      <3>1. serving \in DOMAIN versions
        BY <2>1, <2>2 DEF IInv, Notified, Progress
      <3>2. \A i \in Ingresses : versions[serving][i] \in Contents[i]
        BY <2>1, <3>1 DEF Progress
      <3>3. table \in Tables(versions[serving])
        BY <2>1 DEF Progress
      <3> QED
        BY <3>2, <3>3, TableCovers DEF IsMap
    <2> QED
      BY <2>1, <2>2, <2>3, <2>4, <2>5 DEF TypeOK, Progress, Mail, Results
  <1> QED
    BY <1>1, RoutingInvariance, PTL

\* Whatever the rules and paths, k8srd resolves a plain path it finds in a subject to the
\* backend its rules give that path (controller.go:55-96, reverse.go:240-248, 533-541).
THEOREM PrefixesAreKept == Spec => []RoutedByPrefix
  <1>1. RoutingInv => RoutedByPrefix
    BY DEF RoutingInv, Results
  <1> QED
    BY <1>1, RoutingInvariance, PTL

\* However Ingresses change and dispute paths, a request falls back to its own host only
\* if some version served meanwhile has no rule for its path in any Ingress
\* (controller.go:75-96, 157-199, reverse.go:286-293).
THEOREM FallbacksHaveCauses == Spec => []FallbackHasCause
  <1>1. RoutingInv => FallbackHasCause
    BY DEF RoutingInv, Results
  <1> QED
    BY <1>1, RoutingInvariance, PTL
================================================================================
