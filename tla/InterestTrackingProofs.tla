------------------------ MODULE InterestTrackingProofs ------------------------
(* Interest tracking, for every number of services, routes and periods: the *)
(* invariant is that an interest a running service has registered is no      *)
(* older than the registrations of it that were lost, and one more period    *)
(* while the registration of this period is still to come.                   *)
EXTENDS InterestTracking, TLAPS

\* A registration of i by s is in the tracker's queue.
Coming(s, i) == \E k \in DOMAIN regQ : regQ[k] = [service |-> s, interest |-> i]

\* The registration of i by s that belongs to this period is not handled yet.
Due(s, i) ==
    \/ publisher[s] = "check"
    \/ publisher[s] = "publishing" /\ i \in toRegister[s]
    \/ Coming(s, i)

\* The publisher loop runs from Run until Shutdown cancels it.
LoopRuns ==
    \A s \in Services :
        /\ phase[s] = "new" => publisher[s] = "off"
        /\ phase[s] \in {"running", "unregistering"} =>
              publisher[s] \in {"check", "publishing", "sleeping"}
        /\ phase[s] = "down" => publisher[s] = "returned"

\* The tracker hears of nobody who has not started.
HeardStarted ==
    /\ \A h \in heard : phase[h[1]] # "new"
    /\ \A k \in DOMAIN regQ : phase[regQ[k].service] # "new"

\* How old an interest of a running service can be.
Fresh ==
    prompt => \A s \in Services : \A i \in Offers[s] \cap interestMap :
        phase[s] = "running" /\ <<s, i>> \in heard =>
            \/ interestSeen[i] <= losses
            \/ interestSeen[i] <= losses + 1 /\ Due(s, i)

IInv == TypeOK /\ LoopRuns /\ HeardStarted /\ Fresh
-------------------------------------------------------------------------------

\* What leaves a queue and what stays.
LEMMA QueueTail ==
    ASSUME NEW q \in Seq(Message), q # <<>>
    PROVE  /\ Head(q) = q[1] /\ Head(q) \in Message /\ Tail(q) \in Seq(Message)
           /\ Head(q).service \in Services /\ Head(q).interest \in Interest
           /\ 1 \in DOMAIN q
           /\ Tail(q) # q
           /\ Len(Tail(q)) < Len(q)
           /\ \A k \in DOMAIN Tail(q) : k + 1 \in DOMAIN q /\ Tail(q)[k] = q[k + 1]
           /\ \A k \in DOMAIN q : k = 1 \/ (k - 1 \in DOMAIN Tail(q) /\ Tail(q)[k - 1] = q[k])
  <1>1. Head(q) = q[1] /\ Head(q) \in Message /\ Tail(q) \in Seq(Message) /\ 1 \in DOMAIN q
    OBVIOUS
  <1>2. Head(q).service \in Services /\ Head(q).interest \in Interest
    BY <1>1 DEF Message
  <1>3. Len(Tail(q)) = Len(q) - 1 /\ Len(q) \in Nat
    OBVIOUS
  <1>4. Len(Tail(q)) < Len(q)
    BY <1>3
  <1>6. Tail(q) # q
    BY <1>4
  <1>5. /\ \A k \in DOMAIN Tail(q) : k + 1 \in DOMAIN q /\ Tail(q)[k] = q[k + 1]
        /\ \A k \in DOMAIN q : k = 1 \/ (k - 1 \in DOMAIN Tail(q) /\ Tail(q)[k - 1] = q[k])
    OBVIOUS
  <1> QED
    BY <1>1, <1>2, <1>4, <1>5, <1>6

\* What joins a queue.
LEMMA QueueAppend ==
    ASSUME NEW q \in Seq(Message), NEW m \in Message
    PROVE  /\ Append(q, m) \in Seq(Message)
           /\ Len(Append(q, m)) = Len(q) + 1 /\ Len(q) \in Nat
           /\ DOMAIN q \subseteq DOMAIN Append(q, m)
           /\ \A k \in DOMAIN q : Append(q, m)[k] = q[k]
           /\ Len(q) + 1 \in DOMAIN Append(q, m)
           /\ Append(q, m)[Len(q) + 1] = m
           /\ \A k \in DOMAIN Append(q, m) : k \in DOMAIN q \/ k = Len(q) + 1
  OBVIOUS

\* What a service publishes in a step is an interest it offers.
LEMMA PublishEffect ==
    ASSUME TypeOK, NEW s \in Services, PublishRegister(s)
    PROVE  /\ publisher[s] = "publishing"
           /\ UNCHANGED <<phase, publisher, toUnregister, unregQ, trackerVars, restarts, prompt>>
           /\ \E i \in Interest :
                 /\ i \in toRegister[s]
                 /\ toRegister' = [toRegister EXCEPT ![s] = @ \ {i}]
                 /\ \/ regQ' = Append(regQ, [service |-> s, interest |-> i]) /\ UNCHANGED losses
                    \/ losses' = losses + 1 /\ losses < MaxLost /\ UNCHANGED regQ
                 /\ [service |-> s, interest |-> i] \in Message
  BY DEF PublishRegister, TypeOK, Message

\* A step keeps the types.
LEMMA TypeStep == TypeOK /\ [Next]_vars => TypeOK'
  <1> SUFFICES ASSUME TypeOK, [Next]_vars
               PROVE  TypeOK'
    OBVIOUS
  <1>1. UNCHANGED trackerVars => /\ interestMap' \subseteq Interest
                                 /\ interestSeen' \in [interestMap' -> 0..(TTL + 1)]
                                 /\ heard' \subseteq Services \X Interest
    BY DEF TypeOK, trackerVars
  <1>2. ASSUME NEW s \in Services, Run(s) \/ BeginShutdown(s)
        PROVE  TypeOK'
    BY <1>1, <1>2, TrackingAssumption DEF TypeOK, Run, BeginShutdown, boundVars
  <1>3. ASSUME NEW s \in Services, PublisherChecks(s) \/ PublisherSleeps(s)
        PROVE  TypeOK'
    BY <1>1, <1>3, TrackingAssumption DEF TypeOK, PublisherChecks, PublisherSleeps, AfterRound, boundVars
  <1>4. ASSUME NEW s \in Services, PublishRegister(s)
        PROVE  TypeOK'
    <2>1. PICK i \in Interest :
             /\ toRegister' = [toRegister EXCEPT ![s] = @ \ {i}]
             /\ \/ regQ' = Append(regQ, [service |-> s, interest |-> i]) /\ UNCHANGED losses
                \/ losses' = losses + 1 /\ losses < MaxLost /\ UNCHANGED regQ
             /\ [service |-> s, interest |-> i] \in Message
      BY <1>4, PublishEffect
    <2>2. regQ \in Seq(Message) /\ losses \in 0..MaxLost /\ MaxLost \in Nat
      BY TrackingAssumption DEF TypeOK
    <2>4. regQ' \in Seq(Message)
      BY <2>1, <2>2, QueueAppend
    <2>5. losses' \in 0..MaxLost
      BY <2>1, <2>2
    <2>3. toRegister' \in [Services -> SUBSET Interest]
      BY <2>1 DEF TypeOK
    <2> QED
      BY <1>1, <1>4, <2>3, <2>4, <2>5 DEF PublishRegister, TypeOK
  <1>5. ASSUME NEW s \in Services, PublishUnregister(s)
        PROVE  TypeOK'
    <2>1. PICK i \in toUnregister[s] :
             /\ toUnregister' = [toUnregister EXCEPT ![s] = @ \ {i}]
             /\ \/ unregQ' = Append(unregQ, [service |-> s, interest |-> i]) /\ UNCHANGED losses
                \/ losses' = losses + 1 /\ losses < MaxLost /\ UNCHANGED unregQ
      BY <1>5 DEF PublishUnregister
    <2>2. [service |-> s, interest |-> i] \in Message
      BY DEF TypeOK, Message
    <2>3. unregQ \in Seq(Message) /\ losses \in 0..MaxLost /\ MaxLost \in Nat
      BY TrackingAssumption DEF TypeOK
    <2>5. unregQ' \in Seq(Message)
      BY <2>1, <2>2, <2>3, QueueAppend
    <2>6. losses' \in 0..MaxLost
      BY <2>1, <2>3
    <2>4. toUnregister' \in [Services -> SUBSET Interest]
      BY <2>1 DEF TypeOK
    <2> QED
      BY <1>1, <1>5, <2>4, <2>5, <2>6 DEF PublishUnregister, TypeOK
  <1>6. ASSUME NEW s \in Services, Cancel(s) \/ FinishShutdown(s)
        PROVE  TypeOK'
    BY <1>1, <1>6 DEF TypeOK, Cancel, FinishShutdown, boundVars
  <1>7. CASE HandleRegister
    <2> DEFINE m == Head(regQ)
    <2>1. regQ # <<>> /\ regQ \in Seq(Message)
      BY <1>7 DEF HandleRegister, TypeOK
    <2>2. m.service \in Services /\ m.interest \in Interest /\ regQ' \in Seq(Message)
      BY <1>7, <2>1, QueueTail DEF HandleRegister
    <2>3. /\ interestMap' = interestMap \cup {m.interest}
          /\ interestSeen' = [j \in interestMap \cup {m.interest} |-> IF j = m.interest THEN 0 ELSE interestSeen[j]]
          /\ heard' = heard \cup {<<m.service, m.interest>>}
      BY <1>7 DEF HandleRegister, Refreshed
    <2> HIDE DEF m
    <2>4. /\ interestMap' \subseteq Interest
          /\ interestSeen' \in [interestMap' -> 0..(TTL + 1)]
          /\ heard' \subseteq Services \X Interest
      BY <2>2, <2>3, TrackingAssumption DEF TypeOK
    <2> QED
      BY <1>7, <2>2, <2>4 DEF HandleRegister, serviceVars, boundVars, TypeOK
  <1>8. ASSUME NEW gone, Forget(gone)
        PROVE  interestMap' \subseteq Interest /\ interestSeen' \in [interestMap' -> 0..(TTL + 1)]
    BY <1>8 DEF Forget, TypeOK
  <1>9. CASE HandleUnregister
    <2>1. unregQ' \in Seq(Message)
      BY <1>9, QueueTail DEF HandleUnregister, TypeOK
    <2> QED
      BY <1>8, <1>9, <2>1 DEF HandleUnregister, serviceVars, boundVars, TypeOK
  <1>10. CASE EvictRound
    BY <1>8, <1>10 DEF EvictRound, serviceVars, boundVars, TypeOK
  <1>11. CASE RestartProxy
    <2>1. <<>> \in Seq(Message) /\ <<>> \in [{} -> 0..(TTL + 1)]
      OBVIOUS
    <2>2. restarts' \in 0..MaxRestarts
      BY <1>11, TrackingAssumption DEF RestartProxy, TypeOK
    <2> QED
      BY <1>11, <2>1, <2>2 DEF RestartProxy, serviceVars, TypeOK
  <1>12. CASE Tick
    <2>1. interestSeen' \in [interestMap -> 0..(TTL + 1)]
      BY <1>12, TrackingAssumption DEF Tick, TypeOK
    <2>2. publisher' \in [Services -> {"off", "check", "publishing", "sleeping", "returned"}]
      BY <1>12 DEF Tick, TypeOK
    <2> QED
      BY <1>12, <2>1, <2>2 DEF Tick, boundVars, TypeOK
  <1>13. CASE UNCHANGED vars
    BY <1>13 DEF vars, serviceVars, trackerVars, boundVars, TypeOK
  <1> QED
    BY <1>2, <1>3, <1>4, <1>5, <1>6, <1>7, <1>9, <1>10, <1>11, <1>12, <1>13 DEF Next, ServiceStep

\* Run starts the loop, Shutdown waits for its return.
LEMMA LoopStep == TypeOK /\ LoopRuns /\ [Next]_vars => LoopRuns'
  <1> SUFFICES ASSUME TypeOK, LoopRuns, [Next]_vars
               PROVE  LoopRuns'
    OBVIOUS
  <1>1. CASE UNCHANGED <<phase, publisher>>
    BY <1>1 DEF LoopRuns
  <1>2. ASSUME NEW s \in Services, Run(s) \/ BeginShutdown(s) \/ Cancel(s) \/ FinishShutdown(s)
        PROVE  LoopRuns'
    BY <1>2 DEF LoopRuns, Run, BeginShutdown, Cancel, FinishShutdown, WaitOver, TypeOK
  <1>3. ASSUME NEW s \in Services, PublisherChecks(s) \/ PublisherSleeps(s)
        PROVE  LoopRuns'
    BY <1>3 DEF LoopRuns, PublisherChecks, PublisherSleeps, AfterRound, Cancelled, TypeOK
  <1>4. CASE Tick
    BY <1>4 DEF LoopRuns, Tick, TypeOK
  <1> QED
    BY <1>1, <1>2, <1>3, <1>4
    DEF Next, ServiceStep, PublishRegister, PublishUnregister, HandleRegister, HandleUnregister,
        EvictRound, RestartProxy, vars, serviceVars

\* Only a service that has started publishes.
LEMMA HeardStep == TypeOK /\ LoopRuns /\ HeardStarted /\ [Next]_vars => HeardStarted'
  <1> SUFFICES ASSUME TypeOK, LoopRuns, HeardStarted, [Next]_vars
               PROVE  HeardStarted'
    OBVIOUS
  <1>1. \A s \in Services : phase[s] # "new" => phase'[s] # "new"
    <2>1. CASE UNCHANGED phase
      BY <2>1
    <2>2. ASSUME NEW s \in Services, Run(s) \/ BeginShutdown(s) \/ Cancel(s) \/ FinishShutdown(s)
          PROVE  \A t \in Services : phase[t] # "new" => phase'[t] # "new"
      BY <2>2 DEF Run, BeginShutdown, Cancel, FinishShutdown, TypeOK
    <2> QED
      BY <2>1, <2>2
      DEF Next, ServiceStep, PublisherChecks, PublisherSleeps, PublishRegister, PublishUnregister,
          HandleRegister, HandleUnregister, EvictRound, RestartProxy, Tick, vars, serviceVars
  <1>2. \A h \in heard : h[1] \in Services /\ phase'[h[1]] # "new"
    BY <1>1 DEF TypeOK, HeardStarted
  <1>3. \A k \in DOMAIN regQ : regQ[k].service \in Services /\ phase'[regQ[k].service] # "new"
    <2>1. \A k \in DOMAIN regQ : regQ[k] \in Message
      BY DEF TypeOK
    <2>2. \A k \in DOMAIN regQ : regQ[k].service \in Services
      BY <2>1 DEF Message
    <2> QED
      BY <1>1, <2>2 DEF HeardStarted
  <1>4. CASE UNCHANGED <<heard, regQ>>
    BY <1>2, <1>3, <1>4 DEF HeardStarted
  <1>5. ASSUME NEW s \in Services, PublishRegister(s)
        PROVE  HeardStarted'
    <2>1. UNCHANGED heard /\ phase'[s] # "new"
      BY <1>5 DEF PublishRegister, trackerVars, LoopRuns
    <2>2. PICK i \in Interest :
             /\ regQ' = Append(regQ, [service |-> s, interest |-> i]) \/ UNCHANGED regQ
             /\ [service |-> s, interest |-> i] \in Message
      BY <1>5, PublishEffect
    <2>3. CASE regQ' = Append(regQ, [service |-> s, interest |-> i])
      <3>1. \A k \in DOMAIN regQ' :
               (k \in DOMAIN regQ /\ regQ'[k] = regQ[k]) \/ regQ'[k].service = s
        BY <2>2, <2>3, QueueAppend DEF TypeOK
      <3> QED
        BY <1>2, <1>3, <2>1, <3>1 DEF HeardStarted
    <2> QED
      BY <1>4, <2>1, <2>2, <2>3
  <1>6. CASE HandleRegister
    <2>1. regQ # <<>> /\ regQ \in Seq(Message) /\ regQ' = Tail(regQ)
      BY <1>6 DEF HandleRegister, TypeOK
    <2>2. heard' = heard \cup {<<Head(regQ).service, Head(regQ).interest>>}
      BY <1>6 DEF HandleRegister
    <2>3. Head(regQ) = regQ[1] /\ 1 \in DOMAIN regQ
      BY <2>1, QueueTail
    <2>4. \A h \in heard' : phase'[h[1]] # "new"
      BY <1>2, <1>3, <2>2, <2>3
    <2>5. \A k \in DOMAIN regQ' : phase'[regQ'[k].service] # "new"
      BY <1>3, <2>1, QueueTail
    <2> QED
      BY <2>4, <2>5 DEF HeardStarted
  <1>7. CASE RestartProxy
    BY <1>7 DEF RestartProxy, HeardStarted
  <1> QED
    BY <1>4, <1>5, <1>6, <1>7
    DEF Next, ServiceStep, Run, BeginShutdown, Cancel, FinishShutdown, PublisherChecks,
        PublisherSleeps, PublishUnregister, HandleUnregister, EvictRound, Tick, vars, trackerVars

\* A step that neither ages nor adds an interest.
LEMMA FreshKept ==
    ASSUME TypeOK, TypeOK', Fresh, UNCHANGED <<heard, prompt>>,
           losses <= losses',
           interestMap' \subseteq interestMap,
           \A i \in interestMap' : interestSeen'[i] = interestSeen[i],
           \A s \in Services : \A i \in Offers[s] :
              phase'[s] = "running" /\ <<s, i>> \in heard =>
                 /\ phase[s] = "running"
                 /\ Due(s, i) => Due(s, i)' \/ losses + 1 <= losses'
    PROVE  Fresh'
  <1> SUFFICES ASSUME prompt, NEW s \in Services, NEW i \in Offers[s] \cap interestMap',
                      phase'[s] = "running", <<s, i>> \in heard
               PROVE  \/ interestSeen'[i] <= losses'
                      \/ interestSeen'[i] <= losses' + 1 /\ Due(s, i)'
    BY DEF Fresh
  <1>1. /\ interestSeen[i] \in Nat /\ interestSeen'[i] = interestSeen[i]
        /\ losses \in Nat /\ losses' \in Nat
    BY TrackingAssumption DEF TypeOK
  <1>2. \/ interestSeen[i] <= losses
        \/ interestSeen[i] <= losses + 1 /\ Due(s, i)
    BY DEF Fresh
  <1> QED
    BY <1>1, <1>2

\* A round publishes what it is due to publish, and a period ends only after it.
LEMMA FreshStep == TypeOK /\ LoopRuns /\ HeardStarted /\ Fresh /\ [Next]_vars => Fresh'
  <1> SUFFICES ASSUME TypeOK, LoopRuns, HeardStarted, Fresh, [Next]_vars
               PROVE  Fresh'
    OBVIOUS
  <1>1. TypeOK' /\ losses \in Nat /\ TTL \in Nat
    BY TypeStep, TrackingAssumption DEF TypeOK
  <1>2. \A s \in Services : \A i \in Offers[s] : i \in Interest
    BY TrackingAssumption
  <1>3. ASSUME UNCHANGED <<phase, publisher, toRegister, regQ>>
        PROVE  \A s \in Services : \A i \in Offers[s] :
                  phase'[s] = "running" /\ <<s, i>> \in heard =>
                     /\ phase[s] = "running"
                     /\ Due(s, i) => Due(s, i)' \/ losses + 1 <= losses'
    BY <1>3 DEF Due, Coming
  <1>4. ASSUME NEW s \in Services, Run(s)
        PROVE  Fresh'
    <2>1. \A i : <<s, i>> \notin heard
      <3>1. ASSUME NEW i, <<s, i>> \in heard
            PROVE  FALSE
        <4>1. <<s, i>>[1] = s
          OBVIOUS
        <4>2. phase[<<s, i>>[1]] # "new"
          BY <3>1 DEF HeardStarted
        <4> QED
          BY <1>4, <4>1, <4>2 DEF Run
      <3> QED
        BY <3>1
    <2>2. /\ UNCHANGED <<trackerVars, boundVars, regQ, toRegister>>
          /\ \A t \in Services \ {s} : phase'[t] = phase[t] /\ publisher'[t] = publisher[t]
      BY <1>4 DEF Run, TypeOK
    <2>3. \A t \in Services : \A i \in Offers[t] :
             phase'[t] = "running" /\ <<t, i>> \in heard =>
                /\ phase[t] = "running"
                /\ Due(t, i) => Due(t, i)' \/ losses + 1 <= losses'
      BY <2>1, <2>2 DEF Due, Coming
    <2> QED
      BY <1>1, <2>2, <2>3, FreshKept DEF trackerVars, boundVars
  <1>5. ASSUME NEW s \in Services, BeginShutdown(s) \/ Cancel(s) \/ FinishShutdown(s)
        PROVE  Fresh'
    <2>1. /\ UNCHANGED <<trackerVars, boundVars, regQ, toRegister, publisher>>
          /\ \A t \in Services : phase'[t] = "running" => phase[t] = "running"
      BY <1>5 DEF BeginShutdown, Cancel, FinishShutdown, TypeOK
    <2>2. \A t \in Services : \A i \in Offers[t] :
             phase'[t] = "running" /\ <<t, i>> \in heard =>
                /\ phase[t] = "running"
                /\ Due(t, i) => Due(t, i)' \/ losses + 1 <= losses'
      BY <2>1 DEF Due, Coming
    <2> QED
      BY <1>1, <2>1, <2>2, FreshKept DEF trackerVars, boundVars
  <1>6. ASSUME NEW s \in Services, PublisherChecks(s) \/ PublisherSleeps(s)
        PROVE  Fresh'
    <2>1. UNCHANGED <<trackerVars, boundVars, regQ, phase>>
      BY <1>6 DEF PublisherChecks, PublisherSleeps
    <2>2. \A t \in Services : \A i \in Offers[t] :
             phase'[t] = "running" /\ Due(t, i) => Due(t, i)'
      <3>1. CASE PublisherChecks(s)
        BY <2>1, <3>1 DEF PublisherChecks, Cancelled, Due, Coming, TypeOK
      <3>2. CASE PublisherSleeps(s)
        BY <2>1, <3>2 DEF PublisherSleeps, Due, Coming, TypeOK
      <3> QED
        BY <1>6, <3>1, <3>2
    <2> QED
      BY <1>1, <2>1, <2>2, FreshKept DEF trackerVars, boundVars
  <1>7. ASSUME NEW s \in Services, PublishRegister(s)
        PROVE  Fresh'
    <2>1. /\ publisher[s] = "publishing"
          /\ UNCHANGED <<phase, publisher, trackerVars, prompt>>
      BY <1>7 DEF PublishRegister
    <2>2. PICK i \in Interest :
             /\ i \in toRegister[s]
             /\ toRegister' = [toRegister EXCEPT ![s] = @ \ {i}]
             /\ \/ regQ' = Append(regQ, [service |-> s, interest |-> i]) /\ UNCHANGED losses
                \/ losses' = losses + 1 /\ losses < MaxLost /\ UNCHANGED regQ
             /\ [service |-> s, interest |-> i] \in Message
      BY <1>7, PublishEffect
    <2>3. /\ \A t \in Services, j \in Interest :
                j \in toRegister[t] => j \in toRegister'[t] \/ (t = s /\ j = i)
          /\ losses <= losses'
      BY <1>1, <2>2 DEF TypeOK
    <2>4. CASE losses' = losses + 1 /\ UNCHANGED regQ
      <3>1. \A t \in Services : \A j \in Offers[t] : losses + 1 <= losses'
        BY <1>1, <2>4
      <3> QED
        BY <1>1, <2>1, <2>3, <3>1, FreshKept DEF trackerVars
    <2>5. CASE regQ' = Append(regQ, [service |-> s, interest |-> i])
      <3>1. \A t, j : Coming(t, j) => Coming(t, j)'
        BY <2>2, <2>5, QueueAppend DEF Coming, TypeOK
      <3>2. Coming(s, i)'
        BY <2>2, <2>5, QueueAppend DEF Coming, TypeOK
      <3>3. \A t \in Services : \A j \in Offers[t] : Due(t, j) => Due(t, j)'
        BY <1>2, <2>1, <2>3, <3>1, <3>2 DEF Due
      <3> QED
        BY <1>1, <2>1, <2>3, <3>3, FreshKept DEF trackerVars
    <2> QED
      BY <2>2, <2>4, <2>5
  <1>8. ASSUME NEW s \in Services, PublishUnregister(s)
        PROVE  Fresh'
    <2>1. UNCHANGED <<phase, publisher, toRegister, regQ, trackerVars, prompt>> /\ losses <= losses'
      BY <1>1, <1>8 DEF PublishUnregister
    <2> QED
      BY <1>1, <1>3, <2>1, FreshKept DEF trackerVars
  <1>9. CASE HandleRegister
    <2> DEFINE m == Head(regQ)
    <2>1. regQ # <<>> /\ regQ \in Seq(Message) /\ regQ' = Tail(regQ)
      BY <1>9 DEF HandleRegister, TypeOK
    <2>2. /\ interestMap' = interestMap \cup {m.interest}
          /\ interestSeen' = [j \in interestMap \cup {m.interest} |-> IF j = m.interest THEN 0 ELSE interestSeen[j]]
          /\ heard' = heard \cup {<<m.service, m.interest>>}
          /\ UNCHANGED <<phase, publisher, toRegister, losses, prompt>>
      BY <1>9 DEF HandleRegister, Refreshed, serviceVars, boundVars
    <2>3. \A s, i : Coming(s, i) => Coming(s, i)' \/ (s = m.service /\ i = m.interest)
      <3> SUFFICES ASSUME NEW s, NEW i, NEW k \in DOMAIN regQ,
                          regQ[k] = [service |-> s, interest |-> i],
                          ~(s = m.service /\ i = m.interest)
                   PROVE  Coming(s, i)'
        BY DEF Coming
      <3>1. k # 1
        BY <2>1, QueueTail
      <3>2. k - 1 \in DOMAIN Tail(regQ) /\ Tail(regQ)[k - 1] = regQ[k]
        BY <2>1, <3>1, QueueTail
      <3> QED
        BY <2>1, <3>2 DEF Coming
    <2> HIDE DEF m
    <2> SUFFICES ASSUME prompt, NEW s \in Services, NEW i \in Offers[s] \cap interestMap',
                        phase[s] = "running", <<s, i>> \in heard'
                 PROVE  \/ interestSeen'[i] <= losses'
                        \/ interestSeen'[i] <= losses' + 1 /\ Due(s, i)'
      BY <2>2 DEF Fresh
    <2>4. CASE i = m.interest
      BY <1>1, <2>2, <2>4
    <2>5. CASE i # m.interest
      <3>1. i \in interestMap /\ <<s, i>> \in heard /\ interestSeen'[i] = interestSeen[i]
        BY <2>2, <2>5
      <3>2. \/ interestSeen[i] <= losses
            \/ interestSeen[i] <= losses + 1 /\ Due(s, i)
        BY <3>1 DEF Fresh
      <3>3. Due(s, i) => Due(s, i)'
        BY <2>2, <2>3, <2>5 DEF Due
      <3> QED
        BY <2>2, <3>1, <3>2, <3>3
    <2> QED
      BY <2>4, <2>5
  <1>10. CASE HandleUnregister \/ EvictRound
    <2>1. /\ UNCHANGED <<phase, publisher, toRegister, regQ, heard, losses, prompt>>
          /\ interestMap' \subseteq interestMap
          /\ \A i \in interestMap' : interestSeen'[i] = interestSeen[i]
      BY <1>10 DEF HandleUnregister, EvictRound, Forget, serviceVars, boundVars
    <2> QED
      BY <1>1, <1>3, <2>1, FreshKept
  <1>11. CASE RestartProxy
    BY <1>11 DEF RestartProxy, Fresh
  <1>12. CASE Tick
    <2> SUFFICES ASSUME prompt, NEW s \in Services, NEW i \in Offers[s] \cap interestMap,
                        phase[s] = "running", <<s, i>> \in heard
                 PROVE  interestSeen'[i] <= losses + 1 /\ publisher'[s] = "check"
      BY <1>12 DEF Tick, boundVars, Fresh, Due
    <2>1. publisher[s] = "sleeping"
      BY <1>12 DEF Tick, LoopRuns
    <2>2. ~Due(s, i)
      BY <1>12, <2>1 DEF Tick, Due, Coming
    <2>3. interestSeen[i] <= losses /\ interestSeen[i] \in Nat
      BY <2>2 DEF Fresh, TypeOK
    <2> QED
      BY <1>1, <1>12, <2>1, <2>3 DEF Tick, TypeOK
  <1>13. CASE UNCHANGED vars
    BY <1>1, <1>3, <1>13, FreshKept DEF vars, serviceVars, trackerVars, boundVars
  <1> QED
    BY <1>4, <1>5, <1>6, <1>7, <1>8, <1>9, <1>10, <1>11, <1>12, <1>13 DEF Next, ServiceStep

\* The initial states have the invariant.
LEMMA InitInv == Init => IInv
  <1> SUFFICES ASSUME Init
               PROVE  IInv
    OBVIOUS
  <1>1. <<>> \in Seq(Message) /\ <<>> \in [{} -> 0..(TTL + 1)]
    OBVIOUS
  <1>2. TypeOK
    BY <1>1, TrackingAssumption DEF Init, TypeOK
  <1> QED
    BY <1>2 DEF Init, IInv, LoopRuns, HeardStarted, Fresh

\* Every step keeps the invariant, one part after the other.
LEMMA NextInv == IInv /\ [Next]_vars => IInv'
  BY TypeStep, LoopStep, HeardStep, FreshStep DEF IInv

\* The invariant holds always.
LEMMA Invariance == Spec => []IInv
  BY InitInv, NextInv, PTL DEF Spec

-------------------------------------------------------------------------------
(* The theorems.                                                           *)

\* Type correctness of the services' publishers and of the tracker
\* (state of service.go and tracker.go).
THEOREM TypeCorrect == Spec => []TypeOK
  <1>1. IInv => TypeOK
    BY DEF IInv
  <1> QED
    BY <1>1, Invariance, PTL

\* However many services share an interest and whatever the time to live, eviction
\* spares an interest that a running service has registered, while fewer messages are
\* lost than the time to live has periods (tracker.go:182-188, 205-208).
THEOREM LiveIsSpared == Spec => EvictionSparesLive
  <1>1. IInv /\ [Next]_vars =>
           [\A i \in interestMap \ interestMap' :
               prompt /\ losses < TTL /\ unregQ' = unregQ /\ restarts' = restarts =>
                  ~\E s \in Services : phase[s] = "running" /\ <<s, i>> \in heard /\ i \in Offers[s]]_vars
    <2> SUFFICES ASSUME IInv, [Next]_vars, NEW i \in interestMap, i \notin interestMap',
                        prompt, losses < TTL, unregQ' = unregQ, restarts' = restarts,
                        NEW s \in Services, phase[s] = "running", <<s, i>> \in heard, i \in Offers[s]
                 PROVE  FALSE
      OBVIOUS
    <2>1. TypeOK /\ Fresh
      BY DEF IInv
    <2>2. EvictRound
      <3>1. ~HandleUnregister
        BY <2>1, QueueTail DEF HandleUnregister, TypeOK
      <3>2. ~RestartProxy
        <4>1. restarts \in Nat
          BY <2>1, TrackingAssumption DEF TypeOK
        <4>2. restarts + 1 # restarts
          BY <4>1
        <4> QED
          BY <4>2 DEF RestartProxy
      <3> QED
        BY <3>1, <3>2
        DEF Next, ServiceStep, Run, BeginShutdown, Cancel, FinishShutdown, PublisherChecks,
            PublisherSleeps, PublishRegister, PublishUnregister, HandleRegister, Tick, vars, trackerVars
    <2>3. interestSeen[i] > TTL
      BY <2>2 DEF EvictRound, Forget, Expired
    <2>4. interestSeen[i] <= losses + 1
      BY <2>1, TrackingAssumption DEF Fresh, TypeOK
    <2> QED
      BY <2>1, <2>3, <2>4, TrackingAssumption DEF TypeOK
  <1> QED
    BY <1>1, Invariance, PTL DEF Spec, EvictionSparesLive

\* After Shutdown has returned a service publishes no registration any more, however
\* its publisher loop and Shutdown interleave (service.go:343-346).
THEOREM ShutdownIsSilent == Spec => SilentAfterShutdown
  <1>1. IInv /\ [Next]_vars =>
           [\A s \in Services :
               phase[s] = "down" /\ Len(regQ') > Len(regQ) => regQ'[Len(regQ')].service # s]_vars
    <2> SUFFICES ASSUME IInv, [Next]_vars, NEW s \in Services, phase[s] = "down",
                        Len(regQ') > Len(regQ)
                 PROVE  regQ'[Len(regQ')].service # s
      OBVIOUS
    <2>1. TypeOK /\ LoopRuns /\ regQ \in Seq(Message) /\ Len(regQ) \in Nat
      BY DEF IInv, TypeOK
    <2>2. CASE \E t \in Services : PublishRegister(t)
      <3>1. PICK t \in Services : PublishRegister(t)
        BY <2>2
      <3>2. t # s
        BY <2>1, <3>1 DEF PublishRegister, LoopRuns
      <3>3. PICK i \in Interest :
               /\ regQ' = Append(regQ, [service |-> t, interest |-> i]) \/ UNCHANGED regQ
               /\ [service |-> t, interest |-> i] \in Message
        BY <2>1, <3>1, PublishEffect
      <3>4. regQ' = Append(regQ, [service |-> t, interest |-> i])
        <4>1. CASE UNCHANGED regQ
          BY <2>1, <4>1
        <4> QED
          BY <3>3, <4>1
      <3>5. regQ'[Len(regQ')] = [service |-> t, interest |-> i]
        BY <2>1, <3>3, <3>4, QueueAppend
      <3> QED
        BY <3>2, <3>5
    <2>3. CASE HandleRegister
      BY <2>1, <2>3, QueueTail DEF HandleRegister
    <2>4. CASE RestartProxy
      BY <2>1, <2>4 DEF RestartProxy
    <2>5. CASE UNCHANGED regQ
      BY <2>1, <2>5
    <2> QED
      BY <2>2, <2>3, <2>4, <2>5
      DEF Next, ServiceStep, Run, BeginShutdown, Cancel, FinishShutdown, PublisherChecks,
          PublisherSleeps, PublishUnregister, HandleUnregister, EvictRound, Tick, vars
  <1> QED
    BY <1>1, Invariance, PTL DEF Spec, SilentAfterShutdown
===============================================================================
