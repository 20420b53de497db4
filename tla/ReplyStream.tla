------------------------------ MODULE ReplyStream ------------------------------
(***************************************************************************)
(* What the HTTP path of h8s promises of one exchange, with no channel, no *)
(* registry, no timer and no subscription in sight.  Replies are posted    *)
(* for a request, now and also after nobody waits for them any more.  An   *)
(* open exchange receives some of them, never out of order and never       *)
(* twice, and possibly not all.  It is complete only by receiving a reply  *)
(* that ends the answer; it may be abandoned at any time; and once it is   *)
(* complete or abandoned it receives nothing more.                         *)
(***************************************************************************)
EXTENDS Naturals, Sequences

CONSTANTS Requests,  \* the exchanges
          Kinds,     \* kinds of replies
          EndKinds   \* those that end an answer

VARIABLES posted,    \* kinds of the replies posted for each request
          got,       \* positions in posted that the exchange received
          outcome    \* "open", "complete" or "abandoned"

vars == <<posted, got, outcome>>

Init ==
    /\ posted = [r \in Requests |-> <<>>]
    /\ got = [r \in Requests |-> <<>>]
    /\ outcome = [r \in Requests |-> "open"]

LastGot(r) == IF got[r] = <<>> THEN 0 ELSE got[r][Len(got[r])]

Post(r) ==
    /\ \E k \in Kinds : posted' = [posted EXCEPT ![r] = Append(@, k)]
    /\ UNCHANGED <<got, outcome>>

Receive(r) ==
    /\ outcome[r] = "open"
    /\ \E p \in (LastGot(r) + 1)..Len(posted[r]) :
          /\ got' = [got EXCEPT ![r] = Append(@, p)]
          /\ \E o \in IF posted[r][p] \in EndKinds THEN {"complete"} ELSE {"open", "abandoned"} :
                outcome' = [outcome EXCEPT ![r] = o]
    /\ UNCHANGED posted

Abandon(r) ==
    /\ outcome[r] = "open"
    /\ outcome' = [outcome EXCEPT ![r] = "abandoned"]
    /\ UNCHANGED <<posted, got>>

Next == \E r \in Requests : Post(r) \/ Receive(r) \/ Abandon(r)

Spec == Init /\ [][Next]_vars
================================================================================
