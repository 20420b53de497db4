--------------------------- MODULE MCInterestTracking ---------------------------
(* Small instances of InterestTracking for TLC. *)
EXTENDS InterestTracking, TLC

CONSTANTS s1, s2, home, chat

Get(p) == [route |-> p, method |-> "GET"]
Ws(p) == [route |-> p, method |-> "ws"]

\* Two replicas of one endpoint; one service with an endpoint and a WebSocket
\* handler; one service with a WebSocket handler only.
Replicas == [s \in Services |-> {Get(home)}]
Mixed == [s \in Services |-> {Get(home), Ws(chat)}]
ChatOnly == [s \in Services |-> {Ws(chat)}]
=================================================================================
