------------------------------ MODULE MCHostRouting ------------------------------
(* A small instance of HostRouting for TLC. *)
EXTENDS HostRouting

CONSTANTS c1, c2, d1, d2, s1, g1

\* The hosts ex and www.ex, the latter also with a port and in capitals.
Ex == Name(<<Plain("ex")>>)
Www == Name(<<Plain("www"), Plain("ex")>>)
WwwPort == [Www EXCEPT !.port = TRUE]
WwwCaps == Name(<<[text |-> "www", form |-> "caps"], Plain("ex")>>)
Other == Name(<<Plain("other")>>)

\* A file has a dot in its name; its path has a slash too many.
Root == <<Empty>>
File == <<Plain("chat"), Empty, [text |-> "file", form |-> "dotted"]>>
Chat == <<Plain("chat")>>

Offer(host, forwarded, path, ws) ==
    [host |-> host, forwarded |-> forwarded, path |-> path, ws |-> ws]
SomeOffers ==
    {Offer(WwwPort, NoHost, File, FALSE), Offer(Www, NoHost, Root, FALSE),
     Offer(Www, NoHost, Chat, FALSE), Offer(Ex, Www, Chat, FALSE),
     Offer(Other, NoHost, Root, FALSE), Offer(WwwPort, NoHost, Chat, TRUE),
     Offer(WwwCaps, NoHost, Chat, TRUE), Offer(Www, Ex, Chat, TRUE)}

Filters == {WwwPort, Ex}

\* One h8srd for www.ex, the other for the same host or its parent domain.
SomeHostnames == [d \in Instances |-> IF d = d1 THEN {Www, WwwPort} ELSE {Www, Ex}]
AloneOrGrouped == {{}, {g1}}

\* The service has an endpoint at www.ex/chat.
SomeEndpoint == [s \in Services |-> [host |-> Www, path |-> Chat, scheme |-> "http"]]
==================================================================================
