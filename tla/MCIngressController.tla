-------------------------- MODULE MCIngressController --------------------------
(* A small instance of IngressController for TLC. *)
EXTENDS IngressController

CONSTANTS shop, docs, site, api, manual

\* The hosts ex and www.ex: one is the parent domain of the other.
Ex == Name(<<Plain("ex")>>)
Www == Name(<<Plain("www"), Plain("ex")>>)
Root == <<>>
Api == <<Plain("api")>>
Apis == <<Plain("apis")>>
Manual == <<Plain("manual")>>
Manuals == <<Plain("manual"), Empty>>
TokenBeginnings == {<<Plain("api"), Plain("apis")>>}

Rule(host, prefix, backend) ==
    [host |-> host, paths |-> {[prefix |-> prefix, backend |-> backend]}]
Alone(host) == [host |-> host, paths |-> {}]

\* shop serves www.ex, with a backend of its own for /api, which it names twice, or has a
\* backend that is no Service; docs serves ex and its /manual/, disputes the root of
\* www.ex and names ex without a path, or adds a path to www.ex.
TwoIngresses ==
    [i \in Ingresses |->
        IF i = shop
        THEN {<<>>, <<Rule(Www, Root, site), Rule(Www, Api, site), Rule(Www, Api, api)>>,
              <<Rule(Www, Root, NoService)>>}
        ELSE {<<>>, <<Rule(Ex, Manuals, manual), Rule(Ex, Root, site)>>,
              <<Alone(Ex), Rule(Www, Root, manual)>>, <<Rule(Www, Manual, manual)>>}]

Request(host, path, ws) == [host |-> host, path |-> path, ws |-> ws]
Mixed == {Request(Www, Apis, FALSE), Request(Ex, Manual, TRUE)}
================================================================================
