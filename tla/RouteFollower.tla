------------------------------ MODULE RouteFollower ------------------------------
(***************************************************************************)
(* What an ingress controller promises: the routes in force are the routes *)
(* of some version of the Ingress resources.  They may lag behind and skip *)
(* versions, never return to an older one, and catch up in the end.  Only  *)
(* a version that no routes can be made of stops the controller.           *)
(***************************************************************************)
EXTENDS Naturals, Sequences

CONSTANT Routes(_)     \* the route tables a version of the resources may give rise to

VARIABLES
    versions,  \* the versions of the resources so far
    serving,   \* the version the routes in force belong to
    table,     \* these routes
    stopped    \* no others will follow

vars == <<versions, serving, table, stopped>>

Init ==
    /\ Len(versions) = 1
    /\ serving = 1
    /\ table \in Routes(versions[1])
    /\ stopped = FALSE

\* The resources change.
Change ==
    /\ Len(versions') = Len(versions) + 1
    /\ SubSeq(versions', 1, Len(versions)) = versions
    /\ UNCHANGED <<serving, table, stopped>>

\* The routes of a later version, or again those of this one, come into force.
Follow ==
    /\ ~stopped
    /\ serving' \in serving..Len(versions)
    /\ table' \in Routes(versions[serving'])
    /\ UNCHANGED <<versions, stopped>>

\* The controller stops at a version without routes.
Stop ==
    /\ \E v \in serving..Len(versions) : Routes(versions[v]) = {}
    /\ stopped' = TRUE
    /\ UNCHANGED <<versions, serving, table>>

Next == Change \/ Follow \/ Stop

Spec == Init /\ [][Next]_vars /\ WF_vars(serving < Len(versions) /\ (Follow \/ Stop))
==================================================================================
