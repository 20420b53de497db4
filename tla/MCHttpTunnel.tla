------------------------------ MODULE MCHttpTunnel ------------------------------
(* Small instances of HttpTunnel for TLC. *)
EXTENDS HttpTunnel, TLC

CONSTANTS r1, r2, d1, d2, s1

\* All responders in one queue group.
OneGroup == {Responders}

\* Requests are interchangeable, and so are h8srd instances.
Symmetric == Permutations(Requests) \cup Permutations(Reverses)
=================================================================================
