------------------------------- MODULE MCWsTunnel -------------------------------
(* Small instances of WsTunnel for TLC. *)
EXTENDS WsTunnel, TLC

CONSTANTS c1, c2, d1, k1, k2, s1

\* All instances of h8srd in one queue group.
OneGroup == {Reverses}

\* A bound on the frames and messages of all clients together: none but, when they
\* have keys of their own, one message or frame if all have an inbox, and one frame
\* if all have a session; and one frame if they share a key but no reply subject.
\* Without traffic a client may send what ReadMessage refuses, or leave; not one of them
\* this and the other that.
Sparse ==
    LET read == FoldFunction(+, 0, frames)
        pumped == FoldFunction(+, 0, sent)
    IN \/ read + pumped = 0 /\ (gone = {} \/ broken = {})
       \/ /\ read + pumped = 1
          /\ broken = {}
          /\ \/ /\ IsInjective(key)
                /\ reply = key \/ (pumped = 0 /\ \A c \in Conns : reply[c] \in Sessions)
             \/ pumped = 0 /\ ~IsInjective(key) /\ IsInjective(reply)

\* Clients are interchangeable, and so are keys.
Symmetric == Permutations(Conns) \cup Permutations(Keys)
=================================================================================
