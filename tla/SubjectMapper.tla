------------------------------ MODULE SubjectMapper ------------------------------
(***************************************************************************)
(* How h8s turns a request into a NATS subject, what a reverse proxy       *)
(* subscribes to for a hostname, and how it finds the path of a request in *)
(* the subject again.  Pure operators: every process of the system uses    *)
(* them and none of them keeps state.                                      *)
(*                                                                         *)
(* A subject starts with prefix, scheme and method; what follows, the      *)
(* reversed hostname and the path, is one sequence of tokens without a     *)
(* mark where the one ends and the other begins.                           *)
(***************************************************************************)
EXTENDS Naturals, Sequences, SequencesExt

\* A label of a hostname or a segment of a path.  The form says how a text is
\* written: as it is, in another letter case, with characters that mean something
\* to NATS or a URL ("dotted"), with these escaped, with a % that begins no escape
\* ("broken"), as a number that may be a part of an IPv4 address, or as an IPv6
\* address up to its first dot, with : for each _ of the text.
Forms == {"plain", "caps", "dotted", "escaped", "broken", "octet", "ipv6"}
Plain(text) == [text |-> text, form |-> "plain"]

\* A wildcard for one token, and what stands between two slashes in a row.
Star == Plain("*")
Empty == Plain("")

\* A hostname as it stands in a header or a flag: its labels and whether a port
\* follows.
Name(labels) == [labels |-> labels, port |-> FALSE]
NoHost == Name(<<>>)

\* normalizeHost
WithoutPort(host) == [host EXCEPT !.port = FALSE]

\* Hostnames without a wildcard among their labels, and the paths of requests: what
\* the slashes after the first one separate, so / is <<Empty>>, /api/ ends with Empty
\* and a request target without any path is <<>>.
Token == [text : STRING, form : Forms]
Hostname == [labels : Seq({t \in Token : t.text # "*"}), port : BOOLEAN]
Path == Seq(Token \ {Star})

\* strings.EqualFold: the same but for letter case.
EqualFold(g, h) ==
    /\ g.port = h.port
    /\ Len(g.labels) = Len(h.labels)
    /\ \A i \in DOMAIN g.labels :
          \/ g.labels[i] = h.labels[i]
          \/ /\ g.labels[i].text = h.labels[i].text
             /\ {g.labels[i].form, h.labels[i].form} \subseteq {"plain", "caps"}

\* net.ParseIP: IPv4, IPv6, or IPv6 whose last part is written as IPv4.
IsAddress(labels) ==
    \/ /\ Len(labels) = 4
       /\ labels[1].form \in {"octet", "ipv6"}
       /\ \A i \in 2..4 : labels[i].form = "octet"
    \/ Len(labels) = 1 /\ labels[1].form = "ipv6"

\* An underscore for each colon.
Underscored(label) == IF label.form = "ipv6" THEN Plain(label.text) ELSE label

\* processHost and ReverseHostname: drop the port, replace the colons of an address,
\* reverse what is none.
ReverseHostname(host) ==
    IF IsAddress(host.labels)
    THEN [i \in DOMAIN host.labels |-> Underscored(host.labels[i])]
    ELSE Reverse(host.labels)

\* One segment of processPath.
Encode(segment) ==
    IF segment.form = "dotted" THEN [segment EXCEPT !.form = "escaped"] ELSE segment

\* processPath: the segments that are neither empty nor impossible to unescape, in
\* their order.
ProcessPath(path) ==
    LET kept == {i \in DOMAIN path : path[i].text # "" /\ path[i].form # "broken"}
        Rank(i) == Cardinality({j \in kept : j <= i})
    IN  [n \in 1..Cardinality(kept) |-> Encode(path[CHOOSE i \in kept : Rank(i) = n])]

\* The host NewSubjectMap processes.
RoutingHost(host, forwarded) == IF forwarded # NoHost THEN forwarded ELSE host

\* PublishSubject and WebSocketPublishSubject
Subject(scheme, method, host, path) ==
    [scheme |-> scheme, method |-> method,
     tokens |-> ReverseHostname(host) \o ProcessPath(path)]
PublishSubject(method, host, path) == Subject("http", method, host, path)
WebSocketPublishSubject(host, path) == Subject("ws", "ws", host, path)

\* The subject of a control message about a WebSocket connection.
ControlSubject(event, host) == Subject("control", event, host, <<>>)

\* A subscription's subject: a method or any; one or more tokens may follow
\* the given ones, or none.
Pattern(scheme, method, host, more) ==
    [scheme |-> scheme, method |-> method, tokens |-> ReverseHostname(host), more |-> more]

\* What SubscribeForHost subscribes to, in its order.
HostPatterns(host) ==
    <<Pattern("http", "*", host, TRUE), Pattern("http", "*", host, FALSE),
      Pattern("ws", "ws", host, TRUE), Pattern("ws", "ws", host, FALSE),
      Pattern("control", "established", host, FALSE),
      Pattern("control", "closed", host, FALSE)>>

\* NATS: does a message on the subject reach a subscription of the pattern?
Matches(pattern, subject) ==
    /\ pattern.scheme = subject.scheme
    /\ pattern.method \in {"*", subject.method}
    /\ \/ pattern.more /\ Len(pattern.tokens) < Len(subject.tokens)
       \/ ~pattern.more /\ Len(pattern.tokens) = Len(subject.tokens)
    /\ \A i \in DOMAIN pattern.tokens : pattern.tokens[i] \in {Star, subject.tokens[i]}

\* The path handleMsg finds in a subject, given the host of the message's header.
\* Definitions whose name starts with Fault are not part of the model: each is a
\* plausible bug in the definition that follows it, and a property must catch it.
FaultPathInSubject(subject, host) == SubSeq(subject.tokens, 2, Len(subject.tokens))
PathInSubject(subject, host) ==
    SubSeq(subject.tokens, Len(ReverseHostname(host)) + 1, Len(subject.tokens))

\* The path handleControlEstablished finds in the data subject of a connection: it
\* takes all tokens but one for the path, however many the host has.
WebSocketPathInSubject(subject) == SubSeq(subject.tokens, 2, Len(subject.tokens))
==================================================================================
