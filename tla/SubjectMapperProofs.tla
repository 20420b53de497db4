-------------------------- MODULE SubjectMapperProofs --------------------------
(* What the subjects of h8s tell apart, for all hostnames and paths. *)
EXTENDS SubjectMapper, FiniteSetTheorems, TLAPS

-------------------------------------------------------------------------------
(* The parts of a subject.                                                 *)

\* Reversing the labels keeps their number, and so does replacing colons.
LEMMA ReverseHostnameType ==
    ASSUME NEW h \in Hostname
    PROVE  /\ ReverseHostname(h) \in Seq(Token)
           /\ Len(ReverseHostname(h)) = Len(h.labels)
           /\ Len(h.labels) \in Nat
           /\ \A i \in 1..Len(h.labels) : ReverseHostname(h)[i] # Star
  <1> DEFINE Label == {t \in Token : t.text # "*"}
  <1>1. h.labels \in Seq(Label) /\ Len(h.labels) \in Nat
    BY DEF Hostname
  <1>2. \A t \in Label : t \in Token /\ t # Star
    BY DEF Star, Plain
  <1>3. \A t \in Label : Underscored(t) \in Label
    <2> SUFFICES ASSUME NEW t \in Label
                 PROVE  Underscored(t) \in Label
      OBVIOUS
    <2>1. t.text \in STRING /\ t.text # "*" /\ "plain" \in Forms
      BY DEF Token, Forms
    <2>2. Plain(t.text) \in Label
      BY <2>1 DEF Token, Plain
    <2> QED
      BY <2>2 DEF Underscored
  <1>4. CASE IsAddress(h.labels)
    <2>1. ReverseHostname(h) = [i \in 1..Len(h.labels) |-> Underscored(h.labels[i])]
      BY <1>1, <1>4 DEF ReverseHostname
    <2>2. \A i \in 1..Len(h.labels) : Underscored(h.labels[i]) \in Label
      BY <1>1, <1>3
    <2> HIDE DEF Label
    <2> QED
      BY <1>1, <1>2, <2>1, <2>2
  <1>5. CASE ~IsAddress(h.labels)
    <2>1. ReverseHostname(h) = [i \in 1..Len(h.labels) |-> h.labels[(Len(h.labels) - i) + 1]]
      BY <1>5 DEF ReverseHostname, Reverse
    <2>2. \A i \in 1..Len(h.labels) :
             /\ (Len(h.labels) - i) + 1 \in 1..Len(h.labels)
             /\ h.labels[(Len(h.labels) - i) + 1] \in Label
      BY <1>1
    <2> HIDE DEF Label
    <2> QED
      BY <1>1, <1>2, <2>1, <2>2
  <1> QED
    BY <1>4, <1>5

\* Escaping a segment makes a segment.
LEMMA EncodeType ==
    ASSUME NEW t \in Token
    PROVE  Encode(t) \in Token
  <1>1. CASE t.form = "dotted"
    <2>1. Encode(t) = [t EXCEPT !.form = "escaped"]
      BY <1>1 DEF Encode
    <2>2. "escaped" \in Forms
      BY DEF Forms
    <2> QED
      BY <2>1, <2>2 DEF Token
  <1>2. CASE t.form # "dotted"
    BY <1>2 DEF Encode
  <1> QED
    BY <1>1, <1>2

\* The elements of a finite set of numbers have the ranks from one to their number.
LEMMA RanksCount ==
    ASSUME NEW k \in Nat, NEW S \in SUBSET (1..k)
    PROVE  /\ Cardinality(S) \in Nat
           /\ \A n \in 1..Cardinality(S) :
                 \E i \in S : Cardinality({j \in S : j <= i}) = n
  <1> DEFINE Upto(i) == {j \in S : j <= i}
             c == Cardinality(S)
             rank == [i \in S |-> Cardinality(Upto(i))]
  <1>1. IsFiniteSet(1..k)
    BY FS_Interval
  <1>2. IsFiniteSet(S) /\ c \in Nat
    BY <1>1, FS_Subset, FS_CardinalityType
  <1>3. ASSUME NEW i \in S
        PROVE  IsFiniteSet(Upto(i)) /\ Cardinality(Upto(i)) \in 1..c
    <2>1. Upto(i) \in SUBSET S
      OBVIOUS
    <2>2. IsFiniteSet(Upto(i)) /\ Cardinality(Upto(i)) <= c
      BY <1>2, <2>1, FS_Subset
    <2>3. Cardinality(Upto(i)) \in Nat
      BY <2>2, FS_CardinalityType
    <2>4. i \in Upto(i)
      OBVIOUS
    <2>5. Cardinality(Upto(i)) # 0
      BY <2>2, <2>4, FS_EmptySet
    <2> HIDE DEF c, Upto
    <2> QED
      BY <1>2, <2>2, <2>3, <2>5
  <1>4. rank \in [S -> 1..c]
    BY <1>3
  <1>5. ASSUME NEW a \in S, NEW b \in S, a < b
        PROVE  rank[a] # rank[b]
    <2>1. Upto(a) \in SUBSET Upto(b)
      <3>1. \A j \in S : j \in Nat
        OBVIOUS
      <3>2. \A j \in S : j <= a => j <= b
        BY <1>5, <3>1
      <3> QED
        BY <3>2
    <2>2. b \in Upto(b) /\ b \notin Upto(a)
      BY <1>5
    <2>3. IsFiniteSet(Upto(b)) /\ Upto(b) # Upto(a)
      BY <1>3, <2>2
    <2>4. Cardinality(Upto(b)) = Cardinality(Upto(a)) => Upto(b) = Upto(a)
      BY <2>1, <2>3, FS_Subset
    <2> QED
      BY <2>3, <2>4
  <1>6. \A a, b \in S : rank[a] = rank[b] => a = b
    <2>1. \A a, b \in S : a # b => a < b \/ b < a
      OBVIOUS
    <2> HIDE DEF rank
    <2> QED
      BY <1>5, <2>1
  <1>7. rank \in Injection(S, 1..c)
    BY <1>4, <1>6 DEF Injection, IsInjective
  <1>8. IsFiniteSet(1..c) /\ Cardinality(1..c) = c
    <2>1. c \in Int /\ 1 \in Int
      BY <1>2
    <2>2. IsFiniteSet(1..c) /\ Cardinality(1..c) = IF 1 > c THEN 0 ELSE c - 1 + 1
      BY <2>1, FS_Interval
    <2> HIDE DEF c
    <2> QED
      BY <1>2, <2>2
  <1>9. rank \in Surjection(S, 1..c)
    BY <1>7, <1>8, FS_Injection
  <1>10. \A n \in 1..c : \E i \in S : rank[i] = n
    BY <1>9 DEF Surjection
  <1> QED
    BY <1>2, <1>10

\* An escaped path is made of some segments of the path, escaped.
LEMMA ProcessPathType ==
    ASSUME NEW path \in Path
    PROVE  /\ ProcessPath(path) \in Seq(Token)
           /\ Len(ProcessPath(path)) \in Nat
  <1> DEFINE kept == {i \in DOMAIN path : path[i].text # "" /\ path[i].form # "broken"}
             Pick(n) == CHOOSE i \in kept : Cardinality({j \in kept : j <= i}) = n
  <1>1. ProcessPath(path) = [n \in 1..Cardinality(kept) |-> Encode(path[Pick(n)])]
    BY DEF ProcessPath
  <1>2. /\ DOMAIN path = 1..Len(path) /\ Len(path) \in Nat
        /\ \A i \in DOMAIN path : path[i] \in Token
    BY DEF Path
  <1>3. kept \in SUBSET (1..Len(path))
    BY <1>2
  <1> HIDE DEF kept
  <1>4. /\ Cardinality(kept) \in Nat
        /\ \A n \in 1..Cardinality(kept) :
              \E i \in kept : Cardinality({j \in kept : j <= i}) = n
    BY <1>2, <1>3, RanksCount
  <1>5. \A n \in 1..Cardinality(kept) : Pick(n) \in kept
    BY <1>4
  <1> HIDE DEF Pick
  <1>6. \A n \in 1..Cardinality(kept) : Encode(path[Pick(n)]) \in Token
    BY <1>2, <1>3, <1>5, EncodeType
  <1> QED
    BY <1>1, <1>4, <1>6

\* A path without segments stays without.
LEMMA ProcessNoPath == ProcessPath(<<>>) = <<>>
  <1> DEFINE kept == {i \in DOMAIN <<>> : <<>>[i].text # "" /\ <<>>[i].form # "broken"}
             Pick(n) == CHOOSE i \in kept : Cardinality({j \in kept : j <= i}) = n
  <1>1. ProcessPath(<<>>) = [n \in 1..Cardinality(kept) |-> Encode(<<>>[Pick(n)])]
    BY DEF ProcessPath
  <1>2. kept = {}
    OBVIOUS
  <1>3. Cardinality(kept) = 0
    BY <1>2, FS_EmptySet
  <1> HIDE DEF kept, Pick
  <1> QED
    BY <1>1, <1>3

\* Hostnames without colons: all but those that hold an IPv6 address.
NoColons(h) == \A i \in DOMAIN h.labels : h.labels[i].form # "ipv6"

\* Such a hostname is an address exactly if it is made of four numbers, and an address
\* among them stays as it is.
LEMMA AddressOfNumbers ==
    ASSUME NEW h \in Hostname, NoColons(h)
    PROVE  /\ IsAddress(h.labels) <=>
                 Len(h.labels) = 4 /\ \A i \in 1..4 : h.labels[i].form = "octet"
           /\ IsAddress(h.labels) => ReverseHostname(h) = h.labels
  <1>1. /\ h.labels \in Seq({t \in Token : t.text # "*"})
        /\ DOMAIN h.labels = 1..Len(h.labels)
        /\ Len(h.labels) \in Nat
    BY DEF Hostname
  <1>2. \A i \in 1..Len(h.labels) : h.labels[i].form # "ipv6"
    BY <1>1 DEF NoColons
  <1>3. IsAddress(h.labels) <=>
           Len(h.labels) = 4 /\ \A i \in 1..4 : h.labels[i].form = "octet"
    BY <1>1, <1>2 DEF IsAddress
  <1>4. ASSUME IsAddress(h.labels)
        PROVE  ReverseHostname(h) = h.labels
    <2>1. ReverseHostname(h) = [i \in 1..Len(h.labels) |-> Underscored(h.labels[i])]
      BY <1>1, <1>4 DEF ReverseHostname
    <2>2. \A i \in 1..Len(h.labels) : Underscored(h.labels[i]) = h.labels[i]
      BY <1>2 DEF Underscored
    <2> QED
      BY <1>1, <2>1, <2>2
  <1> QED
    BY <1>3, <1>4

\* Two hostnames without an IPv6 address have the same place in a subject only if they
\* have the same labels, in the same order and letter case: no reversed name is taken
\* for an address or for another name (mapper.go:173-199).
THEOREM ReverseHostnameInjective ==
    ASSUME NEW g \in Hostname, NEW h \in Hostname, NoColons(g), NoColons(h),
           ReverseHostname(g) = ReverseHostname(h)
    PROVE  g.labels = h.labels
  <1>1. /\ g.labels \in Seq(Token) /\ h.labels \in Seq(Token)
        /\ Len(g.labels) = Len(h.labels)
        /\ Len(h.labels) \in Nat
    BY ReverseHostnameType DEF Hostname
  <1>2. ASSUME NEW f \in Hostname, ~IsAddress(f.labels), NEW i \in 1..Len(f.labels)
        PROVE  /\ (Len(f.labels) - i) + 1 \in 1..Len(f.labels)
               /\ f.labels[i] = ReverseHostname(f)[(Len(f.labels) - i) + 1]
    <2>1. Len(f.labels) \in Nat
      BY DEF Hostname
    <2>2. (Len(f.labels) - i) + 1 \in 1..Len(f.labels)
      BY <2>1
    <2>3. (Len(f.labels) - ((Len(f.labels) - i) + 1)) + 1 = i
      BY <2>1
    <2>4. ReverseHostname(f) = [j \in 1..Len(f.labels) |-> f.labels[(Len(f.labels) - j) + 1]]
      BY <1>2 DEF ReverseHostname, Reverse
    <2> QED
      BY <2>2, <2>3, <2>4
  <1>3. CASE IsAddress(g.labels) /\ IsAddress(h.labels)
    BY <1>3, AddressOfNumbers
  <1>4. CASE ~IsAddress(g.labels) /\ ~IsAddress(h.labels)
    <2>1. ASSUME NEW i \in 1..Len(h.labels)
          PROVE  g.labels[i] = h.labels[i]
      <3>1. g.labels[i] = ReverseHostname(g)[(Len(g.labels) - i) + 1]
        BY <1>1, <1>2, <1>4
      <3>2. h.labels[i] = ReverseHostname(h)[(Len(h.labels) - i) + 1]
        BY <1>2, <1>4
      <3> QED
        BY <1>1, <3>1, <3>2
    <2> QED
      BY <1>1, <2>1
  <1>5. ASSUME NEW a \in Hostname, NEW n \in Hostname, NoColons(a), NoColons(n),
               IsAddress(a.labels), Len(a.labels) = Len(n.labels),
               ReverseHostname(a) = ReverseHostname(n)
        PROVE  IsAddress(n.labels)
    <2> SUFFICES ASSUME ~IsAddress(n.labels)
                 PROVE  FALSE
      OBVIOUS
    <2>1. ReverseHostname(n) = a.labels
      BY <1>5, AddressOfNumbers
    <2>2. \A i \in 1..Len(n.labels) :
             /\ (Len(n.labels) - i) + 1 \in 1..Len(n.labels)
             /\ n.labels[i] = a.labels[(Len(n.labels) - i) + 1]
      BY <1>2, <2>1
    <2>3. Len(a.labels) = 4 /\ \A i \in 1..4 : a.labels[i].form = "octet"
      BY <1>5, AddressOfNumbers
    <2>4. \A i \in 1..4 : n.labels[i].form = "octet"
      BY <1>5, <2>2, <2>3
    <2> QED
      BY <1>5, <2>3, <2>4, AddressOfNumbers
  <1>6. IsAddress(g.labels) <=> IsAddress(h.labels)
    BY <1>1, <1>5
  <1> QED
    BY <1>3, <1>4, <1>6

\* With an IPv6 address it is not so: [::1] and a host named __1 share a place, and the
\* proxy publishes requests for both under one subject (mapper.go:187-191).
THEOREM ColonsCollide ==
    ASSUME NEW text \in STRING
    PROVE  /\ ReverseHostname(Name(<<[text |-> text, form |-> "ipv6"]>>))
                 = ReverseHostname(Name(<<Plain(text)>>))
           /\ <<[text |-> text, form |-> "ipv6"]>> # <<Plain(text)>>
  <1> DEFINE six == <<[text |-> text, form |-> "ipv6"]>>
             one == <<Plain(text)>>
  <1>1. /\ Len(six) = 1 /\ six[1].form = "ipv6" /\ six[1].text = text
        /\ DOMAIN six = 1..1
    OBVIOUS
  <1>2. /\ Len(one) = 1 /\ one[1] = Plain(text) /\ one[1].form = "plain"
        /\ Plain(text).form = "plain"
    BY DEF Plain
  <1>3. Name(six).labels = six /\ Name(one).labels = one
    BY DEF Name
  <1> HIDE DEF six, one
  <1>4. ReverseHostname(Name(six)) = [i \in 1..1 |-> Plain(text)]
    <2>1. ReverseHostname(Name(six)) = [i \in 1..1 |-> Underscored(six[i])]
      BY <1>1, <1>3 DEF ReverseHostname, IsAddress
    <2>2. Underscored(six[1]) = Plain(text)
      BY <1>1 DEF Underscored
    <2>3. \A i \in 1..1 : Underscored(six[i]) = Plain(text)
      <3>1. \A i \in 1..1 : i = 1
        OBVIOUS
      <3> QED
        BY <2>2, <3>1, Zenon
    <2> DEFINE F == [i \in 1..1 |-> Underscored(six[i])]
               G == [i \in 1..1 |-> Plain(text)]
    <2>4. F = G
      BY <2>3, Zenon
    <2> QED
      BY <2>1, <2>4, Zenon
  <1>5. ReverseHostname(Name(one)) = [i \in 1..1 |-> Plain(text)]
    <2>1. ~IsAddress(one)
      BY <1>2 DEF IsAddress
    <2>2. ReverseHostname(Name(one)) = [i \in 1..1 |-> one[(1 - i) + 1]]
      BY <1>2, <1>3, <2>1 DEF ReverseHostname, Reverse
    <2> QED
      BY <1>2, <2>2
  <1>6. six # one
    BY <1>1, <1>2
  <1> QED
    BY <1>4, <1>5, <1>6 DEF six, one

\* The tokens of a data subject: those of the hostname, then those of the path.
LEMMA TokensOf ==
    ASSUME NEW scheme, NEW method, NEW h \in Hostname, NEW path \in Path
    PROVE  /\ Subject(scheme, method, h, path).tokens \in Seq(Token)
           /\ Len(Subject(scheme, method, h, path).tokens) = Len(h.labels) + Len(ProcessPath(path))
           /\ \A i \in 1..Len(h.labels) :
                 Subject(scheme, method, h, path).tokens[i] = ReverseHostname(h)[i]
  <1> DEFINE host == ReverseHostname(h)
             rest == ProcessPath(path)
  <1>1. Subject(scheme, method, h, path).tokens = host \o rest
    BY DEF Subject
  <1>2. host \in Seq(Token) /\ Len(host) = Len(h.labels) /\ Len(host) \in Nat
    BY ReverseHostnameType
  <1>3. rest \in Seq(Token) /\ Len(rest) = Len(ProcessPath(path)) /\ Len(rest) \in Nat
    BY ProcessPathType DEF Path
  <1> HIDE DEF host, rest
  <1>4. /\ host \o rest \in Seq(Token)
        /\ Len(host \o rest) = Len(host) + Len(rest)
        /\ \A i \in 1..Len(host) : (host \o rest)[i] = host[i]
    BY <1>2, <1>3, SMTT(30)
  <1> QED
    BY <1>1, <1>2, <1>3, <1>4 DEF host, rest

\* The tokens after the host are those of the path,
LEMMA PathTokensOf ==
    ASSUME NEW scheme, NEW method, NEW h \in Hostname, NEW path \in Path
    PROVE  \A i \in 1..Len(ProcessPath(path)) :
              Subject(scheme, method, h, path).tokens[Len(h.labels) + i] = ProcessPath(path)[i]
  <1> DEFINE host == ReverseHostname(h)
             rest == ProcessPath(path)
  <1>1. Subject(scheme, method, h, path).tokens = host \o rest
    BY DEF Subject
  <1>2. host \in Seq(Token) /\ Len(host) = Len(h.labels) /\ Len(host) \in Nat
    BY ReverseHostnameType
  <1>3. rest \in Seq(Token) /\ Len(rest) = Len(ProcessPath(path)) /\ Len(rest) \in Nat
    BY ProcessPathType DEF Path
  <1> HIDE DEF host, rest
  <1>4. \A i \in 1..Len(rest) : (host \o rest)[Len(host) + i] = rest[i]
    BY <1>2, <1>3
  <1> QED
    BY <1>1, <1>2, <1>3, <1>4 DEF host, rest

\* The same of a request's subject.
LEMMA RequestTokens ==
    ASSUME NEW method, NEW h \in Hostname, NEW path \in Path
    PROVE  /\ PublishSubject(method, h, path).scheme = "http"
           /\ PublishSubject(method, h, path).tokens \in Seq(Token)
           /\ Len(PublishSubject(method, h, path).tokens) = Len(h.labels) + Len(ProcessPath(path))
           /\ \A i \in 1..Len(h.labels) :
                 PublishSubject(method, h, path).tokens[i] = ReverseHostname(h)[i]
  <1>1. PublishSubject(method, h, path) = Subject("http", method, h, path)
    BY DEF PublishSubject
  <1>2. PublishSubject(method, h, path).scheme = "http"
    BY DEF PublishSubject, Subject
  <1>3. /\ Subject("http", method, h, path).tokens \in Seq(Token)
        /\ Len(Subject("http", method, h, path).tokens) = Len(h.labels) + Len(ProcessPath(path))
        /\ \A i \in 1..Len(h.labels) :
              Subject("http", method, h, path).tokens[i] = ReverseHostname(h)[i]
    BY TokensOf
  <1> QED
    BY <1>1, <1>2, <1>3

\* in the subject of a request too.
LEMMA RequestPathTokens ==
    ASSUME NEW method, NEW h \in Hostname, NEW path \in Path
    PROVE  \A i \in 1..Len(ProcessPath(path)) :
              PublishSubject(method, h, path).tokens[Len(h.labels) + i] = ProcessPath(path)[i]
  <1>1. PublishSubject(method, h, path) = Subject("http", method, h, path)
    BY DEF PublishSubject
  <1>2. \A i \in 1..Len(ProcessPath(path)) :
           Subject("http", method, h, path).tokens[Len(h.labels) + i] = ProcessPath(path)[i]
    BY PathTokensOf
  <1> QED
    BY <1>1, <1>2

\* What handleMsg takes for the path is the path of the request, escaped, whenever
\* the header's host has as many labels as the host the subject was built from
\* (reverse.go:230-250, mapper.go:120-130).
THEOREM PathRestored ==
    ASSUME NEW method, NEW h \in Hostname, NEW path \in Path, NEW g \in Hostname,
           Len(g.labels) = Len(h.labels)
    PROVE  PathInSubject(PublishSubject(method, h, path), g) = ProcessPath(path)
  <1> DEFINE tokens == PublishSubject(method, h, path).tokens
             n == Len(h.labels)
  <1>1. /\ n \in Nat
        /\ Len(ReverseHostname(g)) = n
        /\ ProcessPath(path) \in Seq(Token)
        /\ Len(ProcessPath(path)) \in Nat
    BY ReverseHostnameType, ProcessPathType DEF Path
  <1>2. /\ tokens \in Seq(Token)
        /\ Len(tokens) = n + Len(ProcessPath(path))
        /\ \A i \in 1..Len(ProcessPath(path)) : tokens[n + i] = ProcessPath(path)[i]
    <2>1. \A i \in 1..Len(ProcessPath(path)) : tokens[n + i] = ProcessPath(path)[i]
      BY RequestPathTokens
    <2>2. tokens \in Seq(Token) /\ Len(tokens) = n + Len(ProcessPath(path))
      BY RequestTokens
    <2> QED
      BY <2>1, <2>2
  <1>3. PathInSubject(PublishSubject(method, h, path), g) = SubSeq(tokens, n + 1, Len(tokens))
    BY <1>1 DEF PathInSubject
  <1> HIDE DEF tokens, n
  <1>4. SubSeq(tokens, n + 1, Len(tokens)) = [i \in 1..Len(ProcessPath(path)) |-> tokens[n + i]]
    <2>1. SubSeq(tokens, n + 1, Len(tokens)) \in Seq(Token)
      BY <1>1, <1>2
    <2>2. Len(SubSeq(tokens, n + 1, Len(tokens))) = Len(ProcessPath(path))
      BY <1>1, <1>2
    <2>3. \A i \in 1..Len(ProcessPath(path)) : SubSeq(tokens, n + 1, Len(tokens))[i] = tokens[n + i]
      BY <1>1, <1>2
    <2> QED
      BY <2>1, <2>2, <2>3, SMTT(30)
  <1>5. ProcessPath(path) = [i \in 1..Len(ProcessPath(path)) |-> ProcessPath(path)[i]]
    BY <1>1
  <1> QED
    BY <1>2, <1>3, <1>4, <1>5

-------------------------------------------------------------------------------
(* Who receives a message.                                                 *)

\* What a pattern of a host matches: subjects that begin with the host's tokens and, if
\* it says more, go on.
LEMMA MatchesMore ==
    ASSUME NEW h \in Hostname, NEW scheme, NEW method, NEW subject,
           Matches(Pattern(scheme, method, h, TRUE), subject)
    PROVE  /\ subject.scheme = scheme
           /\ Len(h.labels) < Len(subject.tokens)
  <1>1. Len(ReverseHostname(h)) = Len(h.labels)
    BY ReverseHostnameType
  <1> QED
    BY <1>1 DEF Matches, Pattern

\* A pattern without the wildcard at its end matches subjects of the same length.
LEMMA MatchesExactly ==
    ASSUME NEW h \in Hostname, NEW scheme, NEW method, NEW subject,
           Matches(Pattern(scheme, method, h, FALSE), subject)
    PROVE  /\ subject.scheme = scheme
           /\ Len(h.labels) = Len(subject.tokens)
  <1>1. Len(ReverseHostname(h)) = Len(h.labels)
    BY ReverseHostnameType
  <1> QED
    BY <1>1 DEF Matches, Pattern

\* A control pattern matches its own event only.
LEMMA MatchesControl ==
    ASSUME NEW h \in Hostname, NEW subject, NEW event \in {"established", "closed"},
           Matches(Pattern("control", event, h, FALSE), subject)
    PROVE  subject.scheme = "control" /\ subject.method = event
  BY DEF Matches, Pattern

\* The six patterns of a host.
LEMMA PatternsOfHost ==
    ASSUME NEW h
    PROVE  /\ HostPatterns(h)[1] = Pattern("http", "*", h, TRUE)
           /\ HostPatterns(h)[2] = Pattern("http", "*", h, FALSE)
           /\ HostPatterns(h)[3] = Pattern("ws", "ws", h, TRUE)
           /\ HostPatterns(h)[4] = Pattern("ws", "ws", h, FALSE)
           /\ HostPatterns(h)[5] = Pattern("control", "established", h, FALSE)
           /\ HostPatterns(h)[6] = Pattern("control", "closed", h, FALSE)
  BY DEF HostPatterns

\* The patterns SubscribeForHost makes for a host do not overlap: no message reaches
\* the same host through two of its subscriptions (reverse.go:119-152).
THEOREM OnePatternPerMessage ==
    ASSUME NEW h \in Hostname, NEW m \in 1..6, NEW n \in 1..6, NEW subject,
           Matches(HostPatterns(h)[m], subject), Matches(HostPatterns(h)[n], subject)
    PROVE  m = n
  <1> DEFINE longer == Len(h.labels) < Len(subject.tokens)
             equal == Len(h.labels) = Len(subject.tokens)
             Form(i) ==
                \/ i = 1 /\ subject.scheme = "http" /\ longer
                \/ i = 2 /\ subject.scheme = "http" /\ equal
                \/ i = 3 /\ subject.scheme = "ws" /\ longer
                \/ i = 4 /\ subject.scheme = "ws" /\ equal
                \/ i = 5 /\ subject.scheme = "control" /\ subject.method = "established"
                \/ i = 6 /\ subject.scheme = "control" /\ subject.method = "closed"
  <1>1. ASSUME NEW i \in 1..6, Matches(HostPatterns(h)[i], subject)
        PROVE  Form(i)
    <2>1. CASE i = 1
      <3>1. Matches(Pattern("http", "*", h, TRUE), subject)
        BY <1>1, <2>1, PatternsOfHost
      <3> QED
        BY <2>1, <3>1, MatchesMore
    <2>2. CASE i = 2
      <3>1. Matches(Pattern("http", "*", h, FALSE), subject)
        BY <1>1, <2>2, PatternsOfHost
      <3> QED
        BY <2>2, <3>1, MatchesExactly
    <2>3. CASE i = 3
      <3>1. Matches(Pattern("ws", "ws", h, TRUE), subject)
        BY <1>1, <2>3, PatternsOfHost
      <3> QED
        BY <2>3, <3>1, MatchesMore
    <2>4. CASE i = 4
      <3>1. Matches(Pattern("ws", "ws", h, FALSE), subject)
        BY <1>1, <2>4, PatternsOfHost
      <3> QED
        BY <2>4, <3>1, MatchesExactly
    <2>5. CASE i = 5
      <3>1. Matches(Pattern("control", "established", h, FALSE), subject)
        BY <1>1, <2>5, PatternsOfHost
      <3> QED
        BY <2>5, <3>1, MatchesControl
    <2>6. CASE i = 6
      <3>1. Matches(Pattern("control", "closed", h, FALSE), subject)
        BY <1>1, <2>6, PatternsOfHost
      <3> QED
        BY <2>6, <3>1, MatchesControl
    <2> QED
      BY <2>1, <2>2, <2>3, <2>4, <2>5, <2>6
  <1>2. ~(longer /\ equal)
    <2>1. Len(h.labels) \in Nat
      BY ReverseHostnameType
    <2> QED
      BY <2>1
  <1>3. Form(m) /\ Form(n)
    BY <1>1
  <1> HIDE DEF longer, equal
  <1> QED
    BY <1>2, <1>3

\* They reach every request for a host that has the same place in a subject, with
\* whatever path (reverse.go:119-122).
THEOREM HostIsHeard ==
    ASSUME NEW h \in Hostname, NEW g \in Hostname, ReverseHostname(g) = ReverseHostname(h),
           NEW method, NEW path \in Path
    PROVE  \E n \in {1, 2} : Matches(HostPatterns(h)[n], PublishSubject(method, g, path))
  <1> DEFINE subject == PublishSubject(method, g, path)
  <1>1. ReverseHostname(g) = ReverseHostname(h) /\ Len(g.labels) = Len(h.labels)
    BY ReverseHostnameType
  <1>2. /\ Len(subject.tokens) = Len(h.labels) + Len(ProcessPath(path))
        /\ \A i \in 1..Len(h.labels) : subject.tokens[i] = ReverseHostname(h)[i]
        /\ subject.scheme = "http"
    <2>1. /\ Len(subject.tokens) = Len(g.labels) + Len(ProcessPath(path))
          /\ \A i \in 1..Len(g.labels) : subject.tokens[i] = ReverseHostname(g)[i]
          /\ subject.scheme = "http"
      BY RequestTokens
    <2> HIDE DEF subject
    <2> QED
      BY <1>1, <2>1
  <1>3. /\ DOMAIN ReverseHostname(h) = 1..Len(h.labels)
        /\ Len(ReverseHostname(h)) = Len(h.labels)
        /\ Len(h.labels) \in Nat
        /\ Len(ProcessPath(path)) \in Nat
    BY ReverseHostnameType DEF Path
  <1> HIDE DEF subject
  <1>4. CASE Len(ProcessPath(path)) = 0
    <2>1. Matches(Pattern("http", "*", h, FALSE), subject)
      BY <1>2, <1>3, <1>4 DEF Matches, Pattern
    <2> QED
      BY <2>1, PatternsOfHost DEF subject
  <1>5. CASE Len(ProcessPath(path)) > 0
    <2>1. Matches(Pattern("http", "*", h, TRUE), subject)
      BY <1>2, <1>3, <1>5 DEF Matches, Pattern
    <2> QED
      BY <2>1, PatternsOfHost DEF subject
  <1> QED
    BY <1>3, <1>4, <1>5

\* But the subscription of a domain also gets every request for one of its
\* subdomains, which SpecificToHost would forbid (reverse.go:109, 121).
THEOREM ParentHearsSubdomain ==
    ASSUME NEW h \in Hostname, NEW g \in Hostname,
           ~IsAddress(h.labels), ~IsAddress(g.labels),
           NEW label \in Token, g.labels = <<label>> \o h.labels,
           NEW method, NEW path \in Path
    PROVE  Matches(HostPatterns(h)[1], PublishSubject(method, g, path))
  <1> DEFINE subject == PublishSubject(method, g, path)
             n == Len(h.labels)
  <1>1. /\ h.labels \in Seq(Token)
        /\ n \in Nat
        /\ Len(g.labels) = n + 1
        /\ \A i \in 1..n : g.labels[i + 1] = h.labels[i]
    BY DEF Hostname
  <1>2. \A i \in 1..n : ReverseHostname(g)[i] = ReverseHostname(h)[i]
    <2>1. /\ ReverseHostname(h) = [i \in 1..n |-> h.labels[(n - i) + 1]]
          /\ ReverseHostname(g) = [i \in 1..(n + 1) |-> g.labels[((n + 1) - i) + 1]]
      BY <1>1 DEF ReverseHostname, Reverse
    <2>2. \A i \in 1..n :
             (n - i) + 1 \in 1..n /\ ((n + 1) - i) + 1 = ((n - i) + 1) + 1 /\ i \in 1..(n + 1)
      BY <1>1
    <2> QED
      BY <1>1, <2>1, <2>2
  <1>3. /\ Len(subject.tokens) = (n + 1) + Len(ProcessPath(path))
        /\ \A i \in 1..n : subject.tokens[i] = ReverseHostname(h)[i]
        /\ subject.scheme = "http"
    <2>1. /\ Len(subject.tokens) = Len(g.labels) + Len(ProcessPath(path))
          /\ \A i \in 1..Len(g.labels) : subject.tokens[i] = ReverseHostname(g)[i]
          /\ subject.scheme = "http"
      BY RequestTokens
    <2> HIDE DEF subject
    <2> QED
      BY <1>1, <1>2, <2>1
  <1>4. /\ DOMAIN ReverseHostname(h) = 1..n
        /\ Len(ReverseHostname(h)) = n
        /\ Len(ProcessPath(path)) \in Nat
    BY ReverseHostnameType DEF Path
  <1> HIDE DEF subject, n
  <1>5. Matches(Pattern("http", "*", h, TRUE), subject)
    BY <1>1, <1>3, <1>4 DEF Matches, Pattern
  <1> QED
    BY <1>5, PatternsOfHost DEF subject
===============================================================================
