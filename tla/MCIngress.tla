----------------------------- MODULE MCIngress -----------------------------
(* Files and streams for Ingress: one that is plain, and others that differ *)
(* from it in one respect. The plain limit of a packet is 24 bytes.         *)
EXTENDS Ingress

A == 97
\* "a:1", "b:1", "c:1": addresses of backends.
B1 == <<A, COLON, 49>>
B2 == <<98, COLON, 49>>
B3 == <<99, COLON, 49>>

Route(hosts, to) == [hosts |-> hosts, backend |-> to]

PlainRoutes == <<Route(<<<<A>>, <<A, DOT, 98>>>>, B1), Route(<<<<98>>>>, B2)>>

File(numbers, words, routes, default, probeHost) ==
    [numbers |-> numbers, words |-> words, routes |-> routes, default |-> default,
     probeHost |-> probeHost]

Limit == [maxHandshakeSize |-> 24]
NoWords == [level |-> ""]
PlainFile == File(Limit, NoWords, PlainRoutes, B3, << >>)

\* Every number alone, zero, negative or positive.
NumberFiles ==
    {File([f \in {g, "maxHandshakeSize"} |-> IF f = g THEN x ELSE 24], NoWords, PlainRoutes, B3,
          << >>) : g \in Numbers, x \in {-1, 0, 3}}

WordFiles ==
    {File(Limit, w, PlainRoutes, B3, << >>) :
        w \in {[level |-> "loud"], [format |-> "xml"], [output |-> "file"], [output |-> "tape"]}}

\* Hosts in other spellings, twice, empty, or not stable; backends shared, without
\* a port, or missing; with and without a default.
RouteFiles ==
    {File(Limit, NoWords, <<Route(<<h1>>, b), Route(<<h2>>, B2)>>, d, p) :
        h1 \in {<<A>>, <<65, DOT>>, <<A, COLON, 49>>, <<LBRACKET, A, RBRACKET>>,
                <<A, DOT, DOT>>, <<32>>},
        h2 \in {<<A>>, <<98>>}, b \in {B1, <<A>>}, d \in {<< >>, B3}, p \in {<< >>}}
    \cup {File(Limit, NoWords, << >>, d, << >>) : d \in {<< >>, B3}}
    \cup {File(Limit, NoWords, <<Route(<< >>, B1), Route(<<<<98>>>>, B1)>>, B1, p) :
             p \in {<< >>, <<120>>}}

-----------------------------------------------------------------------------
\* Ways to write the length n < 128: as EncodeVarInt does, with a byte too many,
\* with bits in the fifth byte that are dropped; a sixth byte; a negative number.
Lengths(n) ==
    {<<n>>, <<n + 128, 0>>, <<n + 128, 128, 128, 128, 112>>,
     <<n + 128, 128, 128, 128, 128, 0>>, <<n + 128, 128, 128, 128, 8>>}

Wrap(payload) == <<Len(payload)>> \o payload

Hello(id, name, next) == <<id, 47>> \o EncodeString(name) \o <<1, 2>> \o <<next>>

Spellings ==
    {<<A>>, <<65>>, <<A, DOT>>, <<A, DOT, DOT>>, <<A, COLON, 49>>, <<LBRACKET, A, RBRACKET>>,
     <<32, A>>, <<A, 0, 70>>, <<98>>, <<99>>, <<0>>, << >>, <<195, 40>>}

\* A login's and a status client's packets, and bytes that follow.
Name == <<0>> \o EncodeString(<<A>>)
LongName == <<0>> \o EncodeString([i \in 1..17 |-> A])
Login == Wrap(Name) \o <<7, 9>>
Query == <<1, 0>> \o <<9, 1, 1, 2, 3, 4, 5, 6, 7, 8>>

PlainHello(next) == Hello(0, <<A>>, next)

\* Lengths spelled otherwise, other identifiers and next states, a packet that is
\* too long, an empty one, and a stream that ends early.
Streams ==
    {l \o PlainHello(2) \o Login : l \in Lengths(Len(PlainHello(2)))}
    \cup {Wrap(PlainHello(2)) \o l \o Name \o <<7>> : l \in Lengths(Len(Name))}
    \cup {Wrap(PlainHello(2)) \o s : s \in {Wrap(LongName), <<2, 5, 5>>, <<0>>, <<25>>, << >>}}
    \cup {Wrap(PlainHello(1)) \o s :
             s \in {Query, <<129, 0, 0>> \o <<130, 128, 0, 1, 1>>, <<1, 0, 200>>, <<1, 1>>, <<1, 0>>}}
    \cup {Wrap(Hello(id, <<A>>, next)) : id \in {0, 1}, next \in {1, 2, 3}}
    \cup {Wrap(<<0, 47, 3, A>>), Wrap(<<0, 47, 1, A, 1>>), <<30>>, <<3, 0>>, << >>}

Plain == Wrap(PlainHello(2)) \o Login

MCCases ==
    [file : {PlainFile}, stream : Streams]
      \cup [file : NumberFiles \cup WordFiles, stream : {Wrap(PlainHello(1)) \o Query}]
      \cup [file : RouteFiles, stream : {Wrap(Hello(0, s, 2)) \o Wrap(Name) : s \in Spellings}]
=============================================================================
