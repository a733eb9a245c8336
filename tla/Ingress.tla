------------------------------ MODULE Ingress ------------------------------
(***************************************************************************)
(* The process from its configuration file to the end of one connection,   *)
(* byte by byte: LoadFile and the constructors, then what handleConn and   *)
(* the handlers of a login and of a status request make of the bytes a     *)
(* client sends (src/internal/proxy/server.go).                            *)
(*                                                                         *)
(* What the guard, the health record and the cache decide is left open     *)
(* here (they are the matter of Login and Status), and so is what the      *)
(* client is answered.                                                     *)
(***************************************************************************)
EXTENDS Config

CONSTANT Cases    \* files, each with the bytes of a client that meets it

ASSUME CasesAssumption ==
    \A c \in Cases :
        /\ c.stream \in Seq(Byte)
        /\ c.file.routes \in Seq([hosts : Seq(Seq(Byte)), backend : Seq(Byte)])
        /\ \A f \in DOMAIN c.file.numbers : c.file.numbers[f] \in Int

VARIABLES
    file,       \* the configuration file
    opts,       \* the numbers the components work with
    stream,     \* everything the client sends
    unread,     \* what of it the proxy has not read
    address,    \* the server address of the handshake
    backend,    \* what it was resolved to
    held,       \* packets read and not yet sent on, as they came
    got,        \* what was written to the backend
    pc

vars == <<file, opts, stream, unread, address, backend, held, got, pc>>

\* A client is waited for.
Reading == {"handshake", "login", "request", "cachedPing", "ping"}

Places == Reading \cup {"load", "rejected", "dialLogin", "dialStatus", "replayLogin",
                        "replayStatus", "pipe", "response", "pong", "closed"}

Init ==
    /\ \E c \in Cases : file = c.file /\ stream = c.stream
    /\ unread = stream
    /\ opts = << >>
    /\ address = << >> /\ backend = << >>
    /\ held = << >> /\ got = << >>
    /\ pc = "load"

-----------------------------------------------------------------------------
Load ==
    /\ pc = "load"
    /\ IF Validate(file)
       THEN opts' = Options(ApplyDefaults(file)) /\ pc' = "handshake"
       ELSE UNCHANGED opts /\ pc' = "rejected"
    /\ UNCHANGED <<file, stream, unread, address, backend, held, got>>

\* What ReadPacket makes of the bytes to come; it waits as long as they end too soon.
Packet == ReadPacket(unread, opts.maxHandshakeSize)

Arrived == Packet.err # "eof"

Take == unread' = From(unread, Packet.size + 1)

\* Plausible mistake, for mutation checks: one buffer for both packets.
Keep_OneBuffer == held' = <<Packet.raw>>

Keep == held' = Append(held, Packet.raw)

Close == pc' = "closed"

\* A refused handshake is not consumed here: nobody reads on.
Refuse ==
    /\ Close
    /\ UNCHANGED <<unread, address, backend, held>>

\* Where a handshake leads, "" where the switch of handleConn ends.
Leads(next) == CASE next = 1 -> "request" [] next = 2 -> "login" [] OTHER -> "closed"

ReadHandshake ==
    /\ pc = "handshake" /\ Arrived
    /\ IF Packet.err # "none" \/ ParseHandshake(Packet).err # "none"
       THEN Refuse
       ELSE LET h == ParseHandshake(Packet)
            IN  /\ address' = h.address
                /\ backend' = Resolve(file, NormalizeHost(h.address))
                /\ pc' = IF backend' = << >> THEN "closed" ELSE Leads(h.next)
                /\ Take /\ Keep
    /\ UNCHANGED <<file, opts, stream, got>>

\* The ban of an address is looked up before the read, that of a player only
\* under a name.
BannedAddress ==
    /\ pc = "login"
    /\ Close
    /\ UNCHANGED <<file, opts, stream, unread, address, backend, held, got>>

ReadLogin ==
    /\ pc = "login" /\ Arrived
    /\ IF Packet.err # "none"
       THEN Refuse
       ELSE /\ pc' = "dialLogin" \/ (UsernameOf(Packet) # << >> /\ Close)
            /\ Take /\ Keep
            /\ UNCHANGED <<address, backend>>
    /\ UNCHANGED <<file, opts, stream, got>>

\* A cached answer, a fallback or its absence when the backend is unhealthy, or
\* the backend is asked.
ReadRequest ==
    /\ pc = "request" /\ Arrived
    /\ IF Packet.err # "none" \/ Packet.id # StatusRequestPacketID
       THEN Refuse
       ELSE /\ pc' \in {"cachedPing", "closed", "dialStatus"}
            /\ Take /\ Keep
            /\ UNCHANGED <<address, backend>>
    /\ UNCHANGED <<file, opts, stream, got>>

Dial ==
    /\ \/ pc = "dialLogin" /\ pc' \in {"replayLogin", "closed"}
       \/ pc = "dialStatus" /\ pc' \in {"replayStatus", "cachedPing", "closed"}
    /\ UNCHANGED <<file, opts, stream, unread, address, backend, held, got>>

\* One Write for each packet held; it may fail after a part.
Replay ==
    /\ pc \in {"replayLogin", "replayStatus"}
    /\ \/ /\ got' = got \o Head(held)
          /\ held' = Tail(held)
          /\ pc' = IF held' # << >> THEN pc
                   ELSE IF pc = "replayLogin" THEN "pipe" ELSE "response"
       \/ /\ \E n \in 0..(Len(Head(held)) - 1) : got' = got \o SubSeq(Head(held), 1, n)
          /\ Close
          /\ UNCHANGED held
    /\ UNCHANGED <<file, opts, stream, unread, address, backend>>

\* ProxyBidirectional, in the client's direction.
Forward ==
    /\ pc = "pipe"
    /\ \E n \in 1..Len(unread) :
          /\ got' = got \o SubSeq(unread, 1, n)
          /\ unread' = From(unread, n + 1)
    /\ UNCHANGED <<file, opts, stream, address, backend, held, pc>>

EndSession ==
    /\ pc = "pipe"
    /\ Close
    /\ UNCHANGED <<file, opts, stream, unread, address, backend, held, got>>

Response ==
    /\ pc = "response"
    /\ pc' \in {"ping", "cachedPing", "closed"}
    /\ UNCHANGED <<file, opts, stream, unread, address, backend, held, got>>

\* handleCachedPing answers itself, whatever the packet turns out to be.
CachedPing ==
    /\ pc = "cachedPing" /\ Arrived
    /\ Close
    /\ IF Packet.err = "none" THEN Take ELSE UNCHANGED unread
    /\ UNCHANGED <<file, opts, stream, address, backend, held, got>>

\* proxyStatusPing sends any packet on.
ProxyPing ==
    /\ pc = "ping" /\ Arrived
    /\ IF Packet.err # "none"
       THEN UNCHANGED <<unread, got>> /\ Close
       ELSE /\ Take
            /\ \/ got' = got \o Packet.raw /\ pc' = "pong"
               \/ /\ \E n \in 0..(Len(Packet.raw) - 1) : got' = got \o SubSeq(Packet.raw, 1, n)
                  /\ Close
    /\ UNCHANGED <<file, opts, stream, address, backend, held>>

\* The pong comes, or the deadline of the backend's connection.
Pong ==
    /\ pc = "pong"
    /\ Close
    /\ UNCHANGED <<file, opts, stream, unread, address, backend, held, got>>

\* The client ends its stream where it is waited for, or the read deadline passes.
Leave ==
    /\ pc \in Reading
    /\ Close
    /\ UNCHANGED <<file, opts, stream, unread, address, backend, held, got>>

Next ==
    \/ Load \/ ReadHandshake
    \/ BannedAddress \/ ReadLogin \/ ReadRequest
    \/ Dial \/ Replay \/ Forward \/ EndSession
    \/ Response \/ CachedPing \/ ProxyPing \/ Pong \/ Leave

Spec == Init /\ [][Next]_vars

-----------------------------------------------------------------------------
\* The handler has the packets it goes on to replay, at every place of it.
TypeOK ==
    /\ pc \in Places
    /\ unread \in Seq(Byte) /\ got \in Seq(Byte)
    /\ held \in Seq(Seq(Byte)) /\ Len(held) <= 2
    /\ pc \in {"login", "request"} => Len(held) = 1
    /\ pc \in {"dialLogin", "dialStatus"} => Len(held) = 2
    /\ pc \notin {"load", "rejected"} => DOMAIN opts = Numbers
    /\ pc \in {"replayLogin", "replayStatus"} => held # << >>

Held(h) == IF h = << >> THEN << >> ELSE IF Len(h) = 1 THEN h[1] ELSE h[1] \o h[2]

IsPrefixOf(s, t) == Len(s) <= Len(t) /\ s = SubSeq(t, 1, Len(s))

\* What a backend is sent is what the client sent, byte for byte and in order,
\* however a VarInt was spelled: as long as the connection is open, nothing read
\* is lost or read twice (packets are put together again from what was read, and
\* a packet's read takes nothing of what follows it); afterwards the backend has
\* a beginning of it.
BackendGetsTheStream ==
    /\ pc # "closed" => got \o Held(held) \o unread = stream
    /\ IsPrefixOf(got, stream)

Stable(h) == NormalizeHost(h) = h

\* With a file that was accepted, whoever gives the name of a route, in whatever
\* spelling NormalizeHost sees through, is taken to that route's backend and to
\* no other (no other route shares the name), and whoever gives another name to
\* the default; and a backend that is probed under the name of a route is probed
\* under one that leads to it.  The name must be stable: Resolve normalises again
\* what handleConn has normalised, while a route's hosts are normalised once.
OwnRoute ==
    pc \notin {"load", "rejected"} =>
        \A ij \in HostsOf(file.routes) :
            LET b == file.routes[ij[1]].backend
                h == NormalizeHost(HostAt(file.routes, ij))
            IN  Stable(h) =>
                  /\ held # << >> /\ NormalizeHost(address) = h => backend = b
                  /\ ProbeHost(file, b) = h => Resolve(file, ProbeHost(file, b)) = b

\* A file that is accepted gives the guard, the health record, the pool and the
\* codec numbers for which they are right: the assumptions of the modules Guard,
\* Health and Pool, and limits that let a packet through.
AcceptedFitsModels ==
    pc \notin {"load", "rejected"} =>
        /\ \A f \in GuardNumbers \cup HealthNumbers : opts[f] > 0
        /\ opts.maxIdlePerBackend > 0 /\ opts.idleTimeout > 0
        /\ opts.maxHandshakeSize > 0 /\ opts.maxStatusResponseSize > 0
=============================================================================
