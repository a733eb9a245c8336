-------------------------------- MODULE Pipe --------------------------------
(***************************************************************************)
(* A login or play session once it is forwarded, ProxyBidirectional in     *)
(* src/internal/proxy/pipe.go: two goroutines copy, one per direction,     *)
(* and the first to end closes both connections.                           *)
(*                                                                         *)
(* A peer sends bytes, may end its stream (close, or shut down writing),   *)
(* or resets the connection, which loses what was not read.  The bytes of  *)
(* a peer are numbered in the order in which it sends them.  The module    *)
(* has no specification of its own: Lifecycle extends it.                  *)
(***************************************************************************)
EXTENDS Integers, Sequences

CONSTANTS
    BufSize,    \* bytes one Read returns at most
    MaxBytes    \* bound: per peer, the bytes it sends in a session

Ends == {"client", "backend"}
Directions == {"c2b", "b2c"}
Src(d) == IF d = "c2b" THEN "client" ELSE "backend"
Dst(d) == IF d = "c2b" THEN "backend" ELSE "client"

ASSUME PipeAssumption == BufSize \in Nat \ {0} /\ MaxBytes \in [Ends -> Nat]

VARIABLES
    sent,     \* per peer, all it has sent
    wire,     \* per peer, what it has sent and the proxy has not read
    ended,    \* per peer: "no", "fin" (end of stream) or "rst" (reset)
    got,      \* per peer, the bytes the proxy's writes have handed to its connection
    sock,     \* per peer, whether the proxy's end of the connection is open
    copy,     \* where each direction's goroutine is
    buf,      \* what it has read and not written
    written,  \* its local count
    stats,    \* PipeStats
    once      \* the sync.Once around closeBoth: "unused", "running", "done"

peers == <<sent, wire, ended>>
pipeVars == <<sent, wire, ended, got, sock, copy, buf, written, stats, once>>

PipeInit ==
    /\ sent = [e \in Ends |-> << >>]
    /\ wire = [e \in Ends |-> << >>]
    /\ ended = [e \in Ends |-> "no"]
    /\ got = [e \in Ends |-> << >>]
    /\ sock = [e \in Ends |-> TRUE]
    /\ copy = [d \in Directions |-> "idle"]
    /\ buf = [d \in Directions |-> << >>]
    /\ written = [d \in Directions |-> 0]
    /\ stats = [d \in Directions |-> 0]
    /\ once = "unused"

StartPipe ==
    /\ copy = [d \in Directions |-> "idle"]
    /\ copy' = [d \in Directions |-> "read"]
    /\ UNCHANGED <<peers, got, sock, buf, written, stats, once>>

\* Both goroutines have signalled done: ProxyBidirectional returns stats.
Returned == \A d \in Directions : copy[d] = "done"

-----------------------------------------------------------------------------
\* The peers, while the session lasts.

Send(e) ==
    /\ sock[e] /\ ended[e] = "no"
    /\ Len(sent[e]) < MaxBytes[e]
    /\ sent' = [sent EXCEPT ![e] = Append(@, Len(@) + 1)]
    /\ wire' = [wire EXCEPT ![e] = Append(@, Len(sent[e]) + 1)]
    /\ UNCHANGED <<ended, got, sock, copy, buf, written, stats, once>>

EndStream(e) ==
    /\ sock[e] /\ ended[e] = "no"
    /\ ended' = [ended EXCEPT ![e] = "fin"]
    /\ UNCHANGED <<sent, wire, got, sock, copy, buf, written, stats, once>>

Reset(e) ==
    /\ sock[e] /\ ended[e] # "rst"
    /\ ended' = [ended EXCEPT ![e] = "rst"]
    /\ wire' = [wire EXCEPT ![e] = << >>]
    /\ UNCHANGED <<sent, got, sock, copy, buf, written, stats, once>>

PeerStep == copy # [d \in Directions |-> "idle"] /\ \E e \in Ends : Send(e) \/ EndStream(e) \/ Reset(e)

-----------------------------------------------------------------------------
\* Plausible mistakes, for mutation checks.

AfterWrite_CountsReads(d, n) ==
    /\ got' = [got EXCEPT ![Dst(d)] = @ \o SubSeq(buf[d], 1, n)]
    /\ written' = [written EXCEPT ![d] = @ + Len(buf[d])]

End_OffByOne(d, n) ==
    /\ copy' = [copy EXCEPT ![d] = "close"]
    /\ stats' = [stats EXCEPT ![d] = n - 1]

WriteFails_Retries(d) ==
    /\ copy[d] = "write"
    /\ \E n \in 0..(Len(buf[d]) - 1) :
          /\ got' = [got EXCEPT ![Dst(d)] = @ \o SubSeq(buf[d], 1, n)]
          /\ written' = [written EXCEPT ![d] = @ + n]
    /\ UNCHANGED <<peers, sock, copy, buf, stats, once>>

CloseBackend_Forgotten(d) ==
    /\ copy[d] = "closing"
    /\ once' = "done"
    /\ copy' = [copy EXCEPT ![d] = "done"]
    /\ UNCHANGED <<peers, got, sock, buf, written, stats>>

-----------------------------------------------------------------------------
\* copyWithIdle returns, and copyOne stores the count.
End(d, n) ==
    /\ copy' = [copy EXCEPT ![d] = "close"]
    /\ stats' = [stats EXCEPT ![d] = n]

\* src.Read returns some of what the peer has sent.
Read(d) ==
    /\ copy[d] = "read"
    /\ sock[Src(d)]
    /\ \E n \in 1..BufSize :
          /\ n <= Len(wire[Src(d)])
          /\ buf' = [buf EXCEPT ![d] = SubSeq(wire[Src(d)], 1, n)]
          /\ wire' = [wire EXCEPT ![Src(d)] = SubSeq(@, n + 1, Len(@))]
    /\ copy' = [copy EXCEPT ![d] = "write"]
    /\ UNCHANGED <<sent, ended, got, sock, written, stats, once>>

\* src.Read fails: closed here, at its end, or reset.
ReadFails(d) ==
    /\ copy[d] = "read"
    /\ ~sock[Src(d)] \/ (wire[Src(d)] = << >> /\ ended[Src(d)] # "no")
    /\ End(d, written[d])
    /\ UNCHANGED <<peers, got, sock, buf, written, once>>

\* src.Read waits in vain until its deadline.
ReadIdles(d) ==
    /\ copy[d] = "read"
    /\ sock[Src(d)] /\ wire[Src(d)] = << >> /\ ended[Src(d)] = "no"
    /\ End(d, written[d])
    /\ UNCHANGED <<peers, got, sock, buf, written, once>>

\* The first n bytes of the buffer went out.
AfterWrite(d, n) ==
    /\ got' = [got EXCEPT ![Dst(d)] = @ \o SubSeq(buf[d], 1, n)]
    /\ written' = [written EXCEPT ![d] = @ + n]

\* dst.Write takes the whole buffer; a peer that has ended its stream may
\* still be reading.
Write(d) ==
    /\ copy[d] = "write"
    /\ sock[Dst(d)] /\ ended[Dst(d)] # "rst"
    /\ AfterWrite(d, Len(buf[d]))
    /\ buf' = [buf EXCEPT ![d] = << >>]
    /\ copy' = [copy EXCEPT ![d] = "read"]
    /\ UNCHANGED <<peers, sock, stats, once>>

\* dst.Write fails after n bytes: closed here, closed or reset by the peer, or
\* the peer does not read until the deadline.
WriteFails(d) ==
    /\ copy[d] = "write"
    /\ \E n \in 0..(Len(buf[d]) - 1) :
          /\ AfterWrite(d, n)
          /\ End(d, written'[d])
    /\ buf' = [buf EXCEPT ![d] = << >>]
    /\ UNCHANGED <<peers, sock, once>>

\* once.Do(closeBoth): the first to come closes the client's connection, then
\* the backend's; the other waits for that.
CloseClient(d) ==
    /\ copy[d] = "close" /\ once = "unused"
    /\ once' = "running"
    /\ sock' = [sock EXCEPT !["client"] = FALSE]
    /\ copy' = [copy EXCEPT ![d] = "closing"]
    /\ UNCHANGED <<peers, got, buf, written, stats>>

CloseBackend(d) ==
    /\ copy[d] = "closing"
    /\ once' = "done"
    /\ sock' = [sock EXCEPT !["backend"] = FALSE]
    /\ copy' = [copy EXCEPT ![d] = "done"]
    /\ UNCHANGED <<peers, got, buf, written, stats>>

ClosedAlready(d) ==
    /\ copy[d] = "close" /\ once = "done"
    /\ copy' = [copy EXCEPT ![d] = "done"]
    /\ UNCHANGED <<peers, got, sock, buf, written, stats, once>>

\* A goroutine goes on without the deadline of its read having passed.
GoesOn(d) ==
    \/ Read(d) \/ ReadFails(d)
    \/ Write(d) \/ WriteFails(d)
    \/ CloseClient(d) \/ CloseBackend(d) \/ ClosedAlready(d)

CopyStep(d) == GoesOn(d) \/ ReadIdles(d)

-----------------------------------------------------------------------------
PipeTypeOK ==
    /\ sent \in [Ends -> Seq(Nat)]
    /\ wire \in [Ends -> Seq(Nat)]
    /\ ended \in [Ends -> {"no", "fin", "rst"}]
    /\ got \in [Ends -> Seq(Nat)]
    /\ sock \in [Ends -> BOOLEAN]
    /\ copy \in [Directions -> {"idle", "read", "write", "close", "closing", "done"}]
    /\ buf \in [Directions -> Seq(Nat)]
    /\ written \in [Directions -> Nat]
    /\ stats \in [Directions -> Nat]
    /\ once \in {"unused", "running", "done"}

ToBackend == INSTANCE Stream WITH in <- sent["client"], out <- got["backend"]
ToClient == INSTANCE Stream WITH in <- sent["backend"], out <- got["client"]

\* Each direction forwards a prefix of what it was sent, whatever the sizes of
\* the reads, the partial writes, the deadlines and the moment of closing: the
\* two loops of copyWithIdle implement two streams.
TwoStreams == ToBackend!Spec /\ ToClient!Spec

\* The counts ProxyBidirectional returns are exact: the verdict on a login
\* (no byte from the backend) rests on them.  Each is complete although the
\* goroutines end at different times and the last write may be partial.
CountsExact ==
    Returned => \A d \in Directions : stats[d] = Len(got[Dst(d)])
=============================================================================
