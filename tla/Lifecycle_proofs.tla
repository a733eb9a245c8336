-------------------------- MODULE Lifecycle_proofs --------------------------
(***************************************************************************)
(* Proofs about the life of the process and about its session, for any     *)
(* size of the copy buffers and any number of bytes: what an exit status   *)
(* and readiness mean, and that each direction of the pipe is a stream     *)
(* whose bytes are counted.                                                *)
(***************************************************************************)
EXTENDS Lifecycle, SequenceTheorems, TLAPS

\* The types but for the session's.
ProcessTypes ==
    /\ ctx \in BOOLEAN
    /\ main \in {"select", "shutdown", "closing", "exited"}
    /\ exit \in {"none", "ok", "error"}
    /\ server \in {"listen", "publish", "accept", "returned"}
    /\ errCh \in {"none", "nil", "canceled", "failed"}
    /\ ln \in {"none", "open", "closed"}
    /\ known \in BOOLEAN
    /\ watcher \in {"none", "waiting", "done"}
    /\ mgmt \in {"on", "failed", "off"}
    /\ handler \in {"none", "handling", "piping", "ended"}

\* What is told to stop has been told by the context, and the listener is known
\* from its publication on.
Causes ==
    /\ ProcessTypes
    /\ server = "returned" <=> errCh # "none"
    /\ errCh = "canceled" => ctx
    /\ ln = "closed" => ctx
    /\ main \in {"shutdown", "closing"} => ctx
    /\ main = "closing" => known
    /\ server \in {"publish", "accept"} => ln # "none"
    /\ known => server \in {"accept", "returned"}
    /\ ExitHasCause

\* The bytes of a peer are numbered; those that came out of a direction are the
\* first ones, the next are in its buffer and the next in its wire.  Only a
\* reset, or the end of the direction, loses some.
Numbered(s, from) == \A i \in 1..Len(s) : s[i] = from + i

Adds(i, o, b, w, end) ==
    /\ o + b + w <= i
    /\ end # "rst" => o + b + w = i

Order(in, w, end, out, c, b, n, st) ==
    /\ Numbered(in, 0) /\ Numbered(out, 0)
    /\ Len(out) <= Len(in)
    /\ n = Len(out)
    /\ c \in {"close", "closing", "done"} => st = Len(out)
    /\ c \in {"idle", "read", "write"} =>
          /\ Numbered(b, Len(out)) /\ Numbered(w, Len(out) + Len(b))
          /\ Adds(Len(in), Len(out), Len(b), Len(w), end)
    /\ c \in {"idle", "read"} => Len(b) = 0

Ordered(d) ==
    Order(sent[Src(d)], wire[Src(d)], ended[Src(d)], got[Dst(d)], copy[d], buf[d],
          written[d], stats[d])

Streams == PipeTypeOK /\ \A d \in Directions : Ordered(d)

-----------------------------------------------------------------------------
\* A step of the session leaves the process alone, and the other way round.
LEMMA CausesKept ==
    ASSUME Causes, [Next]_vars
    PROVE  Causes'
<1> USE DEF Causes, ProcessTypes, ExitHasCause
<1>1. CASE UNCHANGED vars
  BY <1>1 DEF vars
<1>2. CASE Next
  <2> USE DEF mainVars, serverVars
  <2>1. exit = "none"
    BY <1>2 DEF Next
  <2>2. CASE Signal
    BY <2>2 DEF Signal
  <2>3. CASE Mgmt
    <3>1. CASE MgmtEnds
      BY <3>1 DEF MgmtEnds
    <3>2. CASE MgmtFails
      BY <3>2 DEF MgmtFails
    <3>3. CASE MgmtStops
      BY <3>3 DEF MgmtStops
    <3> QED BY <2>3, <3>1, <3>2, <3>3 DEF Mgmt
  <2>4. CASE Listen
    BY <2>4 DEF Listen, ServerReturns
  <2>5. CASE Publish
    BY <2>5 DEF Publish
  <2>6. CASE Accept
    BY <2>6 DEF Accept
  <2>7. CASE AcceptFails
    BY <2>1, <2>7 DEF AcceptFails, ServerReturns, ServeError
  <2>8. CASE AcceptClosed
    BY <2>1, <2>8 DEF AcceptClosed, ServerReturns
  <2>9. CASE Watch
    BY <2>9 DEF Watch
  <2>10. CASE Connection
    BY <2>10 DEF Connection, Handle, Session, HandlerReturns
  <2>11. CASE SelectErr
    BY <2>1, <2>11 DEF SelectErr, Exit, Outcome
  <2>12. CASE SelectDone
    BY <2>12 DEF SelectDone
  <2>13. CASE Shutdown
    BY <2>1, <2>13 DEF Shutdown, Exit
  <2>14. CASE CloseListener
    BY <2>1, <2>14 DEF CloseListener, Exit
  <2>15. CASE ShutdownTimeout
    BY <2>1, <2>15 DEF ShutdownTimeout, Exit
  <2> QED
    BY <1>2, <2>2, <2>3, <2>4, <2>5, <2>6, <2>7, <2>8, <2>9, <2>10, <2>11, <2>12, <2>13, <2>14,
       <2>15 DEF Next, Server, MainStep
<1> QED BY <1>1, <1>2

\* The process starts without a cause to stop.
LEMMA CausesInvariant == Spec => []Causes
<1>1. Init => Causes
  BY LifecycleAssumption DEF Init, Causes, ProcessTypes, ExitHasCause
<1> QED BY <1>1, CausesKept, PTL DEF Spec

\* Serve never returns nil, 0 is the end of a process that was told to stop, and
\* 1 that of a failure or of a shutdown that was too late.
THEOREM ExitsHaveCauses == Spec => []ExitHasCause
<1>1. Causes => ExitHasCause
  BY DEF Causes
<1> QED BY <1>1, CausesInvariant, PTL

\* /readyz says yes only when the listener is accepted from, or the end is near.
THEOREM ReadyIsServing == Spec => []ReadyMeansServing
<1>1. Causes => ReadyMeansServing
  BY DEF Causes, ProcessTypes, ReadyMeansServing, Ready
<1> QED BY <1>1, CausesInvariant, PTL

-----------------------------------------------------------------------------
\* The two directions, and their ends.
LEMMA Sides ==
    /\ \A d \in Directions : Src(d) \in Ends /\ Dst(d) \in Ends
    /\ \A d, x \in Directions : x # d => Src(x) # Src(d) /\ Dst(x) # Dst(d)
BY DEF Directions, Ends, Src, Dst

\* The first n of the bytes b come out after s.
LEMMA Handed ==
    ASSUME NEW s \in Seq(Nat), NEW b \in Seq(Nat), NEW n \in 0..Len(b)
    PROVE  LET t == s \o SubSeq(b, 1, n)
           IN  /\ t \in Seq(Nat) /\ Len(t) = Len(s) + n
               /\ \A i \in 1..Len(s) : t[i] = s[i]
               /\ \A i \in 1..n : t[Len(s) + i] = b[i]
<1> DEFINE h == SubSeq(b, 1, n)
<1>1. Len(b) \in Nat /\ \A i \in 1..Len(b) : b[i] \in Nat
  BY LenProperties, ElementOfSeq
<1>2. h \in Seq(Nat) /\ Len(h) = n /\ \A i \in 1..n : h[i] = b[i]
  BY <1>1
<1> HIDE DEF h
<1>3. Len(s) \in Nat
  BY LenProperties
<1>4. /\ s \o h \in Seq(Nat) /\ Len(s \o h) = Len(s) + n
      /\ \A i \in 1..(Len(s) + n) : (s \o h)[i] = IF i <= Len(s) THEN s[i] ELSE h[i - Len(s)]
  BY <1>2, ConcatProperties
<1>5. \A i \in 1..Len(s) : (s \o h)[i] = s[i]
  BY <1>1, <1>3, <1>4
<1>6. ASSUME NEW i \in 1..n PROVE (s \o h)[Len(s) + i] = b[i]
  <2>1. Len(s) + i \in 1..(Len(s) + n) /\ ~(Len(s) + i <= Len(s)) /\ (Len(s) + i) - Len(s) = i
    BY <1>1, <1>3
  <2> QED BY <1>2, <1>4, <2>1
<1> QED BY <1>4, <1>5, <1>6 DEF h

\* A read takes the first n bytes of a wire.
LEMMA Taken ==
    ASSUME NEW s \in Seq(Nat), NEW n \in 0..Len(s)
    PROVE  /\ SubSeq(s, 1, n) \in Seq(Nat) /\ Len(SubSeq(s, 1, n)) = n
           /\ \A i \in 1..n : SubSeq(s, 1, n)[i] = s[i]
           /\ SubSeq(s, n + 1, Len(s)) \in Seq(Nat)
           /\ Len(SubSeq(s, n + 1, Len(s))) = Len(s) - n
           /\ \A i \in 1..(Len(s) - n) : SubSeq(s, n + 1, Len(s))[i] = s[n + i]
<1>1. Len(s) \in Nat /\ \A i \in 1..Len(s) : s[i] \in Nat
  BY LenProperties, ElementOfSeq
<1>2. /\ SubSeq(s, 1, n) \in Seq(Nat) /\ Len(SubSeq(s, 1, n)) = n
      /\ \A i \in 1..n : SubSeq(s, 1, n)[i] = s[i]
  BY <1>1
<1>3. SubSeq(s, n + 1, Len(s)) \in Seq(Nat)
  BY <1>1
<1>4. Len(SubSeq(s, n + 1, Len(s))) = Len(s) - n
  BY <1>1
<1>5. \A i \in 1..(Len(s) - n) : SubSeq(s, n + 1, Len(s))[i] = s[n + i]
  BY <1>1
<1> QED BY <1>2, <1>3, <1>4, <1>5
-----------------------------------------------------------------------------
\* One more byte.
LEMMA OneMore ==
    ASSUME NEW s \in Seq(Nat), NEW from \in Nat, Numbered(s, from)
    PROVE  LET t == Append(s, from + Len(s) + 1)
           IN  t \in Seq(Nat) /\ Len(t) = Len(s) + 1 /\ Numbered(t, from)
<1> DEFINE t == Append(s, from + Len(s) + 1)
<1>1. Len(s) \in Nat /\ from + Len(s) + 1 \in Nat
  BY LenProperties
<1>2. /\ t \in Seq(Nat) /\ Len(t) = Len(s) + 1
      /\ \A i \in 1..Len(s) : t[i] = s[i]
      /\ t[Len(s) + 1] = from + Len(s) + 1
  BY <1>1, AppendProperties
<1> HIDE DEF t
<1>3. Numbered(t, from)
  <2> SUFFICES ASSUME NEW i \in 1..(Len(s) + 1) PROVE t[i] = from + i
    BY <1>2 DEF Numbered
  <2>1. CASE i \in 1..Len(s)
    BY <1>2, <2>1 DEF Numbered
  <2>2. CASE i = Len(s) + 1
    BY <1>1, <1>2, <2>2
  <2> QED BY <1>1, <2>1, <2>2
<1> QED BY <1>2, <1>3 DEF t

\* What the steps do to the sum.
LEMMA Sums ==
    ASSUME NEW i \in Nat, NEW o \in Nat, NEW b \in Nat, NEW w \in Nat, NEW end,
           Adds(i, o, b, w, end)
    PROVE  /\ o + b <= i
           /\ end # "rst" => (o + b) + w = i
           /\ end # "rst" => Adds(i + 1, o, b, w + 1, end)
           /\ end # "rst" => Adds(i, o, b, w, "fin")
           /\ Adds(i, o, b, 0, "rst")
           /\ \A n \in 0..w : b = 0 => Adds(i, o, n, w - n, end)
           /\ Adds(i, o + b, 0, w, end)
           /\ \A n \in 0..b : o + n <= i
BY DEF Adds

\* What a read takes goes on where the bytes that are out end, and what it leaves
\* where it stops.
LEMMA NumberedRead ==
    ASSUME NEW s \in Seq(Nat), NEW n \in 0..Len(s), NEW from \in Nat, Numbered(s, from)
    PROVE  /\ Numbered(SubSeq(s, 1, n), from)
           /\ Numbered(SubSeq(s, n + 1, Len(s)), from + n)
<1> DEFINE h == SubSeq(s, 1, n)
           r == SubSeq(s, n + 1, Len(s))
           m == Len(s)
<1>1. m \in Nat
  BY LenProperties
<1>2. /\ Len(h) = n /\ \A i \in 1..n : h[i] = s[i]
      /\ Len(r) = m - n /\ \A i \in 1..(m - n) : r[i] = s[n + i]
      /\ \A i \in 1..m : s[i] = from + i /\ n \in 0..m
  BY Taken DEF Numbered
<1> HIDE DEF h, r, m
<1>3. Numbered(h, from)
  <2> SUFFICES ASSUME NEW i \in 1..n PROVE h[i] = from + i
    BY <1>2 DEF Numbered
  <2>1. i \in 1..m
    BY <1>1, <1>2
  <2> QED BY <1>2, <2>1
<1>4. ASSUME NEW i \in 1..(m - n) PROVE r[i] = from + n + i
  <2>1. n + i \in 1..m /\ from + (n + i) = from + n + i
    BY <1>1, <1>2
  <2> QED BY <1>2, <2>1
<1>5. Numbered(r, from + n)
  BY <1>2, <1>4 DEF Numbered
<1> QED BY <1>3, <1>5 DEF h, r, m

\* What a write hands on follows what is out.
LEMMA NumberedWritten ==
    ASSUME NEW s \in Seq(Nat), NEW b \in Seq(Nat), NEW n \in 0..Len(b),
           Numbered(s, 0), Numbered(b, Len(s))
    PROVE  Numbered(s \o SubSeq(b, 1, n), 0)
<1> DEFINE t == s \o SubSeq(b, 1, n)
           k == Len(s)
           m == Len(b)
<1>1. k \in Nat /\ m \in Nat
  BY LenProperties
<1>2. /\ Len(t) = k + n
      /\ \A i \in 1..k : t[i] = s[i]
      /\ \A i \in 1..n : t[k + i] = b[i]
      /\ \A i \in 1..k : s[i] = 0 + i
      /\ \A i \in 1..m : b[i] = k + i
      /\ n \in 0..m
  BY Handed DEF Numbered
<1> HIDE DEF t, k, m
<1>3. ASSUME NEW i \in 1..(k + n) PROVE t[i] = 0 + i
  <2>1. CASE i \in 1..k
    BY <1>2, <2>1
  <2>2. CASE ~(i \in 1..k)
    <3>1. i - k \in 1..n /\ i - k \in 1..m /\ k + (i - k) = i /\ 0 + i = i
      BY <1>1, <1>2, <2>2
    <3> QED BY <1>2, <3>1
  <2> QED BY <2>1, <2>2
<1> QED BY <1>2, <1>3 DEF Numbered, t

\* Sending, in the terms of one direction.
LEMMA OrderSent ==
    ASSUME NEW in \in Seq(Nat), NEW w \in Seq(Nat), NEW out \in Seq(Nat), NEW b \in Seq(Nat),
           NEW c, NEW n, NEW st, Order(in, w, "no", out, c, b, n, st)
    PROVE  /\ Append(in, Len(in) + 1) \in Seq(Nat) /\ Append(w, Len(in) + 1) \in Seq(Nat)
           /\ Order(Append(in, Len(in) + 1), Append(w, Len(in) + 1), "no", out, c, b, n, st)
<1> DEFINE i == Len(in)
           o == Len(out)
           x == Len(b)
           y == Len(w)
           s == Append(in, i + 1)
           v == Append(w, i + 1)
<1>1. i \in Nat /\ o \in Nat /\ x \in Nat /\ y \in Nat
  BY LenProperties
<1>2. Numbered(in, 0) /\ o <= i
  BY DEF Order
<1>3. 0 + i + 1 = i + 1 /\ i + 1 \in Nat
  BY <1>1
<1>4. s \in Seq(Nat) /\ Len(s) = i + 1 /\ Numbered(s, 0)
  BY <1>2, <1>3, OneMore
<1>5. v \in Seq(Nat) /\ Len(v) = y + 1
  BY <1>3, AppendProperties
<1>6. ASSUME c \in {"idle", "read", "write"}
      PROVE  Numbered(v, o + x) /\ Adds(i + 1, o, x, y + 1, "no")
  <2>1. Adds(i, o, x, y, "no") /\ Numbered(w, o + x)
    BY <1>6 DEF Order
  <2> HIDE DEF i, o, x, y
  <2>2. (o + x) + y = i /\ o + x \in Nat /\ Adds(i + 1, o, x, y + 1, "no")
    BY <1>1, <2>1, Sums
  <2>3. v = Append(w, (o + x) + y + 1)
    BY <2>2
  <2> HIDE DEF v
  <2>4. Numbered(v, o + x)
    BY <2>1, <2>2, <2>3, OneMore DEF y
  <2> QED BY <2>2, <2>4
<1>7. o <= i + 1
  <2> HIDE DEF o, i
  <2> QED BY <1>1, <1>2
<1> HIDE DEF s, v
<1>8. Order(s, v, "no", out, c, b, n, st)
  BY <1>4, <1>5, <1>6, <1>7 DEF Order
<1> QED BY <1>4, <1>5, <1>8 DEF s, v

\* The end of a stream.
LEMMA OrderFin ==
    ASSUME NEW in \in Seq(Nat), NEW w \in Seq(Nat), NEW out \in Seq(Nat), NEW b \in Seq(Nat),
           NEW c, NEW n, NEW st, Order(in, w, "no", out, c, b, n, st)
    PROVE  Order(in, w, "fin", out, c, b, n, st)
<1>1. Len(in) \in Nat /\ Len(w) \in Nat /\ Len(out) \in Nat /\ Len(b) \in Nat
  BY LenProperties
<1> QED BY <1>1, Sums DEF Order

\* A reset.
LEMMA OrderReset ==
    ASSUME NEW in \in Seq(Nat), NEW w \in Seq(Nat), NEW out \in Seq(Nat), NEW b \in Seq(Nat),
           NEW c, NEW end, NEW n, NEW st, Order(in, w, end, out, c, b, n, st)
    PROVE  Order(in, << >>, "rst", out, c, b, n, st)
<1>1. Len(in) \in Nat /\ Len(w) \in Nat /\ Len(out) \in Nat /\ Len(b) \in Nat
  BY LenProperties
<1>2. Len(<< >>) = 0
  BY EmptySeq
<1>3. \A from \in Nat : Numbered(<< >>, from)
  BY <1>2 DEF Numbered
<1>4. ASSUME c \in {"idle", "read", "write"}
      PROVE  Numbered(<< >>, Len(out) + Len(b)) /\ Adds(Len(in), Len(out), Len(b), 0, "rst")
  BY <1>1, <1>3, <1>4, Sums DEF Order
<1> QED BY <1>2, <1>4 DEF Order

\* A read of n bytes.
LEMMA OrderRead ==
    ASSUME NEW in \in Seq(Nat), NEW w \in Seq(Nat), NEW out \in Seq(Nat), NEW b \in Seq(Nat),
           NEW end, NEW n, NEW st, Order(in, w, end, out, "read", b, n, st), NEW k \in 0..Len(w)
    PROVE  Order(in, SubSeq(w, k + 1, Len(w)), end, out, "write", SubSeq(w, 1, k), n, st)
<1> DEFINE i == Len(in)
           o == Len(out)
           y == Len(w)
           h == SubSeq(w, 1, k)
           r == SubSeq(w, k + 1, Len(w))
<1>1. i \in Nat /\ o \in Nat /\ y \in Nat /\ k \in 0..y
  BY LenProperties
<1>2. Len(b) = 0 /\ Numbered(w, o + Len(b)) /\ Adds(i, o, Len(b), y, end)
  BY DEF Order
<1>3. o + Len(b) = o
  <2> HIDE DEF o
  <2> QED BY <1>1, <1>2
<1>4. Len(h) = k /\ Len(r) = y - k
  BY Taken
<1>5. Numbered(h, o) /\ Numbered(r, o + k)
  BY <1>1, <1>2, <1>3, NumberedRead
<1>6. Adds(i, o, k, y - k, end)
  <2> HIDE DEF i, o, y
  <2> QED BY <1>1, <1>2, Sums
<1> HIDE DEF h, r
<1>7. Order(in, r, end, out, "write", h, n, st)
  BY <1>4, <1>5, <1>6 DEF Order
<1> QED BY <1>7 DEF h, r

\* A write of the first k bytes: what is out stays in order and within what was
\* sent, and if it was all of them the direction can read again.
LEMMA OrderWritten ==
    ASSUME NEW in \in Seq(Nat), NEW w \in Seq(Nat), NEW out \in Seq(Nat), NEW b \in Seq(Nat),
           NEW end, NEW n, NEW st, Order(in, w, end, out, "write", b, n, st), NEW k \in 0..Len(b)
    PROVE  LET t == out \o SubSeq(b, 1, k)
           IN  /\ t \in Seq(Nat) /\ Len(t) = Len(out) + k
               /\ Order(in, w, end, t, "close", << >>, n + k, n + k)
               /\ k = Len(b) => Order(in, w, end, t, "read", << >>, n + k, st)
<1> DEFINE i == Len(in)
           o == Len(out)
           x == Len(b)
           y == Len(w)
           t == out \o SubSeq(b, 1, k)
<1>1. i \in Nat /\ o \in Nat /\ x \in Nat /\ y \in Nat /\ k \in 0..x
  BY LenProperties
<1>2. /\ Numbered(in, 0) /\ Numbered(out, 0) /\ n = o
      /\ Numbered(b, o) /\ Numbered(w, o + x) /\ Adds(i, o, x, y, end)
  BY DEF Order
<1>3. t \in Seq(Nat) /\ Len(t) = o + k
  BY Handed
<1>4. Numbered(t, 0)
  BY <1>2, NumberedWritten
<1>5. Len(<< >>) = 0 /\ \A from : Numbered(<< >>, from)
  BY EmptySeq DEF Numbered
<1>6. o + k <= i /\ Adds(i, o + x, 0, y, end) /\ (o + x) + 0 = o + x
  <2> HIDE DEF i, o, x, y
  <2> QED BY <1>1, <1>2, Sums
<1> HIDE DEF t
<1>7. Order(in, w, end, t, "close", << >>, n + k, n + k)
  BY <1>2, <1>3, <1>4, <1>5, <1>6 DEF Order
<1>8. ASSUME k = x PROVE Order(in, w, end, t, "read", << >>, n + k, st)
  <2>1. Len(t) = o + x /\ n + k = o + x /\ Numbered(w, (o + x) + 0)
    BY <1>2, <1>3, <1>6, <1>8
  <2>2. Adds(i, Len(t), 0, y, end) /\ Numbered(w, Len(t) + 0) /\ Len(t) <= i
    BY <1>3, <1>6, <1>8, <2>1
  <2> QED BY <1>2, <1>4, <1>5, <2>1, <2>2 DEF Order
<1> QED BY <1>3, <1>7, <1>8 DEF t

\* What the next state says of a direction.
LEMMA NextOrder ==
    ASSUME NEW d \in Directions,
           Order(sent'[Src(d)], wire'[Src(d)], ended'[Src(d)], got'[Dst(d)], copy'[d], buf'[d],
                 written'[d], stats'[d])
    PROVE  Ordered(d)'
BY DEF Ordered, Src, Dst

\* A direction's goroutine, and the peer it reads from, do not disturb the other
\* direction.
LEMMA OtherDirection ==
    ASSUME NEW d \in Directions, Ordered(d),
           sent'[Src(d)] = sent[Src(d)], wire'[Src(d)] = wire[Src(d)],
           ended'[Src(d)] = ended[Src(d)], got'[Dst(d)] = got[Dst(d)],
           copy'[d] = copy[d], buf'[d] = buf[d], written'[d] = written[d], stats'[d] = stats[d]
    PROVE  Ordered(d)'
BY NextOrder DEF Ordered

\* What the session's types say of a direction.
LEMMA Lengths ==
    ASSUME PipeTypeOK, NEW d \in Directions
    PROVE  /\ sent[Src(d)] \in Seq(Nat) /\ Len(sent[Src(d)]) \in Nat
           /\ wire[Src(d)] \in Seq(Nat) /\ Len(wire[Src(d)]) \in Nat
           /\ got[Dst(d)] \in Seq(Nat) /\ Len(got[Dst(d)]) \in Nat
           /\ buf[d] \in Seq(Nat) /\ Len(buf[d]) \in Nat
<1>1. /\ sent[Src(d)] \in Seq(Nat) /\ wire[Src(d)] \in Seq(Nat)
      /\ got[Dst(d)] \in Seq(Nat) /\ buf[d] \in Seq(Nat)
  BY Sides DEF PipeTypeOK
<1> QED BY <1>1, LenProperties

\* Starting the two goroutines.
LEMMA StartKept ==
    ASSUME Streams, StartPipe
    PROVE  Streams'
<1>1. PipeTypeOK'
  BY DEF Streams, StartPipe, PipeTypeOK, peers
<1>2. ASSUME NEW d \in Directions PROVE Ordered(d)'
  <2>1. copy[d] = "idle" /\ copy'[d] = "read"
    BY DEF StartPipe
  <2>2. Ordered(d) /\ UNCHANGED <<sent, wire, ended, got, buf, written, stats>>
    BY DEF Streams, StartPipe, peers
  <2> QED BY <2>1, <2>2, NextOrder DEF Ordered, Order
<1> QED BY <1>1, <1>2 DEF Streams

\* What the peers do.
LEMMA PeersKept ==
    ASSUME Streams, NEW e \in Ends, Send(e) \/ EndStream(e) \/ Reset(e)
    PROVE  Streams'
<1>1. PipeTypeOK
  BY DEF Streams
<1>2. PICK d \in Directions : Src(d) = e
  BY DEF Directions, Ends, Src
<1>3. /\ UNCHANGED <<got, sock, copy, buf, written, stats, once>>
      /\ \A x \in Ends : x # e => /\ sent'[x] = sent[x] /\ wire'[x] = wire[x]
                                  /\ ended'[x] = ended[x]
  BY <1>1 DEF Send, EndStream, Reset, PipeTypeOK
<1>4. ASSUME NEW x \in Directions, x # d PROVE Ordered(x)'
  BY <1>2, <1>3, <1>4, Sides, OtherDirection DEF Streams
<1>5. Order(sent[e], wire[e], ended[e], got[Dst(d)], copy[d], buf[d], written[d], stats[d])
  BY <1>2 DEF Streams, Ordered
<1>6. /\ sent[e] \in Seq(Nat) /\ wire[e] \in Seq(Nat) /\ got[Dst(d)] \in Seq(Nat)
      /\ buf[d] \in Seq(Nat)
  BY <1>1, <1>2, Lengths
<1> SUFFICES /\ Order(sent'[e], wire'[e], ended'[e], got[Dst(d)], copy[d], buf[d], written[d],
                      stats[d])
             /\ PipeTypeOK'
  <2>1. Ordered(d)'
    BY <1>2, <1>3, NextOrder
  <2> QED BY <1>4, <2>1 DEF Streams
<1>7. CASE Send(e)
  <2>1. /\ sent' = [sent EXCEPT ![e] = Append(sent[e], Len(sent[e]) + 1)]
        /\ wire' = [wire EXCEPT ![e] = Append(wire[e], Len(sent[e]) + 1)]
        /\ ended' = ended /\ ended[e] = "no"
    BY <1>7 DEF Send
  <2>2. /\ sent'[e] = Append(sent[e], Len(sent[e]) + 1)
        /\ wire'[e] = Append(wire[e], Len(sent[e]) + 1)
    BY <1>1, <2>1 DEF PipeTypeOK
  <2>3. /\ sent'[e] \in Seq(Nat) /\ wire'[e] \in Seq(Nat)
        /\ Order(sent'[e], wire'[e], ended'[e], got[Dst(d)], copy[d], buf[d], written[d], stats[d])
    BY <1>5, <1>6, <2>1, <2>2, OrderSent
  <2>4. PipeTypeOK'
    BY <1>1, <1>3, <2>1, <2>2, <2>3 DEF PipeTypeOK
  <2> QED BY <2>3, <2>4
<1>8. CASE EndStream(e)
  <2>1. UNCHANGED <<sent, wire>> /\ ended[e] = "no" /\ ended' = [ended EXCEPT ![e] = "fin"]
    BY <1>8 DEF EndStream
  <2>2. ended'[e] = "fin" /\ PipeTypeOK'
    BY <1>1, <1>3, <2>1 DEF PipeTypeOK
  <2> QED BY <1>5, <1>6, <2>1, <2>2, OrderFin
<1>9. CASE Reset(e)
  <2>1. /\ sent' = sent
        /\ ended' = [ended EXCEPT ![e] = "rst"] /\ wire' = [wire EXCEPT ![e] = << >>]
    BY <1>9 DEF Reset
  <2>2. << >> \in Seq(Nat)
    BY EmptySeq
  <2>3. ended'[e] = "rst" /\ wire'[e] = << >> /\ PipeTypeOK'
    BY <1>1, <1>3, <2>1, <2>2 DEF PipeTypeOK
  <2> QED BY <1>5, <1>6, <2>1, <2>3, OrderReset
<1> QED BY <1>7, <1>8, <1>9

-----------------------------------------------------------------------------
\* A step of direction d leaves the other one alone.
LEMMA CopyKept ==
    ASSUME Streams, NEW d \in Directions, PipeTypeOK',
           \A x \in Directions : x # d =>
               /\ wire'[Src(x)] = wire[Src(x)] /\ got'[Dst(x)] = got[Dst(x)]
               /\ copy'[x] = copy[x] /\ buf'[x] = buf[x]
               /\ written'[x] = written[x] /\ stats'[x] = stats[x],
           sent' = sent, ended' = ended,
           Order(sent[Src(d)], wire'[Src(d)], ended[Src(d)], got'[Dst(d)], copy'[d], buf'[d],
                 written'[d], stats'[d])
    PROVE  Streams'
<1>1. Ordered(d)'
  BY NextOrder
<1>2. ASSUME NEW x \in Directions, x # d PROVE Ordered(x)'
  BY <1>2, OtherDirection DEF Streams
<1> QED BY <1>1, <1>2 DEF Streams

\* The two loops and the closing.
LEMMA CopyStepKept ==
    ASSUME Streams, NEW d \in Directions, CopyStep(d)
    PROVE  Streams'
<1>1. PipeTypeOK
  BY DEF Streams
<1>2. /\ sent[Src(d)] \in Seq(Nat) /\ wire[Src(d)] \in Seq(Nat) /\ got[Dst(d)] \in Seq(Nat)
      /\ buf[d] \in Seq(Nat)
  BY <1>1, Lengths
<1>3. Order(sent[Src(d)], wire[Src(d)], ended[Src(d)], got[Dst(d)], copy[d], buf[d], written[d],
            stats[d])
  BY DEF Streams, Ordered
<1>4. << >> \in Seq(Nat)
  BY EmptySeq
<1>5. CASE Read(d)
  <2>1. PICK n \in 0..Len(wire[Src(d)]) :
          /\ buf' = [buf EXCEPT ![d] = SubSeq(wire[Src(d)], 1, n)]
          /\ wire' = [wire EXCEPT ![Src(d)] =
                         SubSeq(wire[Src(d)], n + 1, Len(wire[Src(d)]))]
    <3>1. PICK n \in 1..BufSize :
            /\ n <= Len(wire[Src(d)])
            /\ buf' = [buf EXCEPT ![d] = SubSeq(wire[Src(d)], 1, n)]
            /\ wire' = [wire EXCEPT ![Src(d)] =
                           SubSeq(wire[Src(d)], n + 1, Len(wire[Src(d)]))]
      BY <1>5 DEF Read
    <3>2. n \in 0..Len(wire[Src(d)])
      BY <1>2, <3>1, PipeAssumption, LenProperties
    <3> QED BY <3>1, <3>2
  <2>2. /\ copy[d] = "read" /\ copy' = [copy EXCEPT ![d] = "write"]
        /\ UNCHANGED <<sent, ended, got, sock, written, stats, once>>
    BY <1>5 DEF Read
  <2>3. /\ SubSeq(wire[Src(d)], 1, n) \in Seq(Nat)
        /\ SubSeq(wire[Src(d)], n + 1, Len(wire[Src(d)])) \in Seq(Nat)
    BY <1>2, Taken
  <2>4. PipeTypeOK'
    BY <1>1, <2>1, <2>2, <2>3, Sides DEF PipeTypeOK
  <2>5. /\ wire'[Src(d)] = SubSeq(wire[Src(d)], n + 1, Len(wire[Src(d)]))
        /\ buf'[d] = SubSeq(wire[Src(d)], 1, n) /\ copy'[d] = "write"
        /\ got' = got /\ written' = written /\ stats' = stats
    BY <1>1, <2>1, <2>2, Sides DEF PipeTypeOK
  <2>6. Order(sent[Src(d)], wire'[Src(d)], ended[Src(d)], got'[Dst(d)], copy'[d], buf'[d],
              written'[d], stats'[d])
    BY <1>2, <1>3, <2>2, <2>5, OrderRead
  <2>7. \A x \in Directions : x # d =>
               /\ wire'[Src(x)] = wire[Src(x)] /\ copy'[x] = copy[x] /\ buf'[x] = buf[x]
    BY <1>1, <2>1, <2>2, Sides DEF PipeTypeOK
  <2> QED BY <2>2, <2>4, <2>5, <2>6, <2>7, CopyKept
<1>6. CASE ReadFails(d) \/ ReadIdles(d)
  <2>1. /\ copy[d] = "read" /\ copy' = [copy EXCEPT ![d] = "close"]
        /\ stats' = [stats EXCEPT ![d] = written[d]]
        /\ UNCHANGED <<sent, wire, ended, got, sock, buf, written, once>>
    BY <1>6 DEF ReadFails, ReadIdles, End, peers
  <2>2. PipeTypeOK'
    BY <1>1, <2>1 DEF PipeTypeOK
  <2>3. /\ copy'[d] = "close" /\ stats'[d] = written[d]
        /\ \A x \in Directions : x # d => copy'[x] = copy[x] /\ stats'[x] = stats[x]
    BY <1>1, <2>1 DEF PipeTypeOK
  <2>4. Order(sent[Src(d)], wire'[Src(d)], ended[Src(d)], got'[Dst(d)], copy'[d], buf'[d],
              written'[d], stats'[d])
    BY <1>3, <2>1, <2>3 DEF Order
  <2> QED BY <2>1, <2>2, <2>3, <2>4, CopyKept
<1>7. ASSUME NEW n \in 0..Len(buf[d]), copy[d] = "write", AfterWrite(d, n),
             buf' = [buf EXCEPT ![d] = << >>], UNCHANGED <<peers, sock, once>>,
             \/ /\ n = Len(buf[d]) /\ stats' = stats
                /\ copy' = [copy EXCEPT ![d] = "read"]
             \/ End(d, written'[d])
      PROVE  Streams'
  <2>1. /\ got' = [got EXCEPT ![Dst(d)] = got[Dst(d)] \o SubSeq(buf[d], 1, n)]
        /\ written' = [written EXCEPT ![d] = written[d] + n]
        /\ UNCHANGED <<sent, wire, ended, sock, once>>
    BY <1>7 DEF AfterWrite, peers
  <2>2. n \in Nat /\ written[d] + n \in Nat
    <3>1. n \in Nat /\ written[d] \in Nat
      BY <1>1, <1>2, <1>7, LenProperties DEF PipeTypeOK
    <3> QED BY <3>1
  <2>3. /\ got'[Dst(d)] = got[Dst(d)] \o SubSeq(buf[d], 1, n)
        /\ written'[d] = written[d] + n /\ buf'[d] = << >>
    BY <1>1, <1>7, <2>1, Sides DEF PipeTypeOK
  <2>4. got'[Dst(d)] \in Seq(Nat)
    BY <1>2, <1>7, <2>3, Handed
  <2>5. \/ n = Len(buf[d]) /\ stats' = stats /\ copy' = [copy EXCEPT ![d] = "read"]
        \/ /\ copy' = [copy EXCEPT ![d] = "close"]
           /\ stats' = [stats EXCEPT ![d] = written[d] + n]
    BY <1>7, <2>3 DEF End
  <2>6. PipeTypeOK'
    <3>1. /\ got' \in [Ends -> Seq(Nat)] /\ buf' \in [Directions -> Seq(Nat)]
          /\ written' \in [Directions -> Nat]
      BY <1>1, <1>4, <1>7, <2>1, <2>2, <2>3, <2>4, Sides DEF PipeTypeOK
    <3>2. /\ copy' \in [Directions -> {"idle", "read", "write", "close", "closing", "done"}]
          /\ stats' \in [Directions -> Nat]
      BY <1>1, <2>2, <2>5 DEF PipeTypeOK
    <3> QED BY <1>1, <2>1, <3>1, <3>2 DEF PipeTypeOK
  <2>7. \A x \in Directions : x # d =>
               /\ got'[Dst(x)] = got[Dst(x)] /\ copy'[x] = copy[x] /\ buf'[x] = buf[x]
               /\ written'[x] = written[x] /\ stats'[x] = stats[x]
    <3>1. \A x \in Directions : x # d => /\ got'[Dst(x)] = got[Dst(x)] /\ buf'[x] = buf[x]
                                        /\ written'[x] = written[x]
      BY <1>1, <1>7, <2>1, Sides DEF PipeTypeOK
    <3>2. \A x \in Directions : x # d => copy'[x] = copy[x] /\ stats'[x] = stats[x]
      BY <1>1, <2>5 DEF PipeTypeOK
    <3> QED BY <3>1, <3>2
  <2>8. \/ copy'[d] = "read" /\ n = Len(buf[d]) /\ stats'[d] = stats[d]
        \/ copy'[d] = "close" /\ stats'[d] = written[d] + n
    BY <1>1, <2>5 DEF PipeTypeOK
  <2>9. Order(sent[Src(d)], wire'[Src(d)], ended[Src(d)], got'[Dst(d)], copy'[d], buf'[d],
              written'[d], stats'[d])
    <3> DEFINE t == got[Dst(d)] \o SubSeq(buf[d], 1, n)
    <3>1. Order(sent[Src(d)], wire[Src(d)], ended[Src(d)], got[Dst(d)], "write", buf[d],
                written[d], stats[d])
      BY <1>3, <1>7
    <3>2. /\ Order(sent[Src(d)], wire[Src(d)], ended[Src(d)], t, "close", << >>,
                   written[d] + n, written[d] + n)
          /\ n = Len(buf[d]) => Order(sent[Src(d)], wire[Src(d)], ended[Src(d)], t, "read",
                                      << >>, written[d] + n, stats[d])
      BY <1>2, <1>7, <3>1, OrderWritten
    <3> HIDE DEF t
    <3>3. got'[Dst(d)] = t /\ wire' = wire
      BY <2>1, <2>3 DEF t
    <3> QED BY <2>3, <2>8, <3>2, <3>3
  <2> QED BY <2>1, <2>6, <2>7, <2>9, CopyKept
<1>8. CASE Write(d)
  <2>1. /\ copy[d] = "write" /\ AfterWrite(d, Len(buf[d]))
        /\ buf' = [buf EXCEPT ![d] = << >>] /\ copy' = [copy EXCEPT ![d] = "read"]
        /\ stats' = stats /\ UNCHANGED <<peers, sock, once>>
    BY <1>8 DEF Write
  <2>2. Len(buf[d]) \in 0..Len(buf[d])
    BY <1>2, LenProperties
  <2> QED BY <1>7, <2>1, <2>2
<1>9. CASE WriteFails(d)
  <2>1. PICK n \in 0..(Len(buf[d]) - 1) : AfterWrite(d, n) /\ End(d, written'[d])
    BY <1>9 DEF WriteFails
  <2>2. /\ copy[d] = "write" /\ buf' = [buf EXCEPT ![d] = << >>]
        /\ UNCHANGED <<peers, sock, once>>
    BY <1>9 DEF WriteFails
  <2>3. n \in 0..Len(buf[d])
    BY <1>2, LenProperties
  <2> QED BY <1>7, <2>1, <2>2, <2>3
<1>10. CASE CloseClient(d) \/ CloseBackend(d) \/ ClosedAlready(d)
  <2>1. PICK c \in {"closing", "done"} : copy' = [copy EXCEPT ![d] = c]
    BY <1>10 DEF CloseClient, CloseBackend, ClosedAlready
  <2>2. copy[d] \in {"close", "closing"}
    BY <1>10 DEF CloseClient, CloseBackend, ClosedAlready
  <2>3. UNCHANGED <<sent, wire, ended, got, buf, written, stats>>
    BY <1>10 DEF CloseClient, CloseBackend, ClosedAlready, peers
  <2>4. sock' \in [Ends -> BOOLEAN] /\ once' \in {"unused", "running", "done"}
    BY <1>1, <1>10 DEF CloseClient, CloseBackend, ClosedAlready, PipeTypeOK, Ends
  <2>5. PipeTypeOK'
    BY <1>1, <2>1, <2>3, <2>4 DEF PipeTypeOK
  <2>6. copy'[d] = c /\ \A x \in Directions : x # d => copy'[x] = copy[x]
    BY <1>1, <2>1 DEF PipeTypeOK
  <2>7. Order(sent[Src(d)], wire'[Src(d)], ended[Src(d)], got'[Dst(d)], copy'[d], buf'[d],
              written'[d], stats'[d])
    BY <1>3, <2>1, <2>2, <2>3, <2>6 DEF Order
  <2> QED BY <2>3, <2>5, <2>6, <2>7, CopyKept
<1> QED BY <1>5, <1>6, <1>8, <1>9, <1>10 DEF CopyStep, GoesOn

-----------------------------------------------------------------------------
\* What a step of the process does to the session.
LEMMA SessionSteps ==
    ASSUME [Next]_vars
    PROVE  \/ UNCHANGED pipeVars
           \/ StartPipe
           \/ \E e \in Ends : Send(e) \/ EndStream(e) \/ Reset(e)
           \/ \E d \in Directions : CopyStep(d)
<1>1. CASE UNCHANGED vars
  BY <1>1 DEF vars
<1>2. CASE Connection
  BY <1>2 DEF Connection, Handle, Session, HandlerReturns, PeerStep
<1>3. CASE Signal \/ Mgmt \/ Server \/ Watch \/ MainStep
  BY <1>3 DEF Signal, Mgmt, MgmtEnds, MgmtFails, MgmtStops, Server, Listen, Publish, Accept,
              AcceptFails, AcceptClosed, Watch, MainStep, SelectErr, SelectDone, Shutdown,
              CloseListener, ShutdownTimeout
<1> QED BY <1>1, <1>2, <1>3 DEF Next

\* The streams are kept, whatever the process does.
LEMMA StreamsKept ==
    ASSUME Streams, [Next]_vars
    PROVE  Streams'
<1>1. CASE UNCHANGED pipeVars
  <2>1. PipeTypeOK'
    BY <1>1 DEF Streams, PipeTypeOK, pipeVars
  <2>2. ASSUME NEW d \in Directions PROVE Ordered(d)'
    BY <1>1, OtherDirection DEF Streams, pipeVars
  <2> QED BY <2>1, <2>2 DEF Streams
<1> QED BY <1>1, SessionSteps, StartKept, PeersKept, CopyStepKept

\* No byte has been sent yet.
LEMMA StreamsInvariant == Spec => []Streams
<1>1. ASSUME Init PROVE Streams
  <2>1. << >> \in Seq(Nat) /\ Len(<< >>) = 0
    BY EmptySeq
  <2>2. PipeTypeOK
    BY <1>1, <2>1 DEF Init, PipeInit, PipeTypeOK
  <2>3. ASSUME NEW d \in Directions PROVE Ordered(d)
    <3>1. /\ sent[Src(d)] = << >> /\ wire[Src(d)] = << >> /\ ended[Src(d)] = "no"
          /\ got[Dst(d)] = << >> /\ buf[d] = << >> /\ copy[d] = "idle"
          /\ written[d] = 0 /\ stats[d] = 0
      BY <1>1, Sides DEF Init, PipeInit
    <3>2. Order(<< >>, << >>, "no", << >>, "idle", << >>, 0, 0)
      BY <2>1 DEF Order, Numbered, Adds
    <3> QED BY <3>1, <3>2 DEF Ordered
  <2> QED BY <2>2, <2>3 DEF Streams
<1> QED BY <1>1, StreamsKept, PTL DEF Spec

\* Every variable keeps its type, the session's too.
THEOREM TypeCorrect == Spec => []TypeOK
<1>1. Causes /\ Streams => TypeOK
  BY DEF Causes, ProcessTypes, Streams, TypeOK
<1> QED BY <1>1, CausesInvariant, StreamsInvariant, PTL

\* What ProxyBidirectional returns is what was handed on, in both directions.
THEOREM CountsAreExact == Spec => []CountsExact
<1>1. ASSUME Streams PROVE CountsExact
  <2> SUFFICES ASSUME Returned, NEW d \in Directions PROVE stats[d] = Len(got[Dst(d)])
    BY DEF CountsExact
  <2>1. Ordered(d) /\ copy[d] = "done"
    BY <1>1 DEF Streams, Returned
  <2> QED BY <2>1 DEF Ordered, Order
<1> QED BY <1>1, StreamsInvariant, PTL

-----------------------------------------------------------------------------
\* Of two sequences of numbered bytes the shorter begins the longer.
LEMMA Prefix ==
    ASSUME NEW s \in Seq(Nat), NEW t \in Seq(Nat), Numbered(s, 0), Numbered(t, 0),
           Len(t) <= Len(s)
    PROVE  t = SubSeq(s, 1, Len(t))
<1> DEFINE h == SubSeq(s, 1, Len(t))
<1>1. Len(s) \in Nat /\ Len(t) \in Nat
  BY LenProperties
<1>2. Len(t) \in 0..Len(s)
  BY <1>1
<1>3. h \in Seq(Nat) /\ Len(h) = Len(t) /\ \A i \in 1..Len(t) : h[i] = s[i]
  BY <1>2, Taken
<1> HIDE DEF h
<1>4. ASSUME NEW i \in 1..Len(t) PROVE t[i] = h[i]
  <2>1. i \in 1..Len(s)
    BY <1>1
  <2> QED BY <1>3, <2>1 DEF Numbered
<1>5. t = h
  BY <1>3, <1>4, SeqEqual
<1> QED BY <1>5 DEF h

\* A step of a stream, from in and out to i and o.
StreamStep(in, out, i, o) ==
    \/ i = in /\ o = out
    \/ Len(i) = Len(in) + 1 /\ SubSeq(i, 1, Len(in)) = in /\ o = out
    \/ i = in /\ \E n \in (Len(out) + 1)..Len(in) : o = SubSeq(in, 1, n)

\* A numbered sequence that grows at its end makes steps of a stream.
LEMMA Grows ==
    ASSUME NEW in \in Seq(Nat), NEW out \in Seq(Nat), NEW i \in Seq(Nat), NEW o \in Seq(Nat),
           NEW b \in Seq(Nat),
           Numbered(in, 0), Numbered(out, 0), Numbered(i, 0), Numbered(o, 0), Len(o) <= Len(i),
           \/ i = in /\ o = out
           \/ i = Append(in, Len(in) + 1) /\ o = out
           \/ i = in /\ \E n \in 0..Len(b) : o = out \o SubSeq(b, 1, n)
    PROVE  StreamStep(in, out, i, o)
<1>1. Len(in) \in Nat /\ Len(out) \in Nat /\ Len(i) \in Nat /\ Len(o) \in Nat
  BY LenProperties
<1>2. CASE i = Append(in, Len(in) + 1) /\ o = out
  <2>1. Len(i) = Len(in) + 1
    BY <1>1, <1>2, AppendProperties
  <2>2. in = SubSeq(i, 1, Len(in))
    <3>1. Len(in) <= Len(i)
      BY <1>1, <2>1
    <3> QED BY <3>1, Prefix
  <2> QED BY <1>2, <2>1, <2>2 DEF StreamStep
<1>3. CASE i = in /\ \E n \in 0..Len(b) : o = out \o SubSeq(b, 1, n)
  <2>1. PICK n \in 0..Len(b) : o = out \o SubSeq(b, 1, n)
    BY <1>3
  <2>2. Len(o) = Len(out) + n
    BY <2>1, Handed
  <2>3. n \in Nat
    BY LenProperties
  <2>4. o = SubSeq(in, 1, Len(o))
    BY <1>3, Prefix
  <2>5. CASE n = 0
    <3>1. Len(o) = Len(out)
      BY <1>1, <2>2, <2>5
    <3>2. out = SubSeq(o, 1, Len(out)) /\ o = SubSeq(o, 1, Len(o))
      BY <1>1, <3>1, Prefix
    <3> QED BY <1>3, <3>1, <3>2 DEF StreamStep
  <2>6. CASE n > 0
    <3>1. Len(o) \in (Len(out) + 1)..Len(in)
      BY <1>1, <1>3, <2>2, <2>3, <2>6
    <3> QED BY <1>3, <2>4, <3>1 DEF StreamStep
  <2> QED BY <2>3, <2>5, <2>6
<1> QED BY <1>2, <1>3 DEF StreamStep

\* What the steps of the session do to one direction: a byte enters, or the first
\* of the buffer leave, or neither.
LEMMA Moves ==
    ASSUME Streams, [Next]_vars, NEW d \in Directions
    PROVE  \/ sent'[Src(d)] = sent[Src(d)] /\ got'[Dst(d)] = got[Dst(d)]
           \/ /\ sent'[Src(d)] = Append(sent[Src(d)], Len(sent[Src(d)]) + 1)
              /\ got'[Dst(d)] = got[Dst(d)]
           \/ /\ sent'[Src(d)] = sent[Src(d)]
              /\ \E n \in 0..Len(buf[d]) :
                    got'[Dst(d)] = got[Dst(d)] \o SubSeq(buf[d], 1, n)
<1>1. PipeTypeOK
  BY DEF Streams
<1>2. CASE UNCHANGED pipeVars \/ StartPipe
  BY <1>2 DEF pipeVars, StartPipe, peers
<1>3. ASSUME NEW e \in Ends, Send(e) \/ EndStream(e) \/ Reset(e)
      PROVE  /\ got' = got
             /\ \/ sent'[Src(d)] = sent[Src(d)]
                \/ sent'[Src(d)] = Append(sent[Src(d)], Len(sent[Src(d)]) + 1)
  BY <1>1, <1>3, Sides DEF Send, EndStream, Reset, PipeTypeOK
<1>4. ASSUME NEW x \in Directions, CopyStep(x)
      PROVE  /\ sent' = sent
             /\ \/ got' = got
                \/ \E n \in 0..Len(buf[x]) :
                      got' = [got EXCEPT ![Dst(x)] = got[Dst(x)] \o SubSeq(buf[x], 1, n)]
  <2>1. CASE Write(x)
    <3>1. sent' = sent /\ got' = [got EXCEPT ![Dst(x)] =
                                     got[Dst(x)] \o SubSeq(buf[x], 1, Len(buf[x]))]
      BY <2>1 DEF Write, AfterWrite, peers
    <3>2. Len(buf[x]) \in 0..Len(buf[x])
      BY <1>1, Lengths
    <3> QED BY <3>1, <3>2
  <2>2. CASE WriteFails(x)
    <3>1. sent' = sent
      BY <2>2 DEF WriteFails, peers
    <3>2. PICK n \in 0..(Len(buf[x]) - 1) :
            got' = [got EXCEPT ![Dst(x)] = got[Dst(x)] \o SubSeq(buf[x], 1, n)]
      BY <2>2 DEF WriteFails, AfterWrite
    <3>3. n \in 0..Len(buf[x])
      BY <1>1, Lengths
    <3> QED BY <3>1, <3>2, <3>3
  <2>3. CASE \/ Read(x) \/ ReadFails(x) \/ ReadIdles(x)
            \/ CloseClient(x) \/ CloseBackend(x) \/ ClosedAlready(x)
    BY <2>3 DEF Read, ReadFails, ReadIdles, CloseClient, CloseBackend, ClosedAlready, peers
  <2> QED BY <1>4, <2>1, <2>2, <2>3 DEF CopyStep, GoesOn
<1>5. ASSUME NEW x \in Directions, CopyStep(x)
      PROVE  /\ sent'[Src(d)] = sent[Src(d)]
             /\ \/ got'[Dst(d)] = got[Dst(d)]
                \/ \E n \in 0..Len(buf[d]) :
                      got'[Dst(d)] = got[Dst(d)] \o SubSeq(buf[d], 1, n)
  <2>1. sent'[Src(d)] = sent[Src(d)]
    BY <1>4, <1>5
  <2>2. CASE got' = got
    BY <2>1, <2>2
  <2>3. CASE \E n \in 0..Len(buf[x]) :
               got' = [got EXCEPT ![Dst(x)] = got[Dst(x)] \o SubSeq(buf[x], 1, n)]
    <3>1. PICK n \in 0..Len(buf[x]) :
               got' = [got EXCEPT ![Dst(x)] = got[Dst(x)] \o SubSeq(buf[x], 1, n)]
      BY <2>3
    <3>2. CASE x = d
      <4>1. got'[Dst(d)] = got[Dst(d)] \o SubSeq(buf[d], 1, n)
        BY <1>1, <3>1, <3>2, Sides DEF PipeTypeOK
      <4> QED BY <2>1, <3>2, <4>1
    <3>3. CASE x # d
      BY <1>1, <2>1, <3>1, <3>3, Sides DEF PipeTypeOK
    <3> QED BY <3>2, <3>3
  <2> QED BY <1>4, <1>5, <2>2, <2>3
<1> QED BY <1>2, <1>3, <1>5, SessionSteps

\* Every step of the process is a step of each stream.
LEMMA DirectionIsStream ==
    ASSUME Streams, [Next]_vars, NEW d \in Directions
    PROVE  StreamStep(sent[Src(d)], got[Dst(d)], sent'[Src(d)], got'[Dst(d)])
<1>1. Streams'
  BY StreamsKept
<1>2. /\ sent[Src(d)] \in Seq(Nat) /\ got[Dst(d)] \in Seq(Nat)
      /\ sent'[Src(d)] \in Seq(Nat) /\ got'[Dst(d)] \in Seq(Nat) /\ buf[d] \in Seq(Nat)
  BY <1>1, Sides DEF Streams, PipeTypeOK
<1>3. Numbered(sent[Src(d)], 0) /\ Numbered(got[Dst(d)], 0)
  BY DEF Streams, Ordered, Order
<1>4. /\ Numbered(sent'[Src(d)], 0) /\ Numbered(got'[Dst(d)], 0)
      /\ Len(got'[Dst(d)]) <= Len(sent'[Src(d)])
  BY <1>1, Sides DEF Streams, Ordered, Order, Src, Dst
<1> QED BY <1>2, <1>3, <1>4, Moves, Grows

\* The session implements two streams: each direction hands on a prefix of what
\* it was sent, in order, and takes nothing back.
THEOREM SessionIsTwoStreams == Spec => TwoStreams
<1>1. ASSUME Init PROVE ToBackend!Init /\ ToClient!Init
  BY <1>1 DEF Init, PipeInit, Ends, ToBackend!Init, ToClient!Init
<1>2. ASSUME Streams, [Next]_vars
      PROVE  /\ [ToBackend!Enter \/ ToBackend!Leave]_(ToBackend!vars)
             /\ [ToClient!Enter \/ ToClient!Leave]_(ToClient!vars)
  <2>1. /\ StreamStep(sent["client"], got["backend"], sent'["client"], got'["backend"])
        /\ StreamStep(sent["backend"], got["client"], sent'["backend"], got'["client"])
    <3>1. /\ {"c2b", "b2c"} \subseteq Directions /\ Src("c2b") = "client" /\ Src("b2c") = "backend"
          /\ Dst("c2b") = "backend" /\ Dst("b2c") = "client"
      BY DEF Directions, Src, Dst
    <3>2. \A d \in Directions :
            StreamStep(sent[Src(d)], got[Dst(d)], sent'[Src(d)], got'[Dst(d)])
      BY <1>2, DirectionIsStream
    <3> QED BY <3>1, <3>2
  <2>2. [ToBackend!Enter \/ ToBackend!Leave]_(ToBackend!vars)
    BY <2>1 DEF StreamStep, ToBackend!Enter, ToBackend!Leave, ToBackend!vars
  <2>3. [ToClient!Enter \/ ToClient!Leave]_(ToClient!vars)
    BY <2>1 DEF StreamStep, ToClient!Enter, ToClient!Leave, ToClient!vars
  <2> QED BY <2>2, <2>3
<1> QED BY <1>1, <1>2, StreamsInvariant, PTL DEF Spec, TwoStreams, ToBackend!Spec, ToClient!Spec

-----------------------------------------------------------------------------
\* The end of a session.  What closeBoth has closed is told by once, which belongs
\* to the one goroutine that runs it; a buffer that is written holds something;
\* and the handler is in the pipe as long as the two goroutines are.
Closing ==
    /\ \A d \in Directions :
          /\ copy[d] = "idle" => once = "unused"
          /\ copy[d] = "write" => buf[d] # << >>
          /\ copy[d] = "closing" => once = "running"
          /\ copy[d] = "done" => once = "done"
    /\ sock["client"] <=> once = "unused"
    /\ sock["backend"] <=> once # "done"
    /\ once = "running" => \E d \in Directions : copy[d] = "closing"
    /\ once = "done" => \E d \in Directions : copy[d] = "done"
    /\ \A d, x \in Directions : copy[d] = "closing" /\ copy[x] = "closing" => d = x

Handling ==
    /\ handler \in {"none", "handling"} => \A d \in Directions : copy[d] = "idle"
    /\ handler = "piping" => \A d \in Directions : copy[d] # "idle"
    /\ handler = "ended" => Returned \/ \A d \in Directions : copy[d] = "idle"

Ending == Closing /\ Handling

\* What a copying goroutine does to its place, its buffer and the closing.
LEMMA CopyMoves ==
    ASSUME Streams, NEW d \in Directions, CopyStep(d)
    PROVE  \/ /\ copy[d] = "read" /\ copy' = [copy EXCEPT ![d] = "write"]
              /\ \A x \in Directions : x # d => buf'[x] = buf[x]
              /\ buf'[d] # << >> /\ Len(wire'[Src(d)]) < Len(wire[Src(d)])
              /\ wire'[Src(d)] \in Seq(Nat) /\ UNCHANGED <<sock, once>>
           \/ /\ copy[d] = "read" /\ copy' = [copy EXCEPT ![d] = "close"]
              /\ UNCHANGED <<wire, buf, sock, once>>
           \/ /\ copy[d] = "write"
              /\ \E c \in {"read", "close"} : copy' = [copy EXCEPT ![d] = c]
              /\ \A x \in Directions : x # d => buf'[x] = buf[x]
              /\ UNCHANGED <<wire, sock, once>>
           \/ CloseClient(d) \/ CloseBackend(d) \/ ClosedAlready(d)
<1>1. /\ wire \in [Ends -> Seq(Nat)] /\ buf \in [Directions -> Seq(Nat)]
      /\ Src(d) \in Ends /\ wire[Src(d)] \in Seq(Nat)
  BY Sides DEF Streams, PipeTypeOK
<1>2. CASE Read(d)
  <2> DEFINE w == wire[Src(d)]
  <2>1. PICK n \in 1..BufSize : /\ n <= Len(w)
                                /\ buf' = [buf EXCEPT ![d] = SubSeq(w, 1, n)]
                                /\ wire' = [wire EXCEPT ![Src(d)] = SubSeq(w, n + 1, Len(w))]
    BY <1>2 DEF Read
  <2>2. n \in Nat /\ 1 <= n /\ n \in 0..Len(w) /\ Len(w) \in Nat
    BY <1>1, <2>1, PipeAssumption, LenProperties
  <2>3. /\ buf'[d] = SubSeq(w, 1, n) /\ \A x \in Directions : x # d => buf'[x] = buf[x]
        /\ wire'[Src(d)] = SubSeq(w, n + 1, Len(w))
    BY <1>1, <2>1
  <2>4. /\ SubSeq(w, 1, n) \in Seq(Nat) /\ Len(SubSeq(w, 1, n)) = n
        /\ SubSeq(w, n + 1, Len(w)) \in Seq(Nat) /\ Len(SubSeq(w, n + 1, Len(w))) = Len(w) - n
    BY <1>1, <2>2, Taken
  <2>5. SubSeq(w, 1, n) # << >>
    BY <2>2, <2>4, EmptySeq
  <2>6. /\ copy[d] = "read" /\ copy' = [copy EXCEPT ![d] = "write"]
        /\ UNCHANGED <<sock, once>>
    BY <1>2 DEF Read
  <2>7. Len(wire'[Src(d)]) < Len(w)
    BY <2>2, <2>3, <2>4
  <2>8. wire'[Src(d)] \in Seq(Nat) /\ buf'[d] # << >>
    BY <2>3, <2>4, <2>5
  <2> QED BY <2>3, <2>6, <2>7, <2>8
<1>3. CASE ReadFails(d) \/ ReadIdles(d)
  BY <1>3 DEF ReadFails, ReadIdles, End, peers
<1>4. CASE Write(d) \/ WriteFails(d)
  <2>1. buf' = [buf EXCEPT ![d] = << >>] /\ copy[d] = "write" /\ UNCHANGED <<wire, sock, once>>
    BY <1>4 DEF Write, WriteFails, peers
  <2>2. \E c \in {"read", "close"} : copy' = [copy EXCEPT ![d] = c]
    BY <1>4 DEF Write, WriteFails, End
  <2> QED BY <1>1, <2>1, <2>2
<1> QED BY <1>2, <1>3, <1>4 DEF CopyStep, GoesOn

\* Each of its steps keeps the closing in order.
LEMMA ClosingCopied ==
    ASSUME Streams, Closing, \A x \in Directions : copy[x] # "idle",
           NEW d \in Directions, CopyStep(d)
    PROVE  Closing' /\ copy'[d] # "idle" /\ \A x \in Directions : x # d => copy'[x] = copy[x]
<1>1. /\ copy \in [Directions -> {"idle", "read", "write", "close", "closing", "done"}]
      /\ sock \in [Ends -> BOOLEAN] /\ once \in {"unused", "running", "done"}
      /\ "client" \in Ends /\ "backend" \in Ends
  BY DEF Streams, PipeTypeOK, Ends
<1>2. ASSUME NEW c \in {"read", "write", "close"}, copy[d] \in {"read", "write"},
             copy' = [copy EXCEPT ![d] = c], UNCHANGED <<sock, once>>,
             c = "write" => buf'[d] # << >>,
             \A x \in Directions : x # d => buf'[x] = buf[x]
      PROVE  Closing' /\ copy'[d] # "idle" /\ \A x \in Directions : x # d => copy'[x] = copy[x]
  <2>1. copy'[d] = c /\ \A x \in Directions : x # d => copy'[x] = copy[x]
    BY <1>1, <1>2
  <2>2. \A x \in Directions :
          /\ copy'[x] \in {"idle", "closing", "done"} => copy'[x] = copy[x]
          /\ copy[x] \in {"closing", "done"} => copy'[x] = copy[x]
    BY <1>2, <2>1
  <2>3. \A x \in Directions : copy'[x] = "write" => buf'[x] # << >>
    BY <1>2, <2>1 DEF Closing
  <2> QED BY <1>2, <2>1, <2>2, <2>3 DEF Closing
<1>3. CASE CloseClient(d)
  <2>1. /\ copy'[d] = "closing" /\ \A x \in Directions : x # d => copy'[x] = copy[x]
        /\ once = "unused" /\ once' = "running" /\ copy[d] = "close"
        /\ ~sock'["client"] /\ (sock'["backend"] <=> sock["backend"]) /\ buf' = buf
    BY <1>1, <1>3 DEF CloseClient
  <2> QED BY <2>1 DEF Closing
<1>4. CASE CloseBackend(d)
  <2>1. /\ copy'[d] = "done" /\ \A x \in Directions : x # d => copy'[x] = copy[x]
        /\ once' = "done" /\ copy[d] = "closing"
        /\ ~sock'["backend"] /\ (sock'["client"] <=> sock["client"]) /\ buf' = buf
    BY <1>1, <1>4 DEF CloseBackend
  <2> QED BY <2>1 DEF Closing
<1>5. CASE ClosedAlready(d)
  <2>1. /\ copy'[d] = "done" /\ \A x \in Directions : x # d => copy'[x] = copy[x]
        /\ once = "done" /\ copy[d] = "close" /\ UNCHANGED <<once, sock, buf>>
    BY <1>1, <1>5 DEF ClosedAlready
  <2> QED BY <2>1 DEF Closing
<1> QED BY <1>2, <1>3, <1>4, <1>5, CopyMoves

\* The other steps touch neither the closing nor the goroutines, but for the start.
LEMMA EndingKept ==
    ASSUME Streams, Ending, [Next]_vars
    PROVE  Ending'
<1>1. copy \in [Directions -> {"idle", "read", "write", "close", "closing", "done"}]
  BY DEF Streams, PipeTypeOK
<1>2. ASSUME UNCHANGED <<copy, buf, sock, once>>,
             \/ handler' = handler
             \/ handler = "none" /\ handler' = "handling"
             \/ handler = "handling" /\ handler' = "ended"
             \/ handler = "piping" /\ handler' = "ended" /\ Returned
      PROVE  Ending'
  BY <1>2 DEF Ending, Closing, Handling, Returned
<1>3. CASE UNCHANGED vars
  BY <1>2, <1>3 DEF vars, pipeVars
<1>4. CASE Signal \/ Mgmt \/ Server \/ Watch \/ MainStep
  BY <1>2, <1>4
     DEF Signal, Mgmt, MgmtEnds, MgmtFails, MgmtStops, Server, Listen, Publish, Accept,
         AcceptFails, AcceptClosed, Watch, MainStep, SelectErr, SelectDone, Shutdown,
         CloseListener, ShutdownTimeout, pipeVars
<1>5. CASE Handle
  <2>1. CASE handler' = "ended" /\ UNCHANGED pipeVars
    BY <1>2, <1>5, <2>1 DEF Handle, pipeVars
  <2>2. CASE handler' = "piping" /\ StartPipe
    BY <2>2 DEF StartPipe, Ending, Closing, Handling
  <2> QED BY <1>5, <2>1, <2>2 DEF Handle
<1>6. CASE Session
  <2>1. ASSUME NEW d \in Directions, CopyStep(d) PROVE Ending'
    <3>1. handler = "piping" /\ handler' = "piping"
      BY <1>6 DEF Session
    <3>2. \A x \in Directions : copy[x] # "idle"
      BY <3>1 DEF Ending, Handling
    <3> QED BY <2>1, <3>1, <3>2, ClosingCopied DEF Ending, Handling
  <2>2. CASE PeerStep
    BY <1>2, <1>6, <2>2 DEF Session, PeerStep, Send, EndStream, Reset
  <2> QED BY <1>6, <2>1, <2>2 DEF Session
<1>7. CASE HandlerReturns
  BY <1>2, <1>7 DEF HandlerReturns, pipeVars
<1> QED BY <1>3, <1>4, <1>5, <1>6, <1>7 DEF Next, Connection

LEMMA EndingInvariant == Spec => []Ending
<1>1. Init => Ending
  BY DEF Init, PipeInit, Ending, Closing, Handling, Directions, Ends
<1>2. Streams /\ Ending /\ [Next]_vars => Ending'
  BY EndingKept
<1> QED BY <1>1, <1>2, StreamsInvariant, PTL DEF Spec

\* closeBoth is run once and by one goroutine, and ProxyBidirectional does not return
\* before it has run: a session that is over has left neither connection open, and as
\* long as both goroutines copy neither is closed.
ClosedTogether ==
    /\ Returned => \A e \in Ends : ~sock[e]
    /\ (\A d \in Directions : copy[d] \in {"read", "write"}) => \A e \in Ends : sock[e]
    /\ handler = "ended" /\ (\E e \in Ends : ~sock[e]) => Returned

THEOREM SessionsCloseBoth == Spec => []ClosedTogether
<1>1. Streams /\ Ending => ClosedTogether
  BY DEF Streams, PipeTypeOK, Ending, Closing, Handling, ClosedTogether, Returned, Directions, Ends
<1> QED BY <1>1, StreamsInvariant, EndingInvariant, PTL

\* The guards of the copying goroutine of d.
CanGoOn(d) ==
    \/ /\ copy[d] = "read"
       /\ \/ ~sock[Src(d)] \/ wire[Src(d)] = << >>
          \/ \E n \in 1..BufSize : n <= Len(wire[Src(d)])
    \/ copy[d] = "write" /\ \E n \in 0..(Len(buf[d]) - 1) : TRUE
    \/ copy[d] = "close" /\ once \in {"unused", "done"}
    \/ copy[d] = "closing"

\* The two goroutines of a session never wait for each other: until both are done one
\* of them can go on, if only because a deadline ends its read or write.
NobodyWaitsInVain ==
    handler = "piping" /\ ~Returned => \E d \in Directions : CanGoOn(d)

THEOREM SessionsCanGoOn == Spec => []NobodyWaitsInVain
<1>1. ASSUME Streams, Ending, handler = "piping", ~Returned
      PROVE  \E d \in Directions : CanGoOn(d)
  <2>1. CASE once = "running"
    BY <1>1, <2>1 DEF Ending, Closing, CanGoOn
  <2>2. CASE once # "running"
    <3>1. PICK d \in Directions : copy[d] # "done"
      BY <1>1 DEF Returned
    <3>2. /\ copy[d] \in {"read", "write", "close", "closing"} /\ once \in {"unused", "done"}
          /\ wire[Src(d)] \in Seq(Nat) /\ buf[d] \in Seq(Nat)
      BY <1>1, <2>2, <3>1, Sides DEF Ending, Handling, Streams, PipeTypeOK
    <3>3. CASE copy[d] = "read"
      <4>1. wire[Src(d)] # << >> => 1 \in 1..BufSize /\ 1 <= Len(wire[Src(d)])
        BY <3>2, PipeAssumption, EmptySeq, LenProperties
      <4> QED BY <3>3, <4>1 DEF CanGoOn
    <3>4. CASE copy[d] = "write"
      <4>1. buf[d] # << >>
        BY <1>1, <3>4 DEF Ending, Closing
      <4>2. 0 \in 0..(Len(buf[d]) - 1)
        BY <3>2, <4>1, EmptySeq, LenProperties
      <4> QED BY <3>4, <4>2 DEF CanGoOn
    <3> QED BY <3>2, <3>3, <3>4 DEF CanGoOn
  <2> QED BY <2>1, <2>2
<1>2. Streams /\ Ending => NobodyWaitsInVain
  BY <1>1 DEF NobodyWaitsInVain
<1> QED BY <1>2, StreamsInvariant, EndingInvariant, PTL

\* What direction d still has to do: to read what is in its wire, and to get from its
\* place to its end.
Places == [idle |-> 3, read |-> 3, write |-> 4, close |-> 2, closing |-> 1, done |-> 0]
Left(d) == 2 * Len(wire[Src(d)]) + Places[copy[d]]

\* Every step of a copying goroutine brings it nearer to its end, and nothing takes it
\* away from there but a byte that its source sends, which a source that has ended
\* its stream or whose connection is closed does not.
LeftRunsOut ==
    [][\A d \in Directions :
          /\ Left(d) \in Nat /\ Left(d)' \in Nat
          /\ CopyStep(d) => Left(d)' < Left(d)
          /\ Left(d)' > Left(d) => ended[Src(d)] = "no" /\ sock[Src(d)]]_vars

THEOREM SessionsRunOut == Spec => LeftRunsOut
<1>1. ASSUME Streams, NEW d \in Directions
      PROVE  /\ Left(d) \in Nat /\ Len(wire[Src(d)]) \in Nat /\ wire[Src(d)] \in Seq(Nat)
             /\ copy \in [Directions -> {"idle", "read", "write", "close", "closing", "done"}]
  BY <1>1, Sides, LenProperties DEF Streams, PipeTypeOK, Left, Places
<1>2. ASSUME Streams, Streams', NEW d \in Directions, CopyStep(d)
      PROVE  Left(d)' < Left(d) /\ Left(d)' \in Nat
  <2>1. /\ Len(wire[Src(d)]) \in Nat /\ Len(wire'[Src(d)]) \in Nat
        /\ copy \in [Directions -> {"idle", "read", "write", "close", "closing", "done"}]
    BY <1>1, <1>2, Sides, LenProperties DEF Streams, PipeTypeOK
  <2>2. \/ /\ copy[d] = "read" /\ copy'[d] = "write" /\ Len(wire'[Src(d)]) < Len(wire[Src(d)])
        \/ /\ wire' = wire
           /\ \/ copy[d] = "read" /\ copy'[d] = "close"
              \/ copy[d] = "write" /\ copy'[d] \in {"read", "close"}
              \/ copy[d] = "close" /\ copy'[d] \in {"closing", "done"}
              \/ copy[d] = "closing" /\ copy'[d] = "done"
    BY <1>2, <2>1, CopyMoves DEF CloseClient, CloseBackend, ClosedAlready, peers
  <2> QED BY <2>1, <2>2 DEF Left, Places
<1>3. ASSUME Streams, Streams', [Next]_vars, NEW d \in Directions
      PROVE  Left(d)' > Left(d) => ended[Src(d)] = "no" /\ sock[Src(d)]
  <2>1. /\ Len(wire[Src(d)]) \in Nat /\ Len(wire'[Src(d)]) \in Nat
        /\ copy \in [Directions -> {"idle", "read", "write", "close", "closing", "done"}]
        /\ wire \in [Ends -> Seq(Nat)] /\ Src(d) \in Ends /\ Left(d) \in Nat
    BY <1>1, <1>3, Sides, LenProperties DEF Streams, PipeTypeOK
  <2>2. CASE UNCHANGED pipeVars
    BY <2>1, <2>2 DEF pipeVars, peers, Left
  <2>3. CASE StartPipe
    <3>1. copy[d] = "idle" /\ copy'[d] = "read" /\ wire' = wire
      BY <2>3 DEF StartPipe, peers
    <3> QED BY <2>1, <3>1 DEF Left, Places
  <2>4. ASSUME NEW e \in Ends, Send(e) \/ EndStream(e) \/ Reset(e)
        PROVE  Left(d)' > Left(d) => ended[Src(d)] = "no" /\ sock[Src(d)]
    <3>1. CASE e # Src(d) \/ EndStream(e)
      <4>1. wire'[Src(d)] = wire[Src(d)] /\ copy' = copy
        BY <2>1, <2>4, <3>1 DEF Send, EndStream, Reset
      <4> QED BY <2>1, <4>1 DEF Left
    <3>2. CASE e = Src(d) /\ Send(e)
      BY <3>2 DEF Send
    <3>3. CASE e = Src(d) /\ Reset(e)
      <4>1. Len(wire'[Src(d)]) = 0 /\ copy' = copy
        BY <2>1, <3>3, EmptySeq DEF Reset
      <4>2. Places[copy[d]] \in Nat
        BY <2>1 DEF Places
      <4> QED BY <2>1, <4>1, <4>2 DEF Left
    <3> QED BY <2>4, <3>1, <3>2, <3>3
  <2>5. ASSUME NEW x \in Directions, CopyStep(x)
        PROVE  Left(d)' > Left(d) => ended[Src(d)] = "no" /\ sock[Src(d)]
    <3>1. CASE x = d
      <4>1. CopyStep(d)
        BY <2>5, <3>1
      <4>2. Left(d)' < Left(d) /\ Left(d)' \in Nat
        BY <1>2, <1>3, <4>1
      <4> QED BY <2>1, <4>2
    <3>2. CASE x # d
      <4>1. wire'[Src(d)] = wire[Src(d)] /\ copy'[d] = copy[d]
        <5>1. PICK c, w : /\ copy' = [copy EXCEPT ![x] = c]
                          /\ wire' = wire \/ wire' = [wire EXCEPT ![Src(x)] = w]
          BY <2>5 DEF CopyStep, GoesOn, Read, ReadFails, ReadIdles, Write, WriteFails, End, CloseClient,
                      CloseBackend, ClosedAlready, peers
        <5>2. Src(x) # Src(d)
          BY <3>2, Sides
        <5> QED BY <2>1, <3>2, <5>1, <5>2
      <4> QED BY <2>1, <4>1 DEF Left
    <3> QED BY <3>1, <3>2
  <2> QED BY <1>3, <2>2, <2>3, <2>4, <2>5, SessionSteps
<1>4. Streams /\ Streams' /\ [Next]_vars
        => \A d \in Directions : /\ Left(d) \in Nat /\ Left(d)' \in Nat
                                 /\ CopyStep(d) => Left(d)' < Left(d)
                                 /\ Left(d)' > Left(d) => ended[Src(d)] = "no" /\ sock[Src(d)]
  <2>1. ASSUME Streams', NEW d \in Directions PROVE Left(d)' \in Nat
    BY <2>1, Sides, LenProperties DEF Streams, PipeTypeOK, Left, Places
  <2> QED BY <1>1, <1>2, <1>3, <2>1
<1> QED BY <1>4, StreamsInvariant, PTL DEF Spec, LeftRunsOut
=============================================================================
