-------------------------------- MODULE Pool --------------------------------
(***************************************************************************)
(* The pool of connections to backends opened ahead of status queries,     *)
(* src/internal/pool/pool.go, and the dialer that takes from it and fills  *)
(* it, src/internal/proxy/dialer.go.                                       *)
(*                                                                         *)
(* Each method of the pool takes its mutex and is one step.  The dialer    *)
(* holds no lock: Refill asks the pool whether it needs a connection,      *)
(* dials, and puts what it got, in three steps.  A query that finds a      *)
(* pooled connection leaves the refill to a goroutine; one that does not   *)
(* dials itself and then refills before it goes on.                        *)
(*                                                                         *)
(* Connections are identities that are reused once closed.  A backend that *)
(* crashes closes its end, which nobody here notices.                      *)
(***************************************************************************)
EXTENDS Integers, Sequences, FiniteSets

CONSTANTS
    Backends,
    MaxIdle,      \* Options.MaxIdlePerBackend
    IdleTimeout,  \* Options.IdleTimeout
    Queries,      \* status queries that can be under way at once
    Refillers,    \* bound: refills that can run in the background at once
    Main,         \* the goroutine that warms the pool and closes it
    Conns,        \* bound: connections that can be open at once
    None

Procs == Queries \cup Refillers \cup {Main}

\* New replaces the options that are not positive by positive defaults.
ASSUME PoolAssumption ==
    /\ IsFiniteSet(Backends) /\ IsFiniteSet(Conns)
    /\ MaxIdle \in Nat \ {0}
    /\ IdleTimeout \in Nat \ {0}
    /\ Main \notin Queries \cup Refillers
    /\ Queries \cap Refillers = {}
    /\ None \notin Backends \cup Conns

VARIABLES
    idle,      \* p.idle: per backend its connections with their ages, oldest first
    closed,    \* p.closed
    open,      \* per connection the backend it was dialled to; None when closed here
    alive,     \* the connections that their backend has not closed
    pc,        \* where each goroutine is
    target,    \* the backend a goroutine works for
    held,      \* the connection a query got, None before
    fresh,     \* the connection a refill dialled and has not put yet
    unwarmed,  \* the rest of Config.Backends(), which Warm goes through
    spare      \* history: the connections that waited for a query when the backend
               \* last crashed, less the queries that got a dead one since

pool == <<idle, closed>>
net == <<open, alive>>
procs == <<pc, target, held, fresh>>
vars == <<idle, closed, open, alive, pc, target, held, fresh, unwarmed, spare>>

\* A connection waiting in the pool; its age is exact up to the timeout.
Item == [conn : Conns, age : 0..(IdleTimeout + 1)]
Usable(item) == item.age <= IdleTimeout
ConnsIn(items) == {items[i].conn : i \in DOMAIN items}

\* The connections that nothing here holds open.
Free == {c \in Conns : open[c] = None}
Close(cs) ==
    /\ open' = [c \in Conns |-> IF c \in cs THEN None ELSE open[c]]
    /\ alive' = alive \ cs

\* Config.Backends(): every backend once, in the order of the file.
Orders ==
    {s \in [1..Cardinality(Backends) -> Backends] : \A b \in Backends : \E i \in DOMAIN s : s[i] = b}

Init ==
    /\ idle = [b \in Backends |-> << >>]
    /\ closed = FALSE
    /\ open = [c \in Conns |-> None]
    /\ alive = {}
    /\ pc = [p \in Procs |-> "away"]
    /\ target = [p \in Procs |-> None]
    /\ held = [q \in Queries |-> None]
    /\ fresh = [p \in Procs |-> None]
    /\ unwarmed \in Orders
    /\ spare = [b \in Backends |-> 0]

-----------------------------------------------------------------------------
\* Warm: refill the backends one after another before the server starts.
WarmNext ==
    /\ unwarmed # << >> /\ pc[Main] = "away"
    /\ pc' = [pc EXCEPT ![Main] = "check"]
    /\ target' = [target EXCEPT ![Main] = Head(unwarmed)]
    /\ unwarmed' = Tail(unwarmed)
    /\ UNCHANGED <<pool, net, held, fresh, spare>>

Serving == unwarmed = << >> /\ pc[Main] = "away"

-----------------------------------------------------------------------------
\* Plausible mistakes, for mutation checks.

Take_Copy(b, i) == idle' = [idle EXCEPT ![b] = SubSeq(@, 1, i)]

Kept_Flush(b) ==
    IF \E i \in DOMAIN idle[b] : ~Usable(idle[b][i]) THEN << >> ELSE idle[b]

Keep_NoClosed(b, c) ==
    IF Len(idle[b]) >= MaxIdle
    THEN /\ Close({c})
         /\ UNCHANGED pool
    ELSE /\ idle' = [idle EXCEPT ![b] = Append(@, [conn |-> c, age |-> 0])]
         /\ UNCHANGED <<closed, net>>

-----------------------------------------------------------------------------
\* The i-th idle connection of b is the youngest Get can use.  Get leaves the
\* older ones and drops the younger ones.
Youngest(b, i) ==
    /\ Usable(idle[b][i])
    /\ \A j \in (i + 1)..Len(idle[b]) : ~Usable(idle[b][j])

Take(b, i) == idle' = [idle EXCEPT ![b] = SubSeq(@, 1, i - 1)]

\* DialStatus for b: Get finds a connection; the refill is left to goroutine r.
Hit(q, r, b) ==
    /\ Serving
    /\ pc[q] = "away" /\ pc[r] = "away"
    /\ ~closed
    /\ \E i \in DOMAIN idle[b] :
          /\ Youngest(b, i)
          /\ Take(b, i)
          /\ Close({idle[b][j].conn : j \in (i + 1)..Len(idle[b])})
          /\ held' = [held EXCEPT ![q] = idle[b][i].conn]
          /\ spare' = IF idle[b][i].conn \in alive THEN spare
                      ELSE [spare EXCEPT ![b] = @ - 1]
    /\ pc' = [pc EXCEPT ![q] = "use", ![r] = "check"]
    /\ target' = [target EXCEPT ![q] = b, ![r] = b]
    /\ UNCHANGED <<closed, fresh, unwarmed>>

\* DialStatus for b: Get finds none; it has dropped all, which were too old.
Miss(q, b) ==
    /\ Serving
    /\ pc[q] = "away"
    /\ closed \/ \A i \in DOMAIN idle[b] : ~Usable(idle[b][i])
    /\ IF closed THEN UNCHANGED <<idle, net>>
       ELSE /\ idle' = [idle EXCEPT ![b] = << >>]
            /\ Close(ConnsIn(idle[b]))
    /\ pc' = [pc EXCEPT ![q] = "dial"]
    /\ target' = [target EXCEPT ![q] = b]
    /\ UNCHANGED <<closed, held, fresh, unwarmed, spare>>

\* dialFresh succeeds: a free connection now leads to b.
Connect(b, c) ==
    /\ c = CHOOSE f \in Free : TRUE
    /\ open' = [open EXCEPT ![c] = b]
    /\ alive' = alive \cup {c}

\* The query dials, and then refills: the call is deferred, so that it runs
\* before DialStatus returns.
Dial(q) ==
    /\ pc[q] = "dial"
    /\ \/ \E c \in Free : Connect(target[q], c) /\ held' = [held EXCEPT ![q] = c]
       \/ UNCHANGED <<net, held>>
    /\ pc' = [pc EXCEPT ![q] = "check"]
    /\ UNCHANGED <<pool, target, fresh, unwarmed, spare>>

-----------------------------------------------------------------------------
\* Refill returns: to the query, which has a connection or has failed, or to
\* the end of the goroutine.
Return(p) ==
    LET goesOn == p \in Queries /\ held[p] # None
    IN  /\ pc' = [pc EXCEPT ![p] = IF goesOn THEN "use" ELSE "away"]
        /\ target' = IF goesOn THEN target ELSE [target EXCEPT ![p] = None]

\* NeedsConn closes the connections to b that are too old, and tells whether
\* there is room for another.  Its loop has kept these of the first i items.
KeptOf(items) ==
    LET kept[i \in 0..Len(items)] ==
            IF i = 0 THEN << >>
            ELSE IF Usable(items[i]) THEN Append(kept[i - 1], items[i])
            ELSE kept[i - 1]
    IN  kept

Kept(b) == KeptOf(idle[b])[Len(idle[b])]

Check(p) ==
    LET b == target[p]
    IN  /\ pc[p] = "check"
        /\ IF closed THEN UNCHANGED <<idle, net>>
           ELSE /\ idle' = [idle EXCEPT ![b] = Kept(b)]
                /\ Close(ConnsIn(idle[b]) \ ConnsIn(Kept(b)))
        /\ IF ~closed /\ Len(Kept(b)) < MaxIdle
           THEN /\ pc' = [pc EXCEPT ![p] = "refill"]
                /\ UNCHANGED target
           ELSE Return(p)
        /\ UNCHANGED <<closed, held, fresh, unwarmed, spare>>

\* A mistake for mutation checks: the error of the dial is not looked at.
Refill_NoError(p) ==
    /\ pc[p] = "refill"
    /\ \/ \E c \in Free : Connect(target[p], c) /\ fresh' = [fresh EXCEPT ![p] = c]
       \/ UNCHANGED <<net, fresh>>
    /\ pc' = [pc EXCEPT ![p] = "put"]
    /\ UNCHANGED <<pool, target, held, unwarmed, spare>>

\* Refill dials for the pool; an error is only logged.
Refill(p) ==
    /\ pc[p] = "refill"
    /\ \/ /\ \E c \in Free : Connect(target[p], c) /\ fresh' = [fresh EXCEPT ![p] = c]
          /\ pc' = [pc EXCEPT ![p] = "put"]
          /\ UNCHANGED target
       \/ /\ Return(p)
          /\ UNCHANGED <<net, fresh>>
    /\ UNCHANGED <<pool, held, unwarmed, spare>>

\* Put: a connection the pool cannot keep is closed.
Keep(b, c) ==
    IF closed \/ Len(idle[b]) >= MaxIdle
    THEN /\ Close({c})
         /\ UNCHANGED pool
    ELSE /\ idle' = [idle EXCEPT ![b] = Append(@, [conn |-> c, age |-> 0])]
         /\ UNCHANGED <<closed, net>>

Put(p) ==
    /\ pc[p] = "put"
    /\ Keep(target[p], fresh[p])
    /\ fresh' = [fresh EXCEPT ![p] = None]
    /\ Return(p)
    /\ UNCHANGED <<held, unwarmed, spare>>

\* handleStatus is through with the connection and closes it.
Finish(q) ==
    /\ pc[q] = "use"
    /\ Close({held[q]})
    /\ held' = [held EXCEPT ![q] = None]
    /\ pc' = [pc EXCEPT ![q] = "away"]
    /\ target' = [target EXCEPT ![q] = None]
    /\ UNCHANGED <<pool, fresh, unwarmed, spare>>

-----------------------------------------------------------------------------
\* Time passes for the idle connections.
Tick ==
    /\ \E b \in Backends : \E i \in DOMAIN idle[b] : Usable(idle[b][i])
    /\ idle' = [b \in Backends |->
          [i \in DOMAIN idle[b] |->
              [idle[b][i] EXCEPT !.age = IF Usable(idle[b][i]) THEN @ + 1 ELSE @]]]
    /\ UNCHANGED <<closed, net, procs, unwarmed, spare>>

\* Close at the end of main, after the server has stopped accepting.
ClosePool ==
    /\ Serving
    /\ ~closed
    /\ closed' = TRUE
    /\ Close(UNION {ConnsIn(idle[b]) : b \in Backends})
    /\ idle' = [b \in Backends |-> << >>]
    /\ UNCHANGED <<procs, unwarmed, spare>>

\* The connections to b that wait for a query: in the pool or in a refill.
Waiting(b) ==
    ConnsIn(idle[b]) \cup {fresh[p] : p \in {r \in Procs : target[r] = b /\ fresh[r] # None}}

\* Backend b crashes, and with it its end of every connection.  A dial may
\* fail at any time, so that whether b is back needs no state.
Crash(b) ==
    /\ alive' = {c \in alive : open[c] # b}
    /\ alive' # alive
    /\ spare' = [spare EXCEPT ![b] = Cardinality(Waiting(b))]
    /\ UNCHANGED <<pool, open, procs, unwarmed>>

Next ==
    \/ WarmNext
    \/ \E q \in Queries :
          \/ \E b \in Backends : Miss(q, b) \/ \E r \in Refillers : Hit(q, r, b)
          \/ Dial(q)
          \/ Finish(q)
    \/ \E p \in Procs : Check(p) \/ Refill(p) \/ Put(p)
    \/ Tick
    \/ ClosePool
    \/ \E b \in Backends : Crash(b)

Spec == Init /\ [][Next]_vars

-----------------------------------------------------------------------------
TypeOK ==
    /\ idle \in [Backends -> Seq(Item)]
    /\ closed \in BOOLEAN
    /\ open \in [Conns -> Backends \cup {None}]
    /\ alive \subseteq Conns
    /\ pc \in [Procs -> {"away", "dial", "check", "refill", "put", "use"}]
    /\ target \in [Procs -> Backends \cup {None}]
    /\ held \in [Queries -> Conns \cup {None}]
    /\ fresh \in [Procs -> Conns \cup {None}]
    /\ unwarmed \in Seq(Backends)
    /\ spare \in [Backends -> Int]

\* Who can use or close connection c: the places it is kept in.
Owners(c) ==
    {<<"idle", b>> : b \in {x \in Backends : c \in ConnsIn(idle[x])}}
    \cup {<<"held", q>> : q \in {x \in Queries : held[x] = c}}
    \cup {<<"fresh", p>> : p \in {x \in Procs : fresh[x] = c}}

\* No connection is lost and none is shared: an open connection is in exactly
\* one place, in the pool, with one query or with one refill, and once in the
\* pool; a closed one is nowhere.  Get, NeedsConn, Put and Close of the pool,
\* the dialer and handleStatus together close what they open.
OneOwner ==
    /\ \A c \in Conns : Cardinality(Owners(c)) = IF open[c] = None THEN 0 ELSE 1
    /\ \A b \in Backends : Cardinality(ConnsIn(idle[b])) = Len(idle[b])

\* However many refills have found the pool in need before any of them puts
\* its connection, a backend has no more than MaxIdle idle ones, and none once
\* the pool is closed: Put checks again what NeedsConn checked.
IdleBounded ==
    \A b \in Backends : Len(idle[b]) <= (IF closed THEN 0 ELSE MaxIdle)

\* After a crash of its backend no more queries are given a dead connection
\* than were idle or about to be put at the crash, even if the backend is back
\* at once: each such query reports a failure of a backend that may be well.
MisledBounded == \A b \in Backends : spare[b] >= 0

\* A connection leaves the pool only with a query, when it is too old, or when
\* the pool closes; Get and NeedsConn drop no usable one.
DropsOnlyOld ==
    [][\A b \in Backends : \A i \in DOMAIN idle[b] :
          \/ idle[b][i].conn \in ConnsIn(idle'[b])
          \/ \E q \in Queries : held'[q] = idle[b][i].conn
          \/ ~Usable(idle[b][i])
          \/ closed']_vars

=============================================================================
