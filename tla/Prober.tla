------------------------------- MODULE Prober -------------------------------
(***************************************************************************)
(* The active health checker, Run and CheckOnce in                         *)
(* src/internal/health/checker.go, beside the status connections that      *)
(* report to the same record (handleStatus in                              *)
(* src/internal/proxy/server.go).                                          *)
(*                                                                         *)
(* One goroutine probes the targets one after another, in the order of     *)
(* their addresses, at once and then at every tick.  Status connections    *)
(* that pass the gate query the backend themselves.  A result is recorded  *)
(* some time after the backend gave it, in any order.                      *)
(***************************************************************************)
EXTENDS Health

CONSTANTS
    Targets,    \* Checker.targets(): the backends, sorted by address
    Queries,    \* status connections that can be under way at once
    Modes,      \* the ways a backend may behave, a subset of AllModes
    NoQuery,
    StatusFallbackWhenUnhealthy   \* Options.StatusFallbackWhenUnhealthy

\* How a backend behaves: it answers; it does not; its status is too long for
\* ParseStatusJSON, which only the probe calls; or its packet is over
\* MaxStatusResponseSize, which only the status path applies.
AllModes == {"up", "down", "long", "over"}
ProbeSucceeds == {"up", "over"}
QuerySucceeds == {"up", "long"}

ASSUME ProberAssumption ==
    /\ Targets \in Seq(Backends)
    /\ Backends = {Targets[i] : i \in 1..Len(Targets)}
    /\ \A i, j \in 1..Len(Targets) : i # j => Targets[i] # Targets[j]
    /\ Modes \subseteq AllModes
    /\ "up" \in Modes
    /\ StatusFallbackWhenUnhealthy \in BOOLEAN

Query == [backend : Backends, state : {"asked", "heard"}, ok : BOOLEAN]

ASSUME NoQueryAssumption == NoQuery \notin Query

VARIABLES
    prober,    \* where Run is: "tick", "probe", "report", "stopped"
    todo,      \* targets of the round not reported yet
    result,    \* the probe's result not reported yet
    query,     \* per status connection: its backend and its result, or NoQuery
    mode,      \* how each backend behaves
    cancelled, \* the context of Run
    blemished  \* history: backends that have failed to answer a probe or query

loopVars == <<prober, todo, result>>
vars == <<health, recent, prober, todo, result, query, mode, cancelled, blemished>>

Init ==
    /\ HealthInit
    /\ prober = IF ~Enabled THEN "stopped"
                ELSE IF Targets = << >> THEN "tick" ELSE "probe"
    /\ todo = IF Enabled THEN Targets ELSE << >>
    /\ result = FALSE
    /\ query = [q \in Queries |-> NoQuery]
    /\ mode = [b \in Backends |-> "up"]
    /\ cancelled = FALSE
    /\ blemished = {}

\* Where the loop goes when the targets of "rest" are left in the round.
Continue(rest) ==
    /\ todo' = rest
    /\ prober' = IF rest = << >> THEN "tick" ELSE "probe"

\* Plausible mistakes, for mutation checks.
Report_StopsRound ==
    /\ prober = "report"
    /\ Record(Head(todo), result)
    /\ Continue(IF result THEN Tail(todo) ELSE << >>)
    /\ result' = FALSE
    /\ UNCHANGED <<query, mode, cancelled, blemished>>

Report_NextTarget ==
    /\ prober = "report"
    /\ Record(IF Len(todo) > 1 THEN todo[2] ELSE Head(Targets), result)
    /\ Continue(Tail(todo))
    /\ result' = FALSE
    /\ UNCHANGED <<query, mode, cancelled, blemished>>

\* A failed probe is final: the backend is unhealthy at once.
Report_IgnoresThreshold ==
    /\ prober = "report"
    /\ health' = [health EXCEPT ![Head(todo)] =
                    IF result THEN AfterSuccess(@)
                    ELSE [AfterFailure(@) EXCEPT !.healthy = FALSE]]
    /\ recent' = [recent EXCEPT ![Head(todo)] = Remembered(Head(todo), result)]
    /\ Continue(Tail(todo))
    /\ result' = FALSE
    /\ UNCHANGED <<query, mode, cancelled, blemished>>

-----------------------------------------------------------------------------
\* The ticker fires and select takes it, which it may even when the context is
\* done as well.
StartRound ==
    /\ prober = "tick"
    /\ Continue(Targets)
    /\ UNCHANGED <<healthVars, result, query, mode, cancelled, blemished>>

Stop ==
    /\ prober = "tick"
    /\ cancelled
    /\ prober' = "stopped"
    /\ UNCHANGED <<healthVars, todo, result, query, mode, cancelled, blemished>>

\* c.check returns.  A cancelled context fails the dial, not what follows it.
Probe ==
    /\ prober = "probe"
    /\ prober' = "report"
    /\ result' \in {mode[Head(todo)] \in ProbeSucceeds}
                     \cup (IF cancelled THEN {FALSE} ELSE {})
    /\ blemished' = IF result' THEN blemished ELSE blemished \cup {Head(todo)}
    /\ UNCHANGED <<healthVars, todo, query, mode, cancelled>>

\* RecordFailure or RecordSuccess, then the next target.
Report ==
    /\ prober = "report"
    /\ Record(Head(todo), result)
    /\ Continue(Tail(todo))
    /\ result' = FALSE
    /\ UNCHANGED <<query, mode, cancelled, blemished>>

\* A status connection passes the gate on its way to backend b.
Ask(q, b) ==
    /\ query[q] = NoQuery
    /\ ~(StatusFallbackWhenUnhealthy /\ Unhealthy(b))
    /\ query' = [query EXCEPT ![q] = [backend |-> b, state |-> "asked", ok |-> FALSE]]
    /\ UNCHANGED <<healthVars, loopVars, mode, cancelled, blemished>>

\* The backend answers it, or its deadline passes ...
Answer(q) ==
    /\ query[q] # NoQuery
    /\ query[q].state = "asked"
    /\ LET b  == query[q].backend
           ok == mode[b] \in QuerySucceeds
       IN  /\ query' = [query EXCEPT ![q] = [backend |-> b, state |-> "heard", ok |-> ok]]
           /\ blemished' = IF ok THEN blemished ELSE blemished \cup {b}
    /\ UNCHANGED <<healthVars, loopVars, mode, cancelled>>

\* ... and it records the result.
Deliver(q) ==
    /\ query[q] # NoQuery
    /\ query[q].state = "heard"
    /\ Record(query[q].backend, query[q].ok)
    /\ query' = [query EXCEPT ![q] = NoQuery]
    /\ UNCHANGED <<loopVars, mode, cancelled, blemished>>

LetTimePass ==
    /\ Elapse
    /\ UNCHANGED <<loopVars, query, mode, cancelled, blemished>>

\* The backend starts to behave otherwise.
Switch(b) ==
    /\ \E m \in Modes \ {mode[b]} : mode' = [mode EXCEPT ![b] = m]
    /\ UNCHANGED <<healthVars, loopVars, query, cancelled, blemished>>

\* The process is asked to stop.
Cancel ==
    /\ ~cancelled
    /\ cancelled' = TRUE
    /\ UNCHANGED <<healthVars, loopVars, query, mode, blemished>>

Loop == StartRound \/ Probe \/ Report

Next ==
    \/ Loop
    \/ Stop
    \/ \E q \in Queries, b \in Backends : Ask(q, b)
    \/ \E q \in Queries : Answer(q) \/ Deliver(q)
    \/ LetTimePass
    \/ \E b \in Backends : Switch(b)
    \/ Cancel

Spec == Init /\ [][Next]_vars

\* The ticker keeps ticking, a probe and a query end by their deadlines, and the
\* goroutines then go on.  Nothing makes clients ask or backends change.
Fairness ==
    /\ WF_vars(Loop)
    /\ \A q \in Queries : WF_vars(Answer(q)) /\ WF_vars(Deliver(q))

FairSpec == Spec /\ Fairness

-----------------------------------------------------------------------------
\* Types; consecutive failures and successes exclude each other, and a result is held
\* exactly between a probe and its report.
TypeOK ==
    /\ HealthTypeOK
    /\ prober \in {"tick", "probe", "report", "stopped"}
    /\ \E i \in 1..(Len(Targets) + 1) : todo = SubSeq(Targets, i, Len(Targets))
    /\ todo = << >> <=> prober \in {"tick", "stopped"}
    /\ result \in BOOLEAN
    /\ result => prober = "report"
    /\ query \in [Queries -> {NoQuery} \cup Query]
    /\ mode \in [Backends -> Modes]
    /\ blemished \subseteq Backends

\* No backend pays for another: one that has answered everything it was asked is
\* healthy, whatever its neighbours in the round do.
NoBlameWithoutFailure ==
    \A b \in Backends : b \notin blemished => ~Unhealthy(b)

\* A backend that answers for good is healthy for good, however late the last
\* bad results arrive.
Recovers ==
    \A b \in Backends :
        <>[](mode[b] = "up" /\ ~cancelled) => <>[]~Unhealthy(b)

\* A backend that is gone for good is found out and stays unhealthy, also when
\* no client asks for it.
Detects ==
    \A b \in Backends :
        <>[](mode[b] = "down" /\ ~cancelled) => <>[]Unhealthy(b)

\* The README's max_status_response_size: servers with larger status payloads
\* can be served.  A backend whose status the proxy forwards stays reachable.
LongStatusIsServed ==
    \A b \in Backends :
        <>[](mode[b] \in QuerySucceeds /\ ~cancelled) => []<>~Unhealthy(b)

=============================================================================
