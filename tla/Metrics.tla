------------------------------ MODULE Metrics ------------------------------
(***************************************************************************)
(* The metrics recorder, src/internal/metrics/metrics.go, with those who   *)
(* meet in it: the handlers of connections, which record what they do in   *)
(* the order of src/internal/proxy/server.go, and the scrapes of the       *)
(* management API, which hold the recorder's mutex while they ask the      *)
(* health record for its own numbers.                                      *)
(*                                                                         *)
(* The labels are left out but for those that differ in meaning: keys of a *)
(* counter do not interact.  A critical section of the recorder or of the  *)
(* health record that calls nothing is one step.                           *)
(***************************************************************************)
EXTENDS Naturals, Sequences, FiniteSets

CONSTANTS
    Conns,        \* slots for connections, each used again and again
    Scrapers,     \* management requests, likewise
    Checker,      \* the probe loop of the health checker
    None,         \* holds no mutex
    MaxConns,     \* bound: connections accepted
    MaxProbes     \* bound: probes of the health checker

ASSUME MetricsAssumption ==
    /\ IsFiniteSet(Conns)
    /\ Conns \cap Scrapers = {}
    /\ Checker \notin Conns \cup Scrapers
    /\ None \notin Conns \cup Scrapers \cup {Checker}
    /\ MaxConns \in Nat /\ MaxProbes \in Nat

\* The counters of the recorder: status requests (a fallback used or not), logins
\* by action, failed dials, blocks by kind, and requests stopped by the circuit.
Counters ==
    {"status", "fallback", "none", "ip_banned", "player_banned", "record_failure",
     "record_success", "dial_error", "block_ip", "block_player", "breaker"}

\* What handleStatus and handleLogin record, in order; the health record's calls
\* are "ok", "failed", and "dial_failed" for the failure that follows a failed dial.
StatusScripts ==
    {<<"status">>, <<"breaker", "fallback">>, <<"breaker", "status">>,
     <<"dial_error", "dial_failed", "fallback">>, <<"dial_error", "dial_failed", "status">>,
     <<"failed", "fallback">>, <<"failed", "status">>, <<"ok", "status">>}

LoginScripts ==
    {<<"ip_banned", "block_ip">>, <<"player_banned", "block_player">>, <<"none">>,
     <<"dial_error", "none">>, <<"record_failure">>, <<"record_success">>}

\* A bad handshake, an unknown host or state records nothing.
Scripts == {<< >>} \cup StatusScripts \cup LoginScripts

VARIABLES
    script,    \* what the handler of a slot has still to record
    at,        \* "free"; "work"; "call": at a mutex; "record": in the health record
    accepted,  \* how many connections there have been
    active,    \* the gauge of connections
    total,     \* the counters
    health,    \* results the health record has counted
    others,    \* history: those of them that no status request's dial or answer gave
    mu,        \* who holds the recorder's mutex between two steps
    hmu,       \* who holds the health record's
    scrape,    \* where a scrape is
    snap       \* what it has copied of the gauge and the health record

vars == <<script, at, accepted, active, total, health, others, mu, hmu, scrape, snap>>

NoSnap == [active |-> 0, health |-> [ok |-> 0, failed |-> 0], others |-> [ok |-> 0, failed |-> 0]]

Init ==
    /\ script = [c \in Conns |-> << >>]
    /\ at = [c \in Conns |-> "free"]
    /\ accepted = 0
    /\ active = 0
    /\ total = [k \in Counters |-> 0]
    /\ health = [ok |-> 0, failed |-> 0]
    /\ others = [ok |-> 0, failed |-> 0]
    /\ mu = None /\ hmu = None
    /\ scrape = [s \in Scrapers |-> "idle"]
    /\ snap = [s \in Scrapers |-> NoSnap]

-----------------------------------------------------------------------------
\* handleConn counts the connection before anything else.
Accept(c) ==
    /\ at[c] = "free" /\ mu = None
    /\ accepted < MaxConns
    /\ accepted' = accepted + 1
    /\ active' = active + 1
    /\ at' = [at EXCEPT ![c] = "work"]
    /\ \E s \in Scripts : script' = [script EXCEPT ![c] = s]
    /\ UNCHANGED <<total, health, others, mu, hmu, scrape, snap>>

\* A handler comes to its next call, or to the deferred DecActiveConnections.
Call(c) ==
    /\ at[c] = "work"
    /\ at' = [at EXCEPT ![c] = "call"]
    /\ UNCHANGED <<script, accepted, active, total, health, others, mu, hmu, scrape, snap>>

Counting(c) == script[c] # << >> /\ Head(script[c]) \in Counters

Record(c) ==
    /\ at[c] = "call" /\ Counting(c) /\ mu = None
    /\ total' = [total EXCEPT ![Head(script[c])] = @ + 1]
    /\ script' = [script EXCEPT ![c] = Tail(@)]
    /\ at' = [at EXCEPT ![c] = "work"]
    /\ UNCHANGED <<accepted, active, health, others, mu, hmu, scrape, snap>>

\* The health record has a mutex of its own, taken ...  (Its readers, the gate of a
\* status query and the status page, call nothing under it and are left out.)
LockHealth(c) ==
    /\ at[c] = "call" /\ script[c] # << >> /\ ~Counting(c) /\ hmu = None
    /\ hmu' = c
    /\ at' = [at EXCEPT ![c] = "record"]
    /\ UNCHANGED <<script, accepted, active, total, health, others, mu, scrape, snap>>

\* Plausible mistake, for mutation checks: the health record counts its failures
\* with the recorder as well, a call made under its own mutex.
RecordHealth_CountsToo(c) ==
    /\ at[c] = "record" /\ mu = None
    /\ health' = [health EXCEPT ![IF Head(script[c]) = "ok" THEN "ok" ELSE "failed"] = @ + 1]
    /\ others' = IF Head(script[c]) = "failed" THEN [others EXCEPT !.failed = @ + 1] ELSE others
    /\ script' = [script EXCEPT ![c] = Tail(@)]
    /\ hmu' = None
    /\ at' = [at EXCEPT ![c] = "work"]
    /\ UNCHANGED <<accepted, active, total, mu, scrape, snap>>

\* ... and released when the result is counted.
RecordHealth(c) ==
    /\ at[c] = "record"
    /\ LET r == IF Head(script[c]) = "ok" THEN "ok" ELSE "failed"
       IN  /\ health' = [health EXCEPT ![r] = @ + 1]
           /\ others' = IF Head(script[c]) = "failed" THEN [others EXCEPT !.failed = @ + 1]
                        ELSE others
    /\ script' = [script EXCEPT ![c] = Tail(@)]
    /\ hmu' = None
    /\ at' = [at EXCEPT ![c] = "work"]
    /\ UNCHANGED <<accepted, active, total, mu, scrape, snap>>

\* Plausible mistake, for mutation checks: the gauge stops at one.
Dec_StopsAtOne(n) == IF n > 1 THEN n - 1 ELSE n

Dec(n) == IF n > 0 THEN n - 1 ELSE n

Finish(c) ==
    /\ at[c] = "call" /\ script[c] = << >> /\ mu = None
    /\ active' = Dec(active)
    /\ at' = [at EXCEPT ![c] = "free"]
    /\ UNCHANGED <<script, accepted, total, health, others, mu, hmu, scrape, snap>>

\* The probe loop reports too.
LockToProbe ==
    /\ hmu = None
    /\ others.ok + others.failed < MaxProbes
    /\ hmu' = Checker
    /\ UNCHANGED <<script, at, accepted, active, total, health, others, mu, scrape, snap>>

Probe ==
    /\ hmu = Checker
    /\ \E r \in {"ok", "failed"} :
          /\ health' = [health EXCEPT ![r] = @ + 1]
          /\ others' = [others EXCEPT ![r] = @ + 1]
    /\ hmu' = None
    /\ UNCHANGED <<script, at, accepted, active, total, mu, scrape, snap>>

-----------------------------------------------------------------------------
Request(s) ==
    /\ scrape[s] = "idle"
    /\ scrape' = [scrape EXCEPT ![s] = "waiting"]
    /\ UNCHANGED <<script, at, accepted, active, total, health, others, mu, hmu, snap>>

\* Plausible mistake, for mutation checks: the mutex is held for the gauge only.
Lock_ForTheGauge(s) ==
    /\ scrape[s] = "waiting" /\ mu = None
    /\ scrape' = [scrape EXCEPT ![s] = "locked"]
    /\ snap' = [snap EXCEPT ![s].active = active]
    /\ UNCHANGED <<script, at, accepted, active, total, health, others, mu, hmu>>

\* snapshot() takes the mutex and keeps it.
Lock(s) ==
    /\ scrape[s] = "waiting" /\ mu = None
    /\ mu' = s
    /\ scrape' = [scrape EXCEPT ![s] = "locked"]
    /\ snap' = [snap EXCEPT ![s].active = active]
    /\ UNCHANGED <<script, at, accepted, active, total, health, others, hmu>>

\* MetricsSnapshot waits for the health record's mutex while the recorder's is held.
AskHealth(s) ==
    /\ scrape[s] = "locked" /\ hmu = None
    /\ hmu' = s
    /\ scrape' = [scrape EXCEPT ![s] = "asking"]
    /\ UNCHANGED <<script, at, accepted, active, total, health, others, mu, snap>>

HearHealth(s) ==
    /\ scrape[s] = "asking"
    /\ hmu' = None
    /\ scrape' = [scrape EXCEPT ![s] = "copying"]
    /\ snap' = [snap EXCEPT ![s].health = health, ![s].others = others]
    /\ UNCHANGED <<script, at, accepted, active, total, health, others, mu>>

\* The counters are copied and the mutex is released; the answer is made of the
\* copy.
Copy(s) ==
    /\ scrape[s] = "copying"
    /\ mu' = None
    /\ scrape' = [scrape EXCEPT ![s] = "writing"]
    /\ snap' = [snap EXCEPT ![s] = NoSnap]
    /\ UNCHANGED <<script, at, accepted, active, total, health, others, hmu>>

\* The client of the management API has read the answer, or is gone.
Written(s) ==
    /\ scrape[s] = "writing"
    /\ mu' = IF mu = s THEN None ELSE mu
    /\ scrape' = [scrape EXCEPT ![s] = "idle"]
    /\ UNCHANGED <<script, at, accepted, active, total, health, others, hmu, snap>>

Next ==
    \/ \E c \in Conns : Accept(c) \/ Call(c) \/ Record(c) \/ LockHealth(c) \/ RecordHealth(c) \/ Finish(c)
    \/ LockToProbe \/ Probe
    \/ \E s \in Scrapers : Request(s) \/ Lock(s) \/ AskHealth(s) \/ HearHealth(s) \/ Copy(s) \/ Written(s)

Spec == Init /\ [][Next]_vars

\* A goroutine goes on unless it waits for a mutex, and a mutex that is free
\* again and again is given to each that waits (sync.Mutex does not starve).
\* Nothing is assumed of the clients, on either side.
FairSpec ==
    /\ Spec
    /\ \A c \in Conns : SF_vars(Record(c) \/ LockHealth(c) \/ RecordHealth(c) \/ Finish(c))
    /\ WF_vars(Probe)
    /\ \A s \in Scrapers : SF_vars(Lock(s) \/ AskHealth(s) \/ HearHealth(s) \/ Copy(s))

-----------------------------------------------------------------------------
\* The gauge is the number of connections being handled, and each of the two
\* mutexes is held by whoever is between taking and giving it back.
TypeOK ==
    /\ \A c \in Conns :
          /\ at[c] \in {"free", "work", "call", "record"}
          /\ at[c] = "free" => script[c] = << >>
    /\ active = Cardinality({c \in Conns : at[c] # "free"})
    /\ total \in [Counters -> Nat]
    /\ mu \in Scrapers \cup {None}
    /\ \A s \in Scrapers : (mu = s) <=> scrape[s] \in {"locked", "asking", "copying"}
    /\ hmu \in Conns \cup Scrapers \cup {Checker, None}
    /\ \A c \in Conns : (hmu = c) <=> at[c] = "record"
    /\ \A s \in Scrapers : (hmu = s) <=> scrape[s] = "asking"

\* What a scrape answers is true of one moment.  A banned login not yet counted
\* as blocked, a request stopped by the circuit and an answer of a backend not yet
\* counted as requests belong to connections that are in the gauge; and a failure
\* that a failed dial put in the health record is among the dial errors.
Cut(s) ==
    LET n == snap[s].active
        h == snap[s].health
        o == snap[s].others
        queries == total["status"] + total["fallback"]
    IN  /\ total["block_ip"] <= total["ip_banned"]
        /\ total["block_player"] <= total["player_banned"]
        /\ total["ip_banned"] + total["player_banned"]
              <= total["block_ip"] + total["block_player"] + n
        /\ total["breaker"] <= queries + n
        /\ h.ok <= o.ok + queries + n
        /\ h.failed <= o.failed + total["dial_error"]

ScrapesAreCuts ==
    [][\A s \in Scrapers : scrape[s] = "copying" /\ scrape'[s] = "writing" => Cut(s)]_vars

\* Nobody waits for ever for either mutex, neither a handler nor a scrape nor the
\* probe loop, although a scrape waits for the health record's while it holds the
\* recorder's, and even when a client of the management API never reads its answer.
CallsReturn ==
    /\ \A c \in Conns : at[c] = "call" ~> at[c] \in {"work", "free"}
    /\ \A s \in Scrapers : scrape[s] = "waiting" ~> scrape[s] = "writing"
    /\ hmu = Checker ~> hmu # Checker
=============================================================================
