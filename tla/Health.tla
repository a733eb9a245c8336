------------------------------- MODULE Health -------------------------------
(***************************************************************************)
(* The health checker's record of each backend,                            *)
(* src/internal/health/checker.go: RecordFailure and RecordSuccess under   *)
(* one mutex, called by the active checker and by status connections.      *)
(*                                                                         *)
(* The counters of consecutive results are only compared with their        *)
(* thresholds, so they saturate there.  CircuitOpenUntil is represented by *)
(* the time left until it, 0 standing for the zero time and for the past   *)
(* alike: statusLocked does not tell them apart.                           *)
(***************************************************************************)
EXTENDS Integers, Sequences

CONSTANTS
    Backends,           \* backend addresses; BuildTargets gives each one entry
    Enabled,            \* Options.Enabled
    FailureThreshold,   \* Options.FailureThreshold
    SuccessThreshold,   \* Options.SuccessThreshold
    CircuitBreakerTTL   \* Options.CircuitBreakerTTL

\* New and the configuration's validation leave only positive values.
ASSUME HealthAssumption ==
    /\ Enabled \in BOOLEAN
    /\ FailureThreshold \in Nat \ {0}
    /\ SuccessThreshold \in Nat \ {0}
    /\ CircuitBreakerTTL \in Nat \ {0}

VARIABLES
    health,   \* c.entries
    recent    \* history: the latest results of each backend, TRUE for a success

healthVars == <<health, recent>>

\* How many results the history keeps.
Keep == IF FailureThreshold > SuccessThreshold THEN FailureThreshold ELSE SuccessThreshold

Entry == [healthy : BOOLEAN,
          fails   : 0..FailureThreshold,    \* ConsecutiveFails
          oks     : 0..SuccessThreshold,    \* ConsecutiveOKs
          circuit : 0..CircuitBreakerTTL]   \* time until CircuitOpenUntil

HealthInit ==
    /\ health = [b \in Backends |->
                    [healthy |-> TRUE, fails |-> 0, oks |-> 0, circuit |-> 0]]
    /\ recent = [b \in Backends |-> << >>]

UpTo(n, bound) == IF n > bound THEN bound ELSE n

\* Plausible mistakes, for mutation checks.
AfterFailure_OffByOne(e) ==
    LET n == UpTo(e.fails + 1, FailureThreshold)
    IN  [healthy |-> e.healthy /\ e.fails < FailureThreshold,
         fails   |-> n,
         oks     |-> 0,
         circuit |-> IF e.fails >= FailureThreshold THEN CircuitBreakerTTL ELSE e.circuit]

AfterFailure_KeepsOKs(e) ==
    LET n == UpTo(e.fails + 1, FailureThreshold)
    IN  [healthy |-> e.healthy /\ n < FailureThreshold,
         fails   |-> n,
         oks     |-> e.oks,
         circuit |-> IF n >= FailureThreshold THEN CircuitBreakerTTL ELSE e.circuit]

AfterSuccess_KeepsFails(e) ==
    LET n == UpTo(e.oks + 1, SuccessThreshold)
    IN  [healthy |-> e.healthy \/ n >= SuccessThreshold,
         fails   |-> e.fails,
         oks     |-> n,
         circuit |-> IF n >= SuccessThreshold THEN 0 ELSE e.circuit]

AfterSuccess_KeepsCircuit(e) ==
    LET n == UpTo(e.oks + 1, SuccessThreshold)
    IN  [healthy |-> e.healthy \/ n >= SuccessThreshold,
         fails   |-> 0,
         oks     |-> n,
         circuit |-> e.circuit]

\* The count restarts at every success, as if each needed its own run.
AfterSuccess_NeverTwo(e) ==
    [healthy |-> e.healthy \/ SuccessThreshold = 1,
     fails   |-> 0,
     oks     |-> 1,
     circuit |-> IF SuccessThreshold = 1 THEN 0 ELSE e.circuit]

-----------------------------------------------------------------------------
AfterFailure(e) ==
    LET n == UpTo(e.fails + 1, FailureThreshold)
    IN  [healthy |-> e.healthy /\ n < FailureThreshold,
         fails   |-> n,
         oks     |-> 0,
         circuit |-> IF n >= FailureThreshold THEN CircuitBreakerTTL ELSE e.circuit]

AfterSuccess(e) ==
    LET n == UpTo(e.oks + 1, SuccessThreshold)
    IN  [healthy |-> e.healthy \/ n >= SuccessThreshold,
         fails   |-> 0,
         oks     |-> n,
         circuit |-> IF n >= SuccessThreshold THEN 0 ELSE e.circuit]

\* The history of b after a result: the last Keep of them.
Remembered(b, ok) ==
    LET s == Append(recent[b], ok)
    IN  IF Len(s) > Keep THEN Tail(s) ELSE s

Record(b, ok) ==
    IF Enabled
    THEN /\ health' = [health EXCEPT ![b] = IF ok THEN AfterSuccess(@) ELSE AfterFailure(@)]
         /\ recent' = [recent EXCEPT ![b] = Remembered(b, ok)]
    ELSE UNCHANGED healthVars

RecordFailure(b) == Record(b, FALSE)

RecordSuccess(b) == Record(b, TRUE)

CircuitOpen(b) == health[b].circuit > 0

\* What the status path asks before it dials.
Unhealthy(b) == Enabled /\ (~health[b].healthy \/ CircuitOpen(b))

\* One unit of time passes while some circuit is open.
Elapse ==
    /\ \E b \in Backends : CircuitOpen(b)
    /\ health' = [b \in Backends |->
                    [health[b] EXCEPT !.circuit = IF @ = 0 THEN 0 ELSE @ - 1]]
    /\ UNCHANGED recent

HealthNext ==
    \/ \E b \in Backends : RecordFailure(b) \/ RecordSuccess(b)
    \/ Elapse

HealthSpec == HealthInit /\ [][HealthNext]_healthVars

-----------------------------------------------------------------------------
\* Types; consecutive failures and consecutive successes exclude each other.
HealthTypeOK ==
    /\ health \in [Backends -> Entry]
    /\ recent \in [Backends -> Seq(BOOLEAN)]
    /\ \A b \in Backends : Len(recent[b]) <= Keep
    /\ \A b \in Backends : health[b].fails = 0 \/ health[b].oks = 0

\* The last n results of a history are all ok.
LastAre(s, n, ok) ==
    /\ Len(s) >= n
    /\ \A i \in (Len(s) - n + 1)..Len(s) : s[i] = ok

\* The record follows the results: after FailureThreshold failures in a row the
\* backend is unhealthy, after SuccessThreshold successes in a row it is healthy.
FollowsRuns ==
    \A b \in Backends :
        /\ LastAre(recent[b], FailureThreshold, FALSE) => ~health[b].healthy
        /\ LastAre(recent[b], SuccessThreshold, TRUE) => health[b].healthy

\* Hysteresis: isolated results never flip a backend.  It becomes unhealthy only
\* with FailureThreshold failures in a row, healthy again only with
\* SuccessThreshold successes in a row.
FlipsOnlyAfterRuns ==
    [][\A b \in Backends :
        /\ health[b].healthy /\ ~health'[b].healthy =>
              LastAre(recent'[b], FailureThreshold, FALSE)
        /\ ~health[b].healthy /\ health'[b].healthy =>
              LastAre(recent'[b], SuccessThreshold, TRUE)]_healthVars

\* An open circuit always comes with an unhealthy backend, so that the second
\* half of Unhealthy's condition never decides: only successes end the circuit.
CircuitAddsNothing == \A b \in Backends : CircuitOpen(b) => ~health[b].healthy

-----------------------------------------------------------------------------
\* The counters summarise the history.
CountsRuns(b) ==
    /\ LastAre(recent[b], health[b].fails, FALSE)
    /\ LastAre(recent[b], health[b].oks, TRUE)
    /\ health[b].fails < FailureThreshold => ~LastAre(recent[b], health[b].fails + 1, FALSE)
    /\ health[b].oks < SuccessThreshold => ~LastAre(recent[b], health[b].oks + 1, TRUE)

\* The inductive invariant behind FollowsRuns and FlipsOnlyAfterRuns.
IInv ==
    /\ HealthTypeOK
    /\ CircuitAddsNothing
    /\ \A b \in Backends :
          /\ CountsRuns(b)
          /\ health[b].fails >= FailureThreshold => ~health[b].healthy
          /\ health[b].oks >= SuccessThreshold => health[b].healthy

=============================================================================
