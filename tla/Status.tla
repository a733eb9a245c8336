------------------------------- MODULE Status -------------------------------
(***************************************************************************)
(* Status connections of the proxy, handleStatus in                        *)
(* src/internal/proxy/server.go, over the response cache                   *)
(* (src/internal/cache/status_cache.go) and the health record (module      *)
(* Health).                                                                *)
(*                                                                         *)
(* A connection looks for a fresh entry, asks whether the backend is       *)
(* healthy, queries the backend, reports the result, forwards the answer   *)
(* and stores it; when the query fails it looks for a MOTD snapshot.  The  *)
(* cache reads an entry under its lock, judges it by the clock without it, *)
(* and takes the lock again to evict: a connection keeps the entry it read *)
(* in "item" meanwhile, and others may replace it.                         *)
(*                                                                         *)
(* The ping after the answer touches no shared state and is left out.      *)
(***************************************************************************)
EXTENDS Health

CONSTANTS
    Conns,                        \* connection slots, used again and again
    Requests,                     \* [backend, host, proto]: routed handshakes
    NoRequest, NoEntry, NoAnswer,
    Cached,                       \* those whose route has status caching on
    MOTDCacheEnabled,             \* Options.MOTDCacheEnabled
    StatusCacheTTL,               \* Options.StatusCacheTTL
    MOTDFallbackTTL,              \* Options.MOTDFallbackTTL
    StatusFallbackWhenUnhealthy,  \* Options.StatusFallbackWhenUnhealthy
    WriteLag,                     \* bound: how long forwarding an answer may take
    Horizon                       \* bound: the last value of the clock

ASSUME StatusAssumption ==
    /\ \A r \in Requests :
          /\ r = [backend |-> r.backend, host |-> r.host, proto |-> r.proto]
          /\ r.backend \in Backends
    /\ NoRequest \notin Requests
    /\ Cached \subseteq Requests
    /\ MOTDCacheEnabled \in BOOLEAN
    /\ StatusFallbackWhenUnhealthy \in BOOLEAN
    /\ StatusCacheTTL \in Nat
    /\ MOTDFallbackTTL \in Nat
    /\ WriteLag \in Nat
    /\ Horizon \in Nat

\* A plausible mistake, for mutation checks: protocol versions share an entry.
Key_NoProtocol(r) == <<r.backend, r.host>>

Key(r) == <<r.backend, r.host, r.proto>>

Keys == {Key(r) : r \in Requests}

VARIABLES
    clock,    \* time.Now
    entries,  \* StatusCache.entries
    pc,       \* where each slot is in handleStatus
    who,      \* its request
    item,     \* the entry the cache lookup read; NoEntry when not live
    answer,   \* the backend's answer being forwarded or stored; else NoAnswer
    storedAt, \* the clock SetWithFallback read before the lock; else 0
    outcome,  \* the backend's outcome not reported yet; else "none"
    result,   \* what the last session of a slot ended with
    cohort    \* history: per backend, the slots past the gate when it last
              \* turned unhealthy

locals == <<item, answer, storedAt, outcome>>
vars == <<clock, entries, health, recent, pc, who, item, answer, storedAt, outcome,
          result, cohort>>

Answer == [of : Requests, at : 0..Horizon, motd : BOOLEAN]
Until == 0..(Horizon + StatusCacheTTL + MOTDFallbackTTL)
CacheEntry == [answer : Answer, freshUntil : Until, staleUntil : Until]

ASSUME NothingAssumption == NoEntry \notin CacheEntry /\ NoAnswer \notin Answer

\* StatusResult.CacheResult when the client was answered, "error" when not.
Results == {"none", "hit", "fallback", "live", "error"}

\* Outcomes of the query: no connection, a failed replay, a failed or oversized
\* read, another packet id, or an answer.
Failures == {"dial", "replay", "read", "id"}

PCs == {"idle", "getRead", "getJudge", "getEvict", "gate", "query", "report",
        "forward", "store", "fallbackRead", "fallbackJudge", "fallbackEvict"}

Init ==
    /\ clock = 0
    /\ entries = [k \in Keys |-> NoEntry]
    /\ HealthInit
    /\ pc = [c \in Conns |-> "idle"]
    /\ who = [c \in Conns |-> NoRequest]
    /\ item = [c \in Conns |-> NoEntry]
    /\ answer = [c \in Conns |-> NoAnswer]
    /\ storedAt = [c \in Conns |-> 0]
    /\ outcome = [c \in Conns |-> "none"]
    /\ result = [c \in Conns |-> "none"]
    /\ cohort = [b \in Backends |-> {}]

BackendOf(c) == who[c].backend
KeyOf(c) == Key(who[c])

\* Past the gate of its backend, and the backend not heard yet.
Asking(b) == {c \in Conns : pc[c] = "query" /\ BackendOf(c) = b}

Goto(c, from, to) ==
    /\ pc[c] = from
    /\ pc' = [pc EXCEPT ![c] = to]
    /\ UNCHANGED <<who, result>>

\* The session of slot c ends with res.
End(c, from, res) ==
    /\ pc[c] = from
    /\ pc' = [pc EXCEPT ![c] = "idle"]
    /\ who' = [who EXCEPT ![c] = NoRequest]
    /\ result' = [result EXCEPT ![c] = res]

\* statusFallback: a lookup only with the cache and MOTD snapshots on.
LookForFallback(c, from) ==
    IF who[c] \in Cached /\ MOTDCacheEnabled
    THEN Goto(c, from, "fallbackRead")
    ELSE End(c, from, "error")

-----------------------------------------------------------------------------
\* Plausible mistakes, for mutation checks.
GetJudge_Inclusive(c) ==
    /\ \/ /\ item[c] # NoEntry /\ clock <= item[c].freshUntil
          /\ End(c, "getJudge", "hit")
          /\ item' = [item EXCEPT ![c] = NoEntry]
       \/ /\ item[c] # NoEntry /\ clock > item[c].freshUntil
          /\ Goto(c, "getJudge", "getEvict")
          /\ UNCHANGED item
       \/ item[c] = NoEntry /\ Goto(c, "getJudge", "gate") /\ UNCHANGED item
    /\ UNCHANGED <<clock, entries, healthVars, answer, storedAt, outcome, cohort>>

Gate_DialsWithoutSnapshot(c) ==
    /\ pc[c] = "gate"
    /\ IF /\ StatusFallbackWhenUnhealthy /\ Unhealthy(BackendOf(c))
          /\ who[c] \in Cached /\ entries[KeyOf(c)] # NoEntry
       THEN LookForFallback(c, "gate")
       ELSE Goto(c, "gate", "query")
    /\ UNCHANGED <<clock, entries, healthVars, locals, cohort>>

FallbackJudge_AnyAge(c) ==
    /\ \/ /\ item[c] # NoEntry /\ item[c].answer.motd
          /\ End(c, "fallbackJudge", "fallback")
       \/ item[c] = NoEntry /\ End(c, "fallbackJudge", "error")
       \/ /\ item[c] # NoEntry /\ ~item[c].answer.motd
          /\ Goto(c, "fallbackJudge", "fallbackEvict")
    /\ item' = [item EXCEPT ![c] = NoEntry]
    /\ UNCHANGED <<clock, entries, healthVars, answer, storedAt, outcome, cohort>>

-----------------------------------------------------------------------------
\* A handshake is routed and the status request read; a slot is taken.
Request(c, r) ==
    /\ pc[c] = "idle"
    /\ pc' = [pc EXCEPT ![c] = IF r \in Cached THEN "getRead" ELSE "gate"]
    /\ who' = [who EXCEPT ![c] = r]
    /\ result' = [result EXCEPT ![c] = "none"]
    /\ cohort' = [b \in Backends |-> cohort[b] \ {c}]
    /\ UNCHANGED <<clock, entries, healthVars, locals>>

\* The entry, under the read lock.
GetRead(c) ==
    /\ Goto(c, "getRead", "getJudge")
    /\ item' = [item EXCEPT ![c] = entries[KeyOf(c)]]
    /\ UNCHANGED <<clock, entries, healthVars, answer, storedAt, outcome, cohort>>

\* Judged by the clock: a fresh entry is served, a hit.
GetJudge(c) ==
    /\ \/ /\ item[c] # NoEntry /\ clock < item[c].freshUntil
          /\ End(c, "getJudge", "hit")
          /\ item' = [item EXCEPT ![c] = NoEntry]
       \/ /\ item[c] # NoEntry /\ clock >= item[c].freshUntil
          /\ Goto(c, "getJudge", "getEvict")
          /\ UNCHANGED item
       \/ item[c] = NoEntry /\ Goto(c, "getJudge", "gate") /\ UNCHANGED item
    /\ UNCHANGED <<clock, entries, healthVars, answer, storedAt, outcome, cohort>>

\* An entry that is no longer fresh is deleted once it is stale too.
GetEvict(c) ==
    /\ Goto(c, "getEvict", "gate")
    /\ entries' = [entries EXCEPT ![KeyOf(c)] =
                     IF clock > item[c].staleUntil THEN NoEntry ELSE @]
    /\ item' = [item EXCEPT ![c] = NoEntry]
    /\ UNCHANGED <<clock, healthVars, answer, storedAt, outcome, cohort>>

Gate(c) ==
    /\ pc[c] = "gate"
    /\ IF StatusFallbackWhenUnhealthy /\ Unhealthy(BackendOf(c))
       THEN LookForFallback(c, "gate")
       ELSE Goto(c, "gate", "query")
    /\ UNCHANGED <<clock, entries, healthVars, locals, cohort>>

\* The dial, the replay of handshake and request, and the read of the answer,
\* at whatever moment their outcome is known.
Query(c) ==
    /\ Goto(c, "query", "report")
    /\ \/ /\ \E f \in Failures : outcome' = [outcome EXCEPT ![c] = f]
          /\ UNCHANGED answer
       \/ /\ outcome' = [outcome EXCEPT ![c] = "ok"]
          /\ \E motd \in BOOLEAN :
                answer' = [answer EXCEPT ![c] =
                             [of |-> who[c], at |-> clock, motd |-> motd]]
    /\ UNCHANGED <<clock, entries, healthVars, item, storedAt, cohort>>

RecordResult(b, ok) == IF ok THEN RecordSuccess(b) ELSE RecordFailure(b)

\* A plausible mistake, for mutation checks: the packet's id is not looked at, and
\* a packet that is no status response is forwarded and stored as one.
Report_AnyPacket(c) ==
    /\ pc[c] = "report"
    /\ RecordResult(BackendOf(c), outcome[c] \in {"ok", "id"})
    /\ \/ outcome[c] \in {"ok", "id"} /\ Goto(c, "report", "forward")
       \/ outcome[c] \in {"dial", "read"} /\ LookForFallback(c, "report")
       \/ outcome[c] = "replay" /\ End(c, "report", "error")
    /\ outcome' = [outcome EXCEPT ![c] = "none"]
    /\ cohort' = [b \in Backends |->
                    IF Unhealthy(b)' /\ ~Unhealthy(b) THEN Asking(b) ELSE cohort[b]]
    /\ UNCHANGED <<clock, entries, item, answer, storedAt>>

\* recordBackendHealthFailure or recordBackendHealthSuccess.  A failed dial or
\* read may still be answered from the snapshot; a failed replay or another
\* packet id may not.
Report(c) ==
    /\ pc[c] = "report"
    /\ RecordResult(BackendOf(c), outcome[c] = "ok")
    /\ \/ outcome[c] = "ok" /\ Goto(c, "report", "forward")
       \/ outcome[c] \in {"dial", "read"} /\ LookForFallback(c, "report")
       \/ outcome[c] \in {"replay", "id"} /\ End(c, "report", "error")
    /\ outcome' = [outcome EXCEPT ![c] = "none"]
    /\ cohort' = [b \in Backends |->
                    IF Unhealthy(b)' /\ ~Unhealthy(b) THEN Asking(b) ELSE cohort[b]]
    /\ UNCHANGED <<clock, entries, item, answer, storedAt>>

\* client.Write, then the clock that SetWithFallback reads before the lock.
Forward(c) ==
    /\ pc[c] = "forward"
    /\ \/ /\ who[c] \in Cached /\ StatusCacheTTL > 0
          /\ Goto(c, "forward", "store")
          /\ storedAt' = [storedAt EXCEPT ![c] = clock]
          /\ UNCHANGED answer
       \/ /\ \/ End(c, "forward", "error")
             \/ ~(who[c] \in Cached /\ StatusCacheTTL > 0) /\ End(c, "forward", "live")
          /\ answer' = [answer EXCEPT ![c] = NoAnswer]
          /\ UNCHANGED storedAt
    /\ UNCHANGED <<clock, entries, healthVars, item, outcome, cohort>>

\* motdFallbackTTL
FallbackTTL == IF MOTDCacheEnabled THEN MOTDFallbackTTL ELSE 0

\* The entry replaces whatever the key holds, under the lock.
Store(c) ==
    /\ End(c, "store", "live")
    /\ entries' = [entries EXCEPT ![KeyOf(c)] =
                     [answer |-> answer[c],
                      freshUntil |-> storedAt[c] + StatusCacheTTL,
                      staleUntil |-> storedAt[c] + StatusCacheTTL + FallbackTTL]]
    /\ answer' = [answer EXCEPT ![c] = NoAnswer]
    /\ storedAt' = [storedAt EXCEPT ![c] = 0]
    /\ UNCHANGED <<clock, healthVars, item, outcome, cohort>>

\* GetFallbackWithOptions reads the entry ...
FallbackRead(c) ==
    /\ Goto(c, "fallbackRead", "fallbackJudge")
    /\ item' = [item EXCEPT ![c] = entries[KeyOf(c)]]
    /\ UNCHANGED <<clock, entries, healthVars, answer, storedAt, outcome, cohort>>

Usable(e) == e # NoEntry /\ clock <= e.staleUntil /\ e.answer.motd

\* ... judges it by the clock ...
FallbackJudge(c) ==
    /\ \/ Usable(item[c]) /\ End(c, "fallbackJudge", "fallback")
       \/ item[c] = NoEntry /\ End(c, "fallbackJudge", "error")
       \/ /\ item[c] # NoEntry /\ ~Usable(item[c])
          /\ Goto(c, "fallbackJudge", "fallbackEvict")
    /\ item' = [item EXCEPT ![c] = NoEntry]
    /\ UNCHANGED <<clock, entries, healthVars, answer, storedAt, outcome, cohort>>

\* ... and deletes what the key holds by then.
FallbackEvict(c) ==
    /\ End(c, "fallbackEvict", "error")
    /\ entries' = [entries EXCEPT ![KeyOf(c)] = NoEntry]
    /\ UNCHANGED <<clock, healthVars, locals, cohort>>

\* Time passes; forwarding and storing an answer take at most WriteLag.
Tick ==
    /\ clock < Horizon
    /\ \A c \in Conns : answer[c] # NoAnswer => clock < answer[c].at + WriteLag
    /\ clock' = clock + 1
    /\ IF \E b \in Backends : CircuitOpen(b) THEN Elapse ELSE UNCHANGED healthVars
    /\ UNCHANGED <<entries, pc, who, locals, result, cohort>>

Session(c) ==
    \/ GetRead(c) \/ GetJudge(c) \/ GetEvict(c) \/ Gate(c) \/ Query(c) \/ Report(c)
    \/ Forward(c) \/ Store(c) \/ FallbackRead(c) \/ FallbackJudge(c) \/ FallbackEvict(c)

Next ==
    \/ Tick
    \/ \E c \in Conns : Session(c)
    \/ \E c \in Conns, r \in Requests : Request(c, r)

Spec == Init /\ [][Next]_vars

-----------------------------------------------------------------------------
\* Types; each local is live exactly where the code holds it, and what is forwarded
\* and stored is an answer of the backend.
TypeOK ==
    /\ clock \in 0..Horizon
    /\ entries \in [Keys -> CacheEntry \cup {NoEntry}]
    /\ HealthTypeOK
    /\ pc \in [Conns -> PCs]
    /\ who \in [Conns -> Requests \cup {NoRequest}]
    /\ item \in [Conns -> CacheEntry \cup {NoEntry}]
    /\ answer \in [Conns -> Answer \cup {NoAnswer}]
    /\ storedAt \in [Conns -> 0..clock]
    /\ outcome \in [Conns -> Failures \cup {"none", "ok"}]
    /\ result \in [Conns -> Results]
    /\ cohort \in [Backends -> SUBSET Conns]
    /\ \A c \in Conns :
          /\ pc[c] = "idle" <=> who[c] = NoRequest
          /\ pc[c] = "report" <=> outcome[c] # "none"
          /\ answer[c] # NoAnswer <=> pc[c] \in {"forward", "store"} \/ outcome[c] = "ok"
          /\ pc[c] = "getEvict" => item[c] # NoEntry
          /\ item[c] # NoEntry => pc[c] \in {"getJudge", "getEvict", "fallbackJudge"}

\* A connection ends by serving the entry it read.
Serves(c, kind) == result[c] = "none" /\ result'[c] = kind

\* What a client gets from the cache was answered to the same request: the same
\* backend, host and protocol version.
OwnAnswers ==
    [][\A c \in Conns :
          Serves(c, "hit") \/ Serves(c, "fallback") => item[c].answer.of = who[c]]_vars

\* A hit is younger than StatusCacheTTL, counting from the end of the write that
\* delivered the answer to the client that asked for it.
HitsAreFresh ==
    [][\A c \in Conns :
          Serves(c, "hit") => clock - item[c].answer.at < StatusCacheTTL + WriteLag]_vars

\* A fallback is at most the snapshot's lifetime old, however the stores, the
\* evictions and the lookups of the connections interleave.
FallbacksAreRecent ==
    [][\A c \in Conns :
          Serves(c, "fallback") =>
              clock - item[c].answer.at <= StatusCacheTTL + MOTDFallbackTTL + WriteLag]_vars

\* With StatusFallbackWhenUnhealthy an unhealthy backend is left alone: the only
\* status queries on their way to it are those that passed the gate before.
UnhealthyIsLeftAlone ==
    \A b \in Backends :
        StatusFallbackWhenUnhealthy /\ Unhealthy(b) => Asking(b) \subseteq cohort[b]

\* The README's fallback_ttl: a snapshot can be used for that long.  An entry
\* leaves the cache only when that time is over, or to be replaced.
SnapshotsLast ==
    [][\A k \in Keys :
          entries[k] # NoEntry /\ entries'[k] = NoEntry =>
              clock > entries[k].staleUntil \/ ~entries[k].answer.motd]_vars

\* The README's MOTD fallback: it is used "when a backend status query fails".
\* No session whose query failed ends in an error beside a usable snapshot.
FailedQueriesFallBack ==
    [][\A c \in Conns :
          /\ outcome[c] \in Failures
          /\ MOTDCacheEnabled /\ who[c] \in Cached
          /\ Usable(entries[KeyOf(c)])
          => ~Serves(c, "error")]_vars

=============================================================================
