# Verification of ciallo in TLA+

`ciallo` (see `../src/README.md`) is a reverse proxy for Minecraft servers. It
accepts TCP connections, reads the handshake, routes it by host name and then
either answers a status request or pipes a login to the backend. This directory
holds TLA+ models of the parts of it that have state shared by concurrent
goroutines and of what it makes of its configuration and of a client's bytes, the
TLC configurations that check them, and TLAPS proofs of every safety property that
the passing runs check.

## The system

| Part | Source | State | Operations | Used by |
| --- | --- | --- | --- | --- |
| fail2ban guard | `internal/fail2ban/guard.go` | map key -> failures, window start, ban end, one mutex | `IsBanned`, `RecordFailure`, `RecordSuccess`, `Unban`, `Snapshot` | login connections, management API |
| login path | `internal/proxy/server.go` `handleLogin` | one goroutine per connection | check address, read, check player, dial, replay, pipe, record | clients |
| pipe | `internal/proxy/pipe.go` | two goroutines per session, deadlines | copy until either direction ends, close both | login path |
| health record | `internal/health/checker.go` | map backend -> healthy, two counters, circuit, one mutex | `RecordFailure`, `RecordSuccess`, `Unhealthy`, `Snapshot` | probe loop, status path, metrics |
| active health checks | `internal/health/checker.go` `Run`, `internal/probe` | one goroutine, ticker | probe the targets one by one, record | health record |
| response cache | `internal/cache/status_cache.go` | map key -> response, MOTD, two expiry times, one RW mutex | `Get`, `SetWithFallback`, `GetFallback` | status path |
| status path | `internal/proxy/server.go` `handleStatus` | one goroutine per connection | cache lookup, health gate, query, report, forward, store, fallback, ping | clients |
| pool and dialer | `internal/pool`, `internal/proxy/dialer.go` | map backend -> idle connections, closed flag | `Get`, `NeedsConn`, `Put`, `Close`, `Refill`, `Warm` | status path |
| life cycle | `cmd/mcproxy/main.go`, `Serve`, `Shutdown` | listener, context, exit code | listen, accept, signal, shut down | process |
| router | `internal/proxy/router.go` | route map, immutable | `Resolve`, `NormalizeHost` | connections |
| protocol codec | `internal/mcproto` | none | packets, VarInts, strings, handshake, login name; status JSON | all of the above |
| configuration | `internal/config` | none | defaults, validation, the constructors' defaults | `main` |
| metrics | `internal/metrics` | counters and a gauge, one mutex | one call per counter, snapshot | connections, management API |
| management API | `internal/management` | none | delete a ban, list bans and backends, scrape, readiness | operators |
| logging, probe tool, workflows | rest | files, nothing, nothing | | |

The connections are goroutines that meet only in the guard, the health record,
the cache, the pool and the metrics. Each of those has its own mutex and, but
for the metrics' reading of the health record, nobody holds two of them, so every
call is atomic but a sequence of calls is not: what is hard about this code is what happens between two calls (a ban
between the check and the dial, a fresh cache entry between the look and the
eviction, a change of a backend between a probe and its report), the clock read
outside the critical section it is used in, and counters that several actors
drive. The hazards are listed, each at its line, in `PROJECT.json`.

## The modules

`Guard` is the guard for one set of keys. An action is a critical section;
`RecordFailure(k, reading)` takes the clock reading that the code made before the
mutex, at most `Lag` old. `recorded` is a history variable: the readings of the
failures since the key was cleared by a success or an unban, or a check met its ban
after it was served. That a check deletes an entry for any other reason does not reset it: a
count lost with the entry would show. Its promises are about the history: what a ban is based on (`BanJustified`), what cannot pass
unnoticed (`BurstBanned`) and how far late readings can shorten a ban
(`BanShrinksAtMostLag`).

`Login` is `handleLogin` for several connections over one guard. `pc[c]` is the
statement a connection is at, every guard call is an action of its own, and the
two failures (or successes) of a login, under the address and under the player,
are separate actions. `since` and `reading` are the local times. Username
normalisation is the constant function `PlayerOf`; the blank name maps to
`NoPlayer`, under which nothing is recorded. `Login` implements `Guard`: the run
`login` checks the specification of `Guard` as a property (`GuardSpec`).

`Health` is the record of each backend. The counters saturate at their
thresholds, with which alone the code compares them, and `CircuitOpenUntil` is
the time left until it. `recent` is the history of results.

`Prober` extends `Health` with the goroutine that probes the targets in order and
with status queries that report to the same record. A probe or query and the
recording of its result are two steps. Backends may change between four ways
to behave at any time: up, down, too long a status for the probe's parser,
too long a packet for the status path's limit. Its clients' side is deliberately
small: `Status` has the whole of it.

`Status` extends `Health` with `handleStatus` for several connection slots, each
used again and again. A cache lookup is three steps, as the code has three
stretches of execution: the read under the lock, the judgement by the clock
outside it, the eviction under the lock again. Between the write to the client
and the store the clock is read, so `Store` uses a reading of the past. A
response is what it answers (`of`), when the backend gave it (`at`) and whether a
MOTD could be extracted from it. The ping after an answer touches no shared
state and is left out. The four ways in which a query fails are told apart
because the code treats them differently.

`Pool` is the pool with the dialer's goroutines: queries, background refills and
the main goroutine, which warms the pool and closes it. A connection is an identity
that is reused once closed; it is `open` on this side and `alive` on the
backend's. A dial, and the put of what it got, are steps of their own. A dial may
fail at any time, so that a backend's being down is not a state; its crash is an
event that kills the connections to it.

`Pipe` is `ProxyBidirectional` for one session. The bytes of a peer are numbered, a
read takes some of them, a write may take part of what was read. Peers end their
stream or reset the connection; deadlines may pass whenever there is nothing to read (`ReadIdles`) or the
other side does not take what is written. `Stream` is what each direction promises, and `Pipe`
implements it twice. `Lifecycle` extends `Pipe` with the goroutines of the process:
`main`, the proxy's server, its goroutine that waits for the context, the
management server and the handler of one connection. All stop when `exit` is set.

`Lifecycle`'s `Ready` is what `/readyz` answers: whether `s.ln` has been set.

`Codec` is `internal/mcproto` as functions on sequences of bytes. A read looks at the
front of a sequence and says how many bytes it has consumed. The loops over bytes are
written as what they compute (the first byte without the continuation bit, the sum of
the groups with the fifth cut to 32 bits), without recursion, so that theorems can
be proved about them. `Config` adds the configuration: a file is a record
of the numbers and words it sets and of its routes; `ApplyDefaults`, `Validate`,
`Options` (what the constructors make of the numbers) and `Resolve` are functions of
it. `Ingress` is one process with one connection over them: load the file, read
the handshake, resolve, read the login or the status request, dial, replay what is held,
pipe, ping. What the guard, the health record and the cache decide, a dial and a
write is left open there, as it is the matter of `Login`, `Status` and `Pool`; the
addresses those modules take as given are the ones `Ingress` computes.

`Metrics` is the recorder with the handlers that call it, in the order of
`server.go`, the probe loop, and scrapes. Both mutexes are variables, the recorder's (`mu`) and
the health record's (`hmu`), as a scrape holds the first while it waits for the second. It is
the only place where two are held; every other critical section of the recorder is one step.

Each `X_proofs` holds the theorems about `X`; those about a part stand with the whole it is part of:
`Health` in `Prober_proofs`, `Pipe` in `Lifecycle_proofs`, `Codec` and `Config` in `Ingress_proofs`. `MCGuard`, `MCLogin`, `MCProber`,
`MCStatus`, `MCPool`, `MCLifecycle`, `MCIngress` and `MCMetrics` instantiate the modules
for TLC.
Definitions with an underscore suffix such as `AfterFailure_FromStart` are
plausible mistakes; each property is broken by one of them under its run's own
configuration, so that no property holds for free. Each changes what the program would do:
an entry that a check deletes too early or with its count, a session that is reported
as a success whatever came of it, a failure that leaves the run of successes
standing, a response of any packet id that is forwarded, a health record that calls the
metrics under its own mutex.

## The runs

| Run | Shows |
| --- | --- |
| `guard` | the guard's promises under all orders of calls, readings up to one tick late |
| `login` | bans admit only connections checked before, take distinct failed logins of the same route and client, and `Login` implements `Guard` |
| `login_ban` | violated: a ban does not last its duration when an older session of the client ends well |
| `prober` | the record follows runs of results, backends are not blamed for each other, recovery and detection are certain under fairness |
| `prober_long` | violated: a status that the proxy can forward but the probe cannot parse keeps the backend cut off |
| `status` | hits and fallbacks answer the same request and are never too old, an unhealthy backend is left alone |
| `status_snapshots` | violated: an eviction deletes the entry that replaced the one it judged |
| `status_fallback` | violated: two of the ways a query fails never use the snapshot |
| `pool` | no connection is lost or shared, the limit and the closing hold against refills under way, only old connections are dropped, dead ones are given out once |
| `lifecycle` | the process ends when told and only for a cause, a session ends when one side does, counts are exact, each direction is a stream |
| `ingress` | a backend is sent a beginning of what the client sent, byte for byte; whoever names a route's host gets its backend; an accepted file satisfies what the other modules assume |
| `metrics` | a scrape is true of one moment, over both mutexes; nobody waits for ever for either |

A `violated` run checks one sentence of the README of the program and finds a
behaviour of the code that contradicts it; `PROJECT.json` quotes both.

Three more sentences of it, and one thing that it does not say, deserve a remark.
`routes[].hosts` (README.md:68) are said to be routed to the route's backend. A route's hosts are
normalised once (`router.go:14`), a client's host twice (`server.go:170`, `router.go:27`), and
`NormalizeHost` takes one dot off the end each time: the accepted route `a..` is kept as `a.`,
and a client that gives `a..` is looked up as `a`. `OwnRoute` therefore asks for a name that is
`Stable`; without this condition TLC finds it violated by that route, a case of `ingress`. `circuit_breaker_ttl` (README.md:86)
limits nothing: `CircuitAddsNothing` says that an open circuit always comes with an
unhealthy backend, which keeps status queries away whether the circuit is open or not.
And a session ends for both sides when either direction does, so that a
backend's last bytes are lost when the client closes first: `TwoStreams` promises
a prefix, and no document promises more. The exit status is fixed by no document
either: after a signal it is 0 or 1, as main's close of the listener or the other one
comes first, and 0 after the failure of the management server. `ExitHasCause` admits these.

### Bounds

Times are small numbers of ticks: what matters is only the order of a reading,
an expiry and the present, and one or two ticks per interval give every order,
the boundary cases (`<=` against `<`) included. `Horizon` ends the clock; it is
chosen so that each run can pass the longest interval in it at least once.
`MaxRecorded` bounds the guard's history to enough failures for a dense burst.
`MaxFailures = 2` (`login`; `guard` has 3) and thresholds of 2 are the smallest values for which a run of
results differs from a single one; the configuration of the program ships with
a `failure_threshold` of 2 as well. Three logins are enough for two to impose a
ban and a third to be caught between check and dial. Two status slots are enough for
every interleaving of one lookup with one store; slots are reused. In `status`
the thresholds are 1, as the record's own counting is the matter of `prober`.
`WriteLag` bounds the time from a backend's answer to the end of its forwarding. The code
has no such bound, as the write to the client has no deadline: the ages that
`HitsAreFresh` and `FallbacksAreRecent` promise are relative to it.
In `pool` two queries, their own refills and one in the background fill two places:
three refills may have found the same room, and an old connection may lie beside a
usable one when `NeedsConn` comes. Seven connections are as many as can be open in
it. Keys of the pool do not interact, so one backend is enough. Queries and
refills are interchangeable, hence the symmetry; the run has no liveness property.
In `lifecycle` one connection carries one byte from the client and two from the
backend: two are needed for a partial write and for an order.
In `ingress` each case is a file with a stream that differs in one respect from a plain
one: a spelling of a VarInt or of a host, a length at the packet limit and one
beyond it, a number at a boundary, a name that two routes share, a host that is not
stable under normalisation. The limit of a packet is 24 bytes, so that the streams
are short; nothing in the code depends on its value. In `metrics` two connections
and one scrape interleave while the probe loop reports once, each at either mutex; counters only grow, so
that `MaxConns` and `MaxProbes` end the run, and one scrape slot is used again.
Deadlock is checked except in `lifecycle` and `ingress`, where the
process or the connection ends; the clock of `Guard`, `Login` and `Status` ends, but their other actions go on.

### Fairness

`prober`, `prober_long`, `lifecycle` and `metrics` need it. In `Prober`, `FairSpec` assumes that the probe loop
goes on (`WF_vars(Loop)`: the ticker fires, a probe ends by its deadline,
`CheckOnce` has no other wait) and that a query that has started is answered or
times out and is then recorded. It assumes nothing of clients, of backends or of
the cancellation. Weak fairness is enough because none of those steps is
ever disabled by another goroutine.

In `Lifecycle`, `FairSpec` assumes that main, the proxy's goroutine outside `Accept`,
the goroutine that closes the listener, the management's failure path and each copying
goroutine go on: none of them waits for anybody but for the context, the deadline of a write
or, in `once.Do`, the other copying goroutine, which is not blocked then. A copying goroutine
goes on (`GoesOn`) when its read has bytes, an end or a closed connection to report. That the deadline of a
read passes (`ReadIdles`) is possible but not assumed: the goroutine that waits for a silent
peer is woken by the close of the other, and `SessionEnds` fails if one of the connections
is forgotten. Nothing is assumed of clients, signals, or which errors happen.

In `Metrics`, `FairSpec` assumes strong fairness of each call of a handler and of each
scrape up to the copy, and that the probe loop, once in its critical section, leaves it: another goroutine may take the mutex in between again and again, and
Go's `sync.Mutex` hands itself to a waiter that has waited for a millisecond. Nothing is assumed of
the clients, nor of whoever reads a scrape's answer.

## The proofs

A theorem holds for every number of keys, backends, connections or bytes and all
thresholds, durations and lags that the named assumptions admit; TLC evaluates those
assumptions in the runs. `GuardAssumption`, `HealthAssumption`, `PoolAssumption` ask for
positive options, which is what `AcceptedFits` proves of every file that is accepted.
`PoolAssumption`, `LoginAssumption` and `MetricsAssumption` have finite sets of connections, `StatusAssumption` says that a request is a
backend, a host and a version, `ProberAssumption` that the targets are the backends, each once, `CasesAssumption` that a client sends bytes,
`PipeAssumption` that the copy buffer is not empty. Those with a null value say that it
is none of the values.

`Guard`: `BanJustified` and `BurstBanned` are not inductive, as the entry must be
tied to the history. The invariant `IInv` says that the count and the window start
are those of the run of failures at the end of the history, that nothing is
counted twice, and that the ban's end follows from the failure that imposed it.
Each action preserves it (`AfterFailure` by cases on whether the window is open and
whether the limit is reached); `BanShrinksAtMostLag` follows from it.

`Login`: the invariant is `TypeOK`, `InOrder` (a connection records a failure only if it
was judged one), `NoAdmissionWhileBanned` and `Tally`: for each key, what is recorded is
at most what the connections at or past their recording step account for. From
the last follows `BanNeedsDistinctLogins`, by the cardinality of that set of connections.
`LoginUsesGuard` is the refinement: every step is a step of `Guard` or leaves the guard
alone, so that the theorems about `Guard` hold of the login path. They are not restated
there: `Login` takes `Guard` by `INSTANCE` (its lag is the horizon, its history as long as
there are connections), and TLAPS cannot use a theorem through an instance.

`Health`: `IInv` says that the two counters are the lengths of the runs that
end the history of results (`CountsRuns`) and that the state agrees with them. The
step is `RunGrows`: after a result x, the last n results are x exactly when the
result is x and the n - 1 before it were. From `IInv` follow the types, the
redundancy of the circuit (`CircuitIsRedundant`), and both directions of the
hysteresis (`StateFollowsRuns`, `FlipsNeedRuns`).

`Prober`: `LoopTypes` says that what is left of a round is an end of the list of targets, so
that every report goes to a backend, and `Owned` that each failure on its way to the
record is one of the backend it goes to. With `IInv` they give `NoBlameWithoutFailure`
(`NeighboursAreNotBlamed`) and that the loop implements `Health` (`ProberUsesHealth`),
for any number of targets, none included. `HysteresisBesideProbes` puts it to use: `Prober`
extends `Health`, so that its theorems hold of `Prober`'s own specification.

`Status`: `Slots` says, of each place in `handleStatus`, which locals are live there and
that an entry that is held belongs to the key and is young enough, and that an answer
on its way is at most `WriteLag` old; `Cache` says the same of the entries. An
entry is judged when it may have been replaced already, which is why the invariant must speak
of the held copy and not of the map. `AnswersAreOwn` needs in addition that a key
determines its request (`KeyIsRequest`). `UnhealthyIsLeftAlone` is inductive beside the
types. `StatusUsesHealth` is the refinement that carries the theorems about `Health` over;
`Status_proofs` itself needs only the types of the record, which it proves for itself.

`Pool`: the invariant is `TypeOK`, `Roles` (what each place says of its goroutine),
`Places` (every open connection is in exactly one place: `Owned`, `Apart`, and under its
own backend: `Right`), `IdleBounded` and `Owed` (of the connections that wait for queries at
most as many are dead as may still mislead one). The limit is checked long before a
connection is put; it holds because `Put` checks again. For `MisledBounded`,
`WaitingLead` says that the connections that wait to be found dead are those that lead
to the crashed backend and are not held. What the loop of `KeptOf`, a recursive function,
keeps is a matter of induction over the list, which is done by the
smallest counterexample (`KeptLoop`, `KeptItems`), as the library's induction theorems cannot be
instantiated.

`Pipe` and `Lifecycle`: `Causes` ties what each goroutine has been told to the
context (`ExitHasCause`, `ReadyMeansServing`). `Streams` says, for each direction, that
the bytes are numbered: those handed on come first, the buffer's next, the wire's next, and that
together they are all that was sent unless the sender reset the connection or the
direction has ended (`Adds`). Each event is a lemma about one direction (`OrderSent`,
`OrderRead`, `OrderWritten`, `OrderReset`, `OrderFin`); `SessionIsTwoStreams` is the
refinement, for every buffer size, partial write and number of bytes. `Ending` says that
the `sync.Once` tells which connections are closed and belongs to the one goroutine that
runs it (`SessionsCloseBoth`). Of `SessionEnds`, which is liveness, it gives the part without
fairness: until both goroutines are done one of them can go on (`SessionsCanGoOn`), and
what each direction has left falls with each of its steps, and rises only when a source
that has neither ended nor been closed sends (`SessionsRunOut`).

`Codec` has theorems about its functions, for all sequences of bytes and all limits.
`VarIntRoundTrip`, `PacketRoundTrip` and `HandshakeRoundTrip`: what is encoded is read back,
whatever follows. `PacketsAreVerbatim`: the raw bytes of a packet are those that were
consumed, in whatever spelling; no spelling is shorter than the encoder's
(`EncodingsAreShortest`), and longer ones are accepted, which is why the code keeps the bytes. `VarIntsWaitOnlyForBytes`
and `PacketsWaitOnlyForBytes`: a read that does not run out of bytes gives what it would give
if more had come, so that how a stream is cut into segments cannot matter; `Ingress`
relies on it where a handler reads once its packet has `Arrived`. They rest on a description of a read by the
place of its last byte (`ReadEnds`), on its value as a sum of groups (`GroupValues`, `GroupRange`) and
on `Splits`, `Pieces` and `CutAhead`, which take joined sequences apart.

The host: `HostsIgnoreCase` commutes lower case with each stage of
`NormalizeHost`, as the bytes that the stages look for are not letters (`MarksStay`).
`PlainHostsAreStable` shows that ordinary names satisfy the hypothesis of `OwnRoute`, and
`MarkersAreIgnored` that what a modded client appends after a NUL does not change the route.

`Ingress`: `Loaded` says that the numbers and the backend are those of the
file and the address; from it follow `AcceptedFits` and `RoutesAreOwn`. `Flow` says that
what was sent on, what is held and what is unread are together the stream, and what
is held at each place; it is preserved because packets are verbatim, and gives `StreamIsKept`.

`Metrics`: the invariant has three parts. `Types` says which rest of its script each
place of a handler may have, and that each of the two mutexes is held exactly by whoever is between
taking and releasing it. `Accounts` balances the books: the gauge is the number of handlers, and each pair of counters that
belong together differs by no more than the handlers that still owe the second call (`Owed`, the
cardinality of those whose next call it is). `Snapped` says that what a scrape read
first, the gauge and then the health record, still fits when it copies the rest. A
handler's step changes each `Owed` by at most one, which the facts about finite sets give; the recorder's
mutex keeps the counters, and only them, still between the readings. `GaugeIsExact` and
`ScrapesTellTheTruth` follow, the latter because the handlers that owe a call are in the gauge.

### What is left to TLC

Liveness (`Recovers`, `Detects`, `StopsWhenTold`, `SessionEnds`, `CallsReturn`): it needs
fairness, hence ENABLED, which TLAPS cannot reason about here; two theorems on the end
of a session, `SessionsCanGoOn` and `SessionsRunOut`, speak of guards and of a measure instead. The sentences that the
`violated` runs refute are false, and nothing is proved of them.

## Not modelled

Logging, the probe tool and the workflows. YAML, and the switches of the configuration
that are on or off (nothing is derived from them); a negative timeout or TTL, which
`Validate` lets pass and no document gives a meaning. What the proxy
writes to a client by itself (disconnects, fallback statuses, pongs), as no
decision depends on it. The JSON of a status, but for the limit on its size that
`Prober` has. The text and the label values of a scrape; the lists of bans and backends and
`/healthz`, which only read. The ping's payload. Durations of calls, hence a second dial by a
refill that a client waits for (`dialer.go:45`).
Snapshots of the guard and the record only read. Backends that close single idle
connections by their own timeout are not in `Pool`; `MisledBounded` is about
crashes. Logins never take from the pool: `Dial` does not refer to it.

A sentence of the program's README that no run refutes but `BurstBanned`
qualifies: `fail2ban.window` is called a "rolling window" (README.md:90), while the
window of the code tumbles, so that up to `2*max_failures - 2` failures may lie
within one window's length without a ban.

## Plan

Done: the models of every part but those above, with `Login` refined to `Guard`,
`Status` and `Prober` to `Health`, `Pipe` to `Stream`, and the proofs. What is left:

1. Backends that close idle connections by their own timeout, in `Pool`.
2. The conversions that `Codec` has beside packets and hosts: what `ReadString` refuses.
