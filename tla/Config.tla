------------------------------- MODULE Config -------------------------------
(***************************************************************************)
(* The configuration, src/internal/config, with what the constructors of   *)
(* the guard, the pool, the health checker and the server make of it, and  *)
(* the router that is built from its routes (src/internal/proxy/router.go).*)
(*                                                                         *)
(* A file is a record: the numbers it sets (sizes, counts, and durations   *)
(* in seconds), the words it sets, and its routes.  Switches that are on   *)
(* or off are left out: nothing is derived from them.                      *)
(***************************************************************************)
EXTENDS Codec, FiniteSets

\* Default(), the numbers.
Defaults ==
    [handshake |-> 3, backendDial |-> 3, idle |-> 600, shutdown |-> 10,
     statusTTL |-> 5, fallbackTTL |-> 300, playersMax |-> 0,
     interval |-> 10, timeout |-> 3, failureThreshold |-> 2, successThreshold |-> 1,
     probeProtocol |-> 772, circuitBreakerTTL |-> 30,
     maxFailures |-> 5, window |-> 60, banDuration |-> 600, earlyDisconnect |-> 5,
     maxIdlePerBackend |-> 8, idleTimeout |-> 30,
     maxSizeMB |-> 100, maxBackups |-> 7, maxAgeDays |-> 14,
     maxHandshakeSize |-> 65536, maxStatusResponseSize |-> 262144]

Numbers == DOMAIN Defaults

\* Default(), the words that Validate looks at.
DefaultWords == [level |-> "info", format |-> "text", output |-> "stdout", path |-> ""]

GuardNumbers == {"maxFailures", "window", "banDuration", "earlyDisconnect"}
HealthNumbers == {"interval", "timeout", "failureThreshold", "successThreshold",
                  "probeProtocol", "circuitBreakerTTL"}
ServerNumbers == {"handshake", "backendDial", "idle", "shutdown", "maxHandshakeSize",
                  "maxStatusResponseSize", "statusTTL", "fallbackTTL"}

-----------------------------------------------------------------------------
\* yaml.Unmarshal over Default(), then ApplyDefaults: a zero counts as not set.
ApplyDefaults(file) ==
    [f \in Numbers |->
        IF f \in DOMAIN file.numbers /\ file.numbers[f] # 0 THEN file.numbers[f] ELSE Defaults[f]]

ApplyWords(file) ==
    [w \in DOMAIN DefaultWords |->
        IF w \in DOMAIN file.words /\ file.words[w] # "" THEN file.words[w] ELSE DefaultWords[w]]

validateAddr(addr) ==
    /\ SplitsHostPort(addr)
    /\ TrimSpace(HostOf(addr)) # << >>
    /\ TrimSpace(PortOf(addr)) # << >>

\* The hosts of all routes in order, each with its route's backend.
HostsOf(routes) ==
    UNION {{<<i, j>> : j \in DOMAIN routes[i].hosts} : i \in DOMAIN routes}

HostAt(routes, ij) == routes[ij[1]].hosts[ij[2]]

\* Plausible mistake, for mutation checks: spellings are compared as written.
ValidRoutes_RawDuplicates(routes, default) ==
    /\ default # << >> \/ routes # << >>
    /\ default # << >> => validateAddr(default)
    /\ \A i \in DOMAIN routes : validateAddr(routes[i].backend)
    /\ \A a \in HostsOf(routes) :
          /\ NormalizeHost(HostAt(routes, a)) # << >>
          /\ \A b \in HostsOf(routes) : HostAt(routes, a) = HostAt(routes, b) => a = b

\* No host is empty or given twice, in any spelling.
ValidRoutes(routes, default) ==
    /\ default # << >> \/ routes # << >>
    /\ default # << >> => validateAddr(default)
    /\ \A i \in DOMAIN routes : validateAddr(routes[i].backend)
    /\ \A a \in HostsOf(routes) :
          /\ NormalizeHost(HostAt(routes, a)) # << >>
          /\ \A b \in HostsOf(routes) :
                NormalizeHost(HostAt(routes, a)) = NormalizeHost(HostAt(routes, b)) => a = b

validateBackendHealth(n) == \A f \in HealthNumbers : n[f] > 0

\* Words are taken as TrimSpace and ToLower leave them.
validateLogging(n, w) ==
    /\ w.level \in {"debug", "info", "warn", "warning", "error"}
    /\ w.format \in {"text", "json"}
    /\ w.output \in {"stdout", "stderr", "file"}
    /\ w.output = "file" => w.path # ""
    /\ n.maxSizeMB > 0 /\ n.maxBackups >= 0 /\ n.maxAgeDays >= 0

\* Plausible mistake, for mutation checks: a threshold may be zero or less.
Validate_AnyHealth(file) ==
    LET n == ApplyDefaults(file)
    IN  /\ ValidRoutes(file.routes, file.default)
        /\ n.maxHandshakeSize > 0 /\ n.maxStatusResponseSize > 0
        /\ n.playersMax >= 0
        /\ validateLogging(n, ApplyWords(file))

\* Of the timeouts, the cache's lifetimes, the guard and the pool nothing is asked.
Validate(file) ==
    LET n == ApplyDefaults(file)
    IN  /\ ValidRoutes(file.routes, file.default)
        /\ n.maxHandshakeSize > 0 /\ n.maxStatusResponseSize > 0
        /\ n.playersMax >= 0
        /\ validateBackendHealth(n)
        /\ validateLogging(n, ApplyWords(file))

\* fail2ban.New and pool.New replace what is not positive, health.New and
\* NewServerWithGuard only what is zero.
Options(n) ==
    [f \in Numbers |->
        CASE f = "maxIdlePerBackend" /\ n[f] <= 0 -> 1
          [] f \in GuardNumbers \cup {"idleTimeout"} /\ n[f] <= 0 -> Defaults[f]
          [] f \in HealthNumbers \cup ServerNumbers /\ n[f] = 0 -> Defaults[f]
          [] OTHER -> n[f]]

-----------------------------------------------------------------------------
\* NewStaticRouter fills a map route by route, host by host: the last entry of a
\* host stands.
Entries(routes, host) ==
    {ij \in HostsOf(routes) : NormalizeHost(HostAt(routes, ij)) = host /\ host # << >>}

Later(a, b) == a[1] > b[1] \/ (a[1] = b[1] /\ a[2] >= b[2])

RouteMap(routes, host) ==
    routes[(CHOOSE a \in Entries(routes, host) :
               \A b \in Entries(routes, host) : Later(a, b))[1]].backend

\* Resolve normalises the host it is given; << >> is no backend.
Resolve(file, host) ==
    LET h == NormalizeHost(host)
    IN  IF Entries(file.routes, h) # {} THEN RouteMap(file.routes, h) ELSE file.default

\* Backends, which the pool is warmed with, and the addresses of BuildTargets,
\* which the health checker watches: every address once.
Backends(file) ==
    {file.routes[i].backend : i \in DOMAIN file.routes} \cup ({file.default} \ {<< >>})

FirstHost(route) == IF route.hosts = << >> THEN << >> ELSE NormalizeHost(route.hosts[1])

\* The name under which BuildTargets and health.New have a backend probed.
ProbeHost(file, backend) ==
    LET R     == {i \in DOMAIN file.routes : file.routes[i].backend = backend}
        named == {i \in R : FirstHost(file.routes[i]) # << >>}
    IN  IF named # {} /\ (file.probeHost = << >> \/ First(R) \in named)
        THEN FirstHost(file.routes[First(named)])
        ELSE IF file.probeHost # << >> THEN file.probeHost ELSE HostOf(backend)
=============================================================================
