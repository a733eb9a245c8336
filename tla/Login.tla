------------------------------- MODULE Login -------------------------------
(***************************************************************************)
(* Login connections of the proxy, handleLogin in                          *)
(* src/internal/proxy/server.go, running concurrently over one guard.      *)
(*                                                                         *)
(* Each connection is a goroutine.  It asks the guard about its address,   *)
(* reads Login Start, asks about the player, dials the backend, replays    *)
(* the packets, pipes until either side ends, and then records the login   *)
(* as a failure or a success under both keys.  Nothing is held between two *)
(* calls of the guard, so other connections, the management API and the    *)
(* clock may act between any two steps.                                    *)
(*                                                                         *)
(* The guard is module Guard: its operators are the calls made here, and   *)
(* this module implements its specification (GuardSpec).                   *)
(***************************************************************************)
EXTENDS Integers, Sequences, FiniteSets

CONSTANTS
    Conns,            \* login connections, each used once
    Routes,           \* route keys: normalised handshake hosts
    IPs,              \* client addresses, as remoteIP prints them
    Names,            \* usernames as Login Start carries them
    PlayerOf,         \* normalize: lower case, trimmed, or NoPlayer when blank
    NoPlayer,         \* the blank value, under which the guard records nothing
    EarlyDisconnect,  \* Options.EarlyDisconnect
    Enabled, MaxFailures, Window, BanDuration, Horizon    \* see Guard

Players == {PlayerOf[n] : n \in Names} \ {NoPlayer}

\* A plausible mistake, for mutation checks: bans shared by all routes.
IPKey_Unrouted(route, ip) ==
    [route |-> CHOOSE r \in Routes : TRUE, kind |-> "ip", value |-> ip]

IPKey(route, ip) == [route |-> route, kind |-> "ip", value |-> ip]
PlayerKey(route, name) == [route |-> route, kind |-> "player", value |-> PlayerOf[name]]

Keys == [route : Routes, kind : {"ip"}, value : IPs]
          \cup [route : Routes, kind : {"player"}, value : Players]

ASSUME LoginAssumption ==
    /\ PlayerOf \in [Names -> Players \cup {NoPlayer}]
    /\ NoPlayer \notin Players
    /\ IsFiniteSet(Conns)
    /\ EarlyDisconnect \in Nat
    /\ Enabled \in BOOLEAN
    /\ {MaxFailures, Window, BanDuration, Horizon} \subseteq Nat \ {0}

VARIABLES
    clock, entries, recorded,  \* the guard
    pc,        \* where each connection is in handleLogin
    who,       \* route, address and username of each connection
    since,     \* loginObserved, then the start of the pipe; 0 when not live
    reading,   \* the clock RecordFailure read before the mutex; 0 when not live
    action,    \* LoginResult.Fail2BanAction
    early,     \* history: connections judged early failures
    cohort     \* history: per key, the connections that were past its check
               \* when its present ban was imposed

guardVars == <<clock, entries, recorded>>
vars == <<clock, entries, recorded, pc, who, since, reading, action, early, cohort>>

\* A reading may be as old as the whole run; a key records each login once.
G == INSTANCE Guard WITH Lag <- Horizon, MaxRecorded <- Cardinality(Conns)

PCs == {"accept", "ipCheck", "readLogin", "playerCheck", "observe", "dial", "replay",
        "pipe", "ipClock", "ipFail", "playerClock", "playerFail",
        "ipSuccess", "playerSuccess", "done"}

KIP(c) == IPKey(who[c].route, who[c].ip)
KPlayer(c) == PlayerKey(who[c].route, who[c].name)
HasPlayer(c) == PlayerOf[who[c].name] # NoPlayer

AfterIPCheck == {"readLogin", "playerCheck", "observe", "dial", "replay", "pipe"}
AfterPlayerCheck == {"observe", "dial", "replay", "pipe"}

\* Connections the guard has admitted as far as key k is concerned, and that
\* have not ended: they use the backend or are on their way to it.
Admitted(k) ==
    {c \in Conns : \/ pc[c] \in AfterIPCheck /\ k = KIP(c)
                   \/ pc[c] \in AfterPlayerCheck /\ HasPlayer(c) /\ k = KPlayer(c)}

Banned(k) == Enabled /\ G!BannedAt(entries[k], clock)

-----------------------------------------------------------------------------
Init ==
    /\ G!Init
    /\ pc = [c \in Conns |-> "accept"]
    /\ who \in [Conns -> [route : Routes, ip : IPs, name : Names]]
    /\ since = [c \in Conns |-> 0]
    /\ reading = [c \in Conns |-> 0]
    /\ action = [c \in Conns |-> "none"]
    /\ early = {}
    /\ cohort = [k \in Keys |-> {}]

Goto(c, from, to) ==
    /\ pc[c] = from
    /\ pc' = [pc EXCEPT ![c] = to]

Return(c, from, result) ==
    /\ Goto(c, from, "done")
    /\ action' = [action EXCEPT ![c] = result]

\* Plausible mistakes, for mutation checks.
CheckPlayer_Skipped(c) ==
    /\ Goto(c, "playerCheck", "observe")
    /\ UNCHANGED <<guardVars, who, since, reading, action, early, cohort>>

SucceedIP_ResetsCount(c) ==
    /\ Goto(c, "ipSuccess", IF HasPlayer(c) THEN "playerSuccess" ELSE "done")
    /\ entries' = [entries EXCEPT ![KIP(c)].failures = 0]
    /\ UNCHANGED <<clock, recorded, who, since, reading, action, early, cohort>>

\* handleConn has read the handshake and resolved the route.
Accept(c) ==
    /\ Goto(c, "accept", "ipCheck")
    /\ UNCHANGED <<guardVars, who, since, reading, action, early, cohort>>

\* Reading Login Start fails or times out: nothing is recorded.
ReadLogin(c) ==
    /\ \/ Goto(c, "readLogin", "playerCheck")
       \/ Goto(c, "readLogin", "done")
    /\ UNCHANGED <<guardVars, who, since, reading, action, early, cohort>>

\* isBanned(route, "ip", ip)
CheckIP(c) ==
    /\ G!IsBanned(KIP(c))
    /\ \/ Banned(KIP(c)) /\ Return(c, "ipCheck", "ip_banned")
       \/ ~Banned(KIP(c)) /\ Goto(c, "ipCheck", "readLogin") /\ UNCHANGED action
    /\ UNCHANGED <<who, since, reading, early, cohort>>

\* username != "" && isBanned(route, "player", username)
CheckPlayer(c) ==
    /\ IF HasPlayer(c) THEN G!IsBanned(KPlayer(c)) ELSE UNCHANGED guardVars
    /\ \/ /\ HasPlayer(c) /\ Banned(KPlayer(c))
          /\ Return(c, "playerCheck", "player_banned")
       \/ /\ ~(HasPlayer(c) /\ Banned(KPlayer(c)))
          /\ Goto(c, "playerCheck", "observe")
          /\ UNCHANGED action
    /\ UNCHANGED <<who, since, reading, early, cohort>>

\* loginObserved := time.Now()
Observe(c) ==
    /\ Goto(c, "observe", "dial")
    /\ since' = [since EXCEPT ![c] = clock]
    /\ UNCHANGED <<guardVars, who, reading, action, early, cohort>>

\* A failed dial counts against the backend in the metrics, not the client.
Dial(c) ==
    /\ \/ Goto(c, "dial", "replay") /\ UNCHANGED since
       \/ Goto(c, "dial", "done") /\ since' = [since EXCEPT ![c] = 0]
    /\ UNCHANGED <<guardVars, who, reading, action, early, cohort>>

\* time.Since(since) <= EarlyDisconnect
Early(c) == clock - since[c] <= EarlyDisconnect

\* A write of the handshake or of Login Start fails: recordEarlyLoginFailure.
\* The result says record_failure whether or not the guard is told.
ReplayFails(c) ==
    /\ IF Enabled /\ Early(c)
       THEN Goto(c, "replay", "ipClock") /\ early' = early \cup {c}
       ELSE Goto(c, "replay", "done") /\ UNCHANGED early
    /\ since' = [since EXCEPT ![c] = 0]
    /\ action' = [action EXCEPT ![c] = "record_failure"]
    /\ UNCHANGED <<guardVars, who, reading, cohort>>

ReplaySucceeds(c) ==
    /\ Goto(c, "replay", "pipe")
    /\ since' = [since EXCEPT ![c] = clock]
    /\ UNCHANGED <<guardVars, who, reading, action, early, cohort>>

\* A plausible mistake, for mutation checks: record_success is assigned after the
\* branches, so a recorded failure is reported as a success.
EndPipe_ReportsSuccess(c) ==
    \E backendSpoke \in BOOLEAN :
        /\ IF Enabled /\ Early(c) /\ ~backendSpoke
           THEN Goto(c, "pipe", "ipClock") /\ early' = early \cup {c}
           ELSE Goto(c, "pipe", "ipSuccess") /\ UNCHANGED early
        /\ action' = [action EXCEPT ![c] = "record_success"]
        /\ since' = [since EXCEPT ![c] = 0]
        /\ UNCHANGED <<guardVars, who, reading, cohort>>

\* ProxyBidirectional returns; shouldRecordFailure judges the session.
\* backendSpoke is stats.BackendToClient # 0.
EndPipe(c) ==
    \E backendSpoke \in BOOLEAN :
        /\ IF Enabled /\ Early(c) /\ ~backendSpoke
           THEN /\ Goto(c, "pipe", "ipClock")
                /\ early' = early \cup {c}
                /\ action' = [action EXCEPT ![c] = "record_failure"]
           ELSE /\ Goto(c, "pipe", "ipSuccess")
                /\ action' = [action EXCEPT ![c] = "record_success"]
                /\ UNCHANGED early
        /\ since' = [since EXCEPT ![c] = 0]
        /\ UNCHANGED <<guardVars, who, reading, cohort>>

\* RecordFailure: now := g.now(), before the mutex ...
ReadClock(c) ==
    /\ \/ Goto(c, "ipClock", "ipFail")
       \/ Goto(c, "playerClock", "playerFail")
    /\ reading' = [reading EXCEPT ![c] = clock]
    /\ UNCHANGED <<guardVars, who, since, action, early, cohort>>

\* ... and the rest under it.
Fail(c, k) ==
    /\ G!RecordFailure(k, reading[c])
    /\ reading' = [reading EXCEPT ![c] = 0]
    /\ cohort' = [cohort EXCEPT ![k] =
                    IF G!BannedAt(entries'[k], clock) /\ ~Banned(k) THEN Admitted(k) ELSE @]
    /\ UNCHANGED <<who, since, action, early>>

\* A plausible mistake, for mutation checks: the player's failure starts over.
FailPlayer_Again(c) ==
    /\ Goto(c, "playerFail", "ipClock")
    /\ Fail(c, KPlayer(c))

FailIP(c) ==
    /\ Goto(c, "ipFail", IF HasPlayer(c) THEN "playerClock" ELSE "done")
    /\ Fail(c, KIP(c))

FailPlayer(c) ==
    /\ Goto(c, "playerFail", "done")
    /\ Fail(c, KPlayer(c))

SucceedIP(c) ==
    /\ Goto(c, "ipSuccess", IF HasPlayer(c) THEN "playerSuccess" ELSE "done")
    /\ G!RecordSuccess(KIP(c))
    /\ UNCHANGED <<who, since, reading, action, early, cohort>>

SucceedPlayer(c) ==
    /\ Goto(c, "playerSuccess", "done")
    /\ G!RecordSuccess(KPlayer(c))
    /\ UNCHANGED <<who, since, reading, action, early, cohort>>

\* DELETE /fail2ban/bans
Unban(k) ==
    /\ G!Unban(k)
    /\ UNCHANGED <<pc, who, since, reading, action, early, cohort>>

Tick ==
    /\ G!Tick
    /\ UNCHANGED <<pc, who, since, reading, action, early, cohort>>

Session(c) ==
    \/ Accept(c) \/ CheckIP(c) \/ ReadLogin(c) \/ CheckPlayer(c) \/ Observe(c) \/ Dial(c)
    \/ ReplayFails(c) \/ ReplaySucceeds(c) \/ EndPipe(c) \/ ReadClock(c)
    \/ FailIP(c) \/ FailPlayer(c) \/ SucceedIP(c) \/ SucceedPlayer(c)

Next ==
    \/ Tick
    \/ \E c \in Conns : Session(c)
    \/ \E k \in Keys : Unban(k)

Spec == Init /\ [][Next]_vars

-----------------------------------------------------------------------------
\* Types; a connection has a live reading exactly where the code does, and what it
\* reports of itself is what the guard is told of it.
TypeOK ==
    /\ G!TypeOK
    /\ pc \in [Conns -> PCs]
    /\ who \in [Conns -> [route : Routes, ip : IPs, name : Names]]
    /\ since \in [Conns -> 0..Horizon]
    /\ reading \in [Conns -> 0..clock]
    /\ action \in [Conns -> {"none", "ip_banned", "player_banned",
                             "record_failure", "record_success"}]
    /\ early \subseteq Conns
    /\ cohort \in [Keys -> SUBSET Conns]
    /\ \A c \in Conns :
          /\ pc[c] \in {"ipFail", "playerFail"} <=> reading[c] # 0
          /\ pc[c] \in {"ipSuccess", "playerSuccess"} => action[c] = "record_success"
          /\ c \in early =>
                /\ pc[c] \in {"ipClock", "ipFail", "playerClock", "playerFail", "done"}
                /\ action[c] = "record_failure"

\* handleLogin asks the guard and dials later, so a ban may fall in between.
\* While a key is banned, the connections on their way to the backend or using
\* it under that key are only ones its check let through before the ban.
NoAdmissionWhileBanned ==
    \A k \in Keys : Banned(k) => Admitted(k) \subseteq cohort[k]

\* Connection c logs in on the route and from the address, or as the player, of k.
Carries(c, k) ==
    /\ k.route = who[c].route
    /\ \/ k.kind = "ip" /\ k.value = who[c].ip
       \/ k.kind = "player" /\ k.value = PlayerOf[who[c].name]

\* A ban takes MaxFailures different connections that carry its route and its
\* address or player: no login is counted twice under a key, or under another's.
BanNeedsDistinctLogins ==
    \A k \in Keys : entries[k].bannedUntil # 0 =>
        Cardinality({c \in early : Carries(c, k)}) >= MaxFailures

\* The README's ban_duration: a ban ends when its time is over or when the
\* management API deletes it.
BanLasts ==
    [][\A k \in Keys : Banned(k) /\ ~Banned(k)' =>
          clock' >= entries[k].bannedUntil \/ Unban(k)]_vars

\* The login path uses the guard only as its specification allows.
GuardSpec == G!Spec

=============================================================================
