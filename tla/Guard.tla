------------------------------- MODULE Guard -------------------------------
(***************************************************************************)
(* The login guard, src/internal/fail2ban/guard.go: a map from a key       *)
(* (route, kind, normalised value) to an entry that counts login failures  *)
(* in a window and holds the end of a temporary ban.                       *)
(*                                                                         *)
(* Every method takes the guard's mutex, so each is one action.  The one   *)
(* exception is the clock reading of RecordFailure, taken before the       *)
(* mutex: the action receives a reading t that may be up to Lag old.       *)
(*                                                                         *)
(* Time is a natural number.  The clock starts at 1, so that 0 can stand   *)
(* for the zero time.Time.                                                 *)
(***************************************************************************)
EXTENDS Integers, Sequences

CONSTANTS
    Keys,         \* keys whose normalised value is not blank
    Enabled,      \* Options.Enabled
    MaxFailures,  \* Options.MaxFailures
    Window,       \* Options.Window
    BanDuration,  \* Options.BanDuration
    Lag,          \* bound: age of a clock reading when RecordFailure gets the mutex
    Horizon,      \* bound: the clock stops here
    MaxRecorded   \* bound: failures recorded on a key before it is cleared

\* New replaces the options that are not positive by positive defaults.
ASSUME GuardAssumption ==
    /\ Enabled \in BOOLEAN
    /\ MaxFailures \in Nat \ {0}
    /\ Window \in Nat \ {0}
    /\ BanDuration \in Nat \ {0}
    /\ Lag \in Nat
    /\ Horizon \in Nat \ {0}
    /\ MaxRecorded \in Nat

VARIABLES
    clock,     \* what now() returns
    entries,   \* g.entries; NoEntry where the map has no key
    recorded   \* history: per key, the readings of the failures recorded since
               \* a ban was served, or a success or the management API cleared it

vars == <<clock, entries, recorded>>

\* What g.entries[k] yields for a key that is not in the map.
NoEntry == [failures |-> 0, windowStart |-> 0, bannedUntil |-> 0]

Entry == [failures    : Nat \ {0},
          windowStart : 1..Horizon,
          bannedUntil : 0..(Horizon + BanDuration)]

Init ==
    /\ clock = 1
    /\ entries = [k \in Keys |-> NoEntry]
    /\ recorded = [k \in Keys |-> << >>]

Tick ==
    /\ clock < Horizon
    /\ clock' = clock + 1
    /\ UNCHANGED <<entries, recorded>>

-----------------------------------------------------------------------------
\* Plausible mistakes in RecordFailure and IsBanned, for mutation checks.

AfterFailure_FromStart(e, t) ==
    LET late  == e.windowStart = 0 \/ t - e.windowStart > Window
        n     == IF late THEN 1 ELSE e.failures + 1
        start == IF late THEN t ELSE e.windowStart
    IN  [failures    |-> n,
         windowStart |-> start,
         bannedUntil |-> IF n >= MaxFailures THEN start + BanDuration ELSE 0]

AfterCheck_KeepsWindow(e, now) ==
    IF e.bannedUntil # 0 /\ now >= e.bannedUntil
    THEN [e EXCEPT !.failures = 0, !.bannedUntil = 0] ELSE e

AfterCheck_ForgetsCount(e, now) ==
    IF now >= e.bannedUntil THEN NoEntry ELSE e

AfterCheck_NeverDeletes(e, now) == e

-----------------------------------------------------------------------------
\* The entry RecordFailure leaves when the reading is t.  A window starts at
\* its first failure and tumbles: it is never slid forward.
AfterFailure(e, t) ==
    LET late == e.windowStart = 0 \/ t - e.windowStart > Window
        n    == IF late THEN 1 ELSE e.failures + 1
    IN  [failures    |-> n,
         windowStart |-> IF late THEN t ELSE e.windowStart,
         bannedUntil |-> IF n >= MaxFailures THEN t + BanDuration ELSE e.bannedUntil]

\* now.Before(bannedUntil): the answer of IsBanned, and what Snapshot lists.
BannedAt(e, now) == now < e.bannedUntil

\* A ban was imposed and is over.
Served(e, now) == e.bannedUntil # 0 /\ ~BannedAt(e, now)

\* The entry IsBanned leaves: a ban that is over is deleted with its count.
AfterCheck(e, now) == IF Served(e, now) THEN NoEntry ELSE e

Delete(k) ==
    /\ entries' = [entries EXCEPT ![k] = NoEntry]
    /\ recorded' = [recorded EXCEPT ![k] = << >>]
    /\ UNCHANGED clock

\* Only a served ban may make the guard forget failures here, whatever becomes of
\* the entry.
IsBanned(k) ==
    /\ entries' = IF Enabled THEN [entries EXCEPT ![k] = AfterCheck(@, clock)] ELSE entries
    /\ recorded' = IF Enabled /\ Served(entries[k], clock)
                   THEN [recorded EXCEPT ![k] = << >>] ELSE recorded
    /\ UNCHANGED clock

RecordFailure(k, t) ==
    /\ entries' = IF Enabled THEN [entries EXCEPT ![k] = AfterFailure(@, t)] ELSE entries
    /\ recorded' = IF Enabled THEN [recorded EXCEPT ![k] = Append(@, t)] ELSE recorded
    /\ UNCHANGED clock

RecordSuccess(k) == IF Enabled THEN Delete(k) ELSE UNCHANGED vars

\* DELETE /bans of the management API; works on a disabled guard too.
Unban(k) == Delete(k)

\* now() was called at most Lag ago.
Readings == {t \in 1..clock : t >= clock - Lag}

Next ==
    \/ Tick
    \/ \E k \in Keys :
          \/ IsBanned(k)
          \/ \E t \in Readings : Len(recorded[k]) < MaxRecorded /\ RecordFailure(k, t)
          \/ RecordSuccess(k)
          \/ Unban(k)

Spec == Init /\ [][Next]_vars

-----------------------------------------------------------------------------
\* Types: an absent key has the zero entry; a present one has counted a failure.
TypeOK ==
    /\ clock \in 1..Horizon
    /\ entries \in [Keys -> Entry \cup {NoEntry}]
    /\ recorded \in [Keys -> Seq(1..Horizon)]

\* The n failures of key k from the i-th on all lie within Window of the i-th.
RunOf(k, i, n) ==
    \A j \in i..(i + n - 1) : recorded[k][j] - recorded[k][i] <= Window

\* RecordFailure never bans too early, nor for the wrong time: behind every
\* ban stands a run of at least MaxFailures consecutive failures within Window
\* of the run's first, and the ban ends BanDuration after the run's last.
BanJustified ==
    \A k \in Keys : entries[k].bannedUntil # 0 =>
        \E i \in 1..Len(recorded[k]) : \E n \in MaxFailures..Len(recorded[k]) :
            /\ i + n - 1 <= Len(recorded[k])
            /\ RunOf(k, i, n)
            /\ entries[k].bannedUntil = recorded[k][i + n - 1] + BanDuration

\* The readings of the last n failures of key k are pairwise within Window.
Burst(k, n) ==
    /\ Len(recorded[k]) >= n
    /\ \A i, j \in (Len(recorded[k]) - n + 1)..Len(recorded[k]) :
          recorded[k][j] - recorded[k][i] <= Window

\* RecordFailure's tumbling window still catches every dense burst: when the
\* last 2*MaxFailures - 1 failures lie within one Window, the key has a ban.
\* The MaxFailures failures of a rolling window would not be enough: the window
\* may have restarted among them.
BurstBanned ==
    \A k \in Keys : Burst(k, 2 * MaxFailures - 1) => entries[k].bannedUntil # 0

\* Two failures may reach the mutex of RecordFailure in the opposite order of
\* their clock readings: the later step then pulls the end of the ban back,
\* but by no more than the age of its reading.  No other step shortens a ban,
\* short of deleting the entry; a new window does not.
BanShrinksAtMostLag ==
    [][\A k \in Keys : entries'[k] # NoEntry =>
          entries'[k].bannedUntil >= entries[k].bannedUntil - Lag]_vars

-----------------------------------------------------------------------------
\* Where the current window starts in the history of k.
Start(k) == Len(recorded[k]) - entries[k].failures + 1

\* failures and windowStart describe the tail of the history.
TailIsWindow(k) ==
    /\ entries[k].failures <= Len(recorded[k])
    /\ entries[k].failures = 0 => recorded[k] = << >>
    /\ entries[k].failures > 0 =>
          /\ entries[k].windowStart = recorded[k][Start(k)]
          /\ RunOf(k, Start(k), entries[k].failures)

\* Without a ban the window is not full, and neither was the one before it: it
\* began less than MaxFailures failures before this one, more than Window ago.
UnbannedIsSparse(k) ==
    entries[k].bannedUntil = 0 =>
        /\ entries[k].failures < MaxFailures
        /\ Start(k) > 1 /\ entries[k].failures > 0 =>
              \E q \in 1..(Start(k) - 1) :
                  /\ Start(k) - q < MaxFailures
                  /\ recorded[k][Start(k)] - recorded[k][q] > Window

\* The inductive invariant behind BanJustified, BurstBanned and
\* BanShrinksAtMostLag: the entry RecordFailure maintains is a summary of the
\* history, and no ban reaches further than BanDuration from now.
IInv ==
    /\ TypeOK
    /\ BanJustified
    /\ \A k \in Keys :
          /\ TailIsWindow(k)
          /\ UnbannedIsSparse(k)
          /\ entries[k].bannedUntil <= clock + BanDuration

=============================================================================
