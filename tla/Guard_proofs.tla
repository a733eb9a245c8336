---------------------------- MODULE Guard_proofs ----------------------------
(***************************************************************************)
(* Proofs about the login guard, for every number of failures, window, ban *)
(* duration, lag and horizon.  IInv is the inductive invariant; each lemma *)
(* below shows that one kind of step preserves it.                         *)
(***************************************************************************)
EXTENDS Guard, SequenceTheorems, TLAPS

\* The part of IInv that is about key k alone.
KeyInv(k) ==
    /\ entries[k].bannedUntil # 0 =>
        \E i \in 1..Len(recorded[k]) : \E n \in MaxFailures..Len(recorded[k]) :
            /\ i + n - 1 <= Len(recorded[k])
            /\ RunOf(k, i, n)
            /\ entries[k].bannedUntil = recorded[k][i + n - 1] + BanDuration
    /\ TailIsWindow(k)
    /\ UnbannedIsSparse(k)
    /\ entries[k].bannedUntil <= clock + BanDuration

\* IInv is TypeOK and the invariant of every key.
LEMMA IInvIsKeyInv == IInv <=> TypeOK /\ \A k \in Keys : KeyInv(k)
  BY DEF IInv, KeyInv, BanJustified

\* A key whose entry and history are cleared satisfies its invariant.
LEMMA ClearedKey ==
  ASSUME NEW k \in Keys, clock \in Nat,
         entries[k] = NoEntry, recorded[k] = << >>
  PROVE  KeyInv(k)
  BY GuardAssumption DEF KeyInv, TailIsWindow, UnbannedIsSparse, NoEntry, Start

\* The initial state satisfies the inductive invariant.
LEMMA InitIInv == Init => IInv
<1> SUFFICES ASSUME Init PROVE IInv
  OBVIOUS
<1>1. TypeOK
  BY GuardAssumption DEF Init, TypeOK
<1>2. \A k \in Keys : KeyInv(k)
  BY ClearedKey DEF Init
<1> QED
  BY <1>1, <1>2, IInvIsKeyInv

\* A key that a step leaves alone keeps its invariant while the clock advances.
LEMMA OtherKey ==
  ASSUME NEW k \in Keys, TypeOK, KeyInv(k), clock' \in Nat, clock <= clock',
         entries'[k] = entries[k], recorded'[k] = recorded[k]
  PROVE  KeyInv(k)'
<1>1. entries[k].bannedUntil \in Int /\ clock \in Int
  BY GuardAssumption DEF TypeOK, Entry, NoEntry
<1>2. entries'[k].bannedUntil <= clock' + BanDuration
  BY <1>1, GuardAssumption DEF KeyInv
<1>3. TailIsWindow(k)' /\ UnbannedIsSparse(k)'
  BY DEF KeyInv, TailIsWindow, UnbannedIsSparse, RunOf, Start
<1> QED
  BY <1>2, <1>3 DEF KeyInv, RunOf

\* Time passing preserves the invariant.
LEMMA TickStep == IInv /\ Tick => IInv'
<1> SUFFICES ASSUME IInv, Tick PROVE IInv'
  OBVIOUS
<1>1. TypeOK'
  BY GuardAssumption DEF IInv, TypeOK, Tick
<1>2. ASSUME NEW k \in Keys PROVE KeyInv(k)'
  <2>1. clock \in Nat /\ clock' = clock + 1
    BY DEF IInv, TypeOK, Tick
  <2> QED
    BY <2>1, OtherKey, IInvIsKeyInv DEF Tick
<1> QED
  BY <1>1, <1>2, IInvIsKeyInv DEF IInv, KeyInv, BanJustified

\* A step that clears key k, or leaves everything as it is, preserves it.
LEMMA ClearStep ==
  ASSUME NEW k \in Keys, IInv, UNCHANGED clock,
         entries' = [entries EXCEPT ![k] = NoEntry],
         recorded' = [recorded EXCEPT ![k] = << >>]
  PROVE  IInv'
<1>1. TypeOK'
  BY DEF IInv, TypeOK
<1>2. ASSUME NEW j \in Keys PROVE KeyInv(j)'
  <2>1. clock \in Nat /\ clock' = clock
    BY DEF IInv, TypeOK
  <2>2. CASE j = k
    <3>1. entries'[j] = NoEntry /\ recorded'[j] = << >>
      BY <2>2 DEF IInv, TypeOK
    <3> QED
      BY <2>1, <3>1, GuardAssumption
      DEF KeyInv, TailIsWindow, UnbannedIsSparse, NoEntry, Start
  <2>3. CASE j # k
    <3>1. entries'[j] = entries[j] /\ recorded'[j] = recorded[j]
      BY <2>3 DEF IInv, TypeOK
    <3> QED
      BY <2>1, <3>1, OtherKey, IInvIsKeyInv
  <2> QED
    BY <2>2, <2>3
<1> QED
  BY <1>1, <1>2 DEF IInv, KeyInv, BanJustified

\* A recorded failure preserves the invariant of its key: it either extends the
\* current window or, being more than Window after its start, opens a new one.
LEMMA FailureOnKey ==
  ASSUME NEW k \in Keys, NEW t \in 1..clock, TypeOK, KeyInv(k), clock' = clock,
         entries'[k] = AfterFailure(entries[k], t),
         recorded'[k] = Append(recorded[k], t)
  PROVE  KeyInv(k)'
<1> DEFINE e == entries[k]
           f == entries'[k]
           r == recorded[k]
           s == recorded'[k]
           L == Len(r)
           p == L - e.failures + 1
           late == e.windowStart = 0 \/ t - e.windowStart > Window
           Run(q, i, n) == \A j \in i..(i + n - 1) : q[j] - q[i] <= Window
\* What the types say of the entry, the history and the reading.
<1>1. /\ e.failures \in Nat /\ e.windowStart \in Nat /\ e.bannedUntil \in Nat
      /\ e.windowStart = 0 => e.failures = 0 /\ e.bannedUntil = 0
      /\ e.windowStart # 0 => e.failures # 0
  BY GuardAssumption DEF TypeOK, Entry, NoEntry
<1>2. clock \in Nat /\ t \in Nat /\ t <= clock /\ t # 0
  BY GuardAssumption DEF TypeOK
<1>3. r \in Seq(1..Horizon) /\ t \in 1..Horizon
  BY GuardAssumption DEF TypeOK
<1>4. L \in Nat /\ Len(s) = L + 1 /\ s[L + 1] = t
  BY <1>3, LenProperties, AppendProperties
<1>5. \A i \in 1..L : s[i] = r[i] /\ r[i] \in Nat
  <2>1. \A i \in 1..L : r[i] \in 1..Horizon
    BY <1>3, ElementOfSeq
  <2>2. \A i \in 1..L : s[i] = r[i]
    BY <1>3, AppendProperties
  <2>3. 1..Horizon \subseteq Nat
    BY GuardAssumption
  <2> QED
    BY <2>1, <2>2, <2>3
<1>6. /\ f.failures = IF late THEN 1 ELSE e.failures + 1
      /\ f.windowStart = IF late THEN t ELSE e.windowStart
      /\ f.bannedUntil = IF f.failures >= MaxFailures THEN t + BanDuration
                                                      ELSE e.bannedUntil
  BY DEF AfterFailure
\* What the invariant says of them.
<1>7. /\ e.failures <= L
      /\ e.failures = 0 => L = 0
      /\ e.failures > 0 => e.windowStart = r[p] /\ Run(r, p, e.failures)
  BY DEF KeyInv, TailIsWindow, RunOf, Start
<1>8. e.bannedUntil = 0 =>
        /\ e.failures < MaxFailures
        /\ p > 1 /\ e.failures > 0 =>
             \E q \in 1..(p - 1) : p - q < MaxFailures /\ r[p] - r[q] > Window
  BY DEF KeyInv, UnbannedIsSparse, Start
<1>9. e.bannedUntil # 0 =>
        \E i \in 1..L : \E n \in MaxFailures..L :
            i + n - 1 <= L /\ Run(r, i, n) /\ e.bannedUntil = r[i + n - 1] + BanDuration
  BY DEF KeyInv, RunOf
<1>10. e.bannedUntil <= clock + BanDuration
  BY DEF KeyInv
\* The same three facts about the entry and the history after the step.
<1> DEFINE p2 == L + 1 - f.failures + 1
<1>11. /\ f.failures <= L + 1 /\ f.failures > 0
       /\ f.windowStart = s[p2] /\ Run(s, p2, f.failures)
  <2>1. CASE late
    <3>1. f.failures = 1 /\ f.windowStart = t /\ p2 = L + 1
      BY <2>1, <1>6, <1>4
    <3> HIDE DEF e, f, r, s, L, p, late, p2
    <3> QED
      BY <3>1, <1>2, <1>4, GuardAssumption
  <2>2. CASE ~late
    <3>1. /\ f.failures = e.failures + 1 /\ f.windowStart = e.windowStart
          /\ t - e.windowStart <= Window /\ e.failures > 0
      BY <2>2, <1>1, <1>2, <1>6, GuardAssumption
    <3>2. p2 = p /\ p \in 1..L
      <4> HIDE DEF e, f, r, s, L
      <4> QED BY <3>1, <1>1, <1>4, <1>7
    <3> HIDE DEF e, f, r, s, L, p, late, p2
    <3>3. s[p] = e.windowStart
      BY <3>1, <3>2, <1>5, <1>7
    <3>4. \A j \in p..(p + e.failures - 1) : r[j] - r[p] <= Window
      BY <3>1, <1>7
    <3>5. p + e.failures - 1 = L
      BY <1>1, <1>4 DEF p
    <3>6. \A j \in p..(L + 1) : s[j] - s[p] <= Window
      <4>1. s[L + 1] - s[p] <= Window
        BY <3>1, <3>3, <1>4
      <4>2. ASSUME NEW j \in p..L PROVE s[j] - s[p] <= Window
        <5>1. j \in 1..L
          BY <3>2, <1>4
        <5> QED
          BY <5>1, <3>2, <3>4, <3>5, <1>5
      <4> QED
        BY <4>1, <4>2, <3>2, <1>4
    <3>7. p2 + f.failures - 1 = L + 1
      BY <1>1, <1>4, <3>1 DEF p2
    <3> QED
      BY <3>1, <3>2, <3>3, <3>6, <3>7, <1>1, <1>4, <1>7
  <2> QED
    BY <2>1, <2>2
<1>12. f.bannedUntil = 0 =>
        /\ f.failures < MaxFailures
        /\ p2 > 1 =>
             \E q \in 1..(p2 - 1) : p2 - q < MaxFailures /\ s[p2] - s[q] > Window
  <2> SUFFICES ASSUME f.bannedUntil = 0
               PROVE  /\ f.failures < MaxFailures
                      /\ p2 > 1 =>
                           \E q \in 1..(p2 - 1) :
                              p2 - q < MaxFailures /\ s[p2] - s[q] > Window
    OBVIOUS
  <2>1. f.failures < MaxFailures /\ e.bannedUntil = 0 /\ e.failures < MaxFailures
    BY <1>1, <1>2, <1>6, <1>8, GuardAssumption
  <2>2. CASE late
    <3>1. f.failures = 1 /\ p2 = L + 1
      BY <2>2, <1>6, <1>4
    <3>2. ASSUME L >= 1
          PROVE  \E q \in 1..L : L + 1 - q < MaxFailures /\ t - s[q] > Window
      <4>1. e.failures > 0 /\ t - e.windowStart > Window
        BY <3>2, <2>2, <1>1, <1>7
      <4> HIDE DEF e, f, r, s, L, late, p2, Run
      <4>2. p \in 1..L /\ L + 1 - p < MaxFailures
        BY <4>1, <2>1, <1>1, <1>4, <1>7, GuardAssumption DEF p
      <4>3. t - s[p] > Window
        BY <4>1, <4>2, <1>5, <1>7
      <4> QED
        BY <4>2, <4>3
    <3> HIDE DEF e, f, r, s, L, late, p2, Run
    <3> QED
      BY <2>1, <3>1, <3>2, <1>4
  <2>3. CASE ~late
    <3>1. f.failures = e.failures + 1 /\ e.failures > 0
      BY <2>3, <1>1, <1>6
    <3> HIDE DEF e, f, r, s, L, late, Run
    <3>2. p2 = p /\ p \in 1..L
      BY <3>1, <1>1, <1>4, <1>7
    <3> HIDE DEF p, p2
    <3>3. ASSUME p > 1
          PROVE  \E q \in 1..(p - 1) : p - q < MaxFailures /\ s[p] - s[q] > Window
      <4>1. PICK q \in 1..(p - 1) : p - q < MaxFailures /\ r[p] - r[q] > Window
        BY <3>1, <3>3, <2>1, <1>8
      <4>2. q \in 1..L
        BY <3>2, <1>4
      <4> QED
        BY <4>1, <4>2, <3>2, <1>5
    <3> QED
      BY <2>1, <3>2, <3>3
  <2> QED
    BY <2>2, <2>3
<1>13. f.bannedUntil # 0 =>
        \E i \in 1..(L + 1) : \E n \in MaxFailures..(L + 1) :
            i + n - 1 <= L + 1 /\ Run(s, i, n) /\ f.bannedUntil = s[i + n - 1] + BanDuration
  <2>1. CASE f.failures >= MaxFailures
    <3> HIDE DEF e, f, r, s, L, late, Run
    <3>1. f.failures \in Nat
      BY <1>1, <1>6
    <3>2. f.failures \in MaxFailures..(L + 1) /\ p2 \in 1..(L + 1)
      BY <2>1, <3>1, <1>4, <1>11, GuardAssumption
    <3>3. p2 + f.failures - 1 = L + 1 /\ f.bannedUntil = s[L + 1] + BanDuration
      BY <2>1, <3>1, <1>4, <1>6
    <3> QED
      BY <3>2, <3>3, <1>4, <1>11
  <2>2. CASE ~(f.failures >= MaxFailures)
    <3>1. f.bannedUntil = e.bannedUntil
      BY <2>2, <1>6
    <3> HIDE DEF e, f, r, s, L, late
    <3> SUFFICES ASSUME f.bannedUntil # 0
                 PROVE  \E i \in 1..(L + 1) : \E n \in MaxFailures..(L + 1) :
                          /\ i + n - 1 <= L + 1
                          /\ Run(s, i, n)
                          /\ f.bannedUntil = s[i + n - 1] + BanDuration
      OBVIOUS
    <3>2. PICK i \in 1..L, n \in MaxFailures..L :
            /\ i + n - 1 <= L
            /\ Run(r, i, n)
            /\ e.bannedUntil = r[i + n - 1] + BanDuration
      BY <3>1, <1>9
    <3>3. i \in 1..(L + 1) /\ n \in MaxFailures..(L + 1) /\ i + n - 1 <= L + 1
      BY <3>2, <1>4, GuardAssumption
    <3>4. i + n - 1 \in 1..L /\ \A j \in i..(i + n - 1) : j \in 1..L
      BY <3>2, <1>4, GuardAssumption
    <3>5. Run(s, i, n) /\ s[i + n - 1] = r[i + n - 1]
      BY <3>2, <3>4, <1>5
    <3> HIDE DEF Run
    <3> QED
      BY <3>1, <3>2, <3>3, <3>5
  <2> QED
    BY <2>1, <2>2
<1>14. f.bannedUntil <= clock + BanDuration
  BY <1>2, <1>6, <1>10, GuardAssumption
<1>15. f.failures \in Nat
  BY <1>1, <1>6
<1>16. Start(k)' = p2
  <2>1. Start(k)' = Len(s) - f.failures + 1
    BY DEF Start
  <2> HIDE DEF e, f, r, s, L
  <2> QED
    BY <2>1, <1>4, <1>15
<1>17. f.failures <= Len(s) /\ f.failures # 0
  BY <1>4, <1>11, <1>15
<1>18. TailIsWindow(k)'
  BY <1>11, <1>16, <1>17 DEF TailIsWindow, RunOf
<1>19. UnbannedIsSparse(k)'
  BY <1>4, <1>12, <1>16 DEF UnbannedIsSparse
<1> QED
  BY <1>4, <1>13, <1>14, <1>18, <1>19 DEF KeyInv, RunOf

\* RecordFailure preserves the invariant.
LEMMA FailureStep ==
  ASSUME NEW k \in Keys, NEW t \in Readings, IInv, RecordFailure(k, t)
  PROVE  IInv'
<1>1. CASE Enabled
  <2>1. t \in 1..clock /\ clock \in Nat /\ clock' = clock
    BY DEF IInv, TypeOK, RecordFailure, Readings
  <2>2. /\ entries' = [entries EXCEPT ![k] = AfterFailure(entries[k], t)]
        /\ recorded' = [recorded EXCEPT ![k] = Append(recorded[k], t)]
    BY <1>1 DEF RecordFailure
  <2>3. ASSUME NEW j \in Keys PROVE KeyInv(j)'
    <3>1. CASE j = k
      <4>1. /\ entries'[k] = AfterFailure(entries[k], t)
            /\ recorded'[k] = Append(recorded[k], t)
        BY <2>2 DEF IInv, TypeOK
      <4> QED
        BY <2>1, <3>1, <4>1, FailureOnKey, IInvIsKeyInv
    <3>2. CASE j # k
      <4>1. entries'[j] = entries[j] /\ recorded'[j] = recorded[j]
        BY <2>2, <3>2 DEF IInv, TypeOK
      <4> QED
        BY <2>1, <4>1, OtherKey, IInvIsKeyInv
    <3> QED
      BY <3>1, <3>2
  <2>4. TypeOK'
    <3>1. AfterFailure(entries[k], t) \in Entry
      <4>1. t \in 1..Horizon
        BY <2>1, GuardAssumption DEF IInv, TypeOK
      <4> QED
        BY <4>1, GuardAssumption DEF IInv, TypeOK, AfterFailure, Entry, NoEntry
    <3>2. Append(recorded[k], t) \in Seq(1..Horizon)
      BY <2>1, GuardAssumption, AppendProperties DEF IInv, TypeOK
    <3> QED
      BY <2>1, <2>2, <3>1, <3>2 DEF IInv, TypeOK
  <2> QED
    BY <2>3, <2>4 DEF IInv, KeyInv, BanJustified
<1>2. CASE ~Enabled
  <2>1. UNCHANGED vars
    BY <1>2 DEF RecordFailure, vars
  <2> QED
    BY <2>1 DEF vars, IInv, TypeOK, BanJustified, RunOf, TailIsWindow,
                UnbannedIsSparse, Start
<1> QED
  BY <1>1, <1>2, GuardAssumption

\* IsBanned preserves the invariant: it leaves an entry or deletes it whole.
LEMMA CheckStep ==
  ASSUME NEW k \in Keys, IInv, IsBanned(k)
  PROVE  IInv'
<1>1. CASE Enabled /\ Served(entries[k], clock)
  <2>1. entries' = [entries EXCEPT ![k] = NoEntry]
    BY <1>1 DEF IsBanned, AfterCheck
  <2>2. recorded' = [recorded EXCEPT ![k] = << >>] /\ UNCHANGED clock
    BY <1>1 DEF IsBanned
  <2> QED
    BY <2>1, <2>2, ClearStep
<1>2. CASE ~(Enabled /\ Served(entries[k], clock))
  <2>1. entries' = entries
    BY <1>2 DEF IInv, TypeOK, IsBanned, AfterCheck
  <2>2. UNCHANGED vars
    BY <1>2, <2>1 DEF IsBanned, vars
  <2> QED
    BY <2>2 DEF vars, IInv, TypeOK, BanJustified, RunOf, TailIsWindow,
                UnbannedIsSparse, Start
<1> QED
  BY <1>1, <1>2

\* Every step of the guard, and stuttering, preserves the invariant.
LEMMA NextStep == IInv /\ [Next]_vars => IInv'
<1> SUFFICES ASSUME IInv, [Next]_vars PROVE IInv'
  OBVIOUS
<1>1. CASE Tick
  BY <1>1, TickStep
<1>2. ASSUME NEW k \in Keys, IsBanned(k) PROVE IInv'
  BY <1>2, CheckStep
<1>3. ASSUME NEW k \in Keys, NEW t \in Readings, RecordFailure(k, t) PROVE IInv'
  BY <1>3, FailureStep
<1>4. ASSUME NEW k \in Keys, Delete(k) PROVE IInv'
  BY <1>4, ClearStep DEF Delete
<1>5. CASE UNCHANGED vars
  BY <1>5 DEF vars, IInv, TypeOK, BanJustified, RunOf, TailIsWindow,
              UnbannedIsSparse, Start
<1> QED
  BY <1>1, <1>2, <1>3, <1>4, <1>5 DEF Next, RecordSuccess, Unban

\* The invariant holds in every reachable state of the guard.
THEOREM GuardInvariant == Spec => []IInv
<1>1. Init => IInv
  BY InitIInv
<1>2. IInv /\ [Next]_vars => IInv'
  BY NextStep
<1> QED
  BY <1>1, <1>2, PTL DEF Spec

\* Type correctness of guard.go's entries.
THEOREM GuardTypes == Spec => []TypeOK
<1>1. IInv => TypeOK
  BY DEF IInv
<1> QED
  BY <1>1, GuardInvariant, PTL

\* Every ban RecordFailure imposes is earned, and lasts from its last failure.
THEOREM BansAreJustified == Spec => []BanJustified
<1>1. IInv => BanJustified
  BY DEF IInv
<1> QED
  BY <1>1, GuardInvariant, PTL

\* The tumbling window of RecordFailure catches every burst of 2*MaxFailures - 1
\* failures.  An unbanned key has fewer than MaxFailures failures in its window,
\* so such a burst covers the start p of that window and the start q of the one
\* before, which lie more than Window apart.
THEOREM BurstsAreBanned == Spec => []BurstBanned
<1>1. IInv => BurstBanned
  <2> SUFFICES ASSUME IInv, NEW k \in Keys, Burst(k, 2 * MaxFailures - 1),
                      entries[k].bannedUntil = 0
               PROVE  FALSE
    BY DEF BurstBanned
  <2> DEFINE L == Len(recorded[k])
             n == entries[k].failures
             p == Start(k)
  <2>1. L \in Nat /\ n \in Nat
    BY LenProperties DEF IInv, TypeOK, Entry, NoEntry
  <2>2. /\ n <= L /\ (n = 0 => L = 0) /\ n < MaxFailures
        /\ p > 1 /\ n > 0 => \E q \in 1..(p - 1) :
              p - q < MaxFailures /\ recorded[k][p] - recorded[k][q] > Window
    BY DEF IInv, TailIsWindow, UnbannedIsSparse
  <2>3. /\ L >= 2 * MaxFailures - 1
        /\ \A i, j \in (L - (2 * MaxFailures - 1) + 1)..L :
              recorded[k][j] - recorded[k][i] <= Window
    BY DEF Burst
  <2>4. n > 0 /\ p = L - n + 1
    BY <2>1, <2>2, <2>3, GuardAssumption DEF Start
  <2> HIDE DEF L, n, p
  <2>5. p \in Int /\ p > 1 /\ p <= L
    BY <2>1, <2>2, <2>3, <2>4, GuardAssumption
  <2>6. PICK q \in 1..(p - 1) :
            p - q < MaxFailures /\ recorded[k][p] - recorded[k][q] > Window
    BY <2>2, <2>4, <2>5
  <2>7. /\ p \in (L - (2 * MaxFailures - 1) + 1)..L
        /\ q \in (L - (2 * MaxFailures - 1) + 1)..L
    BY <2>1, <2>2, <2>4, <2>5, <2>6, GuardAssumption
  <2>8. recorded[k][p] - recorded[k][q] <= Window
    BY <2>3, <2>7
  <2>9. recorded[k][p] \in Int /\ recorded[k][q] \in Int
    <3>1. recorded[k] \in Seq(1..Horizon) /\ p \in 1..Len(recorded[k])
          /\ q \in 1..Len(recorded[k])
      BY <2>1, <2>5, <2>6 DEF L, IInv, TypeOK
    <3> QED
      BY <3>1, ElementOfSeq, GuardAssumption
  <2> QED
    BY <2>6, <2>8, <2>9, GuardAssumption
<1> QED
  BY <1>1, GuardInvariant, PTL

\* Reversed clock readings pull the end of a ban back by at most Lag.
THEOREM BansShrinkAtMostLag == Spec => BanShrinksAtMostLag
<1> DEFINE Shrink == \A k \in Keys : entries'[k] # NoEntry =>
                        entries'[k].bannedUntil >= entries[k].bannedUntil - Lag
<1>1. IInv /\ [Next]_vars => [Shrink]_vars
  <2> SUFFICES ASSUME IInv, Next, NEW k \in Keys, entries'[k] # NoEntry
               PROVE  entries'[k].bannedUntil >= entries[k].bannedUntil - Lag
    BY DEF vars
  <2>1. /\ entries[k].bannedUntil \in Int /\ clock \in Int
        /\ entries[k].bannedUntil <= clock + BanDuration
    BY GuardAssumption DEF IInv, TypeOK, Entry, NoEntry
  <2>2. CASE entries'[k] = entries[k]
    BY <2>1, <2>2, GuardAssumption
  <2>3. CASE entries'[k] # entries[k]
    <3>1. ASSUME NEW j \in Keys, IsBanned(j) \/ Delete(j) PROVE FALSE
      BY <3>1, <2>3 DEF IInv, TypeOK, IsBanned, Delete, AfterCheck, NoEntry
    <3>2. PICK t \in Readings : RecordFailure(k, t)
      BY <2>3, <3>1
      DEF IInv, TypeOK, Next, Tick, RecordSuccess, Unban, RecordFailure, vars
    <3>3. entries'[k] = AfterFailure(entries[k], t) /\ t \in Int /\ t >= clock - Lag
      BY <3>2, <2>3, GuardAssumption DEF IInv, TypeOK, RecordFailure, Readings
    <3> QED
      BY <2>1, <3>3, GuardAssumption DEF AfterFailure
  <2> QED
    BY <2>2, <2>3
<1> QED
  BY <1>1, GuardInvariant, PTL DEF Spec, BanShrinksAtMostLag

=============================================================================
