---------------------------- MODULE Prober_proofs ----------------------------
(***************************************************************************)
(* Proofs about the health checker: first the record, for every set of     *)
(* backends, both thresholds and every circuit time, where IInv says that  *)
(* each counter is the length of the run of results it counts, as far as   *)
(* its threshold; then the probe loop beside status connections, for any   *)
(* number of targets and connections: all they do to the record is report  *)
(* results, and a backend is called unhealthy only when it has itself      *)
(* failed to answer.                                                       *)
(***************************************************************************)
EXTENDS Prober, SequenceTheorems, TLAPS

LEMMA KeepBounds == /\ Keep \in Nat /\ Keep >= 1
                    /\ FailureThreshold <= Keep /\ SuccessThreshold <= Keep
  BY HealthAssumption DEF Keep

\* The initial records satisfy the invariant.
LEMMA InitIInv == HealthInit => IInv
<1> SUFFICES ASSUME HealthInit PROVE IInv
  OBVIOUS
<1>1. HealthTypeOK
  BY HealthAssumption, KeepBounds DEF HealthInit, HealthTypeOK, Entry
<1>2. CircuitAddsNothing
  BY DEF HealthInit, CircuitAddsNothing, CircuitOpen
<1>3. ASSUME NEW b \in Backends PROVE CountsRuns(b)
  BY HealthAssumption DEF HealthInit, CountsRuns, LastAre
<1>4. ASSUME NEW b \in Backends
      PROVE  /\ health[b].fails < FailureThreshold
             /\ health[b].oks < SuccessThreshold
  BY HealthAssumption DEF HealthInit
<1> QED
  BY <1>1, <1>2, <1>3, <1>4, HealthAssumption DEF IInv, HealthInit

\* What the history holds after a result: the new result, then the old ones,
\* as many as it keeps.
LEMMA RememberedIs ==
  ASSUME NEW b \in Backends, NEW ok \in BOOLEAN, recent[b] \in Seq(BOOLEAN),
         Len(recent[b]) <= Keep
  PROVE  /\ Remembered(b, ok) \in Seq(BOOLEAN)
         /\ Len(Remembered(b, ok)) \in 1..Keep
         /\ Len(Remembered(b, ok)) = IF Len(recent[b]) = Keep THEN Keep
                                                              ELSE Len(recent[b]) + 1
         /\ Remembered(b, ok)[Len(Remembered(b, ok))] = ok
         /\ \A d \in 1..(Len(Remembered(b, ok)) - 1) :
               Remembered(b, ok)[Len(Remembered(b, ok)) - d]
                 = recent[b][Len(recent[b]) - d + 1]
<1> DEFINE r == recent[b]
           s == Append(r, ok)
           L == Len(r)
<1>1. L \in Nat /\ L <= Keep /\ Keep \in Nat /\ Keep >= 1
  BY LenProperties, KeepBounds
<1>2. /\ s \in Seq(BOOLEAN) /\ Len(s) = L + 1 /\ s[L + 1] = ok
      /\ \A i \in 1..L : s[i] = r[i]
  BY AppendProperties
<1>3. s # << >>
  BY AppendProperties
<1>4. /\ Tail(s) \in Seq(BOOLEAN) /\ Len(Tail(s)) = L
      /\ \A i \in 1..L : Tail(s)[i] = s[i + 1]
  BY <1>1, <1>2, <1>3, HeadTailProperties
<1>5. CASE L = Keep
  <2>1. Remembered(b, ok) = Tail(s)
    BY <1>1, <1>2, <1>5 DEF Remembered
  <2> HIDE DEF s, r, L
  <2>2. Tail(s)[L] = ok
    BY <1>1, <1>2, <1>4, <1>5
  <2>3. ASSUME NEW d \in 1..(L - 1) PROVE Tail(s)[L - d] = r[L - d + 1]
    BY <1>1, <1>2, <1>4
  <2> QED
    BY <1>1, <1>4, <1>5, <2>1, <2>2, <2>3 DEF L, r
<1>6. CASE L # Keep
  <2>1. Remembered(b, ok) = s
    BY <1>1, <1>2, <1>6 DEF Remembered
  <2> HIDE DEF s, r, L
  <2>2. ASSUME NEW d \in 1..L PROVE s[L + 1 - d] = r[L - d + 1]
    BY <1>1, <1>2
  <2>3. /\ s \in Seq(BOOLEAN) /\ Len(s) \in 1..Keep /\ Len(s) = L + 1 /\ s[Len(s)] = ok
        /\ \A d \in 1..(Len(s) - 1) : s[Len(s) - d] = r[L - d + 1]
    BY <1>1, <1>2, <1>6, <2>2
  <2> QED
    BY <1>6, <2>1, <2>3 DEF L, r
<1> QED
  BY <1>5, <1>6

\* A run of n results contains every shorter one.
LEMMA ShorterRun ==
  ASSUME NEW s \in Seq(BOOLEAN), NEW x \in BOOLEAN,
         NEW n \in Nat, NEW m \in Nat, m <= n, LastAre(s, n, x)
  PROVE  LastAre(s, m, x)
<1>1. Len(s) \in Nat
  BY LenProperties
<1> QED
  BY <1>1 DEF LastAre

\* After a result, the last n are x exactly when the result is x and the last
\* n - 1 before it were.
LEMMA RunGrows ==
  ASSUME NEW b \in Backends, NEW ok \in BOOLEAN, NEW x \in BOOLEAN, NEW n \in 1..Keep,
         recent[b] \in Seq(BOOLEAN), Len(recent[b]) <= Keep,
         recent'[b] = Remembered(b, ok)
  PROVE  LastAre(recent'[b], n, x) <=> (x = ok /\ LastAre(recent[b], n - 1, x))
<1> DEFINE r == recent[b]
           s == recent'[b]
           L == Len(r)
           K == Len(s)
<1>1. L \in Nat /\ L <= Keep /\ Keep \in Nat /\ n \in Nat /\ n >= 1 /\ n <= Keep
  BY LenProperties, KeepBounds
<1>2. K \in 1..Keep /\ K = (IF L = Keep THEN Keep ELSE L + 1) /\ s[K] = ok
  BY RememberedIs
<1>3. \A d \in 1..(K - 1) : s[K - d] = r[L - d + 1]
  <2> DEFINE m == Remembered(b, ok)
  <2>1. \A d \in 1..(Len(m) - 1) : m[Len(m) - d] = r[L - d + 1]
    BY RememberedIs, Zenon
  <2>2. s = m
    OBVIOUS
  <2> HIDE DEF m, r, s, L
  <2> QED
    BY <2>1, <2>2
<1>4. LastAre(recent'[b], n, x) <=> K >= n /\ \A i \in (K - n + 1)..K : s[i] = x
  BY DEF LastAre
<1>5. LastAre(recent[b], n - 1, x) <=> L >= n - 1 /\ \A i \in (L - (n - 1) + 1)..L : r[i] = x
  BY DEF LastAre
<1> HIDE DEF r, s, L, K
<1>6. K >= n <=> L >= n - 1
  BY <1>1, <1>2
<1>7. ASSUME K >= n, \A i \in (K - n + 1)..K : s[i] = x
      PROVE  x = ok /\ \A i \in (L - (n - 1) + 1)..L : r[i] = x
  <2>1. x = ok
    BY <1>1, <1>2, <1>7
  <2>2. ASSUME NEW i \in (L - (n - 1) + 1)..L PROVE r[i] = x
    <3>1. L - i + 1 \in 1..(K - 1) /\ K - (L - i + 1) \in (K - n + 1)..K
      BY <1>1, <1>2, <1>6, <1>7
    <3>2. s[K - (L - i + 1)] = r[L - (L - i + 1) + 1]
      BY <1>3, <3>1
    <3>3. L - (L - i + 1) + 1 = i
      BY <1>1
    <3> QED
      BY <1>7, <3>1, <3>2, <3>3
  <2> QED
    BY <2>1, <2>2
<1>8. ASSUME x = ok, L >= n - 1, \A i \in (L - (n - 1) + 1)..L : r[i] = x
      PROVE  \A i \in (K - n + 1)..K : s[i] = x
  <2> SUFFICES ASSUME NEW i \in (K - n + 1)..K PROVE s[i] = x
    OBVIOUS
  <2>1. CASE i = K
    BY <1>2, <1>8, <2>1
  <2>2. CASE i # K
    <3>1. /\ K - i \in 1..(K - 1) /\ K - (K - i) = i
          /\ L - (K - i) + 1 \in (L - (n - 1) + 1)..L
      BY <1>1, <1>2, <1>6, <1>8, <2>2
    <3>2. s[K - (K - i)] = r[L - (K - i) + 1]
      BY <1>3, <3>1
    <3> QED
      BY <1>8, <3>1, <3>2
  <2> QED
    BY <2>1, <2>2
<1> QED
  BY <1>4, <1>5, <1>6, <1>7, <1>8

\* A result keeps the counters in step with the history of its backend.
LEMMA ResultCounts ==
  ASSUME NEW b \in Backends, NEW ok \in BOOLEAN, IInv,
         health'[b] = IF ok THEN AfterSuccess(health[b]) ELSE AfterFailure(health[b]),
         recent'[b] = Remembered(b, ok)
  PROVE  CountsRuns(b)'
<1> DEFINE e == health[b]
           f == health'[b]
           old == recent[b]
           new == recent'[b]
<1>1. /\ e.fails \in Nat /\ e.fails <= FailureThreshold
      /\ e.oks \in Nat /\ e.oks <= SuccessThreshold
      /\ FailureThreshold \in Nat /\ FailureThreshold >= 1
      /\ SuccessThreshold \in Nat /\ SuccessThreshold >= 1
      /\ FailureThreshold <= Keep /\ SuccessThreshold <= Keep /\ Keep \in Nat
  BY HealthAssumption, KeepBounds DEF IInv, HealthTypeOK, Entry
<1>2. recent[b] \in Seq(BOOLEAN) /\ Len(recent[b]) <= Keep
  BY DEF IInv, HealthTypeOK
<1>3. /\ LastAre(old, e.fails, FALSE) /\ LastAre(old, e.oks, TRUE)
      /\ e.fails < FailureThreshold => ~LastAre(old, e.fails + 1, FALSE)
      /\ e.oks < SuccessThreshold => ~LastAre(old, e.oks + 1, TRUE)
  BY DEF IInv, CountsRuns
<1>4. \A n \in 1..Keep : \A x \in BOOLEAN : LastAre(new, n, x) <=> (x = ok /\ LastAre(old, n - 1, x))
  BY <1>2, RunGrows
<1>5. \A x \in BOOLEAN : LastAre(new, 0, x)
  <2>1. Len(recent'[b]) \in Nat
    BY <1>1, <1>2, RememberedIs
  <2> QED
    BY <2>1 DEF LastAre
<1>6. \A x \in BOOLEAN : \A n, m \in Nat : m <= n /\ LastAre(old, n, x) => LastAre(old, m, x)
  BY <1>2, ShorterRun
<1>7. CASE ok
  <2>1. f.fails = 0 /\ f.oks = UpTo(e.oks + 1, SuccessThreshold)
    BY <1>7 DEF AfterSuccess
  <2>2. /\ f.oks \in 1..Keep /\ f.oks - 1 \in Nat /\ f.oks - 1 <= e.oks
        /\ f.oks < SuccessThreshold => f.oks = e.oks + 1 /\ f.oks + 1 \in 1..Keep
    BY <1>1, <2>1 DEF UpTo
  <2> HIDE DEF old, new, e, f
  <2>3. \A n \in 1..Keep : (LastAre(new, n, TRUE) <=> LastAre(old, n - 1, TRUE)) /\ ~LastAre(new, n, FALSE)
    <3>1. ok = TRUE
      BY <1>7
    <3> QED
      BY <1>4, <3>1
  <2>4. LastAre(new, f.oks, TRUE)
    BY <1>1, <1>3, <1>6, <2>2, <2>3
  <2>5. f.oks < SuccessThreshold => ~LastAre(new, f.oks + 1, TRUE)
    <3> SUFFICES ASSUME f.oks < SuccessThreshold PROVE ~LastAre(new, f.oks + 1, TRUE)
      OBVIOUS
    <3>1. (f.oks + 1) - 1 = e.oks + 1 /\ e.oks < SuccessThreshold
      BY <1>1, <2>2
    <3>2. LastAre(new, f.oks + 1, TRUE) <=> LastAre(old, (f.oks + 1) - 1, TRUE)
      <4>1. f.oks + 1 \in 1..Keep
        BY <2>2
      <4> QED
        BY <2>3, <4>1
    <3>3. ~LastAre(old, e.oks + 1, TRUE)
      BY <1>3, <3>1
    <3> QED
      BY <3>1, <3>2, <3>3
  <2>6. LastAre(new, f.fails, FALSE) /\ ~LastAre(new, f.fails + 1, FALSE)
    <3>1. 1 \in 1..Keep /\ f.fails + 1 = 1
      BY <1>1, <2>1
    <3> QED
      BY <1>5, <2>1, <2>3, <3>1
  <2> QED
    BY <2>4, <2>5, <2>6 DEF CountsRuns, new, f
<1>8. CASE ~ok
  <2>1. f.oks = 0 /\ f.fails = UpTo(e.fails + 1, FailureThreshold)
    BY <1>8 DEF AfterFailure
  <2>2. /\ f.fails \in 1..Keep /\ f.fails - 1 \in Nat /\ f.fails - 1 <= e.fails
        /\ f.fails < FailureThreshold => f.fails = e.fails + 1 /\ f.fails + 1 \in 1..Keep
    BY <1>1, <2>1 DEF UpTo
  <2> HIDE DEF old, new, e, f
  <2>3. \A n \in 1..Keep : (LastAre(new, n, FALSE) <=> LastAre(old, n - 1, FALSE)) /\ ~LastAre(new, n, TRUE)
    <3>1. ok = FALSE
      BY <1>8
    <3> QED
      BY <1>4, <3>1
  <2>4. LastAre(new, f.fails, FALSE)
    BY <1>1, <1>3, <1>6, <2>2, <2>3
  <2>5. f.fails < FailureThreshold => ~LastAre(new, f.fails + 1, FALSE)
    <3> SUFFICES ASSUME f.fails < FailureThreshold PROVE ~LastAre(new, f.fails + 1, FALSE)
      OBVIOUS
    <3>1. (f.fails + 1) - 1 = e.fails + 1 /\ e.fails < FailureThreshold
      BY <1>1, <2>2
    <3>2. LastAre(new, f.fails + 1, FALSE) <=> LastAre(old, (f.fails + 1) - 1, FALSE)
      <4>1. f.fails + 1 \in 1..Keep
        BY <2>2
      <4> QED
        BY <2>3, <4>1
    <3>3. ~LastAre(old, e.fails + 1, FALSE)
      BY <1>3, <3>1
    <3> QED
      BY <3>1, <3>2, <3>3
  <2>6. LastAre(new, f.oks, TRUE) /\ ~LastAre(new, f.oks + 1, TRUE)
    <3>1. 1 \in 1..Keep /\ f.oks + 1 = 1
      BY <1>1, <2>1
    <3> QED
      BY <1>5, <2>1, <2>3, <3>1
  <2> QED
    BY <2>4, <2>5, <2>6 DEF CountsRuns, new, f
<1> QED
  BY <1>7, <1>8

\* What a result does to the rest of the entry.
LEMMA ResultEntry ==
  ASSUME NEW e \in Entry, NEW ok \in BOOLEAN, NEW f,
         f = IF ok THEN AfterSuccess(e) ELSE AfterFailure(e),
         e.circuit > 0 => ~e.healthy,
         e.fails >= FailureThreshold => ~e.healthy,
         e.oks >= SuccessThreshold => e.healthy
  PROVE  /\ f \in Entry
         /\ f.fails = 0 \/ f.oks = 0
         /\ f.circuit > 0 => ~f.healthy
         /\ f.fails >= FailureThreshold => ~f.healthy
         /\ f.oks >= SuccessThreshold => f.healthy
         /\ e.healthy /\ ~f.healthy => f.fails = FailureThreshold
         /\ ~e.healthy /\ f.healthy => f.oks = SuccessThreshold
<1>1. /\ FailureThreshold \in Nat \ {0} /\ SuccessThreshold \in Nat \ {0}
      /\ CircuitBreakerTTL \in Nat \ {0}
      /\ e.healthy \in BOOLEAN /\ e.fails \in 0..FailureThreshold
      /\ e.oks \in 0..SuccessThreshold /\ e.circuit \in 0..CircuitBreakerTTL
  BY HealthAssumption DEF Entry
<1>2. CASE ok
  <2> DEFINE n == UpTo(e.oks + 1, SuccessThreshold)
  <2>1. /\ f.healthy = (e.healthy \/ n >= SuccessThreshold) /\ f.fails = 0 /\ f.oks = n
        /\ f.circuit = IF n >= SuccessThreshold THEN 0 ELSE e.circuit
        /\ f = [healthy |-> f.healthy, fails |-> f.fails, oks |-> f.oks, circuit |-> f.circuit]
    BY <1>2 DEF AfterSuccess
  <2>2. n \in 0..SuccessThreshold /\ (e.oks >= SuccessThreshold => n >= SuccessThreshold)
    BY <1>1 DEF UpTo
  <2> HIDE DEF n
  <2>3. f.circuit \in 0..CircuitBreakerTTL /\ (f.circuit > 0 => e.circuit > 0 /\ ~(n >= SuccessThreshold))
    BY <1>1, <2>1
  <2>4. f.fails \in 0..FailureThreshold /\ ~(f.fails >= FailureThreshold)
    BY <1>1, <2>1
  <2>5. f.healthy \in BOOLEAN
    BY <1>1, <2>1
  <2>6. f \in Entry
    BY <2>1, <2>2, <2>3, <2>4, <2>5 DEF Entry
  <2>7. n >= SuccessThreshold => n = SuccessThreshold
    BY <1>1, <2>2
  <2> QED
    BY <2>1, <2>3, <2>4, <2>6, <2>7, Zenon
<1>3. CASE ~ok
  <2> DEFINE n == UpTo(e.fails + 1, FailureThreshold)
  <2>1. /\ f.healthy = (e.healthy /\ n < FailureThreshold) /\ f.fails = n /\ f.oks = 0
        /\ f.circuit = IF n >= FailureThreshold THEN CircuitBreakerTTL ELSE e.circuit
        /\ f = [healthy |-> f.healthy, fails |-> f.fails, oks |-> f.oks, circuit |-> f.circuit]
    BY <1>3 DEF AfterFailure
  <2>2. n \in 0..FailureThreshold
    BY <1>1 DEF UpTo
  <2> HIDE DEF n
  <2>3. /\ f.circuit \in 0..CircuitBreakerTTL
        /\ f.circuit > 0 => e.circuit > 0 \/ ~(n < FailureThreshold)
    BY <1>1, <2>1, <2>2
  <2>4. f.oks \in 0..SuccessThreshold /\ ~(f.oks >= SuccessThreshold)
    BY <1>1, <2>1
  <2>5. f.healthy \in BOOLEAN
    BY <1>1, <2>1
  <2>6. f \in Entry
    BY <2>1, <2>2, <2>3, <2>4, <2>5 DEF Entry
  <2>7. /\ n >= FailureThreshold => ~(n < FailureThreshold)
        /\ ~(n < FailureThreshold) => n = FailureThreshold
    BY <1>1, <2>2
  <2> QED
    BY <2>1, <2>3, <2>4, <2>6, <2>7, Zenon
<1> QED
  BY <1>2, <1>3

\* What IInv says of one entry, in the form ResultEntry takes it.
LEMMA EntryInv ==
  ASSUME IInv, NEW b \in Backends
  PROVE  /\ health[b] \in Entry
         /\ health[b].circuit > 0 => ~health[b].healthy
         /\ health[b].fails >= FailureThreshold => ~health[b].healthy
         /\ health[b].oks >= SuccessThreshold => health[b].healthy
  BY DEF IInv, HealthTypeOK, CircuitAddsNothing, CircuitOpen

\* A result preserves the invariant.
LEMMA RecordStep ==
  ASSUME NEW b \in Backends, NEW ok \in BOOLEAN, IInv, Enabled, Record(b, ok)
  PROVE  IInv'
<1> DEFINE f == IF ok THEN AfterSuccess(health[b]) ELSE AfterFailure(health[b])
<1>1. /\ health' = [health EXCEPT ![b] = f]
      /\ recent' = [recent EXCEPT ![b] = Remembered(b, ok)]
  BY DEF Record
<1>2. /\ health'[b] = f /\ recent'[b] = Remembered(b, ok)
      /\ \A a \in Backends : a # b => health'[a] = health[a] /\ recent'[a] = recent[a]
  BY <1>1 DEF IInv, HealthTypeOK
<1>3. /\ f \in Entry
      /\ f.fails = 0 \/ f.oks = 0
      /\ f.circuit > 0 => ~f.healthy
      /\ f.fails >= FailureThreshold => ~f.healthy
      /\ f.oks >= SuccessThreshold => f.healthy
  BY ResultEntry, EntryInv
<1> HIDE DEF f
<1>4. Remembered(b, ok) \in Seq(BOOLEAN) /\ Len(Remembered(b, ok)) <= Keep
  BY RememberedIs, KeepBounds DEF IInv, HealthTypeOK
<1>5. HealthTypeOK'
  BY <1>1, <1>2, <1>3, <1>4 DEF IInv, HealthTypeOK
<1>6. CircuitAddsNothing'
  BY <1>2, <1>3 DEF IInv, CircuitAddsNothing, CircuitOpen
<1>7. CountsRuns(b)'
  BY <1>2, ResultCounts DEF f
<1>8. ASSUME NEW a \in Backends, a # b PROVE CountsRuns(a)'
  BY <1>2, <1>8 DEF IInv, CountsRuns
<1>9. ASSUME NEW a \in Backends
      PROVE  /\ health'[a].fails >= FailureThreshold => ~health'[a].healthy
             /\ health'[a].oks >= SuccessThreshold => health'[a].healthy
  BY <1>2, <1>3 DEF IInv
<1> QED
  BY <1>5, <1>6, <1>7, <1>8, <1>9 DEF IInv

\* Time passing only shortens the circuits.
LEMMA ElapseStep == IInv /\ Elapse => IInv'
<1> SUFFICES ASSUME IInv, Elapse PROVE IInv'
  OBVIOUS
<1>1. ASSUME NEW b \in Backends
      PROVE  /\ health'[b] \in Entry /\ recent'[b] = recent[b]
             /\ health'[b].fails = health[b].fails /\ health'[b].oks = health[b].oks
             /\ health'[b].healthy = health[b].healthy
             /\ health'[b].circuit > 0 => health[b].circuit > 0
  BY HealthAssumption DEF Elapse, IInv, HealthTypeOK, Entry
<1>2. HealthTypeOK'
  BY <1>1 DEF Elapse, IInv, HealthTypeOK
<1>3. CircuitAddsNothing'
  BY <1>1 DEF IInv, CircuitAddsNothing, CircuitOpen
<1>4. ASSUME NEW b \in Backends
      PROVE  /\ CountsRuns(b)'
             /\ health'[b].fails >= FailureThreshold => ~health'[b].healthy
             /\ health'[b].oks >= SuccessThreshold => health'[b].healthy
  BY <1>1 DEF IInv, CountsRuns
<1> QED
  BY <1>2, <1>3, <1>4 DEF IInv

\* Every step of the checker, and stuttering, preserves the invariant.
LEMMA NextStep == IInv /\ [HealthNext]_healthVars => IInv'
<1> SUFFICES ASSUME IInv, [HealthNext]_healthVars PROVE IInv'
  OBVIOUS
<1>1. ASSUME UNCHANGED healthVars PROVE IInv'
  BY <1>1 DEF healthVars, IInv, HealthTypeOK, CircuitAddsNothing, CircuitOpen, CountsRuns
<1>2. ASSUME NEW b \in Backends, NEW ok \in BOOLEAN, Record(b, ok) PROVE IInv'
  <2>1. CASE Enabled
    BY <1>2, <2>1, RecordStep
  <2>2. CASE ~Enabled
    BY <1>1, <1>2, <2>2 DEF Record
  <2> QED
    BY <2>1, <2>2
<1>3. CASE Elapse
  BY <1>3, ElapseStep
<1> QED
  BY <1>1, <1>2, <1>3 DEF HealthNext, RecordFailure, RecordSuccess

\* The invariant holds in every reachable state of the checker.
THEOREM HealthInvariant == HealthSpec => []IInv
<1>1. HealthInit => IInv
  BY InitIInv
<1>2. IInv /\ [HealthNext]_healthVars => IInv'
  BY NextStep
<1> QED
  BY <1>1, <1>2, PTL DEF HealthSpec

\* Type correctness of the checker's entries.
THEOREM HealthTypes == HealthSpec => []HealthTypeOK
<1>1. IInv => HealthTypeOK
  BY DEF IInv
<1> QED
  BY <1>1, HealthInvariant, PTL

\* The circuit of circuit_breaker_ttl never decides whether the status path is
\* cut off: whenever it is open the backend is unhealthy anyway.
THEOREM CircuitIsRedundant == HealthSpec => []CircuitAddsNothing
<1>1. IInv => CircuitAddsNothing
  BY DEF IInv
<1> QED
  BY <1>1, HealthInvariant, PTL

\* A full run of results has decided the backend's state.  The counter of that
\* kind of result has reached its threshold, or the run would contain one of
\* the length that the counter says there is not.
THEOREM StateFollowsRuns == HealthSpec => []FollowsRuns
<1>1. IInv => FollowsRuns
  <2> SUFFICES ASSUME IInv, NEW b \in Backends
               PROVE  /\ LastAre(recent[b], FailureThreshold, FALSE) => ~health[b].healthy
                      /\ LastAre(recent[b], SuccessThreshold, TRUE) => health[b].healthy
    BY DEF FollowsRuns
  <2>1. /\ recent[b] \in Seq(BOOLEAN)
        /\ health[b].fails \in 0..FailureThreshold /\ health[b].oks \in 0..SuccessThreshold
    BY DEF IInv, HealthTypeOK, Entry
  <2>2. ASSUME LastAre(recent[b], FailureThreshold, FALSE)
        PROVE  health[b].fails >= FailureThreshold
    <3> SUFFICES ASSUME health[b].fails < FailureThreshold PROVE FALSE
      BY <2>1, HealthAssumption
    <3>1. /\ FailureThreshold \in Nat /\ health[b].fails + 1 \in Nat
          /\ health[b].fails + 1 <= FailureThreshold
      BY <2>1, HealthAssumption
    <3>2. LastAre(recent[b], health[b].fails + 1, FALSE)
      BY <2>1, <2>2, <3>1, ShorterRun
    <3> QED
      BY <3>2 DEF IInv, CountsRuns
  <2>3. ASSUME LastAre(recent[b], SuccessThreshold, TRUE)
        PROVE  health[b].oks >= SuccessThreshold
    <3> SUFFICES ASSUME health[b].oks < SuccessThreshold PROVE FALSE
      BY <2>1, HealthAssumption
    <3>1. /\ SuccessThreshold \in Nat /\ health[b].oks + 1 \in Nat
          /\ health[b].oks + 1 <= SuccessThreshold
      BY <2>1, HealthAssumption
    <3>2. LastAre(recent[b], health[b].oks + 1, TRUE)
      BY <2>1, <2>3, <3>1, ShorterRun
    <3> QED
      BY <3>2 DEF IInv, CountsRuns
  <2> QED
    BY <2>2, <2>3 DEF IInv
<1> QED
  BY <1>1, HealthInvariant, PTL

\* Hysteresis: a backend changes state only with a full run of results.
THEOREM FlipsNeedRuns == HealthSpec => FlipsOnlyAfterRuns
<1> DEFINE Flips ==
      \A b \in Backends :
        /\ health[b].healthy /\ ~health'[b].healthy =>
              LastAre(recent'[b], FailureThreshold, FALSE)
        /\ ~health[b].healthy /\ health'[b].healthy =>
              LastAre(recent'[b], SuccessThreshold, TRUE)
<1>1. IInv /\ IInv' /\ [HealthNext]_healthVars => [Flips]_healthVars
  <2> SUFFICES ASSUME IInv, IInv', HealthNext, NEW b \in Backends,
                      health[b].healthy # health'[b].healthy
               PROVE  /\ health[b].healthy /\ ~health'[b].healthy =>
                            LastAre(recent'[b], FailureThreshold, FALSE)
                      /\ ~health[b].healthy /\ health'[b].healthy =>
                            LastAre(recent'[b], SuccessThreshold, TRUE)
    BY DEF healthVars
  <2>1. PICK a \in Backends, ok \in BOOLEAN : Enabled /\ Record(a, ok)
    <3>1. ~Elapse
      BY DEF Elapse, IInv, HealthTypeOK, Entry
    <3> QED
      BY <3>1 DEF HealthNext, RecordFailure, RecordSuccess, Record, healthVars
  <2>2. health'[b] = IF ok THEN AfterSuccess(health[b]) ELSE AfterFailure(health[b])
    BY <2>1 DEF Record, IInv, HealthTypeOK
  <2>3. /\ health[b].healthy /\ ~health'[b].healthy => health'[b].fails = FailureThreshold
        /\ ~health[b].healthy /\ health'[b].healthy => health'[b].oks = SuccessThreshold
    BY <2>2, ResultEntry, EntryInv
  <2>4. /\ LastAre(recent'[b], health'[b].fails, FALSE)
        /\ LastAre(recent'[b], health'[b].oks, TRUE)
    BY DEF IInv, CountsRuns
  <2> QED
    BY <2>3, <2>4
<1> QED
  BY <1>1, HealthInvariant, PTL DEF HealthSpec, FlipsOnlyAfterRuns

-----------------------------------------------------------------------------
\* The targets left in a round are the last ones of the list.
Rest(i) == SubSeq(Targets, i, Len(Targets))

LoopTypes ==
    /\ prober \in {"tick", "probe", "report", "stopped"}
    /\ \E i \in 1..(Len(Targets) + 1) : todo = Rest(i)
    /\ todo = << >> <=> prober \in {"tick", "stopped"}
    /\ result \in BOOLEAN
    /\ result => prober = "report"

OtherTypes ==
    /\ query \in [Queries -> {NoQuery} \cup Query]
    /\ mode \in [Backends -> Modes]
    /\ blemished \subseteq Backends

\* Failures on their way to the record are failures of the backend they go to,
\* and those that have arrived were.
Owned ==
    /\ prober = "report" /\ ~result => Head(todo) \in blemished
    /\ \A q \in Queries :
          query[q] # NoQuery /\ query[q].state = "heard" /\ ~query[q].ok =>
             query[q].backend \in blemished
    /\ \A b \in Backends : b \notin blemished => health[b].healthy

Inv == IInv /\ LoopTypes /\ OtherTypes /\ Owned

LEMMA TargetList ==
    /\ Targets \in Seq(Backends) /\ Len(Targets) \in Nat
    /\ \A i \in 1..Len(Targets) : Targets[i] \in Backends
BY ProberAssumption, LenProperties, ElementOfSeq

\* What is left: nothing past the end, else a first target and what follows it.
LEMMA RestOf ==
    ASSUME NEW i \in 1..(Len(Targets) + 1)
    PROVE  /\ i = Len(Targets) + 1 => Rest(i) = << >>
           /\ i <= Len(Targets) => /\ Rest(i) # << >>
                                   /\ Head(Rest(i)) \in Backends
                                   /\ Tail(Rest(i)) = Rest(i + 1)
<1>1. CASE i = Len(Targets) + 1
  BY <1>1, TargetList, SubSeqEmpty, SMT DEF Rest
<1>2. CASE i <= Len(Targets)
  <2> DEFINE n == Len(Targets)
  <2>0. i \in Nat /\ n \in Nat /\ 1 <= i /\ i <= n
    BY <1>2, TargetList, SMT
  <2>1. /\ Rest(i) \in Seq(Backends) /\ Len(Rest(i)) = n - i + 1
        /\ \A k \in 1..(n - i + 1) : Rest(i)[k] = Targets[i + k - 1]
    BY <2>0, TargetList, SubSeqProperties, SMT DEF Rest
  <2>2. /\ Rest(i + 1) \in Seq(Backends) /\ Len(Rest(i + 1)) = n - i
        /\ \A k \in 1..(n - i) : Rest(i + 1)[k] = Targets[i + k]
    BY <2>0, TargetList, SubSeqProperties, SMT DEF Rest
  <2> HIDE DEF n
  <2>3. Rest(i) # << >>
    BY <2>0, <2>1, EmptySeq, SMT
  <2>4. Head(Rest(i)) = Targets[i]
    <3>1. Rest(i)[1] = Targets[i] BY <2>0, <2>1, SMT
    <3> QED BY <2>1, <2>3, <3>1, HeadTailProperties
  <2>5. Tail(Rest(i)) = Rest(i + 1)
    <3>1. /\ Tail(Rest(i)) \in Seq(Backends) /\ Len(Tail(Rest(i))) = n - i
          /\ \A k \in 1..(n - i) : Tail(Rest(i))[k] = Rest(i)[k + 1]
      BY <2>0, <2>1, <2>3, HeadTailProperties, SMT
    <3>2. \A k \in 1..(n - i) : Tail(Rest(i))[k] = Rest(i + 1)[k]
      BY <2>0, <2>1, <2>2, <3>1, SMT
    <3> QED BY <2>2, <3>1, <3>2, SeqEqual
  <2> QED BY <2>0, <2>3, <2>4, <2>5, TargetList, SMT DEF n
<1> QED BY <1>1, <1>2, TargetList, SMT

\* While something is left, it begins with a backend, and without it the rest is
\* a rest again.
LEMMA NextTarget ==
    ASSUME LoopTypes, todo # << >>
    PROVE  Head(todo) \in Backends /\ \E i \in 1..(Len(Targets) + 1) : Tail(todo) = Rest(i)
<1>1. PICK i \in 1..(Len(Targets) + 1) : todo = Rest(i)
  BY DEF LoopTypes
<1>2. i <= Len(Targets) /\ i + 1 \in 1..(Len(Targets) + 1)
  BY <1>1, RestOf, TargetList, SMT
<1> QED BY <1>1, <1>2, RestOf

\* A round that goes on with a rest.
LEMMA Continued ==
    ASSUME NEW i \in 1..(Len(Targets) + 1), Continue(Rest(i)), result' = FALSE
    PROVE  LoopTypes'
BY DEF Continue, LoopTypes, Rest

-----------------------------------------------------------------------------
LEMMA InitInv == Init => Inv
<1> SUFFICES ASSUME Init PROVE Inv
  OBVIOUS
<1>1. IInv
  BY InitIInv DEF Init
<1>2. LoopTypes
  <2>1. CASE ~Enabled
    <3>1. Rest(Len(Targets) + 1) = << >> /\ Len(Targets) + 1 \in 1..(Len(Targets) + 1)
      BY TargetList, RestOf, SMT
    <3> QED BY <2>1, <3>1 DEF Init, LoopTypes
  <2>2. CASE Enabled
    <3>1. Rest(1) = Targets /\ 1 \in 1..(Len(Targets) + 1)
      BY TargetList, SubSeqFull, SMT DEF Rest
    <3> QED BY <2>2, <3>1 DEF Init, LoopTypes
  <2> QED BY <2>1, <2>2
<1>3. OtherTypes
  BY ProberAssumption DEF Init, OtherTypes
<1>4. Owned
  BY DEF Init, HealthInit, Owned
<1> QED BY <1>1, <1>2, <1>3, <1>4 DEF Inv

-----------------------------------------------------------------------------
\* What a step does to the health record is report a result or let time pass.
LEMMA HealthSteps == Inv /\ [Next]_vars => [HealthNext]_healthVars
<1> SUFFICES ASSUME Inv, [Next]_vars PROVE [HealthNext]_healthVars
  OBVIOUS
<1>0. LoopTypes /\ OtherTypes
  BY DEF Inv
<1>1. ASSUME NEW b \in Backends, NEW ok \in BOOLEAN, Record(b, ok)
      PROVE  HealthNext
  BY <1>1 DEF HealthNext, RecordFailure, RecordSuccess
<1>2. CASE Report
  <2>1. Head(todo) \in Backends /\ result \in BOOLEAN
    <3>1. todo # << >>
      BY <1>0, <1>2 DEF LoopTypes, Report
    <3> QED BY <1>0, <3>1, NextTarget DEF LoopTypes
  <2> QED BY <1>1, <1>2, <2>1 DEF Report
<1>3. ASSUME NEW q \in Queries, Deliver(q) PROVE HealthNext
  <2>1. query[q] \in Query
    BY <1>0, <1>3 DEF OtherTypes, Deliver
  <2>2. query[q].backend \in Backends /\ query[q].ok \in BOOLEAN
    BY <2>1 DEF Query
  <2> QED BY <1>1, <1>3, <2>2 DEF Deliver
<1>4. CASE LetTimePass
  BY <1>4 DEF LetTimePass, HealthNext
<1>5. CASE StartRound \/ Stop \/ Probe \/ Cancel
  BY <1>5 DEF StartRound, Stop, Probe, Cancel
<1>6. ASSUME NEW q \in Queries, NEW b \in Backends, Ask(q, b)
      PROVE  UNCHANGED healthVars
  BY <1>6 DEF Ask
<1>7. ASSUME NEW q \in Queries, Answer(q) PROVE UNCHANGED healthVars
  BY <1>7 DEF Answer
<1>8. ASSUME NEW b \in Backends, Switch(b) PROVE UNCHANGED healthVars
  BY <1>8 DEF Switch
<1>9. CASE UNCHANGED vars
  BY <1>9 DEF vars, healthVars
<1> QED
  BY <1>2, <1>3, <1>4, <1>5, <1>6, <1>7, <1>8, <1>9 DEF Next, Loop

\* The places and the targets left, step by step.
LEMMA LoopSteps == Inv /\ [Next]_vars => LoopTypes'
<1> SUFFICES ASSUME Inv, [Next]_vars PROVE LoopTypes'
  OBVIOUS
<1>0. LoopTypes
  BY DEF Inv
<1>1. ASSUME UNCHANGED loopVars PROVE LoopTypes'
  BY <1>0, <1>1 DEF LoopTypes, loopVars, Rest
<1>2. CASE StartRound
  <2>1. Rest(1) = Targets /\ 1 \in 1..(Len(Targets) + 1)
    BY TargetList, SubSeqFull, SMT DEF Rest
  <2>2. result' = FALSE
    BY <1>0, <1>2 DEF StartRound, LoopTypes
  <2> QED BY <1>2, <2>1, <2>2, Continued DEF StartRound
<1>3. CASE Stop
  BY <1>0, <1>3 DEF Stop, LoopTypes, Rest
<1>4. CASE Probe
  <2>1. result' \in BOOLEAN
    <3> DEFINE ok == mode[Head(todo)] \in ProbeSucceeds
    <3>1. ok \in BOOLEAN
      OBVIOUS
    <3>2. result' \in {ok} \cup (IF cancelled THEN {FALSE} ELSE {})
      BY <1>4 DEF Probe
    <3> HIDE DEF ok
    <3> QED BY <3>1, <3>2
  <2>2. todo' = todo /\ prober = "probe" /\ prober' = "report"
    BY <1>4 DEF Probe
  <2> QED BY <1>0, <2>1, <2>2 DEF LoopTypes, Rest
<1>5. CASE Report
  <2>1. todo # << >>
    BY <1>0, <1>5 DEF LoopTypes, Report
  <2>2. PICK i \in 1..(Len(Targets) + 1) : Tail(todo) = Rest(i)
    BY <1>0, <2>1, NextTarget
  <2> QED BY <1>5, <2>2, Continued DEF Report
<1>6. CASE LetTimePass \/ Cancel
  BY <1>1, <1>6 DEF LetTimePass, Cancel
<1>7. ASSUME NEW q \in Queries, NEW b \in Backends, Ask(q, b)
      PROVE  UNCHANGED loopVars
  BY <1>7 DEF Ask
<1>8. ASSUME NEW q \in Queries, Answer(q) \/ Deliver(q) PROVE UNCHANGED loopVars
  BY <1>8 DEF Answer, Deliver
<1>9. ASSUME NEW b \in Backends, Switch(b) PROVE UNCHANGED loopVars
  BY <1>9 DEF Switch
<1>10. CASE UNCHANGED vars
  BY <1>1, <1>10 DEF vars, loopVars
<1> QED
  BY <1>1, <1>2, <1>3, <1>4, <1>5, <1>6, <1>7, <1>8, <1>9, <1>10 DEF Next, Loop

\* Queries, modes and blemishes, step by step.
LEMMA OtherSteps == Inv /\ [Next]_vars => OtherTypes'
<1> SUFFICES ASSUME Inv, [Next]_vars PROVE OtherTypes'
  OBVIOUS
<1>0. LoopTypes /\ OtherTypes
  BY DEF Inv
<1>1. ASSUME UNCHANGED <<query, mode, blemished>> PROVE OtherTypes'
  BY <1>0, <1>1 DEF OtherTypes
<1>2. CASE Probe
  <2>1. Head(todo) \in Backends
    <3>1. todo # << >>
      BY <1>0, <1>2 DEF LoopTypes, Probe
    <3> QED BY <1>0, <3>1, NextTarget
  <2> QED BY <1>0, <1>2, <2>1 DEF Probe, OtherTypes
<1>3. CASE StartRound \/ Stop \/ Report \/ LetTimePass \/ Cancel
  BY <1>1, <1>3 DEF StartRound, Stop, Report, LetTimePass, Cancel
<1>4. ASSUME NEW q \in Queries, NEW b \in Backends, Ask(q, b) PROVE OtherTypes'
  <2>1. [backend |-> b, state |-> "asked", ok |-> FALSE] \in Query
    BY DEF Query
  <2> QED BY <1>0, <1>4, <2>1 DEF Ask, OtherTypes
<1>5. ASSUME NEW q \in Queries, Answer(q) PROVE OtherTypes'
  <2> DEFINE b  == query[q].backend
             ok == mode[b] \in QuerySucceeds
             new == [backend |-> b, state |-> "heard", ok |-> ok]
  <2>1. query[q] \in Query
    BY <1>0, <1>5 DEF OtherTypes, Answer
  <2>2. b \in Backends
    BY <2>1 DEF Query
  <2>3. new \in Query
    BY <2>2 DEF Query
  <2>4. /\ query' = [query EXCEPT ![q] = new]
        /\ blemished' = IF ok THEN blemished ELSE blemished \cup {b}
        /\ mode' = mode
    BY <1>5 DEF Answer
  <2> HIDE DEF b, ok, new
  <2>5. query' \in [Queries -> {NoQuery} \cup Query]
    BY <1>0, <2>3, <2>4 DEF OtherTypes
  <2>6. blemished' \subseteq Backends
    BY <1>0, <2>2, <2>4 DEF OtherTypes
  <2> QED BY <1>0, <2>4, <2>5, <2>6 DEF OtherTypes
<1>6. ASSUME NEW q \in Queries, Deliver(q) PROVE OtherTypes'
  BY <1>0, <1>6 DEF Deliver, OtherTypes
<1>7. ASSUME NEW b \in Backends, Switch(b) PROVE OtherTypes'
  BY <1>0, <1>7 DEF Switch, OtherTypes
<1>8. CASE UNCHANGED vars
  BY <1>1, <1>8 DEF vars
<1> QED
  BY <1>2, <1>3, <1>4, <1>5, <1>6, <1>7, <1>8 DEF Next, Loop

-----------------------------------------------------------------------------
\* A recorded result marks a backend only if it is a failure.
LEMMA RecordOwned ==
    ASSUME Inv, NEW b \in Backends, NEW ok \in BOOLEAN, Record(b, ok),
           ok \/ b \in blemished,
           NEW x \in Backends, x \notin blemished
    PROVE  health'[x].healthy
<1>1. health \in [Backends -> Entry] /\ health[x].healthy
  BY DEF Inv, IInv, HealthTypeOK, Owned
<1>2. CASE ~Enabled
  BY <1>1, <1>2 DEF Record, healthVars
<1>3. CASE Enabled /\ x # b
  <2>1. health' = [health EXCEPT ![b] = IF ok THEN AfterSuccess(@) ELSE AfterFailure(@)]
    BY <1>3 DEF Record
  <2> QED BY <1>1, <1>3, <2>1
<1>4. CASE Enabled /\ x = b
  <2>1. ok
    BY <1>4
  <2>2. health' = [health EXCEPT ![b] = AfterSuccess(@)]
    BY <1>4, <2>1 DEF Record
  <2>3. health'[x] = AfterSuccess(health[x])
    BY <1>1, <1>4, <2>2
  <2>4. AfterSuccess(health[x]).healthy
          = (health[x].healthy \/ UpTo(health[x].oks + 1, SuccessThreshold) >= SuccessThreshold)
    BY DEF AfterSuccess
  <2> QED BY <1>1, <2>3, <2>4, Zenon
<1> QED BY <1>2, <1>3, <1>4

\* Time passing changes no backend's verdict.
LEMMA ElapseOwned ==
    ASSUME Inv, Elapse, NEW x \in Backends
    PROVE  health'[x].healthy = health[x].healthy
<1>1. health \in [Backends -> Entry]
  BY DEF Inv, IInv, HealthTypeOK
<1> QED BY <1>1 DEF Elapse, Entry

LEMMA OwnedSteps == Inv /\ [Next]_vars => Owned'
<1> SUFFICES ASSUME Inv, [Next]_vars PROVE Owned'
  OBVIOUS
<1>0. LoopTypes /\ OtherTypes /\ Owned
  BY DEF Inv
<1>1. ASSUME UNCHANGED <<prober, todo, result>>, UNCHANGED query, UNCHANGED health,
             UNCHANGED blemished
      PROVE  Owned'
  BY <1>0, <1>1 DEF Owned
<1>2. CASE StartRound
  BY <1>0, <1>2 DEF StartRound, Continue, Owned, healthVars
<1>3. CASE Stop
  BY <1>0, <1>3 DEF Stop, Owned, healthVars
<1>4. CASE Probe
  BY <1>0, <1>4 DEF Probe, Owned, healthVars
<1>5. CASE Report
  <2>1. todo # << >> /\ prober = "report" /\ result \in BOOLEAN
    BY <1>0, <1>5 DEF LoopTypes, Report
  <2>2. Head(todo) \in Backends
    BY <1>0, <2>1, NextTarget
  <2>3. result \/ Head(todo) \in blemished
    BY <1>0, <2>1 DEF Owned
  <2>4. Record(Head(todo), result) /\ prober' # "report"
    BY <1>5 DEF Report, Continue
  <2>5. \A x \in Backends : x \notin blemished => health'[x].healthy
    BY <2>1, <2>2, <2>3, <2>4, RecordOwned
  <2>6. query' = query /\ blemished' = blemished
    BY <1>5 DEF Report
  <2> QED BY <1>0, <2>4, <2>5, <2>6 DEF Owned
<1>6. CASE LetTimePass
  <2>1. \A x \in Backends : health'[x].healthy = health[x].healthy
    BY <1>6, ElapseOwned DEF LetTimePass
  <2> QED BY <1>0, <1>6, <2>1 DEF LetTimePass, loopVars, Owned
<1>7. CASE Cancel
  BY <1>1, <1>7 DEF Cancel, healthVars, loopVars
<1>8. ASSUME NEW q \in Queries, NEW b \in Backends, Ask(q, b) PROVE Owned'
  <2>1. query'[q].state = "asked" /\ \A r \in Queries : r # q => query'[r] = query[r]
    BY <1>0, <1>8 DEF Ask, OtherTypes
  <2>2. UNCHANGED <<prober, todo, result, health, blemished>>
    BY <1>8 DEF Ask, healthVars, loopVars
  <2> QED BY <1>0, <2>1, <2>2 DEF Owned
<1>9. ASSUME NEW q \in Queries, Answer(q) PROVE Owned'
  <2>1. \A r \in Queries : r # q => query'[r] = query[r]
    BY <1>0, <1>9 DEF Answer, OtherTypes
  <2>2. ~query'[q].ok => query'[q].backend \in blemished'
    BY <1>0, <1>9 DEF Answer, OtherTypes
  <2>3. blemished \subseteq blemished'
    BY <1>9 DEF Answer
  <2>4. UNCHANGED <<prober, todo, result, health>>
    BY <1>9 DEF Answer, healthVars, loopVars
  <2> QED BY <1>0, <2>1, <2>2, <2>3, <2>4 DEF Owned
<1>10. ASSUME NEW q \in Queries, Deliver(q) PROVE Owned'
  <2>1. query[q] \in Query /\ query[q] # NoQuery
    BY <1>0, <1>10 DEF OtherTypes, Deliver
  <2>2. query[q].backend \in Backends /\ query[q].ok \in BOOLEAN
    BY <2>1 DEF Query
  <2>3. query[q].ok \/ query[q].backend \in blemished
    BY <1>0, <1>10 DEF Owned, Deliver
  <2>4. \A x \in Backends : x \notin blemished => health'[x].healthy
    BY <1>10, <2>2, <2>3, RecordOwned DEF Deliver
  <2>5. query'[q] = NoQuery /\ \A r \in Queries : r # q => query'[r] = query[r]
    BY <1>0, <1>10 DEF Deliver, OtherTypes
  <2>6. UNCHANGED <<prober, todo, result, blemished>>
    BY <1>10 DEF Deliver, loopVars
  <2> QED BY <1>0, <2>4, <2>5, <2>6 DEF Owned
<1>11. ASSUME NEW b \in Backends, Switch(b) PROVE Owned'
  BY <1>1, <1>11 DEF Switch, healthVars, loopVars
<1>12. CASE UNCHANGED vars
  BY <1>1, <1>12 DEF vars
<1> QED
  BY <1>2, <1>3, <1>4, <1>5, <1>6, <1>7, <1>8, <1>9, <1>10, <1>11, <1>12 DEF Next, Loop

-----------------------------------------------------------------------------
\* The inductive invariant: the record's own (IInv), where the loop is in its
\* round, and that failures on their way are their backend's own.
LEMMA ProberInvariant == Spec => []Inv
<1>1. Init => Inv
  BY InitInv
<1>2. Inv /\ [Next]_vars => Inv'
  <2>1. Inv /\ [Next]_vars => IInv'
    BY HealthSteps, NextStep DEF Inv
  <2> QED BY <2>1, LoopSteps, OtherSteps, OwnedSteps DEF Inv
<1> QED BY <1>1, <1>2, PTL DEF Spec

\* The loop is always inside its list of targets, holds a result exactly between
\* a probe and its report, and the record keeps its types.
THEOREM ProberTypes == Spec => []TypeOK
<1>1. Inv => TypeOK
  BY DEF Inv, IInv, LoopTypes, OtherTypes, TypeOK, Rest
<1> QED BY <1>1, ProberInvariant, PTL

\* Whatever the number of targets and however late the reports, a backend that has
\* answered every probe and query is never treated as unhealthy.
THEOREM NeighboursAreNotBlamed == Spec => []NoBlameWithoutFailure
<1>1. Inv => NoBlameWithoutFailure
  <2> SUFFICES ASSUME Inv, NEW b \in Backends, b \notin blemished PROVE ~Unhealthy(b)
    BY DEF NoBlameWithoutFailure
  <2>1. health[b].healthy
    BY DEF Inv, Owned
  <2>2. ~CircuitOpen(b)
    BY <2>1 DEF Inv, IInv, CircuitAddsNothing
  <2> QED BY <2>1, <2>2 DEF Unhealthy
<1> QED BY <1>1, ProberInvariant, PTL

\* The probe loop and the status connections beside it use the record as its module
\* says: no step of theirs does to it anything but report a result.
THEOREM ProberUsesHealth == Spec => HealthSpec
<1>1. Init => HealthInit
  BY DEF Init
<1>2. Inv /\ [Next]_vars => [HealthNext]_healthVars
  BY HealthSteps
<1> QED BY <1>1, <1>2, ProberInvariant, PTL DEF Spec, HealthSpec

\* What is proved of the record holds beside the probe loop and the status
\* connections: the state follows the runs of results in whatever order the
\* probes and the queries report them, and the circuit never decides.
THEOREM HysteresisBesideProbes ==
    Spec => [](FollowsRuns /\ CircuitAddsNothing) /\ FlipsOnlyAfterRuns
BY ProberUsesHealth, StateFollowsRuns, CircuitIsRedundant, FlipsNeedRuns, PTL
=============================================================================
