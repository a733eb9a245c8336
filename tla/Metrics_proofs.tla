--------------------------- MODULE Metrics_proofs ---------------------------
(***************************************************************************)
(* Proofs about the recorder, for any number of connections, scrapes and   *)
(* probes: the gauge is exact, the mutex excludes, and what a scrape       *)
(* answers is true of one moment.                                          *)
(***************************************************************************)
EXTENDS Metrics, FiniteSetTheorems, TLAPS

\* What a handler may have left of its script.
Rests ==
    Scripts \cup
    {<<"block_ip">>, <<"block_player">>, <<"fallback">>,
     <<"dial_failed", "fallback">>, <<"dial_failed", "status">>}

Tally == [ok : Nat, failed : Nat]

Places == {"free", "work", "call", "record"}

Types ==
    /\ script \in [Conns -> Rests]
    /\ at \in [Conns -> Places]
    /\ \A c \in Conns : at[c] = "free" => script[c] = << >>
    /\ \A c \in Conns : at[c] = "record" => script[c] # << >> /\ ~Counting(c)
    /\ active \in Nat
    /\ total \in [Counters -> Nat]
    /\ health \in Tally /\ others \in Tally
    /\ mu \in Scrapers \cup {None}
    /\ scrape \in [Scrapers -> {"idle", "waiting", "locked", "asking", "copying", "writing"}]
    /\ snap \in [Scrapers -> [active : Nat, health : Tally, others : Tally]]
    /\ \A s \in Scrapers : (mu = s) <=> scrape[s] \in {"locked", "asking", "copying"}

\* Whoever holds the health record's mutex is in it.
Held ==
    /\ hmu \in Conns \cup Scrapers \cup {Checker, None}
    /\ \A c \in Conns : (hmu = c) <=> at[c] = "record"
    /\ \A s \in Scrapers : (hmu = s) <=> scrape[s] = "asking"

\* Connections being handled, and those whose next call is one of K.
Busy == {c \in Conns : at[c] # "free"}
Due(K) == {c \in Conns : script[c] # << >> /\ Head(script[c]) \in K}
Owed(K) == Cardinality(Due(K))

Answers == {"status", "fallback"}
Queries == total["status"] + total["fallback"]

\* What has been counted and what is still to be counted belong together.
Accounts ==
    /\ active = Cardinality(Busy)
    /\ total["block_ip"] + Owed({"block_ip"}) = total["ip_banned"]
    /\ total["block_player"] + Owed({"block_player"}) = total["player_banned"]
    /\ total["breaker"] <= Queries + Owed(Answers)
    /\ health.ok <= others.ok + Queries + Owed(Answers)
    /\ health.failed + Owed({"dial_failed"}) <= others.failed + total["dial_error"]

\* A scrape that holds the mutex has a gauge that is still right, and what it has
\* copied of the health record fits the counters.
Snapped ==
    \A s \in Scrapers :
        /\ scrape[s] \in {"locked", "asking", "copying"} => snap[s].active = active
        /\ scrape[s] = "copying" =>
              /\ snap[s].health.ok <= snap[s].others.ok + Queries + active
              /\ snap[s].health.failed <= snap[s].others.failed + total["dial_error"]

Inv == Types /\ Held /\ Accounts /\ Snapped

-----------------------------------------------------------------------------
\* The first call of a script and what follows it, by length.
LEMMA Tuples ==
    ASSUME NEW a, NEW b, NEW c
    PROVE  /\ <<a>> # << >> /\ <<a, b>> # << >> /\ <<a, b, c>> # << >>
           /\ Head(<<a>>) = a /\ Tail(<<a>>) = << >>
           /\ Head(<<a, b>>) = a /\ Tail(<<a, b>>) = <<b>>
           /\ Head(<<a, b, c>>) = a /\ Tail(<<a, b, c>>) = <<b, c>>
<1>2. <<a>> # << >> /\ <<a, b>> # << >> /\ <<a, b, c>> # << >>
  OBVIOUS
<1>3. Head(<<a>>) = a /\ Head(<<a, b>>) = a /\ Head(<<a, b, c>>) = a
  OBVIOUS
<1>4. Tail(<<a>>) = << >>
  OBVIOUS
<1>5. Tail(<<a, b>>) = <<b>>
  OBVIOUS
<1>6. Tail(<<a, b, c>>) = <<b, c>>
  OBVIOUS
<1> QED BY <1>2, <1>3, <1>4, <1>5, <1>6

\* What follows a call in a script: its block after a banned login, the answer
\* after a backend's result or a gate, the health record's after a failed dial.
LEMMA Following ==
    ASSUME NEW r \in Rests, r # << >>
    PROVE  /\ Tail(r) \in Rests
           /\ Head(r) \in Counters \cup {"ok", "failed", "dial_failed"}
           /\ Tail(r) # << >> =>
                 /\ Head(Tail(r)) = "block_ip" <=> Head(r) = "ip_banned"
                 /\ Head(Tail(r)) = "block_player" <=> Head(r) = "player_banned"
                 /\ Head(Tail(r)) \in Answers => Head(r) \in {"breaker", "ok", "failed", "dial_failed"}
                 /\ Head(Tail(r)) = "dial_failed" => Head(r) = "dial_error"
           /\ Head(r) \in {"ip_banned", "player_banned", "breaker", "ok", "failed", "dial_failed"} =>
                 Tail(r) # << >>
           /\ Head(r) \in {"breaker", "ok", "failed", "dial_failed"} => Head(Tail(r)) \in Answers
<1> DEFINE Last == {"block_ip", "block_player", "fallback", "status", "none",
                    "record_failure", "record_success"}
           Firsts == {"ip_banned", "player_banned", "dial_error", "breaker", "dial_failed",
                      "ok", "failed"}
           First(a, b) == \/ a = "ip_banned" /\ b = "block_ip"
                          \/ a = "player_banned" /\ b = "block_player"
                          \/ a = "dial_error" /\ b = "none"
                          \/ a \in {"breaker", "dial_failed", "ok", "failed"} /\ b \in Answers
<1>1. \/ \E a \in Last : r = <<a>>
      \/ \E a \in Firsts, b \in Last : First(a, b) /\ r = <<a, b>>
      \/ \E b \in Answers : r = <<"dial_error", "dial_failed", b>>
  <2>1. CASE r \in {<<"block_ip">>, <<"block_player">>, <<"fallback">>, <<"status">>, <<"none">>,
                    <<"record_failure">>, <<"record_success">>}
    BY <2>1
  <2>2. CASE r \in {<<"dial_error", "dial_failed", "fallback">>,
                    <<"dial_error", "dial_failed", "status">>}
    BY <2>2 DEF Answers
  <2>3. ASSUME NEW a \in {"breaker", "dial_failed", "ok", "failed"}, NEW b \in Answers, r = <<a, b>>
        PROVE  \E x \in Firsts, y \in Last : First(x, y) /\ r = <<x, y>>
    <3>1. a \in Firsts
      BY SMT
    <3>2. b \in Last
      BY SMT DEF Answers
    <3>3. First(a, b)
      BY Zenon
    <3> QED BY <2>3, <3>1, <3>2, <3>3
  <2>4. CASE r \in {<<"breaker", "fallback">>, <<"breaker", "status">>,
                    <<"failed", "fallback">>, <<"failed", "status">>, <<"ok", "status">>,
                    <<"dial_failed", "fallback">>, <<"dial_failed", "status">>}
    <3>1. "fallback" \in Answers /\ "status" \in Answers
      BY DEF Answers
    <3> QED BY <2>3, <2>4, <3>1
  <2>5. CASE r \in {<<"ip_banned", "block_ip">>, <<"player_banned", "block_player">>,
                    <<"dial_error", "none">>}
    <3>1. First("ip_banned", "block_ip") /\ First("player_banned", "block_player")
          /\ First("dial_error", "none")
      OBVIOUS
    <3>2. "block_ip" \in Last /\ "block_player" \in Last /\ "none" \in Last
      OBVIOUS
    <3>3. "ip_banned" \in Firsts /\ "player_banned" \in Firsts /\ "dial_error" \in Firsts
      OBVIOUS
    <3> HIDE DEF First, Last, Firsts
    <3>4. CASE r = <<"ip_banned", "block_ip">>
      BY <3>1, <3>2, <3>3, <3>4, Zenon
    <3>5. CASE r = <<"player_banned", "block_player">>
      BY <3>1, <3>2, <3>3, <3>5, Zenon
    <3>6. CASE r = <<"dial_error", "none">>
      BY <3>1, <3>2, <3>3, <3>6, Zenon
    <3> QED BY <2>5, <3>4, <3>5, <3>6, Zenon
  <2> HIDE DEF First, Last, Firsts
  <2>6. CASE r \in StatusScripts
    BY <2>1, <2>2, <2>4, <2>6, Zenon DEF StatusScripts
  <2>7. CASE r \in LoginScripts
    BY <2>1, <2>5, <2>7, Zenon DEF LoginScripts
  <2>8. CASE r \in {<<"block_ip">>, <<"block_player">>, <<"fallback">>,
                    <<"dial_failed", "fallback">>, <<"dial_failed", "status">>}
    BY <2>1, <2>4, <2>8, Zenon
  <2> QED BY <2>6, <2>7, <2>8, Zenon DEF Rests, Scripts
<1>2. /\ \A a \in Last : <<a>> \in Rests
      /\ \A b \in Answers : <<"dial_failed", b>> \in Rests
      /\ << >> \in Rests
  BY SMTT(30) DEF Rests, Scripts, StatusScripts, LoginScripts, Answers
<1>3. ASSUME NEW a \in Last, r = <<a>> PROVE Head(r) = a /\ Tail(r) = << >>
  BY <1>3, Tuples
<1>4. ASSUME NEW a \in Firsts, NEW b \in Last, First(a, b), r = <<a, b>>
      PROVE  Head(r) = a /\ Tail(r) = <<b>> /\ Tail(r) # << >> /\ Head(Tail(r)) = b
  BY <1>4, Tuples
<1>5. ASSUME NEW b \in Answers, r = <<"dial_error", "dial_failed", b>>
      PROVE  /\ Head(r) = "dial_error" /\ Tail(r) = <<"dial_failed", b>> /\ Tail(r) # << >>
             /\ Head(Tail(r)) = "dial_failed"
  BY <1>5, Tuples
<1>6. CASE \E a \in Last : r = <<a>>
  BY <1>2, <1>3, <1>6, SMTT(30) DEF Counters
<1>7. CASE \E a \in Firsts, b \in Last : First(a, b) /\ r = <<a, b>>
  <2>1. PICK a \in Firsts, b \in Last : First(a, b) /\ r = <<a, b>>
    BY <1>7
  <2>2. Head(r) = a /\ Tail(r) = <<b>> /\ Tail(r) # << >> /\ Head(Tail(r)) = b
    BY <1>4, <2>1
  <2>3. Tail(r) \in Rests
    BY <1>2, <2>2
  <2>4. a \in Counters \cup {"ok", "failed", "dial_failed"}
    BY <2>1, SMTT(30) DEF Counters
  <2>5. /\ b = "block_ip" <=> a = "ip_banned"
        /\ b = "block_player" <=> a = "player_banned"
        /\ b \in Answers <=> a \in {"breaker", "ok", "failed", "dial_failed"}
        /\ b # "dial_failed"
    BY <2>1, SMTT(30) DEF Answers
  <2> QED BY <2>2, <2>3, <2>4, <2>5
<1>8. CASE \E b \in Answers : r = <<"dial_error", "dial_failed", b>>
  BY <1>2, <1>5, <1>8, SMTT(30) DEF Counters, Answers
<1> QED BY <1>1, <1>6, <1>7, <1>8

\* A handler that has just been given its connection owes nothing but an answer.
LEMMA Beginning ==
    ASSUME NEW r \in Scripts
    PROVE  /\ r \in Rests
           /\ r # << >> => Head(r) \notin {"block_ip", "block_player", "dial_failed"}
<1>1. r \in Rests
  BY DEF Rests
<1>2. ASSUME r # << >>, Head(r) \in {"block_ip", "block_player", "dial_failed"} PROVE FALSE
  <2>1. \/ r \in {<<"none">>, <<"record_failure">>, <<"record_success">>, <<"status">>}
        \/ \E a \in {"ip_banned", "player_banned", "dial_error", "breaker", "ok", "failed"},
              b \in STRING : r = <<a, b>>
        \/ \E b \in STRING : r = <<"dial_error", "dial_failed", b>>
    BY <1>2, SMTT(30) DEF Scripts, StatusScripts, LoginScripts
  <2> QED BY <1>2, <2>1, SMTT(30)
<1> QED BY <1>1, <1>2

-----------------------------------------------------------------------------
\* Sets of connections that differ in one connection at most.
LEMMA OneMoves ==
    ASSUME NEW A \in SUBSET Conns, NEW B \in SUBSET Conns, NEW c \in Conns,
           \A d \in Conns : d # c => (d \in A <=> d \in B)
    PROVE  /\ Cardinality(A) \in Nat /\ Cardinality(B) \in Nat
           /\ c \in A /\ c \notin B => Cardinality(B) = Cardinality(A) - 1
           /\ c \notin A /\ c \in B => Cardinality(B) = Cardinality(A) + 1
           /\ (c \in A <=> c \in B) => Cardinality(B) = Cardinality(A)
<1>1. IsFiniteSet(A) /\ IsFiniteSet(B)
  BY MetricsAssumption, FS_Subset
<1>2. Cardinality(A) \in Nat /\ Cardinality(B) \in Nat
  BY <1>1, FS_CardinalityType
<1>3. ASSUME c \in A, c \notin B PROVE Cardinality(B) = Cardinality(A) - 1
  <2>1. B = A \ {c} BY <1>3
  <2> QED BY <1>1, <1>3, <2>1, FS_RemoveElement
<1>4. ASSUME c \notin A, c \in B PROVE Cardinality(B) = Cardinality(A) + 1
  <2>1. B = A \cup {c} BY <1>4
  <2> QED BY <1>1, <1>4, <2>1, FS_AddElement
<1>5. ASSUME c \in A <=> c \in B PROVE Cardinality(B) = Cardinality(A)
  <2>1. B = A BY <1>5
  <2> QED BY <2>1
<1> QED BY <1>2, <1>3, <1>4, <1>5

\* What is owed when the script of one connection changes.
LEMMA DueMoves ==
    ASSUME NEW c \in Conns, \A d \in Conns : d # c => script'[d] = script[d], NEW K
    PROVE  /\ Owed(K) \in Nat /\ Owed(K)' \in Nat
           /\ c \in Due(K) /\ c \notin Due(K)' => Owed(K)' = Owed(K) - 1
           /\ c \notin Due(K) /\ c \in Due(K)' => Owed(K)' = Owed(K) + 1
           /\ (c \in Due(K) <=> c \in Due(K)') => Owed(K)' = Owed(K)
<1> DEFINE A == Due(K)
           B == {d \in Conns : script'[d] # << >> /\ Head(script'[d]) \in K}
<1>1. A \in SUBSET Conns /\ B \in SUBSET Conns
  BY DEF Due
<1>2. \A d \in Conns : d # c => (d \in A <=> d \in B)
  BY DEF Due
<1>3. Owed(K) = Cardinality(A) /\ Owed(K)' = Cardinality(B) /\ Due(K)' = B
  BY DEF Due, Owed
<1> HIDE DEF A, B
<1>4. /\ Cardinality(A) \in Nat /\ Cardinality(B) \in Nat
      /\ c \in A /\ c \notin B => Cardinality(B) = Cardinality(A) - 1
      /\ c \notin A /\ c \in B => Cardinality(B) = Cardinality(A) + 1
      /\ (c \in A <=> c \in B) => Cardinality(B) = Cardinality(A)
  BY <1>1, <1>2, OneMoves
<1> QED BY <1>3, <1>4 DEF A

\* The gauge's connections.
LEMMA BusyMoves ==
    ASSUME NEW c \in Conns, \A d \in Conns : d # c => at'[d] = at[d]
    PROVE  /\ Cardinality(Busy) \in Nat /\ Cardinality(Busy') \in Nat
           /\ c \in Busy /\ c \notin Busy' => Cardinality(Busy') = Cardinality(Busy) - 1
           /\ c \notin Busy /\ c \in Busy' => Cardinality(Busy') = Cardinality(Busy) + 1
           /\ (c \in Busy <=> c \in Busy') => Cardinality(Busy') = Cardinality(Busy)
<1> DEFINE A == Busy
           B == {d \in Conns : at'[d] # "free"}
<1>1. A \in SUBSET Conns /\ B \in SUBSET Conns /\ Busy' = B
  BY DEF Busy
<1>2. \A d \in Conns : d # c => (d \in A <=> d \in B)
  BY DEF Busy
<1> HIDE DEF A, B
<1>3. /\ Cardinality(A) \in Nat /\ Cardinality(B) \in Nat
      /\ c \in A /\ c \notin B => Cardinality(B) = Cardinality(A) - 1
      /\ c \notin A /\ c \in B => Cardinality(B) = Cardinality(A) + 1
      /\ (c \in A <=> c \in B) => Cardinality(B) = Cardinality(A)
  BY <1>1, <1>2, OneMoves
<1> QED BY <1>1, <1>3 DEF A

\* Whoever owes a call is in the gauge.
LEMMA OwedAreBusy ==
    ASSUME Types, NEW K
    PROVE  Owed(K) \in Nat /\ Cardinality(Busy) \in Nat /\ Owed(K) <= Cardinality(Busy)
<1>1. Due(K) \in SUBSET Busy /\ Busy \in SUBSET Conns
  BY DEF Types, Due, Busy
<1>2. IsFiniteSet(Busy)
  BY <1>1, MetricsAssumption, FS_Subset
<1>3. IsFiniteSet(Due(K)) /\ Cardinality(Due(K)) <= Cardinality(Busy)
  BY <1>1, <1>2, FS_Subset
<1> QED BY <1>2, <1>3, FS_CardinalityType DEF Owed

\* So are all that owe the block of a banned login, of either kind.
LEMMA BlocksAreBusy ==
    ASSUME Types
    PROVE  Owed({"block_ip"}) + Owed({"block_player"}) <= Cardinality(Busy)
<1> DEFINE A == Due({"block_ip"})
           B == Due({"block_player"})
<1>1. A \cup B \in SUBSET Busy /\ Busy \in SUBSET Conns /\ A \cap B = {}
  BY DEF Types, Due, Busy
<1>2. IsFiniteSet(Busy) /\ IsFiniteSet(A) /\ IsFiniteSet(B)
  BY <1>1, MetricsAssumption, FS_Subset
<1>3. Cardinality(A \cup B) <= Cardinality(Busy)
  BY <1>1, <1>2, FS_Subset
<1>4. Cardinality(A \cup B) = Cardinality(A) + Cardinality(B) - Cardinality(A \cap B)
  BY <1>2, FS_Union
<1>5. Cardinality(A \cap B) = 0
  BY <1>1, FS_EmptySet
<1>6. Cardinality(A) \in Nat /\ Cardinality(B) \in Nat
  BY <1>2, FS_CardinalityType
<1> HIDE DEF A, B
<1>7. Cardinality(A) + Cardinality(B) <= Cardinality(Busy)
  BY <1>3, <1>4, <1>5, <1>6
<1> QED BY <1>7 DEF A, B, Owed

-----------------------------------------------------------------------------
\* A probe counts one result in the record and in the history.
LEMMA Probed ==
    ASSUME Types, Probe
    PROVE  /\ health' \in Tally /\ others' \in Tally
           /\ \/ /\ health'.ok = health.ok + 1 /\ others'.ok = others.ok + 1
                 /\ health'.failed = health.failed /\ others'.failed = others.failed
              \/ /\ health'.ok = health.ok /\ others'.ok = others.ok
                 /\ health'.failed = health.failed + 1 /\ others'.failed = others.failed + 1
<1>1. PICK r \in {"ok", "failed"} : /\ health' = [health EXCEPT ![r] = @ + 1]
                                    /\ others' = [others EXCEPT ![r] = @ + 1]
  BY DEF Probe
<1>2. /\ health = [ok |-> health.ok, failed |-> health.failed]
      /\ others = [ok |-> others.ok, failed |-> others.failed]
      /\ health.ok \in Nat /\ health.failed \in Nat /\ others.ok \in Nat /\ others.failed \in Nat
  BY DEF Types, Tally
<1>3. CASE r = "ok"
  <2>1. health' = [health EXCEPT !.ok = @ + 1] /\ others' = [others EXCEPT !.ok = @ + 1]
    BY <1>1, <1>3
  <2>2. /\ health' = [ok |-> health.ok + 1, failed |-> health.failed]
        /\ others' = [ok |-> others.ok + 1, failed |-> others.failed]
    BY <1>2, <2>1
  <2> QED BY <1>2, <2>2 DEF Tally
<1>4. CASE r = "failed"
  <2>1. health' = [health EXCEPT !.failed = @ + 1] /\ others' = [others EXCEPT !.failed = @ + 1]
    BY <1>1, <1>4
  <2>2. /\ health' = [ok |-> health.ok, failed |-> health.failed + 1]
        /\ others' = [ok |-> others.ok, failed |-> others.failed + 1]
    BY <1>2, <2>1
  <2> QED BY <1>2, <2>2 DEF Tally
<1> QED BY <1>3, <1>4

\* The variables keep their types.
LEMMA TypesStep == Types /\ [Next]_vars => Types'
<1> SUFFICES ASSUME Types, [Next]_vars PROVE Types'
  OBVIOUS
<1> USE DEF Types, Places, Counting
<1>1. ASSUME NEW c \in Conns, Accept(c) PROVE Types'
  BY <1>1, Beginning DEF Accept
<1>2. ASSUME NEW c \in Conns, Call(c) PROVE Types'
  BY <1>2 DEF Call
<1>3. ASSUME NEW c \in Conns, Record(c) PROVE Types'
  <2>1. script[c] # << >> /\ script[c] \in Rests /\ Head(script[c]) \in Counters
    BY <1>3 DEF Record
  <2>2. Tail(script[c]) \in Rests
    BY <2>1, Following
  <2>3. total' \in [Counters -> Nat]
    BY <1>3, <2>1 DEF Record
  <2> QED BY <1>3, <2>2, <2>3 DEF Record
<1>4. ASSUME NEW c \in Conns, RecordHealth(c) PROVE Types'
  <2>1. script[c] # << >> /\ script[c] \in Rests
    BY <1>4 DEF RecordHealth
  <2>2. Tail(script[c]) \in Rests
    BY <2>1, Following
  <2>3. health' \in Tally /\ others' \in Tally
    BY <1>4 DEF RecordHealth, Tally
  <2> QED BY <1>4, <2>2, <2>3 DEF RecordHealth
<1>5. ASSUME NEW c \in Conns, Finish(c) PROVE Types'
  BY <1>5 DEF Finish, Dec
<1>6. CASE Probe
  <2>1. health' \in Tally /\ others' \in Tally
    BY <1>6, Probed
  <2> QED BY <1>6, <2>1 DEF Probe
<1>7. ASSUME NEW s \in Scrapers, Request(s) PROVE Types'
  BY <1>7 DEF Request
<1>8. ASSUME NEW s \in Scrapers, Lock(s) PROVE Types'
  BY <1>8, MetricsAssumption DEF Lock
<1>9. ASSUME NEW s \in Scrapers, AskHealth(s) PROVE Types'
  BY <1>9 DEF AskHealth
<1>10. ASSUME NEW s \in Scrapers, HearHealth(s) PROVE Types'
  BY <1>10 DEF HearHealth
<1>11. ASSUME NEW s \in Scrapers, Copy(s) PROVE Types'
  <2>1. NoSnap \in [active : Nat, health : Tally, others : Tally]
    BY DEF NoSnap, Tally
  <2>2. snap' \in [Scrapers -> [active : Nat, health : Tally, others : Tally]]
    BY <1>11, <2>1 DEF Copy
  <2> QED BY <1>11, <2>2, MetricsAssumption DEF Copy
<1>12. ASSUME NEW s \in Scrapers, Written(s) PROVE Types'
  BY <1>12, MetricsAssumption DEF Written
<1>13. ASSUME NEW c \in Conns, LockHealth(c) PROVE Types'
  BY <1>13 DEF LockHealth
<1>14. CASE LockToProbe \/ UNCHANGED vars
  BY <1>14 DEF LockToProbe, vars
<1> QED
  BY <1>1, <1>2, <1>3, <1>4, <1>5, <1>6, <1>7, <1>8, <1>9, <1>10, <1>11, <1>12, <1>13, <1>14
  DEF Next

\* The health record's mutex excludes.
LEMMA HeldStep == Types /\ Held /\ [Next]_vars => Held'
<1> SUFFICES ASSUME Types, Held, [Next]_vars PROVE Held'
  OBVIOUS
<1>0. /\ at \in [Conns -> Places]
      /\ scrape \in [Scrapers -> {"idle", "waiting", "locked", "asking", "copying", "writing"}]
  BY DEF Types
<1>1. ASSUME NEW c \in Conns, Accept(c) \/ Call(c) \/ Record(c) \/ Finish(c)
      PROVE  Held'
  <2>1. /\ at[c] # "record" /\ UNCHANGED <<hmu, scrape>>
        /\ \E p \in {"free", "work", "call"} : at' = [at EXCEPT ![c] = p]
    BY <1>1 DEF Accept, Call, Record, Finish
  <2>2. \A d \in Conns : at'[d] = "record" <=> at[d] = "record"
    BY <1>0, <2>1
  <2> QED BY <2>1, <2>2 DEF Held
<1>2. ASSUME NEW c \in Conns, LockHealth(c) PROVE Held'
  <2>1. hmu = None /\ hmu' = c /\ scrape' = scrape /\ at' = [at EXCEPT ![c] = "record"]
    BY <1>2 DEF LockHealth
  <2> QED BY <1>0, <2>1, MetricsAssumption DEF Held
<1>3. ASSUME NEW c \in Conns, RecordHealth(c) PROVE Held'
  <2>1. at[c] = "record" /\ hmu' = None /\ scrape' = scrape /\ at' = [at EXCEPT ![c] = "work"]
    BY <1>3 DEF RecordHealth
  <2> QED BY <1>0, <2>1, MetricsAssumption DEF Held
<1>4. ASSUME NEW s \in Scrapers, Request(s) \/ Lock(s) \/ Copy(s) \/ Written(s)
      PROVE  Held'
  <2>1. /\ scrape[s] # "asking" /\ UNCHANGED <<hmu, at>>
        /\ \E p \in {"idle", "waiting", "locked", "writing"} : scrape' = [scrape EXCEPT ![s] = p]
    BY <1>4 DEF Request, Lock, Copy, Written
  <2>2. \A x \in Scrapers : scrape'[x] = "asking" <=> scrape[x] = "asking"
    BY <1>0, <2>1
  <2> QED BY <2>1, <2>2 DEF Held
<1>5. ASSUME NEW s \in Scrapers, AskHealth(s) PROVE Held'
  <2>1. hmu = None /\ hmu' = s /\ at' = at /\ scrape' = [scrape EXCEPT ![s] = "asking"]
    BY <1>5 DEF AskHealth
  <2> QED BY <1>0, <2>1, MetricsAssumption DEF Held
<1>6. ASSUME NEW s \in Scrapers, HearHealth(s) PROVE Held'
  <2>1. scrape[s] = "asking" /\ hmu' = None /\ at' = at /\ scrape' = [scrape EXCEPT ![s] = "copying"]
    BY <1>6 DEF HearHealth
  <2> QED BY <1>0, <2>1, MetricsAssumption DEF Held
<1>7. CASE LockToProbe \/ Probe
  BY <1>7, MetricsAssumption DEF LockToProbe, Probe, Held
<1>8. CASE UNCHANGED vars
  BY <1>8 DEF vars, Held
<1> QED
  BY <1>1, <1>2, <1>3, <1>4, <1>5, <1>6, <1>7, <1>8 DEF Next

-----------------------------------------------------------------------------
\* Where nothing is counted and no script changes, the accounts still hold.
LEMMA AccountsStay ==
    ASSUME Accounts, UNCHANGED <<script, active, total>>, Cardinality(Busy') = Cardinality(Busy),
           UNCHANGED <<health, others>>
    PROVE  Accounts'
<1>1. Owed({"block_ip"})' = Owed({"block_ip"}) /\ Owed({"block_player"})' = Owed({"block_player"})
      /\ Owed(Answers)' = Owed(Answers) /\ Owed({"dial_failed"})' = Owed({"dial_failed"})
  BY DEF Owed, Due
<1>2. Queries' = Queries
  BY DEF Queries
<1> QED BY <1>1, <1>2 DEF Accounts

\* A new connection is in the gauge, and may owe an answer.
LEMMA AcceptKeeps ==
    ASSUME Types, Accounts, NEW c \in Conns, Accept(c)
    PROVE  Accounts'
<1>1. PICK r \in Scripts : script' = [script EXCEPT ![c] = r]
  BY DEF Accept
<1>2. \A d \in Conns : d # c => script'[d] = script[d] /\ at'[d] = at[d]
  BY <1>1 DEF Accept, Types
<1>3. script[c] = << >> /\ script'[c] = r /\ at[c] = "free" /\ at'[c] # "free"
  BY <1>1 DEF Accept, Types
<1>4. Cardinality(Busy) \in Nat /\ Cardinality(Busy') = Cardinality(Busy) + 1
  BY <1>2, <1>3, BusyMoves DEF Busy
<1>5. \A K : c \notin Due(K)
  BY <1>3 DEF Due
<1>6. \A K : c \in Due(K)' <=> r # << >> /\ Head(r) \in K
  BY <1>3 DEF Due
<1>7. \A K : /\ Owed(K) \in Nat /\ Owed(K)' \in Nat
             /\ c \in Due(K)' => Owed(K)' = Owed(K) + 1
             /\ c \notin Due(K)' => Owed(K)' = Owed(K)
  BY <1>2, <1>5, DueMoves
<1>8. /\ Owed({"block_ip"})' = Owed({"block_ip"})
      /\ Owed({"block_player"})' = Owed({"block_player"})
      /\ Owed({"dial_failed"})' = Owed({"dial_failed"})
  <2>1. \A k \in {"block_ip", "block_player", "dial_failed"} : c \notin Due({k})'
    BY <1>6, Beginning
  <2> QED BY <1>7, <2>1
<1>9. Owed(Answers) \in Nat /\ Owed(Answers)' \in Nat /\ Owed(Answers)' >= Owed(Answers)
  BY <1>7
<1>10. active' = active + 1 /\ UNCHANGED <<total, health, others>>
  BY DEF Accept
<1>11. Queries' = Queries /\ Queries \in Nat
  BY <1>10 DEF Queries, Types, Counters
<1>12. total["breaker"] \in Nat /\ health.ok \in Nat /\ others.ok \in Nat
  BY DEF Types, Counters, Tally
<1> QED BY <1>4, <1>8, <1>9, <1>10, <1>11, <1>12 DEF Accounts

\* What is owed when a handler makes its next call.
LEMMA CallMoves ==
    ASSUME Types, NEW c \in Conns, script[c] # << >>,
           script' = [script EXCEPT ![c] = Tail(@)],
           NEW K
    PROVE  /\ Owed(K) \in Nat
           /\ Owed(K)' = Owed(K) - (IF Head(script[c]) \in K THEN 1 ELSE 0)
                           + (IF Tail(script[c]) # << >> /\ Head(Tail(script[c])) \in K THEN 1 ELSE 0)
<1>1. \A d \in Conns : d # c => script'[d] = script[d]
  BY DEF Types
<1>2. script'[c] = Tail(script[c])
  BY DEF Types
<1>3. c \in Due(K) <=> Head(script[c]) \in K
  BY DEF Due
<1>4. c \in Due(K)' <=> Tail(script[c]) # << >> /\ Head(Tail(script[c])) \in K
  BY <1>2 DEF Due
<1>5. /\ Owed(K) \in Nat /\ Owed(K)' \in Nat
      /\ c \in Due(K) /\ c \notin Due(K)' => Owed(K)' = Owed(K) - 1
      /\ c \notin Due(K) /\ c \in Due(K)' => Owed(K)' = Owed(K) + 1
      /\ (c \in Due(K) <=> c \in Due(K)') => Owed(K)' = Owed(K)
  BY <1>1, DueMoves
<1> QED BY <1>3, <1>4, <1>5

\* A call of the recorder: the counter and what is owed change together.
LEMMA RecordKeeps ==
    ASSUME Types, Accounts, NEW c \in Conns, Record(c)
    PROVE  Accounts'
<1> DEFINE k == Head(script[c])
           n == Tail(script[c])
           is(x) == IF k = x THEN 1 ELSE 0
<1>1. script[c] # << >> /\ script[c] \in Rests /\ k \in Counters
      /\ script' = [script EXCEPT ![c] = Tail(@)]
      /\ total' = [total EXCEPT ![k] = @ + 1]
      /\ UNCHANGED <<active, health, others>>
  BY DEF Record, Counting, Types
<1>2. /\ n # << >> =>
            /\ Head(n) = "block_ip" <=> k = "ip_banned"
            /\ Head(n) = "block_player" <=> k = "player_banned"
            /\ Head(n) \in Answers => k \in {"breaker", "ok", "failed", "dial_failed"}
            /\ Head(n) = "dial_failed" => k = "dial_error"
      /\ k \in {"ip_banned", "player_banned", "breaker"} => n # << >>
      /\ k = "breaker" => Head(n) \in Answers
  BY <1>1, Following
<1>3. \A K : /\ Owed(K) \in Nat
             /\ Owed(K)' = Owed(K) - (IF k \in K THEN 1 ELSE 0)
                             + (IF n # << >> /\ Head(n) \in K THEN 1 ELSE 0)
  BY <1>1, CallMoves
<1>4. \A x \in Counters : total[x] \in Nat /\ total'[x] = total[x] + is(x)
  BY <1>1 DEF Types
<1>5. Cardinality(Busy') = Cardinality(Busy)
  <2>1. at' = [at EXCEPT ![c] = "work"] /\ at[c] = "call" /\ at \in [Conns -> Places]
    BY DEF Record, Types
  <2>2. \A d \in Conns : at'[d] # "free" <=> at[d] # "free"
    BY <2>1
  <2>3. Busy' = Busy
    BY <2>2 DEF Busy
  <2> QED BY <2>3
<1> HIDE DEF k, n
<1>6. Owed({"block_ip"})' = Owed({"block_ip"}) - is("block_ip") + is("ip_banned")
  BY <1>2, <1>3
<1>7. Owed({"block_player"})' = Owed({"block_player"}) - is("block_player") + is("player_banned")
  BY <1>2, <1>3
<1>8. Owed(Answers)' = Owed(Answers) - is("status") - is("fallback") + is("breaker")
  <2>1. k \in Answers <=> k = "status" \/ k = "fallback"
    BY DEF Answers
  <2>2. k # "ok" /\ k # "failed" /\ k # "dial_failed"
    BY <1>1 DEF Counters
  <2>3. n # << >> /\ Head(n) \in Answers <=> k = "breaker"
    BY <1>2, <2>2
  <2> QED BY <1>3, <2>1, <2>3
<1>9. Owed({"dial_failed"})' <= Owed({"dial_failed"}) + is("dial_error")
  BY <1>2, <1>3
<1>10. Queries' = Queries + is("status") + is("fallback")
  BY <1>4 DEF Queries, Counters
<1>11. /\ total'["block_ip"] = total["block_ip"] + is("block_ip")
       /\ total'["block_player"] = total["block_player"] + is("block_player")
       /\ total'["ip_banned"] = total["ip_banned"] + is("ip_banned")
       /\ total'["player_banned"] = total["player_banned"] + is("player_banned")
       /\ total'["breaker"] = total["breaker"] + is("breaker")
       /\ total'["dial_error"] = total["dial_error"] + is("dial_error")
  BY <1>4 DEF Counters
<1>12. /\ total["block_ip"] \in Nat /\ total["block_player"] \in Nat /\ total["ip_banned"] \in Nat
       /\ total["player_banned"] \in Nat /\ total["breaker"] \in Nat /\ total["dial_error"] \in Nat
       /\ Queries \in Nat
  BY <1>4 DEF Counters, Queries
<1>13. /\ Owed({"block_ip"}) \in Nat /\ Owed({"block_player"}) \in Nat /\ Owed(Answers) \in Nat
       /\ Owed({"dial_failed"}) \in Nat /\ Owed({"dial_failed"})' \in Int
  BY <1>3
<1>14. \A x : is(x) \in {0, 1}
  OBVIOUS
<1>15. health.ok \in Nat /\ others.ok \in Nat /\ health.failed \in Nat /\ others.failed \in Nat
       /\ health' = health /\ others' = others /\ active' = active
  BY <1>1 DEF Types, Tally
<1> HIDE DEF is
<1> QED BY <1>5, <1>6, <1>7, <1>8, <1>9, <1>10, <1>11, <1>12, <1>13, <1>14, <1>15 DEF Accounts

\* A call of the health record.
LEMMA RecordHealthKeeps ==
    ASSUME Types, Accounts, NEW c \in Conns, RecordHealth(c)
    PROVE  Accounts'
<1> DEFINE k == Head(script[c])
           n == Tail(script[c])
<1>1. script[c] # << >> /\ script[c] \in Rests /\ k \notin Counters
      /\ script' = [script EXCEPT ![c] = Tail(@)]
      /\ UNCHANGED <<active, total>>
  BY DEF RecordHealth, Counting, Types
<1>2. /\ k \in {"ok", "failed", "dial_failed"}
      /\ n # << >> /\ Head(n) \in Answers
  BY <1>1, Following
<1>3. \A K : /\ Owed(K) \in Nat
             /\ Owed(K)' = Owed(K) - (IF k \in K THEN 1 ELSE 0)
                             + (IF n # << >> /\ Head(n) \in K THEN 1 ELSE 0)
  BY <1>1, CallMoves
<1>4. Cardinality(Busy') = Cardinality(Busy)
  <2>1. at' = [at EXCEPT ![c] = "work"] /\ at[c] = "record" /\ at \in [Conns -> Places]
    BY DEF RecordHealth, Types
  <2>2. \A d \in Conns : at'[d] # "free" <=> at[d] # "free"
    BY <2>1
  <2>3. Busy' = Busy
    BY <2>2 DEF Busy
  <2> QED BY <2>3
<1>5. /\ k = "ok" => health' = [health EXCEPT !["ok"] = @ + 1] /\ others' = others
      /\ k = "failed" => health' = [health EXCEPT !["failed"] = @ + 1]
                         /\ others' = [others EXCEPT !.failed = @ + 1]
      /\ k = "dial_failed" => health' = [health EXCEPT !["failed"] = @ + 1] /\ others' = others
  BY DEF RecordHealth
<1> HIDE DEF k, n
<1>6. /\ health.ok \in Nat /\ others.ok \in Nat /\ health.failed \in Nat /\ others.failed \in Nat
      /\ health'.ok = health.ok + (IF k = "ok" THEN 1 ELSE 0)
      /\ others'.ok = others.ok
      /\ health'.failed = health.failed + (IF k = "ok" THEN 0 ELSE 1)
      /\ others'.failed = others.failed + (IF k = "failed" THEN 1 ELSE 0)
  BY <1>2, <1>5 DEF Types, Tally
<1>7. /\ Owed({"block_ip"})' = Owed({"block_ip"})
      /\ Owed({"block_player"})' = Owed({"block_player"})
  BY <1>2, <1>3 DEF Answers
<1>8. Owed(Answers)' = Owed(Answers) + 1
  BY <1>2, <1>3 DEF Answers
<1>9. Owed({"dial_failed"})' = Owed({"dial_failed"}) - (IF k = "dial_failed" THEN 1 ELSE 0)
  BY <1>2, <1>3 DEF Answers
<1>10. Queries' = Queries /\ Queries \in Nat /\ total["breaker"] \in Nat /\ total["dial_error"] \in Nat
  BY <1>1 DEF Queries, Types, Counters
<1>11. Owed(Answers) \in Nat /\ Owed({"dial_failed"}) \in Nat
  BY <1>3
<1>12. total["breaker"]' <= (Queries + Owed(Answers))'
  BY <1>1, <1>8, <1>10, <1>11 DEF Accounts
<1>13. health'.ok <= others'.ok + Queries' + Owed(Answers)'
  BY <1>6, <1>8, <1>10, <1>11 DEF Accounts
<1>14. health'.failed + Owed({"dial_failed"})' <= others'.failed + total'["dial_error"]
  <2>1. health.failed + Owed({"dial_failed"}) <= others.failed + total["dial_error"]
        /\ total'["dial_error"] = total["dial_error"]
    BY <1>1 DEF Accounts
  <2>2. CASE k = "ok"
    BY <1>6, <1>9, <1>10, <1>11, <2>1, <2>2
  <2>3. CASE k = "failed"
    BY <1>6, <1>9, <1>10, <1>11, <2>1, <2>3
  <2>4. CASE k = "dial_failed"
    BY <1>6, <1>9, <1>10, <1>11, <2>1, <2>4
  <2> QED BY <1>2, <2>2, <2>3, <2>4
<1> QED BY <1>1, <1>4, <1>7, <1>12, <1>13, <1>14 DEF Accounts

\* A connection that is done owes nothing.
LEMMA FinishKeeps ==
    ASSUME Types, Accounts, NEW c \in Conns, Finish(c)
    PROVE  Accounts'
<1>1. /\ at[c] = "call" /\ at' = [at EXCEPT ![c] = "free"] /\ active' = Dec(active)
      /\ UNCHANGED <<script, total, health, others>>
  BY DEF Finish
<1>2. \A d \in Conns : d # c => at'[d] = at[d]
  BY <1>1 DEF Types
<1>3. c \in Busy /\ c \notin Busy'
  BY <1>1 DEF Busy, Types
<1>4. Cardinality(Busy) \in Nat /\ Cardinality(Busy') \in Nat
      /\ Cardinality(Busy') = Cardinality(Busy) - 1
  BY <1>2, <1>3, BusyMoves
<1>5. active' = Cardinality(Busy')
  BY <1>1, <1>4 DEF Accounts, Dec
<1>6. \A K : Owed(K)' = Owed(K)
  BY <1>1 DEF Owed, Due
<1>7. Queries' = Queries
  BY <1>1 DEF Queries
<1> QED BY <1>1, <1>5, <1>6, <1>7 DEF Accounts

\* A probe's result is counted on both sides.
LEMMA ProbeKeeps ==
    ASSUME Types, Accounts, Probe
    PROVE  Accounts'
<1>1. /\ health' \in Tally /\ others' \in Tally
      /\ \/ /\ health'.ok = health.ok + 1 /\ others'.ok = others.ok + 1
            /\ health'.failed = health.failed /\ others'.failed = others.failed
         \/ /\ health'.ok = health.ok /\ others'.ok = others.ok
            /\ health'.failed = health.failed + 1 /\ others'.failed = others.failed + 1
  BY Probed
<1>2. UNCHANGED <<script, at, active, total>>
  BY DEF Probe
<1>3. \A K : Owed(K)' = Owed(K)
  BY <1>2 DEF Owed, Due
<1>4. Queries' = Queries /\ Queries \in Nat /\ Busy' = Busy
  BY <1>2 DEF Queries, Busy, Types, Counters
<1>5. /\ health.ok \in Nat /\ others.ok \in Nat /\ health.failed \in Nat /\ others.failed \in Nat
      /\ health'.ok - others'.ok = health.ok - others.ok
      /\ health'.failed - others'.failed = health.failed - others.failed
      /\ health'.ok \in Nat /\ others'.ok \in Nat /\ health'.failed \in Nat /\ others'.failed \in Nat
  <2>1. health.ok \in Nat /\ others.ok \in Nat /\ health.failed \in Nat /\ others.failed \in Nat
    BY DEF Types, Tally
  <2>2. /\ health'.ok \in Nat /\ others'.ok \in Nat
        /\ health'.failed \in Nat /\ others'.failed \in Nat
    BY <1>1 DEF Tally
  <2>3. CASE /\ health'.ok = health.ok + 1 /\ others'.ok = others.ok + 1
             /\ health'.failed = health.failed /\ others'.failed = others.failed
    BY <2>1, <2>2, <2>3
  <2>4. CASE /\ health'.ok = health.ok /\ others'.ok = others.ok
             /\ health'.failed = health.failed + 1 /\ others'.failed = others.failed + 1
    BY <2>1, <2>2, <2>4
  <2> QED BY <1>1, <2>1, <2>2, <2>3, <2>4
<1>6. Owed(Answers) \in Nat /\ Owed({"dial_failed"}) \in Nat /\ total["dial_error"] \in Nat
  BY OwedAreBusy DEF Types, Counters
<1> QED BY <1>2, <1>3, <1>4, <1>5, <1>6 DEF Accounts

\* Every other step leaves all the numbers alone.
LEMMA AccountsStep == Types /\ Accounts /\ [Next]_vars => Accounts'
<1> SUFFICES ASSUME Types, Accounts, [Next]_vars PROVE Accounts'
  OBVIOUS
<1>1. ASSUME UNCHANGED <<script, at, active, total, health, others>> PROVE Accounts'
  <2>1. Busy' = Busy
    BY <1>1 DEF Busy
  <2> QED BY <1>1, <2>1, AccountsStay
<1>2. ASSUME NEW c \in Conns, Call(c) \/ LockHealth(c) PROVE Accounts'
  <2>1. /\ \E p \in {"call", "record"} : at' = [at EXCEPT ![c] = p]
        /\ at[c] # "free" /\ at \in [Conns -> Places]
    BY <1>2 DEF Call, LockHealth, Types
  <2>2. \A d \in Conns : at'[d] # "free" <=> at[d] # "free"
    BY <2>1
  <2>3. Busy' = Busy
    BY <2>2 DEF Busy
  <2> QED BY <1>2, <2>3, AccountsStay DEF Call, LockHealth
<1>3. ASSUME NEW s \in Scrapers,
             Request(s) \/ Lock(s) \/ AskHealth(s) \/ HearHealth(s) \/ Copy(s) \/ Written(s)
      PROVE  UNCHANGED <<script, at, active, total, health, others>>
  BY <1>3 DEF Request, Lock, AskHealth, HearHealth, Copy, Written
<1>4. CASE LockToProbe \/ UNCHANGED vars
  BY <1>1, <1>4 DEF LockToProbe, vars
<1> QED
  BY <1>1, <1>2, <1>3, <1>4, AcceptKeeps, RecordKeeps, RecordHealthKeeps, FinishKeeps, ProbeKeeps
  DEF Next

-----------------------------------------------------------------------------
\* While a scrape holds the mutex nothing it compares moves but the health record.
LEMMA SnappedStep == Inv /\ [Next]_vars => Snapped'
<1> SUFFICES ASSUME Inv, [Next]_vars PROVE Snapped'
  OBVIOUS
<1>0. Types /\ Accounts /\ Snapped
  BY DEF Inv
<1>1. ASSUME mu = None PROVE \A s \in Scrapers : scrape[s] \notin {"locked", "asking", "copying"}
  BY <1>0, <1>1, MetricsAssumption DEF Types
<1>2. ASSUME UNCHANGED <<scrape, snap>>, mu = None \/ UNCHANGED <<active, total>>
      PROVE  Snapped'
  <2>1. CASE mu = None
    BY <1>1, <1>2, <2>1 DEF Snapped
  <2>2. CASE UNCHANGED <<active, total>>
    BY <1>0, <1>2, <2>2 DEF Snapped, Queries
  <2> QED BY <1>2, <2>1, <2>2
<1>3. ASSUME NEW c \in Conns, Accept(c) \/ Call(c) \/ Record(c) \/ LockHealth(c) \/ RecordHealth(c)
             \/ Finish(c)
      PROVE  UNCHANGED <<scrape, snap>> /\ (mu = None \/ UNCHANGED <<active, total>>)
  BY <1>3 DEF Accept, Call, Record, LockHealth, RecordHealth, Finish
<1>4. CASE LockToProbe \/ Probe
  BY <1>2, <1>4 DEF LockToProbe, Probe
<1>5. ASSUME NEW s \in Scrapers, Request(s) PROVE Snapped'
  <2>1. /\ scrape' = [scrape EXCEPT ![s] = "waiting"] /\ UNCHANGED <<active, total, snap>>
    BY <1>5 DEF Request
  <2> QED BY <1>0, <2>1 DEF Snapped, Queries, Types
<1>6. ASSUME NEW s \in Scrapers, Lock(s) PROVE Snapped'
  <2>1. /\ mu = None /\ scrape' = [scrape EXCEPT ![s] = "locked"]
        /\ snap' = [snap EXCEPT ![s].active = active] /\ UNCHANGED <<active, total>>
    BY <1>6 DEF Lock
  <2>2. snap'[s].active = active /\ scrape'[s] = "locked"
    BY <1>0, <2>1 DEF Types
  <2>3. \A x \in Scrapers : x # s => scrape'[x] \notin {"locked", "asking", "copying"}
    BY <1>0, <1>1, <2>1 DEF Types
  <2> QED BY <2>1, <2>2, <2>3 DEF Snapped
<1>7. ASSUME NEW s \in Scrapers, HearHealth(s) PROVE Snapped'
  <2>1. /\ scrape[s] = "asking" /\ scrape' = [scrape EXCEPT ![s] = "copying"]
        /\ snap' = [snap EXCEPT ![s].health = health, ![s].others = others]
        /\ UNCHANGED <<active, total>>
    BY <1>7 DEF HearHealth
  <2>2. /\ snap'[s].health = health /\ snap'[s].others = others
        /\ snap'[s].active = snap[s].active
    BY <1>0, <2>1 DEF Types
  <2>3. snap[s].active = active
    BY <1>0, <2>1 DEF Snapped
  <2>4. /\ health.ok <= others.ok + Queries + active
        /\ health.failed <= others.failed + total["dial_error"]
    <3>1. /\ Owed(Answers) \in Nat /\ Owed(Answers) <= active /\ active \in Nat
          /\ Owed({"dial_failed"}) \in Nat
      BY <1>0, OwedAreBusy DEF Accounts
    <3>2. Queries \in Nat /\ total["dial_error"] \in Nat
      BY <1>0 DEF Types, Counters, Queries
    <3>4. health.ok \in Nat /\ others.ok \in Nat /\ health.failed \in Nat /\ others.failed \in Nat
      BY <1>0 DEF Types, Tally
    <3>3. /\ health.ok <= others.ok + Queries + Owed(Answers)
          /\ health.failed + Owed({"dial_failed"}) <= others.failed + total["dial_error"]
      BY <1>0 DEF Accounts
    <3> QED BY <3>1, <3>2, <3>3, <3>4
  <2>5. \A x \in Scrapers : x # s => scrape'[x] = scrape[x] /\ snap'[x] = snap[x]
    BY <1>0, <2>1 DEF Types
  <2>6. Queries' = Queries
    BY <2>1 DEF Queries
  <2> QED BY <1>0, <2>1, <2>2, <2>3, <2>4, <2>5, <2>6 DEF Snapped
<1>8. ASSUME NEW s \in Scrapers, Copy(s) \/ Written(s) PROVE Snapped'
  <2>1. /\ scrape'[s] \in {"writing", "idle"} /\ UNCHANGED <<active, total>>
        /\ \A x \in Scrapers : x # s => scrape'[x] = scrape[x] /\ snap'[x] = snap[x]
    BY <1>0, <1>8 DEF Copy, Written, Types
  <2>2. Queries' = Queries
    BY <2>1 DEF Queries
  <2> QED BY <1>0, <2>1, <2>2 DEF Snapped
<1>9. CASE UNCHANGED vars
  BY <1>2, <1>9 DEF vars
<1>10. ASSUME NEW s \in Scrapers, AskHealth(s) PROVE Snapped'
  <2>1. /\ scrape[s] = "locked" /\ scrape' = [scrape EXCEPT ![s] = "asking"]
        /\ UNCHANGED <<active, total, snap>>
    BY <1>10 DEF AskHealth
  <2> QED BY <1>0, <2>1 DEF Snapped, Queries, Types
<1> QED
  BY <1>2, <1>3, <1>4, <1>5, <1>6, <1>7, <1>8, <1>9, <1>10 DEF Next

LEMMA InitInv == Init => Inv
<1> SUFFICES ASSUME Init PROVE Inv
  OBVIOUS
<1>1. NoSnap \in [active : Nat, health : Tally, others : Tally]
  BY DEF NoSnap, Tally
<1>2. << >> \in Rests
  BY DEF Rests, Scripts
<1>3. Types
  BY <1>1, <1>2, MetricsAssumption DEF Init, Types, Places, Tally
<1>8. Held
  BY MetricsAssumption DEF Init, Held
<1>4. Busy = {} /\ \A K : Due(K) = {}
  BY DEF Init, Busy, Due
<1>5. Cardinality(Busy) = 0 /\ \A K : Owed(K) = 0
  BY <1>4, FS_EmptySet DEF Owed
<1>6. Accounts
  BY <1>5 DEF Init, Accounts, Queries, Counters
<1>7. Snapped
  BY DEF Init, Snapped
<1> QED BY <1>3, <1>6, <1>7, <1>8 DEF Inv

\* The inductive invariant: what is counted and what a handler has still to count
\* belong together, and nothing of it moves while a scrape holds the mutex.
LEMMA MetricsInvariant == Spec => []Inv
<1>1. Inv /\ [Next]_vars => Inv'
  BY TypesStep, HeldStep, AccountsStep, SnappedStep DEF Inv
<1> QED BY <1>1, InitInv, PTL DEF Spec

\* For any number of connections and scrapes the gauge of IncActiveConnections and
\* DecActiveConnections is the number of connections being handled: its guard
\* against a negative value never decides.  A scrape reads under the mutex only.
THEOREM GaugeIsExact == Spec => []TypeOK
<1>1. Inv => TypeOK
  BY DEF Inv, Types, Places, Held, Accounts, Busy, TypeOK
<1> QED BY <1>1, MetricsInvariant, PTL

\* Whoever is about to copy the counters has numbers of one moment.
LEMMA CopiesAreCuts ==
    ASSUME Inv, NEW s \in Scrapers, scrape[s] = "copying"
    PROVE  Cut(s)
<1>0. Types /\ Accounts /\ Snapped
  BY DEF Inv
<1> DEFINE n == snap[s].active
<1>1. /\ n = active
      /\ snap[s].health.ok <= snap[s].others.ok + Queries + n
      /\ snap[s].health.failed <= snap[s].others.failed + total["dial_error"]
  BY <1>0 DEF Snapped
<1>2. /\ total["block_ip"] \in Nat /\ total["block_player"] \in Nat /\ total["ip_banned"] \in Nat
      /\ total["player_banned"] \in Nat /\ total["breaker"] \in Nat /\ Queries \in Nat
  BY <1>0 DEF Types, Counters, Queries
<1>3. /\ Owed({"block_ip"}) \in Nat /\ Owed({"block_player"}) \in Nat /\ Owed(Answers) \in Nat
      /\ Owed({"block_ip"}) + Owed({"block_player"}) <= n
      /\ Owed(Answers) <= n /\ n \in Nat
  BY <1>0, <1>1, OwedAreBusy, BlocksAreBusy DEF Accounts
<1>4. /\ total["block_ip"] <= total["ip_banned"]
      /\ total["block_player"] <= total["player_banned"]
      /\ total["ip_banned"] + total["player_banned"]
            <= total["block_ip"] + total["block_player"] + n
  BY <1>0, <1>2, <1>3 DEF Accounts
<1>5. total["breaker"] <= Queries + n
  BY <1>0, <1>2, <1>3 DEF Accounts
<1> QED BY <1>1, <1>4, <1>5 DEF Cut, Queries

\* What a scrape answers is true of one moment, however its two readings and the
\* calls of any number of handlers interleave.
THEOREM ScrapesTellTheTruth == Spec => ScrapesAreCuts
<1>1. Inv => \A s \in Scrapers : scrape[s] = "copying" /\ scrape'[s] = "writing" => Cut(s)
  BY CopiesAreCuts
<1> QED BY <1>1, MetricsInvariant, PTL DEF ScrapesAreCuts
=============================================================================
