---------------------------- MODULE Status_proofs ----------------------------
(***************************************************************************)
(* Proofs about status connections, for any number of them, any requests   *)
(* and lifetimes: what the cache serves was answered to the same request   *)
(* and is recent, an unhealthy backend is left alone, and all the steps do *)
(* to the health record is report results.                                 *)
(***************************************************************************)
EXTENDS Status, SequenceTheorems, TLAPS

\* An entry under key k: the key it was stored under is its own, and its lifetime
\* is counted from WriteLag after the answer at the latest.
EntryOK(e, k) ==
    /\ Key(e.answer.of) = k
    /\ e.freshUntil <= e.answer.at + WriteLag + StatusCacheTTL
    /\ e.staleUntil <= e.answer.at + WriteLag + StatusCacheTTL + MOTDFallbackTTL

\* A slot at p with request w, item i, answer a, the clock reading s and the
\* outcome o, when the clock says t.
Slot(p, w, i, a, s, o, t) ==
    /\ p \in PCs /\ w \in Requests \cup {NoRequest}
    /\ i \in CacheEntry \cup {NoEntry} /\ a \in Answer \cup {NoAnswer}
    /\ s \in 0..t /\ o \in Failures \cup {"none", "ok"}
    /\ p = "idle" <=> w = NoRequest
    /\ p = "report" <=> o # "none"
    /\ a # NoAnswer <=> p \in {"forward", "store"} \/ o = "ok"
    /\ p = "getEvict" => i # NoEntry
    /\ i # NoEntry => p \in {"getJudge", "getEvict", "fallbackJudge"} /\ EntryOK(i, Key(w))
    /\ a # NoAnswer => a.of = w /\ t <= a.at + WriteLag

Slots ==
    \A c \in Conns : Slot(pc[c], who[c], item[c], answer[c], storedAt[c], outcome[c], clock)

Cache == \A k \in Keys : entries[k] # NoEntry => EntryOK(entries[k], k)

\* The types that are not those of a slot or of the health record.
Shapes ==
    /\ clock \in 0..Horizon
    /\ entries \in [Keys -> CacheEntry \cup {NoEntry}]
    /\ pc \in [Conns -> PCs]
    /\ who \in [Conns -> Requests \cup {NoRequest}]
    /\ item \in [Conns -> CacheEntry \cup {NoEntry}]
    /\ answer \in [Conns -> Answer \cup {NoAnswer}]
    /\ storedAt \in [Conns -> Nat]
    /\ outcome \in [Conns -> Failures \cup {"none", "ok"}]
    /\ result \in [Conns -> Results]
    /\ cohort \in [Backends -> SUBSET Conns]

Inv == HealthTypeOK /\ Shapes /\ Slots /\ Cache /\ UnhealthyIsLeftAlone

\* All that a step changes of the slots is slot c.
Moved(c, p, w, i, a, s, o, r) ==
    /\ pc' = [pc EXCEPT ![c] = p] /\ who' = [who EXCEPT ![c] = w]
    /\ item' = [item EXCEPT ![c] = i] /\ answer' = [answer EXCEPT ![c] = a]
    /\ storedAt' = [storedAt EXCEPT ![c] = s] /\ outcome' = [outcome EXCEPT ![c] = o]
    /\ result' = [result EXCEPT ![c] = r]
    /\ clock' = clock

-----------------------------------------------------------------------------
\* The records keep their types, whatever the results.
LEMMA HealthTypesInitially == HealthInit => HealthTypeOK
<1>1. Keep \in Nat
  BY HealthAssumption DEF Keep
<1> QED BY <1>1, HealthAssumption DEF HealthInit, HealthTypeOK, Entry

LEMMA HealthTypesKept == HealthTypeOK /\ [HealthNext]_healthVars => HealthTypeOK'
<1> SUFFICES ASSUME HealthTypeOK, [HealthNext]_healthVars PROVE HealthTypeOK'
  OBVIOUS
<1>1. CASE UNCHANGED healthVars
  BY <1>1 DEF healthVars, HealthTypeOK
<1>2. CASE Elapse
  <2>1. ASSUME NEW b \in Backends
        PROVE  /\ health'[b] \in Entry /\ recent'[b] = recent[b]
               /\ health'[b].fails = health[b].fails /\ health'[b].oks = health[b].oks
    <3> DEFINE e == health[b]
    <3>1. e \in Entry /\ e.circuit \in 0..CircuitBreakerTTL /\ CircuitBreakerTTL \in Nat
      BY HealthAssumption DEF HealthTypeOK, Entry
    <3>2. /\ health'[b] = [e EXCEPT !.circuit = IF @ = 0 THEN 0 ELSE @ - 1]
          /\ recent' = recent
      BY <1>2 DEF Elapse
    <3> HIDE DEF e
    <3>3. (IF e.circuit = 0 THEN 0 ELSE e.circuit - 1) \in 0..CircuitBreakerTTL
      BY <3>1
    <3>4. health'[b] \in Entry /\ health'[b].fails = e.fails /\ health'[b].oks = e.oks
      BY <3>1, <3>2, <3>3 DEF Entry
    <3> QED BY <3>2, <3>4 DEF e
  <2> QED BY <1>2, <2>1 DEF Elapse, HealthTypeOK
<1>3. ASSUME NEW b \in Backends, NEW ok \in BOOLEAN, Record(b, ok), Enabled
      PROVE  HealthTypeOK'
  <2> DEFINE s == Append(recent[b], ok)
             f == IF ok THEN AfterSuccess(health[b]) ELSE AfterFailure(health[b])
  <2>1. /\ health' = [health EXCEPT ![b] = f]
        /\ recent' = [recent EXCEPT ![b] = Remembered(b, ok)]
    BY <1>3 DEF Record
  <2>2. f \in Entry /\ (f.fails = 0 \/ f.oks = 0)
    BY HealthAssumption DEF HealthTypeOK, Entry, AfterSuccess, AfterFailure, UpTo
  <2> HIDE DEF f
  <2>3. Remembered(b, ok) \in Seq(BOOLEAN) /\ Len(Remembered(b, ok)) <= Keep
    <3>1. recent[b] \in Seq(BOOLEAN) /\ Len(recent[b]) <= Keep /\ Keep \in Nat
      BY HealthAssumption DEF HealthTypeOK, Keep
    <3>2. s \in Seq(BOOLEAN) /\ Len(s) = Len(recent[b]) + 1 /\ Len(recent[b]) \in Nat
      BY <3>1, AppendProperties, LenProperties
    <3>3. s # << >> /\ Tail(s) \in Seq(BOOLEAN) /\ Len(Tail(s)) = Len(s) - 1
      BY <3>2, AppendProperties, HeadTailProperties
    <3>4. Remembered(b, ok) = IF Len(s) > Keep THEN Tail(s) ELSE s
      BY DEF Remembered
    <3> HIDE DEF s
    <3>5. CASE Len(s) > Keep
      <4>1. Remembered(b, ok) = Tail(s)
        BY <3>4, <3>5, Zenon
      <4>2. Len(Tail(s)) = Len(recent[b])
        BY <3>2, <3>3
      <4> QED BY <3>1, <3>3, <4>1, <4>2, Zenon
    <3>6. CASE ~(Len(s) > Keep)
      BY <3>1, <3>2, <3>4, <3>6
    <3> QED BY <3>5, <3>6
  <2> QED BY <2>1, <2>2, <2>3 DEF HealthTypeOK
<1>4. ASSUME NEW b \in Backends, NEW ok \in BOOLEAN, Record(b, ok) PROVE HealthTypeOK'
  BY <1>1, <1>3, <1>4 DEF Record
<1> QED BY <1>1, <1>2, <1>4 DEF HealthNext, RecordFailure, RecordSuccess

-----------------------------------------------------------------------------
\* The invariant says more than the types.
LEMMA InvTypes == ASSUME Inv PROVE TypeOK
<1>1. HealthTypeOK
  BY DEF Inv
<1>2. \A c \in Conns : storedAt[c] \in 0..clock
  BY DEF Inv, Slots, Slot
<1>3. storedAt \in [Conns -> 0..clock]
  BY <1>2 DEF Inv, Shapes
<1>4. Shapes /\ Slots
  BY DEF Inv
<1> QED BY <1>1, <1>3, <1>4 DEF TypeOK, Shapes, Slots, Slot

\* Requests with one key are one request.
LEMMA KeyIsRequest ==
    ASSUME NEW r \in Requests, NEW q \in Requests, Key(r) = Key(q)
    PROVE  r = q
<1>1. /\ r = [backend |-> r.backend, host |-> r.host, proto |-> r.proto]
      /\ q = [backend |-> q.backend, host |-> q.host, proto |-> q.proto]
  BY StatusAssumption
<1>2. r.backend = q.backend /\ r.host = q.host /\ r.proto = q.proto
  BY DEF Key
<1> QED BY <1>1, <1>2

\* What the invariant says of slot c and of the entry it looks at.
Here(c) ==
    /\ Slot(pc[c], who[c], item[c], answer[c], storedAt[c], outcome[c], clock)
    /\ clock \in Nat /\ storedAt[c] \in Nat /\ clock <= Horizon
    /\ result[c] \in Results
    /\ pc[c] # "idle" => /\ who[c] \in Requests /\ KeyOf(c) \in Keys
                         /\ KeyOf(c) = Key(who[c]) /\ BackendOf(c) \in Backends
                         /\ entries[KeyOf(c)] \in CacheEntry \cup {NoEntry}
                         /\ entries[KeyOf(c)] # NoEntry => EntryOK(entries[KeyOf(c)], KeyOf(c))

\* It holds of every slot.
LEMMA HereHolds == ASSUME Inv, NEW c \in Conns PROVE Here(c)
<1>1. Slot(pc[c], who[c], item[c], answer[c], storedAt[c], outcome[c], clock)
  BY DEF Inv, Slots
<1>2. /\ clock \in Nat /\ clock <= Horizon /\ storedAt[c] \in Nat /\ result[c] \in Results
      /\ \A k \in Keys : entries[k] \in CacheEntry \cup {NoEntry}
  BY StatusAssumption DEF Inv, Shapes
<1>3. pc[c] # "idle" => /\ who[c] \in Requests /\ KeyOf(c) \in Keys
                        /\ KeyOf(c) = Key(who[c]) /\ BackendOf(c) \in Backends
  BY <1>1, StatusAssumption DEF Slot, KeyOf, Keys, BackendOf
<1> QED BY <1>1, <1>2, <1>3 DEF Inv, Cache, Here

\* Slot c in a good state, and the rest untouched.
LEMMA MovedKept ==
    ASSUME Inv, NEW c \in Conns, NEW p, NEW w, NEW i, NEW a, NEW s, NEW o, NEW r \in Results,
           Moved(c, p, w, i, a, s, o, r), Slot(p, w, i, a, s, o, clock),
           entries' \in [Keys -> CacheEntry \cup {NoEntry}],
           cohort' \in [Backends -> SUBSET Conns]
    PROVE  Shapes' /\ Slots'
<1>1. Shapes
  BY DEF Inv
<1>2. s \in Nat
  BY StatusAssumption DEF Inv, Shapes, Slot
<1>3. Shapes'
  BY <1>1, <1>2 DEF Shapes, Moved, Slot
<1>4. ASSUME NEW x \in Conns
      PROVE  Slot(pc'[x], who'[x], item'[x], answer'[x], storedAt'[x], outcome'[x], clock)
  <2>1. CASE x = c
    <3>1. /\ pc'[x] = p /\ who'[x] = w /\ item'[x] = i /\ answer'[x] = a /\ storedAt'[x] = s
          /\ outcome'[x] = o
      BY <1>1, <2>1 DEF Moved, Shapes
    <3> QED BY <3>1
  <2>2. CASE x # c
    <3>1. /\ pc'[x] = pc[x] /\ who'[x] = who[x] /\ item'[x] = item[x] /\ answer'[x] = answer[x]
          /\ storedAt'[x] = storedAt[x] /\ outcome'[x] = outcome[x]
      BY <1>1, <2>2 DEF Moved, Shapes
    <3> QED BY <3>1 DEF Inv, Slots
  <2> QED BY <2>1, <2>2
<1>5. Slots'
  BY <1>4 DEF Slots, Moved
<1> QED BY <1>3, <1>5

\* What is not assigned is assigned its value.
Same(c) ==
    /\ pc = [pc EXCEPT ![c] = pc[c]] /\ who = [who EXCEPT ![c] = who[c]]
    /\ item = [item EXCEPT ![c] = item[c]] /\ answer = [answer EXCEPT ![c] = answer[c]]
    /\ storedAt = [storedAt EXCEPT ![c] = storedAt[c]]
    /\ outcome = [outcome EXCEPT ![c] = outcome[c]]
    /\ result = [result EXCEPT ![c] = result[c]]

\* It holds of every slot.
LEMMA SameHolds == ASSUME Inv, NEW c \in Conns PROVE Same(c)
BY DEF Inv, Shapes, Same

-----------------------------------------------------------------------------
\* A request takes a slot.
LEMMA RequestKept ==
    ASSUME Inv, NEW c \in Conns, NEW r \in Requests, Request(c, r)
    PROVE  Shapes' /\ Slots' /\ Cache'
<1>h. Here(c)
  BY HereHolds
<1>s. Same(c)
  BY SameHolds
<1>1. PICK p \in {"getRead", "gate"} : pc' = [pc EXCEPT ![c] = p]
  BY DEF Request
<1>m. Moved(c, p, r, item[c], answer[c], storedAt[c], outcome[c], "none")
  BY <1>1, <1>s DEF Request, Moved, locals, Same
<1>2. Slot(p, r, item[c], answer[c], storedAt[c], outcome[c], clock)
  BY StatusAssumption, <1>h, NothingAssumption DEF Request, Slot, PCs, Here, Goto, End
<1>3. /\ entries' \in [Keys -> CacheEntry \cup {NoEntry}]
      /\ cohort' \in [Backends -> SUBSET Conns] /\ Cache'
  BY DEF Request, Inv, Shapes, Cache
<1> QED BY <1>m, <1>2, <1>3, MovedKept DEF Results

\* The lookup of a fresh entry.
LEMMA GetKept ==
    ASSUME Inv, NEW c \in Conns, GetRead(c) \/ GetJudge(c) \/ GetEvict(c)
    PROVE  Shapes' /\ Slots' /\ Cache'
<1>h. Here(c)
  BY HereHolds
<1>s. Same(c)
  BY SameHolds
<1>1. CASE GetRead(c)
  <2>1. Moved(c, "getJudge", who[c], entries[KeyOf(c)], answer[c], storedAt[c], outcome[c],
              result[c])
    BY <1>1, <1>s DEF GetRead, Moved, Same, Goto, End
  <2>2. Slot("getJudge", who[c], entries[KeyOf(c)], answer[c], storedAt[c], outcome[c], clock)
    BY <1>1, <1>h, NothingAssumption DEF GetRead, Slot, PCs, Here, Goto, End
  <2>3. entries' = entries /\ cohort' = cohort
    BY <1>1 DEF GetRead
  <2> QED BY <2>1, <2>2, <2>3, MovedKept DEF Inv, Shapes, Cache
<1>2. CASE GetJudge(c)
  <2>1. entries' = entries /\ cohort' = cohort
    BY <1>2 DEF GetJudge
  <2>2. CASE End(c, "getJudge", "hit") /\ item' = [item EXCEPT ![c] = NoEntry]
    <3>1. Moved(c, "idle", NoRequest, NoEntry, answer[c], storedAt[c], outcome[c], "hit")
      BY <1>2, <2>2, <1>s DEF GetJudge, Moved, Same, Goto, End
    <3>2. Slot("idle", NoRequest, NoEntry, answer[c], storedAt[c], outcome[c], clock)
      BY <2>2, <1>h, NothingAssumption DEF Slot, PCs, Here, Goto, End
    <3> QED BY <2>1, <3>1, <3>2, MovedKept DEF Inv, Shapes, Cache, Results
  <2>3. CASE item[c] # NoEntry /\ Goto(c, "getJudge", "getEvict") /\ item' = item
    <3>1. Moved(c, "getEvict", who[c], item[c], answer[c], storedAt[c], outcome[c], result[c])
      BY <1>2, <2>3, <1>s DEF GetJudge, Moved, Same, Goto, End
    <3>2. Slot("getEvict", who[c], item[c], answer[c], storedAt[c], outcome[c], clock)
      BY <2>3, <1>h, NothingAssumption DEF Slot, PCs, Here, Goto, End
    <3> QED BY <2>1, <3>1, <3>2, MovedKept DEF Inv, Shapes, Cache
  <2>4. CASE item[c] = NoEntry /\ Goto(c, "getJudge", "gate") /\ item' = item
    <3>1. Moved(c, "gate", who[c], item[c], answer[c], storedAt[c], outcome[c], result[c])
      BY <1>2, <2>4, <1>s DEF GetJudge, Moved, Same, Goto, End
    <3>2. Slot("gate", who[c], item[c], answer[c], storedAt[c], outcome[c], clock)
      BY <2>4, <1>h, NothingAssumption DEF Slot, PCs, Here, Goto, End
    <3> QED BY <2>1, <3>1, <3>2, MovedKept DEF Inv, Shapes, Cache
  <2> QED BY <1>2, <2>2, <2>3, <2>4 DEF GetJudge
<1>3. CASE GetEvict(c)
  <2>1. Moved(c, "gate", who[c], NoEntry, answer[c], storedAt[c], outcome[c], result[c])
    BY <1>3, <1>s DEF GetEvict, Moved, Same, Goto, End
  <2>2. Slot("gate", who[c], NoEntry, answer[c], storedAt[c], outcome[c], clock)
    BY <1>3, <1>h, NothingAssumption DEF GetEvict, Slot, PCs, Here, Goto, End
  <2>3. PICK e \in {NoEntry, entries[KeyOf(c)]} :
          entries' = [entries EXCEPT ![KeyOf(c)] = e]
    BY <1>3 DEF GetEvict
  <2>4. pc[c] # "idle" /\ cohort' = cohort
    BY <1>3 DEF GetEvict, Goto
  <2>5. entries' \in [Keys -> CacheEntry \cup {NoEntry}] /\ Cache'
    BY <1>h, <2>3, <2>4 DEF Inv, Shapes, Cache, Here
  <2> QED BY <2>1, <2>2, <2>4, <2>5, MovedKept DEF Inv, Shapes
<1> QED BY <1>1, <1>2, <1>3

\* The gate, the query and the report.
LEMMA QueryKept ==
    ASSUME Inv, NEW c \in Conns, Gate(c) \/ Query(c)
    PROVE  Shapes' /\ Slots' /\ Cache'
<1>h. Here(c)
  BY HereHolds
<1>s. Same(c)
  BY SameHolds
<1>1. entries' = entries /\ cohort' = cohort
  BY DEF Gate, Query
<1>2. CASE Gate(c)
  <2>1. UNCHANGED locals /\ clock' = clock
    BY <1>2 DEF Gate
  <2>2. CASE Goto(c, "gate", "fallbackRead") \/ Goto(c, "gate", "query")
    <3>1. PICK p \in {"fallbackRead", "query"} : Goto(c, "gate", p)
      BY <2>2
    <3>2. Moved(c, p, who[c], item[c], answer[c], storedAt[c], outcome[c], result[c])
      BY <2>1, <3>1, <1>s DEF Moved, locals, Same, Goto, End
    <3>3. Slot(p, who[c], item[c], answer[c], storedAt[c], outcome[c], clock)
      BY <3>1, <1>h, NothingAssumption DEF Slot, PCs, Here, Goto, End
    <3> QED BY <1>1, <3>2, <3>3, MovedKept DEF Inv, Shapes, Cache
  <2>3. CASE End(c, "gate", "error")
    <3>1. Moved(c, "idle", NoRequest, item[c], answer[c], storedAt[c], outcome[c], "error")
      BY <2>1, <2>3, <1>s DEF Moved, locals, Same, Goto, End
    <3>2. Slot("idle", NoRequest, item[c], answer[c], storedAt[c], outcome[c], clock)
      BY <2>3, <1>h, NothingAssumption DEF Slot, PCs, Here, Goto, End
    <3> QED BY <1>1, <3>1, <3>2, MovedKept DEF Inv, Shapes, Cache, Results
  <2> QED BY <1>2, <2>2, <2>3 DEF Gate, LookForFallback
<1>3. CASE Query(c)
  <2>1. Goto(c, "query", "report") /\ UNCHANGED <<clock, item, storedAt>>
    BY <1>3 DEF Query
  <2>2. CASE \E f \in Failures : outcome' = [outcome EXCEPT ![c] = f] /\ answer' = answer
    <3>1. PICK f \in Failures : outcome' = [outcome EXCEPT ![c] = f] /\ answer' = answer
      BY <2>2
    <3>2. Moved(c, "report", who[c], item[c], answer[c], storedAt[c], f, result[c])
      BY <2>1, <3>1, <1>s DEF Moved, Same, Goto, End
    <3>3. Slot("report", who[c], item[c], answer[c], storedAt[c], f, clock)
      BY <2>1, <3>1, <1>h, NothingAssumption DEF Slot, PCs, Failures, Here, Goto, End
    <3> QED BY <1>1, <3>2, <3>3, MovedKept DEF Inv, Shapes, Cache
  <2>3. CASE /\ outcome' = [outcome EXCEPT ![c] = "ok"]
             /\ \E motd \in BOOLEAN :
                   answer' = [answer EXCEPT ![c] = [of |-> who[c], at |-> clock, motd |-> motd]]
    <3>1. PICK motd \in BOOLEAN :
            answer' = [answer EXCEPT ![c] = [of |-> who[c], at |-> clock, motd |-> motd]]
      BY <2>3
    <3> DEFINE a == [of |-> who[c], at |-> clock, motd |-> motd]
    <3>2. a \in Answer /\ a.of = who[c] /\ clock <= a.at + WriteLag /\ a # NoAnswer
      <4>1. clock \in 0..Horizon /\ who[c] \in Requests
        BY <1>h, <2>1, StatusAssumption DEF Here, Goto
      <4>2. a \in Answer
        BY <4>1 DEF Answer
      <4> QED BY <4>1, <4>2, StatusAssumption, NothingAssumption
    <3> HIDE DEF a
    <3>3. Moved(c, "report", who[c], item[c], a, storedAt[c], "ok", result[c])
      BY <2>1, <2>3, <3>1, <1>s DEF Moved, a, Same, Goto, End
    <3>4. Slot("report", who[c], item[c], a, storedAt[c], "ok", clock)
      BY <2>1, <3>2, <1>h, NothingAssumption DEF Slot, PCs, Here, Goto, End
    <3> QED BY <1>1, <3>3, <3>4, MovedKept DEF Inv, Shapes, Cache
  <2> QED BY <1>3, <2>2, <2>3 DEF Query
<1> QED BY <1>2, <1>3

\* The report.
LEMMA ReportKept ==
    ASSUME Inv, NEW c \in Conns, Report(c)
    PROVE  Shapes' /\ Slots' /\ Cache'
<1>h. Here(c)
  BY HereHolds
<1>s. Same(c)
  BY SameHolds
<1>1. /\ pc[c] = "report" /\ outcome' = [outcome EXCEPT ![c] = "none"]
      /\ UNCHANGED <<clock, entries, item, answer, storedAt>>
      /\ cohort' = [b \in Backends |->
                       IF Unhealthy(b)' /\ ~Unhealthy(b) THEN Asking(b) ELSE cohort[b]]
  BY DEF Report
<1>2. cohort' \in [Backends -> SUBSET Conns]
  BY <1>1 DEF Inv, Shapes, Asking
<1>3. CASE outcome[c] = "ok" /\ Goto(c, "report", "forward")
  <2>1. Moved(c, "forward", who[c], item[c], answer[c], storedAt[c], "none", result[c])
    BY <1>1, <1>3, <1>s DEF Moved, Same, Goto
  <2>2. Slot("forward", who[c], item[c], answer[c], storedAt[c], "none", clock)
    BY <1>1, <1>3, <1>h DEF Slot, PCs, Here, Goto
  <2> QED BY <1>1, <1>2, <1>h, <2>1, <2>2, MovedKept DEF Inv, Shapes, Cache, Here
<1>4. CASE outcome[c] # "ok" /\ Goto(c, "report", "fallbackRead")
  <2>1. Moved(c, "fallbackRead", who[c], item[c], answer[c], storedAt[c], "none", result[c])
    BY <1>1, <1>4, <1>s DEF Moved, Same, Goto
  <2>2. Slot("fallbackRead", who[c], item[c], answer[c], storedAt[c], "none", clock)
    BY <1>1, <1>4, <1>h DEF Slot, PCs, Here, Goto
  <2> QED BY <1>1, <1>2, <1>h, <2>1, <2>2, MovedKept DEF Inv, Shapes, Cache, Here
<1>5. CASE outcome[c] # "ok" /\ End(c, "report", "error")
  <2>1. Moved(c, "idle", NoRequest, item[c], answer[c], storedAt[c], "none", "error")
    BY <1>1, <1>5, <1>s DEF Moved, Same, End
  <2>2. Slot("idle", NoRequest, item[c], answer[c], storedAt[c], "none", clock)
    BY <1>1, <1>5, <1>h DEF Slot, PCs, Here, End
  <2> QED BY <1>1, <1>2, <2>1, <2>2, MovedKept DEF Inv, Shapes, Cache, Results
<1> QED BY <1>3, <1>4, <1>5 DEF Report, LookForFallback

\* Forwarding the answer, and storing it.
LEMMA ForwardKept ==
    ASSUME Inv, NEW c \in Conns, Forward(c) \/ Store(c)
    PROVE  Shapes' /\ Slots' /\ Cache'
<1>h. Here(c)
  BY HereHolds
<1>s. Same(c)
  BY SameHolds
<1>1. CASE Forward(c)
  <2>1. UNCHANGED <<clock, entries, item, outcome, cohort>>
    BY <1>1 DEF Forward
  <2>2. CASE /\ Goto(c, "forward", "store") /\ storedAt' = [storedAt EXCEPT ![c] = clock]
             /\ answer' = answer
    <3>1. Moved(c, "store", who[c], item[c], answer[c], clock, outcome[c], result[c])
      BY <2>1, <2>2, <1>s DEF Moved, Same, Goto
    <3>2. Slot("store", who[c], item[c], answer[c], clock, outcome[c], clock)
      BY <2>2, <1>h DEF Slot, PCs, Here, Goto
    <3> QED BY <2>1, <1>h, <3>1, <3>2, MovedKept DEF Inv, Shapes, Cache, Here
  <2>3. CASE /\ \E r \in {"error", "live"} : End(c, "forward", r)
             /\ answer' = [answer EXCEPT ![c] = NoAnswer] /\ storedAt' = storedAt
    <3>1. PICK r \in {"error", "live"} : End(c, "forward", r)
      BY <2>3
    <3>2. Moved(c, "idle", NoRequest, item[c], NoAnswer, storedAt[c], outcome[c], r)
      BY <2>1, <2>3, <3>1, <1>s DEF Moved, Same, End
    <3>3. Slot("idle", NoRequest, item[c], NoAnswer, storedAt[c], outcome[c], clock)
      BY <3>1, <1>h DEF Slot, PCs, Here, End
    <3> QED BY <2>1, <3>1, <3>2, <3>3, MovedKept DEF Inv, Shapes, Cache, Results
  <2> QED BY <1>1, <2>2, <2>3 DEF Forward
<1>2. CASE Store(c)
  <2> DEFINE e == [answer |-> answer[c],
                   freshUntil |-> storedAt[c] + StatusCacheTTL,
                   staleUntil |-> storedAt[c] + StatusCacheTTL + FallbackTTL]
  <2>1. /\ entries' = [entries EXCEPT ![KeyOf(c)] = e] /\ cohort' = cohort
        /\ pc[c] = "store"
    BY <1>2 DEF Store, End
  <2>2. /\ answer[c] \in Answer /\ answer[c].of = who[c] /\ clock <= answer[c].at + WriteLag
        /\ answer[c].at \in Nat /\ storedAt[c] \in 0..clock
    BY <1>h, <2>1, StatusAssumption DEF Here, Slot, Answer
  <2>3. FallbackTTL \in Nat /\ FallbackTTL <= MOTDFallbackTTL
    BY StatusAssumption DEF FallbackTTL
  <2>4. e \in CacheEntry
    <3>1. storedAt[c] + StatusCacheTTL \in Until /\ storedAt[c] + StatusCacheTTL + FallbackTTL \in Until
      BY <1>h, <2>2, <2>3, StatusAssumption DEF Here, Until
    <3> QED BY <2>2, <3>1 DEF CacheEntry
  <2>5. EntryOK(e, KeyOf(c))
    <3>1. /\ storedAt[c] + StatusCacheTTL <= answer[c].at + WriteLag + StatusCacheTTL
          /\ storedAt[c] + StatusCacheTTL + FallbackTTL
                <= answer[c].at + WriteLag + StatusCacheTTL + MOTDFallbackTTL
      BY <1>h, <2>2, <2>3, StatusAssumption DEF Here
    <3> QED BY <2>2, <3>1 DEF EntryOK, KeyOf
  <2> HIDE DEF e
  <2>6. entries' \in [Keys -> CacheEntry \cup {NoEntry}] /\ Cache'
    BY <1>h, <2>1, <2>4, <2>5 DEF Inv, Shapes, Cache, Here
  <2>7. Moved(c, "idle", NoRequest, item[c], NoAnswer, 0, outcome[c], "live")
    BY <1>2, <1>s DEF Store, Moved, Same, End
  <2>8. Slot("idle", NoRequest, item[c], NoAnswer, 0, outcome[c], clock)
    BY <1>h, <2>1 DEF Slot, PCs, Here
  <2> QED BY <2>1, <2>6, <2>7, <2>8, MovedKept DEF Inv, Shapes, Results
<1> QED BY <1>1, <1>2

\* The lookup of a snapshot.
LEMMA FallbackKept ==
    ASSUME Inv, NEW c \in Conns, FallbackRead(c) \/ FallbackJudge(c) \/ FallbackEvict(c)
    PROVE  Shapes' /\ Slots' /\ Cache'
<1>h. Here(c)
  BY HereHolds
<1>s. Same(c)
  BY SameHolds
<1>1. CASE FallbackRead(c)
  <2>1. Moved(c, "fallbackJudge", who[c], entries[KeyOf(c)], answer[c], storedAt[c], outcome[c],
              result[c])
    BY <1>1, <1>s DEF FallbackRead, Moved, Same, Goto
  <2>2. Slot("fallbackJudge", who[c], entries[KeyOf(c)], answer[c], storedAt[c], outcome[c], clock)
    BY <1>1, <1>h, NothingAssumption DEF FallbackRead, Slot, PCs, Here, Goto
  <2>3. entries' = entries /\ cohort' = cohort
    BY <1>1 DEF FallbackRead
  <2> QED BY <1>h, <2>1, <2>2, <2>3, MovedKept DEF Inv, Shapes, Cache, Here
<1>2. CASE FallbackJudge(c)
  <2>1. /\ UNCHANGED <<clock, entries, answer, storedAt, outcome, cohort>>
        /\ item' = [item EXCEPT ![c] = NoEntry]
    BY <1>2 DEF FallbackJudge
  <2>2. CASE Goto(c, "fallbackJudge", "fallbackEvict")
    <3>1. Moved(c, "fallbackEvict", who[c], NoEntry, answer[c], storedAt[c], outcome[c], result[c])
      BY <2>1, <2>2, <1>s DEF Moved, Same, Goto
    <3>2. Slot("fallbackEvict", who[c], NoEntry, answer[c], storedAt[c], outcome[c], clock)
      BY <2>2, <1>h DEF Slot, PCs, Here, Goto
    <3> QED BY <1>h, <2>1, <3>1, <3>2, MovedKept DEF Inv, Shapes, Cache, Here
  <2>3. CASE \E r \in {"fallback", "error"} : End(c, "fallbackJudge", r)
    <3>1. PICK r \in {"fallback", "error"} : End(c, "fallbackJudge", r)
      BY <2>3
    <3>2. Moved(c, "idle", NoRequest, NoEntry, answer[c], storedAt[c], outcome[c], r)
      BY <2>1, <3>1, <1>s DEF Moved, Same, End
    <3>3. Slot("idle", NoRequest, NoEntry, answer[c], storedAt[c], outcome[c], clock)
      BY <3>1, <1>h DEF Slot, PCs, Here, End
    <3> QED BY <2>1, <3>1, <3>2, <3>3, MovedKept DEF Inv, Shapes, Cache, Results
  <2> QED BY <1>2, <2>2, <2>3 DEF FallbackJudge
<1>3. CASE FallbackEvict(c)
  <2>1. Moved(c, "idle", NoRequest, item[c], answer[c], storedAt[c], outcome[c], "error")
    BY <1>3, <1>s DEF FallbackEvict, Moved, locals, Same, End
  <2>2. Slot("idle", NoRequest, item[c], answer[c], storedAt[c], outcome[c], clock)
    BY <1>3, <1>h DEF FallbackEvict, Slot, PCs, Here, End
  <2>3. /\ entries' = [entries EXCEPT ![KeyOf(c)] = NoEntry] /\ cohort' = cohort
        /\ pc[c] = "fallbackEvict"
    BY <1>3 DEF FallbackEvict, End
  <2>4. entries' \in [Keys -> CacheEntry \cup {NoEntry}] /\ Cache'
    BY <1>h, <2>3 DEF Inv, Shapes, Cache, Here
  <2> QED BY <2>1, <2>2, <2>3, <2>4, MovedKept DEF Inv, Shapes, Results
<1> QED BY <1>1, <1>2, <1>3

\* Time passes: an answer on its way is not older than WriteLag.
LEMMA TickKept ==
    ASSUME Inv, Tick
    PROVE  Shapes' /\ Slots' /\ Cache'
<1>1. /\ clock < Horizon /\ clock' = clock + 1
      /\ UNCHANGED <<entries, pc, who, item, answer, storedAt, outcome, result, cohort>>
  BY DEF Tick, locals
<1>2. Shapes' /\ Cache'
  BY <1>1, StatusAssumption DEF Inv, Shapes, Cache
<1>3. ASSUME NEW c \in Conns
      PROVE  Slot(pc[c], who[c], item[c], answer[c], storedAt[c], outcome[c], clock + 1)
  <2>h. Here(c)
    BY HereHolds
  <2>1. answer[c] # NoAnswer => clock < answer[c].at + WriteLag /\ answer[c].at \in Nat
    BY <2>h, StatusAssumption DEF Tick, Here, Slot, Answer
  <2>2. answer[c] # NoAnswer => clock + 1 <= answer[c].at + WriteLag
    BY <2>h, <2>1, StatusAssumption DEF Here
  <2>3. storedAt[c] \in 0..(clock + 1)
    BY <2>h DEF Here, Slot
  <2> QED BY <2>h, <2>2, <2>3 DEF Here, Slot
<1>4. Slots'
  BY <1>1, <1>3 DEF Slots
<1> QED BY <1>2, <1>4

-----------------------------------------------------------------------------
\* All that the steps do to the health record is what its own module does.
LEMMA HealthSteps ==
    ASSUME Inv, [Next]_vars
    PROVE  [HealthNext]_healthVars
<1>1. CASE UNCHANGED vars
  BY <1>1 DEF vars, healthVars
<1>2. CASE Tick
  BY <1>2 DEF Tick, HealthNext
<1>3. ASSUME NEW c \in Conns, Report(c) PROVE [HealthNext]_healthVars
  <2>1. pc[c] = "report" /\ RecordResult(BackendOf(c), outcome[c] = "ok")
    BY <1>3 DEF Report
  <2>2. BackendOf(c) \in Backends
    BY <2>1, HereHolds DEF Here
  <2>3. RecordFailure(BackendOf(c)) \/ RecordSuccess(BackendOf(c))
    BY <2>1 DEF RecordResult
  <2> QED BY <2>2, <2>3 DEF HealthNext
<1>4. ASSUME NEW c \in Conns, NEW r \in Requests, Request(c, r) PROVE UNCHANGED healthVars
  BY <1>4 DEF Request
<1>5. ASSUME NEW c \in Conns, Session(c), ~Report(c) PROVE UNCHANGED healthVars
  BY <1>5 DEF Session, GetRead, GetJudge, GetEvict, Gate, Query, Forward, Store, FallbackRead,
              FallbackJudge, FallbackEvict
<1> QED BY <1>1, <1>2, <1>3, <1>4, <1>5 DEF Next

\* No connection comes to ask without passing the gate.
LEMMA AskingShrinks ==
    ASSUME Inv, NEW c \in Conns, NEW b \in Backends, NEW p, p # "query",
           pc' = [pc EXCEPT ![c] = p], \A x \in Conns : x # c => who'[x] = who[x]
    PROVE  Asking(b)' \subseteq Asking(b) \ {c}
BY DEF Asking, BackendOf, Inv, Shapes

\* An unhealthy backend is left alone.
LEMMA LeftAlone ==
    ASSUME Inv, [Next]_vars
    PROVE  UnhealthyIsLeftAlone'
<1> SUFFICES ASSUME NEW b \in Backends, StatusFallbackWhenUnhealthy, Unhealthy(b)'
             PROVE  Asking(b)' \subseteq cohort'[b]
  BY DEF UnhealthyIsLeftAlone
<1>1. Unhealthy(b) => Asking(b) \subseteq cohort[b]
  BY DEF Inv, UnhealthyIsLeftAlone
<1>2. CASE UNCHANGED vars
  <2>1. Asking(b)' = Asking(b) /\ cohort' = cohort /\ (Unhealthy(b)' => Unhealthy(b))
    BY <1>2 DEF vars, Asking, BackendOf, Unhealthy, CircuitOpen
  <2> QED BY <1>1, <2>1
<1>3. CASE Tick
  <2>1. Asking(b)' = Asking(b) /\ cohort' = cohort
    BY <1>3 DEF Tick, Asking, BackendOf
  <2>2. /\ health[b].circuit \in Nat
        /\ \/ health' = health
           \/ health' = [x \in Backends |->
                          [health[x] EXCEPT !.circuit = IF @ = 0 THEN 0 ELSE @ - 1]]
    BY <1>3, HealthAssumption DEF Tick, Elapse, healthVars, Inv, HealthTypeOK, Entry
  <2>3. health[b] \in Entry
    BY DEF Inv, HealthTypeOK
  <2>4. /\ health'[b].healthy = health[b].healthy
        /\ health'[b].circuit > 0 => health[b].circuit > 0
    BY <2>2, <2>3, HealthAssumption DEF Entry
  <2>5. Unhealthy(b)
    BY <2>4 DEF Unhealthy, CircuitOpen
  <2> QED BY <1>1, <2>1, <2>5
<1>4. ASSUME NEW c \in Conns, NEW r \in Requests, Request(c, r)
      PROVE  Asking(b)' \subseteq cohort'[b]
  <2>1. PICK p \in {"getRead", "gate"} : pc' = [pc EXCEPT ![c] = p]
    BY <1>4 DEF Request
  <2>2. \A x \in Conns : x # c => who'[x] = who[x]
    BY <1>4 DEF Request, Inv, Shapes
  <2>3. Asking(b)' \subseteq Asking(b) \ {c}
    BY <2>1, <2>2, AskingShrinks
  <2>4. cohort'[b] = cohort[b] \ {c} /\ (Unhealthy(b)' => Unhealthy(b))
    BY <1>4 DEF Request, healthVars, Unhealthy, CircuitOpen
  <2> QED BY <1>1, <2>3, <2>4
<1>5. ASSUME NEW c \in Conns, Session(c)
      PROVE  Asking(b)' \subseteq cohort'[b]
  <2>1. \A x \in Conns : x # c => who'[x] = who[x]
    BY <1>5 DEF Session, GetRead, GetJudge, GetEvict, Gate, Query, Report, Forward, Store,
                FallbackRead, FallbackJudge, FallbackEvict, LookForFallback, Goto, End, Inv, Shapes
  <2>2. CASE Gate(c)
    <3>1. cohort' = cohort /\ Unhealthy(b)
      BY <2>2 DEF Gate, healthVars, Unhealthy, CircuitOpen
    <3>2. CASE Unhealthy(BackendOf(c))
      <4>1. PICK p \in {"fallbackRead", "idle"} : pc' = [pc EXCEPT ![c] = p]
        BY <2>2, <3>2 DEF Gate, LookForFallback, Goto, End
      <4>2. Asking(b)' \subseteq Asking(b)
        BY <2>1, <4>1, AskingShrinks
      <4> QED BY <1>1, <3>1, <4>2
    <3>3. CASE ~Unhealthy(BackendOf(c))
      <4>1. pc' = [pc EXCEPT ![c] = "query"] /\ who' = who
        BY <2>2, <3>3 DEF Gate, Goto
      <4>2. BackendOf(c) # b
        BY <3>1, <3>3
      <4>3. Asking(b)' \subseteq Asking(b)
        BY <4>1, <4>2 DEF Asking, BackendOf, Inv, Shapes
      <4> QED BY <1>1, <3>1, <4>3
    <3> QED BY <3>2, <3>3
  <2>3. CASE Report(c)
    <3>1. PICK p \in {"forward", "fallbackRead", "idle"} : pc' = [pc EXCEPT ![c] = p]
      BY <2>3 DEF Report, LookForFallback, Goto, End
    <3>2. Asking(b)' \subseteq Asking(b)
      BY <2>1, <3>1, AskingShrinks
    <3>3. cohort'[b] = IF Unhealthy(b)' /\ ~Unhealthy(b) THEN Asking(b) ELSE cohort[b]
      BY <2>3 DEF Report
    <3> QED BY <1>1, <3>2, <3>3
  <2>4. CASE ~Gate(c) /\ ~Report(c)
    <3>1. \E p : p # "query" /\ pc' = [pc EXCEPT ![c] = p]
      BY <1>5, <2>4 DEF Session, GetRead, GetJudge, GetEvict, Query, Forward, Store,
                FallbackRead, FallbackJudge, FallbackEvict, Goto, End
    <3>2. Asking(b)' \subseteq Asking(b)
      BY <2>1, <3>1, AskingShrinks
    <3>3. cohort' = cohort /\ UNCHANGED healthVars
      BY <1>5, <2>4 DEF Session, GetRead, GetJudge, GetEvict, Query, Forward, Store,
                FallbackRead, FallbackJudge, FallbackEvict
    <3>4. Unhealthy(b)
      BY <3>3 DEF healthVars, Unhealthy, CircuitOpen
    <3> QED BY <1>1, <3>2, <3>3, <3>4
  <2> QED BY <2>2, <2>3, <2>4
<1> QED BY <1>2, <1>3, <1>4, <1>5 DEF Next

-----------------------------------------------------------------------------
\* The invariant is one.
LEMMA InvKept ==
    ASSUME Inv, [Next]_vars
    PROVE  Inv'
<1>1. HealthTypeOK'
  BY HealthSteps, HealthTypesKept DEF Inv
<1>2. Shapes' /\ Slots' /\ Cache'
  <2>1. CASE UNCHANGED vars
    BY <2>1 DEF vars, locals, Inv, Shapes, Slots, Cache
  <2>2. CASE Tick
    BY <2>2, TickKept
  <2>3. ASSUME NEW c \in Conns, NEW r \in Requests, Request(c, r)
        PROVE  Shapes' /\ Slots' /\ Cache'
    BY <2>3, RequestKept
  <2>4. ASSUME NEW c \in Conns, Session(c) PROVE Shapes' /\ Slots' /\ Cache'
    BY <2>4, GetKept, QueryKept, ReportKept, ForwardKept, FallbackKept DEF Session
  <2> QED BY <2>1, <2>2, <2>3, <2>4 DEF Next
<1> QED BY <1>1, <1>2, LeftAlone DEF Inv

\* All slots are idle, and the cache is empty.
LEMMA InvInitially == ASSUME Init PROVE Inv
<1>1. HealthTypeOK
  BY HealthTypesInitially DEF Init
<1>2. Shapes
  BY StatusAssumption DEF Init, Shapes, PCs, Results
<1>3. ASSUME NEW c \in Conns
      PROVE  Slot(pc[c], who[c], item[c], answer[c], storedAt[c], outcome[c], clock)
  <2>1. /\ pc[c] = "idle" /\ who[c] = NoRequest /\ item[c] = NoEntry /\ answer[c] = NoAnswer
        /\ storedAt[c] = 0 /\ outcome[c] = "none" /\ clock = 0
    BY DEF Init
  <2>2. Slot("idle", NoRequest, NoEntry, NoAnswer, 0, "none", 0)
    BY DEF Slot, PCs
  <2> QED BY <2>1, <2>2
<1>4. Cache
  BY DEF Init, Cache
<1>5. UnhealthyIsLeftAlone
  BY DEF Init, UnhealthyIsLeftAlone, Asking
<1> QED BY <1>1, <1>2, <1>3, <1>4, <1>5 DEF Inv, Slots

\* The inductive invariant of status connections.
THEOREM StatusInvariant == Spec => []Inv
<1>1. Init => Inv
  BY InvInitially
<1>2. Inv /\ [Next]_vars => Inv'
  BY InvKept
<1> QED BY <1>1, <1>2, PTL DEF Spec

\* Types, and which locals a connection holds where.
THEOREM StatusTypes == Spec => []TypeOK
<1>1. Inv => TypeOK
  BY InvTypes
<1> QED BY <1>1, StatusInvariant, PTL

\* While a backend is unhealthy the only queries to it passed the gate before.
THEOREM UnhealthyAreLeftAlone == Spec => []UnhealthyIsLeftAlone
<1>1. Inv => UnhealthyIsLeftAlone
  BY DEF Inv
<1> QED BY <1>1, StatusInvariant, PTL

\* Status connections use the health record as its module says, so that what is
\* proved about it (FollowsRuns, FlipsOnlyAfterRuns) holds beside them.
THEOREM StatusUsesHealth == Spec => HealthSpec
<1>1. Init => HealthInit
  BY DEF Init
<1>2. Inv /\ [Next]_vars => [HealthNext]_healthVars
  BY HealthSteps
<1> QED BY <1>1, <1>2, StatusInvariant, PTL DEF Spec, HealthSpec

\* What a connection serves is the entry it holds, under its own key and alive.
LEMMA ServedIsHeld ==
    ASSUME Inv, [Next]_vars, NEW c \in Conns, NEW kind \in {"hit", "fallback"}, Serves(c, kind)
    PROVE  /\ item[c] \in CacheEntry /\ item[c].answer.of = who[c]
           /\ EntryOK(item[c], KeyOf(c))
           /\ kind = "hit" => clock < item[c].freshUntil
           /\ kind = "fallback" => clock <= item[c].staleUntil
<1>h. Here(c)
  BY HereHolds
<1>1. result'[c] = kind /\ result[c] = "none"
  BY DEF Serves
<1>2. result \in [Conns -> Results]
  BY DEF Inv, Shapes
<1>3. CASE UNCHANGED vars \/ Tick
  BY <1>1, <1>3 DEF vars, Tick
<1>4. ASSUME NEW x \in Conns, NEW r \in Requests, Request(x, r) PROVE FALSE
  BY <1>1, <1>2, <1>4 DEF Request
<1>5. ASSUME NEW x \in Conns, Session(x), x # c PROVE FALSE
  BY <1>1, <1>2, <1>5
  DEF Session, GetRead, GetJudge, GetEvict, Gate, Query, Report, Forward, Store,
      FallbackRead, FallbackJudge, FallbackEvict, LookForFallback, Goto, End
<1>6. CASE Session(c)
  <2>1. CASE GetJudge(c)
    <3>1. item[c] # NoEntry /\ clock < item[c].freshUntil /\ kind = "hit" /\ pc[c] = "getJudge"
      BY <1>1, <1>2, <2>1 DEF GetJudge, Goto, End
    <3>2. item[c] \in CacheEntry /\ who[c] \in Requests /\ EntryOK(item[c], KeyOf(c))
      BY <1>h, <3>1 DEF Here, Slot
    <3>3. item[c].answer.of \in Requests
      BY <3>2 DEF CacheEntry, Answer
    <3>4. item[c].answer.of = who[c]
      BY <3>2, <3>3, KeyIsRequest DEF EntryOK, KeyOf
    <3> QED BY <3>1, <3>2, <3>4
  <2>2. CASE FallbackJudge(c)
    <3>1. item[c] # NoEntry /\ clock <= item[c].staleUntil /\ kind = "fallback"
          /\ pc[c] = "fallbackJudge"
      BY <1>1, <1>2, <2>2 DEF FallbackJudge, Usable, Goto, End
    <3>2. item[c] \in CacheEntry /\ who[c] \in Requests /\ EntryOK(item[c], KeyOf(c))
      BY <1>h, <3>1 DEF Here, Slot
    <3>3. item[c].answer.of \in Requests
      BY <3>2 DEF CacheEntry, Answer
    <3>4. item[c].answer.of = who[c]
      BY <3>2, <3>3, KeyIsRequest DEF EntryOK, KeyOf
    <3> QED BY <3>1, <3>2, <3>4
  <2>3. CASE ~GetJudge(c) /\ ~FallbackJudge(c)
    BY <1>1, <1>2, <1>6, <2>3
    DEF Session, GetRead, GetEvict, Gate, Query, Report, Forward, Store,
        FallbackRead, FallbackEvict, LookForFallback, Goto, End
  <2> QED BY <2>1, <2>2, <2>3
<1> QED BY <1>3, <1>4, <1>5, <1>6 DEF Next

\* Whatever a client gets from the cache was answered to its own request.
THEOREM AnswersAreOwn == Spec => OwnAnswers
<1>1. ASSUME Inv, [Next]_vars, NEW c \in Conns, Serves(c, "hit") \/ Serves(c, "fallback")
      PROVE  item[c].answer.of = who[c]
  BY <1>1, ServedIsHeld
<1>2. Inv /\ [Next]_vars =>
        [\A c \in Conns :
           Serves(c, "hit") \/ Serves(c, "fallback") => item[c].answer.of = who[c]]_vars
  BY <1>1
<1> QED BY <1>2, StatusInvariant, PTL DEF Spec, OwnAnswers

\* A hit is younger than its lifetime and the time its answer took to forward.
THEOREM HitsAreYoung == Spec => HitsAreFresh
<1>1. ASSUME Inv, [Next]_vars, NEW c \in Conns, Serves(c, "hit")
      PROVE  clock - item[c].answer.at < StatusCacheTTL + WriteLag
  <2>1. item[c] \in CacheEntry /\ EntryOK(item[c], KeyOf(c)) /\ clock < item[c].freshUntil
    BY <1>1, ServedIsHeld
  <2>2. /\ item[c].freshUntil \in Nat /\ item[c].answer.at \in Nat /\ clock \in Nat
        /\ item[c].freshUntil <= item[c].answer.at + WriteLag + StatusCacheTTL
    BY <1>1, <2>1, StatusAssumption DEF CacheEntry, Answer, Until, EntryOK, Inv, Shapes
  <2> QED BY <2>1, <2>2, StatusAssumption
<1>2. Inv /\ [Next]_vars =>
        [\A c \in Conns :
           Serves(c, "hit") => clock - item[c].answer.at < StatusCacheTTL + WriteLag]_vars
  BY <1>1
<1> QED BY <1>2, StatusInvariant, PTL DEF Spec, HitsAreFresh

\* A fallback is not older than a snapshot may be.
THEOREM FallbacksAreYoung == Spec => FallbacksAreRecent
<1>1. ASSUME Inv, [Next]_vars, NEW c \in Conns, Serves(c, "fallback")
      PROVE  clock - item[c].answer.at <= StatusCacheTTL + MOTDFallbackTTL + WriteLag
  <2>1. item[c] \in CacheEntry /\ EntryOK(item[c], KeyOf(c)) /\ clock <= item[c].staleUntil
    BY <1>1, ServedIsHeld
  <2>2. /\ item[c].staleUntil \in Nat /\ item[c].answer.at \in Nat /\ clock \in Nat
        /\ item[c].staleUntil <= item[c].answer.at + WriteLag + StatusCacheTTL + MOTDFallbackTTL
    BY <1>1, <2>1, StatusAssumption DEF CacheEntry, Answer, Until, EntryOK, Inv, Shapes
  <2> QED BY <2>1, <2>2, StatusAssumption
<1>2. Inv /\ [Next]_vars =>
        [\A c \in Conns :
           Serves(c, "fallback") =>
             clock - item[c].answer.at <= StatusCacheTTL + MOTDFallbackTTL + WriteLag]_vars
  BY <1>1
<1> QED BY <1>2, StatusInvariant, PTL DEF Spec, FallbacksAreRecent

=============================================================================
