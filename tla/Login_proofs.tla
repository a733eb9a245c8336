---------------------------- MODULE Login_proofs ----------------------------
(***************************************************************************)
(* Proofs about the login path, for any number of connections, routes and  *)
(* clients and all options of the guard: whom a ban keeps out, what it     *)
(* takes to be banned, and that the guard is used as its specification     *)
(* allows.                                                                 *)
(***************************************************************************)
EXTENDS Login, FiniteSetTheorems, SequenceTheorems, TLAPS

\* A connection records a failure only if it was judged one, and under a player
\* only if it has one.
InOrder ==
    \A c \in Conns :
        /\ pc[c] \in {"ipClock", "ipFail", "playerClock", "playerFail"} => c \in early
        /\ pc[c] \in {"playerClock", "playerFail", "playerSuccess"} => HasPlayer(c)

\* The connections that have recorded their failure under key k.
Counted(k) ==
    {c \in early : /\ Carries(c, k)
                   /\ \/ k.kind = "ip" /\ pc[c] \in {"playerClock", "playerFail", "done"}
                      \/ k.kind = "player" /\ pc[c] = "done"}

\* No failure is recorded twice under a key, and a ban takes MaxFailures of them.
Tallied(k) ==
    /\ entries[k].failures <= Len(recorded[k])
    /\ entries[k].bannedUntil # 0 => MaxFailures <= Len(recorded[k])
    /\ Len(recorded[k]) <= Cardinality(Counted(k))

Tally == \A k \in Keys : Tallied(k)

Inv == TypeOK /\ InOrder /\ NoAdmissionWhileBanned /\ Tally

-----------------------------------------------------------------------------
\* The keys of a connection are keys of the guard, and carried by it.
LEMMA OwnKeys ==
    ASSUME TypeOK, NEW c \in Conns
    PROVE  /\ KIP(c) \in Keys /\ KIP(c).kind = "ip" /\ Carries(c, KIP(c))
           /\ HasPlayer(c) => /\ KPlayer(c) \in Keys /\ KPlayer(c).kind = "player"
                              /\ Carries(c, KPlayer(c))
<1>1. who[c] \in [route : Routes, ip : IPs, name : Names]
  BY DEF TypeOK
<1>2. HasPlayer(c) => PlayerOf[who[c].name] \in Players
  BY <1>1, LoginAssumption DEF HasPlayer
<1> QED
  BY <1>1, <1>2 DEF KIP, KPlayer, IPKey, PlayerKey, Keys, Carries

\* What the guard makes of an entry when a failure is recorded.
LEMMA FailedEntry ==
    ASSUME NEW e \in G!Entry \cup {G!NoEntry}, NEW t \in 1..Horizon
    PROVE  LET f == G!AfterFailure(e, t)
           IN  /\ f \in G!Entry
               /\ f.failures <= e.failures + 1
               /\ f.bannedUntil # 0 => MaxFailures <= f.failures \/ e.bannedUntil # 0
<1>1. /\ MaxFailures \in Nat \ {0} /\ Window \in Nat /\ BanDuration \in Nat
      /\ Horizon \in Nat
  BY LoginAssumption
<1>2. /\ e.failures \in Nat /\ e.windowStart \in 0..Horizon
      /\ e.bannedUntil \in 0..(Horizon + BanDuration)
      /\ e.windowStart # 0 => e.windowStart \in 1..Horizon
  BY <1>1 DEF G!Entry, G!NoEntry
<1> DEFINE late == e.windowStart = 0 \/ t - e.windowStart > Window
           n == IF late THEN 1 ELSE e.failures + 1
           b == IF n >= MaxFailures THEN t + BanDuration ELSE e.bannedUntil
<1>3. n \in Nat \ {0} /\ n <= e.failures + 1
  BY <1>2
<1>4. b \in 0..(Horizon + BanDuration) /\ (b # 0 => MaxFailures <= n \/ e.bannedUntil # 0)
  BY <1>1, <1>2, <1>3
<1>5. G!AfterFailure(e, t) = [failures |-> n, windowStart |-> IF late THEN t ELSE e.windowStart,
                              bannedUntil |-> b]
  BY DEF G!AfterFailure
<1>6. (IF late THEN t ELSE e.windowStart) \in 1..Horizon
  BY <1>2
<1> HIDE DEF n, b, late
<1> QED
  BY <1>3, <1>4, <1>5, <1>6 DEF G!Entry

-----------------------------------------------------------------------------
\* A step that adds nothing to the guard: keys stay as they are or are cleared.
Same(k) == entries'[k] = entries[k] /\ recorded'[k] = recorded[k]
Cleared(k) == entries'[k] = G!NoEntry /\ recorded'[k] = << >>

Quiet ==
    /\ clock' = clock
    /\ G!TypeOK'
    /\ \A k \in Keys : Same(k) \/ Cleared(k)

\* Deleting an entry is quiet.
LEMMA DeleteQuiet ==
    ASSUME TypeOK, NEW k \in Keys, G!Delete(k)
    PROVE  Quiet
<1>1. G!TypeOK
  BY DEF TypeOK
<1>2. << >> \in Seq(1..Horizon)
  OBVIOUS
<1>3. G!TypeOK'
  BY <1>1, <1>2 DEF G!TypeOK, G!Delete
<1> QED
  BY <1>1, <1>3 DEF Quiet, Same, Cleared, G!Delete, G!TypeOK

\* So is a check, which deletes what is over.
LEMMA CheckQuiet ==
    ASSUME TypeOK, NEW k \in Keys, G!IsBanned(k)
    PROVE  Quiet
<1>1. G!TypeOK
  BY DEF TypeOK
<1>2. << >> \in Seq(1..Horizon)
  OBVIOUS
<1>3. /\ clock' = clock
      /\ \/ entries' = entries /\ recorded' = recorded
         \/ /\ entries' = [entries EXCEPT ![k] = G!NoEntry]
            /\ recorded' = [recorded EXCEPT ![k] = << >>]
  BY <1>1 DEF G!IsBanned, G!AfterCheck, G!TypeOK
<1>4. G!TypeOK'
  BY <1>1, <1>2, <1>3 DEF G!TypeOK
<1> QED
  BY <1>1, <1>3, <1>4 DEF Quiet, Same, Cleared, G!TypeOK

\* So are a success, and nothing at all.
LEMMA SuccessQuiet ==
    ASSUME TypeOK, NEW k \in Keys, G!RecordSuccess(k)
    PROVE  Quiet
BY DeleteQuiet DEF G!RecordSuccess, TypeOK, Quiet, Same, G!vars, G!TypeOK

\* A step that leaves the guard alone records nothing.
LEMMA StillQuiet ==
    ASSUME TypeOK, UNCHANGED guardVars
    PROVE  Quiet
BY DEF TypeOK, Quiet, Same, G!TypeOK, guardVars

\* A failure is recorded under one key, by a reading that is not of the future.
Recorded(k, t) ==
    /\ clock' = clock
    /\ G!TypeOK'
    /\ \A j \in Keys : j # k => Same(j)
    /\ \/ Same(k)
       \/ /\ entries'[k] = G!AfterFailure(entries[k], t)
          /\ recorded'[k] = Append(recorded[k], t)

\* RecordFailure with a reading taken earlier.
LEMMA FailureRecorded ==
    ASSUME TypeOK, NEW k \in Keys, NEW t \in 1..clock, G!RecordFailure(k, t)
    PROVE  Recorded(k, t)
<1>1. /\ clock \in 1..Horizon /\ entries \in [Keys -> G!Entry \cup {G!NoEntry}]
      /\ recorded \in [Keys -> Seq(1..Horizon)]
  BY DEF TypeOK, G!TypeOK
<1>2. t \in 1..Horizon
  BY <1>1, LoginAssumption
<1>3. G!AfterFailure(entries[k], t) \in G!Entry
  BY <1>1, <1>2, FailedEntry
<1>4. Append(recorded[k], t) \in Seq(1..Horizon)
  BY <1>1, <1>2, AppendProperties
<1>5. G!TypeOK'
  BY <1>1, <1>3, <1>4 DEF G!RecordFailure, G!TypeOK
<1> QED
  BY <1>1, <1>5 DEF G!RecordFailure, Recorded, Same

-----------------------------------------------------------------------------
\* What a step of a connection does to the guard.
LEMMA GuardStep ==
    ASSUME TypeOK, InOrder, NEW c \in Conns, Session(c)
    PROVE  \/ Quiet
           \/ FailIP(c) /\ Recorded(KIP(c), reading[c])
           \/ FailPlayer(c) /\ HasPlayer(c) /\ Recorded(KPlayer(c), reading[c])
<1>1. CASE CheckIP(c)
  BY <1>1, OwnKeys, CheckQuiet DEF CheckIP
<1>2. CASE CheckPlayer(c)
  BY <1>2, OwnKeys, CheckQuiet, StillQuiet DEF CheckPlayer
<1>3. CASE SucceedIP(c)
  BY <1>3, OwnKeys, SuccessQuiet DEF SucceedIP
<1>4. CASE SucceedPlayer(c)
  <2>1. HasPlayer(c)
    BY <1>4 DEF SucceedPlayer, Goto, InOrder
  <2> QED
    BY <1>4, <2>1, OwnKeys, SuccessQuiet DEF SucceedPlayer
<1>5. CASE FailIP(c)
  <2>1. reading[c] \in 1..clock
    BY <1>5 DEF FailIP, Goto, TypeOK, G!TypeOK
  <2> QED
    BY <1>5, <2>1, OwnKeys, FailureRecorded DEF FailIP, Fail
<1>6. CASE FailPlayer(c)
  <2>1. reading[c] \in 1..clock /\ HasPlayer(c)
    BY <1>6 DEF FailPlayer, Goto, TypeOK, InOrder, G!TypeOK
  <2> QED
    BY <1>6, <2>1, OwnKeys, FailureRecorded DEF FailPlayer, Fail
<1>7. CASE Accept(c) \/ ReadLogin(c) \/ Observe(c) \/ Dial(c) \/ ReplayFails(c)
           \/ ReplaySucceeds(c) \/ EndPipe(c) \/ ReadClock(c)
  <2>1. UNCHANGED guardVars
    BY <1>7 DEF Accept, ReadLogin, Observe, Dial, ReplayFails, ReplaySucceeds, EndPipe, ReadClock
  <2> QED
    BY <2>1, StillQuiet
<1> QED
  BY <1>1, <1>2, <1>3, <1>4, <1>5, <1>6, <1>7 DEF Session

\* The guard is left in order, at the time it was.
LEMMA GuardKept ==
    ASSUME TypeOK, InOrder, NEW c \in Conns, Session(c)
    PROVE  G!TypeOK' /\ clock' = clock
BY GuardStep DEF Quiet, Recorded

Results == {"none", "ip_banned", "player_banned", "record_failure", "record_success"}
Failing == {"ipClock", "ipFail", "playerClock", "playerFail"}

\* What a connection has to be like for TypeOK and InOrder.
Fits(place, read, result, failed, named) ==
    /\ place \in {"ipFail", "playerFail"} <=> read # 0
    /\ place \in {"ipSuccess", "playerSuccess"} => result = "record_success"
    /\ failed => place \in Failing \cup {"done"} /\ result = "record_failure"
    /\ place \in Failing => failed
    /\ place \in {"playerClock", "playerFail", "playerSuccess"} => named

\* If a connection moves and fits where it comes to, the types are kept.
LEMMA MoveTypes ==
    ASSUME TypeOK, InOrder, G!TypeOK', clock' = clock, who' = who,
           NEW c \in Conns, NEW x \in PCs, NEW r \in Results, NEW t \in 0..clock,
           pc' = [pc EXCEPT ![c] = x], action' = [action EXCEPT ![c] = r],
           reading' = [reading EXCEPT ![c] = t], early' \in {early, early \cup {c}},
           since' \in [Conns -> 0..Horizon], cohort' \in [Keys -> SUBSET Conns],
           Fits(x, t, r, c \in early', HasPlayer(c))
    PROVE  TypeOK' /\ InOrder'
<1>1. /\ pc' \in [Conns -> PCs] /\ action' \in [Conns -> Results]
      /\ reading' \in [Conns -> 0..clock]
  BY DEF TypeOK, Results
<1>2. \A d \in Conns : HasPlayer(d)' <=> HasPlayer(d)
  BY DEF HasPlayer
<1>3. ASSUME NEW d \in Conns
      PROVE  Fits(pc'[d], reading'[d], action'[d], d \in early', HasPlayer(d)')
  <2>1. CASE d = c
    <3>1. pc'[d] = x /\ reading'[d] = t /\ action'[d] = r
      BY <2>1 DEF TypeOK
    <3> QED BY <1>2, <2>1, <3>1 DEF Fits
  <2>2. CASE d # c
    <3>1. /\ pc'[d] = pc[d] /\ reading'[d] = reading[d] /\ action'[d] = action[d]
          /\ d \in early' <=> d \in early
      BY <2>2 DEF TypeOK
    <3>2. Fits(pc[d], reading[d], action[d], d \in early, HasPlayer(d))
      BY DEF TypeOK, InOrder, Fits, Failing
    <3> QED BY <1>2, <3>1, <3>2 DEF Fits
  <2> QED BY <2>1, <2>2
<1>4. TypeOK'
  <2>1. early' \subseteq Conns /\ who' \in [Conns -> [route : Routes, ip : IPs, name : Names]]
    BY DEF TypeOK
  <2> QED BY <1>1, <1>3, <2>1 DEF TypeOK, Fits, Failing, Results
<1>5. InOrder'
  BY <1>3 DEF InOrder, Fits, Failing
<1> QED BY <1>4, <1>5

\* Every step of a connection keeps the types.
LEMMA SessionTypes ==
    ASSUME TypeOK, InOrder, NEW c \in Conns, Session(c)
    PROVE  TypeOK' /\ InOrder'
<1>1. G!TypeOK' /\ clock' = clock /\ clock \in 1..Horizon /\ Horizon \in Nat
  BY GuardKept, LoginAssumption DEF TypeOK, G!TypeOK
<1>2. /\ action = [action EXCEPT ![c] = action[c]] /\ action[c] \in Results
      /\ reading = [reading EXCEPT ![c] = reading[c]] /\ reading[c] \in 0..clock
      /\ 0 \in 0..clock /\ clock \in 0..clock
      /\ since \in [Conns -> 0..Horizon] /\ cohort \in [Keys -> SUBSET Conns]
      /\ \A t \in 0..clock : [since EXCEPT ![c] = t] \in [Conns -> 0..Horizon]
  BY <1>1 DEF TypeOK, Results
<1>3. Fits(pc[c], reading[c], action[c], c \in early, HasPlayer(c))
  BY DEF TypeOK, InOrder, Fits, Failing
<1>4. CASE CheckIP(c) \/ CheckPlayer(c)
  <2>1. PICK x \in {"readLogin", "observe", "done"}, r \in Results :
               pc' = [pc EXCEPT ![c] = x] /\ action' = [action EXCEPT ![c] = r]
    <3>1. \/ \E x \in {"readLogin", "observe"} : pc' = [pc EXCEPT ![c] = x] /\ action' = action
          \/ \E r \in {"ip_banned", "player_banned"} :
                pc' = [pc EXCEPT ![c] = "done"] /\ action' = [action EXCEPT ![c] = r]
      BY <1>4 DEF CheckIP, CheckPlayer, Goto, Return
    <3> QED BY <1>2, <3>1 DEF Results
  <2>2. pc[c] \in {"ipCheck", "playerCheck"} /\ UNCHANGED <<who, since, reading, early, cohort>>
    BY <1>4 DEF CheckIP, CheckPlayer, Goto, Return
  <2>3. Fits(x, reading[c], r, c \in early', HasPlayer(c)) /\ x \in PCs
    BY <1>3, <2>2 DEF Fits, Failing, PCs
  <2> QED BY <1>1, <1>2, <2>1, <2>2, <2>3, MoveTypes
<1>5. CASE \/ Accept(c) \/ ReadLogin(c)
         \/ Observe(c) \/ Dial(c) \/ ReplaySucceeds(c)
  <2>1. PICK x \in {"ipCheck", "playerCheck", "dial", "replay", "pipe", "done"} : pc' = [pc EXCEPT ![c] = x]
    BY <1>5 DEF Accept, ReadLogin, Observe, Dial, ReplaySucceeds, Goto
  <2>2. /\ pc[c] \in {"accept", "readLogin", "observe", "dial", "replay"}
        /\ UNCHANGED <<who, reading, action, early, cohort>>
    BY <1>5 DEF Accept, ReadLogin, Observe, Dial, ReplaySucceeds, Goto
  <2>3. since' \in [Conns -> 0..Horizon]
    BY <1>2, <1>5 DEF Accept, ReadLogin, Observe, Dial, ReplaySucceeds
  <2>4. Fits(x, reading[c], action[c], c \in early', HasPlayer(c)) /\ x \in PCs
    BY <1>3, <2>2 DEF Fits, Failing, PCs
  <2> QED BY <1>1, <1>2, <2>1, <2>2, <2>3, <2>4, MoveTypes
<1>6. CASE ReplayFails(c) \/ EndPipe(c)
  <2>1. PICK x \in {"ipClock", "ipSuccess", "done"}, r \in {"record_failure", "record_success"} :
               /\ pc' = [pc EXCEPT ![c] = x] /\ action' = [action EXCEPT ![c] = r]
               /\ x = "ipSuccess" => r = "record_success"
               /\ IF x = "ipClock" THEN r = "record_failure" /\ early' = early \cup {c}
                                   ELSE early' = early
    BY <1>6 DEF ReplayFails, EndPipe, Goto
  <2>2. pc[c] \in {"replay", "pipe"} /\ UNCHANGED <<who, reading, cohort>>
    BY <1>6 DEF ReplayFails, EndPipe, Goto
  <2>3. since' \in [Conns -> 0..Horizon]
    BY <1>2, <1>6 DEF ReplayFails, EndPipe
  <2>4. Fits(x, reading[c], r, c \in early', HasPlayer(c)) /\ x \in PCs /\ r \in Results
    BY <1>3, <2>1, <2>2 DEF Fits, Failing, PCs, Results
  <2> QED BY <1>1, <1>2, <2>1, <2>2, <2>3, <2>4, MoveTypes
<1>7. CASE ReadClock(c)
  <2>1. PICK x \in {"ipFail", "playerFail"} :
               /\ pc' = [pc EXCEPT ![c] = x] /\ pc[c] \in {"ipClock", "playerClock"}
               /\ x = "playerFail" => pc[c] = "playerClock"
    BY <1>7 DEF ReadClock, Goto
  <2>2. /\ reading' = [reading EXCEPT ![c] = clock]
        /\ UNCHANGED <<who, since, action, early, cohort>>
    BY <1>7 DEF ReadClock
  <2>3. Fits(x, clock, action[c], c \in early', HasPlayer(c)) /\ x \in PCs
    BY <1>1, <1>3, <2>1, <2>2 DEF Fits, Failing, PCs
  <2> QED BY <1>1, <1>2, <2>1, <2>2, <2>3, MoveTypes
<1>8. CASE FailIP(c) \/ FailPlayer(c)
  <2>1. Conns \in SUBSET Conns /\ \A k \in Keys : Admitted(k) \in SUBSET Conns
    BY DEF Admitted
  <2>2. cohort' \in [Keys -> SUBSET Conns]
    BY <1>8, <2>1 DEF FailIP, FailPlayer, Fail, TypeOK
  <2>3. reading' = [reading EXCEPT ![c] = 0] /\ UNCHANGED <<who, since, action, early>>
    BY <1>8 DEF FailIP, FailPlayer, Fail
  <2>4. PICK x \in {"playerClock", "done"} :
               /\ pc' = [pc EXCEPT ![c] = x] /\ pc[c] \in {"ipFail", "playerFail"}
               /\ x = "playerClock" => HasPlayer(c)
    BY <1>8 DEF FailIP, FailPlayer, Goto
  <2>5. Fits(x, 0, action[c], c \in early', HasPlayer(c)) /\ x \in PCs
    BY <1>3, <2>3, <2>4 DEF Fits, Failing, PCs
  <2> QED BY <1>1, <1>2, <2>2, <2>3, <2>4, <2>5, MoveTypes
<1>9. CASE SucceedIP(c) \/ SucceedPlayer(c)
  <2>1. PICK x \in {"playerSuccess", "done"} :
               /\ pc' = [pc EXCEPT ![c] = x] /\ pc[c] \in {"ipSuccess", "playerSuccess"}
               /\ x = "playerSuccess" => HasPlayer(c)
    BY <1>9 DEF SucceedIP, SucceedPlayer, Goto
  <2>2. UNCHANGED <<who, since, reading, action, early, cohort>>
    BY <1>9 DEF SucceedIP, SucceedPlayer
  <2>3. Fits(x, reading[c], action[c], c \in early', HasPlayer(c)) /\ x \in PCs
    BY <1>3, <2>1, <2>2 DEF Fits, Failing, PCs
  <2> QED BY <1>1, <1>2, <2>1, <2>2, <2>3, MoveTypes
<1> QED
  BY <1>4, <1>5, <1>6, <1>7, <1>8, <1>9 DEF Session

-----------------------------------------------------------------------------
\* Where nothing is added to the guard no ban begins.
LEMMA NoNewBan ==
    ASSUME TypeOK, Quiet, NEW k \in Keys, Banned(k)'
    PROVE  Banned(k)
BY DEF Quiet, Same, Cleared, Banned, G!BannedAt, G!NoEntry, TypeOK, G!TypeOK

\* Nor does any as time passes.
LEMMA NoLaterBan ==
    ASSUME TypeOK, Tick, NEW k \in Keys, Banned(k)'
    PROVE  Banned(k)
<1>1. clock \in Nat /\ clock' = clock + 1 /\ entries' = entries
  BY LoginAssumption DEF Tick, G!Tick, TypeOK, G!TypeOK
<1>2. entries[k].bannedUntil \in Int
  BY LoginAssumption DEF TypeOK, G!TypeOK, G!Entry, G!NoEntry
<1> QED
  BY <1>1, <1>2 DEF Banned, G!BannedAt

\* A step of a connection admits nobody to a key that is banned.
LEMMA SessionAdmits ==
    ASSUME TypeOK, InOrder, NoAdmissionWhileBanned, NEW c \in Conns, Session(c)
    PROVE  NoAdmissionWhileBanned'
<1> SUFFICES ASSUME NEW k \in Keys, Banned(k)' PROVE Admitted(k)' \subseteq cohort'[k]
  BY DEF NoAdmissionWhileBanned
<1>1. who' = who /\ \A d \in Conns : d # c => pc'[d] = pc[d]
  BY DEF Session, Accept, CheckIP, ReadLogin, CheckPlayer, Observe, Dial, ReplayFails,
         ReplaySucceeds, EndPipe, ReadClock, FailIP, FailPlayer, Fail, SucceedIP,
         SucceedPlayer, Goto, Return, TypeOK
<1>2. /\ \A d \in Conns : KIP(d)' = KIP(d) /\ KPlayer(d)' = KPlayer(d)
      /\ \A d \in Conns : HasPlayer(d)' = HasPlayer(d)
  BY <1>1 DEF KIP, KPlayer, HasPlayer
<1>3. ASSUME pc'[c] \in AfterIPCheck /\ k = KIP(c) => pc[c] \in AfterIPCheck,
             pc'[c] \in AfterPlayerCheck /\ HasPlayer(c) /\ k = KPlayer(c)
                 => pc[c] \in AfterPlayerCheck
      PROVE  Admitted(k)' \subseteq Admitted(k)
  BY <1>1, <1>2, <1>3 DEF Admitted
<1>4. CASE FailIP(c) \/ FailPlayer(c)
  <2>1. PICK j \in Keys : Fail(c, j) /\ Recorded(j, reading[c])
    <3>1. HasPlayer(c) \/ ~FailPlayer(c)
      BY DEF FailPlayer, Goto, InOrder
    <3>2. reading[c] \in 1..clock
      BY <1>4 DEF FailIP, FailPlayer, Goto, TypeOK, G!TypeOK
    <3> QED
      BY <1>4, <3>1, <3>2, OwnKeys, FailureRecorded DEF FailIP, FailPlayer, Fail
  <2>2. pc'[c] \in {"playerClock", "done"}
    BY <1>4 DEF FailIP, FailPlayer, Goto, TypeOK
  <2>3. Admitted(k)' \subseteq Admitted(k)
    BY <1>3, <2>2 DEF AfterIPCheck, AfterPlayerCheck
  <2>4. CASE k = j
    BY <2>1, <2>3, <2>4 DEF Fail, NoAdmissionWhileBanned, Recorded, Banned, TypeOK
  <2>5. CASE k # j
    BY <2>1, <2>3, <2>5 DEF Fail, NoAdmissionWhileBanned, Recorded, Same, Banned, TypeOK
  <2> QED
    BY <2>4, <2>5
<1>5. CASE ~(FailIP(c) \/ FailPlayer(c))
  <2>1. Quiet
    BY <1>5, GuardStep
  <2>2. Banned(k)
    BY <2>1, NoNewBan
  <2>3. cohort' = cohort
    BY <1>5 DEF Session, Accept, CheckIP, ReadLogin, CheckPlayer, Observe, Dial, ReplayFails,
         ReplaySucceeds, EndPipe, ReadClock, SucceedIP, SucceedPlayer
  <2>4. Admitted(k)' \subseteq Admitted(k)
    <3>1. CASE CheckIP(c)
      <4>1. pc[c] = "ipCheck" /\ pc'[c] \in {"readLogin", "done"}
        BY <3>1 DEF CheckIP, Goto, Return, TypeOK
      <4>2. pc'[c] = "readLogin" => k # KIP(c)
        BY <2>2, <3>1, <4>1 DEF CheckIP, Goto, Return, TypeOK
      <4> QED
        BY <1>3, <4>1, <4>2 DEF AfterIPCheck, AfterPlayerCheck
    <3>2. CASE CheckPlayer(c)
      <4>1. pc[c] = "playerCheck" /\ pc'[c] \in {"observe", "done"}
        BY <3>2 DEF CheckPlayer, Goto, Return, TypeOK
      <4>2. pc'[c] = "observe" /\ HasPlayer(c) => k # KPlayer(c)
        BY <2>2, <3>2, <4>1 DEF CheckPlayer, Goto, Return, TypeOK
      <4> QED
        BY <1>3, <4>1, <4>2 DEF AfterIPCheck, AfterPlayerCheck
    <3>3. CASE Accept(c) \/ ReadLogin(c)
      BY <1>3, <3>3 DEF Accept, ReadLogin, Goto, TypeOK, AfterIPCheck, AfterPlayerCheck
    <3>4. CASE Observe(c) \/ Dial(c)
      BY <1>3, <3>4 DEF Observe, Dial, Goto, TypeOK, AfterIPCheck, AfterPlayerCheck
    <3>5. CASE ReplayFails(c) \/ ReplaySucceeds(c)
      BY <1>3, <3>5 DEF ReplayFails, ReplaySucceeds, Goto, TypeOK, AfterIPCheck, AfterPlayerCheck
    <3>6. CASE EndPipe(c) \/ ReadClock(c)
      BY <1>3, <3>6 DEF EndPipe, ReadClock, Goto, TypeOK, AfterIPCheck, AfterPlayerCheck
    <3>7. CASE SucceedIP(c) \/ SucceedPlayer(c)
      BY <1>3, <3>7 DEF SucceedIP, SucceedPlayer, Goto, TypeOK, AfterIPCheck, AfterPlayerCheck
    <3> QED
      BY <1>5, <3>1, <3>2, <3>3, <3>4, <3>5, <3>6, <3>7 DEF Session
  <2> QED
    BY <2>2, <2>3, <2>4 DEF NoAdmissionWhileBanned
<1> QED
  BY <1>4, <1>5

-----------------------------------------------------------------------------
\* Who has been counted under a key stays counted.
LEMMA CountedStays ==
    ASSUME TypeOK, NEW c \in Conns, Session(c), NEW k \in Keys
    PROVE  Counted(k) \subseteq Counted(k)'
<1>1. who' = who /\ early \subseteq early' /\ \A d \in Conns : d # c => pc'[d] = pc[d]
  BY DEF Session, Accept, CheckIP, ReadLogin, CheckPlayer, Observe, Dial, ReplayFails,
         ReplaySucceeds, EndPipe, ReadClock, FailIP, FailPlayer, Fail, SucceedIP,
         SucceedPlayer, Goto, Return, TypeOK
<1>2. pc[c] # "done" /\ (pc[c] = "playerClock" => pc'[c] = "playerFail")
  BY DEF Session, Accept, CheckIP, ReadLogin, CheckPlayer, Observe, Dial, ReplayFails,
         ReplaySucceeds, EndPipe, ReadClock, FailIP, FailPlayer, Fail, SucceedIP,
         SucceedPlayer, Goto, Return, TypeOK
<1>3. pc[c] = "playerFail" => pc'[c] = "done"
  BY DEF Session, Accept, CheckIP, ReadLogin, CheckPlayer, Observe, Dial, ReplayFails,
         ReplaySucceeds, EndPipe, ReadClock, FailIP, FailPlayer, Fail, SucceedIP,
         SucceedPlayer, Goto, Return, TypeOK
<1>4. early \subseteq Conns
  BY DEF TypeOK
<1> QED
  BY <1>1, <1>2, <1>3, <1>4 DEF Counted, Carries

\* There are finitely many, so that more of them are a greater number.
LEMMA CountedGrows ==
    ASSUME TypeOK, TypeOK', NEW k \in Keys, Counted(k) \subseteq Counted(k)'
    PROVE  /\ Cardinality(Counted(k)) \in Nat /\ Cardinality(Counted(k)') \in Nat
           /\ Cardinality(Counted(k)) <= Cardinality(Counted(k)')
<1>1. Counted(k) \subseteq Conns /\ Counted(k)' \subseteq Conns
  BY DEF Counted, TypeOK
<1>2. IsFiniteSet(Counted(k)) /\ IsFiniteSet(Counted(k)')
  BY <1>1, LoginAssumption, FS_Subset
<1> QED
  BY <1>2, FS_Subset, FS_CardinalityType

\* A key that is left alone or cleared keeps its tally.
LEMMA QuietTally ==
    ASSUME TypeOK, TypeOK', NEW k \in Keys, Tallied(k), Same(k) \/ Cleared(k),
           Counted(k) \subseteq Counted(k)'
    PROVE  Tallied(k)'
<1>1. /\ Cardinality(Counted(k)) \in Nat /\ Cardinality(Counted(k)') \in Nat
      /\ Cardinality(Counted(k)) <= Cardinality(Counted(k)')
  BY CountedGrows
<1>2. Len(recorded[k]) \in Nat
  BY DEF TypeOK, G!TypeOK
<1>3. CASE Same(k)
  BY <1>1, <1>2, <1>3 DEF Tallied, Same
<1>4. CASE Cleared(k)
  BY <1>1, <1>4 DEF Tallied, Cleared, G!NoEntry
<1> QED
  BY <1>3, <1>4

\* A failure is counted with the connection that recorded it, which was not
\* counted before: it makes room for itself.
LEMMA FailureTally ==
    ASSUME TypeOK, TypeOK', NEW k \in Keys, NEW c \in Conns, NEW t \in 1..Horizon,
           Tallied(k), Recorded(k, t),
           Counted(k) \subseteq Counted(k)', c \notin Counted(k), c \in Counted(k)'
    PROVE  Tallied(k)' /\ Len(recorded[k]) < Cardinality(Conns)
<1>1. Counted(k) \subseteq Conns /\ Counted(k)' \subseteq Conns
  BY DEF Counted, TypeOK
<1>2. IsFiniteSet(Counted(k)) /\ IsFiniteSet(Counted(k)') /\ IsFiniteSet(Conns)
  BY <1>1, LoginAssumption, FS_Subset
<1> DEFINE grown == Counted(k) \cup {c}
<1>3. IsFiniteSet(grown) /\ Cardinality(grown) = Cardinality(Counted(k)) + 1
  BY <1>2, FS_AddElement
<1>4. grown \subseteq Counted(k)' /\ grown \subseteq Conns
  BY <1>1
<1>5. Cardinality(grown) <= Cardinality(Counted(k)') /\ Cardinality(grown) <= Cardinality(Conns)
  BY <1>2, <1>3, <1>4, FS_Subset
<1>6. /\ Cardinality(Counted(k)) \in Nat /\ Cardinality(Counted(k)') \in Nat
      /\ Cardinality(Conns) \in Nat
  BY <1>2, FS_CardinalityType
<1> HIDE DEF grown
<1>7. /\ recorded[k] \in Seq(1..Horizon) /\ entries[k] \in G!Entry \cup {G!NoEntry}
      /\ Len(recorded[k]) \in Nat
  BY DEF TypeOK, G!TypeOK
<1>8. Len(recorded[k]) < Cardinality(Conns)
  BY <1>3, <1>5, <1>6, <1>7 DEF Tallied
<1>9. CASE Same(k)
  BY <1>3, <1>5, <1>6, <1>7, <1>9 DEF Tallied, Same
<1>10. CASE /\ entries'[k] = G!AfterFailure(entries[k], t)
            /\ recorded'[k] = Append(recorded[k], t)
  <2>1. Len(recorded'[k]) = Len(recorded[k]) + 1
    BY <1>7, <1>10, AppendProperties
  <2>2. /\ entries'[k] \in G!Entry
        /\ entries'[k].failures <= entries[k].failures + 1
        /\ entries'[k].bannedUntil # 0 => MaxFailures <= entries'[k].failures
                                            \/ entries[k].bannedUntil # 0
    BY <1>7, <1>10, FailedEntry
  <2>3. MaxFailures \in Nat /\ entries[k].failures \in Nat /\ entries'[k].failures \in Nat
    BY <1>7, <2>2, LoginAssumption DEF G!Entry, G!NoEntry
  <2> QED
    BY <1>3, <1>5, <1>6, <1>7, <2>1, <2>2, <2>3 DEF Tallied
<1> QED
  BY <1>8, <1>9, <1>10 DEF Recorded

\* Which connection a failure is counted with.
LEMMA FailureCounted ==
    ASSUME TypeOK, InOrder, NEW c \in Conns
    PROVE  /\ FailIP(c) => c \notin Counted(KIP(c)) /\ c \in Counted(KIP(c))'
           /\ FailPlayer(c) => c \notin Counted(KPlayer(c)) /\ c \in Counted(KPlayer(c))'
<1>1. CASE FailIP(c)
  <2>1. pc[c] = "ipFail" /\ pc'[c] \in {"playerClock", "done"} /\ who' = who /\ early' = early
    BY <1>1 DEF FailIP, Fail, Goto, TypeOK
  <2> QED
    BY <1>1, <2>1, OwnKeys DEF Counted, Carries, InOrder, FailPlayer, Goto, KIP, IPKey
<1>2. CASE FailPlayer(c)
  <2>1. pc[c] = "playerFail" /\ pc'[c] = "done" /\ who' = who /\ early' = early
    BY <1>2 DEF FailPlayer, Fail, Goto, TypeOK
  <2> QED
    BY <1>2, <2>1, OwnKeys DEF Counted, Carries, InOrder, FailIP, Goto, KPlayer, PlayerKey
<1> QED
  BY <1>1, <1>2

\* Every step of a connection keeps the tally, and finds room for its failure.
LEMMA SessionTally ==
    ASSUME TypeOK, InOrder, Tally, NEW c \in Conns, Session(c)
    PROVE  /\ Tally'
           /\ FailIP(c) => Len(recorded[KIP(c)]) < Cardinality(Conns)
           /\ FailPlayer(c) => Len(recorded[KPlayer(c)]) < Cardinality(Conns)
<1>1. TypeOK' /\ \A k \in Keys : Tallied(k) /\ Counted(k) \subseteq Counted(k)'
  BY SessionTypes, CountedStays DEF Tally, Tallied
<1>2. CASE Quiet /\ ~(FailIP(c) \/ FailPlayer(c))
  BY <1>1, <1>2, QuietTally DEF Quiet, Tally, Tallied
<1>3. ASSUME NEW j \in Keys, FailIP(c) \/ FailPlayer(c), Recorded(j, reading[c]),
             c \notin Counted(j), c \in Counted(j)'
      PROVE  Tally' /\ Len(recorded[j]) < Cardinality(Conns)
  <2>1. reading[c] \in 1..Horizon
    BY <1>3, LoginAssumption DEF FailIP, FailPlayer, Goto, TypeOK, G!TypeOK
  <2>2. Tallied(j)' /\ Len(recorded[j]) < Cardinality(Conns)
    BY <1>1, <1>3, <2>1, FailureTally
  <2>3. ASSUME NEW k \in Keys, k # j PROVE Tallied(k)'
    BY <1>1, <1>3, <2>3, QuietTally DEF Recorded
  <2> QED
    BY <2>2, <2>3 DEF Tally, Tallied
<1>4. ~(FailIP(c) /\ FailPlayer(c))
  BY DEF FailIP, FailPlayer, Goto
<1>5. CASE FailIP(c)
  <2>1. KIP(c) \in Keys /\ Recorded(KIP(c), reading[c])
    <3>1. reading[c] \in 1..clock
      BY <1>5 DEF FailIP, Goto, TypeOK, G!TypeOK
    <3> QED
      BY <1>5, <3>1, OwnKeys, FailureRecorded DEF FailIP, Fail
  <2>2. PICK j \in Keys : j = KIP(c)
    BY <2>1
  <2>3. KIP(c)' = j
    BY <1>5, <2>2 DEF FailIP, Fail, KIP, IPKey
  <2>4. c \notin Counted(j) /\ c \in Counted(j)'
    BY <1>5, <2>2, <2>3, FailureCounted DEF Counted, Carries
  <2>5. Tally' /\ Len(recorded[j]) < Cardinality(Conns)
    BY <1>3, <1>5, <2>1, <2>2, <2>4
  <2> QED
    BY <1>4, <1>5, <2>2, <2>5
<1>6. CASE FailPlayer(c)
  <2>1. KPlayer(c) \in Keys /\ Recorded(KPlayer(c), reading[c])
    <3>1. reading[c] \in 1..clock /\ HasPlayer(c)
      BY <1>6 DEF FailPlayer, Goto, TypeOK, InOrder, G!TypeOK
    <3> QED
      BY <1>6, <3>1, OwnKeys, FailureRecorded DEF FailPlayer, Fail
  <2>2. PICK j \in Keys : j = KPlayer(c)
    BY <2>1
  <2>3. KPlayer(c)' = j
    BY <1>6, <2>2 DEF FailPlayer, Fail, KPlayer, PlayerKey
  <2>4. c \notin Counted(j) /\ c \in Counted(j)'
    BY <1>6, <2>2, <2>3, FailureCounted DEF Counted, Carries
  <2>5. Tally' /\ Len(recorded[j]) < Cardinality(Conns)
    BY <1>3, <1>6, <2>1, <2>2, <2>4
  <2> QED
    BY <1>4, <1>6, <2>2, <2>5
<1> QED
  BY <1>2, <1>5, <1>6, GuardStep

-----------------------------------------------------------------------------
\* The invariant holds at first,
LEMMA InitInv == Init => Inv
<1> SUFFICES ASSUME Init PROVE Inv
  OBVIOUS
<1>1. TypeOK
  BY LoginAssumption DEF Init, TypeOK, G!Init, G!TypeOK, PCs
<1>2. InOrder
  BY DEF Init, InOrder
<1>3. NoAdmissionWhileBanned
  BY DEF Init, NoAdmissionWhileBanned, Admitted, AfterIPCheck, AfterPlayerCheck
<1>4. Tally
  <2>1. ASSUME NEW k \in Keys PROVE Counted(k) = {}
    BY DEF Init, Counted
  <2>2. Cardinality({}) = 0 /\ Len(<< >>) = 0
    BY FS_EmptySet, EmptySeq
  <2>3. ASSUME NEW k \in Keys PROVE entries[k] = G!NoEntry /\ recorded[k] = << >>
    BY DEF Init, G!Init
  <2>4. ASSUME NEW k \in Keys PROVE Tallied(k)
    <3>1. entries[k].failures = 0 /\ entries[k].bannedUntil = 0
      BY <2>3 DEF G!NoEntry
    <3>2. Len(recorded[k]) = 0 /\ Cardinality(Counted(k)) = 0
      BY <2>1, <2>2, <2>3
    <3> QED
      BY <3>1, <3>2 DEF Tallied
  <2> QED
    BY <2>4 DEF Tally, Tallied
<1> QED
  BY <1>1, <1>2, <1>3, <1>4 DEF Inv

\* and is kept by time, by the management API and by the connections.
LEMMA NextInv == Inv /\ [Next]_vars => Inv'
<1> SUFFICES ASSUME Inv, [Next]_vars PROVE Inv'
  OBVIOUS
<1> USE DEF Inv
<1>1. CASE \E c \in Conns : Session(c)
  BY <1>1, SessionTypes, SessionAdmits, SessionTally
<1>2. ASSUME UNCHANGED <<pc, who, since, reading, action, early, cohort>>, G!TypeOK',
             Quiet \/ Tick \/ UNCHANGED vars
      PROVE  Inv'
  <2>1. clock' \in Nat /\ clock \in Nat /\ clock <= clock'
    BY <1>2, LoginAssumption DEF Quiet, Tick, G!Tick, vars, TypeOK, G!TypeOK
  <2>2. TypeOK' /\ InOrder'
    BY <1>2, <2>1 DEF TypeOK, InOrder, HasPlayer
  <2>3. \A k \in Keys : Admitted(k)' = Admitted(k) /\ Counted(k)' = Counted(k)
    BY <1>2 DEF Admitted, Counted, Carries, KIP, KPlayer, HasPlayer
  <2>4. \A k \in Keys : Banned(k)' => Banned(k)
    BY <1>2, NoNewBan, NoLaterBan DEF vars, Banned
  <2>5. NoAdmissionWhileBanned'
    BY <1>2, <2>3, <2>4 DEF NoAdmissionWhileBanned
  <2>6. ASSUME NEW k \in Keys PROVE Tallied(k)'
    <3>1. Same(k) \/ Cleared(k)
      BY <1>2 DEF Quiet, Tick, G!Tick, Same, vars
    <3> QED
      BY <2>2, <2>3, <3>1, QuietTally DEF Tally, Tallied
  <2> QED
    BY <2>2, <2>5, <2>6 DEF Tally, Tallied
<1>3. CASE Tick
  <2>1. G!TypeOK'
    BY <1>3, LoginAssumption DEF Tick, G!Tick, TypeOK, G!TypeOK
  <2> QED
    BY <1>2, <1>3, <2>1 DEF Tick
<1>4. CASE \E k \in Keys : Unban(k)
  <2>1. Quiet
    BY <1>4, DeleteQuiet DEF Unban, G!Unban
  <2> QED
    BY <1>2, <1>4, <2>1 DEF Unban, Quiet
<1>5. CASE UNCHANGED vars
  BY <1>2, <1>5, StillQuiet DEF vars, guardVars, Quiet
<1> QED
  BY <1>1, <1>3, <1>4, <1>5 DEF Next

\* Every reachable state of the logins satisfies the invariant.
LEMMA LoginInvariant == Spec => []Inv
BY InitInv, NextInv, PTL DEF Spec

\* A connection has a live start and a live reading exactly where handleLogin does.
THEOREM LoginTypes == Spec => []TypeOK
<1>1. Inv => TypeOK BY DEF Inv
<1> QED BY <1>1, LoginInvariant, PTL

\* A ban keeps out every login but those its check let through before it began,
\* for any number of logins, routes and clients.
THEOREM BansKeepOut == Spec => []NoAdmissionWhileBanned
<1>1. Inv => NoAdmissionWhileBanned BY DEF Inv
<1> QED BY <1>1, LoginInvariant, PTL

\* No login is counted twice under a key or under another's: it takes MaxFailures
\* logins to be banned.
THEOREM BansTakeLogins == Spec => []BanNeedsDistinctLogins
<1>1. Inv => BanNeedsDistinctLogins
  <2> SUFFICES ASSUME Inv, NEW k \in Keys, entries[k].bannedUntil # 0
               PROVE  Cardinality({c \in early : Carries(c, k)}) >= MaxFailures
    BY DEF BanNeedsDistinctLogins
  <2> DEFINE logins == {c \in early : Carries(c, k)}
  <2>1. logins \subseteq Conns /\ Counted(k) \subseteq logins
    BY DEF Counted, Inv, TypeOK
  <2>2. IsFiniteSet(logins) /\ IsFiniteSet(Counted(k))
    BY <2>1, LoginAssumption, FS_Subset
  <2>3. /\ Cardinality(Counted(k)) <= Cardinality(logins)
        /\ Cardinality(Counted(k)) \in Nat /\ Cardinality(logins) \in Nat
    BY <2>1, <2>2, FS_Subset, FS_CardinalityType
  <2>4. MaxFailures <= Len(recorded[k]) /\ Len(recorded[k]) <= Cardinality(Counted(k))
    BY DEF Inv, Tally, Tallied
  <2>5. Len(recorded[k]) \in Nat /\ MaxFailures \in Nat
    BY LoginAssumption DEF Inv, TypeOK, G!TypeOK
  <2> HIDE DEF logins
  <2>6. Cardinality(logins) >= MaxFailures
    BY <2>3, <2>4, <2>5
  <2> QED
    BY <2>6 DEF logins
<1> QED BY <1>1, LoginInvariant, PTL

\* The login path calls the guard only as the guard's specification allows: by
\* readings of the past, and no more often than there are logins.
THEOREM LoginUsesGuard == Spec => GuardSpec
<1>1. Init => G!Init
  BY DEF Init
<1>2. Inv /\ [Next]_vars => [G!Next]_(G!vars)
  <2> SUFFICES ASSUME Inv, [Next]_vars PROVE [G!Next]_(G!vars)
    OBVIOUS
  <2> USE DEF Inv
  <2>1. ASSUME NEW c \in Conns, Session(c) PROVE [G!Next]_(G!vars)
    <3>1. CASE CheckIP(c) \/ CheckPlayer(c)
      BY <3>1, OwnKeys DEF CheckIP, CheckPlayer, G!Next, G!vars, guardVars
    <3>2. CASE SucceedIP(c) \/ SucceedPlayer(c)
      <4>1. SucceedPlayer(c) => HasPlayer(c)
        BY DEF SucceedPlayer, Goto, InOrder
      <4> QED
        BY <3>2, <4>1, OwnKeys DEF SucceedIP, SucceedPlayer, G!Next
    <3>3. CASE FailIP(c) \/ FailPlayer(c)
      <4>1. reading[c] \in G!Readings
        BY <3>3, LoginAssumption
        DEF FailIP, FailPlayer, Goto, TypeOK, G!TypeOK, G!Readings
      <4>2. FailPlayer(c) => HasPlayer(c)
        BY DEF FailPlayer, Goto, InOrder
      <4>3. PICK k \in Keys : /\ G!RecordFailure(k, reading[c])
                              /\ Len(recorded[k]) < Cardinality(Conns)
        BY <2>1, <3>3, <4>2, OwnKeys, SessionTally DEF FailIP, FailPlayer, Fail
      <4> QED
        BY <4>1, <4>3 DEF G!Next
    <3>4. CASE Accept(c) \/ ReadLogin(c) \/ Observe(c) \/ Dial(c) \/ ReplayFails(c)
               \/ ReplaySucceeds(c) \/ EndPipe(c) \/ ReadClock(c)
      BY <3>4 DEF Accept, ReadLogin, Observe, Dial, ReplayFails, ReplaySucceeds, EndPipe,
                  ReadClock, G!vars, guardVars
    <3> QED
      BY <2>1, <3>1, <3>2, <3>3, <3>4 DEF Session
  <2>2. CASE Tick
    BY <2>2 DEF Tick, G!Next
  <2>3. CASE \E k \in Keys : Unban(k)
    BY <2>3 DEF Unban, G!Next
  <2>4. CASE UNCHANGED vars
    BY <2>4 DEF vars, G!vars
  <2> QED
    BY <2>1, <2>2, <2>3, <2>4 DEF Next
<1> QED
  BY <1>1, <1>2, LoginInvariant, PTL DEF Spec, GuardSpec, G!Spec
=============================================================================
