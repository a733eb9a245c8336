----------------------------- MODULE Pool_proofs -----------------------------
(***************************************************************************)
(* Proofs about the pool and the dialer, for any number of backends,       *)
(* queries, refills and connections, any limit and any timeout: what is    *)
(* opened is closed or owned once, the limit holds although it is checked  *)
(* long before a connection is put, and dead connections run out.          *)
(***************************************************************************)
EXTENDS Pool, SequenceTheorems, FiniteSetTheorems, WellFoundedInduction, TLAPS

\* What each place in the dialer says about its goroutine.
Roles ==
    /\ \A p \in Procs :
          /\ fresh[p] # None <=> pc[p] = "put"
          /\ pc[p] # "away" => target[p] \in Backends
          /\ pc[p] \in {"dial", "use"} => p \in Queries
    /\ \A q \in Queries :
          /\ pc[q] \in {"away", "dial"} => held[q] = None
          /\ pc[q] = "use" => held[q] # None

\* The items of a list are different connections.
Distinct(items) ==
    \A i, j \in DOMAIN items : items[i].conn = items[j].conn => i = j

\* An open connection is owned, and a closed one is not.
Owned ==
    \A c \in Conns :
        open[c] # None <=> \/ \E b \in Backends : c \in ConnsIn(idle[b])
                           \/ \E q \in Queries : held[q] = c
                           \/ \E p \in Procs : fresh[p] = c

\* No connection is owned twice.
Apart ==
    /\ \A b \in Backends : Distinct(idle[b])
    /\ \A q, r \in Queries : held[q] # None /\ held[q] = held[r] => q = r
    /\ \A p, r \in Procs : fresh[p] # None /\ fresh[p] = fresh[r] => p = r
    /\ \A q \in Queries : \A p \in Procs : held[q] # None => held[q] # fresh[p]
    /\ \A b \in Backends : \A q \in Queries : held[q] \notin ConnsIn(idle[b])
    /\ \A b \in Backends : \A p \in Procs : fresh[p] \notin ConnsIn(idle[b])

\* A connection that waits for queries of a backend leads to it.
Right ==
    /\ \A b \in Backends : \A c \in ConnsIn(idle[b]) : open[c] = b
    /\ \A p \in Procs : fresh[p] # None => open[fresh[p]] = target[p]

\* Who owns what, told without counting: an open connection has one owner, a
\* closed one none.
Places == Owned /\ Apart /\ Right

\* The dead connections that wait for queries of b: as many queries more can be
\* misled.
Dead(b) == Waiting(b) \ alive

Owed == \A b \in Backends : Cardinality(Dead(b)) <= spare[b]

Inv ==
    /\ TypeOK /\ Roles
    /\ Places
    /\ IdleBounded
    /\ Owed

-----------------------------------------------------------------------------
\* What holds at first and is handed on holds throughout.
LEMMA Handed ==
    ASSUME NEW L \in Nat, NEW T, 0 \in T, \A n \in 0..L : n \in T /\ n < L => n + 1 \in T
    PROVE  0..L \subseteq T
<1> DEFINE missing == {n \in 0..L : n \notin T}
           less == {ss \in Nat \X Nat : ss[1] < ss[2]}
<1>1. SUFFICES ASSUME missing # {} PROVE FALSE
  OBVIOUS
<1>2. less = OpToRel(<, Nat)
  BY Zenon DEF OpToRel
<1>3. IsWellFoundedOn(less, Nat)
  BY <1>2, NatLessThanWellFounded, Zenon
<1>4. missing \subseteq Nat
  OBVIOUS
<1>5. PICK m \in missing : \A n \in missing : <<n, m>> \notin less
  <2> HIDE DEF missing, less
  <2> QED BY <1>1, <1>3, <1>4, WFMin, Zenon
<1>6. m \in Nat /\ m # 0 /\ m - 1 \in 0..L /\ m - 1 < L
  BY <1>5
<1>7. m - 1 \notin missing
  <2>1. <<m - 1, m>> \in less
    BY <1>6
  <2> QED BY <1>5, <2>1
<1> QED
  BY <1>5, <1>6, <1>7

\* One turn of the loop of NeedsConn.
Turn(items, kept, i) ==
    IF i = 0 THEN << >>
    ELSE IF Usable(items[i]) THEN Append(kept[i - 1], items[i])
    ELSE kept[i - 1]

\* The loop defines a list for every number of turns.
LEMMA KeptLoop ==
    ASSUME NEW items \in Seq(Item)
    PROVE  KeptOf(items) = [i \in 0..Len(items) |-> Turn(items, KeptOf(items), i)]
<1> DEFINE L == Len(items)
           Runs(f, n) == /\ f \in [0..n -> Seq(Item)]
                         /\ \A i \in 0..n : f[i] = Turn(items, f, i)
           T == {n \in 0..L : \E f : Runs(f, n)}
<1>1. L \in Nat /\ \A i \in 1..L : items[i] \in Item
  BY LenProperties, ElementOfSeq
<1>2. 0 \in T
  <2> DEFINE f == [i \in 0..0 |-> << >>]
  <2>1. Runs(f, 0)
    BY DEF Turn
  <2> HIDE DEF f, Runs
  <2> QED BY <1>1, <2>1
<1>3. ASSUME NEW n \in 0..L, n \in T, n < L PROVE n + 1 \in T
  <2>1. PICK f : Runs(f, n)
    BY <1>3
  <2> DEFINE next == IF Usable(items[n + 1]) THEN Append(f[n], items[n + 1]) ELSE f[n]
             g == [i \in 0..(n + 1) |-> IF i <= n THEN f[i] ELSE next]
  <2>2. next \in Seq(Item)
    BY <1>1, <1>3, <2>1
  <2>3. g \in [0..(n + 1) -> Seq(Item)]
    <3> HIDE DEF next
    <3> QED BY <1>3, <2>1, <2>2
  <2>4. ASSUME NEW i \in 0..(n + 1) PROVE g[i] = Turn(items, g, i)
    <3>1. CASE i <= n
      <4>1. g[i] = f[i] /\ f[i] = Turn(items, f, i)
        BY <1>3, <2>1, <3>1
      <4>2. i # 0 => g[i - 1] = f[i - 1]
        BY <1>3, <3>1
      <4> QED BY <4>1, <4>2 DEF Turn
    <3>2. CASE i = n + 1
      <4>1. g[i] = next /\ g[i - 1] = f[n] /\ i # 0
        BY <1>3, <3>2
      <4> QED BY <3>2, <4>1 DEF Turn
    <3> QED BY <1>3, <3>1, <3>2
  <2>5. Runs(g, n + 1)
    BY <2>3, <2>4
  <2> HIDE DEF g, Runs
  <2> QED BY <1>3, <2>5
<1> HIDE DEF T
<1>4. L \in T
  <2>1. \A n \in 0..L : n \in T /\ n < L => n + 1 \in T
    BY <1>3
  <2> HIDE DEF L
  <2>2. 0..L \subseteq T
    BY <1>1, <1>2, <2>1, Handed, Zenon
  <2> QED BY <1>1, <2>2
<1> USE DEF T
<1>5. PICK f : Runs(f, L)
  BY <1>4
<1>6. f = [i \in 0..L |-> Turn(items, f, i)]
  BY <1>5
<1>7. KeptOf(items) = CHOOSE kept : kept = [i \in 0..L |-> Turn(items, kept, i)]
  BY Zenon DEF KeptOf, Turn
<1> HIDE DEF L, Runs, T
<1>8. KeptOf(items) = [i \in 0..L |-> Turn(items, KeptOf(items), i)]
  BY <1>6, <1>7, Zenon
<1> QED BY <1>8 DEF L

\* What NeedsConn keeps: the items that are not too old, each once.
LEMMA KeptItems ==
    ASSUME NEW items \in Seq(Item)
    PROVE  LET kept == KeptOf(items)[Len(items)]
           IN  /\ kept \in Seq(Item) /\ Len(kept) <= Len(items)
               /\ \A m \in DOMAIN kept : \E j \in DOMAIN items : kept[m] = items[j]
               /\ \A j \in DOMAIN items :
                     Usable(items[j]) => \E m \in DOMAIN kept : kept[m] = items[j]
               /\ Distinct(items) => Distinct(kept)
<1> DEFINE L == Len(items)
           F == KeptOf(items)
           Good(i) ==
               /\ F[i] \in Seq(Item) /\ Len(F[i]) <= i
               /\ \A m \in 1..Len(F[i]) : \E j \in 1..i : F[i][m] = items[j]
               /\ \A j \in 1..i : Usable(items[j]) => \E m \in 1..Len(F[i]) : F[i][m] = items[j]
               /\ Distinct(items) => \A m, n \in 1..Len(F[i]) : F[i][m].conn = F[i][n].conn => m = n
           T == {i \in 0..L : Good(i)}
<1>1. /\ L \in Nat /\ DOMAIN items = 1..L /\ \A i \in 1..L : items[i] \in Item
  BY LenProperties, ElementOfSeq
<1>2. \A i \in 0..L : F[i] = Turn(items, F, i)
  BY KeptLoop, Zenon
<1> HIDE DEF F
<1>3. 0 \in T
  <2>1. F[0] = << >> /\ Len(<< >>) = 0
    BY <1>1, <1>2 DEF Turn
  <2>2. Good(0)
    BY <2>1
  <2> HIDE DEF Good
  <2> QED BY <1>1, <2>2
<1>4. ASSUME NEW n \in 0..L, n \in T, n < L PROVE n + 1 \in T
  <2> DEFINE k == F[n]
             x == items[n + 1]
  <2>1. n + 1 \in 1..L /\ n + 1 \in 0..L /\ (n + 1) - 1 = n /\ x \in Item
    BY <1>1, <1>4
  <2>2. F[n + 1] = IF Usable(x) THEN Append(k, x) ELSE k
    BY <1>2, <2>1 DEF Turn
  <2>3. Good(n)
    BY <1>4
  <2>4. CASE ~Usable(x)
    <3>1. F[n + 1] = k
      BY <2>2, <2>4
    <3>2. k \in Seq(Item) /\ Len(k) <= n + 1
      BY <2>3
    <3>3. \A m \in 1..Len(k) : \E j \in 1..(n + 1) : k[m] = items[j]
      BY <2>3
    <3>4. \A j \in 1..(n + 1) : Usable(items[j]) => \E m \in 1..Len(k) : k[m] = items[j]
      BY <2>3, <2>4
    <3>5. Distinct(items) => \A m, i \in 1..Len(k) : k[m].conn = k[i].conn => m = i
      BY <2>3
    <3>6. Good(n + 1)
      <4> HIDE DEF k
      <4> QED BY <3>1, <3>2, <3>3, <3>4, <3>5
    <3> HIDE DEF Good
    <3> QED BY <2>1, <3>6
  <2>5. CASE Usable(x)
    <3> DEFINE a == F[n + 1]
    <3>1. a = Append(k, x)
      BY <2>2, <2>5
    <3>2. k \in Seq(Item) /\ Len(k) \in Nat /\ Len(k) <= n
      BY <2>3
    <3>3. /\ a \in Seq(Item) /\ Len(a) = Len(k) + 1
          /\ \A m \in 1..Len(k) : a[m] = k[m]
          /\ a[Len(k) + 1] = x
      BY <2>1, <3>1, <3>2, AppendProperties
    <3>4. ASSUME NEW m \in 1..Len(a) PROVE \E j \in 1..(n + 1) : a[m] = items[j]
      <4>1. CASE m = Len(k) + 1
        BY <2>1, <3>3, <4>1
      <4>2. CASE m # Len(k) + 1
        <5>1. m \in 1..Len(k)
          BY <3>2, <3>3, <4>2
        <5>2. PICK j \in 1..n : k[m] = items[j]
          BY <2>3, <5>1
        <5> QED BY <3>3, <5>1, <5>2
      <4> QED BY <4>1, <4>2
    <3>5. \A j \in 1..(n + 1) : Usable(items[j]) => \E m \in 1..Len(a) : a[m] = items[j]
      <4> SUFFICES ASSUME NEW j \in 1..(n + 1), Usable(items[j])
                   PROVE  \E m \in 1..Len(a) : a[m] = items[j]
        OBVIOUS
      <4>1. CASE j = n + 1
        BY <3>2, <3>3, <4>1
      <4>2. CASE j # n + 1
        <5>1. PICK m \in 1..Len(k) : k[m] = items[j]
          BY <1>4, <2>3, <4>2
        <5> QED BY <3>2, <3>3, <5>1
      <4> QED BY <4>1, <4>2
    <3>6. ASSUME Distinct(items), NEW m \in 1..Len(a), NEW i \in 1..Len(a),
                 a[m].conn = a[i].conn
          PROVE  m = i
      <4>1. ASSUME NEW l \in 1..Len(k) PROVE k[l].conn # x.conn
        <5>1. PICK j \in 1..n : k[l] = items[j]
          BY <2>3
        <5>2. j \in DOMAIN items /\ n + 1 \in DOMAIN items /\ j # n + 1
          BY <1>1, <2>1, <5>1
        <5> QED BY <3>6, <5>1, <5>2 DEF Distinct
      <4>2. \A l, h \in 1..Len(k) : k[l].conn = k[h].conn => l = h
        BY <2>3, <3>6
      <4> HIDE DEF k, x, a
      <4> QED BY <3>2, <3>3, <3>6, <4>1, <4>2
    <3>7. Len(a) <= n + 1
      BY <3>2, <3>3
    <3>8. Good(n + 1)
      <4> HIDE DEF k, x
      <4> QED BY <3>3, <3>4, <3>5, <3>6, <3>7
    <3> HIDE DEF Good
    <3> QED BY <2>1, <3>8
  <2> QED BY <2>4, <2>5
<1> HIDE DEF T
<1>5. L \in T
  <2>1. \A n \in 0..L : n \in T /\ n < L => n + 1 \in T
    BY <1>4
  <2> HIDE DEF L
  <2>2. 0..L \subseteq T
    BY <1>1, <1>3, <2>1, Handed, Zenon
  <2> QED BY <1>1, <2>2
<1> USE DEF T
<1>6. Good(L)
  BY <1>5
<1>7. F[L] \in Seq(Item) => DOMAIN F[L] = 1..Len(F[L])
  BY LenProperties
<1> QED
  BY <1>1, <1>6, <1>7 DEF F, Distinct

-----------------------------------------------------------------------------
\* Lists of items, and what the pool does with them.
LEMMA Lists ==
    ASSUME NEW s \in Seq(Item)
    PROVE  /\ DOMAIN s = 1..Len(s) /\ Len(s) \in Nat
           /\ \A i \in DOMAIN s : s[i] \in Item /\ s[i].conn \in Conns
                                  /\ s[i].conn \in ConnsIn(s)
           /\ ConnsIn(s) \subseteq Conns
<1>1. DOMAIN s = 1..Len(s) /\ Len(s) \in Nat /\ \A i \in 1..Len(s) : s[i] \in Item
  BY LenProperties, ElementOfSeq
<1> QED BY <1>1 DEF ConnsIn, Item

\* The empty list is one.
LEMMA EmptyList ==
    /\ << >> \in Seq(Item) /\ Len(<< >>) = 0
    /\ ConnsIn(<< >>) = {} /\ Distinct(<< >>)
<1>1. << >> \in Seq(Item) /\ Len(<< >>) = 0 /\ DOMAIN << >> = {}
  BY EmptySeq
<1> QED BY <1>1 DEF ConnsIn, Distinct

\* Get takes an item and leaves those before it.
LEMMA CutList ==
    ASSUME NEW s \in Seq(Item), NEW i \in DOMAIN s, Distinct(s)
    PROVE  LET t == SubSeq(s, 1, i - 1)
           IN  /\ t \in Seq(Item) /\ Len(t) = i - 1 /\ Len(t) <= Len(s)
               /\ \A j \in 1..(i - 1) : t[j] = s[j]
               /\ Distinct(t)
               /\ ConnsIn(s) = ConnsIn(t) \cup {s[i].conn}
                                  \cup {s[j].conn : j \in (i + 1)..Len(s)}
               /\ s[i].conn \notin ConnsIn(t) \cup {s[j].conn : j \in (i + 1)..Len(s)}
               /\ ConnsIn(t) \cap {s[j].conn : j \in (i + 1)..Len(s)} = {}
<1> DEFINE t == SubSeq(s, 1, i - 1)
<1>1. DOMAIN s = 1..Len(s) /\ Len(s) \in Nat /\ i \in 1..Len(s)
  BY Lists
<1>2. /\ t \in Seq(Item) /\ Len(t) = i - 1 /\ DOMAIN t = 1..(i - 1)
      /\ \A j \in 1..(i - 1) : t[j] = s[j]
  <2>1. \A j \in 1..(i - 1) : s[j] \in Item
    BY <1>1, Lists
  <2>2. 1 \in Int /\ i - 1 \in Int
    BY <1>1
  <2>3. t \in Seq(Item) /\ Len(t) = i - 1 /\ \A j \in 1..(i - 1) : t[j] = s[j]
    BY <1>1, <2>1, <2>2
  <2> HIDE DEF t
  <2> QED BY <2>3, LenProperties
<1> HIDE DEF t
<1>3. Distinct(t)
  BY <1>1, <1>2 DEF Distinct
<1>4. ConnsIn(s) = ConnsIn(t) \cup {s[i].conn} \cup {s[j].conn : j \in (i + 1)..Len(s)}
  BY <1>1, <1>2 DEF ConnsIn
<1>5. /\ s[i].conn \notin ConnsIn(t) \cup {s[j].conn : j \in (i + 1)..Len(s)}
      /\ ConnsIn(t) \cap {s[j].conn : j \in (i + 1)..Len(s)} = {}
  BY <1>1, <1>2 DEF ConnsIn, Distinct
<1> QED BY <1>1, <1>2, <1>3, <1>4, <1>5 DEF t

\* Put adds an item.
LEMMA AddedList ==
    ASSUME NEW s \in Seq(Item), NEW c \in Conns, c \notin ConnsIn(s), Distinct(s)
    PROVE  LET t == Append(s, [conn |-> c, age |-> 0])
           IN  /\ t \in Seq(Item) /\ Len(t) = Len(s) + 1
               /\ \A j \in 1..Len(s) : t[j] = s[j]
               /\ Distinct(t) /\ ConnsIn(t) = ConnsIn(s) \cup {c}
<1> DEFINE t == Append(s, [conn |-> c, age |-> 0])
<1>1. [conn |-> c, age |-> 0] \in Item
  BY PoolAssumption DEF Item
<1>2. /\ t \in Seq(Item) /\ Len(t) = Len(s) + 1
      /\ \A j \in 1..Len(s) : t[j] = s[j]
      /\ t[Len(s) + 1] = [conn |-> c, age |-> 0]
  BY <1>1, AppendProperties
<1>3. DOMAIN s = 1..Len(s) /\ DOMAIN t = 1..(Len(s) + 1) /\ Len(s) \in Nat
  <2> HIDE DEF t
  <2> QED BY <1>2, Lists
<1>4. t[Len(s) + 1].conn = c
  BY <1>2
<1> HIDE DEF t
<1>5. Distinct(t) /\ ConnsIn(t) = ConnsIn(s) \cup {c}
  BY <1>2, <1>3, <1>4 DEF Distinct, ConnsIn
<1> QED BY <1>2, <1>5 DEF t

\* NeedsConn keeps those that are not too old.
LEMMA KeptList ==
    ASSUME TypeOK, NEW b \in Backends, Distinct(idle[b])
    PROVE  /\ Kept(b) \in Seq(Item) /\ Len(Kept(b)) <= Len(idle[b])
           /\ Distinct(Kept(b)) /\ ConnsIn(Kept(b)) \subseteq ConnsIn(idle[b])
           /\ \A i \in DOMAIN idle[b] : Usable(idle[b][i]) => idle[b][i].conn \in ConnsIn(Kept(b))
<1>1. idle[b] \in Seq(Item)
  BY DEF TypeOK
<1> QED BY <1>1, KeptItems DEF Kept, ConnsIn

\* Time passes for a list.
Aged(s) == [i \in DOMAIN s |->
               [s[i] EXCEPT !.age = IF Usable(s[i]) THEN @ + 1 ELSE @]]

\* Growing older changes nothing but the ages.
LEMMA AgedList ==
    ASSUME NEW s \in Seq(Item)
    PROVE  /\ Aged(s) \in Seq(Item) /\ Len(Aged(s)) = Len(s) /\ DOMAIN Aged(s) = DOMAIN s
           /\ \A i \in DOMAIN s : Aged(s)[i].conn = s[i].conn
           /\ ConnsIn(Aged(s)) = ConnsIn(s) /\ (Distinct(s) => Distinct(Aged(s)))
<1>1. DOMAIN s = 1..Len(s) /\ Len(s) \in Nat /\ \A i \in DOMAIN s : s[i] \in Item
  BY Lists
<1>2. ASSUME NEW i \in DOMAIN s
      PROVE  Aged(s)[i] \in Item /\ Aged(s)[i].conn = s[i].conn
  BY <1>1, PoolAssumption DEF Aged, Item, Usable
<1>3. DOMAIN Aged(s) = 1..Len(s)
  BY <1>1 DEF Aged
<1>4. Aged(s) \in [1..Len(s) -> Item]
  BY <1>1, <1>2 DEF Aged
<1>5. Aged(s) \in Seq(Item) /\ Len(Aged(s)) = Len(s)
  BY <1>1, <1>4, <1>3, IsASeq, LenProperties
<1>6. ConnsIn(Aged(s)) = ConnsIn(s) /\ (Distinct(s) => Distinct(Aged(s)))
  BY <1>1, <1>2, <1>3 DEF ConnsIn, Distinct
<1> QED BY <1>1, <1>2, <1>3, <1>5, <1>6

-----------------------------------------------------------------------------
\* Where nothing waits or what waits is finite, it can be counted.
LEMMA WaitingCounts ==
    ASSUME TypeOK, NEW b \in Backends
    PROVE  /\ Waiting(b) \subseteq Conns /\ Dead(b) \subseteq Conns
           /\ IsFiniteSet(Waiting(b)) /\ IsFiniteSet(Dead(b))
           /\ Cardinality(Waiting(b)) \in Nat /\ Cardinality(Dead(b)) \in Nat
<1>1. Waiting(b) \subseteq Conns
  <2>1. ConnsIn(idle[b]) \subseteq Conns
    BY Lists DEF TypeOK
  <2> QED BY <2>1 DEF Waiting, TypeOK
<1>2. Dead(b) \subseteq Conns
  BY <1>1 DEF Dead
<1> QED BY <1>1, <1>2, PoolAssumption, FS_Subset, FS_CardinalityType

\* Closing keeps the types.
LEMMA CloseTypes ==
    ASSUME TypeOK, NEW cs, Close(cs)
    PROVE  open' \in [Conns -> Backends \cup {None}] /\ alive' \subseteq Conns
BY DEF TypeOK, Close

\* Every step keeps the types and the roles.
LEMMA TypesKept ==
    ASSUME TypeOK, Roles, Apart, Next
    PROVE  TypeOK' /\ Roles'
<1>1. /\ None \notin Backends /\ None \notin Conns
      /\ Main \in Procs /\ Main \notin Queries /\ Main \notin Refillers
      /\ Queries \subseteq Procs /\ Refillers \subseteq Procs /\ Queries \cap Refillers = {}
  BY PoolAssumption DEF Procs
<1>2. CASE WarmNext
  <2>1. Head(unwarmed) \in Backends /\ Tail(unwarmed) \in Seq(Backends)
    BY <1>2, HeadTailProperties DEF WarmNext, TypeOK
  <2>2. TypeOK'
    BY <1>1, <1>2, <2>1 DEF WarmNext, TypeOK, pool, net
  <2> QED BY <1>1, <1>2, <2>1, <2>2 DEF WarmNext, TypeOK, Roles
<1>3. ASSUME NEW q \in Queries, NEW r \in Refillers, NEW b \in Backends, Hit(q, r, b)
      PROVE  TypeOK' /\ Roles'
  <2>1. PICK i \in DOMAIN idle[b] :
           /\ Take(b, i)
           /\ Close({idle[b][j].conn : j \in (i + 1)..Len(idle[b])})
           /\ held' = [held EXCEPT ![q] = idle[b][i].conn]
           /\ spare' = IF idle[b][i].conn \in alive THEN spare
                       ELSE [spare EXCEPT ![b] = @ - 1]
    BY <1>3 DEF Hit
  <2>2. SubSeq(idle[b], 1, i - 1) \in Seq(Item) /\ idle[b][i].conn \in Conns
    BY CutList, Lists DEF TypeOK, Apart
  <2>3. /\ idle' \in [Backends -> Seq(Item)]
        /\ open' \in [Conns -> Backends \cup {None}] /\ alive' \subseteq Conns
    BY <2>1, <2>2, CloseTypes DEF Take, TypeOK
  <2>4. held' \in [Queries -> Conns \cup {None}] /\ spare' \in [Backends -> Int]
    BY <2>1, <2>2 DEF TypeOK
  <2>5. /\ pc' = [pc EXCEPT ![q] = "use", ![r] = "check"]
        /\ target' = [target EXCEPT ![q] = b, ![r] = b]
        /\ UNCHANGED <<closed, fresh, unwarmed>>
        /\ pc[q] = "away" /\ pc[r] = "away"
    BY <1>3 DEF Hit
  <2>6. TypeOK'
    BY <1>1, <2>3, <2>4, <2>5 DEF TypeOK
  <2>7. q # r /\ q \in Procs /\ r \in Procs /\ r \notin Queries
    BY <1>1
  <2>8. /\ pc'[q] = "use" /\ pc'[r] = "check" /\ target'[q] = b /\ target'[r] = b
        /\ \A p \in Procs : p # q /\ p # r => pc'[p] = pc[p] /\ target'[p] = target[p]
    BY <2>5, <2>7 DEF TypeOK
  <2>9. /\ held'[q] # None /\ \A p \in Queries : p # q => held'[p] = held[p]
        /\ fresh' = fresh /\ fresh[q] = None /\ fresh[r] = None
    BY <1>1, <2>1, <2>2, <2>5, <2>7 DEF TypeOK, Roles
  <2>10. ASSUME NEW p \in Procs
         PROVE  /\ fresh'[p] # None <=> pc'[p] = "put"
                /\ pc'[p] # "away" => target'[p] \in Backends
                /\ pc'[p] \in {"dial", "use"} => p \in Queries
    <3>1. CASE p = q \/ p = r
      BY <2>7, <2>8, <2>9, <3>1
    <3>2. CASE p # q /\ p # r
      BY <2>8, <2>9, <3>2 DEF Roles
    <3> QED BY <3>1, <3>2
  <2>11. ASSUME NEW p \in Queries
         PROVE  /\ pc'[p] \in {"away", "dial"} => held'[p] = None
                /\ pc'[p] = "use" => held'[p] # None
    <3>1. CASE p = q
      BY <2>8, <2>9, <3>1
    <3>2. CASE p # q
      BY <1>1, <2>7, <2>8, <2>9, <3>2 DEF Roles
    <3> QED BY <3>1, <3>2
  <2>12. Roles'
    BY <2>10, <2>11 DEF Roles
  <2> QED BY <2>6, <2>12
<1>4. ASSUME NEW q \in Queries, NEW b \in Backends, Miss(q, b)
      PROVE  TypeOK' /\ Roles'
  <2>1. idle' \in [Backends -> Seq(Item)]
    BY <1>4, EmptyList DEF Miss, TypeOK
  <2>2. open' \in [Conns -> Backends \cup {None}] /\ alive' \subseteq Conns
    BY <1>4, CloseTypes DEF Miss, TypeOK, net
  <2>3. /\ pc' = [pc EXCEPT ![q] = "dial"] /\ pc[q] = "away"
        /\ target' = [target EXCEPT ![q] = b]
        /\ UNCHANGED <<closed, held, fresh, unwarmed, spare>>
    BY <1>4 DEF Miss
  <2>4. TypeOK'
    BY <1>1, <2>1, <2>2, <2>3 DEF TypeOK
  <2> QED BY <1>1, <2>3, <2>4 DEF Roles, TypeOK
<1>5. ASSUME NEW q \in Queries, Dial(q)
      PROVE  TypeOK' /\ Roles'
  <2>1. target[q] \in Backends /\ pc[q] = "dial" /\ fresh[q] = None /\ q \in Procs
    BY <1>1, <1>5 DEF Dial, Roles
  <2>2. \/ \E c \in Conns : /\ open' = [open EXCEPT ![c] = target[q]]
                            /\ alive' = alive \cup {c}
                            /\ held' = [held EXCEPT ![q] = c]
        \/ UNCHANGED <<open, alive, held>>
    BY <1>5 DEF Dial, Connect, Free, net
  <2>3. TypeOK'
    <3>1. /\ open' \in [Conns -> Backends \cup {None}] /\ alive' \subseteq Conns
          /\ held' \in [Queries -> Conns \cup {None}]
      BY <2>1, <2>2 DEF TypeOK
    <3>2. /\ pc' = [pc EXCEPT ![q] = "check"]
          /\ UNCHANGED <<idle, closed, target, fresh, unwarmed, spare>>
      BY <1>5 DEF Dial, pool
    <3>3. pc' \in [Procs -> {"away", "dial", "check", "refill", "put", "use"}]
      BY <3>2 DEF TypeOK
    <3> QED BY <3>1, <3>2, <3>3 DEF TypeOK
  <2> QED BY <1>1, <1>5, <2>1, <2>2, <2>3 DEF Dial, Roles, TypeOK
<1>6. ASSUME NEW q \in Queries, Finish(q)
      PROVE  TypeOK' /\ Roles'
  <2>1. open' \in [Conns -> Backends \cup {None}] /\ alive' \subseteq Conns
    BY <1>6, CloseTypes DEF Finish
  <2>2. TypeOK'
    BY <1>1, <1>6, <2>1 DEF Finish, TypeOK, pool
  <2> QED BY <1>1, <1>6, <2>2 DEF Finish, Roles, TypeOK
<1>7. ASSUME NEW p \in Procs, Return(p), pc[p] \in {"check", "refill", "put"},
             fresh'[p] = None, held' = held,
             \A r \in Procs : r # p => fresh'[r] = fresh[r]
      PROVE  /\ Roles'
             /\ pc' \in [Procs -> {"away", "dial", "check", "refill", "put", "use"}]
             /\ target' \in [Procs -> Backends \cup {None}]
  <2>1. /\ pc' \in [Procs -> {"away", "dial", "check", "refill", "put", "use"}]
        /\ target' \in [Procs -> Backends \cup {None}]
    BY <1>7 DEF Return, TypeOK
  <2>2. CASE p \in Queries /\ held[p] # None
    BY <1>1, <1>7, <2>2 DEF Return, Roles, TypeOK
  <2>3. CASE ~(p \in Queries /\ held[p] # None)
    BY <1>1, <1>7, <2>3 DEF Return, Roles, TypeOK
  <2> QED BY <2>1, <2>2, <2>3
<1>8. ASSUME NEW p \in Procs, Check(p)
      PROVE  TypeOK' /\ Roles'
  <2>1. target[p] \in Backends /\ pc[p] = "check" /\ fresh[p] = None
    BY <1>8 DEF Check, Roles
  <2>2. /\ idle' \in [Backends -> Seq(Item)]
        /\ open' \in [Conns -> Backends \cup {None}] /\ alive' \subseteq Conns
    <3>1. Kept(target[p]) \in Seq(Item)
      BY <2>1, KeptList DEF Apart
    <3>2. \/ UNCHANGED <<idle, net>>
          \/ /\ idle' = [idle EXCEPT ![target[p]] = Kept(target[p])]
             /\ Close(ConnsIn(idle[target[p]]) \ ConnsIn(Kept(target[p])))
      BY <1>8 DEF Check
    <3> QED BY <2>1, <3>1, <3>2, CloseTypes DEF TypeOK, net
  <2>3. UNCHANGED <<closed, held, fresh, unwarmed, spare>>
    BY <1>8 DEF Check
  <2>4. CASE Return(p)
    BY <1>7, <2>1, <2>2, <2>3, <2>4 DEF TypeOK
  <2>5. CASE pc' = [pc EXCEPT ![p] = "refill"] /\ UNCHANGED target
    <3>1. TypeOK'
      BY <2>2, <2>3, <2>5 DEF TypeOK
    <3> QED BY <1>1, <2>1, <2>3, <2>5, <3>1 DEF Roles, TypeOK
  <2> QED BY <1>8, <2>4, <2>5 DEF Check
<1>9. ASSUME NEW p \in Procs, Refill(p)
      PROVE  TypeOK' /\ Roles'
  <2>1. target[p] \in Backends /\ pc[p] = "refill" /\ fresh[p] = None
    BY <1>9 DEF Refill, Roles
  <2>2. UNCHANGED <<idle, closed, held, unwarmed, spare>>
    BY <1>9 DEF Refill, pool
  <2>3. CASE Return(p) /\ UNCHANGED <<net, fresh>>
    BY <1>7, <2>1, <2>2, <2>3 DEF TypeOK, net
  <2>4. CASE /\ \E c \in Free : Connect(target[p], c) /\ fresh' = [fresh EXCEPT ![p] = c]
             /\ pc' = [pc EXCEPT ![p] = "put"] /\ UNCHANGED target
    <3>1. PICK c \in Conns : /\ open' = [open EXCEPT ![c] = target[p]]
                             /\ alive' = alive \cup {c}
                             /\ fresh' = [fresh EXCEPT ![p] = c]
      BY <2>4 DEF Connect, Free
    <3>2. TypeOK'
      BY <2>1, <2>2, <2>4, <3>1 DEF TypeOK
    <3> QED BY <1>1, <2>1, <2>2, <2>4, <3>1, <3>2 DEF Roles, TypeOK
  <2> QED BY <1>9, <2>3, <2>4 DEF Refill
<1>10. ASSUME NEW p \in Procs, Put(p)
       PROVE  TypeOK' /\ Roles'
  <2>1. target[p] \in Backends /\ pc[p] = "put" /\ fresh[p] \in Conns
    BY <1>10 DEF Put, Roles, TypeOK
  <2>2. fresh[p] \notin ConnsIn(idle[target[p]]) /\ Distinct(idle[target[p]])
    BY <2>1 DEF Apart
  <2>3. Append(idle[target[p]], [conn |-> fresh[p], age |-> 0]) \in Seq(Item)
    BY <2>1, <2>2, AddedList DEF TypeOK
  <2>4. /\ idle' \in [Backends -> Seq(Item)] /\ closed' = closed
        /\ open' \in [Conns -> Backends \cup {None}] /\ alive' \subseteq Conns
    BY <1>10, <2>1, <2>3, CloseTypes DEF Put, Keep, TypeOK, net, pool
  <2>5. /\ fresh' = [fresh EXCEPT ![p] = None] /\ Return(p)
        /\ UNCHANGED <<held, unwarmed, spare>>
    BY <1>10 DEF Put
  <2> QED BY <1>7, <2>1, <2>4, <2>5 DEF TypeOK
<1>11. CASE Tick
  <2>1. \A b \in Backends : Aged(idle[b]) \in Seq(Item)
    BY AgedList DEF TypeOK
  <2>2. idle' = [b \in Backends |-> Aged(idle[b])]
    BY <1>11 DEF Tick, Aged
  <2>3. UNCHANGED <<closed, open, alive, pc, target, held, fresh, unwarmed, spare>>
    BY <1>11 DEF Tick, net, procs
  <2>4. idle' \in [Backends -> Seq(Item)]
    BY <2>1, <2>2
  <2>5. TypeOK'
    BY <2>3, <2>4 DEF TypeOK
  <2>6. Roles'
    BY <2>3 DEF Roles
  <2> QED BY <2>5, <2>6
<1>12. CASE ClosePool
  <2>1. open' \in [Conns -> Backends \cup {None}] /\ alive' \subseteq Conns
    BY <1>12, CloseTypes DEF ClosePool
  <2> QED BY <1>12, <2>1, EmptyList DEF ClosePool, TypeOK, Roles, procs
<1>13. ASSUME NEW b \in Backends, Crash(b)
       PROVE  TypeOK' /\ Roles'
  <2>1. Cardinality(Waiting(b)) \in Int
    BY WaitingCounts
  <2>2. spare' = [spare EXCEPT ![b] = Cardinality(Waiting(b))] /\ alive' \subseteq Conns
    BY <1>13 DEF Crash, TypeOK
  <2>3. UNCHANGED <<idle, closed, open, pc, target, held, fresh, unwarmed>>
    BY <1>13 DEF Crash, pool, procs
  <2>4. spare' \in [Backends -> Int]
    BY <2>1, <2>2 DEF TypeOK
  <2>5. TypeOK'
    BY <2>2, <2>3, <2>4 DEF TypeOK
  <2>6. Roles'
    BY <2>3 DEF Roles
  <2> QED BY <2>5, <2>6
<1> QED
  BY <1>2, <1>3, <1>4, <1>5, <1>6, <1>8, <1>9, <1>10, <1>11, <1>12, <1>13 DEF Next
-----------------------------------------------------------------------------
\* Closing and forgetting the connections D of one backend's list leaves the
\* places in order.
LEMMA DropPlaces ==
    ASSUME TypeOK, Places, NEW b \in Backends, NEW s \in Seq(Item), NEW D,
           idle' = [idle EXCEPT ![b] = s], Distinct(s),
           ConnsIn(idle[b]) = ConnsIn(s) \cup D, ConnsIn(s) \cap D = {},
           Close(D), UNCHANGED <<held, fresh>>,
           \A p \in Procs : fresh[p] # None => target'[p] = target[p]
    PROVE  Places'
<1>1. /\ None \notin Conns /\ None \notin Backends
      /\ \A x \in Backends : ConnsIn(idle[x]) \subseteq Conns
  BY PoolAssumption, Lists DEF TypeOK
<1>2. /\ idle'[b] = s
      /\ \A x \in Backends : x # b => idle'[x] = idle[x]
  BY DEF TypeOK
<1>3. \A c \in Conns : open'[c] = IF c \in D THEN None ELSE open[c]
  BY DEF Close
<1>4. D \subseteq ConnsIn(idle[b]) /\ \A c \in D : open[c] = b
  BY DEF Places, Right
<1>5. /\ \A q \in Queries : held[q] \notin D
      /\ \A p \in Procs : fresh[p] \notin D
      /\ \A x \in Backends : x # b => ConnsIn(idle[x]) \cap D = {}
  BY <1>4 DEF Places, Apart, Right
<1>6. \A x \in Backends : ConnsIn(idle'[x]) = ConnsIn(idle[x]) \ D /\ Distinct(idle'[x])
  BY <1>2, <1>5 DEF Places, Apart
<1>7. Owned'
  BY <1>1, <1>3, <1>5, <1>6 DEF Places, Owned
<1>8. Apart'
  BY <1>6 DEF Places, Apart
<1>9. Right'
  <2>1. \A x \in Backends : \A c \in ConnsIn(idle'[x]) : open'[c] = x
    BY <1>1, <1>3, <1>6 DEF Places, Right
  <2>2. \A p \in Procs : fresh'[p] # None => open'[fresh'[p]] = target'[p]
    BY <1>3, <1>5 DEF Places, Right, TypeOK
  <2> QED BY <2>1, <2>2 DEF Right
<1> QED BY <1>7, <1>8, <1>9 DEF Places

\* Where the lists have the same connections and the rest is as it was, the
\* places are in order as before.
LEMMA SamePlaces ==
    ASSUME TypeOK, Places, UNCHANGED <<open, held, fresh>>,
           \A b \in Backends : ConnsIn(idle'[b]) = ConnsIn(idle[b]) /\ Distinct(idle'[b]),
           \A p \in Procs : fresh[p] # None => target'[p] = target[p]
    PROVE  Places'
<1>1. Owned'
  BY DEF Places, Owned
<1>2. Apart'
  BY DEF Places, Apart
<1>3. Right'
  BY DEF Places, Right
<1> QED BY <1>1, <1>2, <1>3 DEF Places

\* Return leaves the target of a goroutine with a fresh connection alone.
LEMMA ReturnTargets ==
    ASSUME TypeOK, Roles, NEW p \in Procs, Return(p) \/ UNCHANGED target
    PROVE  \A r \in Procs : r # p => target'[r] = target[r]
BY DEF Return, TypeOK

\* Get, NeedsConn, Put and Close, the dialer and handleStatus keep the places in
\* order.
LEMMA PlacesKept ==
    ASSUME TypeOK, Roles, Places, Next
    PROVE  Places'
<1>1. /\ None \notin Backends /\ None \notin Conns /\ Queries \subseteq Procs
      /\ Queries \cap Refillers = {} /\ Refillers \subseteq Procs
      /\ Apart
      /\ \A b \in Backends : /\ idle[b] \in Seq(Item) /\ Distinct(idle[b])
                            /\ ConnsIn(idle[b]) \subseteq Conns
  BY PoolAssumption, Lists DEF Procs, Places, Apart, TypeOK
<1>2. CASE WarmNext
  <2>1. fresh[Main] = None /\ \A p \in Procs : p # Main => target'[p] = target[p]
    BY <1>2 DEF WarmNext, Roles, TypeOK, Procs
  <2>2. UNCHANGED <<idle, open, held, fresh>>
    BY <1>2 DEF WarmNext, pool, net
  <2> QED BY <1>1, <2>1, <2>2, SamePlaces
<1>3. ASSUME NEW q \in Queries, NEW r \in Refillers, NEW b \in Backends, Hit(q, r, b)
      PROVE  Places'
  <2>1. PICK i \in DOMAIN idle[b] :
           /\ Take(b, i)
           /\ Close({idle[b][j].conn : j \in (i + 1)..Len(idle[b])})
           /\ held' = [held EXCEPT ![q] = idle[b][i].conn]
    BY <1>3 DEF Hit
  <2> DEFINE c == idle[b][i].conn
             s == SubSeq(idle[b], 1, i - 1)
             D == {idle[b][j].conn : j \in (i + 1)..Len(idle[b])}
  <2>2. /\ s \in Seq(Item) /\ Distinct(s)
        /\ ConnsIn(idle[b]) = ConnsIn(s) \cup {c} \cup D
        /\ c \notin ConnsIn(s) \cup D /\ ConnsIn(s) \cap D = {}
        /\ c \in Conns
    <3>1. idle[b] \in Seq(Item) /\ Distinct(idle[b]) /\ i \in DOMAIN idle[b]
      BY <1>1
    <3>2. c \in Conns
      BY <3>1, Lists
    <3> QED BY <3>1, <3>2, CutList, Zenon
  <2>3. idle' = [idle EXCEPT ![b] = s] /\ Close(D) /\ held' = [held EXCEPT ![q] = c]
    BY <2>1 DEF Take
  <2> HIDE DEF c, s, D
  <2>4. /\ held[q] = None /\ fresh[q] = None /\ fresh[r] = None /\ fresh' = fresh
        /\ \A p \in Procs : p # q /\ p # r => target'[p] = target[p]
    BY <1>1, <1>3 DEF Hit, Roles, TypeOK
  <2>5. /\ idle'[b] = s
        /\ \A x \in Backends : x # b => idle'[x] = idle[x]
        /\ held'[q] = c /\ \A x \in Queries : x # q => held'[x] = held[x]
    BY <2>3 DEF TypeOK
  <2>6. \A x \in Conns : open'[x] = IF x \in D THEN None ELSE open[x]
    BY <2>3 DEF Close
  <2>7. /\ c \in ConnsIn(idle[b]) /\ D \subseteq ConnsIn(idle[b])
        /\ open[c] = b /\ \A x \in D : open[x] = b
    BY <2>2 DEF Places, Right
  <2>8. /\ \A x \in Queries : held[x] \notin D \cup {c}
        /\ \A p \in Procs : fresh[p] \notin D \cup {c}
        /\ \A x \in Backends : x # b => ConnsIn(idle[x]) \cap (D \cup {c}) = {}
    BY <2>7 DEF Places, Apart, Right
  <2>9. \A x \in Backends : /\ ConnsIn(idle'[x]) = ConnsIn(idle[x]) \ (D \cup {c})
                            /\ Distinct(idle'[x]) /\ ConnsIn(idle[x]) \subseteq Conns
    BY <1>1, <2>2, <2>5, <2>8, Lists
  <2>10. Owned'
    <3> SUFFICES ASSUME NEW x \in Conns
                 PROVE  open'[x] # None <=> \/ \E y \in Backends : x \in ConnsIn(idle'[y])
                                            \/ \E y \in Queries : held'[y] = x
                                            \/ \E y \in Procs : fresh'[y] = x
      BY DEF Owned
    <3>1. CASE x = c
      BY <1>1, <2>2, <2>5, <2>6, <2>7, <3>1
    <3>2. CASE x \in D
      BY <1>1, <2>2, <2>4, <2>5, <2>6, <2>8, <2>9, <3>2
    <3>3. CASE x # c /\ x \notin D
      BY <1>1, <2>4, <2>5, <2>6, <2>9, <3>3 DEF Places, Owned
    <3> QED BY <3>1, <3>2, <3>3
  <2>11. Apart'
    <3>1. /\ \A x, y \in Queries : held'[x] # None /\ held'[x] = held'[y] => x = y
          /\ \A x \in Queries : \A p \in Procs : held'[x] # None => held'[x] # fresh'[p]
      BY <1>1, <2>4, <2>5, <2>8 DEF Apart
    <3>2. \A y \in Backends : \A x \in Queries : held'[x] \notin ConnsIn(idle'[y])
      BY <1>1, <2>5, <2>9 DEF Apart
    <3> QED BY <1>1, <2>4, <2>9, <3>1, <3>2 DEF Apart
  <2>12. Right'
    <3>1. \A x \in Backends : \A y \in ConnsIn(idle'[x]) : open'[y] = x
      BY <2>6, <2>9 DEF Places, Right
    <3>2. \A p \in Procs : fresh'[p] # None => open'[fresh'[p]] = target'[p]
      BY <2>4, <2>6, <2>8 DEF Places, Right, TypeOK
    <3> QED BY <3>1, <3>2 DEF Right
  <2> QED BY <2>10, <2>11, <2>12 DEF Places
<1>4. ASSUME NEW q \in Queries, NEW b \in Backends, Miss(q, b)
      PROVE  Places'
  <2>1. /\ fresh[q] = None /\ q \in Procs /\ UNCHANGED <<held, fresh>>
        /\ target' = [target EXCEPT ![q] = b]
    BY <1>1, <1>4 DEF Miss, Roles
  <2>2. \A p \in Procs : fresh[p] # None => target'[p] = target[p]
    BY <2>1 DEF TypeOK
  <2>3. CASE UNCHANGED <<idle, net>>
    BY <1>1, <2>1, <2>2, <2>3, SamePlaces DEF net
  <2>4. CASE idle' = [idle EXCEPT ![b] = << >>] /\ Close(ConnsIn(idle[b]))
    <3>1. /\ << >> \in Seq(Item) /\ Distinct(<< >>)
          /\ ConnsIn(idle[b]) = ConnsIn(<< >>) \cup ConnsIn(idle[b])
          /\ ConnsIn(<< >>) \cap ConnsIn(idle[b]) = {}
      BY EmptyList
    <3> QED BY <2>1, <2>2, <2>4, <3>1, DropPlaces
  <2> QED BY <1>4, <2>3, <2>4 DEF Miss
<1>5. ASSUME NEW q \in Queries, Dial(q)
      PROVE  Places'
  <2>1. /\ held[q] = None /\ idle' = idle /\ fresh' = fresh /\ target' = target
        /\ target[q] \in Backends
    BY <1>1, <1>5 DEF Dial, Roles, pool
  <2>2. CASE UNCHANGED <<open, held>>
    BY <1>1, <2>1, <2>2, SamePlaces
  <2>3. ASSUME NEW c \in Conns, open[c] = None, held' = [held EXCEPT ![q] = c],
               open' = [open EXCEPT ![c] = target[q]]
        PROVE  Places'
    <3>1. /\ held'[q] = c /\ \A x \in Queries : x # q => held'[x] = held[x]
          /\ open'[c] = target[q] /\ \A x \in Conns : x # c => open'[x] = open[x]
      BY <2>3 DEF TypeOK
    <3>2. /\ \A b \in Backends : c \notin ConnsIn(idle[b])
          /\ \A x \in Queries : held[x] # c
          /\ \A p \in Procs : fresh[p] # c
      BY <2>3 DEF Places, Owned
    <3>3. Owned'
      <4> SUFFICES ASSUME NEW x \in Conns
                   PROVE  open'[x] # None <=> \/ \E y \in Backends : x \in ConnsIn(idle[y])
                                              \/ \E y \in Queries : held'[y] = x
                                              \/ \E y \in Procs : fresh[y] = x
        BY <2>1 DEF Owned
      <4>1. CASE x = c
        BY <1>1, <2>1, <3>1, <4>1
      <4>2. CASE x # c
        BY <1>1, <2>1, <3>1, <4>2 DEF Places, Owned
      <4> QED BY <4>1, <4>2
    <3>4. Apart'
      BY <1>1, <2>1, <3>1, <3>2 DEF Apart
    <3>5. Right'
      BY <1>1, <2>1, <3>1, <3>2, Lists DEF Places, Right, TypeOK
    <3> QED BY <3>3, <3>4, <3>5 DEF Places
  <2> QED BY <1>5, <2>2, <2>3 DEF Dial, Connect, Free, net
<1>6. ASSUME NEW q \in Queries, Finish(q)
      PROVE  Places'
  <2>1. /\ held[q] \in Conns /\ idle' = idle /\ fresh' = fresh /\ fresh[q] = None
        /\ q \in Procs
    BY <1>1, <1>6 DEF Finish, Roles, TypeOK, pool
  <2>2. /\ held'[q] = None /\ \A x \in Queries : x # q => held'[x] = held[x]
        /\ \A x \in Conns : open'[x] = IF x = held[q] THEN None ELSE open[x]
        /\ \A p \in Procs : p # q => target'[p] = target[p]
    BY <1>6 DEF Finish, Close, TypeOK
  <2>3. /\ \A b \in Backends : held[q] \notin ConnsIn(idle[b])
        /\ \A x \in Queries : x # q => held[x] # held[q]
        /\ \A p \in Procs : fresh[p] # held[q]
    BY <1>1, <2>1 DEF Apart
  <2>4. Owned'
    <3> SUFFICES ASSUME NEW x \in Conns
                 PROVE  open'[x] # None <=> \/ \E y \in Backends : x \in ConnsIn(idle[y])
                                            \/ \E y \in Queries : held'[y] = x
                                            \/ \E y \in Procs : fresh[y] = x
      BY <2>1 DEF Owned
    <3>1. CASE x = held[q]
      BY <1>1, <2>1, <2>2, <2>3, <3>1
    <3>2. CASE x # held[q]
      BY <1>1, <2>1, <2>2, <3>2 DEF Places, Owned
    <3> QED BY <3>1, <3>2
  <2>5. Apart'
    <3>1. \A x, y \in Queries : held'[x] # None /\ held'[x] = held'[y] => x = y
      BY <2>2, <1>1 DEF Apart
    <3>2. \A x \in Queries : \A p \in Procs : held'[x] # None => held'[x] # fresh[p]
      BY <2>2, <1>1 DEF Apart
    <3>3. \A b \in Backends : \A x \in Queries : held'[x] \notin ConnsIn(idle[b])
      BY <2>2, <1>1 DEF Apart
    <3> QED BY <1>1, <2>1, <3>1, <3>2, <3>3 DEF Apart
  <2>6. Right'
    BY <1>1, <2>1, <2>2, <2>3, Lists DEF Places, Right, TypeOK
  <2> QED BY <2>4, <2>5, <2>6 DEF Places
<1>7. ASSUME NEW p \in Procs, Check(p)
      PROVE  Places'
  <2>1. /\ target[p] \in Backends /\ fresh[p] = None /\ UNCHANGED <<held, fresh>>
        /\ Return(p) \/ UNCHANGED target
    BY <1>7 DEF Check, Roles
  <2>2. \A r \in Procs : fresh[r] # None => target'[r] = target[r]
    BY <2>1, ReturnTargets
  <2> DEFINE b == target[p]
  <2>3. CASE UNCHANGED <<idle, net>>
    BY <1>1, <2>1, <2>2, <2>3, SamePlaces DEF net
  <2>4. CASE idle' = [idle EXCEPT ![b] = Kept(b)] /\ Close(ConnsIn(idle[b]) \ ConnsIn(Kept(b)))
    <3>1. Kept(b) \in Seq(Item) /\ Distinct(Kept(b)) /\ ConnsIn(Kept(b)) \subseteq ConnsIn(idle[b])
      BY <1>1, <2>1, KeptList
    <3> DEFINE s == Kept(b)
               D == ConnsIn(idle[b]) \ ConnsIn(s)
    <3>2. ConnsIn(idle[b]) = ConnsIn(s) \cup D /\ ConnsIn(s) \cap D = {}
      BY <3>1
    <3>3. idle' = [idle EXCEPT ![b] = s] /\ Close(D) /\ s \in Seq(Item) /\ Distinct(s)
      BY <2>4, <3>1
    <3> HIDE DEF s, D
    <3> QED BY <2>1, <2>2, <3>2, <3>3, DropPlaces
  <2> QED BY <1>7, <2>3, <2>4 DEF Check
<1>8. ASSUME NEW p \in Procs, Refill(p)
      PROVE  Places'
  <2>1. /\ fresh[p] = None /\ idle' = idle /\ held' = held /\ target[p] \in Backends
        /\ Return(p) \/ UNCHANGED target
    BY <1>8 DEF Refill, Roles, pool
  <2>2. CASE UNCHANGED <<net, fresh>>
    <3>1. \A r \in Procs : fresh[r] # None => target'[r] = target[r]
      BY <2>1, ReturnTargets
    <3> QED BY <1>1, <2>1, <2>2, <3>1, SamePlaces DEF net
  <2>3. ASSUME NEW c \in Conns, open[c] = None, fresh' = [fresh EXCEPT ![p] = c],
               open' = [open EXCEPT ![c] = target[p]], UNCHANGED target
        PROVE  Places'
    <3>1. /\ fresh'[p] = c /\ \A r \in Procs : r # p => fresh'[r] = fresh[r]
          /\ open'[c] = target[p] /\ \A x \in Conns : x # c => open'[x] = open[x]
      BY <2>3 DEF TypeOK
    <3>2. /\ \A b \in Backends : c \notin ConnsIn(idle[b])
          /\ \A x \in Queries : held[x] # c
          /\ \A r \in Procs : fresh[r] # c
      BY <2>3 DEF Places, Owned
    <3>3. Owned'
      <4> SUFFICES ASSUME NEW x \in Conns
                   PROVE  open'[x] # None <=> \/ \E y \in Backends : x \in ConnsIn(idle[y])
                                              \/ \E y \in Queries : held[y] = x
                                              \/ \E y \in Procs : fresh'[y] = x
        BY <2>1 DEF Owned
      <4>1. CASE x = c
        BY <1>1, <2>1, <3>1, <4>1
      <4>2. CASE x # c
        BY <1>1, <2>1, <3>1, <4>2 DEF Places, Owned
      <4> QED BY <4>1, <4>2
    <3>4. Apart'
      BY <1>1, <2>1, <3>1, <3>2 DEF Apart
    <3>5. Right'
      BY <1>1, <2>1, <2>3, <3>1, <3>2 DEF Places, Right, TypeOK
    <3> QED BY <3>3, <3>4, <3>5 DEF Places
  <2> QED BY <1>8, <2>2, <2>3 DEF Refill, Connect, Free
<1>9. ASSUME NEW p \in Procs, Put(p)
      PROVE  Places'
  <2> DEFINE b == target[p]
             c == fresh[p]
  <2>1. /\ c \in Conns /\ b \in Backends /\ held' = held
        /\ Keep(b, c) /\ fresh' = [fresh EXCEPT ![p] = None]
        /\ \A r \in Procs : r # p => target'[r] = target[r]
    BY <1>9, ReturnTargets DEF Put, Roles, TypeOK
  <2>2. /\ \A x \in Backends : c \notin ConnsIn(idle[x])
        /\ \A q \in Queries : held[q] # c
        /\ \A r \in Procs : r # p => fresh[r] # c
        /\ open[c] = b
    BY <1>1, <2>1 DEF Apart, Places, Right
  <2>3. fresh'[p] = None /\ \A r \in Procs : r # p => fresh'[r] = fresh[r]
    BY <2>1 DEF TypeOK
  <2> HIDE DEF b, c
  <2>4. CASE Close({c}) /\ UNCHANGED pool
    <3>1. /\ idle' = idle
          /\ \A x \in Conns : open'[x] = IF x = c THEN None ELSE open[x]
      BY <2>4 DEF Close, pool
    <3>2. Owned'
      <4> SUFFICES ASSUME NEW x \in Conns
                   PROVE  open'[x] # None <=> \/ \E y \in Backends : x \in ConnsIn(idle[y])
                                              \/ \E y \in Queries : held[y] = x
                                              \/ \E y \in Procs : fresh'[y] = x
        BY <2>1, <3>1 DEF Owned
      <4>1. CASE x = c
        BY <1>1, <2>1, <2>2, <2>3, <3>1, <4>1
      <4>2. CASE x # c
        BY <1>1, <2>1, <2>3, <3>1, <4>2 DEF Places, Owned, c
      <4> QED BY <4>1, <4>2
    <3>3. Apart'
      BY <1>1, <2>1, <2>2, <2>3, <3>1 DEF Apart
    <3>4. Right'
      BY <1>1, <2>1, <2>2, <2>3, <3>1 DEF Places, Right, TypeOK
    <3> QED BY <3>2, <3>3, <3>4 DEF Places
  <2>5. CASE /\ idle' = [idle EXCEPT ![b] = Append(@, [conn |-> c, age |-> 0])]
             /\ UNCHANGED <<closed, net>>
    <3> DEFINE s == Append(idle[b], [conn |-> c, age |-> 0])
    <3>1. /\ Distinct(s) /\ ConnsIn(s) = ConnsIn(idle[b]) \cup {c}
          /\ open' = open /\ idle' = [idle EXCEPT ![b] = s]
      BY <1>1, <2>1, <2>2, <2>5, AddedList DEF net
    <3> HIDE DEF s
    <3>5. idle'[b] = s /\ \A x \in Backends : x # b => idle'[x] = idle[x]
      BY <2>1, <3>1 DEF TypeOK
    <3>6. \A x \in Backends : Distinct(idle'[x])
      BY <1>1, <3>1, <3>5
    <3>7. /\ ConnsIn(idle'[b]) = ConnsIn(idle[b]) \cup {c}
          /\ \A x \in Backends : x # b => ConnsIn(idle'[x]) = ConnsIn(idle[x])
      BY <3>1, <3>5
    <3>2. Owned'
      <4> SUFFICES ASSUME NEW x \in Conns
                   PROVE  open[x] # None <=> \/ \E y \in Backends : x \in ConnsIn(idle'[y])
                                             \/ \E y \in Queries : held[y] = x
                                             \/ \E y \in Procs : fresh'[y] = x
        BY <2>1, <3>1 DEF Owned
      <4>1. CASE x = c
        BY <1>1, <2>1, <2>2, <3>7, <4>1
      <4>2. CASE x # c
        BY <1>1, <2>1, <2>3, <3>7, <4>2 DEF Places, Owned, c
      <4> QED BY <4>1, <4>2
    <3>3. Apart'
      BY <1>1, <2>1, <2>2, <2>3, <3>6, <3>7 DEF Apart
    <3>4. Right'
      BY <1>1, <2>1, <2>2, <2>3, <3>1, <3>7 DEF Places, Right, TypeOK
    <3> QED BY <3>2, <3>3, <3>4 DEF Places
  <2> QED BY <2>1, <2>4, <2>5 DEF Keep
<1>10. CASE Tick
  <2>1. \A b \in Backends : idle'[b] = Aged(idle[b])
    BY <1>10 DEF Tick, Aged
  <2>2. UNCHANGED <<open, held, fresh, target>>
    BY <1>10 DEF Tick, net, procs
  <2> QED BY <1>1, <2>1, <2>2, AgedList, SamePlaces
<1>11. CASE ClosePool
  <2> DEFINE D == UNION {ConnsIn(idle[b]) : b \in Backends}
  <2>1. /\ UNCHANGED <<held, fresh, target>>
        /\ \A b \in Backends : ConnsIn(idle'[b]) = {} /\ Distinct(idle'[b])
        /\ \A x \in Conns : open'[x] = IF x \in D THEN None ELSE open[x]
    BY <1>11, EmptyList DEF ClosePool, procs, Close
  <2>2. /\ \A x \in D : \E b \in Backends : x \in ConnsIn(idle[b])
        /\ \A b \in Backends : ConnsIn(idle[b]) \subseteq D
        /\ \A q \in Queries : held[q] \notin D
        /\ \A p \in Procs : fresh[p] \notin D
    BY <1>1 DEF Apart
  <2> HIDE DEF D
  <2>3. Owned'
    <3> SUFFICES ASSUME NEW x \in Conns
                 PROVE  open'[x] # None <=> \/ \E y \in Queries : held[y] = x
                                            \/ \E y \in Procs : fresh[y] = x
      BY <2>1 DEF Owned
    <3>1. CASE x \in D
      BY <2>1, <2>2, <3>1
    <3>2. CASE x \notin D
      <4>1. open'[x] = open[x] /\ \A b \in Backends : x \notin ConnsIn(idle[b])
        BY <2>1, <2>2, <3>2
      <4> QED BY <4>1 DEF Places, Owned
    <3> QED BY <3>1, <3>2
  <2>4. Apart'
    BY <1>1, <2>1 DEF Apart
  <2>5. Right'
    BY <1>1, <2>1, <2>2 DEF Places, Right, TypeOK
  <2> QED BY <2>3, <2>4, <2>5 DEF Places
<1>12. ASSUME NEW b \in Backends, Crash(b)
       PROVE  Places'
  <2>1. UNCHANGED <<idle, open, held, fresh, target>>
    BY <1>12 DEF Crash, pool, procs
  <2> QED BY <1>1, <2>1, SamePlaces
<1> QED
  BY <1>2, <1>3, <1>4, <1>5, <1>6, <1>7, <1>8, <1>9, <1>10, <1>11, <1>12 DEF Next

-----------------------------------------------------------------------------
\* However many refills found room, the limit of a backend's list holds.
LEMMA BoundKept ==
    ASSUME TypeOK, Roles, Places, IdleBounded, Next
    PROVE  IdleBounded'
<1>1. \A b \in Backends : /\ idle[b] \in Seq(Item) /\ Len(idle[b]) \in Nat
                          /\ Distinct(idle[b])
  BY Lists DEF TypeOK, Places, Apart
<1>2. MaxIdle \in Nat \ {0}
  BY PoolAssumption
<1>3. ASSUME UNCHANGED closed, NEW b \in Backends, NEW s \in Seq(Item),
             idle' = [idle EXCEPT ![b] = s],
             Len(s) <= Len(idle[b]) \/ (~closed /\ Len(s) <= MaxIdle)
      PROVE  IdleBounded'
  <2>1. idle'[b] = s /\ \A x \in Backends : x # b => idle'[x] = idle[x]
    BY <1>3 DEF TypeOK
  <2>2. Len(s) \in Nat
    BY Lists
  <2>3. ASSUME NEW x \in Backends
        PROVE  Len(idle'[x]) <= (IF closed' THEN 0 ELSE MaxIdle)
    <3>1. CASE x = b
      BY <1>1, <1>2, <1>3, <2>1, <2>2, <3>1 DEF IdleBounded
    <3>2. CASE x # b
      BY <1>3, <2>1, <3>2 DEF IdleBounded
    <3> QED BY <3>1, <3>2
  <2> QED BY <2>3 DEF IdleBounded
<1>4. ASSUME UNCHANGED <<idle, closed>> PROVE IdleBounded'
  BY <1>4 DEF IdleBounded
<1>5. CASE WarmNext
  BY <1>4, <1>5 DEF WarmNext, pool
<1>6. ASSUME NEW q \in Queries, NEW r \in Refillers, NEW b \in Backends, Hit(q, r, b)
      PROVE  IdleBounded'
  <2>1. PICK i \in DOMAIN idle[b] : idle' = [idle EXCEPT ![b] = SubSeq(idle[b], 1, i - 1)]
    BY <1>6 DEF Hit, Take
  <2>2. /\ SubSeq(idle[b], 1, i - 1) \in Seq(Item)
        /\ Len(SubSeq(idle[b], 1, i - 1)) <= Len(idle[b])
    BY <1>1, CutList, Zenon
  <2>3. UNCHANGED closed
    BY <1>6 DEF Hit
  <2> QED BY <1>3, <2>1, <2>2, <2>3
<1>7. ASSUME NEW q \in Queries, NEW b \in Backends, Miss(q, b)
      PROVE  IdleBounded'
  <2>1. UNCHANGED closed /\ (UNCHANGED idle \/ idle' = [idle EXCEPT ![b] = << >>])
    BY <1>7 DEF Miss
  <2>2. << >> \in Seq(Item) /\ Len(<< >>) <= Len(idle[b])
    BY <1>1, EmptyList
  <2> QED BY <1>3, <1>4, <2>1, <2>2
<1>8. ASSUME NEW p \in Procs, Check(p)
      PROVE  IdleBounded'
  <2>1. target[p] \in Backends /\ UNCHANGED closed
    BY <1>8 DEF Check, Roles
  <2>2. \/ UNCHANGED idle
        \/ idle' = [idle EXCEPT ![target[p]] = Kept(target[p])]
    BY <1>8 DEF Check
  <2>3. Kept(target[p]) \in Seq(Item) /\ Len(Kept(target[p])) <= Len(idle[target[p]])
    BY <1>1, <2>1, KeptList
  <2> QED BY <1>3, <1>4, <2>1, <2>2, <2>3
<1>9. ASSUME NEW p \in Procs, Put(p)
      PROVE  IdleBounded'
  <2> DEFINE b == target[p]
             c == fresh[p]
             s == Append(idle[b], [conn |-> c, age |-> 0])
  <2>1. b \in Backends /\ c \in Conns /\ c \notin ConnsIn(idle[b]) /\ Keep(b, c)
    BY <1>9 DEF Put, Roles, TypeOK, Places, Apart
  <2>2. s \in Seq(Item) /\ Len(s) = Len(idle[b]) + 1
    BY <1>1, <2>1, AddedList
  <2>3. CASE closed \/ Len(idle[b]) >= MaxIdle
    BY <1>4, <2>1, <2>3 DEF Keep, pool
  <2>4. CASE ~(closed \/ Len(idle[b]) >= MaxIdle)
    <3>1. idle' = [idle EXCEPT ![b] = s] /\ UNCHANGED closed
      BY <2>1, <2>4 DEF Keep
    <3>2. Len(s) <= MaxIdle /\ ~closed
      BY <1>1, <1>2, <2>1, <2>2, <2>4
    <3> HIDE DEF s, b
    <3> QED BY <1>3, <2>1, <2>2, <3>1, <3>2
  <2> QED BY <2>3, <2>4
<1>10. CASE Tick
  <2>1. \A b \in Backends : idle'[b] = Aged(idle[b]) /\ Len(Aged(idle[b])) = Len(idle[b])
    BY <1>1, <1>10, AgedList DEF Tick, Aged
  <2>2. closed' = closed
    BY <1>10 DEF Tick
  <2> QED BY <2>1, <2>2 DEF IdleBounded
<1>11. CASE ClosePool
  <2>1. \A b \in Backends : Len(idle'[b]) = 0
    BY <1>11, EmptyList DEF ClosePool
  <2> QED BY <1>2, <2>1 DEF IdleBounded
<1>12. ASSUME NEW q \in Queries, Dial(q) \/ Finish(q)
       PROVE  IdleBounded'
  BY <1>4, <1>12 DEF Dial, Finish, pool
<1>13. ASSUME NEW p \in Procs, Refill(p)
       PROVE  IdleBounded'
  BY <1>4, <1>13 DEF Refill, pool
<1>14. ASSUME NEW b \in Backends, Crash(b)
       PROVE  IdleBounded'
  BY <1>4, <1>14 DEF Crash, pool
<1> QED
  BY <1>5, <1>6, <1>7, <1>8, <1>9, <1>10, <1>11, <1>12, <1>13, <1>14 DEF Next

-----------------------------------------------------------------------------
\* The connections that wait for queries of a backend are those that lead to it
\* and that no query holds.
Lead(b) == {c \in Conns : open[c] = b /\ \A q \in Queries : held[q] # c}
WaitingLeads == \A b \in Backends : Waiting(b) = Lead(b)

\* A waiting connection leads there, and what leads there and is not held waits.
LEMMA WaitingLead ==
    ASSUME TypeOK, Places
    PROVE  WaitingLeads
<1> SUFFICES ASSUME NEW b \in Backends PROVE Waiting(b) = Lead(b)
  BY DEF WaitingLeads
<1>1. None \notin Backends /\ \A x \in Backends : ConnsIn(idle[x]) \subseteq Conns
  BY PoolAssumption, Lists DEF TypeOK
<1>2. Waiting(b) \subseteq Lead(b)
  <2>1. ASSUME NEW c \in ConnsIn(idle[b]) PROVE c \in Lead(b)
    BY <1>1, <2>1 DEF Lead, Places, Right, Apart
  <2>2. ASSUME NEW p \in Procs, target[p] = b, fresh[p] # None PROVE fresh[p] \in Lead(b)
    BY <2>2 DEF Lead, Places, Right, Apart, TypeOK
  <2> QED BY <2>1, <2>2 DEF Waiting
<1>3. Lead(b) \subseteq Waiting(b)
  <2> SUFFICES ASSUME NEW c \in Lead(b) PROVE c \in Waiting(b)
    OBVIOUS
  <2>1. c \in Conns /\ open[c] = b /\ open[c] # None /\ \A q \in Queries : held[q] # c
    BY <1>1 DEF Lead
  <2>2. \/ \E x \in Backends : c \in ConnsIn(idle[x])
        \/ \E p \in Procs : fresh[p] = c
    BY <2>1 DEF Places, Owned
  <2>3. CASE \E x \in Backends : c \in ConnsIn(idle[x])
    BY <2>1, <2>3 DEF Places, Right, Waiting
  <2>4. CASE \E p \in Procs : fresh[p] = c
    BY <2>1, <2>4, PoolAssumption DEF Places, Right, Waiting
  <2> QED BY <2>2, <2>3, <2>4
<1> QED BY <1>2, <1>3

\* A crash lets in what waits, and after it each query that gets a dead
\* connection leaves one less.
LEMMA OwedKept ==
    ASSUME TypeOK, Roles, Places, Owed, Next, TypeOK', WaitingLeads'
    PROVE  Owed'
<1>1. /\ \A b \in Backends : Dead(b) = Lead(b) \ alive
      /\ \A b \in Backends : Dead(b)' = Lead(b)' \ alive'
      /\ None \notin Backends /\ None \notin Conns
  BY WaitingLead, PoolAssumption DEF Dead, WaitingLeads
<1>2. \A b \in Backends : IsFiniteSet(Dead(b)) /\ Cardinality(Dead(b)) \in Nat
  BY WaitingCounts
<1>3. ASSUME NEW b \in Backends, Dead(b)' \subseteq Dead(b), spare'[b] = spare[b]
      PROVE  Cardinality(Dead(b)') <= spare'[b]
  <2>1. Cardinality(Dead(b)') <= Cardinality(Dead(b)) /\ Cardinality(Dead(b)') \in Nat
    BY <1>2, <1>3, FS_Subset, FS_CardinalityType
  <2> QED BY <1>2, <1>3, <2>1 DEF Owed, TypeOK
<1>4. ASSUME UNCHANGED spare, \A b \in Backends : Dead(b)' \subseteq Dead(b) PROVE Owed'
  BY <1>3, <1>4 DEF Owed
<1>5. ASSUME NEW cs, Close(cs), NEW b \in Backends,
             \A q \in Queries : held'[q] # held[q] => held[q] \in cs \cup {None}
      PROVE  Dead(b)' \subseteq Dead(b)
  <2>1. /\ \A c \in Conns : open'[c] = IF c \in cs THEN None ELSE open[c]
        /\ alive' = alive \ cs
    BY <1>5 DEF Close
  <2>2. ASSUME NEW c \in Lead(b)' PROVE c \in Lead(b) /\ c \notin cs
    <3>1. c \in Conns /\ open'[c] = b /\ \A q \in Queries : held'[q] # c
      BY <2>2 DEF Lead
    <3>2. c \notin cs /\ open[c] = b
      BY <1>1, <2>1, <3>1
    <3>3. \A q \in Queries : held[q] # c
      BY <1>1, <1>5, <3>1, <3>2
    <3> QED BY <3>1, <3>2, <3>3 DEF Lead
  <2> QED BY <1>1, <2>1, <2>2
<1>6. ASSUME UNCHANGED <<open, alive, held, spare>> PROVE Owed'
  <2>1. \A b \in Backends : Lead(b)' = Lead(b)
    BY <1>6 DEF Lead
  <2> QED BY <1>1, <1>4, <1>6, <2>1
<1>7. ASSUME NEW c \in Conns, NEW x \in Backends, UNCHANGED spare,
             open' = [open EXCEPT ![c] = x], alive' = alive \cup {c},
             \A q \in Queries : held'[q] # held[q] => held[q] = None
      PROVE  Owed'
  <2>1. ASSUME NEW b \in Backends, NEW y \in Dead(b)' PROVE y \in Dead(b)
    <3>1. y # c /\ y \in Conns /\ open'[y] = b /\ y \notin alive
          /\ \A q \in Queries : held'[q] # y
      BY <1>1, <1>7, <2>1 DEF Lead
    <3>2. open[y] = b
      BY <1>7, <3>1 DEF TypeOK
    <3>3. \A q \in Queries : held[q] # y
      BY <1>1, <1>7, <3>1
    <3> QED BY <1>1, <3>1, <3>2, <3>3 DEF Lead
  <2> QED BY <1>4, <1>7, <2>1
<1>8. CASE WarmNext
  BY <1>6, <1>8 DEF WarmNext, net
<1>9. ASSUME NEW q \in Queries, NEW r \in Refillers, NEW b \in Backends, Hit(q, r, b)
      PROVE  Owed'
  <2>1. PICK i \in DOMAIN idle[b] :
           /\ Close({idle[b][j].conn : j \in (i + 1)..Len(idle[b])})
           /\ held' = [held EXCEPT ![q] = idle[b][i].conn]
           /\ spare' = IF idle[b][i].conn \in alive THEN spare
                       ELSE [spare EXCEPT ![b] = @ - 1]
    BY <1>9 DEF Hit
  <2> DEFINE c == idle[b][i].conn
             cs == {idle[b][j].conn : j \in (i + 1)..Len(idle[b])}
  <2>2. /\ c \in ConnsIn(idle[b]) /\ held[q] = None
        /\ \A x \in Queries : x # q => held'[x] = held[x]
        /\ held'[q] = c
    BY <1>9, <2>1, Lists DEF Hit, Roles, TypeOK
  <2>3. \A x \in Backends : Dead(x)' \subseteq Dead(x)
    BY <1>5, <2>1, <2>2
  <2> HIDE DEF c, cs
  <2>4. c \in alive => Owed'
    BY <1>4, <2>1, <2>3 DEF c
  <2>5. ASSUME c \notin alive PROVE Owed'
    <3>1. spare'[b] = spare[b] - 1 /\ \A x \in Backends : x # b => spare'[x] = spare[x]
      BY <2>1, <2>5 DEF c, TypeOK
    <3>2. c \in Dead(b)
      BY <2>2, <2>5 DEF Dead, Waiting
    <3>3. c \notin Dead(b)'
      BY <1>1, <2>2 DEF Lead
    <3>4. Dead(b)' \subseteq Dead(b) \ {c}
      BY <2>3, <3>3
    <3>5. /\ IsFiniteSet(Dead(b) \ {c})
          /\ Cardinality(Dead(b) \ {c}) = Cardinality(Dead(b)) - 1
      BY <1>2, <3>2, FS_RemoveElement
    <3>6. /\ Cardinality(Dead(b)') <= Cardinality(Dead(b) \ {c})
          /\ Cardinality(Dead(b)') \in Nat
      BY <3>4, <3>5, FS_Subset, FS_CardinalityType
    <3>7. Cardinality(Dead(b)') <= spare'[b]
      BY <1>2, <3>1, <3>5, <3>6 DEF Owed, TypeOK
    <3>8. \A x \in Backends : x # b => Cardinality(Dead(x)') <= spare'[x]
      BY <1>3, <2>3, <3>1
    <3> QED BY <3>7, <3>8 DEF Owed
  <2> QED BY <2>4, <2>5
<1>10. ASSUME NEW q \in Queries, NEW b \in Backends, Miss(q, b)
       PROVE  Owed'
  <2>1. UNCHANGED <<held, spare>>
    BY <1>10 DEF Miss
  <2>2. CASE UNCHANGED net
    BY <1>6, <2>1, <2>2 DEF net
  <2>3. CASE Close(ConnsIn(idle[b]))
    BY <1>4, <1>5, <2>1, <2>3
  <2> QED BY <1>10, <2>2, <2>3 DEF Miss
<1>11. ASSUME NEW q \in Queries, Dial(q)
       PROVE  Owed'
  <2>1. held[q] = None /\ target[q] \in Backends /\ UNCHANGED spare
    BY <1>11, PoolAssumption DEF Dial, Roles, Procs
  <2>2. CASE UNCHANGED <<net, held>>
    BY <1>6, <2>1, <2>2 DEF net
  <2>3. ASSUME NEW c \in Conns, open' = [open EXCEPT ![c] = target[q]],
               alive' = alive \cup {c}, held' = [held EXCEPT ![q] = c]
        PROVE  Owed'
    <3>1. \A x \in Queries : held'[x] # held[x] => held[x] = None
      BY <2>1, <2>3 DEF TypeOK
    <3> QED BY <1>7, <2>1, <2>3, <3>1
  <2> QED BY <1>11, <2>2, <2>3 DEF Dial, Connect, Free
<1>12. ASSUME NEW q \in Queries, Finish(q)
       PROVE  Owed'
  <2>1. /\ Close({held[q]}) /\ UNCHANGED spare
        /\ \A x \in Queries : held'[x] # held[x] => held[x] \in {held[q]} \cup {None}
    BY <1>12 DEF Finish, TypeOK
  <2> QED BY <1>4, <1>5, <2>1
<1>13. ASSUME NEW p \in Procs, Check(p)
       PROVE  Owed'
  <2> DEFINE cs == ConnsIn(idle[target[p]]) \ ConnsIn(Kept(target[p]))
  <2>1. UNCHANGED <<held, spare>> /\ (UNCHANGED net \/ Close(cs))
    BY <1>13 DEF Check
  <2> HIDE DEF cs
  <2>2. CASE UNCHANGED net
    BY <1>6, <2>1, <2>2 DEF net
  <2>3. CASE Close(cs)
    BY <1>4, <1>5, <2>1, <2>3
  <2> QED BY <2>1, <2>2, <2>3
<1>14. ASSUME NEW p \in Procs, Refill(p)
       PROVE  Owed'
  <2>1. target[p] \in Backends /\ UNCHANGED <<held, spare>>
    BY <1>14 DEF Refill, Roles
  <2>2. CASE UNCHANGED net
    BY <1>6, <2>1, <2>2 DEF net
  <2>3. ASSUME NEW c \in Conns, open' = [open EXCEPT ![c] = target[p]],
               alive' = alive \cup {c}
        PROVE  Owed'
    BY <1>7, <2>1, <2>3
  <2> QED BY <1>14, <2>2, <2>3 DEF Refill, Connect, Free
<1>15. ASSUME NEW p \in Procs, Put(p)
       PROVE  Owed'
  <2>1. UNCHANGED <<held, spare>>
    BY <1>15 DEF Put
  <2>2. CASE UNCHANGED net
    BY <1>6, <2>1, <2>2 DEF net
  <2>3. CASE Close({fresh[p]})
    BY <1>4, <1>5, <2>1, <2>3
  <2> QED BY <1>15, <2>2, <2>3 DEF Put, Keep
<1>16. CASE Tick
  BY <1>6, <1>16 DEF Tick, net, procs
<1>17. CASE ClosePool
  <2>1. UNCHANGED <<held, spare>> /\ Close(UNION {ConnsIn(idle[b]) : b \in Backends})
    BY <1>17 DEF ClosePool, procs
  <2> QED BY <1>4, <1>5, <2>1
<1>18. ASSUME NEW b \in Backends, Crash(b)
       PROVE  Owed'
  <2>1. /\ alive' = {c \in alive : open[c] # b} /\ UNCHANGED <<open, held>>
        /\ spare'[b] = Cardinality(Waiting(b))
        /\ \A x \in Backends : x # b => spare'[x] = spare[x]
    BY <1>18 DEF Crash, procs, TypeOK
  <2>2. \A x \in Backends : Lead(x)' = Lead(x)
    BY <2>1 DEF Lead
  <2>3. Cardinality(Dead(b)') <= spare'[b]
    <3>1. Dead(b)' \subseteq Waiting(b)
      BY <1>1, <2>2, WaitingLead DEF WaitingLeads
    <3> QED BY <2>1, <3>1, WaitingCounts, FS_Subset
  <2>4. ASSUME NEW x \in Backends, x # b PROVE Cardinality(Dead(x)') <= spare'[x]
    <3>1. Dead(x)' \subseteq Dead(x)
      BY <1>1, <2>1, <2>2, <2>4 DEF Lead
    <3> QED BY <1>3, <2>1, <2>4, <3>1
  <2> QED BY <2>3, <2>4 DEF Owed
<1> QED
  BY <1>8, <1>9, <1>10, <1>11, <1>12, <1>13, <1>14, <1>15, <1>16, <1>17, <1>18 DEF Next

-----------------------------------------------------------------------------
\* A stutter keeps the invariant.
LEMMA StillPool ==
    ASSUME Inv, UNCHANGED vars
    PROVE  Inv'
<1> USE DEF vars
<1>1. TypeOK'
  BY DEF Inv, TypeOK
<1>2. Roles'
  BY DEF Inv, Roles
<1>3. Places'
  <2>1. Owned'
    BY DEF Inv, Places, Owned
  <2>2. Apart'
    BY DEF Inv, Places, Apart
  <2>3. Right'
    BY DEF Inv, Places, Right
  <2> QED BY <2>1, <2>2, <2>3 DEF Places
<1>4. IdleBounded'
  BY DEF Inv, IdleBounded
<1>5. Owed'
  BY DEF Inv, Owed, Dead, Waiting
<1> QED BY <1>1, <1>2, <1>3, <1>4, <1>5 DEF Inv

\* The pool starts empty.
LEMMA InitInv ==
    ASSUME Init
    PROVE  Inv
<1>1. /\ \A b \in Backends : idle[b] = << >> /\ spare[b] = 0
      /\ \A c \in Conns : open[c] = None
      /\ \A p \in Procs : fresh[p] = None /\ pc[p] = "away"
      /\ \A q \in Queries : held[q] = None
      /\ None \notin Conns /\ closed = FALSE
      /\ Queries \subseteq Procs
  BY PoolAssumption DEF Init, Procs
<1>2. TypeOK
  <2>1. Cardinality(Backends) \in Nat
    BY PoolAssumption, FS_CardinalityType
  <2>2. unwarmed \in Seq(Backends)
    BY <2>1 DEF Init, Orders
  <2>3. idle \in [Backends -> Seq(Item)]
    BY EmptyList DEF Init
  <2>4. /\ closed \in BOOLEAN
        /\ open \in [Conns -> Backends \cup {None}]
        /\ alive \subseteq Conns
        /\ target \in [Procs -> Backends \cup {None}]
        /\ held \in [Queries -> Conns \cup {None}]
        /\ fresh \in [Procs -> Conns \cup {None}]
    BY DEF Init
  <2>5. /\ pc \in [Procs -> {"away", "dial", "check", "refill", "put", "use"}]
        /\ spare \in [Backends -> Int]
    BY DEF Init
  <2> QED BY <2>2, <2>3, <2>4, <2>5 DEF TypeOK
<1>3. Roles
  BY <1>1 DEF Roles
<1>4. Places
  BY <1>1, EmptyList DEF Places, Owned, Apart, Right
<1>5. IdleBounded
  BY <1>1, EmptyList, PoolAssumption DEF IdleBounded
<1>6. Owed
  <2>1. \A b \in Backends : Dead(b) = {}
    BY <1>1, EmptyList DEF Dead, Waiting
  <2>2. Cardinality({}) = 0
    BY FS_EmptySet
  <2>3. \A b \in Backends : Cardinality(Dead(b)) = 0
    BY <2>1, <2>2, Zenon
  <2> QED BY <1>1, <2>3 DEF Owed
<1> QED BY <1>2, <1>3, <1>4, <1>5, <1>6 DEF Inv

\* Every reachable state of the pool and the dialer satisfies the invariant.
LEMMA PoolInvariant == Spec => []Inv
<1>1. Inv /\ Next => TypeOK' /\ Roles' /\ Places' /\ IdleBounded'
  BY TypesKept, PlacesKept, BoundKept DEF Inv, Places
<1>2. TypeOK' /\ Places' => WaitingLeads'
  <2>1. TypeOK /\ Places => WaitingLeads
    BY WaitingLead
  <2> QED BY <2>1, PTL
<1>3. Inv /\ Next => Inv'
  BY <1>1, <1>2, OwedKept DEF Inv
<1>4. Inv /\ [Next]_vars => Inv'
  BY <1>3, StillPool
<1>5. Init => Inv
  BY InitInv
<1> QED BY <1>4, <1>5, PTL DEF Spec

\* Idle lists hold connections, the open flag a truth value, and so on.
THEOREM PoolTypes == Spec => []TypeOK
<1>1. Inv => TypeOK
  BY DEF Inv
<1> QED BY <1>1, PoolInvariant, PTL

\* Get, NeedsConn, Put and Close, the dialer and handleStatus close what they
\* open, and no two of them have the same connection.
THEOREM EveryConnectionOwned == Spec => []OneOwner
<1>1. ASSUME TypeOK, Places, NEW c \in Conns
      PROVE  Cardinality(Owners(c)) = IF open[c] = None THEN 0 ELSE 1
  <2>1. /\ None \notin Conns /\ None \notin Backends
    BY PoolAssumption
  <2>2. CASE open[c] = None
    <3>1. Owners(c) = {}
      BY <1>1, <2>2 DEF Owners, Places, Owned
    <3> QED BY <2>2, <3>1, FS_EmptySet
  <2>3. CASE open[c] # None
    <3>1. ASSUME NEW b \in Backends, c \in ConnsIn(idle[b])
          PROVE  Owners(c) = {<<"idle", b>>}
      BY <1>1, <3>1 DEF Owners, Places, Apart, Right
    <3>2. ASSUME NEW q \in Queries, held[q] = c
          PROVE  Owners(c) = {<<"held", q>>}
      BY <1>1, <2>1, <3>2 DEF Owners, Places, Apart
    <3>3. ASSUME NEW p \in Procs, fresh[p] = c
          PROVE  Owners(c) = {<<"fresh", p>>}
      BY <1>1, <2>1, <3>3 DEF Owners, Places, Apart
    <3>4. \E o : Owners(c) = {o}
      BY <1>1, <2>3, <3>1, <3>2, <3>3 DEF Places, Owned
    <3> QED BY <2>3, <3>4, FS_Singleton
  <2> QED BY <2>2, <2>3
<1>2. ASSUME TypeOK, Places, NEW b \in Backends
      PROVE  Cardinality(ConnsIn(idle[b])) = Len(idle[b])
  <2> DEFINE s == idle[b]
             f == [i \in 1..Len(s) |-> s[i].conn]
  <2>1. DOMAIN s = 1..Len(s) /\ Len(s) \in Nat /\ Distinct(s)
    BY <1>2, Lists DEF TypeOK, Places, Apart
  <2> HIDE DEF s
  <2>2. f \in Bijection(1..Len(s), ConnsIn(s))
    BY <2>1 DEF Distinct, ConnsIn, Bijection, Injection, Surjection, IsInjective
  <2>3. IsFiniteSet(1..Len(s)) /\ Cardinality(1..Len(s)) = Len(s)
    <3> DEFINE n == Len(s)
    <3>1. 1 \in Int /\ n \in Int
      BY <2>1
    <3> HIDE DEF n
    <3>2. IsFiniteSet(1..n) /\ Cardinality(1..n) = IF 1 > n THEN 0 ELSE n - 1 + 1
      BY <3>1, FS_Interval, Zenon
    <3>3. n \in Nat => (IF 1 > n THEN 0 ELSE n - 1 + 1) = n
      OBVIOUS
    <3>4. n \in Nat
      BY <2>1 DEF n
    <3>5. IsFiniteSet(1..n) /\ Cardinality(1..n) = n
      BY <3>2, <3>3, <3>4
    <3> QED BY <3>5 DEF n
  <2> HIDE DEF f
  <2>4. Cardinality(ConnsIn(s)) = Len(s)
    BY <2>2, <2>3, FS_Bijection DEF ExistsBijection
  <2> QED BY <2>4 DEF s
<1>3. Inv => OneOwner
  BY <1>1, <1>2 DEF Inv, OneOwner
<1> QED BY <1>3, PoolInvariant, PTL

\* Put checks again what NeedsConn checked before the dial.
THEOREM PoolBounded == Spec => []IdleBounded
<1>1. Inv => IdleBounded
  BY DEF Inv
<1> QED BY <1>1, PoolInvariant, PTL

\* A crash misleads no more queries than connections waited for one.
THEOREM CrashMisleadsFew == Spec => []MisledBounded
<1>1. ASSUME TypeOK, Owed, NEW b \in Backends PROVE spare[b] >= 0
  BY <1>1, WaitingCounts DEF Owed, TypeOK
<1>2. Inv => MisledBounded
  BY <1>1 DEF Inv, MisledBounded
<1> QED BY <1>2, PoolInvariant, PTL

\* Get and NeedsConn drop no connection a query could still use.
THEOREM UsableStay == Spec => DropsOnlyOld
<1> DEFINE Stays(b, i) == \/ idle[b][i].conn \in ConnsIn(idle'[b])
                          \/ \E q \in Queries : held'[q] = idle[b][i].conn
                          \/ ~Usable(idle[b][i])
                          \/ closed'
<1>1. ASSUME TypeOK, Roles, Places, Next, NEW b \in Backends, NEW i \in DOMAIN idle[b]
      PROVE  Stays(b, i)
  <2>1. /\ \A x \in Backends : idle[x] \in Seq(Item) /\ Distinct(idle[x])
        /\ idle[b][i].conn \in ConnsIn(idle[b]) /\ idle[b][i].conn \in Conns
        /\ DOMAIN idle[b] = 1..Len(idle[b]) /\ Len(idle[b]) \in Nat
    BY <1>1, Lists DEF TypeOK, Places, Apart
  <2>2. ASSUME NEW x \in Backends, x # b, NEW s, idle' = [idle EXCEPT ![x] = s]
        PROVE  Stays(b, i)
    <3>1. idle'[b] = idle[b]
      BY <1>1, <2>2 DEF TypeOK
    <3> QED BY <2>1, <3>1
  <2>3. ASSUME UNCHANGED idle PROVE Stays(b, i)
    BY <2>1, <2>3
  <2>4. CASE WarmNext
    BY <2>3, <2>4 DEF WarmNext, pool
  <2>5. ASSUME NEW q \in Queries, NEW r \in Refillers, NEW x \in Backends, Hit(q, r, x)
        PROVE  Stays(b, i)
    <3>1. CASE x # b
      BY <2>2, <2>5, <3>1 DEF Hit, Take
    <3>2. CASE x = b
      <4>1. PICK j \in DOMAIN idle[b] :
               /\ idle' = [idle EXCEPT ![b] = SubSeq(idle[b], 1, j - 1)]
               /\ \A l \in (j + 1)..Len(idle[b]) : ~Usable(idle[b][l])
               /\ held' = [held EXCEPT ![q] = idle[b][j].conn]
        BY <2>5, <3>2 DEF Hit, Take, Youngest
      <4>2. j \in Int /\ i \in Int /\ (i < j \/ i = j \/ i \in (j + 1)..Len(idle[b]))
        BY <1>1, <2>1, <4>1
      <4>3. CASE i = j
        BY <1>1, <4>1, <4>3 DEF TypeOK
      <4>4. CASE i \in (j + 1)..Len(idle[b])
        BY <4>1, <4>4
      <4>5. CASE i < j
        <5> DEFINE t == SubSeq(idle[b], 1, j - 1)
        <5>1. t \in Seq(Item) /\ Len(t) = j - 1 /\ \A l \in 1..(j - 1) : t[l] = idle[b][l]
          BY <2>1, <4>1, CutList, Zenon
        <5>2. idle'[b] = t
          BY <1>1, <4>1 DEF TypeOK
        <5> HIDE DEF t
        <5>3. i \in DOMAIN t /\ t[i] = idle[b][i]
          BY <1>1, <2>1, <4>2, <4>5, <5>1, Lists
        <5>4. t[i].conn \in ConnsIn(t)
          BY <5>1, <5>3, Lists
        <5> QED BY <5>2, <5>3, <5>4
      <4> QED BY <4>2, <4>3, <4>4, <4>5
    <3> QED BY <3>1, <3>2
  <2>6. ASSUME NEW q \in Queries, NEW x \in Backends, Miss(q, x)
        PROVE  Stays(b, i)
    <3>1. CASE x # b
      BY <2>2, <2>3, <2>6, <3>1 DEF Miss
    <3>2. CASE x = b
      BY <1>1, <2>3, <2>6, <3>2 DEF Miss
    <3> QED BY <3>1, <3>2
  <2>7. ASSUME NEW p \in Procs, Check(p)
        PROVE  Stays(b, i)
    <3>1. \/ UNCHANGED idle
          \/ idle' = [idle EXCEPT ![target[p]] = Kept(target[p])]
      BY <2>7 DEF Check
    <3>2. target[p] \in Backends
      BY <1>1, <2>7 DEF Check, Roles
    <3>3. CASE target[p] = b /\ idle' = [idle EXCEPT ![b] = Kept(b)]
      <4>1. Usable(idle[b][i]) => idle[b][i].conn \in ConnsIn(Kept(b))
        BY <1>1, <2>1, KeptList
      <4>2. idle'[b] = Kept(b)
        BY <1>1, <3>3 DEF TypeOK
      <4> QED BY <4>1, <4>2
    <3> QED BY <2>2, <2>3, <3>1, <3>2, <3>3
  <2>8. ASSUME NEW p \in Procs, Put(p)
        PROVE  Stays(b, i)
    <3> DEFINE x == target[p]
               c == fresh[p]
               s == Append(idle[x], [conn |-> c, age |-> 0])
    <3>1. x \in Backends /\ c \in Conns /\ c \notin ConnsIn(idle[x]) /\ Keep(x, c)
      BY <1>1, <2>8 DEF Put, Roles, TypeOK, Places, Apart
    <3>2. UNCHANGED idle \/ idle' = [idle EXCEPT ![x] = s]
      BY <3>1 DEF Keep, pool
    <3>3. ConnsIn(s) = ConnsIn(idle[x]) \cup {c}
      BY <2>1, <3>1, AddedList
    <3> HIDE DEF s, x, c
    <3>4. CASE x = b /\ idle' = [idle EXCEPT ![b] = s]
      <4>1. idle'[b] = s
        BY <1>1, <3>4 DEF TypeOK
      <4> QED BY <2>1, <3>3, <3>4, <4>1
    <3> QED BY <2>2, <2>3, <3>1, <3>2, <3>4
  <2>9. CASE Tick
    <3>1. idle'[b] = Aged(idle[b]) /\ ConnsIn(Aged(idle[b])) = ConnsIn(idle[b])
      BY <2>1, <2>9, AgedList DEF Tick, Aged
    <3> QED BY <2>1, <3>1
  <2>10. CASE ClosePool
    BY <2>10 DEF ClosePool
  <2>11. ASSUME NEW q \in Queries, Dial(q) \/ Finish(q)
         PROVE  Stays(b, i)
    BY <2>3, <2>11 DEF Dial, Finish, pool
  <2>12. ASSUME NEW p \in Procs, Refill(p)
         PROVE  Stays(b, i)
    BY <2>3, <2>12 DEF Refill, pool
  <2>13. ASSUME NEW x \in Backends, Crash(x)
         PROVE  Stays(b, i)
    BY <2>3, <2>13 DEF Crash, pool
  <2> QED
    BY <1>1, <2>4, <2>5, <2>6, <2>7, <2>8, <2>9, <2>10, <2>11, <2>12, <2>13 DEF Next
<1>2. Inv /\ [Next]_vars => [\A b \in Backends : \A i \in DOMAIN idle[b] : Stays(b, i)]_vars
  BY <1>1 DEF Inv
<1> QED BY <1>2, PoolInvariant, PTL DEF Spec, DropsOnlyOld

=============================================================================
