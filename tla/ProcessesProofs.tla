-------------------------- MODULE ProcessesProofs --------------------------
(***************************************************************************)
(* Whose events are counted for a pid, for any number of pids, addresses,     *)
(* connections and lives.                                                   *)
(*                                                                         *)
(* The argument: while a pid has had one life only and no connection was      *)
(* given to it by mistake, every network event that is counted, on the bus or *)
(* still to come is of a connection of its own that no other event is of, and  *)
(* of the process itself there is one event, its start.                       *)
(***************************************************************************)
EXTENDS Processes, Collections, TLAPS

---------------------------------------------------------------------------
(* The invariant                                                           *)

SystemTyped ==
  /\ life \in [Pids -> 0..MaxLives] /\ lives \in 0..MaxLives /\ used \subseteq Pids
  /\ \A p \in Pids : life[p] <= lives /\ (life[p] # 0 => p \in used)
  /\ conn \in [Remotes -> Connection \cup {None}]
  /\ \A r \in Remotes : conn[r] # None => conn[r].remote = r /\ conn[r].pid \in used
  /\ deeds \in [1..MaxLives -> 0..MaxConnects]
MonitorTyped ==
  /\ knownPids \subseteq Pids
  /\ nmon \in {"read", "resolve"}
  /\ todo \in Seq(Connection)
  /\ found \in Seq(Event)
  /\ \A i \in DOMAIN found : found[i].kind = "network" /\ found[i].remote \in Remotes
  /\ knownKeys \subseteq Remotes
  /\ DOMAIN inodes \subseteq Inodes /\ \A i \in DOMAIN inodes : inodes[i] \in used
BusTyped ==
  /\ bus \in Seq(Event) /\ Len(bus) <= BusCap
  /\ \A i \in DOMAIN bus : bus[i].kind = "process" => bus[i].pid # 0
EngineTyped ==
  /\ task.pc \in {"idle", "kill", "block"}
  /\ task.pc = "kill" => task.pid \in Pids /\ Score(record[task.pid].all) >= KillAt
  /\ task.pc = "block" => task.remote \in Shady
  /\ record \in [Pids \cup {0} -> [all : Nat, net : Nat]]
  /\ \A p \in Pids \cup {0} : record[p].net <= record[p].all
  /\ blocked \subseteq Shady
Typed == SystemTyped /\ MonitorTyped /\ BusTyped /\ EngineTyped

\* The rows and events in the monitor's hands are of different addresses.
RemotesOf(s) == {s[i].remote : i \in DOMAIN s}
OneEach ==
  /\ nmon = "read" => todo = <<>> /\ found = <<>>
  /\ \A i, j \in DOMAIN todo : todo[i].remote = todo[j].remote => i = j
  /\ \A i, j \in DOMAIN found : found[i].remote = found[j].remote => i = j
  /\ RemotesOf(todo) \cap RemotesOf(found) = {}

Matching(kind, p, s) == {i \in DOMAIN s : s[i].kind = kind /\ s[i].pid = p}
Count(kind, p, s) == Cardinality(Matching(kind, p, s))

\* What the next reading of the table takes for known; connections of p that are
\* still to be read, and those that were read and are to be announced.
WillKnow == IF nmon = "read" THEN knownKeys ELSE RemotesOf(todo) \cup RemotesOf(found)
Coming(p) == {r \in Remotes : conn[r] # None /\ conn[r].pid = p /\ r \notin WillKnow}
RemotesFor(p, s) == {s[i].remote : i \in {i \in DOMAIN s : s[i].pid = p}}
InHand(p) == (RemotesFor(p, todo) \cup RemotesFor(p, found)) \ knownKeys

\* Everything of p is of life l, and is one of its deeds.
OfLife(p, l) ==
  /\ life[p] \in {0, l}
  /\ \A r \in Remotes : (conn[r] # None /\ conn[r].pid = p) => conn[r].life = l
  /\ \A i \in DOMAIN todo : todo[i].pid = p => todo[i].life = l
  /\ \A i \in DOMAIN found : found[i].pid = p => found[i].life = l
  /\ \A i \in DOMAIN bus : (bus[i].kind = "network" /\ bus[i].pid = p) => bus[i].life = l
Counts(p, l) ==
  record[p].net + Count("network", p, bus) + Cardinality(Coming(p)) + Cardinality(InHand(p)) <= deeds[l]
Attributed == \A p \in used \ mixed : \E l \in 1..lives : OfLife(p, l) /\ Counts(p, l)

\* Nobody knows of a pid that was never given.
Unused ==
  \A p \in Pids \ used :
    /\ p \notin knownPids /\ record[p].all = 0
    /\ \A i \in DOMAIN todo : todo[i].pid # p
    /\ \A i \in DOMAIN found : found[i].pid # p
    /\ \A i \in DOMAIN bus : bus[i].pid # p

StartedOnce ==
  \A p \in Alive \ mixed :
    record[p].all - record[p].net + Count("process", p, bus) + (IF p \in knownPids THEN 0 ELSE 1) <= 1

Convicted ==
  \A k \in killed :
    /\ k[2] \in Pids
    /\ k[2] \in mixed \/ (k[1] \in 1..MaxLives /\ Score(1 + deeds[k[1]]) >= KillAt)
Excused ==
  \A m \in masked : m[2] \in mixed \cup {0} \/ (m[1] \in 1..MaxLives /\ deeds[m[1]] > BusyOver)

Own == Typed /\ OneEach /\ Attributed /\ Unused /\ StartedOnce /\ Convicted /\ Excused

---------------------------------------------------------------------------
(* Events of a pid in a sequence                                           *)

LEMMA CountNat ==
  ASSUME NEW S, NEW s \in Seq(S), NEW kind, NEW p
  PROVE  IsFiniteSet(Matching(kind, p, s)) /\ Count(kind, p, s) \in Nat
<1>1. DOMAIN s = 1..Len(s) /\ Len(s) \in Nat
  OBVIOUS
<1>2. IsFiniteSet(DOMAIN s)
  BY <1>1, CountFinite
<1>3. Matching(kind, p, s) \in SUBSET DOMAIN s
  BY DEF Matching
<1>4. IsFiniteSet(Matching(kind, p, s))
  BY <1>2, <1>3, FS_Subset
<1> QED BY <1>4, FS_CardinalityType DEF Count

LEMMA CountConcat ==
  ASSUME NEW S, NEW s \in Seq(S), NEW t \in Seq(S), NEW kind, NEW p
  PROVE  Count(kind, p, s \o t) <= Count(kind, p, s) + Count(kind, p, t)
<1> DEFINE A == Matching(kind, p, s)
           C == Matching(kind, p, t)
           f == [i \in C |-> i + Len(s)]
           B == {f[i] : i \in C}
           M == Matching(kind, p, s \o t)
<1>1. /\ s \o t \in Seq(S) /\ Len(s \o t) = Len(s) + Len(t)
      /\ \A i \in 1..(Len(s) + Len(t)) :
           (s \o t)[i] = IF i <= Len(s) THEN s[i] ELSE t[i - Len(s)]
  BY ConcatProperties
<1>2. /\ Len(s) \in Nat /\ Len(t) \in Nat /\ DOMAIN s = 1..Len(s) /\ DOMAIN t = 1..Len(t)
      /\ DOMAIN (s \o t) = 1..(Len(s) + Len(t))
  BY <1>1
<1>3. IsFiniteSet(A) /\ IsFiniteSet(C)
  BY CountNat
<1>4. IsFiniteSet(B) /\ Cardinality(B) <= Cardinality(C)
  <2>1. DOMAIN f = C /\ \A y \in B : \E x \in C : y = f[x]
    OBVIOUS
  <2> HIDE DEF f, B, C
  <2> QED BY <1>3, <2>1, FiniteImage
<1>5. M \subseteq A \cup B
  <2>1. SUFFICES ASSUME NEW i \in M, i \notin A PROVE i \in B
    OBVIOUS
  <2>2. i \in 1..(Len(s) + Len(t)) /\ (s \o t)[i].kind = kind /\ (s \o t)[i].pid = p
    BY <1>2, <2>1 DEF Matching
  <2>3. ~(i <= Len(s))
    BY <1>1, <1>2, <2>1, <2>2 DEF Matching
  <2>4. i - Len(s) \in DOMAIN t /\ (s \o t)[i] = t[i - Len(s)]
    BY <1>1, <1>2, <2>2, <2>3
  <2>5. i - Len(s) \in C
    BY <2>2, <2>4 DEF Matching
  <2>6. f[i - Len(s)] = i
    BY <1>2, <2>2, <2>5
  <2> QED BY <2>5, <2>6
<1> HIDE DEF A, B, C, M
<1>6. IsFiniteSet(M) /\ Cardinality(M) <= Cardinality(A) + Cardinality(B)
  BY <1>3, <1>4, <1>5, CountOfUnion
<1>7. Cardinality(A) \in Nat /\ Cardinality(B) \in Nat /\ Cardinality(C) \in Nat /\ Cardinality(M) \in Nat
  BY <1>3, <1>4, <1>6, FS_CardinalityType
<1> QED BY <1>4, <1>6, <1>7 DEF Count, A, C, M

LEMMA CountSuffix ==
  ASSUME NEW S, NEW s \in Seq(S), NEW m \in 0..Len(s), NEW kind, NEW p
  PROVE  Count(kind, p, SubSeq(s, 1 + m, Len(s))) <= Count(kind, p, s)
<1> DEFINE t == SubSeq(s, 1 + m, Len(s))
           X == Matching(kind, p, s)
           Y == Matching(kind, p, t)
           f == [i \in X |-> i - m]
<1>1. /\ Len(s) \in Nat /\ DOMAIN s = 1..Len(s) /\ DOMAIN t = 1..(Len(s) - m)
      /\ \A i \in 1..(Len(s) - m) : t[i] = s[i + m]
  <2>1. Len(s) \in Nat /\ DOMAIN s = 1..Len(s) /\ m \in Nat /\ m <= Len(s)
    OBVIOUS
  <2>2. t = [i \in 1..(Len(s) - m) |-> s[i + m]]
    <3>1. t = [i \in 1..(1 + Len(s) - (1 + m)) |-> s[i + (1 + m) - 1]]
      BY <2>1
    <3>2. 1 + Len(s) - (1 + m) = Len(s) - m /\ \A i \in Int : i + (1 + m) - 1 = i + m
      BY <2>1
    <3> QED BY <3>1, <3>2
  <2> QED BY <2>1, <2>2
<1>2. IsFiniteSet(X)
  BY CountNat
<1>3. \A y \in Y : \E x \in X : y = f[x]
  <2>1. SUFFICES ASSUME NEW y \in Y PROVE \E x \in X : y = f[x]
    OBVIOUS
  <2>2. y \in 1..(Len(s) - m) /\ s[y + m].kind = kind /\ s[y + m].pid = p
    BY <1>1, <2>1 DEF Matching
  <2>3. y + m \in X
    BY <1>1, <2>2 DEF Matching
  <2>4. f[y + m] = y
    BY <2>2, <2>3
  <2> QED BY <2>3, <2>4
<1>4. DOMAIN f = X
  OBVIOUS
<1> HIDE DEF f, X, Y
<1>5. Cardinality(Y) <= Cardinality(X)
  BY <1>2, <1>3, <1>4, FiniteImage
<1> QED BY <1>5 DEF Count, X, Y

\* Without its head a sequence has one event less, if it is of p.
LEMMA CountTail ==
  ASSUME NEW S, NEW s \in Seq(S), s # <<>>, NEW kind, NEW p
  PROVE  Count(kind, p, Tail(s)) + (IF Head(s).kind = kind /\ Head(s).pid = p THEN 1 ELSE 0) <= Count(kind, p, s)
<1> DEFINE t == Tail(s)
           M == Matching(kind, p, s)
           X == M \ {1}
           Y == Matching(kind, p, t)
           f == [i \in X |-> i - 1]
<1>1. /\ Len(s) \in Nat \ {0} /\ DOMAIN s = 1..Len(s) /\ t \in Seq(S) /\ DOMAIN t = 1..(Len(s) - 1)
      /\ Head(s) = s[1] /\ \A i \in 1..(Len(s) - 1) : t[i] = s[i + 1]
  <2>1. /\ Len(s) \in Nat \ {0} /\ DOMAIN s = 1..Len(s) /\ t \in Seq(S) /\ Len(t) = Len(s) - 1
        /\ Head(s) = s[1] /\ \A i \in 1..Len(t) : t[i] = s[i + 1]
    OBVIOUS
  <2> QED BY <2>1
<1>2. IsFiniteSet(M) /\ Cardinality(M) \in Nat /\ IsFiniteSet(Y) /\ Cardinality(Y) \in Nat
  BY <1>1, CountNat DEF Count
<1>3. \A y \in Y : \E x \in X : y = f[x]
  <2>1. SUFFICES ASSUME NEW y \in Y PROVE \E x \in X : y = f[x]
    OBVIOUS
  <2>2. y \in 1..(Len(s) - 1) /\ s[y + 1].kind = kind /\ s[y + 1].pid = p
    BY <1>1, <2>1 DEF Matching
  <2>3. y + 1 \in X
    BY <1>1, <2>2 DEF Matching
  <2>4. f[y + 1] = y
    BY <2>2, <2>3
  <2> QED BY <2>3, <2>4
<1>4. DOMAIN f = X
  OBVIOUS
<1>5. 1 \in M <=> (Head(s).kind = kind /\ Head(s).pid = p)
  BY <1>1 DEF Matching
<1>6. IsFiniteSet(X) /\ Cardinality(X) = IF 1 \in M THEN Cardinality(M) - 1 ELSE Cardinality(M)
  <2> HIDE DEF M
  <2> QED BY <1>2, FS_RemoveElement
<1> HIDE DEF f, X, Y, M
<1>7. Cardinality(Y) <= Cardinality(X)
  BY <1>3, <1>4, <1>6, FiniteImage
<1>8. Cardinality(Y) + (IF 1 \in M THEN 1 ELSE 0) <= Cardinality(M)
  BY <1>2, <1>6, <1>7
<1>9. Cardinality(Y) + (IF Head(s).kind = kind /\ Head(s).pid = p THEN 1 ELSE 0) <= Cardinality(M)
  BY <1>5, <1>8
<1> QED BY <1>9 DEF Count, M, Y
LEMMA CapPositive == BusCap \in Nat /\ BusCap > 0
BY ProcessesAssumption

\* The bus after events were sent: no more of anything than was on it and was sent.
LEMMA SendKeeps ==
  ASSUME BusTyped, NEW es \in Seq(Event), Send(es)
  PROVE  /\ bus' \in Seq(Event) /\ Len(bus') <= BusCap
         /\ \A i \in DOMAIN bus' : (\E j \in DOMAIN bus : bus'[i] = bus[j]) \/ (\E j \in DOMAIN es : bus'[i] = es[j])
         /\ \A kind, p : Count(kind, p, bus') <= Count(kind, p, bus) + Count(kind, p, es)
<1> DEFINE all == bus \o es
           m == IF Len(all) > BusCap THEN Len(all) - BusCap ELSE 0
           kept == SubSeq(all, 1 + m, Len(all))
<1>1. bus' = kept
  BY DEF Send
<1>2. bus \in Seq(Event) /\ all \in Seq(Event)
  BY DEF BusTyped
<1>3. Len(all) \in Nat /\ m \in 0..Len(all) /\ Len(all) - m <= BusCap
  BY <1>2, CapPositive
<1>4. /\ Len(all) = Len(bus) + Len(es) /\ DOMAIN all = 1..Len(all)
      /\ \A i \in 1..(Len(bus) + Len(es)) : all[i] = IF i <= Len(bus) THEN bus[i] ELSE es[i - Len(bus)]
  BY <1>2, ConcatProperties
<1> HIDE DEF m, all
<1>5. kept \in Seq(Event) /\ Len(kept) = Len(all) - m /\ \A i \in 1..(Len(all) - m) : kept[i] = all[i + m]
  BY <1>2, <1>3
<1>6. ASSUME NEW i \in DOMAIN kept
      PROVE  (\E j \in DOMAIN bus : kept[i] = bus[j]) \/ (\E j \in DOMAIN es : kept[i] = es[j])
  <2>1. Len(bus) \in Nat /\ Len(es) \in Nat /\ DOMAIN bus = 1..Len(bus) /\ DOMAIN es = 1..Len(es)
    BY <1>2
  <2>2. i \in 1..(Len(all) - m) /\ i + m \in 1..(Len(bus) + Len(es)) /\ kept[i] = all[i + m]
    BY <1>3, <1>4, <1>5, <2>1
  <2>3. CASE i + m <= Len(bus)
    <3>1. i + m \in DOMAIN bus /\ all[i + m] = bus[i + m]
      BY <1>4, <2>1, <2>2, <2>3
    <3> QED BY <2>2, <3>1
  <2>4. CASE ~(i + m <= Len(bus))
    <3>1. i + m - Len(bus) \in DOMAIN es /\ all[i + m] = es[i + m - Len(bus)]
      BY <1>3, <1>4, <2>1, <2>2, <2>4
    <3> QED BY <2>2, <3>1
  <2> QED BY <2>3, <2>4
<1>7. ASSUME NEW kind, NEW p
      PROVE  Count(kind, p, kept) <= Count(kind, p, bus) + Count(kind, p, es)
  <2>1. Count(kind, p, kept) <= Count(kind, p, all)
    BY <1>2, <1>3, CountSuffix
  <2>2. Count(kind, p, all) <= Count(kind, p, bus) + Count(kind, p, es)
    BY <1>2, CountConcat DEF all
  <2>3. /\ Count(kind, p, kept) \in Nat /\ Count(kind, p, all) \in Nat
        /\ Count(kind, p, bus) \in Nat /\ Count(kind, p, es) \in Nat
    BY <1>2, <1>5, CountNat
  <2> QED BY <2>1, <2>2, <2>3
<1>8. Len(kept) <= BusCap
  BY <1>3, <1>5
<1> HIDE DEF kept
<1> QED BY <1>1, <1>5, <1>6, <1>7, <1>8

\* Without its head.
LEMMA ReceiveKeeps ==
  ASSUME BusTyped, bus # <<>>, bus' = Tail(bus)
  PROVE  /\ bus' \in Seq(Event) /\ Len(bus') <= BusCap /\ Head(bus) \in Event
         /\ \E i \in DOMAIN bus : Head(bus) = bus[i]
         /\ \A i \in DOMAIN bus' : \E j \in DOMAIN bus : bus'[i] = bus[j]
         /\ \A kind, p :
              Count(kind, p, bus') + (IF Head(bus).kind = kind /\ Head(bus).pid = p THEN 1 ELSE 0)
                <= Count(kind, p, bus)
<1>1. bus \in Seq(Event) /\ Len(bus) <= BusCap
  BY DEF BusTyped
<1>2. /\ Len(bus) \in Nat \ {0} /\ DOMAIN bus = 1..Len(bus) /\ bus' \in Seq(Event)
      /\ Len(bus') = Len(bus) - 1 /\ Head(bus) = bus[1] /\ Head(bus) \in Event
      /\ \A i \in 1..Len(bus') : bus'[i] = bus[i + 1]
  BY <1>1
<1>3. \A i \in DOMAIN bus' : i + 1 \in DOMAIN bus /\ bus'[i] = bus[i + 1]
  BY <1>2
<1>4. 1 \in DOMAIN bus
  BY <1>2
<1>5. \A kind, p :
        Count(kind, p, bus') + (IF Head(bus).kind = kind /\ Head(bus).pid = p THEN 1 ELSE 0)
          <= Count(kind, p, bus)
  BY <1>1, CountTail
<1>6. Len(bus') <= BusCap
  BY <1>1, <1>2, CapPositive
<1> QED BY <1>2, <1>3, <1>4, <1>5, <1>6

\* A round of the process monitor: an event at most of a pid, and none of those not
\* named.
PidEvents(ps) == {[kind |-> "process", pid |-> q, remote |-> None, life |-> 0] : q \in ps}

LEMMA PidEventsListed ==
  ASSUME NEW ps \in SUBSET Pids
  PROVE  /\ SetToSeq(PidEvents(ps)) \in Seq(Event)
         /\ \A i \in DOMAIN SetToSeq(PidEvents(ps)) :
              SetToSeq(PidEvents(ps))[i].kind = "process" /\ SetToSeq(PidEvents(ps))[i].pid \in ps
         /\ \A p : /\ Count("network", p, SetToSeq(PidEvents(ps))) = 0
                   /\ Count("process", p, SetToSeq(PidEvents(ps))) <= IF p \in ps THEN 1 ELSE 0
<1> DEFINE E == PidEvents(ps)
           s == SetToSeq(E)
           f == [q \in ps |-> [kind |-> "process", pid |-> q, remote |-> None, life |-> 0]]
<1>1. IsFiniteSet(ps)
  BY ProcessesAssumption, FS_Subset
<1>2. DOMAIN f = ps /\ \A y \in E : \E x \in ps : y = f[x]
  BY DEF PidEvents
<1>3. \A y \in E : y \in Event /\ y.kind = "process" /\ y.pid \in ps
  BY ProcessesAssumption DEF PidEvents, Event
<1>4. \A y, z \in E : y.pid = z.pid => y = z
  BY DEF PidEvents
<1> HIDE DEF E, f
<1>5. IsFiniteSet(E)
  BY <1>1, <1>2, FiniteImage
<1>6. s \in Seq(E) /\ \A i, j \in DOMAIN s : s[i] = s[j] => i = j
  BY <1>5, SetToSeqLists
<1> HIDE DEF s
<1>7. \A i \in DOMAIN s : s[i] \in E
  BY <1>6
<1>8. s \in Seq(Event)
  <2>1. Len(s) \in Nat /\ DOMAIN s = 1..Len(s) /\ s = [i \in 1..Len(s) |-> s[i]]
    BY <1>6
  <2>2. \A i \in 1..Len(s) : s[i] \in Event
    BY <1>3, <1>7, <2>1
  <2> QED BY <2>1, <2>2
<1>9. \A i \in DOMAIN s : s[i].kind = "process" /\ s[i].pid \in ps
  BY <1>3, <1>7
<1>10. ASSUME NEW p
       PROVE  /\ Count("network", p, s) = 0
              /\ Count("process", p, s) <= IF p \in ps THEN 1 ELSE 0
  <2>1. Matching("network", p, s) = {}
    BY <1>9 DEF Matching
  <2>2. p \notin ps => Matching("process", p, s) = {}
    BY <1>9 DEF Matching
  <2>3. \A i, j \in Matching("process", p, s) : i = j
    BY <1>4, <1>6, <1>7 DEF Matching
  <2>4. Matching("process", p, s) = {} \/ \E i : Matching("process", p, s) = {i}
    BY <2>3
  <2>5. Cardinality({}) = 0 /\ \A i : Cardinality({i}) = 1
    BY FS_EmptySet, FS_Singleton
  <2>6. Count("network", p, s) = 0
    BY <2>1, <2>5 DEF Count
  <2>7. Count("process", p, s) \in {0, 1} /\ (p \notin ps => Count("process", p, s) = 0)
    BY <2>2, <2>4, <2>5 DEF Count
  <2> QED BY <2>6, <2>7
<1> QED BY <1>8, <1>9, <1>10 DEF s, E

---------------------------------------------------------------------------
(* Numbers                                                                 *)

LEMMA Bounds ==
  /\ BonusOver \in Nat /\ Bonus \in Nat /\ KillAt \in Nat /\ BusyOver \in Nat
  /\ MaxLives \in Nat /\ MaxLives > 0 /\ MaxConnects \in Nat
BY ProcessesAssumption

LEMMA ScoreGrows ==
  ASSUME NEW m \in Nat, NEW n \in Nat, m <= n
  PROVE  Score(m) \in Nat /\ Score(m) <= Score(n)
BY Bounds DEF Score

\* The bound on all connections is one on those of each life.
AllDeeds == FoldFunction(+, 0, deeds)
Adding(f) == [s \in SUBSET (1..MaxLives) |->
                IF s = {} THEN 0 ELSE deeds[CHOOSE x \in s : TRUE] + f[s \ {CHOOSE x \in s : TRUE}]]

LEMMA AllDeedsIs ==
  ASSUME DOMAIN deeds = 1..MaxLives
  PROVE  AllDeeds = (CHOOSE f : f = Adding(f))[1..MaxLives]
BY DEF AllDeeds, FoldFunction, FoldFunctionOnSet, MapThenFoldSet, Adding

LEMMA DeedsBelow ==
  ASSUME deeds \in [1..MaxLives -> 0..MaxConnects], AllDeeds < MaxConnects
  PROVE  \A l \in 1..MaxLives : deeds[l] + 1 \in 0..MaxConnects
<1> DEFINE S == 1..MaxLives
           sum == CHOOSE f : f = Adding(f)
<1>1. IsFiniteSet(S) /\ DOMAIN deeds = S /\ \A x \in S : deeds[x] \in Nat
  <2>1. MaxLives \in Nat /\ MaxConnects \in Nat
    BY Bounds
  <2>2. IsFiniteSet(1..MaxLives)
    BY <2>1, CountFinite
  <2> QED BY <2>1, <2>2
<1>2. AllDeeds = sum[S]
  BY <1>1, AllDeedsIs
<1>3. ASSUME NEW f PROVE Sums(f, deeds, S) <=> f = Adding(f)
  BY DEF Sums, Picked, Adding
<1> HIDE DEF S
<1>5. PICK f : Sums(f, deeds, S)
  BY <1>1, SumExists
<1>6. sum = Adding(sum)
  BY <1>3, <1>5
<1> HIDE DEF sum
<1>7. Sums(sum, deeds, S)
  BY <1>3, <1>6
<1>8. sum \in [SUBSET S -> Nat]
  BY <1>1, <1>7, SumNat
<1>9. ASSUME NEW l, l \in S PROVE deeds[l] + 1 \in 0..MaxConnects
  <2>1. sum[S] = deeds[l] + sum[S \ {l}]
    <3>1. PICK h, g, T : h = sum /\ g = deeds /\ T = S
      OBVIOUS
    <3>2. IsFiniteSet(T) /\ (\A x \in T : g[x] \in Nat) /\ Sums(h, g, T) /\ l \in T
      BY <1>1, <1>7, <1>9, <3>1
    <3>3. h[T] = g[l] + h[T \ {l}]
      BY <3>2, SumPicksOne
    <3> QED BY <3>1, <3>3
  <2>2. S \ {l} \in SUBSET S
    OBVIOUS
  <2>3. sum[S \ {l}] \in Nat
    BY <1>8, <2>2
  <2>4. deeds[l] \in Nat
    BY <1>1, <1>9
  <2> QED BY <1>2, <2>1, <2>3, <2>4, Bounds
<1> QED BY <1>9 DEF S

---------------------------------------------------------------------------
(* Programs                                                                *)

LEMMA ClosedRow ==
  ASSUME NEW r \in Remotes, conn[r] \in Connection
  PROVE  /\ Closed(r) \in Connection /\ Closed(r) # None
         /\ Closed(r).remote = conn[r].remote /\ Closed(r).pid = conn[r].pid /\ Closed(r).life = conn[r].life
<1>1. /\ Closed(r) \in Connection
      /\ Closed(r).remote = conn[r].remote /\ Closed(r).pid = conn[r].pid /\ Closed(r).life = conn[r].life
  BY DEF Closed, Connection
<1> QED BY <1>1, NoConnectionAssumption

LEMMA OpenRow ==
  ASSUME SystemTyped, NEW r \in Remotes, conn[r] \in Rows
  PROVE  conn[r] # None /\ conn[r] \in Connection
BY NoConnectionAssumption DEF SystemTyped, Rows

\* No connection is new, and no life.
Fewer ==
  /\ conn' \in [Remotes -> Connection \cup {None}]
  /\ \A r \in Remotes : conn'[r] # None =>
       /\ conn[r] # None
       /\ conn'[r].remote = conn[r].remote /\ conn'[r].pid = conn[r].pid /\ conn'[r].life = conn[r].life
  /\ life' \in [Pids -> 0..MaxLives] /\ \A p \in Pids : life'[p] \in {0, life[p]}

LEMMA SameFewer == ASSUME SystemTyped, life' = life, conn' = conn PROVE Fewer
BY DEF SystemTyped, Fewer

LEMMA EndsFewer ==
  ASSUME SystemTyped, NEW p \in Pids, Ends(p)
  PROVE  Fewer
<1>1. /\ life' = [life EXCEPT ![p] = 0] /\ life \in [Pids -> 0..MaxLives]
      /\ conn' = [r \in Remotes |-> IF conn[r] \in Open /\ conn[r].pid = p THEN Closed(r) ELSE conn[r]]
      /\ conn \in [Remotes -> Connection \cup {None}]
  BY DEF Ends, SystemTyped
<1>2. ASSUME NEW r \in Remotes
      PROVE  /\ conn'[r] \in Connection \cup {None}
             /\ conn'[r] # None =>
                  /\ conn[r] # None
                  /\ conn'[r].remote = conn[r].remote /\ conn'[r].pid = conn[r].pid /\ conn'[r].life = conn[r].life
  <2>1. CASE conn[r] \in Open /\ conn[r].pid = p
    <3>1. conn[r] # None /\ conn[r] \in Connection
      BY <2>1, OpenRow DEF Open
    <3> QED BY <1>1, <2>1, <3>1, ClosedRow
  <2>2. CASE ~(conn[r] \in Open /\ conn[r].pid = p)
    BY <1>1, <2>2
  <2> QED BY <2>1, <2>2
<1>3. conn' \in [Remotes -> Connection \cup {None}]
  BY <1>1, <1>2
<1>4. life' \in [Pids -> 0..MaxLives] /\ \A q \in Pids : life'[q] \in {0, life[q]}
  BY <1>1, Bounds
<1> QED BY <1>2, <1>3, <1>4 DEF Fewer

LEMMA CloseFewer ==
  ASSUME SystemTyped, NEW r \in Remotes, Close(r) \/ Expire(r)
  PROVE  Fewer
<1>1. life' = life /\ life \in [Pids -> 0..MaxLives] /\ conn \in [Remotes -> Connection \cup {None}]
  BY DEF Close, Expire, SystemTyped
<1>2. CASE Close(r)
  <2>1. conn[r] # None /\ conn[r] \in Connection /\ conn' = [conn EXCEPT ![r] = Closed(r)]
    BY <1>2, OpenRow DEF Close, Open
  <2> HIDE DEF Closed
  <2>2. conn' \in [Remotes -> Connection \cup {None}] /\ conn'[r] = Closed(r)
        /\ \A q \in Remotes \ {r} : conn'[q] = conn[q]
    BY <1>1, <2>1, ClosedRow
  <2> QED BY <1>1, <2>1, <2>2, ClosedRow DEF Fewer
<1>3. CASE Expire(r)
  <2>1. conn' = [conn EXCEPT ![r] = None]
    BY <1>3 DEF Expire
  <2>2. conn' \in [Remotes -> Connection \cup {None}] /\ conn'[r] = None
        /\ \A q \in Remotes \ {r} : conn'[q] = conn[q]
    BY <1>1, <2>1
  <2> QED BY <1>1, <2>2 DEF Fewer
<1> QED BY <1>2, <1>3

LEMMA ComingFinite == \A p : IsFiniteSet(Coming(p)) /\ Cardinality(Coming(p)) \in Nat
<1>1. ASSUME NEW p PROVE IsFiniteSet(Coming(p))
  <2>1. Coming(p) \in SUBSET Remotes
    BY DEF Coming
  <2> QED BY <2>1, ProcessesAssumption, FS_Subset
<1> QED BY <1>1, FS_CardinalityType

LEMMA InHandFinite ==
  ASSUME MonitorTyped
  PROVE  \A p : InHand(p) \subseteq Remotes /\ IsFiniteSet(InHand(p)) /\ Cardinality(InHand(p)) \in Nat
<1>1. /\ \A i \in DOMAIN todo : todo[i] \in Connection
      /\ \A i \in DOMAIN found : found[i].remote \in Remotes
  BY DEF MonitorTyped
<1>2. \A c \in Connection : c.remote \in Remotes
  BY DEF Connection
<1>3. ASSUME NEW p PROVE InHand(p) \in SUBSET Remotes
  BY <1>1, <1>2 DEF InHand, RemotesFor
<1>4. ASSUME NEW p PROVE IsFiniteSet(InHand(p))
  BY <1>3, ProcessesAssumption, FS_Subset
<1> QED BY <1>3, <1>4, FS_CardinalityType

LEMMA CountsTyped ==
  ASSUME Typed, NEW p \in Pids \cup {0}, NEW kind
  PROVE  Count(kind, p, bus) \in Nat /\ record[p].net \in Nat /\ record[p].all \in Nat
<1>1. Count(kind, p, bus) \in Nat
  BY CountNat DEF Typed, BusTyped
<1>2. record[p] \in [all : Nat, net : Nat]
  BY DEF Typed, EngineTyped
<1> QED BY <1>1, <1>2

\* When something ends nothing is added to what is counted of anyone.
LEMMA FewerOwn ==
  ASSUME Own, Fewer,
         UNCHANGED <<lives, used, deeds, knownPids, networkMonitor, bus, record, mixed>>
  PROVE  SystemTyped' /\ MonitorTyped' /\ BusTyped' /\ OneEach' /\ Attributed' /\ Unused' /\ StartedOnce'
<1>1. /\ UNCHANGED <<lives, used, deeds, knownPids, bus, record, mixed>>
      /\ UNCHANGED <<nmon, todo, found, knownKeys, inodes>>
  BY DEF networkMonitor
<1>2. Typed
  BY DEF Own
<1>3. SystemTyped'
  <2>1. \A p \in Pids : life'[p] <= lives /\ (life'[p] # 0 => p \in used)
    BY <1>2, Bounds DEF Fewer, Typed, SystemTyped
  <2>2. \A r \in Remotes : conn'[r] # None => conn'[r].remote = r /\ conn'[r].pid \in used
    BY <1>2 DEF Fewer, Typed, SystemTyped
  <2> QED BY <1>1, <1>2, <2>1, <2>2 DEF Fewer, Typed, SystemTyped
<1>4. MonitorTyped' /\ BusTyped'
  BY <1>1, <1>2 DEF Typed, MonitorTyped, BusTyped
<1>5. OneEach'
  BY <1>1 DEF Own, OneEach, RemotesOf
<1>6. Unused'
  BY <1>1 DEF Own, Unused
<1>7. StartedOnce'
  BY <1>1 DEF Own, StartedOnce, Alive, Fewer, Count, Matching
<1>8. Attributed'
  <2>1. SUFFICES ASSUME NEW p \in used \ mixed PROVE \E l \in 1..lives : OfLife(p, l)' /\ Counts(p, l)'
    BY <1>1 DEF Attributed
  <2>2. PICK l \in 1..lives : OfLife(p, l) /\ Counts(p, l)
    BY DEF Own, Attributed
  <2>3. p \in Pids
    BY <1>2 DEF Typed, SystemTyped
  <2>4. OfLife(p, l)'
    BY <1>1, <2>2, <2>3 DEF OfLife, Fewer
  <2>5. WillKnow' = WillKnow
    BY <1>1 DEF WillKnow, RemotesOf
  <2>6. Coming(p)' \subseteq Coming(p)
    BY <2>5 DEF Coming, Fewer
  <2>7. InHand(p)' = InHand(p)
    BY <1>1 DEF InHand, RemotesFor
  <2>8. Count("network", p, bus)' = Count("network", p, bus) /\ record' = record /\ deeds' = deeds
    BY <1>1 DEF Count, Matching
  <2> HIDE DEF Coming, InHand, Count
  <2>9. PICK c, d : c = Coming(p) /\ d = Coming(p)'
    OBVIOUS
  <2>10. IsFiniteSet(c) /\ d \subseteq c
    BY <2>6, <2>9, ComingFinite
  <2>11. Cardinality(d) <= Cardinality(c) /\ IsFiniteSet(d)
    BY <2>10, FS_Subset
  <2>12. Cardinality(d) \in Nat /\ Cardinality(c) \in Nat
    BY <2>10, <2>11, FS_CardinalityType
  <2>13. /\ Count("network", p, bus) \in Nat /\ record[p].net \in Nat /\ Cardinality(InHand(p)) \in Nat
         /\ deeds[l] \in Nat
    <3>1. l \in 1..MaxLives
      BY <1>2, Bounds DEF Typed, SystemTyped
    <3> QED BY <1>2, <2>3, <3>1, CountsTyped, InHandFinite, Bounds DEF Typed, SystemTyped
  <2>14. record[p].net + Count("network", p, bus) + Cardinality(c) + Cardinality(InHand(p)) <= deeds[l]
    BY <2>2, <2>9 DEF Counts
  <2>15. record[p].net + Count("network", p, bus) + Cardinality(d) + Cardinality(InHand(p)) <= deeds[l]
    BY <2>11, <2>12, <2>13, <2>14
  <2>16. Counts(p, l)'
    BY <2>7, <2>8, <2>9, <2>15 DEF Counts
  <2> QED BY <2>4, <2>16
<1> QED BY <1>3, <1>4, <1>5, <1>6, <1>7, <1>8

LEMMA ConnectGuard == ASSUME NEW p, NEW r, NEW i, Connect(p, r, i) PROVE AllDeeds < MaxConnects
BY DEF Connect, AllDeeds

---------------------------------------------------------------------------
(* What the numbers are                                                    *)

LEMMA PartsTyped ==
  ASSUME Typed, NEW p \in Pids
  PROVE  /\ record[p].net \in Nat /\ record[p].all \in Nat /\ record[p].net <= record[p].all
         /\ Count("network", p, bus) \in Nat /\ Count("process", p, bus) \in Nat
         /\ IsFiniteSet(Coming(p)) /\ Cardinality(Coming(p)) \in Nat
         /\ IsFiniteSet(InHand(p)) /\ Cardinality(InHand(p)) \in Nat
<1>1. p \in Pids \cup {0} /\ MonitorTyped /\ record[p].net <= record[p].all
  BY DEF Typed, EngineTyped
<1> QED BY <1>1, CountsTyped, ComingFinite, InHandFinite

LEMMA LifeTyped ==
  ASSUME Typed, NEW l \in 1..lives
  PROVE  l \in 1..MaxLives /\ deeds[l] \in Nat
<1>1. lives \in 0..MaxLives /\ deeds \in [1..MaxLives -> 0..MaxConnects] /\ MaxLives \in Nat /\ MaxConnects \in Nat
  BY Bounds DEF Typed, SystemTyped
<1>2. l \in 1..MaxLives
  BY <1>1
<1> QED BY <1>1, <1>2

---------------------------------------------------------------------------
(* Each step keeps the invariant                                           *)

LEMMA SpawnOwn == ASSUME Own, NEW p \in Pids, Spawn(p) PROVE Own'
<1>1. /\ life[p] = 0 /\ lives < MaxLives /\ lives' = lives + 1
      /\ life' = [life EXCEPT ![p] = lives + 1] /\ used' = used \cup {p}
      /\ mixed' = (IF p \in used THEN mixed \cup {p} ELSE mixed)
      /\ UNCHANGED <<conn, deeds, knownPids, nmon, todo, found, knownKeys, inodes, bus>>
      /\ UNCHANGED <<task, record, blocked, killed, masked, missed>>
  BY DEF Spawn, networkMonitor, engine
<1>2. Typed /\ SystemTyped /\ MonitorTyped /\ BusTyped /\ EngineTyped
  BY DEF Own, Typed
<1>3. lives \in Nat /\ life \in [Pids -> 0..MaxLives] /\ MaxLives \in Nat /\ used \subseteq Pids
  BY <1>2, Bounds DEF SystemTyped
<1>4. SystemTyped'
  <2>1. life' \in [Pids -> 0..MaxLives] /\ lives' \in 0..MaxLives /\ used' \subseteq Pids
    BY <1>1, <1>3
  <2>2. ASSUME NEW q \in Pids PROVE life'[q] <= lives' /\ (life'[q] # 0 => q \in used')
    <3>1. CASE q = p
      BY <1>1, <1>3, <3>1
    <3>2. CASE q # p
      <4>1. life'[q] = life[q] /\ life[q] <= lives /\ (life[q] # 0 => q \in used) /\ life[q] \in 0..MaxLives
        BY <1>1, <1>2, <1>3, <3>2 DEF SystemTyped
      <4> QED BY <1>1, <1>3, <4>1
    <3> QED BY <3>1, <3>2
  <2>3. \A r \in Remotes : conn[r] # None => conn[r].remote = r /\ conn[r].pid \in used'
    BY <1>1, <1>2 DEF SystemTyped
  <2> QED BY <1>1, <1>2, <2>1, <2>2, <2>3 DEF SystemTyped
<1>5. MonitorTyped' /\ BusTyped' /\ EngineTyped'
  <2>1. \A i \in DOMAIN inodes : inodes[i] \in used'
    BY <1>1, <1>2 DEF MonitorTyped
  <2> QED BY <1>1, <1>2, <2>1 DEF MonitorTyped, BusTyped, EngineTyped
<1>6. OneEach'
  BY <1>1 DEF Own, OneEach, RemotesOf
<1>7. Unused'
  BY <1>1 DEF Own, Unused
<1>8. ASSUME p \notin used
      PROVE  /\ p \notin knownPids /\ record[p].all = 0 /\ record[p].net = 0
             /\ Matching("network", p, bus) = {} /\ Matching("process", p, bus) = {}
             /\ Coming(p) = {} /\ InHand(p) = {}
  <2>1. /\ p \notin knownPids /\ record[p].all = 0
        /\ \A i \in DOMAIN todo : todo[i].pid # p
        /\ \A i \in DOMAIN found : found[i].pid # p
        /\ \A i \in DOMAIN bus : bus[i].pid # p
    BY <1>8 DEF Own, Unused
  <2>2. record[p].net = 0
    BY <1>2, <2>1, PartsTyped
  <2>3. \A r \in Remotes : conn[r] # None => conn[r].pid # p
    BY <1>2, <1>8 DEF SystemTyped
  <2> QED BY <2>1, <2>2, <2>3 DEF Matching, Coming, InHand, RemotesFor
<1>9. Cardinality({}) = 0
  BY FS_EmptySet
<1>10. /\ \A q : Coming(q)' = Coming(q) /\ InHand(q)' = InHand(q)
       /\ \A q, kind : Count(kind, q, bus)' = Count(kind, q, bus) /\ Matching(kind, q, bus)' = Matching(kind, q, bus)
  BY <1>1 DEF Coming, WillKnow, RemotesOf, InHand, RemotesFor, Count, Matching
<1>11. Attributed'
  <2>1. SUFFICES ASSUME NEW q \in used' \ mixed' PROVE \E l \in 1..lives' : OfLife(q, l)' /\ Counts(q, l)'
    BY DEF Attributed
  <2>2. CASE q = p
    <3>1. p \notin used
      BY <1>1, <2>1, <2>2
    <3>2. lives' \in 1..lives' /\ lives' \in 1..MaxLives /\ life'[p] = lives'
      BY <1>1, <1>3
    <3>3. \A r \in Remotes : conn[r] # None => conn[r].pid # p
      BY <1>2, <3>1 DEF SystemTyped
    <3>4. /\ \A i \in DOMAIN todo : todo[i].pid # p
          /\ \A i \in DOMAIN found : found[i].pid # p
          /\ \A i \in DOMAIN bus : bus[i].pid # p
      BY <3>1 DEF Own, Unused
    <3>5. OfLife(p, lives)'
      BY <1>1, <3>2, <3>3, <3>4 DEF OfLife
    <3>6. deeds[lives'] \in Nat
      BY <1>2, <3>2, Bounds DEF SystemTyped
    <3>7. Counts(p, lives)'
      <4>1. /\ record'[p].net = 0 /\ Count("network", p, bus)' = 0
            /\ Cardinality(Coming(p))' = 0 /\ Cardinality(InHand(p))' = 0 /\ deeds' = deeds
        BY <1>1, <1>8, <1>9, <1>10, <3>1 DEF Count
      <4>2. 0 + 0 + 0 + 0 <= deeds[lives']
        BY <3>6
      <4> QED BY <4>1, <4>2 DEF Counts
    <3> QED BY <2>2, <3>2, <3>5, <3>7
  <2>3. CASE q # p
    <3>1. q \in used \ mixed /\ q \in Pids
      BY <1>1, <1>3, <2>1, <2>3
    <3>2. PICK l \in 1..lives : OfLife(q, l) /\ Counts(q, l)
      BY <3>1 DEF Own, Attributed
    <3>3. l \in 1..lives'
      BY <1>1, <1>3
    <3>4. life'[q] = life[q]
      BY <1>1, <1>3, <2>3, <3>1
    <3>5. OfLife(q, l)'
      BY <1>1, <3>2, <3>4 DEF OfLife
    <3>6. Counts(q, l)'
      BY <1>1, <1>10, <3>2 DEF Counts
    <3> QED BY <3>3, <3>5, <3>6
  <2> QED BY <2>2, <2>3
<1>12. StartedOnce'
  <2>1. SUFFICES ASSUME NEW q \in Pids, life'[q] # 0, q \notin mixed'
                 PROVE  record'[q].all - record'[q].net + Count("process", q, bus)'
                          + (IF q \in knownPids' THEN 0 ELSE 1) <= 1
    BY DEF StartedOnce, Alive
  <2>2. CASE q = p
    <3>1. p \notin used
      BY <1>1, <2>1, <2>2
    <3> QED BY <1>1, <1>8, <1>9, <1>10, <2>2, <3>1 DEF Count
  <2>3. CASE q # p
    <3>1. life[q] # 0 /\ q \notin mixed
      BY <1>1, <1>3, <2>1, <2>3
    <3> QED BY <1>1, <1>10, <3>1 DEF Own, StartedOnce, Alive
  <2> QED BY <2>2, <2>3
<1>13. Convicted' /\ Excused'
  BY <1>1 DEF Own, Convicted, Excused
<1> QED BY <1>4, <1>5, <1>6, <1>7, <1>11, <1>12, <1>13 DEF Own, Typed

\* A step that leaves the life of the pids, the monitors, the bus and the engine
\* alone and takes back no deed keeps what is said of them.
LEMMA DeedsGrow ==
  ASSUME Own, UNCHANGED <<task, record, blocked, killed, masked, mixed>>,
         \A l \in 1..MaxLives : deeds'[l] \in Nat /\ deeds[l] <= deeds'[l]
  PROVE  EngineTyped' /\ Convicted' /\ Excused'
<1>1. Typed /\ SystemTyped /\ EngineTyped
  BY DEF Own, Typed
<1>2. EngineTyped'
  BY <1>1 DEF EngineTyped
<1>3. \A l \in 1..MaxLives : deeds[l] \in Nat
  BY <1>1, Bounds DEF SystemTyped
<1>4. Convicted'
  <2>1. SUFFICES ASSUME NEW k \in killed, k[2] \notin mixed
                 PROVE  k[2] \in Pids /\ k[1] \in 1..MaxLives /\ Score(1 + deeds'[k[1]]) >= KillAt
    BY DEF Own, Convicted
  <2>2. k[2] \in Pids /\ k[1] \in 1..MaxLives /\ Score(1 + deeds[k[1]]) >= KillAt
    BY <2>1 DEF Own, Convicted
  <2>3. PICK m, n : m = 1 + deeds[k[1]] /\ n = 1 + deeds'[k[1]]
    OBVIOUS
  <2>4. m \in Nat /\ n \in Nat /\ m <= n
    BY <1>3, <2>2, <2>3
  <2>5. Score(m) \in Nat /\ Score(m) <= Score(n) /\ Score(n) \in Nat
    BY <2>4, ScoreGrows
  <2>6. Score(m) >= KillAt
    BY <2>2, <2>3
  <2>7. Score(n) >= KillAt
    BY <2>5, <2>6, Bounds
  <2> QED BY <2>2, <2>3, <2>7
<1>5. Excused'
  <2>1. SUFFICES ASSUME NEW m \in masked, m[2] \notin mixed \cup {0}
                 PROVE  m[1] \in 1..MaxLives /\ deeds'[m[1]] > BusyOver
    BY DEF Own, Excused
  <2>2. m[1] \in 1..MaxLives /\ deeds[m[1]] > BusyOver
    BY <2>1 DEF Own, Excused
  <2> QED BY <1>3, <2>2, Bounds
<1> QED BY <1>2, <1>4, <1>5

LEMMA ConnectOwn == ASSUME Own, NEW p \in Pids, NEW r \in Remotes, NEW i \in Inodes, Connect(p, r, i) PROVE Own'
<1> DEFINE row == [remote |-> r, inode |-> i, pid |-> p, life |-> life[p]]
           l0 == life[p]
<1>1. /\ life[p] # 0 /\ conn[r] = None /\ AllDeeds < MaxConnects
      /\ conn' = [conn EXCEPT ![r] = row] /\ deeds' = [deeds EXCEPT ![l0] = @ + 1]
      /\ UNCHANGED <<life, lives, used, knownPids, nmon, todo, found, knownKeys, inodes, bus>>
      /\ UNCHANGED <<task, record, blocked, killed, masked, mixed, missed>>
  <2>1. AllDeeds < MaxConnects
    BY ConnectGuard
  <2> QED BY <2>1 DEF Connect, networkMonitor, engine
<1>2. Typed /\ SystemTyped /\ MonitorTyped /\ BusTyped /\ EngineTyped
  BY DEF Own, Typed
<1>3. /\ lives \in 0..MaxLives /\ life \in [Pids -> 0..MaxLives] /\ l0 <= lives /\ p \in used
      /\ conn \in [Remotes -> Connection \cup {None}]
      /\ deeds \in [1..MaxLives -> 0..MaxConnects] /\ MaxLives \in Nat /\ MaxConnects \in Nat
  BY <1>1, <1>2, Bounds DEF SystemTyped
<1>4. l0 \in 1..MaxLives /\ l0 \in 1..lives
  BY <1>1, <1>3
<1>5. row \in Connection /\ row.remote = r /\ row.pid = p /\ row.life = l0 /\ row # None
  <2>1. row \in Connection
    BY <1>4 DEF Connection
  <2> QED BY <2>1, NoConnectionAssumption
<1> HIDE DEF row, l0
<1>6. /\ conn' \in [Remotes -> Connection \cup {None}] /\ conn'[r] = row
      /\ \A q \in Remotes \ {r} : conn'[q] = conn[q]
  BY <1>1, <1>3, <1>5
<1>7. /\ deeds' \in [1..MaxLives -> 0..MaxConnects] /\ deeds'[l0] = deeds[l0] + 1
      /\ \A l \in 1..MaxLives : deeds'[l] \in Nat /\ deeds[l] <= deeds'[l]
  <2>1. deeds[l0] + 1 \in 0..MaxConnects
    BY <1>1, <1>3, <1>4, DeedsBelow
  <2>2. /\ deeds' \in [1..MaxLives -> 0..MaxConnects] /\ deeds'[l0] = deeds[l0] + 1
        /\ \A l \in 1..MaxLives \ {l0} : deeds'[l] = deeds[l]
    BY <1>1, <1>3, <1>4, <2>1
  <2>3. \A l \in 1..MaxLives : deeds'[l] \in Nat /\ deeds[l] \in Nat
    BY <1>3, <2>2
  <2>4. ASSUME NEW l \in 1..MaxLives PROVE deeds[l] <= deeds'[l]
    <3>1. deeds[l] \in Nat /\ (l = l0 => deeds'[l] = deeds[l] + 1) /\ (l # l0 => deeds'[l] = deeds[l])
      BY <2>2, <2>3
    <3> QED BY <3>1
  <2> QED BY <2>2, <2>3, <2>4
<1>8. SystemTyped'
  <2>1. \A q \in Remotes : conn'[q] # None => conn'[q].remote = q /\ conn'[q].pid \in used
    BY <1>2, <1>3, <1>5, <1>6 DEF SystemTyped
  <2> QED BY <1>1, <1>2, <1>6, <1>7, <2>1 DEF SystemTyped
<1>9. MonitorTyped' /\ BusTyped'
  BY <1>1, <1>2 DEF MonitorTyped, BusTyped
<1>10. EngineTyped' /\ Convicted' /\ Excused'
  BY <1>1, <1>7, DeedsGrow
<1>11. OneEach' /\ Unused'
  BY <1>1 DEF Own, OneEach, RemotesOf, Unused
<1>12. StartedOnce'
  BY <1>1 DEF Own, StartedOnce, Alive, Count, Matching
<1>13. /\ \A q : InHand(q)' = InHand(q)
       /\ \A q, kind : Count(kind, q, bus)' = Count(kind, q, bus)
       /\ WillKnow' = WillKnow
  BY <1>1 DEF WillKnow, RemotesOf, InHand, RemotesFor, Count, Matching
<1>14. Attributed'
  <2>1. SUFFICES ASSUME NEW q \in used \ mixed PROVE \E l \in 1..lives : OfLife(q, l)' /\ Counts(q, l)'
    BY <1>1 DEF Attributed
  <2>2. q \in Pids
    BY <1>2 DEF SystemTyped
  <2>3. PICK l \in 1..lives : OfLife(q, l) /\ Counts(q, l)
    BY DEF Own, Attributed
  <2>4. l \in 1..MaxLives /\ deeds[l] \in Nat
    BY <1>2, LifeTyped
  <2>5. q = p => l = l0
    BY <1>1, <2>3 DEF OfLife, l0
  <2>6. OfLife(q, l)'
    BY <1>1, <1>5, <1>6, <2>3, <2>5 DEF OfLife
  <2>7. Coming(q)' \subseteq Coming(q) \cup {r} /\ (q # p => Coming(q)' \subseteq Coming(q))
    BY <1>5, <1>6, <1>13 DEF Coming
  <2>8. PICK c, d, h, n : c = Coming(q) /\ d = Coming(q)' /\ h = Cardinality(InHand(q)) /\ n = Count("network", q, bus)
    OBVIOUS
  <2>9. /\ IsFiniteSet(c) /\ Cardinality(c) \in Nat /\ h \in Nat /\ n \in Nat /\ record[q].net \in Nat
        /\ record[q].net + n + Cardinality(c) + h <= deeds[l]
    BY <1>2, <2>2, <2>3, <2>8, PartsTyped DEF Counts
  <2>10. /\ IsFiniteSet(d) /\ Cardinality(d) \in Nat /\ Cardinality(d) <= Cardinality(c) + 1
         /\ q # p => Cardinality(d) <= Cardinality(c)
    <3>1. IsFiniteSet({r}) /\ Cardinality({r}) = 1
      BY FS_Singleton
    <3>2. d \subseteq c \cup {r} /\ (q # p => d \subseteq c)
      BY <2>7, <2>8
    <3>3. IsFiniteSet(d) /\ Cardinality(d) <= Cardinality(c) + 1
      BY <2>9, <3>1, <3>2, CountOfUnion
    <3>4. q # p => Cardinality(d) <= Cardinality(c)
      BY <2>9, <3>2, FS_Subset
    <3> QED BY <3>3, <3>4, FS_CardinalityType
  <2>11. record[q].net + n + Cardinality(d) + h <= deeds'[l]
    <3>1. CASE q = p
      <4>1. deeds'[l] = deeds[l] + 1
        BY <1>7, <2>5, <3>1
      <4> QED BY <2>4, <2>9, <2>10, <4>1
    <3>2. CASE q # p
      <4>1. deeds'[l] \in Nat /\ deeds[l] <= deeds'[l]
        BY <1>7, <2>4
      <4> QED BY <2>4, <2>9, <2>10, <3>2, <4>1
    <3> QED BY <3>1, <3>2
  <2>12. Counts(q, l)'
    BY <1>1, <1>13, <2>8, <2>11 DEF Counts
  <2> QED BY <2>6, <2>12
<1> QED BY <1>8, <1>9, <1>10, <1>11, <1>12, <1>14 DEF Own, Typed

\* Programs end, and their connections.
LEMMA EndedOwn ==
  ASSUME Own, Fewer, UNCHANGED <<lives, used, deeds, knownPids, networkMonitor, bus, record, mixed>>,
         UNCHANGED <<task, record, blocked, killed, masked, mixed>>
  PROVE  Own'
<1>1. SystemTyped
  BY DEF Own, Typed
<1>2. \A l \in 1..MaxLives : deeds'[l] \in Nat /\ deeds[l] <= deeds'[l]
  <2>1. deeds' = deeds /\ deeds \in [1..MaxLives -> 0..MaxConnects] /\ MaxConnects \in Nat
    BY <1>1, Bounds DEF SystemTyped
  <2> QED BY <2>1
<1>3. EngineTyped' /\ Convicted' /\ Excused'
  BY <1>2, DeedsGrow
<1> QED BY <1>3, FewerOwn DEF Own, Typed

LEMMA KillOwn == ASSUME Own, Kill PROVE Own'
<1> DEFINE p == task.pid
           l0 == life[p]
<1>1. /\ task.pc = "kill" /\ task' = Idle
      /\ UNCHANGED <<lives, used, deeds, knownPids, networkMonitor, bus, record, blocked, masked, mixed, missed>>
      /\ IF l0 = 0 THEN UNCHANGED <<life, conn, killed>>
         ELSE killed' = killed \cup {<<l0, p>>} /\ Ends(p)
  BY DEF Kill
<1>2. Typed /\ SystemTyped /\ EngineTyped
  BY DEF Own, Typed
<1>3. p \in Pids /\ Score(record[p].all) >= KillAt
  BY <1>1, <1>2 DEF EngineTyped
<1>4. Fewer
  <2>1. CASE l0 = 0
    <3>1. life' = life /\ conn' = conn
      BY <1>1, <2>1
    <3> QED BY <1>2, <3>1, SameFewer
  <2>2. CASE l0 # 0
    BY <1>1, <1>2, <1>3, <2>2, EndsFewer
  <2> QED BY <2>1, <2>2
<1>5. SystemTyped' /\ MonitorTyped' /\ BusTyped' /\ OneEach' /\ Attributed' /\ Unused' /\ StartedOnce'
  <2>1. UNCHANGED <<lives, used, deeds, knownPids, networkMonitor, bus, record, mixed>>
    BY <1>1
  <2> QED BY <1>4, <2>1, FewerOwn
<1>6. EngineTyped' /\ Excused'
  BY <1>1, <1>2 DEF Own, EngineTyped, Excused, Idle
<1>7. Convicted'
  <2>1. CASE l0 = 0
    BY <1>1, <2>1 DEF Own, Convicted
  <2>2. CASE l0 # 0
    <3>1. killed' = killed \cup {<<l0, p>>} /\ deeds' = deeds /\ mixed' = mixed
      BY <1>1, <2>2
    <3>2. p \notin mixed => l0 \in 1..MaxLives /\ Score(1 + deeds[l0]) >= KillAt
      <4>1. SUFFICES ASSUME p \notin mixed PROVE l0 \in 1..MaxLives /\ Score(1 + deeds[l0]) >= KillAt
        OBVIOUS
      <4>2. p \in used
        BY <1>2, <1>3, <2>2 DEF SystemTyped
      <4>3. PICK l \in 1..lives : OfLife(p, l) /\ Counts(p, l)
        BY <4>1, <4>2 DEF Own, Attributed
      <4>4. l = l0 /\ l \in 1..MaxLives /\ deeds[l] \in Nat
        BY <1>2, <2>2, <4>3, LifeTyped DEF OfLife
      <4>5. record[p].all - record[p].net + Count("process", p, bus) + (IF p \in knownPids THEN 0 ELSE 1) <= 1
        BY <1>3, <2>2, <4>1 DEF Own, StartedOnce, Alive
      <4>6. record[p].net + Count("network", p, bus) + Cardinality(Coming(p)) + Cardinality(InHand(p)) <= deeds[l]
        BY <4>3 DEF Counts
      <4>7. /\ record[p].net \in Nat /\ record[p].all \in Nat
            /\ Count("network", p, bus) \in Nat /\ Count("process", p, bus) \in Nat
            /\ Cardinality(Coming(p)) \in Nat /\ Cardinality(InHand(p)) \in Nat
        BY <1>2, <1>3, PartsTyped
      <4>8. record[p].all <= 1 + deeds[l]
        BY <4>4, <4>5, <4>6, <4>7
      <4>9. PICK m, n : m = record[p].all /\ n = 1 + deeds[l]
        OBVIOUS
      <4>10. m \in Nat /\ n \in Nat /\ m <= n /\ Score(m) >= KillAt
        BY <1>3, <4>4, <4>7, <4>8, <4>9
      <4>11. Score(m) \in Nat /\ Score(m) <= Score(n) /\ Score(n) \in Nat
        BY <4>10, ScoreGrows
      <4>12. Score(n) >= KillAt
        BY <4>10, <4>11, Bounds
      <4> QED BY <4>4, <4>9, <4>12
    <3>3. \A k \in killed' : k \in killed \/ (k[1] = l0 /\ k[2] = p)
      BY <3>1
    <3> QED BY <1>3, <3>1, <3>2, <3>3 DEF Own, Convicted
  <2> QED BY <2>1, <2>2
<1> QED BY <1>5, <1>6, <1>7 DEF Own, Typed

LEMMA BlockOwn == ASSUME Own, Block PROVE Own'
<1>1. /\ task.pc = "block" /\ task' = Idle
      /\ blocked' \subseteq blocked \cup {task.remote}
      /\ UNCHANGED <<lives, used, deeds, knownPids, networkMonitor, bus, record, mixed>>
      /\ life' = life /\ conn' = conn /\ killed' = killed /\ masked' = masked
  BY DEF Block, system
<1>2. SystemTyped /\ EngineTyped
  BY DEF Own, Typed
<1>3. Fewer
  BY <1>1, <1>2, SameFewer
<1>4. EngineTyped'
  BY <1>1, <1>2 DEF EngineTyped, Idle
<1>5. Convicted' /\ Excused'
  BY <1>1 DEF Own, Convicted, Excused
<1> QED BY <1>1, <1>3, <1>4, <1>5, FewerOwn DEF Own, Typed

LEMMA PollOwn == ASSUME Own, PollProcesses PROVE Own'
<1> DEFINE A == Alive \ knownPids
           B == knownPids \ Alive
           as == SetToSeq(PidEvents(A))
           bs == SetToSeq(PidEvents(B))
           es == as \o bs
<1>1. /\ Send(es) /\ knownPids' = Alive
      /\ UNCHANGED <<life, lives, used, conn, deeds, nmon, todo, found, knownKeys, inodes>>
      /\ UNCHANGED <<task, record, blocked, killed, masked, mixed>>
  BY DEF PollProcesses, PidEvents, system, networkMonitor, engine
<1>2. Typed /\ SystemTyped /\ MonitorTyped /\ BusTyped /\ EngineTyped
  BY DEF Own, Typed
<1>3. knownPids \subseteq Pids /\ Alive \subseteq used /\ used \subseteq Pids
  BY <1>2 DEF SystemTyped, MonitorTyped, Alive
<1>4. A \in SUBSET Pids /\ B \in SUBSET Pids
  BY <1>3
<1>5. A \cap B = {} /\ A \cup B \subseteq Alive \cup knownPids /\ \A p \in Alive : p \notin B /\ (p \in knownPids => p \notin A)
  OBVIOUS
<1> HIDE DEF A, B
<1>6. /\ as \in Seq(Event) /\ bs \in Seq(Event)
      /\ \A i \in DOMAIN as : as[i].kind = "process" /\ as[i].pid \in A
      /\ \A i \in DOMAIN bs : bs[i].kind = "process" /\ bs[i].pid \in B
      /\ \A p : /\ Count("network", p, as) = 0 /\ Count("network", p, bs) = 0
                /\ Count("process", p, as) <= (IF p \in A THEN 1 ELSE 0)
                /\ Count("process", p, bs) <= (IF p \in B THEN 1 ELSE 0)
  BY <1>4, PidEventsListed
<1> HIDE DEF as, bs
<1>7. es \in Seq(Event) /\ \A i \in DOMAIN es : es[i].kind = "process" /\ es[i].pid \in A \cup B
  <2>1. es \in Seq(Event) /\ Range(es) = Range(as) \cup Range(bs)
    BY <1>6, MembersOfConcat
  <2> HIDE DEF es
  <2>2. \A i \in DOMAIN es : es[i] \in Range(as) \/ es[i] \in Range(bs)
    BY <2>1 DEF Range
  <2>3. \A e \in Range(as) \cup Range(bs) : e.kind = "process" /\ e.pid \in A \cup B
    BY <1>6 DEF Range
  <2> QED BY <2>1, <2>2, <2>3
<1>8. ASSUME NEW kind, NEW p PROVE Count(kind, p, es) <= Count(kind, p, as) + Count(kind, p, bs)
  BY <1>6, CountConcat
<1>9. ASSUME NEW kind, NEW p
      PROVE Count(kind, p, es) \in Nat /\ Count(kind, p, as) \in Nat /\ Count(kind, p, bs) \in Nat
  BY <1>6, <1>7, CountNat
<1> HIDE DEF es
<1>10. ASSUME NEW p
       PROVE  /\ Count("network", p, es) = 0
              /\ p \in Alive => Count("process", p, es) <= (IF p \in knownPids THEN 0 ELSE 1)
  <2>1. Count("network", p, es) = 0
    <3>1. PICK a, b, n : a = Count("network", p, as) /\ b = Count("network", p, bs) /\ n = Count("network", p, es)
      OBVIOUS
    <3>2. n <= a + b /\ n \in Nat /\ a \in Nat /\ b \in Nat
      BY <1>8, <1>9, <3>1
    <3>3. a = 0 /\ b = 0
      BY <1>6, <3>1
    <3>4. n = 0
      BY <3>2, <3>3
    <3> QED BY <3>1, <3>4
  <2>2. ASSUME p \in Alive PROVE Count("process", p, es) <= (IF p \in knownPids THEN 0 ELSE 1)
    <3>1. p \notin B /\ (p \in knownPids => p \notin A)
      BY <1>5, <2>2
    <3>2. PICK a, b, n : a = Count("process", p, as) /\ b = Count("process", p, bs) /\ n = Count("process", p, es)
      OBVIOUS
    <3>3. n <= a + b
      BY <1>8, <3>2
    <3>4. a \in Nat /\ b \in Nat /\ n \in Nat
      BY <1>9, <3>2
    <3>5. a <= (IF p \in A THEN 1 ELSE 0) /\ b <= (IF p \in B THEN 1 ELSE 0)
      BY <1>6, <3>2
    <3>6. b <= 0 /\ a <= 1 /\ (p \in knownPids => a <= 0)
      BY <3>1, <3>4, <3>5
    <3>7. n <= 1 /\ (p \in knownPids => n <= 0)
      BY <3>3, <3>4, <3>6
    <3> QED BY <3>2, <3>7
  <2> QED BY <2>1, <2>2
<1>11. /\ bus' \in Seq(Event) /\ Len(bus') <= BusCap
       /\ \A i \in DOMAIN bus' : (\E j \in DOMAIN bus : bus'[i] = bus[j]) \/ (\E j \in DOMAIN es : bus'[i] = es[j])
       /\ \A kind, p : Count(kind, p, bus') <= Count(kind, p, bus) + Count(kind, p, es)
  BY <1>1, <1>2, <1>7, SendKeeps
<1>12. \A i \in DOMAIN bus' : \/ \E j \in DOMAIN bus : bus'[i] = bus[j]
                              \/ bus'[i].kind = "process" /\ bus'[i].pid \in Alive \cup knownPids
  BY <1>5, <1>7, <1>11
<1>13. BusTyped'
  <2>1. \A p \in Pids : p # 0
    BY ProcessesAssumption
  <2> QED BY <1>2, <1>3, <1>11, <1>12, <2>1 DEF BusTyped
<1>14. SystemTyped' /\ MonitorTyped' /\ EngineTyped'
  <2>1. knownPids' \subseteq Pids
    BY <1>1, <1>3
  <2> QED BY <1>1, <1>2, <2>1 DEF SystemTyped, MonitorTyped, EngineTyped
<1>15. OneEach' /\ Convicted' /\ Excused'
  BY <1>1 DEF Own, OneEach, RemotesOf, Convicted, Excused
<1>16. Unused'
  <2>1. SUFFICES ASSUME NEW p \in Pids \ used
                 PROVE  p \notin knownPids' /\ \A i \in DOMAIN bus' : bus'[i].pid # p
    BY <1>1 DEF Own, Unused
  <2>2. p \notin knownPids /\ p \notin Alive /\ \A i \in DOMAIN bus : bus[i].pid # p
    BY <1>3, <2>1 DEF Own, Unused
  <2> QED BY <1>1, <1>12, <2>2
<1>17. Alive' = Alive
  BY <1>1 DEF Alive
<1>18. StartedOnce'
  <2>1. SUFFICES ASSUME NEW p \in Alive \ mixed
                 PROVE  record[p].all - record[p].net + Count("process", p, bus') + 0 <= 1
    BY <1>1, <1>17 DEF StartedOnce, Count, Matching
  <2>2. record[p].all - record[p].net + Count("process", p, bus) + (IF p \in knownPids THEN 0 ELSE 1) <= 1
    BY DEF Own, StartedOnce
  <2>3. Count("process", p, bus') <= Count("process", p, bus) + Count("process", p, es)
    BY <1>11
  <2>4. Count("process", p, es) <= (IF p \in knownPids THEN 0 ELSE 1) /\ Count("process", p, es) \in Nat
    BY <1>9, <1>10
  <2>5. record[p].all \in Nat /\ record[p].net \in Nat /\ Count("process", p, bus) \in Nat /\ Count("process", p, bus') \in Nat
    BY <1>2, <1>3, <1>11, PartsTyped, CountNat
  <2> QED BY <2>2, <2>3, <2>4, <2>5
<1>19. /\ \A q : InHand(q)' = InHand(q) /\ Coming(q)' = Coming(q)
  BY <1>1 DEF WillKnow, RemotesOf, InHand, RemotesFor, Coming
<1>20. Attributed'
  <2>1. SUFFICES ASSUME NEW q \in used \ mixed PROVE \E l \in 1..lives : OfLife(q, l)' /\ Counts(q, l)'
    BY <1>1 DEF Attributed
  <2>2. PICK l \in 1..lives : OfLife(q, l) /\ Counts(q, l)
    BY DEF Own, Attributed
  <2>3. \A i \in DOMAIN bus' : (bus'[i].kind = "network" /\ bus'[i].pid = q) => bus'[i].life = l
    BY <1>12, <2>2 DEF OfLife
  <2>4. OfLife(q, l)'
    BY <1>1, <2>2, <2>3 DEF OfLife
  <2>5. PICK n, m, c, h : /\ n = Count("network", q, bus) /\ m = Count("network", q, bus')
                          /\ c = Cardinality(Coming(q)) /\ h = Cardinality(InHand(q))
    OBVIOUS
  <2>6. /\ n \in Nat /\ m \in Nat /\ c \in Nat /\ h \in Nat /\ record[q].net \in Nat /\ deeds[l] \in Nat
    BY <1>2, <1>3, <1>11, <2>5, PartsTyped, LifeTyped, CountNat
  <2>7. m <= n
    <3>1. m <= n + Count("network", q, es) /\ Count("network", q, es) = 0
      BY <1>10, <1>11, <2>5
    <3> QED BY <2>6, <3>1
  <2>8. record[q].net + n + c + h <= deeds[l]
    BY <2>2, <2>5 DEF Counts
  <2>9. record[q].net + m + c + h <= deeds[l]
    BY <2>6, <2>7, <2>8
  <2>10. Count("network", q, bus)' = m
    BY <2>5 DEF Count, Matching
  <2>11. Counts(q, l)'
    BY <1>1, <1>19, <2>5, <2>9, <2>10 DEF Counts
  <2> QED BY <2>4, <2>11
<1> QED BY <1>13, <1>14, <1>15, <1>16, <1>18, <1>20 DEF Own, Typed

LEMMA SameHands ==
  ASSUME OneEach, nmon' = nmon, todo' = todo, found' = found
  PROVE  OneEach'
BY DEF OneEach, RemotesOf

\* What both ways of receiving an event keep.
LEMMA ReceiveOwn ==
  ASSUME Own, bus # <<>>, bus' = Tail(bus), record' = Recorded(Head(bus)),
         UNCHANGED <<life, lives, used, conn, deeds, knownPids, nmon, todo, found, knownKeys, inodes, mixed>>
  PROVE  /\ SystemTyped' /\ MonitorTyped' /\ BusTyped' /\ OneEach' /\ Attributed' /\ Unused' /\ StartedOnce'
         /\ record' \in [Pids \cup {0} -> [all : Nat, net : Nat]]
         /\ \A p \in Pids \cup {0} : record'[p].net <= record'[p].all
<1> DEFINE e == Head(bus)
<1>1. Typed /\ SystemTyped /\ MonitorTyped /\ BusTyped /\ EngineTyped
  BY DEF Own, Typed
<1>2. /\ bus' \in Seq(Event) /\ Len(bus') <= BusCap /\ e \in Event
      /\ \E i \in DOMAIN bus : e = bus[i]
      /\ \A i \in DOMAIN bus' : \E j \in DOMAIN bus : bus'[i] = bus[j]
      /\ \A kind, p : Count(kind, p, bus') + (IF e.kind = kind /\ e.pid = p THEN 1 ELSE 0) <= Count(kind, p, bus)
  BY <1>1, ReceiveKeeps
<1> HIDE DEF e
<1>3. e.pid \in Pids \cup {0} /\ e.kind \in {"process", "network"}
  BY <1>2 DEF Event
<1>4. /\ record \in [Pids \cup {0} -> [all : Nat, net : Nat]]
      /\ \A p \in Pids \cup {0} : record[p].net <= record[p].all
  BY <1>1 DEF EngineTyped
<1>5. /\ record' \in [Pids \cup {0} -> [all : Nat, net : Nat]]
      /\ \A p \in Pids \cup {0} : p # e.pid => record'[p] = record[p]
      /\ record'[e.pid].all = record[e.pid].all + 1
      /\ record'[e.pid].net = IF e.kind = "network" THEN record[e.pid].net + 1 ELSE record[e.pid].net
  <2>1. record' = [record EXCEPT ![e.pid] =
                     [all |-> @.all + 1, net |-> IF e.kind = "network" THEN @.net + 1 ELSE @.net]]
    BY DEF Recorded, e
  <2>2. record[e.pid].all \in Nat /\ record[e.pid].net \in Nat
    BY <1>3, <1>4
  <2>3. [all |-> record[e.pid].all + 1,
         net |-> IF e.kind = "network" THEN record[e.pid].net + 1 ELSE record[e.pid].net] \in [all : Nat, net : Nat]
    BY <2>2
  <2>4. PICK q, row : /\ q = e.pid
                      /\ row = [all |-> record[e.pid].all + 1,
                                net |-> IF e.kind = "network" THEN record[e.pid].net + 1 ELSE record[e.pid].net]
    OBVIOUS
  <2>5. record' = [record EXCEPT ![q] = row] /\ q \in Pids \cup {0} /\ row \in [all : Nat, net : Nat]
    BY <1>3, <2>1, <2>3, <2>4
  <2>6. /\ record' \in [Pids \cup {0} -> [all : Nat, net : Nat]] /\ record'[q] = row
        /\ \A p \in Pids \cup {0} : p # q => record'[p] = record[p]
    BY <1>4, <2>5
  <2>7. /\ row.all = record[e.pid].all + 1
        /\ row.net = IF e.kind = "network" THEN record[e.pid].net + 1 ELSE record[e.pid].net
    BY <2>4
  <2> QED BY <2>4, <2>6, <2>7
<1>6. ASSUME NEW p \in Pids \cup {0}
      PROVE  /\ record'[p].net \in Nat /\ record'[p].all \in Nat /\ record'[p].net <= record'[p].all
             /\ record[p].net \in Nat /\ record[p].all \in Nat
             /\ record'[p].net = record[p].net + (IF e.kind = "network" /\ e.pid = p THEN 1 ELSE 0)
             /\ record'[p].all = record[p].all + (IF e.pid = p THEN 1 ELSE 0)
  <2>1. record'[p].net \in Nat /\ record'[p].all \in Nat /\ record[p].net \in Nat /\ record[p].all \in Nat
    BY <1>4, <1>5
  <2>2. record[p].net <= record[p].all
    BY <1>4
  <2>3. CASE p = e.pid
    <3>1. /\ record'[p].all = record[p].all + 1
          /\ record'[p].net = IF e.kind = "network" THEN record[p].net + 1 ELSE record[p].net
      BY <1>5, <2>3
    <3> QED BY <2>1, <2>2, <2>3, <3>1
  <2>4. CASE p # e.pid
    <3>1. record'[p] = record[p]
      BY <1>5, <2>4
    <3> QED BY <2>1, <2>2, <2>4, <3>1
  <2> QED BY <2>3, <2>4
<1>7. SystemTyped' /\ MonitorTyped' /\ OneEach'
  <2>1. SystemTyped' /\ MonitorTyped'
    BY <1>1 DEF SystemTyped, MonitorTyped
  <2>2. OneEach /\ nmon' = nmon /\ todo' = todo /\ found' = found
    BY DEF Own
  <2>3. OneEach'
    BY <2>2, SameHands
  <2> QED BY <2>1, <2>3
<1>8. BusTyped'
  BY <1>1, <1>2 DEF BusTyped
<1>9. Unused'
  <2>1. SUFFICES ASSUME NEW p \in Pids \ used
                 PROVE  record'[p].all = 0 /\ \A i \in DOMAIN bus' : bus'[i].pid # p
    BY DEF Own, Unused
  <2>2. record[p].all = 0 /\ \A i \in DOMAIN bus : bus[i].pid # p
    BY DEF Own, Unused
  <2>3. e.pid # p /\ \A i \in DOMAIN bus' : bus'[i].pid # p
    BY <1>2, <2>2
  <2> QED BY <1>5, <2>2, <2>3
<1>10. Alive' = Alive /\ Alive \subseteq Pids
  BY DEF Alive
<1>11. StartedOnce'
  <2>1. SUFFICES ASSUME NEW p \in Alive \ mixed
                 PROVE  record'[p].all - record'[p].net + Count("process", p, bus')
                          + (IF p \in knownPids THEN 0 ELSE 1) <= 1
    BY <1>10 DEF StartedOnce, Count, Matching
  <2>2. record[p].all - record[p].net + Count("process", p, bus) + (IF p \in knownPids THEN 0 ELSE 1) <= 1
    BY DEF Own, StartedOnce
  <2>3. PICK n, m : n = Count("process", p, bus) /\ m = Count("process", p, bus')
    OBVIOUS
  <2>4. n \in Nat /\ m \in Nat
    BY <1>1, <1>2, <2>3, CountNat DEF BusTyped
  <2>5. m + (IF e.kind = "process" /\ e.pid = p THEN 1 ELSE 0) <= n
    BY <1>2, <2>3
  <2>6. /\ record'[p].net \in Nat /\ record'[p].all \in Nat
        /\ record[p].net \in Nat /\ record[p].all \in Nat
        /\ record'[p].net = record[p].net + (IF e.kind = "network" /\ e.pid = p THEN 1 ELSE 0)
        /\ record'[p].all = record[p].all + (IF e.pid = p THEN 1 ELSE 0)
    BY <1>6, <1>10
  <2>7. PICK a, b, c, d : a = record[p].all /\ b = record[p].net /\ c = record'[p].all /\ d = record'[p].net
    OBVIOUS
  <2>8. c - d + m <= a - b + n
    <3>1. /\ a \in Nat /\ b \in Nat /\ c \in Nat /\ d \in Nat
          /\ d = b + (IF e.kind = "network" /\ e.pid = p THEN 1 ELSE 0)
          /\ c = a + (IF e.pid = p THEN 1 ELSE 0)
      BY <2>6, <2>7
    <3>2. CASE e.pid # p
      <4>1. d = b /\ c = a /\ m <= n
        BY <2>4, <2>5, <3>1, <3>2
      <4> QED BY <2>4, <3>1, <4>1
    <3>3. CASE e.pid = p /\ e.kind = "process"
      <4>1. d = b /\ c = a + 1 /\ m + 1 <= n
        BY <2>4, <2>5, <3>1, <3>3
      <4> QED BY <2>4, <3>1, <4>1
    <3>4. CASE e.pid = p /\ e.kind = "network"
      <4>1. d = b + 1 /\ c = a + 1 /\ m <= n
        BY <2>4, <2>5, <3>1, <3>4
      <4> QED BY <2>4, <3>1, <4>1
    <3> QED BY <1>3, <3>2, <3>3, <3>4
  <2>9. a \in Nat /\ b \in Nat /\ c \in Nat /\ d \in Nat /\ a - b + n + (IF p \in knownPids THEN 0 ELSE 1) <= 1
    BY <2>2, <2>3, <2>6, <2>7
  <2>10. c - d + m + (IF p \in knownPids THEN 0 ELSE 1) <= 1
    BY <2>4, <2>8, <2>9
  <2> QED BY <2>3, <2>7, <2>10
<1>12. \A q : InHand(q)' = InHand(q) /\ Coming(q)' = Coming(q)
  BY DEF WillKnow, RemotesOf, InHand, RemotesFor, Coming
<1>13. Attributed'
  <2>1. SUFFICES ASSUME NEW q \in used \ mixed PROVE \E l \in 1..lives : OfLife(q, l)' /\ Counts(q, l)'
    BY DEF Attributed
  <2>2. PICK l \in 1..lives : OfLife(q, l) /\ Counts(q, l)
    BY DEF Own, Attributed
  <2>3. \A i \in DOMAIN bus' : (bus'[i].kind = "network" /\ bus'[i].pid = q) => bus'[i].life = l
    BY <1>2, <2>2 DEF OfLife
  <2>4. OfLife(q, l)'
    BY <2>2, <2>3 DEF OfLife
  <2>5. PICK n, m, c, h, a, b : /\ n = Count("network", q, bus) /\ m = Count("network", q, bus')
                                /\ c = Cardinality(Coming(q)) /\ h = Cardinality(InHand(q))
                                /\ a = record[q].net /\ b = record'[q].net
    OBVIOUS
  <2>6. q \in Pids
    BY <1>1 DEF SystemTyped
  <2>7. /\ n \in Nat /\ m \in Nat /\ c \in Nat /\ h \in Nat /\ deeds[l] \in Nat
    BY <1>1, <1>2, <2>5, <2>6, PartsTyped, LifeTyped, CountNat
  <2>8. a \in Nat /\ b \in Nat /\ b = a + (IF e.kind = "network" /\ e.pid = q THEN 1 ELSE 0)
    BY <1>6, <2>5, <2>6
  <2>9. m + (IF e.kind = "network" /\ e.pid = q THEN 1 ELSE 0) <= n
    BY <1>2, <2>5
  <2>10. b + m <= a + n
    BY <2>7, <2>8, <2>9
  <2>11. a + n + c + h <= deeds[l]
    BY <2>2, <2>5 DEF Counts
  <2>12. b + m + c + h <= deeds[l]
    BY <2>7, <2>8, <2>10, <2>11
  <2>13. Count("network", q, bus)' = m
    BY <2>5 DEF Count, Matching
  <2>14. Counts(q, l)'
    BY <1>12, <2>5, <2>12, <2>13 DEF Counts
  <2> QED BY <2>4, <2>14
<1> QED BY <1>5, <1>6, <1>7, <1>8, <1>9, <1>11, <1>13

LEMMA ReceiveProcessOwn == ASSUME Own, ReceiveProcess PROVE Own'
<1> DEFINE e == Head(bus)
<1>1. /\ bus # <<>> /\ e.kind = "process" /\ bus' = Tail(bus) /\ record' = Recorded(e)
      /\ task' = IF Score(record'[e.pid].all) >= KillAt THEN [Idle EXCEPT !.pc = "kill", !.pid = e.pid] ELSE Idle
      /\ UNCHANGED <<life, lives, used, conn, deeds, knownPids, nmon, todo, found, knownKeys, inodes, mixed>>
      /\ UNCHANGED <<blocked, killed, masked>>
  BY DEF ReceiveProcess, system, networkMonitor
<1>2. Typed /\ BusTyped /\ EngineTyped
  BY DEF Own, Typed
<1>3. /\ SystemTyped' /\ MonitorTyped' /\ BusTyped' /\ OneEach' /\ Attributed' /\ Unused' /\ StartedOnce'
      /\ record' \in [Pids \cup {0} -> [all : Nat, net : Nat]]
      /\ \A p \in Pids \cup {0} : record'[p].net <= record'[p].all
  BY <1>1, ReceiveOwn
<1>4. e.pid \in Pids
  <2>1. e \in Event /\ \E i \in DOMAIN bus : e = bus[i]
    BY <1>1, <1>2, ReceiveKeeps
  <2> QED BY <1>1, <1>2, <2>1 DEF BusTyped, Event
<1>5. EngineTyped'
  <2>1. /\ task'.pc \in {"idle", "kill"}
        /\ task'.pc = "kill" => task'.pid = e.pid /\ Score(record'[e.pid].all) >= KillAt
    BY <1>1 DEF Idle
  <2>2. task'.pc \in {"idle", "kill", "block"} /\ task'.pc # "block"
    BY <2>1
  <2>3. blocked' \subseteq Shady
    BY <1>1, <1>2 DEF EngineTyped
  <2> QED BY <1>3, <1>4, <2>1, <2>2, <2>3 DEF EngineTyped
<1>6. Convicted' /\ Excused'
  BY <1>1 DEF Own, Convicted, Excused
<1> QED BY <1>3, <1>5, <1>6 DEF Own, Typed

LEMMA ReceiveNetworkOwn == ASSUME Own, ReceiveNetwork PROVE Own'
<1> DEFINE e == Head(bus)
           r == record'[e.pid]
<1>1. /\ bus # <<>> /\ e.kind = "network" /\ bus' = Tail(bus) /\ record' = Recorded(e)
      /\ UNCHANGED <<life, lives, used, conn, deeds, knownPids, nmon, todo, found, knownKeys, inodes, mixed>>
      /\ UNCHANGED <<blocked, killed>>
      /\ \/ task' = Idle
         \/ e.remote \in Shady /\ task' = [Idle EXCEPT !.pc = "block", !.remote = e.remote]
      /\ masked' = masked \/ (Busy(r) /\ masked' = masked \cup {<<e.life, e.pid>>})
  BY DEF ReceiveNetwork, system, networkMonitor
<1>2. Typed /\ BusTyped /\ EngineTyped
  BY DEF Own, Typed
<1>3. /\ SystemTyped' /\ MonitorTyped' /\ BusTyped' /\ OneEach' /\ Attributed' /\ Unused' /\ StartedOnce'
      /\ record' \in [Pids \cup {0} -> [all : Nat, net : Nat]]
      /\ \A p \in Pids \cup {0} : record'[p].net <= record'[p].all
  BY <1>1, ReceiveOwn
<1>4. EngineTyped'
  <2>1. /\ task'.pc \in {"idle", "block"}
        /\ task'.pc = "block" => task'.remote \in Shady
    <3>1. CASE task' = Idle
      BY <3>1 DEF Idle
    <3>2. CASE e.remote \in Shady /\ task' = [Idle EXCEPT !.pc = "block", !.remote = e.remote]
      BY <3>2 DEF Idle
    <3> QED BY <1>1, <3>1, <3>2
  <2>2. task'.pc \in {"idle", "kill", "block"} /\ task'.pc # "kill"
    BY <2>1
  <2>3. blocked' \subseteq Shady
    BY <1>1, <1>2 DEF EngineTyped
  <2> QED BY <1>3, <2>1, <2>2, <2>3 DEF EngineTyped
<1>5. Convicted'
  BY <1>1 DEF Own, Convicted
<1>6. ASSUME Busy(r), e.pid \notin mixed \cup {0}
      PROVE  e.life \in 1..MaxLives /\ deeds[e.life] > BusyOver
  <2>1. e \in Event /\ \E i \in DOMAIN bus : e = bus[i]
    BY <1>1, <1>2, ReceiveKeeps
  <2>2. e.pid \in Pids
    BY <1>6, <2>1 DEF Event
  <2>3. e.pid \in used
    BY <2>1, <2>2 DEF Own, Unused
  <2>4. PICK l \in 1..lives : OfLife(e.pid, l) /\ Counts(e.pid, l)
    BY <1>6, <2>3 DEF Own, Attributed
  <2>5. e.life = l
    BY <1>1, <2>1, <2>4 DEF OfLife
  <2>6. l \in 1..MaxLives /\ deeds[l] \in Nat
    BY <1>2, <2>4, LifeTyped
  <2>7. PICK p, n, m, c, h, a : /\ p = e.pid /\ n = Count("network", p, bus) /\ m = Count("network", p, bus')
                                /\ c = Cardinality(Coming(p)) /\ h = Cardinality(InHand(p)) /\ a = record[p].net
    OBVIOUS
  <2>8. m + 1 <= n
    <3>1. m + (IF e.kind = "network" /\ e.pid = p THEN 1 ELSE 0) <= n
      BY <1>1, <1>2, <2>7, ReceiveKeeps
    <3> QED BY <1>1, <2>7, <3>1
  <2>9. n \in Nat /\ m \in Nat /\ c \in Nat /\ h \in Nat /\ a \in Nat
    <3>1. bus' \in Seq(Event)
      BY <1>3 DEF BusTyped
    <3> QED BY <1>2, <2>2, <2>7, <3>1, PartsTyped, CountNat
  <2>10. a + n + c + h <= deeds[l]
    BY <2>4, <2>7 DEF Counts
  <2>11. a + 1 <= deeds[l]
    BY <2>6, <2>8, <2>9, <2>10
  <2>12. r.net = a + 1
    <3>1. record \in [Pids \cup {0} -> [all : Nat, net : Nat]]
      BY <1>2 DEF EngineTyped
    <3>2. record' = [record EXCEPT ![e.pid] =
                      [all |-> @.all + 1, net |-> IF e.kind = "network" THEN @.net + 1 ELSE @.net]]
      BY <1>1 DEF Recorded
    <3> QED BY <1>1, <2>2, <2>7, <3>1, <3>2
  <2>13. a + 1 > BusyOver
    BY <1>6, <2>12 DEF Busy
  <2> QED BY <2>5, <2>6, <2>9, <2>11, <2>13, Bounds
<1>7. Excused'
  <2>1. \A m \in masked' : m \in masked \/ (Busy(r) /\ m[1] = e.life /\ m[2] = e.pid)
    BY <1>1
  <2> HIDE DEF e, r
  <2> QED BY <1>1, <1>6, <2>1 DEF Own, Excused
<1> QED BY <1>3, <1>4, <1>5, <1>7 DEF Own, Typed

\* A step of the network monitor leaves the rest alone.
LEMMA MonitorOnly ==
  ASSUME Own, UNCHANGED <<life, lives, used, conn, deeds, knownPids>>,
         UNCHANGED <<task, record, blocked, killed, masked>>, mixed \subseteq mixed'
  PROVE  SystemTyped' /\ EngineTyped' /\ Convicted' /\ Excused' /\ Alive' = Alive
<1>1. SystemTyped /\ EngineTyped
  BY DEF Own, Typed
<1>2. SystemTyped' /\ Alive' = Alive
  BY <1>1 DEF SystemTyped, Alive
<1>3. EngineTyped'
  BY <1>1 DEF EngineTyped
<1>4. Convicted' /\ Excused'
  BY DEF Own, Convicted, Excused
<1> QED BY <1>2, <1>3, <1>4

\* The rows are a finite set of connections, one for each remote.
LEMMA RowsListed ==
  ASSUME SystemTyped
  PROVE  /\ SetToSeq(Rows) \in Seq(Connection)
         /\ \A i, j \in DOMAIN SetToSeq(Rows) :
              SetToSeq(Rows)[i].remote = SetToSeq(Rows)[j].remote => i = j
         /\ \A i \in DOMAIN SetToSeq(Rows) :
              \E r \in Remotes : conn[r] # None /\ conn[r].remote = r /\ SetToSeq(Rows)[i] = conn[r]
         /\ \A r \in Remotes : conn[r] # None => \E i \in DOMAIN SetToSeq(Rows) : SetToSeq(Rows)[i] = conn[r]
<1> DEFINE s == SetToSeq(Rows)
<1>1. /\ conn \in [Remotes -> Connection \cup {None}]
      /\ \A r \in Remotes : conn[r] # None => conn[r].remote = r
  BY DEF SystemTyped
<1>2. \A c \in Rows : c \in Connection /\ \E r \in Remotes : conn[r] # None /\ conn[r].remote = r /\ c = conn[r]
  BY <1>1 DEF Rows
<1>3. IsFiniteSet(Rows)
  <2>1. DOMAIN conn = Remotes /\ \A c \in Rows : \E r \in Remotes : c = conn[r]
    BY <1>1, <1>2
  <2> QED BY <2>1, ProcessesAssumption, FiniteImage
<1>4. s \in Seq(Rows) /\ Range(s) = Rows /\ \A i, j \in DOMAIN s : s[i] = s[j] => i = j
  BY <1>3, SetToSeqLists
<1> HIDE DEF s
<1>5. \A i \in DOMAIN s : s[i] \in Rows
  BY <1>4 DEF Range
<1>6. s \in Seq(Connection)
  <2>1. Len(s) \in Nat /\ DOMAIN s = 1..Len(s) /\ s = [i \in 1..Len(s) |-> s[i]]
    BY <1>4
  <2>2. \A i \in 1..Len(s) : s[i] \in Connection
    BY <1>2, <1>5, <2>1
  <2> QED BY <2>1, <2>2
<1>7. \A b, c \in Rows : b.remote = c.remote => b = c
  BY <1>2
<1>8. \A i, j \in DOMAIN s : s[i].remote = s[j].remote => i = j
  BY <1>4, <1>5, <1>7
<1>9. \A r \in Remotes : conn[r] # None => \E i \in DOMAIN s : s[i] = conn[r]
  <2>1. \A r \in Remotes : conn[r] # None => conn[r] \in Range(s)
    BY <1>4 DEF Rows
  <2> QED BY <2>1 DEF Range
<1> QED BY <1>2, <1>5, <1>6, <1>8, <1>9 DEF s

LEMMA ReadTableOwn == ASSUME Own, ReadTable PROVE Own'
<1>1. /\ nmon = "read" /\ nmon' = "resolve" /\ todo' = SetToSeq(Rows)
      /\ UNCHANGED <<life, lives, used, conn, deeds, knownPids>>
      /\ UNCHANGED <<found, knownKeys, inodes, bus, task, record, blocked, killed, masked, mixed>>
  BY DEF ReadTable, system, engine
<1>2. Typed /\ SystemTyped /\ MonitorTyped /\ BusTyped /\ EngineTyped
  BY DEF Own, Typed
<1>3. todo = <<>> /\ found = <<>>
  BY <1>1 DEF Own, OneEach
<1>4. DOMAIN todo = {} /\ DOMAIN found = {}
  BY <1>3
<1>5. /\ todo' \in Seq(Connection)
      /\ \A i, j \in DOMAIN todo' : todo'[i].remote = todo'[j].remote => i = j
      /\ \A i \in DOMAIN todo' : \E r \in Remotes : conn[r] # None /\ conn[r].remote = r /\ todo'[i] = conn[r]
      /\ \A r \in Remotes : conn[r] # None => \E i \in DOMAIN todo' : todo'[i] = conn[r]
  BY <1>1, <1>2, RowsListed
<1>6. \A i \in DOMAIN todo' : todo'[i].pid \in used
  BY <1>2, <1>5 DEF SystemTyped
<1>7. SystemTyped' /\ EngineTyped' /\ Convicted' /\ Excused' /\ Alive' = Alive
  BY <1>1, MonitorOnly
<1>8. MonitorTyped' /\ BusTyped'
  <2>1. nmon' \in {"read", "resolve"}
    BY <1>1
  <2> QED BY <1>1, <1>2, <1>5, <2>1 DEF MonitorTyped, BusTyped
<1>9. OneEach'
  <2>1. nmon' # "read" /\ found' = found
    BY <1>1
  <2>2. RemotesOf(found)' = {} /\ \A i, j \in DOMAIN found' : i = j
    BY <1>4, <2>1 DEF RemotesOf
  <2> QED BY <1>5, <2>1, <2>2 DEF OneEach
<1>10. Unused'
  BY <1>1, <1>6 DEF Own, Unused
<1>11. StartedOnce'
  BY <1>1, <1>7 DEF Own, StartedOnce, Count, Matching
<1>12. Attributed'
  <2>1. SUFFICES ASSUME NEW q \in used \ mixed PROVE \E l \in 1..lives : OfLife(q, l)' /\ Counts(q, l)'
    BY <1>1 DEF Attributed
  <2>2. q \in Pids
    BY <1>2 DEF SystemTyped
  <2>3. PICK l \in 1..lives : OfLife(q, l) /\ Counts(q, l)
    BY DEF Own, Attributed
  <2>4. \A i \in DOMAIN todo' : todo'[i].pid = q => todo'[i].life = l
    BY <1>5, <2>3 DEF OfLife
  <2>5. OfLife(q, l)'
    BY <1>1, <2>3, <2>4 DEF OfLife
  <2>6. \A r \in Remotes : conn[r] # None => r \in RemotesOf(todo)'
    BY <1>2, <1>5 DEF RemotesOf, SystemTyped
  <2>7. Coming(q)' = {}
    BY <1>1, <2>6 DEF Coming, WillKnow
  <2>8. InHand(q)' \subseteq Coming(q)
    <3>1. RemotesFor(q, found') = {}
      BY <1>1, <1>4 DEF RemotesFor
    <3>2. \A r \in RemotesFor(q, todo') : r \in Remotes /\ conn[r] # None /\ conn[r].pid = q
      BY <1>5 DEF RemotesFor
    <3>3. InHand(q)' = (RemotesFor(q, todo') \cup RemotesFor(q, found')) \ knownKeys
      BY <1>1 DEF InHand, RemotesFor
    <3>4. WillKnow = knownKeys
      BY <1>1 DEF WillKnow
    <3> QED BY <3>1, <3>2, <3>3, <3>4 DEF Coming
  <2>9. Count("network", q, bus)' = Count("network", q, bus)
    BY <1>1 DEF Count, Matching
  <2>10. PICK c, d, k, h, n : /\ c = Coming(q) /\ d = InHand(q)' /\ k = Cardinality(Coming(q)')
                              /\ h = Cardinality(InHand(q)) /\ n = Count("network", q, bus)
    OBVIOUS
  <2>11. k = 0
    BY <2>7, <2>10, FS_EmptySet
  <2>12. /\ IsFiniteSet(c) /\ Cardinality(c) \in Nat /\ h \in Nat /\ n \in Nat /\ record[q].net \in Nat
         /\ record[q].net + n + Cardinality(c) + h <= deeds[l] /\ deeds[l] \in Nat
    BY <1>2, <2>2, <2>3, <2>10, PartsTyped, LifeTyped DEF Counts
  <2>13. Cardinality(d) \in Nat /\ Cardinality(d) <= Cardinality(c)
    BY <2>8, <2>10, <2>12, FS_Subset, FS_CardinalityType
  <2>14. record[q].net + n + k + Cardinality(d) <= deeds[l]
    BY <2>11, <2>12, <2>13
  <2>15. Counts(q, l)'
    BY <1>1, <2>9, <2>10, <2>14 DEF Counts
  <2> QED BY <2>5, <2>15
<1> QED BY <1>7, <1>8, <1>9, <1>10, <1>11, <1>12 DEF Own, Typed

LEMMA InodeMapTyped ==
  ASSUME SystemTyped
  PROVE  DOMAIN InodeMap \subseteq Inodes /\ \A i \in DOMAIN InodeMap : InodeMap[i] \in used
<1>1. ASSUME NEW c \in Open PROVE c.inode \in Inodes /\ c.pid \in used
  <2>1. PICK r \in Remotes : conn[r] # None /\ c = conn[r] /\ c.inode # 0
    BY <1>1 DEF Open, Rows
  <2>2. conn[r] \in Connection /\ conn[r].pid \in used
    BY <2>1 DEF SystemTyped
  <2> QED BY <2>1, <2>2 DEF Connection
<1>2. DOMAIN InodeMap = {c.inode : c \in Open}
  BY DEF InodeMap
<1>3. ASSUME NEW i \in {c.inode : c \in Open}
      PROVE  InodeMap[i] \in used
  <2>1. (CHOOSE c \in Open : c.inode = i) \in Open
    BY <1>3
  <2>2. InodeMap[i] = (CHOOSE c \in Open : c.inode = i).pid
    BY <1>3 DEF InodeMap
  <2> QED BY <1>1, <2>1, <2>2
<1> QED BY <1>1, <1>2, <1>3

LEMMA ResolveOwn == ASSUME Own, Resolve PROVE Own'
<1> DEFINE c == Head(todo)
           map == IF c.inode \in DOMAIN inodes THEN inodes ELSE InodeMap
           p0 == IF c.inode \in DOMAIN map THEN map[c.inode] ELSE 0
           e == [kind |-> "network", pid |-> p0, remote |-> c.remote, life |-> c.life]
<1>1. /\ nmon = "resolve" /\ todo # <<>> /\ nmon' = nmon
      /\ inodes' = map /\ found' = Append(found, e) /\ todo' = Tail(todo)
      /\ mixed' = (IF p0 \in {0, c.pid} THEN mixed ELSE mixed \cup {p0})
      /\ UNCHANGED <<life, lives, used, conn, deeds, knownPids>>
      /\ UNCHANGED <<knownKeys, bus, task, record, blocked, killed, masked>>
  BY DEF Resolve, system, engine
<1>2. Typed /\ SystemTyped /\ MonitorTyped /\ BusTyped /\ EngineTyped /\ OneEach
  BY DEF Own, Typed
<1>3. todo \in Seq(Connection) /\ found \in Seq(Event)
  BY <1>2 DEF MonitorTyped
<1>4. /\ todo' \in Seq(Connection) /\ c \in Connection /\ 1 \in DOMAIN todo /\ c = todo[1]
      /\ \A i \in DOMAIN todo' : i + 1 \in DOMAIN todo /\ i + 1 # 1 /\ todo'[i] = todo[i + 1]
      /\ \A i \in DOMAIN todo : i = 1 \/ (i - 1 \in DOMAIN todo' /\ todo[i] = todo'[i - 1])
      /\ \A i, j \in DOMAIN todo' : i + 1 = j + 1 => i = j
  <2>1. /\ Len(todo) \in Nat \ {0} /\ DOMAIN todo = 1..Len(todo) /\ Tail(todo) \in Seq(Connection)
        /\ DOMAIN Tail(todo) = 1..(Len(todo) - 1) /\ Head(todo) = todo[1] /\ Head(todo) \in Connection
        /\ \A i \in 1..(Len(todo) - 1) : Tail(todo)[i] = todo[i + 1]
    <3>1. /\ Len(todo) \in Nat \ {0} /\ DOMAIN todo = 1..Len(todo) /\ Tail(todo) \in Seq(Connection)
          /\ Len(Tail(todo)) = Len(todo) - 1 /\ Head(todo) = todo[1] /\ Head(todo) \in Connection
          /\ \A i \in 1..Len(Tail(todo)) : Tail(todo)[i] = todo[i + 1]
      BY <1>1, <1>3
    <3> QED BY <3>1
  <2> QED BY <1>1, <2>1
<1>5. map = inodes \/ map = InodeMap
  OBVIOUS
<1>6. DOMAIN map \subseteq Inodes /\ \A i \in DOMAIN map : map[i] \in used
  BY <1>2, <1>5, InodeMapTyped DEF MonitorTyped
<1> HIDE DEF map
<1>7. p0 \in used \cup {0}
  BY <1>6
<1> HIDE DEF p0, c
<1>8. c.remote \in Remotes /\ c.life \in 1..MaxLives
  BY <1>4 DEF Connection
<1>9. /\ e \in Event /\ e.kind = "network" /\ e.pid = p0 /\ e.remote = c.remote /\ e.life = c.life
  <2>1. p0 \in Pids \cup {0} /\ c.life \in 0..MaxLives
    BY <1>2, <1>7, <1>8, Bounds DEF SystemTyped
  <2> QED BY <1>8, <2>1 DEF Event
<1> HIDE DEF e
<1>10. /\ found' \in Seq(Event)
       /\ \A i \in DOMAIN found' : (i \in DOMAIN found /\ found'[i] = found[i]) \/ (i = Len(found) + 1 /\ found'[i] = e)
       /\ \A i \in DOMAIN found : i \in DOMAIN found' /\ found'[i] = found[i]
       /\ Len(found) + 1 \in DOMAIN found' /\ found'[Len(found) + 1] = e
  <2>1. /\ Len(found) \in Nat /\ DOMAIN found = 1..Len(found) /\ Append(found, e) \in Seq(Event)
        /\ DOMAIN Append(found, e) = 1..(Len(found) + 1)
        /\ \A i \in 1..Len(found) : Append(found, e)[i] = found[i]
        /\ Append(found, e)[Len(found) + 1] = e
    BY <1>3, <1>9
  <2>2. \A i \in 1..(Len(found) + 1) : i \in 1..Len(found) \/ i = Len(found) + 1
    BY <2>1
  <2>3. \A i \in 1..Len(found) : i \in 1..(Len(found) + 1)
    BY <2>1
  <2>4. Len(found) + 1 \in 1..(Len(found) + 1)
    BY <2>1
  <2> QED BY <1>1, <2>1, <2>2, <2>3, <2>4
<1>11. mixed \subseteq mixed' /\ \A q : (q \notin mixed' /\ q = p0 /\ q # 0) => q = c.pid
  BY <1>1
<1>12. SystemTyped' /\ EngineTyped' /\ Convicted' /\ Excused' /\ Alive' = Alive
  BY <1>1, <1>11, MonitorOnly
<1>13. MonitorTyped' /\ BusTyped'
  <2>1. \A i \in DOMAIN found' : found'[i].kind = "network" /\ found'[i].remote \in Remotes
    BY <1>2, <1>8, <1>9, <1>10 DEF MonitorTyped
  <2>2. DOMAIN inodes' \subseteq Inodes /\ \A i \in DOMAIN inodes' : inodes'[i] \in used'
    BY <1>1, <1>6
  <2> QED BY <1>1, <1>2, <1>4, <1>10, <2>1, <2>2 DEF MonitorTyped, BusTyped
<1>14. c.remote \in RemotesOf(todo) /\ c.remote \notin RemotesOf(found)
  BY <1>2, <1>4 DEF OneEach, RemotesOf
<1>15. /\ RemotesOf(todo)' \subseteq RemotesOf(todo) /\ c.remote \notin RemotesOf(todo)'
       /\ RemotesOf(todo) \subseteq RemotesOf(todo)' \cup {c.remote}
  <2>1. \A i \in DOMAIN todo' : todo'[i].remote # c.remote
    BY <1>2, <1>4 DEF OneEach
  <2> QED BY <1>4, <2>1 DEF RemotesOf
<1>16. RemotesOf(found)' = RemotesOf(found) \cup {c.remote}
  BY <1>9, <1>10 DEF RemotesOf
<1>17. OneEach'
  <2>1. nmon' # "read"
    BY <1>1
  <2>2. \A i, j \in DOMAIN todo' : todo'[i].remote = todo'[j].remote => i = j
    BY <1>2, <1>4 DEF OneEach
  <2>3. \A i \in DOMAIN found : found[i].remote # c.remote
    BY <1>14 DEF RemotesOf
  <2>4. \A i, j \in DOMAIN found' : found'[i].remote = found'[j].remote => i = j
    BY <1>2, <1>9, <1>10, <2>3 DEF OneEach
  <2>5. RemotesOf(todo)' \cap RemotesOf(found)' = {}
    BY <1>2, <1>15, <1>16 DEF OneEach
  <2> QED BY <2>1, <2>2, <2>4, <2>5 DEF OneEach
<1>18. Unused'
  <2>1. SUFFICES ASSUME NEW p \in Pids \ used
                 PROVE  /\ \A i \in DOMAIN todo' : todo'[i].pid # p
                        /\ \A i \in DOMAIN found' : found'[i].pid # p
    BY <1>1 DEF Own, Unused
  <2>2. /\ \A i \in DOMAIN todo : todo[i].pid # p
        /\ \A i \in DOMAIN found : found[i].pid # p
    BY DEF Own, Unused
  <2>3. p # 0 /\ p0 # p
    BY <1>7, <2>1, ProcessesAssumption
  <2> QED BY <1>4, <1>9, <1>10, <2>2, <2>3
<1>19. StartedOnce'
  BY <1>1, <1>11, <1>12 DEF Own, StartedOnce, Count, Matching
<1>20. WillKnow' = WillKnow
  BY <1>1, <1>14, <1>15, <1>16 DEF WillKnow
<1>21. Attributed'
  <2>1. SUFFICES ASSUME NEW q \in used \ mixed' PROVE \E l \in 1..lives : OfLife(q, l)' /\ Counts(q, l)'
    BY <1>1 DEF Attributed
  <2>2. q \in Pids /\ q # 0 /\ q \in used \ mixed
    BY <1>2, <1>11, <2>1, ProcessesAssumption DEF SystemTyped
  <2>3. PICK l \in 1..lives : OfLife(q, l) /\ Counts(q, l)
    BY <2>2 DEF Own, Attributed
  <2>4. p0 = q => c.pid = q
    BY <1>11, <2>1, <2>2
  <2>5. c.pid = q => c.life = l
    BY <1>4, <2>3 DEF OfLife
  <2>6. \A i \in DOMAIN todo' : todo'[i].pid = q => todo'[i].life = l
    BY <1>4, <2>3 DEF OfLife
  <2>7. \A i \in DOMAIN found' : found'[i].pid = q => found'[i].life = l
    BY <1>9, <1>10, <2>3, <2>4, <2>5 DEF OfLife
  <2>8. OfLife(q, l)'
    BY <1>1, <2>3, <2>6, <2>7 DEF OfLife
  <2>9. Coming(q)' = Coming(q)
    BY <1>1, <1>20 DEF Coming
  <2>10. InHand(q)' \subseteq InHand(q)
    <3>1. RemotesFor(q, todo') \subseteq RemotesFor(q, todo)
      BY <1>4 DEF RemotesFor
    <3>2. RemotesFor(q, found') \subseteq RemotesFor(q, found) \cup RemotesFor(q, todo)
      BY <1>4, <1>9, <1>10, <2>4 DEF RemotesFor
    <3>3. InHand(q)' = (RemotesFor(q, todo') \cup RemotesFor(q, found')) \ knownKeys
      BY <1>1 DEF InHand, RemotesFor
    <3> QED BY <3>1, <3>2, <3>3 DEF InHand
  <2>11. Count("network", q, bus)' = Count("network", q, bus)
    BY <1>1 DEF Count, Matching
  <2>12. PICK c0, d, h, n : /\ h = InHand(q) /\ d = InHand(q)' /\ c0 = Cardinality(Coming(q))
                            /\ n = Count("network", q, bus)
    OBVIOUS
  <2>13. /\ IsFiniteSet(h) /\ Cardinality(h) \in Nat /\ c0 \in Nat /\ n \in Nat /\ record[q].net \in Nat
         /\ record[q].net + n + c0 + Cardinality(h) <= deeds[l] /\ deeds[l] \in Nat
    BY <1>2, <2>2, <2>3, <2>12, PartsTyped, LifeTyped DEF Counts
  <2>14. Cardinality(d) \in Nat /\ Cardinality(d) <= Cardinality(h)
    BY <2>10, <2>12, <2>13, FS_Subset, FS_CardinalityType
  <2>15. record[q].net + n + c0 + Cardinality(d) <= deeds[l]
    BY <2>13, <2>14
  <2>16. Counts(q, l)'
    BY <1>1, <2>9, <2>11, <2>12, <2>15 DEF Counts
  <2> QED BY <2>8, <2>16
<1> QED BY <1>12, <1>13, <1>17, <1>18, <1>19, <1>21 DEF Own, Typed

\* What is announced of a pid: an event for each connection in hand.
LEMMA Announced ==
  ASSUME MonitorTyped, OneEach, NEW I, I = {i \in DOMAIN found : found[i].remote \notin knownKeys}
  PROVE  /\ Chosen(found, I) \in Seq(Event)
         /\ \A k \in DOMAIN Chosen(found, I) :
              Chosen(found, I)[k].kind = "network" /\ \E i \in DOMAIN found : Chosen(found, I)[k] = found[i]
         /\ \A p : /\ Count("process", p, Chosen(found, I)) = 0
                   /\ Count("network", p, Chosen(found, I)) <= Cardinality(InHand(p))
<1> DEFINE new == Chosen(found, I)
<1>1. /\ found \in Seq(Event) /\ I \in SUBSET DOMAIN found
      /\ \A i \in DOMAIN found : found[i].kind = "network"
  BY DEF MonitorTyped
<1>2. /\ new \in Seq(Event)
      /\ \A k \in DOMAIN new : Nth(I, k) \in I /\ new[k] = found[Nth(I, k)]
      /\ \A k, m \in DOMAIN new : Nth(I, k) = Nth(I, m) => k = m
  <2>1. PICK s, J : s = found /\ J = I
    OBVIOUS
  <2>2. s \in Seq(Event) /\ J \in SUBSET DOMAIN s
    BY <1>1, <2>1
  <2>3. /\ Chosen(s, J) \in Seq(Event)
        /\ \A k \in DOMAIN Chosen(s, J) : Nth(J, k) \in J /\ Chosen(s, J)[k] = s[Nth(J, k)]
        /\ \A k, m \in DOMAIN Chosen(s, J) : Nth(J, k) = Nth(J, m) => k = m
    BY <2>2, ChosenOf
  <2> QED BY <2>1, <2>3
<1> HIDE DEF new
<1>3. \A k \in DOMAIN new : new[k].kind = "network" /\ \E i \in DOMAIN found : new[k] = found[i]
  BY <1>1, <1>2
<1>4. ASSUME NEW p PROVE Count("process", p, new) = 0
  <2>1. Matching("process", p, new) = {}
    BY <1>3 DEF Matching
  <2> QED BY <2>1, FS_EmptySet DEF Count
<1>5. ASSUME NEW p PROVE Count("network", p, new) <= Cardinality(InHand(p))
  <2> DEFINE X == Matching("network", p, new)
             f == [k \in X |-> new[k].remote]
  <2>1. IsFiniteSet(InHand(p))
    BY InHandFinite
  <2>2. \A k \in X : f[k] \in InHand(p)
    <3>1. SUFFICES ASSUME NEW k \in X PROVE new[k].remote \in InHand(p)
      OBVIOUS
    <3>2. k \in DOMAIN new /\ new[k].pid = p
      BY DEF Matching
    <3>3. Nth(I, k) \in DOMAIN found /\ found[Nth(I, k)].remote \notin knownKeys /\ new[k] = found[Nth(I, k)]
      BY <1>2, <3>2
    <3> QED BY <3>2, <3>3 DEF InHand, RemotesFor
  <2>3. \A k, m \in X : f[k] = f[m] => k = m
    <3>1. SUFFICES ASSUME NEW k \in X, NEW m \in X, new[k].remote = new[m].remote PROVE k = m
      OBVIOUS
    <3>2. k \in DOMAIN new /\ m \in DOMAIN new
      BY DEF Matching
    <3>3. Nth(I, k) \in DOMAIN found /\ Nth(I, m) \in DOMAIN found
          /\ found[Nth(I, k)].remote = found[Nth(I, m)].remote
      BY <1>1, <1>2, <3>1, <3>2
    <3>4. Nth(I, k) = Nth(I, m)
      BY <3>3 DEF OneEach
    <3> QED BY <1>2, <3>2, <3>4
  <2>4. DOMAIN f = X
    OBVIOUS
  <2> HIDE DEF f, X
  <2>5. Cardinality(X) <= Cardinality(InHand(p))
    BY <2>1, <2>2, <2>3, <2>4, FiniteInjection
  <2> QED BY <2>5 DEF Count, X
<1> QED BY <1>2, <1>3, <1>4, <1>5 DEF new

LEMMA AnnounceOwn == ASSUME Own, Announce PROVE Own'
<1> DEFINE I == {i \in DOMAIN found : found[i].remote \notin knownKeys}
           new == Chosen(found, I)
<1>1. /\ nmon = "resolve" /\ todo = <<>> /\ nmon' = "read" /\ Send(new)
      /\ knownKeys' = Networked(found) /\ found' = <<>> /\ todo' = todo /\ inodes' = inodes
      /\ UNCHANGED <<life, lives, used, conn, deeds, knownPids>>
      /\ UNCHANGED <<task, record, blocked, killed, masked, mixed>>
  BY DEF Announce, system, engine
<1>2. Typed /\ SystemTyped /\ MonitorTyped /\ BusTyped /\ EngineTyped /\ OneEach
  BY DEF Own, Typed
<1>3. /\ new \in Seq(Event)
      /\ \A k \in DOMAIN new : new[k].kind = "network" /\ \E i \in DOMAIN found : new[k] = found[i]
      /\ \A p : Count("process", p, new) = 0 /\ Count("network", p, new) <= Cardinality(InHand(p))
  BY <1>2, Announced
<1> HIDE DEF new
<1>4. /\ bus' \in Seq(Event) /\ Len(bus') <= BusCap
      /\ \A i \in DOMAIN bus' : (\E j \in DOMAIN bus : bus'[i] = bus[j]) \/ (\E j \in DOMAIN new : bus'[i] = new[j])
      /\ \A kind, p : Count(kind, p, bus') <= Count(kind, p, bus) + Count(kind, p, new)
  BY <1>1, <1>2, <1>3, SendKeeps
<1>5. \A i \in DOMAIN bus' : \/ \E j \in DOMAIN bus : bus'[i] = bus[j]
                             \/ bus'[i].kind = "network" /\ \E j \in DOMAIN found : bus'[i] = found[j]
  BY <1>3, <1>4
<1>6. SystemTyped' /\ EngineTyped' /\ Convicted' /\ Excused' /\ Alive' = Alive
  BY <1>1, MonitorOnly
<1>7. knownKeys' = RemotesOf(found)
  <2>1. \A i \in DOMAIN found : found[i].remote \in Remotes /\ found[i].remote # None
    BY <1>2, ProcessesAssumption DEF MonitorTyped
  <2> QED BY <1>1, <2>1 DEF Networked, RemotesOf
<1>8. DOMAIN todo = {} /\ DOMAIN found' = {}
  BY <1>1
<1>9. MonitorTyped'
  <2>1. knownKeys' \subseteq Remotes
    BY <1>2, <1>7 DEF MonitorTyped, RemotesOf
  <2>2. found' \in Seq(Event) /\ nmon' \in {"read", "resolve"}
    BY <1>1
  <2> QED BY <1>1, <1>2, <1>8, <2>1, <2>2 DEF MonitorTyped
<1>10. BusTyped'
  BY <1>2, <1>4, <1>5 DEF BusTyped
<1>11. OneEach'
  BY <1>1, <1>8 DEF OneEach, RemotesOf
<1>12. Unused'
  <2>1. SUFFICES ASSUME NEW p \in Pids \ used PROVE \A i \in DOMAIN bus' : bus'[i].pid # p
    BY <1>1, <1>8 DEF Own, Unused
  <2>2. (\A i \in DOMAIN found : found[i].pid # p) /\ (\A i \in DOMAIN bus : bus[i].pid # p)
    BY DEF Own, Unused
  <2> QED BY <1>5, <2>2
<1>13. StartedOnce'
  <2>1. SUFFICES ASSUME NEW p \in Alive \ mixed
                 PROVE  record[p].all - record[p].net + Count("process", p, bus')
                          + (IF p \in knownPids THEN 0 ELSE 1) <= 1
    BY <1>1, <1>6 DEF StartedOnce, Count, Matching
  <2>2. record[p].all - record[p].net + Count("process", p, bus) + (IF p \in knownPids THEN 0 ELSE 1) <= 1
    BY DEF Own, StartedOnce
  <2>3. PICK n, m, k : n = Count("process", p, bus) /\ m = Count("process", p, bus') /\ k = Count("process", p, new)
    OBVIOUS
  <2>4. m <= n + k /\ k = 0
    BY <1>3, <1>4, <2>3
  <2>5. record[p].all \in Nat /\ record[p].net \in Nat /\ n \in Nat /\ m \in Nat
    <3>1. p \in Pids
      BY DEF Alive
    <3> QED BY <1>2, <1>4, <2>3, <3>1, PartsTyped, CountNat
  <2>6. m <= n
    BY <2>4, <2>5
  <2>7. record[p].all - record[p].net + n + (IF p \in knownPids THEN 0 ELSE 1) <= 1
    BY <2>2, <2>3
  <2>8. record[p].all - record[p].net + m + (IF p \in knownPids THEN 0 ELSE 1) <= 1
    BY <2>5, <2>6, <2>7
  <2> QED BY <2>3, <2>8
<1>14. Attributed'
  <2>1. SUFFICES ASSUME NEW q \in used \ mixed PROVE \E l \in 1..lives : OfLife(q, l)' /\ Counts(q, l)'
    BY <1>1 DEF Attributed
  <2>2. q \in Pids
    BY <1>2 DEF SystemTyped
  <2>3. PICK l \in 1..lives : OfLife(q, l) /\ Counts(q, l)
    BY DEF Own, Attributed
  <2>4. \A i \in DOMAIN bus' : (bus'[i].kind = "network" /\ bus'[i].pid = q) => bus'[i].life = l
    BY <1>5, <2>3 DEF OfLife
  <2>5. OfLife(q, l)'
    BY <1>1, <1>8, <2>3, <2>4 DEF OfLife
  <2>6. WillKnow' = WillKnow
    BY <1>1, <1>7, <1>8 DEF WillKnow, RemotesOf
  <2>7. Coming(q)' = Coming(q)
    BY <1>1, <2>6 DEF Coming
  <2>8. InHand(q)' = {}
    BY <1>1, <1>8 DEF InHand, RemotesFor
  <2>9. PICK n, m, k, c, h, z : /\ n = Count("network", q, bus) /\ m = Count("network", q, bus')
                                /\ k = Count("network", q, new)
                                /\ c = Cardinality(Coming(q)) /\ h = Cardinality(InHand(q))
                                /\ z = Cardinality(InHand(q)')
    OBVIOUS
  <2>10. z = 0
    BY <2>8, <2>9, FS_EmptySet
  <2>11. m <= n + k /\ k <= h
    BY <1>3, <1>4, <2>9
  <2>12. /\ n \in Nat /\ m \in Nat /\ k \in Nat /\ c \in Nat /\ h \in Nat /\ record[q].net \in Nat
         /\ deeds[l] \in Nat
    BY <1>2, <1>3, <1>4, <2>2, <2>9, PartsTyped, LifeTyped, CountNat
  <2>13. record[q].net + n + c + h <= deeds[l]
    BY <2>3, <2>9 DEF Counts
  <2>14. record[q].net + m + c + z <= deeds[l]
    BY <2>10, <2>11, <2>12, <2>13
  <2>15. Count("network", q, bus)' = m
    BY <2>9 DEF Count, Matching
  <2>16. Counts(q, l)'
    BY <1>1, <2>7, <2>9, <2>14, <2>15 DEF Counts
  <2> QED BY <2>5, <2>16
<1> QED BY <1>6, <1>9, <1>10, <1>11, <1>12, <1>13, <1>14 DEF Own, Typed

---------------------------------------------------------------------------
(* The invariant holds                                                     *)

LEMMA InitOwn == Init => Own
<1> SUFFICES ASSUME Init PROVE Own
  OBVIOUS
<1>1. /\ life = [p \in Pids |-> IF p = 1 THEN 1 ELSE 0] /\ used = {1} /\ knownPids = {1} /\ lives = 1
      /\ conn = [r \in Remotes |-> None] /\ deeds = [l \in 1..MaxLives |-> 0]
      /\ nmon = "read" /\ todo = <<>> /\ found = <<>> /\ knownKeys = {} /\ inodes = <<>>
      /\ bus = <<>> /\ task = Idle /\ record = [p \in Pids \cup {0} |-> [all |-> 0, net |-> 0]]
      /\ blocked = {} /\ killed = {} /\ masked = {} /\ mixed = {}
  BY DEF Init
<1>2. DOMAIN todo = {} /\ DOMAIN found = {} /\ DOMAIN bus = {} /\ DOMAIN inodes = {}
  BY <1>1
<1>3. 1 \in Pids /\ 1 \in 0..MaxLives /\ 1 \in 1..MaxLives /\ 0 \in 0..MaxLives /\ 0 \in 0..MaxConnects
  BY ProcessesAssumption, Bounds
<1>4. SystemTyped
  BY <1>1, <1>3 DEF SystemTyped
<1>5. MonitorTyped
  <2>1. todo \in Seq(Connection) /\ found \in Seq(Event)
    BY <1>1
  <2> QED BY <1>1, <1>2, <1>3, <2>1 DEF MonitorTyped
<1>6. BusTyped
  <2>1. bus \in Seq(Event) /\ Len(bus) = 0
    BY <1>1
  <2> QED BY <1>2, <2>1, CapPositive DEF BusTyped
<1>7. EngineTyped
  <2>1. record \in [Pids \cup {0} -> [all : Nat, net : Nat]]
    BY <1>1
  <2>2. \A p \in Pids \cup {0} : record[p].net <= record[p].all
    BY <1>1
  <2>3. task.pc = "idle"
    BY <1>1 DEF Idle
  <2> QED BY <1>1, <2>1, <2>2, <2>3 DEF EngineTyped
<1>8. OneEach
  BY <1>1, <1>2 DEF OneEach, RemotesOf
<1>9. /\ \A p : Coming(p) = {} /\ InHand(p) = {}
      /\ \A kind, p : Matching(kind, p, bus) = {}
  BY <1>1, <1>2 DEF Coming, InHand, RemotesFor, Matching
<1>10. /\ \A p : Cardinality(Coming(p)) = 0 /\ Cardinality(InHand(p)) = 0
       /\ \A kind, p : Count(kind, p, bus) = 0
  BY <1>9, FS_EmptySet DEF Count
<1>11. Attributed
  <2>1. OfLife(1, 1)
    BY <1>1, <1>2, <1>3 DEF OfLife
  <2>2. Counts(1, 1)
    <3>1. record[1].net = 0 /\ deeds[1] = 0
      BY <1>1, <1>3
    <3> QED BY <1>10, <3>1 DEF Counts
  <2>3. 1 \in 1..lives /\ \A p \in used : p = 1
    BY <1>1
  <2> QED BY <2>1, <2>2, <2>3 DEF Attributed
<1>12. Unused
  BY <1>1, <1>2 DEF Unused
<1>13. StartedOnce
  <2>1. \A p \in Alive : p = 1
    BY <1>1 DEF Alive
  <2>2. record[1].all = 0 /\ record[1].net = 0 /\ 1 \in knownPids
    BY <1>1, <1>3
  <2> QED BY <1>10, <2>1, <2>2 DEF StartedOnce
<1>14. Convicted /\ Excused
  BY <1>1 DEF Convicted, Excused
<1> QED BY <1>4, <1>5, <1>6, <1>7, <1>8, <1>11, <1>12, <1>13, <1>14 DEF Own, Typed

LEMMA StutterOwn == ASSUME Own, UNCHANGED vars PROVE Own'
<1>1. /\ UNCHANGED <<lives, used, deeds, knownPids, networkMonitor, bus, record, mixed>>
      /\ UNCHANGED <<task, record, blocked, killed, masked, mixed>>
      /\ life' = life /\ conn' = conn
  BY DEF vars, system, engine
<1>2. Fewer
  BY <1>1, SameFewer DEF Own, Typed
<1> QED BY <1>1, <1>2, EndedOwn

LEMMA NextOwn == Own /\ [Next]_vars => Own'
<1> SUFFICES ASSUME Own, [Next]_vars PROVE Own'
  OBVIOUS
<1>1. CASE Programs
  <2>1. ASSUME NEW p \in Pids, Spawn(p) PROVE Own'
    BY <2>1, SpawnOwn
  <2>2. ASSUME NEW p \in Pids, NEW r \in Remotes, NEW i \in Inodes, Connect(p, r, i) PROVE Own'
    BY <2>2, ConnectOwn
  <2>3. ASSUME NEW p \in Pids, Exit(p) PROVE Own'
    <3>1. /\ UNCHANGED <<lives, used, deeds, knownPids, networkMonitor, bus, record, mixed>>
          /\ UNCHANGED <<task, record, blocked, killed, masked, mixed>> /\ Ends(p)
      BY <2>3 DEF Exit, engine
    <3> QED BY <3>1, EndsFewer, EndedOwn DEF Own, Typed
  <2>4. ASSUME NEW r \in Remotes, Close(r) \/ Expire(r) PROVE Own'
    <3>1. /\ UNCHANGED <<lives, used, deeds, knownPids, networkMonitor, bus, record, mixed>>
          /\ UNCHANGED <<task, record, blocked, killed, masked, mixed>>
      BY <2>4 DEF Close, Expire, engine
    <3>2. Fewer
      BY <2>4, CloseFewer DEF Own, Typed
    <3> QED BY <3>1, <3>2, EndedOwn
  <2> QED BY <1>1, <2>1, <2>2, <2>3, <2>4 DEF Programs
<1>2. CASE PollProcesses
  BY <1>2, PollOwn
<1>3. CASE NetworkMonitor
  BY <1>3, ReadTableOwn, ResolveOwn, AnnounceOwn DEF NetworkMonitor
<1>4. CASE Processor
  BY <1>4, ReceiveProcessOwn, ReceiveNetworkOwn, KillOwn, BlockOwn DEF Processor
<1>5. CASE UNCHANGED vars
  BY <1>5, StutterOwn
<1> QED BY <1>1, <1>2, <1>3, <1>4, <1>5 DEF Next

\* The invariant says what is promised.
LEMMA OwnSays == Own => TypeOK /\ Innocent /\ Masked
<1> SUFFICES ASSUME Own PROVE TypeOK /\ Innocent /\ Masked
  OBVIOUS
<1>1. SystemTyped /\ MonitorTyped /\ BusTyped /\ EngineTyped /\ Convicted /\ Excused
  BY DEF Own, Typed
<1>2. /\ \A r \in Remotes : conn[r] # None => conn[r] \in Connection /\ conn[r].remote = r
      /\ life \in [Pids -> 0..MaxLives] /\ lives \in 0..MaxLives /\ used \subseteq Pids
      /\ deeds \in [1..MaxLives -> 0..MaxConnects]
  BY <1>1 DEF SystemTyped
<1>3. /\ knownPids \subseteq Pids /\ nmon \in {"read", "resolve"} /\ todo \in Seq(Connection)
      /\ \A i \in DOMAIN found : found[i] \in Event
      /\ knownKeys \subseteq Remotes
      /\ DOMAIN inodes \subseteq Inodes /\ \A i \in DOMAIN inodes : inodes[i] \in used
  BY <1>1 DEF MonitorTyped
<1>4. bus \in Seq(Event) /\ Len(bus) <= BusCap
  BY <1>1 DEF BusTyped
<1>5. /\ task.pc \in {"idle", "kill", "block"} /\ (task.pc = "kill" => task.pid # 0)
      /\ record \in [Pids \cup {0} -> [all : Nat, net : Nat]]
      /\ \A p \in DOMAIN record : record[p].net <= record[p].all
      /\ blocked \subseteq Shady
  <2>1. \A p \in Pids : p # 0
    BY ProcessesAssumption
  <2> QED BY <1>1, <2>1 DEF EngineTyped
<1>6. {k[2] : k \in killed} \subseteq Pids
  BY <1>1 DEF Convicted
<1>7. TypeOK
  BY <1>2, <1>3, <1>4, <1>5, <1>6 DEF TypeOK
<1>8. Innocent /\ Masked
  BY <1>1 DEF Convicted, Excused, Innocent, Masked
<1> QED BY <1>7, <1>8

LEMMA OwnAlways == Spec => []Own
BY InitOwn, NextOwn, PTL DEF Spec

---------------------------------------------------------------------------
\* Every value the system, the monitors, the bus and the engine hold is of its kind,
\* for any number of pids, addresses and connections: the number of events on the
\* bus stays below its capacity, a kill always has a pid, and only suspicious
\* addresses are blocked.
THEOREM ProcessTypes == Spec => []TypeOK
BY OwnAlways, OwnSays, PTL

\* A process is killed only for its own start and the connections it opened, unless
\* its pid had another life before or a stale inode gave it a connection of another
\* process (behavior_engine.rs:55, network.rs:179).
THEOREM KilledForItsOwn == Spec => []Innocent
BY OwnAlways, OwnSays, PTL

\* A suspicious port is passed over only for a process that has opened too many
\* connections itself, unless its pid is unknown or not its own
\* (behavior_engine.rs:152).
THEOREM MaskedByItsOwn == Spec => []Masked
BY OwnAlways, OwnSays, PTL

=============================================================================
