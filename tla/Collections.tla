----------------------------- MODULE Collections -----------------------------
(***************************************************************************)
(* Lemmas about finite sets, sequences and sums that the proofs share.       *)
(*                                                                         *)
(* A sum is that of a function over the parts of a finite set, as             *)
(* MapThenSumSet and FoldFunction take it: the element added first is one     *)
(* that CHOOSE picks.  A sum exists, there is one only, and it does not       *)
(* depend on that choice.                                                   *)
(***************************************************************************)
EXTENDS Selection, Sequences, SequencesExt, FiniteSetTheorems, SequenceTheorems,
        WellFoundedInduction, TLAPS

---------------------------------------------------------------------------
(* Finite sets                                                             *)

\* What a function makes of a finite set.
LEMMA FiniteImage ==
  ASSUME NEW X, IsFiniteSet(X), NEW f, DOMAIN f = X, NEW Y, \A y \in Y : \E x \in X : y = f[x]
  PROVE  IsFiniteSet(Y) /\ Cardinality(Y) <= Cardinality(X)
<1> DEFINE Z == {x \in X : f[x] \in Y}
           g == [x \in Z |-> f[x]]
<1>1. Z \in SUBSET X
  OBVIOUS
<1>2. g \in Surjection(Z, Y)
  BY DEF Surjection
<1> HIDE DEF Z, g
<1>3. IsFiniteSet(Z) /\ Cardinality(Z) <= Cardinality(X)
  BY <1>1, FS_Subset
<1>4. IsFiniteSet(Y) /\ Cardinality(Y) <= Cardinality(Z)
  BY <1>2, <1>3, FS_Surjection
<1>5. Cardinality(X) \in Nat /\ Cardinality(Y) \in Nat /\ Cardinality(Z) \in Nat
  BY <1>3, <1>4, FS_CardinalityType
<1> QED BY <1>3, <1>4, <1>5

\* What differs under f is no more than what f gives.
LEMMA FiniteInjection ==
  ASSUME NEW Y, IsFiniteSet(Y), NEW X, NEW f, DOMAIN f = X, \A x \in X : f[x] \in Y,
         \A x, z \in X : f[x] = f[z] => x = z
  PROVE  IsFiniteSet(X) /\ Cardinality(X) <= Cardinality(Y)
<1> DEFINE g == [x \in X |-> f[x]]
<1>1. g \in Injection(X, Y)
  BY DEF Injection, IsInjective
<1> HIDE DEF g
<1> QED BY <1>1, FS_Injection

LEMMA CountOfUnion ==
  ASSUME NEW A, IsFiniteSet(A), NEW B, IsFiniteSet(B), NEW Y, Y \subseteq A \cup B
  PROVE  IsFiniteSet(Y) /\ Cardinality(Y) <= Cardinality(A) + Cardinality(B)
<1>1. IsFiniteSet(A \cup B) /\ Cardinality(A \cup B) = Cardinality(A) + Cardinality(B) - Cardinality(A \cap B)
  BY FS_Union
<1>2. IsFiniteSet(A \cap B)
  BY FS_Intersection
<1>3. IsFiniteSet(Y) /\ Cardinality(Y) <= Cardinality(A \cup B)
  BY <1>1, FS_Subset
<1>4. /\ Cardinality(A) \in Nat /\ Cardinality(B) \in Nat /\ Cardinality(A \cap B) \in Nat
      /\ Cardinality(Y) \in Nat
  BY <1>2, <1>3, FS_CardinalityType
<1> QED BY <1>1, <1>3, <1>4

\* The members of finitely many finite sets.
LEMMA FiniteFamily ==
  ASSUME NEW X, IsFiniteSet(X), NEW f, DOMAIN f = X, \A x \in X : IsFiniteSet(f[x]),
         NEW Y, \A y \in Y : \E x \in X : y \in f[x]
  PROVE  IsFiniteSet(Y)
<1> DEFINE F == {f[x] : x \in X}
<1>1. IsFiniteSet(F)
  BY FiniteImage
<1>2. \A T \in F : IsFiniteSet(T)
  OBVIOUS
<1>3. Y \in SUBSET UNION F
  OBVIOUS
<1> HIDE DEF F
<1> QED BY <1>1, <1>2, <1>3, FS_UNION, FS_Subset

LEMMA CountFinite == \A k \in Nat : IsFiniteSet(1..k)
<1>1. ASSUME NEW k \in Nat PROVE IsFiniteSet(1..k)
  <2>1. 1 \in Int /\ k \in Int
    OBVIOUS
  <2> QED BY <2>1, FS_Interval
<1> QED BY <1>1

\* The k-th element of a finite set of numbers is in it, and is the k-th.
LEMMA NthIsThere ==
  ASSUME NEW I, I \subseteq Int, IsFiniteSet(I), NEW k \in 1..Cardinality(I)
  PROVE  Nth(I, k) \in I /\ Cardinality({j \in I : j <= Nth(I, k)}) = k
<1> DEFINE upto(i) == {j \in I : j <= i}
           n == Cardinality(I)
           rank == [i \in I |-> Cardinality(upto(i))]
<1>0. n \in Nat
  BY FS_CardinalityType
<1>1. ASSUME NEW i \in I PROVE IsFiniteSet(upto(i)) /\ Cardinality(upto(i)) \in 1..n
  <2>1. upto(i) \subseteq I /\ {i} \subseteq upto(i)
    OBVIOUS
  <2> HIDE DEF upto
  <2>2. IsFiniteSet(upto(i)) /\ Cardinality(upto(i)) <= n /\ Cardinality(upto(i)) \in Nat
    BY <2>1, FS_Subset, FS_CardinalityType
  <2>3. Cardinality({i}) <= Cardinality(upto(i)) /\ Cardinality({i}) = 1
    BY <2>1, <2>2, FS_Subset, FS_Singleton
  <2> QED BY <1>0, <2>2, <2>3
<1>2. ASSUME NEW i \in I, NEW j \in I, rank[i] = rank[j] PROVE i = j
  <2>1. Cardinality(upto(i)) = Cardinality(upto(j))
    BY <1>2
  <2>2. upto(i) \subseteq upto(j) \/ upto(j) \subseteq upto(i)
    <3>1. (i <= j \/ j <= i) /\ i \in Int /\ j \in Int
      OBVIOUS
    <3>2. ASSUME NEW a \in I, NEW b \in I, a <= b, NEW c \in upto(a) PROVE c \in upto(b)
      <4>1. a \in Int /\ b \in Int /\ c \in Int /\ c \in I /\ c <= a
        OBVIOUS
      <4>2. c <= b
        BY <3>2, <4>1
      <4> QED BY <4>1, <4>2
    <3> HIDE DEF upto
    <3> QED BY <3>1, <3>2
  <2>3. i \in upto(i) /\ j \in upto(j)
    OBVIOUS
  <2>4. upto(i) = upto(j)
    <3> HIDE DEF upto
    <3> QED BY <1>1, <2>1, <2>2, FS_Subset
  <2>5. i <= j /\ j <= i
    BY <2>3, <2>4
  <2> QED BY <2>5
<1>3. rank \in Injection(I, 1..n)
  <2>1. rank \in [I -> 1..n]
    BY <1>1
  <2> HIDE DEF rank
  <2> QED BY <1>2, <2>1 DEF Injection, IsInjective
<1>4. IsFiniteSet(1..n) /\ Cardinality(1..n) = n
  BY <1>0, FS_Interval
<1>5. rank \in Surjection(I, 1..n)
  <2> HIDE DEF rank
  <2> QED BY <1>3, <1>4, FS_Injection
<1>6. \E i \in I : rank[i] = k
  <2> HIDE DEF rank
  <2> QED BY <1>5 DEF Surjection
<1> QED BY <1>6 DEF Nth

---------------------------------------------------------------------------
(* Sequences                                                               *)

\* SetToSeq lists the elements of a finite set once, and nothing else.
LEMMA SetToSeqLists ==
  ASSUME NEW S, IsFiniteSet(S)
  PROVE  /\ SetToSeq(S) \in Seq(S) /\ Range(SetToSeq(S)) = S
         /\ \A i, j \in DOMAIN SetToSeq(S) : SetToSeq(S)[i] = SetToSeq(S)[j] => i = j
<1> DEFINE n == Cardinality(S)
           f == SetToSeq(S)
<1>1. n \in Nat /\ ExistsBijection(1..n, S)
  BY FS_CardinalityType
<1>2. PICK g : g \in Bijection(1..n, S)
  BY <1>1 DEF ExistsBijection
<1>3. g \in [1..n -> S] /\ IsInjective(g)
  BY <1>2 DEF Bijection, Injection, IsInjective
<1>4. f \in [1..n -> S] /\ IsInjective(f)
  BY <1>3 DEF SetToSeq
<1>5. f \in Injection(1..n, S)
  BY <1>4 DEF Injection
<1>6. Cardinality(1..n) = n
  BY <1>1, FS_Interval
<1> HIDE DEF f
<1>7. f \in Surjection(1..n, S)
  BY <1>5, <1>6, FS_Injection
<1>8. Range(f) = S
  BY <1>4, <1>7 DEF Surjection, Range
<1>9. \A i, j \in DOMAIN f : f[i] = f[j] => i = j
  BY <1>4 DEF IsInjective
<1> QED BY <1>1, <1>4, <1>8, <1>9 DEF f

\* The members of a sequence are its head and those of its tail.
LEMMA MembersOfTail ==
  ASSUME NEW S, NEW s \in Seq(S), s # <<>>
  PROVE  /\ Tail(s) \in Seq(S) /\ Head(s) \in S
         /\ Range(s) = {Head(s)} \cup Range(Tail(s))
<1>1. /\ Tail(s) \in Seq(S) /\ Head(s) \in S /\ Len(Tail(s)) = Len(s) - 1 /\ Head(s) = s[1]
      /\ Len(s) \in Nat \ {0}
      /\ \A i \in 1..Len(Tail(s)) : Tail(s)[i] = s[i + 1]
  OBVIOUS
<1>2. DOMAIN s = 1..Len(s) /\ DOMAIN Tail(s) = 1..Len(Tail(s))
  BY <1>1
<1>3. \A i \in 1..Len(s) : s[i] \in {Head(s)} \cup Range(Tail(s))
  <2>1. SUFFICES ASSUME NEW i \in 1..Len(s), i # 1 PROVE s[i] \in Range(Tail(s))
    BY <1>1
  <2>2. i - 1 \in 1..Len(Tail(s)) /\ Tail(s)[i - 1] = s[i]
    BY <1>1, <2>1
  <2> QED BY <1>2, <2>2 DEF Range
<1>4. \A i \in 1..Len(Tail(s)) : Tail(s)[i] \in Range(s)
  BY <1>1, <1>2 DEF Range
<1>5. Head(s) \in Range(s)
  BY <1>1, <1>2 DEF Range
<1> QED BY <1>1, <1>2, <1>3, <1>4, <1>5 DEF Range

\* The members of a concatenation are those of its parts.
LEMMA MembersOfConcat ==
  ASSUME NEW S, NEW s \in Seq(S), NEW t \in Seq(S)
  PROVE  s \o t \in Seq(S) /\ Range(s \o t) = Range(s) \cup Range(t)
<1>1. /\ s \o t \in Seq(S) /\ Len(s \o t) = Len(s) + Len(t)
      /\ \A i \in 1..(Len(s) + Len(t)) :
           (s \o t)[i] = IF i <= Len(s) THEN s[i] ELSE t[i - Len(s)]
  BY ConcatProperties
<1>2. /\ Len(s) \in Nat /\ Len(t) \in Nat /\ DOMAIN s = 1..Len(s) /\ DOMAIN t = 1..Len(t)
      /\ DOMAIN (s \o t) = 1..(Len(s) + Len(t))
  BY <1>1
<1>3. \A i \in 1..(Len(s) + Len(t)) : (s \o t)[i] \in Range(s) \cup Range(t)
  <2>1. SUFFICES ASSUME NEW i \in 1..(Len(s) + Len(t)) PROVE (s \o t)[i] \in Range(s) \cup Range(t)
    OBVIOUS
  <2>2. CASE i <= Len(s)
    <3>1. i \in DOMAIN s /\ (s \o t)[i] = s[i]
      BY <1>1, <1>2, <2>2
    <3> QED BY <3>1 DEF Range
  <2>3. CASE ~(i <= Len(s))
    <3>1. i - Len(s) \in DOMAIN t /\ (s \o t)[i] = t[i - Len(s)]
      BY <1>1, <1>2, <2>3
    <3> QED BY <3>1 DEF Range
  <2> QED BY <2>2, <2>3
<1>4. \A i \in DOMAIN s : i \in DOMAIN (s \o t) /\ (s \o t)[i] = s[i]
  BY <1>1, <1>2
<1>5. \A i \in DOMAIN t : Len(s) + i \in DOMAIN (s \o t) /\ (s \o t)[Len(s) + i] = t[i]
  BY <1>1, <1>2
<1>6. Range(s \o t) \subseteq Range(s) \cup Range(t)
  BY <1>2, <1>3 DEF Range
<1>7. Range(s) \subseteq Range(s \o t) /\ Range(t) \subseteq Range(s \o t)
  BY <1>4, <1>5 DEF Range
<1> QED BY <1>1, <1>6, <1>7

\* ... and of a sequence with one more element, all the old ones and the new one.
LEMMA MembersOfAppend ==
  ASSUME NEW S, NEW s \in Seq(S), NEW e \in S
  PROVE  Append(s, e) \in Seq(S) /\ Range(Append(s, e)) = Range(s) \cup {e}
<1>1. Append(s, e) = s \o <<e>> /\ <<e>> \in Seq(S)
  BY AppendIsConcat
<1>2. DOMAIN <<e>> = {1} /\ <<e>>[1] = e
  OBVIOUS
<1>3. Range(<<e>>) = {e}
  BY <1>2 DEF Range
<1>4. Range(s \o <<e>>) = Range(s) \cup Range(<<e>>) /\ s \o <<e>> \in Seq(S)
  BY <1>1, MembersOfConcat
<1> QED BY <1>1, <1>3, <1>4

\* s is a sequence, of whatever.
IsListed(s) == s \in Seq(Range(s))

LEMMA ListedOfSeq == ASSUME NEW S, NEW s \in Seq(S) PROVE IsListed(s)
<1>1. Len(s) \in Nat /\ DOMAIN s = 1..Len(s) /\ s = [i \in 1..Len(s) |-> s[i]]
  OBVIOUS
<1>2. \A i \in 1..Len(s) : s[i] \in Range(s)
  BY <1>1 DEF Range
<1> QED BY <1>1, <1>2 DEF IsListed

\* What is chosen of a sequence are elements of it, from different places.
LEMMA ChosenOf ==
  ASSUME NEW S, NEW s \in Seq(S), NEW I \in SUBSET DOMAIN s
  PROVE  /\ Chosen(s, I) \in Seq(S) /\ DOMAIN Chosen(s, I) = 1..Cardinality(I)
         /\ \A k \in DOMAIN Chosen(s, I) : Nth(I, k) \in I /\ Chosen(s, I)[k] = s[Nth(I, k)]
         /\ \A k, m \in DOMAIN Chosen(s, I) : Nth(I, k) = Nth(I, m) => k = m
<1>1. DOMAIN s = 1..Len(s) /\ Len(s) \in Nat /\ \A i \in DOMAIN s : s[i] \in S
  OBVIOUS
<1>2. IsFiniteSet(I) /\ I \subseteq Int
  <2>1. IsFiniteSet(1..Len(s)) /\ 1..Len(s) \subseteq Int
    BY <1>1, CountFinite
  <2> QED BY <1>1, <2>1, FS_Subset
<1>3. Cardinality(I) \in Nat
  BY <1>2, FS_CardinalityType
<1> DEFINE n == Cardinality(I)
<1>4. \A k \in 1..n : Nth(I, k) \in I /\ Cardinality({j \in I : j <= Nth(I, k)}) = k
  BY <1>2, NthIsThere
<1>5. ASSUME NEW k \in 1..n, NEW m \in 1..n, Nth(I, k) = Nth(I, m) PROVE k = m
  <2> DEFINE c(i) == Cardinality({j \in I : j <= i})
  <2>1. c(Nth(I, k)) = k /\ c(Nth(I, m)) = m
    BY <1>4
  <2> HIDE DEF c
  <2> QED BY <1>5, <2>1
<1> DEFINE t == Chosen(s, I)
<1>6. t = [k \in 1..n |-> s[Nth(I, k)]]
  BY DEF Chosen
<1> HIDE DEF t, n
<1>7. \A k \in 1..n : s[Nth(I, k)] \in S
  BY <1>1, <1>4
<1>8. t \in Seq(S)
  BY <1>3, <1>6, <1>7 DEF n
<1>9. DOMAIN t = 1..n
  BY <1>6
<1> QED BY <1>4, <1>5, <1>6, <1>8, <1>9 DEF t, n

---------------------------------------------------------------------------
(* Sums                                                                    *)

Picked(s) == CHOOSE x \in s : TRUE

\* f holds the sum of g over each part of S.
Sums(f, g, S) ==
  f = [s \in SUBSET S |-> IF s = {} THEN 0 ELSE g[Picked(s)] + f[s \ {Picked(s)}]]

\* The least part of a finite set with a property that some part has.
LEMMA LeastPart ==
  ASSUME NEW S, IsFiniteSet(S), NEW B, B \subseteq SUBSET S, B # {}
  PROVE  \E s \in B : \A t \in B : t \subseteq s => t = s
<1>1. IsWellFoundedOn(StrictSubsetOrdering(S), SUBSET S)
  BY FS_StrictSubsetOrderingWellFounded, FS_FiniteSubsetsOfFinite
<1>2. PICK s \in B : \A t \in B : ~(<<t, s>> \in StrictSubsetOrdering(S))
  BY <1>1, WFMin
<1>3. ASSUME NEW t \in B, t \subseteq s, t # s PROVE FALSE
  <2>1. t \in SUBSET S /\ s \in SUBSET S
    OBVIOUS
  <2>2. <<t, s>> \in StrictSubsetOrdering(S)
    BY <1>3, <2>1 DEF StrictSubsetOrdering
  <2> QED BY <1>2, <2>2
<1> QED BY <1>2, <1>3

LEMMA PickedIn == ASSUME NEW s, s # {} PROVE Picked(s) \in s
BY DEF Picked

\* There is one sum at most.
LEMMA SumUnique ==
  ASSUME NEW S, IsFiniteSet(S), NEW g, NEW f, NEW h, Sums(f, g, S), Sums(h, g, S)
  PROVE  f = h
<1> DEFINE B == {s \in SUBSET S : f[s] # h[s]}
<1>1. /\ DOMAIN f = SUBSET S /\ f = [s \in SUBSET S |-> f[s]]
      /\ DOMAIN h = SUBSET S /\ h = [s \in SUBSET S |-> h[s]]
  BY DEF Sums
<1>2. ASSUME B # {} PROVE FALSE
  <2>0. B \subseteq SUBSET S
    OBVIOUS
  <2> HIDE DEF B
  <2>1. PICK s \in B : \A t \in B : t \subseteq s => t = s
    BY <1>2, <2>0, LeastPart
  <2> USE DEF B
  <2>2. CASE s = {}
    <3>1. f[s] = 0 /\ h[s] = 0
      BY <2>2 DEF Sums
    <3> QED BY <3>1
  <2>3. CASE s # {}
    <3> DEFINE x == Picked(s)
    <3>1. x \in s
      BY <2>3, PickedIn
    <3>2. f[s] = g[x] + f[s \ {x}] /\ h[s] = g[x] + h[s \ {x}]
      BY <2>3 DEF Sums
    <3> HIDE DEF x
    <3>3. s \ {x} \notin B
      BY <2>1, <3>1
    <3>4. f[s \ {x}] = h[s \ {x}]
      BY <3>3
    <3> QED BY <3>2, <3>4
  <2> QED BY <2>2, <2>3
<1>3. \A s \in SUBSET S : f[s] = h[s]
  BY <1>2
<1> QED BY <1>1, <1>3

\* The sums over the parts of a part are the same.
LEMMA SumOfPart ==
  ASSUME NEW S, NEW T, T \subseteq S, NEW g, NEW f, Sums(f, g, S)
  PROVE  Sums([s \in SUBSET T |-> f[s]], g, T)
<1> DEFINE h == [s \in SUBSET T |-> f[s]]
<1>1. ASSUME NEW s \in SUBSET T
      PROVE  h[s] = IF s = {} THEN 0 ELSE g[Picked(s)] + h[s \ {Picked(s)}]
  <2>1. s \in SUBSET S /\ s \ {Picked(s)} \in SUBSET T
    OBVIOUS
  <2>2. h[s] = f[s] /\ h[s \ {Picked(s)}] = f[s \ {Picked(s)}]
    BY <2>1
  <2>3. f[s] = IF s = {} THEN 0 ELSE g[Picked(s)] + f[s \ {Picked(s)}]
    BY <2>1 DEF Sums
  <2> QED BY <2>2, <2>3
<1>2. h = [s \in SUBSET T |-> h[s]]
  OBVIOUS
<1> HIDE DEF h
<1>3. h = [s \in SUBSET T |-> IF s = {} THEN 0 ELSE g[Picked(s)] + h[s \ {Picked(s)}]]
  BY <1>1, <1>2
<1> QED BY <1>3 DEF Sums, h

\* What is added up is natural, and so is the sum.
LEMMA SumNat ==
  ASSUME NEW S, IsFiniteSet(S), NEW g, \A x \in S : g[x] \in Nat, NEW f, Sums(f, g, S)
  PROVE  f \in [SUBSET S -> Nat]
<1> DEFINE B == {s \in SUBSET S : f[s] \notin Nat}
<1>1. f = [s \in SUBSET S |-> f[s]]
  BY DEF Sums
<1>2. ASSUME B # {} PROVE FALSE
  <2>0. B \subseteq SUBSET S
    OBVIOUS
  <2> HIDE DEF B
  <2>1. PICK s \in B : \A t \in B : t \subseteq s => t = s
    BY <1>2, <2>0, LeastPart
  <2> USE DEF B
  <2>2. s # {}
    BY DEF Sums
  <2> DEFINE x == Picked(s)
  <2>3. x \in s /\ f[s] = g[x] + f[s \ {x}]
    BY <2>2, PickedIn DEF Sums
  <2> HIDE DEF x
  <2>4. s \ {x} \notin B
    BY <2>1, <2>3
  <2>5. f[s \ {x}] \in Nat /\ g[x] \in Nat
    BY <2>3, <2>4
  <2>6. f[s] \in Nat
    BY <2>3, <2>5
  <2> QED BY <2>6
<1> QED BY <1>1, <1>2

LEMMA SumExists ==
  ASSUME NEW S, IsFiniteSet(S), NEW g
  PROVE  \E f : Sums(f, g, S)
<1> DEFINE Has(T) == \E f : Sums(f, g, T)
           B == {T \in SUBSET S : ~Has(T)}
           Of(T) == CHOOSE f : Sums(f, g, T)
<1>1. ASSUME B # {} PROVE FALSE
  <2>1. B \subseteq SUBSET S
    OBVIOUS
  <2> HIDE DEF B
  <2>2. PICK T \in B : \A t \in B : t \subseteq T => t = T
    BY <1>1, <2>1, LeastPart
  <2>3. ~Has(T) /\ T \in SUBSET S /\ IsFiniteSet(T)
    BY <2>2, FS_Subset DEF B
  <2>4. ASSUME NEW s \in SUBSET T, s # T PROVE Sums(Of(s), g, s)
    <3>1. s \notin B /\ s \in SUBSET S
      BY <2>2, <2>3, <2>4
    <3>2. Has(s)
      BY <3>1 DEF B
    <3> QED BY <3>2
  <2> HIDE DEF Has
  <2>5. ASSUME NEW s \in SUBSET T, s # T, NEW t \in SUBSET s PROVE Of(s)[t] = Of(t)[t]
    <3>1. Sums(Of(s), g, s) /\ Sums(Of(t), g, t) /\ t \subseteq s
      <4>1. t \in SUBSET T /\ t # T /\ t \subseteq s
        BY <2>5
      <4> QED BY <2>4, <2>5, <4>1
    <3> HIDE DEF Of
    <3>2. PICK a, b : a = Of(s) /\ b = Of(t)
      OBVIOUS
    <3>3. Sums(a, g, s) /\ Sums(b, g, t) /\ t \subseteq s
      BY <3>1, <3>2
    <3>4. Sums([u \in SUBSET t |-> a[u]], g, t)
      BY <3>3, SumOfPart
    <3>5. IsFiniteSet(t)
      BY <2>3, <2>5, FS_Subset
    <3>6. [u \in SUBSET t |-> a[u]] = b
      BY <3>3, <3>4, <3>5, SumUnique
    <3>7. t \in SUBSET t
      OBVIOUS
    <3>8. a[t] = b[t]
      BY <3>6, <3>7
    <3> QED BY <3>2, <3>8
  <2> DEFINE w(s) == IF s = {} THEN 0
                     ELSE g[Picked(s)] + Of(s \ {Picked(s)})[s \ {Picked(s)}]
             f == [s \in SUBSET T |-> w(s)]
  <2>6. ASSUME NEW s \in SUBSET T, s # T PROVE f[s] = Of(s)[s]
    <3>1. Sums(Of(s), g, s)
      BY <2>4, <2>6
    <3>2. Of(s)[s] = IF s = {} THEN 0 ELSE g[Picked(s)] + Of(s)[s \ {Picked(s)}]
      <4> HIDE DEF Of
      <4>1. s \in SUBSET s
        OBVIOUS
      <4> QED BY <3>1, <4>1 DEF Sums
    <3>3. Of(s)[s \ {Picked(s)}] = Of(s \ {Picked(s)})[s \ {Picked(s)}]
      <4>1. s \ {Picked(s)} \in SUBSET s
        OBVIOUS
      <4> HIDE DEF Of
      <4> QED BY <2>5, <2>6, <4>1
    <3> HIDE DEF Of
    <3> QED BY <3>2, <3>3
  <2> HIDE DEF Of
  <2>7. ASSUME NEW s \in SUBSET T
        PROVE  f[s] = IF s = {} THEN 0 ELSE g[Picked(s)] + f[s \ {Picked(s)}]
    <3>1. CASE s = {}
      BY <3>1
    <3>2. CASE s # {}
      <4> DEFINE x == Picked(s)
                 r == s \ {x}
      <4>1. x \in s
        BY <3>2, PickedIn
      <4>2. f[s] = g[x] + Of(r)[r]
        BY <3>2
      <4> HIDE DEF x, f
      <4>3. r \in SUBSET T /\ r # T
        BY <4>1
      <4>4. f[r] = Of(r)[r]
        BY <2>6, <4>3
      <4> QED BY <3>2, <4>2, <4>4 DEF x
    <3> QED BY <3>1, <3>2
  <2>8. f = [s \in SUBSET T |-> f[s]]
    OBVIOUS
  <2> HIDE DEF f
  <2>9. f = [s \in SUBSET T |-> IF s = {} THEN 0 ELSE g[Picked(s)] + f[s \ {Picked(s)}]]
    BY <2>7, <2>8
  <2>10. Has(T)
    BY <2>9 DEF Has, Sums
  <2> QED BY <2>3, <2>10
<1> QED BY <1>1

\* Any element may be the one that is added last.
LEMMA SumPicks ==
  ASSUME NEW S, IsFiniteSet(S), NEW g, \A x \in S : g[x] \in Nat, NEW f, Sums(f, g, S),
         NEW T, T \in SUBSET S, NEW x, x \in T
  PROVE  f[T] = g[x] + f[T \ {x}]
<1> DEFINE B == {s \in SUBSET S : \E y \in s : f[s] # g[y] + f[s \ {y}]}
<1>0. f \in [SUBSET S -> Nat]
  BY SumNat
<1>1. ASSUME B # {} PROVE FALSE
  <2>1. B \subseteq SUBSET S
    OBVIOUS
  <2> HIDE DEF B
  <2>2. PICK s \in B : \A t \in B : t \subseteq s => t = s
    BY <1>1, <2>1, LeastPart
  <2>3. PICK y \in s : f[s] # g[y] + f[s \ {y}]
    BY <2>2 DEF B
  <2>4. s \in SUBSET S /\ s # {}
    BY <2>1, <2>2, <2>3
  <2> DEFINE z == Picked(s)
             r == (s \ {y}) \ {z}
  <2>5. z \in s /\ f[s] = g[z] + f[s \ {z}]
    BY <2>4, PickedIn DEF Sums
  <2> HIDE DEF z
  <2>6. y # z /\ y \in s \ {z} /\ z \in s \ {y}
    BY <2>3, <2>5
  <2>7. s \ {y} \notin B /\ s \ {z} \notin B /\ s \ {y} \in SUBSET S /\ s \ {z} \in SUBSET S
    BY <2>2, <2>3, <2>4, <2>5
  <2>8. f[s \ {z}] = g[y] + f[(s \ {z}) \ {y}]
    BY <2>6, <2>7 DEF B
  <2>9. f[s \ {y}] = g[z] + f[r]
    BY <2>6, <2>7 DEF B
  <2>10. (s \ {z}) \ {y} = r
    OBVIOUS
  <2>11. g[y] \in Nat /\ g[z] \in Nat /\ f[r] \in Nat
    <3>1. r \in SUBSET S
      BY <2>4
    <3> QED BY <1>0, <2>4, <2>5, <3>1
  <2>12. f[s] = g[z] + (g[y] + f[r]) /\ g[y] + f[s \ {y}] = g[y] + (g[z] + f[r])
    BY <2>5, <2>8, <2>9, <2>10
  <2> HIDE DEF r
  <2>13. f[s] = g[y] + f[s \ {y}]
    BY <2>11, <2>12
  <2> QED BY <2>3, <2>13
<1>2. T \notin B
  BY <1>1
<1> QED BY <1>2

\* A sum of smaller numbers is smaller.
LEMMA SumBelow ==
  ASSUME NEW S, IsFiniteSet(S), NEW g, NEW k, \A x \in S : g[x] \in Nat /\ k[x] \in Nat /\ g[x] <= k[x],
         NEW f, NEW h, Sums(f, g, S), Sums(h, k, S)
  PROVE  f[S] <= h[S]
<1> DEFINE B == {s \in SUBSET S : ~(f[s] <= h[s])}
<1>0. f \in [SUBSET S -> Nat] /\ h \in [SUBSET S -> Nat]
  BY SumNat
<1>1. ASSUME B # {} PROVE FALSE
  <2>1. B \subseteq SUBSET S
    OBVIOUS
  <2> HIDE DEF B
  <2>2. PICK s \in B : \A t \in B : t \subseteq s => t = s
    BY <1>1, <2>1, LeastPart
  <2>3. s \in SUBSET S /\ ~(f[s] <= h[s])
    BY <2>2 DEF B
  <2>4. s # {}
    BY <2>3 DEF Sums
  <2> DEFINE x == Picked(s)
             r == s \ {x}
  <2>5. x \in s /\ f[s] = g[x] + f[r] /\ h[s] = k[x] + h[r]
    BY <2>3, <2>4, PickedIn DEF Sums
  <2> HIDE DEF x
  <2>6. r \notin B /\ r \in SUBSET S
    BY <2>2, <2>3, <2>5
  <2>7. f[r] <= h[r] /\ f[r] \in Nat /\ h[r] \in Nat /\ g[x] \in Nat /\ k[x] \in Nat /\ g[x] <= k[x]
    BY <1>0, <2>3, <2>5, <2>6 DEF B
  <2> HIDE DEF r
  <2> QED BY <2>3, <2>5, <2>7
<1>2. S \notin B
  BY <1>1
<1> QED BY <1>2
\* Only what is added up counts.
LEMMA SumSame ==
  ASSUME NEW S, NEW g, NEW k, \A x \in S : g[x] = k[x], NEW f, Sums(f, g, S)
  PROVE  Sums(f, k, S)
<1>1. \A s \in SUBSET S : s # {} => g[Picked(s)] = k[Picked(s)]
  BY PickedIn
<1>2.   [s \in SUBSET S |-> IF s = {} THEN 0 ELSE g[Picked(s)] + f[s \ {Picked(s)}]]
      = [s \in SUBSET S |-> IF s = {} THEN 0 ELSE k[Picked(s)] + f[s \ {Picked(s)}]]
  BY <1>1
<1> QED BY <1>2 DEF Sums

\* One element more adds its number.
LEMMA SumWithOne ==
  ASSUME NEW S, IsFiniteSet(S), NEW x, x \notin S,
         NEW g, \A y \in S \cup {x} : g[y] \in Nat, NEW f, Sums(f, g, S),
         NEW h, Sums(h, g, S \cup {x})
  PROVE  h[S \cup {x}] = g[x] + f[S]
<1> DEFINE T == S \cup {x}
<1>1. IsFiniteSet(T)
  BY FS_AddElement
<1>2. S \in SUBSET S /\ S \subseteq T /\ T \ {x} = S /\ T \in SUBSET T /\ x \in T
  OBVIOUS
<1> HIDE DEF T
<1>3. Sums(h, g, T) /\ \A y \in T : g[y] \in Nat
  BY DEF T
<1>4. h[T] = g[x] + h[T \ {x}]
  BY <1>1, <1>2, <1>3, SumPicks
<1>5. Sums([s \in SUBSET S |-> h[s]], g, S)
  BY <1>2, <1>3, SumOfPart
<1>6. [s \in SUBSET S |-> h[s]] = f
  BY <1>5, SumUnique
<1>7. h[S] = f[S]
  BY <1>2, <1>6
<1> QED BY <1>2, <1>4, <1>7 DEF T

\* What one element adds to the whole sum.
LEMMA SumPicksOne ==
  ASSUME NEW S, IsFiniteSet(S), NEW g, \A x \in S : g[x] \in Nat, NEW f, Sums(f, g, S), NEW x \in S
  PROVE  f[S] = g[x] + f[S \ {x}]
<1>1. S \in SUBSET S
  OBVIOUS
<1> QED BY <1>1, SumPicks

=============================================================================
