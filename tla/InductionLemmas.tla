-------------------------- MODULE InductionLemmas --------------------------
(***************************************************************************)
(* What the other proofs need of induction.  The induction theorems of the *)
(* library take an operator as a parameter; here induction is over a set,  *)
(* by the least element of its complement.  From it follow the existence   *)
(* and uniqueness of functions that are defined along a sequence or over   *)
(* the subsets of a finite set, and what the library's Min, FlattenSeq and *)
(* SumFunction yield.                                                      *)
(***************************************************************************)
EXTENDS SequencesExt, Integers, WellFoundedInduction, FiniteSetTheorems, SequenceTheorems, TLAPS

\* Induction over the natural numbers.
LEMMA SetInduction ==
  ASSUME NEW T \in SUBSET Nat, 0 \in T, \A n \in T : n + 1 \in T
  PROVE  T = Nat
  <1> SUFFICES ASSUME Nat \ T # {} PROVE FALSE
    OBVIOUS
  <1>1. PICK x \in Nat \ T : \A y \in Nat \ T : ~(<<y, x>> \in OpToRel(<, Nat))
    BY NatLessThanWellFounded, WFMin
  <1>2. x # 0 /\ x - 1 \in Nat /\ x - 1 < x
    OBVIOUS
  <1>3. <<x - 1, x>> \in OpToRel(<, Nat)
    BY <1>2, <1>1 DEF OpToRel
  <1>4. x - 1 \in T
    BY <1>1, <1>2, <1>3
  <1>5. x \in T
    BY <1>2, <1>4, (x - 1) + 1 = x
  <1> QED BY <1>5

\* Min yields the least number.
LEMMA LeastNumber ==
  ASSUME NEW S \in SUBSET Nat, S # {}
  PROVE  Min(S) \in S /\ \A n \in S : Min(S) <= n
  <1>1. PICK x \in S : \A y \in S : ~(<<y, x>> \in OpToRel(<, Nat))
    BY NatLessThanWellFounded, WFMin
  <1>2. ASSUME NEW y \in S PROVE x <= y
    <2>1. x \in Nat /\ y \in Nat
      OBVIOUS
    <2>2. CASE y < x
      <3>1. <<y, x>> \in OpToRel(<, Nat)
        BY <2>1, <2>2 DEF OpToRel
      <3> QED BY <1>1, <3>1
    <2> QED BY <2>1, <2>2
  <1> QED BY <1>2 DEF Min

\* Max yields the greatest of some numbers up to n.
LEMMA GreatestNumber ==
  ASSUME NEW n \in Nat, NEW S \in SUBSET (0 .. n), S # {}
  PROVE  Max(S) \in S /\ \A x \in S : Max(S) >= x
  <1> DEFINE T == {n - x : x \in S}
  <1>1. T \in SUBSET Nat /\ T # {}
    <2>1. ASSUME NEW x \in S PROVE n - x \in Nat
      OBVIOUS
    <2> QED BY <2>1
  <1>2. Min(T) \in T /\ \A y \in T : Min(T) <= y
    <2> HIDE DEF T
    <2> QED BY <1>1, LeastNumber
  <1>3. PICK x \in S : n - x = Min(T)
    BY <1>2
  <1>4. ASSUME NEW y \in S PROVE x >= y
    <2>1. n - y \in T /\ x \in 0 .. n /\ y \in 0 .. n
      OBVIOUS
    <2>2. n - x <= n - y
      BY <1>2, <1>3, <2>1
    <2> QED BY <2>1, <2>2
  <1> QED BY <1>4 DEF Max

\* A function along 0 .. n is built from a base by n steps.
Along(g, n, base, step) ==
  g[0] = base /\ \A i \in 1 .. n : g[i] = step[i][g[i - 1]]

\* A function that is defined along 0 .. n exists, and its values are of one kind.
LEMMA Recursion ==
  ASSUME NEW n \in Nat, NEW V, NEW base \in V, NEW step \in [1 .. n -> [V -> V]]
  PROVE  \E g \in [0 .. n -> V] : Along(g, n, base, step)
  <1> DEFINE Upto(g, k) == \A i \in 0 .. n : i <= k => g[i] = IF i = 0 THEN base ELSE step[i][g[i - 1]]
             Good(k) == \E g \in [0 .. n -> V] : Upto(g, k)
             T == {k \in Nat : Good(k)}
  <1>1. Good(0)
    <2>1. [i \in 0 .. n |-> base] \in [0 .. n -> V] /\ Upto([i \in 0 .. n |-> base], 0)
      OBVIOUS
    <2> QED BY <2>1
  <1>2. ASSUME NEW k \in Nat, Good(k) PROVE Good(k + 1)
    <2>1. PICK g \in [0 .. n -> V] : Upto(g, k)
      BY <1>2
    <2> DEFINE h == [i \in 0 .. n |-> IF i <= k THEN g[i] ELSE IF i = 0 THEN base ELSE step[i][g[i - 1]]]
    <2>2. h \in [0 .. n -> V]
      <3>1. ASSUME NEW i \in 0 .. n, i # 0 PROVE step[i][g[i - 1]] \in V
        <4>1. i \in 1 .. n /\ i - 1 \in 0 .. n
          BY <3>1
        <4> QED BY <4>1
      <3> QED BY <3>1
    <2>3. ASSUME NEW i \in 0 .. n, i <= k + 1 PROVE h[i] = IF i = 0 THEN base ELSE step[i][h[i - 1]]
      <3>1. CASE i = 0
        BY <2>1, <3>1
      <3>2. CASE i # 0
        <4>1. i - 1 \in 0 .. n /\ i - 1 <= k
          BY <2>3, <3>2
        <4>2. h[i - 1] = g[i - 1]
          BY <4>1
        <4> QED BY <2>1, <3>2, <4>2
      <3> QED BY <3>1, <3>2
    <2> QED BY <2>2, <2>3
  <1>3. Good(n)
    <2> HIDE DEF Good
    <2>1. T \in SUBSET Nat /\ 0 \in T /\ \A k \in T : k + 1 \in T
      BY <1>1, <1>2
    <2> HIDE DEF T
    <2>2. T = Nat
      BY <2>1, SetInduction
    <2> QED BY <2>2 DEF T
  <1>4. PICK g \in [0 .. n -> V] : Upto(g, n)
    BY <1>3
  <1>5. g[0] = base /\ \A i \in 1 .. n : g[i] = step[i][g[i - 1]]
    BY <1>4
  <1> QED BY <1>5 DEF Along

\* Sequences joined one after the other.
Joining(seqs, V) == [i \in 1 .. Len(seqs) |-> [s \in Seq(V) |-> s \o seqs[i]]]

\* Flattening is joining them along.
LEMMA FlattenAlong ==
  ASSUME NEW V, NEW seqs \in Seq(Seq(V))
  PROVE  \E g \in [0 .. Len(seqs) -> Seq(V)] :
           Along(g, Len(seqs), <<>>, Joining(seqs, V)) /\ FlattenSeq(seqs) = g[Len(seqs)]
  <1> DEFINE n == Len(seqs)
             W == Seq(V)
             empty == <<>>
             Good(f) == f = [i \in 1 .. n |-> IF i = 1 THEN seqs[i] ELSE f[i - 1] \o seqs[i]]
             it == CHOOSE f : Good(f)
             step == Joining(seqs, V)
  <1>1. CASE n = 0
    <2> DEFINE g == [i \in 0 .. n |-> empty]
    <2>1. g \in [0 .. n -> W] /\ g[0] = empty /\ g[n] = empty /\ 1 .. n = {}
      BY <1>1
    <2>2. FlattenSeq(seqs) = empty
      BY <1>1 DEF FlattenSeq
    <2>3. Along(g, n, empty, step)
      BY <2>1 DEF Along
    <2> HIDE DEF g
    <2> QED BY <2>1, <2>2, <2>3
  <1>2. CASE n # 0
    <2>1. n \in Nat /\ empty \in W /\ step \in [1 .. n -> [W -> W]] /\ \A i \in 1 .. n : seqs[i] \in W
      BY DEF Joining
    <2>2. PICK g \in [0 .. n -> W] : Along(g, n, empty, step)
      <3> HIDE DEF Good, step, n, W, empty, it
      <3> QED BY <2>1, Recursion
    <2>3. g[0] = empty /\ \A i \in 1 .. n : g[i] = g[i - 1] \o seqs[i]
      <3>1. \A i \in 1 .. n : i - 1 \in 0 .. n /\ step[i][g[i - 1]] = g[i - 1] \o seqs[i]
        <4>1. ASSUME NEW i \in 1 .. n PROVE i - 1 \in 0 .. n /\ g[i - 1] \in W
          <5> HIDE DEF n, W
          <5> QED BY <2>1, <2>2
        <4>2. \A i \in 1 .. n, s \in W : step[i][s] = s \o seqs[i]
          BY DEF Joining
        <4> HIDE DEF step, W
        <4> QED BY <4>1, <4>2
      <3> HIDE DEF step
      <3> QED BY <2>2, <3>1 DEF Along
    <2> DEFINE f == [i \in 1 .. n |-> g[i]]
    <2>4. Good(f)
      <3>1. ASSUME NEW i \in 1 .. n PROVE g[i] = IF i = 1 THEN seqs[i] ELSE f[i - 1] \o seqs[i]
        <4>1. CASE i = 1
          <5>1. g[1] = g[0] \o seqs[1]
            <6>1. g[1] = g[1 - 1] \o seqs[1]
              BY <2>3, <4>1
            <6> QED BY <6>1
          <5>2. empty \o seqs[1] = seqs[1]
            BY <2>1, <4>1, ConcatEmptySeq
          <5> QED BY <2>3, <4>1, <5>1, <5>2
        <4>2. CASE i # 1
          <5>1. i - 1 \in 1 .. n
            BY <4>2
          <5> QED BY <2>3, <4>2, <5>1
        <4> QED BY <4>1, <4>2
      <3> QED BY <3>1
    <2>5. Good(it)
      <3> HIDE DEF Good
      <3> QED BY <2>4
    <2> DEFINE T == {k \in Nat : k \in 1 .. n => it[k] = g[k]}
    <2>6. 0 \in T /\ \A k \in T : k + 1 \in T
      <3> HIDE DEF it
      <3>1. ASSUME NEW k \in Nat, k \in 1 .. n => it[k] = g[k], k + 1 \in 1 .. n PROVE it[k + 1] = g[k + 1]
        <4>1. it[k + 1] = IF k + 1 = 1 THEN seqs[k + 1] ELSE it[(k + 1) - 1] \o seqs[k + 1]
          BY <2>5, <3>1
        <4>2. f[k + 1] = IF k + 1 = 1 THEN seqs[k + 1] ELSE f[(k + 1) - 1] \o seqs[k + 1]
          BY <2>4, <3>1
        <4>3. k # 0 => (k + 1) - 1 = k /\ k \in 1 .. n /\ f[k] = g[k] /\ it[k] = g[k]
          BY <3>1
        <4>4. f[k + 1] = g[k + 1]
          BY <3>1
        <4> HIDE DEF f
        <4> QED BY <4>1, <4>2, <4>3, <4>4
      <3> QED BY <3>1
    <2>7. T = Nat
      <3>1. T \in SUBSET Nat
        OBVIOUS
      <3> HIDE DEF T
      <3> QED BY <3>1, <2>6, SetInduction
    <2>8. it[n] = g[n]
      <3>1. n \in 1 .. n /\ n \in Nat
        BY <1>2, <2>1
      <3>2. n \in T
        <4> HIDE DEF T, n
        <4> QED BY <2>7, <3>1
      <3> HIDE DEF it, n
      <3> QED BY <3>1, <3>2
    <2>9. FlattenSeq(seqs) = it[n]
      BY <1>2 DEF FlattenSeq
    <2> HIDE DEF it
    <2> QED BY <2>2, <2>8, <2>9
  <1> QED BY <1>1, <1>2

\* Flattening keeps the elements.
LEMMA FlattenType ==
  ASSUME NEW V, NEW seqs \in Seq(Seq(V))
  PROVE  FlattenSeq(seqs) \in Seq(V)
  <1>1. PICK g \in [0 .. Len(seqs) -> Seq(V)] : FlattenSeq(seqs) = g[Len(seqs)]
    BY FlattenAlong
  <1>2. Len(seqs) \in 0 .. Len(seqs)
    OBVIOUS
  <1> QED BY <1>1, <1>2

\* A sequence put together of two.
LEMMA Joined ==
  ASSUME NEW S, NEW a \in Seq(S), NEW b \in Seq(S), NEW c \in Seq(S), Len(c) = Len(a) + Len(b),
         \A i \in 1 .. Len(a) : c[i] = a[i],
         \A i \in 1 .. Len(b) : c[Len(a) + i] = b[i]
  PROVE  a \o b = c
  <1>1. /\ a \o b \in Seq(S) /\ Len(a \o b) = Len(a) + Len(b)
        /\ \A i \in 1 .. Len(a) + Len(b) : (a \o b)[i] = IF i <= Len(a) THEN a[i] ELSE b[i - Len(a)]
    BY ConcatProperties
  <1>2. ASSUME NEW i \in 1 .. Len(a \o b) PROVE (a \o b)[i] = c[i]
    <2>1. CASE i <= Len(a)
      BY <1>1, <1>2, <2>1
    <2>2. CASE i > Len(a)
      <3>1. i - Len(a) \in 1 .. Len(b) /\ Len(a) + (i - Len(a)) = i
        BY <1>1, <1>2, <2>2
      <3> QED BY <1>1, <1>2, <2>2, <3>1
    <2> QED BY <1>1, <1>2, <2>1, <2>2
  <1> QED BY <1>1, <1>2, SeqEqual

\* A sequence of three, put together.
LEMMA Three ==
  ASSUME NEW S, NEW x \in S, NEW y \in S, NEW z \in S
  PROVE  <<x>> \o <<y, z>> = <<x, y, z>>
  <1> DEFINE a == <<x>>  b == <<y, z>>  c == <<x, y, z>>
  <1>1. a \in Seq(S) /\ b \in Seq(S) /\ c \in Seq(S)
    OBVIOUS
  <1>2. Len(a) = 1 /\ Len(b) = 2 /\ Len(c) = 3
    OBVIOUS
  <1>3. \A i \in 1 .. 1 : c[i] = a[i]
    OBVIOUS
  <1>4. \A i \in 1 .. 2 : c[1 + i] = b[i]
    OBVIOUS
  <1> HIDE DEF a, b, c
  <1>5. Len(c) = Len(a) + Len(b) /\ (\A i \in 1 .. Len(a) : c[i] = a[i])
        /\ \A i \in 1 .. Len(b) : c[Len(a) + i] = b[i]
    BY <1>2, <1>3, <1>4
  <1>6. a \o b = c
    BY <1>1, <1>5, Joined
  <1> QED BY <1>6 DEF a, b, c

\* The orders in which a finite set can be gone through.
LEMMA TurnsOf ==
  ASSUME NEW S, IsFiniteSet(S), NEW t \in SetToSeqs(S)
  PROVE  /\ Len(t) \in Nat /\ t \in [1 .. Len(t) -> S] /\ t \in Seq(S) /\ Len(t) = Cardinality(S)
         /\ \A i \in 1 .. Len(t), j \in 1 .. Len(t) : i # j => t[i] # t[j]
         /\ \A x \in S : \E i \in 1 .. Len(t) : t[i] = x
  <1> DEFINE n == Cardinality(S)
  <1>1. n \in Nat
    BY FS_CardinalityType
  <1>2. t \in [1 .. n -> S] /\ \A i \in 1 .. n, j \in 1 .. n : i # j => t[i] # t[j]
    BY DEF SetToSeqs
  <1>3. t \in Seq(S) /\ Len(t) = n
    BY <1>1, <1>2
  <1>4. t \in Injection(1 .. n, S)
    BY <1>2 DEF Injection, IsInjective
  <1>5. Cardinality(1 .. n) = n
    BY <1>1, FS_Interval
  <1>6. t \in Surjection(1 .. n, S)
    BY <1>4, <1>5, FS_Injection
  <1>7. \A x \in S : \E i \in 1 .. n : t[i] = x
    BY <1>6 DEF Surjection
  <1> QED BY <1>1, <1>2, <1>3, <1>7

-----------------------------------------------------------------------------
\* Where the elements of a sequence are in a set.
PlacesOf(s, E) == {i \in 1 .. Len(s) : s[i] \in E}

LEMMA PlacesFinite ==
  ASSUME NEW V, NEW s \in Seq(V), NEW E
  PROVE  IsFiniteSet(PlacesOf(s, E)) /\ Cardinality(PlacesOf(s, E)) \in Nat
  <1>1. IsFiniteSet(1 .. Len(s))
    BY FS_Interval
  <1>2. PlacesOf(s, E) \subseteq 1 .. Len(s)
    BY DEF PlacesOf
  <1> QED BY <1>1, <1>2, FS_Subset, FS_CardinalityType

\* Two sequences put together have the places of both.
LEMMA PlacesJoin ==
  ASSUME NEW V, NEW a \in Seq(V), NEW b \in Seq(V), NEW E
  PROVE  Cardinality(PlacesOf(a \o b, E)) = Cardinality(PlacesOf(a, E)) + Cardinality(PlacesOf(b, E))
  <1> DEFINE n == Len(a)
             B == PlacesOf(b, E)
             C == {i \in n + 1 .. n + Len(b) : i - n \in B}
             f == [i \in B |-> n + i]
  <1>1. n \in Nat /\ Len(b) \in Nat /\ B \subseteq 1 .. Len(b)
    BY DEF PlacesOf
  <1>2. f \in Bijection(B, C)
    <2>1. f \in [B -> C]
      BY <1>1
    <2>2. \A i, j \in B : f[i] = f[j] => i = j
      BY <1>1
    <2>3. \A j \in C : \E i \in B : f[i] = j
      BY <1>1
    <2> HIDE DEF f, B, C
    <2> QED BY <2>1, <2>2, <2>3 DEF Bijection, Injection, Surjection, IsInjective
  <1>3. IsFiniteSet(PlacesOf(a, E)) /\ IsFiniteSet(B)
        /\ Cardinality(PlacesOf(a, E)) \in Nat /\ Cardinality(B) \in Nat
    BY PlacesFinite
  <1>4. IsFiniteSet(C) /\ Cardinality(C) = Cardinality(B)
    <2> HIDE DEF B, C, f
    <2> QED BY <1>2, <1>3, FS_Bijection DEF ExistsBijection
  <1>5. PlacesOf(a \o b, E) = PlacesOf(a, E) \cup C
    <2>1. /\ Len(a \o b) = n + Len(b)
          /\ \A i \in 1 .. n + Len(b) : (a \o b)[i] = IF i <= n THEN a[i] ELSE b[i - n]
      BY ConcatProperties
    <2>2. ASSUME NEW i \in 1 .. n PROVE i \in PlacesOf(a \o b, E) <=> i \in PlacesOf(a, E)
      <3>1. i \in 1 .. n + Len(b) /\ i <= n
        BY <1>1
      <3> QED BY <2>1, <3>1 DEF PlacesOf
    <2>3. ASSUME NEW i \in n + 1 .. n + Len(b) PROVE i \in PlacesOf(a \o b, E) <=> i \in C
      <3>1. i \in 1 .. n + Len(b) /\ ~(i <= n) /\ i - n \in 1 .. Len(b)
        BY <1>1
      <3> QED BY <2>1, <3>1 DEF PlacesOf
    <2>4. PlacesOf(a, E) \subseteq 1 .. n /\ C \subseteq n + 1 .. n + Len(b)
      BY DEF PlacesOf
    <2>5. PlacesOf(a \o b, E) \subseteq (1 .. n) \cup (n + 1 .. n + Len(b))
      BY <1>1, <2>1 DEF PlacesOf
    <2>6. (1 .. n) \cap (n + 1 .. n + Len(b)) = {}
      BY <1>1
    <2> HIDE DEF C, n
    <2> QED BY <2>2, <2>3, <2>4, <2>5, <2>6
  <1>6. PlacesOf(a, E) \cap C = {}
    BY <1>1 DEF PlacesOf
  <1>7. Cardinality({}) = 0
    BY FS_EmptySet
  <1> HIDE DEF B, C
  <1>8. Cardinality(PlacesOf(a, E) \cup C)
          = Cardinality(PlacesOf(a, E)) + Cardinality(C) - Cardinality(PlacesOf(a, E) \cap C)
    <2> DEFINE A == PlacesOf(a, E)
    <2>1. IsFiniteSet(A) /\ IsFiniteSet(C)
      BY <1>3, <1>4
    <2> HIDE DEF A
    <2>2. Cardinality(A \cup C) = Cardinality(A) + Cardinality(C) - Cardinality(A \cap C)
      BY <2>1, FS_Union
    <2> QED BY <2>2 DEF A
  <1>9. Cardinality(PlacesOf(a, E) \cup C) = Cardinality(PlacesOf(a, E)) + Cardinality(B)
    <2>1. Cardinality(PlacesOf(a, E) \cap C) = 0
      BY <1>6, <1>7, Zenon
    <2> QED BY <1>3, <1>4, <1>8, <2>1
  <1> QED BY <1>5, <1>9 DEF B

\* No element, and one.
LEMMA PlacesOfFew ==
  ASSUME NEW x, NEW E
  PROVE  /\ Cardinality(PlacesOf(<<>>, E)) = 0
         /\ Cardinality(PlacesOf(<<x>>, E)) = IF x \in E THEN 1 ELSE 0
  <1>1. PlacesOf(<<>>, E) = {}
    BY DEF PlacesOf
  <1>2. PlacesOf(<<x>>, E) = IF x \in E THEN {1} ELSE {}
    BY DEF PlacesOf
  <1> QED BY <1>1, <1>2, FS_EmptySet, FS_Singleton

\* A sequence is its first element and the rest.
LEMMA HeadAndTail ==
  ASSUME NEW V, NEW s \in Seq(V), s # <<>>
  PROVE  Head(s) \in V /\ Tail(s) \in Seq(V) /\ <<Head(s)>> \in Seq(V) /\ <<Head(s)>> \o Tail(s) = s
  <1> DEFINE a == <<Head(s)>>
             t == Tail(s)
  <1>1. /\ Head(s) \in V /\ t \in Seq(V) /\ Len(t) = Len(s) - 1 /\ Len(s) \in Nat
        /\ \A i \in 1 .. Len(t) : t[i] = s[i + 1]
    BY HeadTailProperties
  <1>2. a \in Seq(V) /\ Len(a) = 1 /\ a[1] = s[1]
    BY <1>1
  <1>3. a \o t = s
    <2> HIDE DEF a, t
    <2>1. Len(s) = Len(a) + Len(t)
      BY <1>1, <1>2
    <2>2. \A i \in 1 .. Len(a) : s[i] = a[i]
      BY <1>2
    <2>3. \A i \in 1 .. Len(t) : s[Len(a) + i] = t[i]
      BY <1>1, <1>2
    <2> QED BY <1>1, <1>2, <2>1, <2>2, <2>3, Joined
  <1> QED BY <1>1, <1>2, <1>3

\* The first element is taken.
LEMMA PlacesTail ==
  ASSUME NEW V, NEW s \in Seq(V), s # <<>>, NEW E
  PROVE  Cardinality(PlacesOf(s, E)) = (IF Head(s) \in E THEN 1 ELSE 0) + Cardinality(PlacesOf(Tail(s), E))
  <1> DEFINE a == <<Head(s)>>
             t == Tail(s)
  <1>1. a \in Seq(V) /\ t \in Seq(V) /\ a \o t = s
    BY HeadAndTail
  <1>2. Cardinality(PlacesOf(a, E)) = IF Head(s) \in E THEN 1 ELSE 0
    BY PlacesOfFew
  <1>3. Cardinality(PlacesOf(a \o t, E)) = Cardinality(PlacesOf(a, E)) + Cardinality(PlacesOf(t, E))
    <2> HIDE DEF a, t
    <2> QED BY <1>1, PlacesJoin
  <1> HIDE DEF a
  <1> QED BY <1>1, <1>2, <1>3

\* An element is appended.
LEMMA PlacesAppend ==
  ASSUME NEW V, NEW s \in Seq(V), NEW x \in V, NEW E
  PROVE  Cardinality(PlacesOf(Append(s, x), E)) = Cardinality(PlacesOf(s, E)) + (IF x \in E THEN 1 ELSE 0)
  <1> DEFINE b == <<x>>
  <1>1. b \in Seq(V) /\ Append(s, x) = s \o b
    BY AppendIsConcat
  <1>2. Cardinality(PlacesOf(b, E)) = IF x \in E THEN 1 ELSE 0
    BY PlacesOfFew
  <1> HIDE DEF b
  <1>3. Cardinality(PlacesOf(s \o b, E)) = Cardinality(PlacesOf(s, E)) + Cardinality(PlacesOf(b, E))
    BY <1>1, PlacesJoin
  <1> QED BY <1>1, <1>2, <1>3

-----------------------------------------------------------------------------
\* Sums over finite sets.

\* The element that the folds of the library take first.
Pick(s) == CHOOSE x \in s : TRUE

\* A sum over a set, taken element by element.
SumsUp(g, f, S) ==
  g[{}] = 0 /\ \A s \in SUBSET S : s # {} => g[s] = f[Pick(s)] + g[s \ {Pick(s)}]

\* A set that has nothing, and every set with an element more than one it has, is every subset.
LEMMA SubsetInduction ==
  ASSUME NEW S, IsFiniteSet(S), NEW T \in SUBSET SUBSET S, {} \in T,
         \A s \in SUBSET S : s # {} /\ s \ {Pick(s)} \in T => s \in T
  PROVE  T = SUBSET S
  <1> DEFINE N == {n \in Nat : \A s \in SUBSET S : Cardinality(s) <= n => s \in T}
  <1>0. \A s \in SUBSET S : IsFiniteSet(s) /\ Cardinality(s) \in Nat /\ Cardinality(s) <= Cardinality(S) /\ Cardinality(S) \in Nat
    BY FS_Subset, FS_CardinalityType
  <1>1. 0 \in N
    <2>1. \A s \in SUBSET S : Cardinality(s) <= 0 => s = {}
      BY <1>0, FS_EmptySet
    <2> QED BY <2>1
  <1>2. ASSUME NEW n \in N PROVE n + 1 \in N
    <2>1. ASSUME NEW s \in SUBSET S, Cardinality(s) <= n + 1, s # {} PROVE s \in T
      <3> DEFINE r == s \ {Pick(s)}
      <3>1. r \in SUBSET S /\ Pick(s) \in s
        BY <2>1 DEF Pick
      <3>2. Cardinality(r) = Cardinality(s) - 1
        BY <1>0, <3>1, FS_RemoveElement
      <3>3. Cardinality(r) <= n
        BY <1>0, <2>1, <3>1, <3>2
      <3>4. r \in T
        BY <1>2, <3>1, <3>3
      <3> QED BY <2>1, <3>4
    <2> QED BY <2>1
  <1>3. N = Nat
    <2>1. N \in SUBSET Nat /\ \A n \in N : n + 1 \in N
      BY <1>2
    <2> HIDE DEF N
    <2> QED BY <1>1, <2>1, SetInduction
  <1>4. Cardinality(S) \in N
    BY <1>0, <1>3
  <1> QED BY <1>0, <1>4

\* There is such a function.
LEMMA FoldExists ==
  ASSUME NEW S, IsFiniteSet(S), NEW f \in [S -> Int]
  PROVE  \E g \in [SUBSET S -> Int] : SumsUp(g, f, S)
  <1> DEFINE Def(g, s) == IF s = {} THEN 0 ELSE f[Pick(s)] + g[s \ {Pick(s)}]
             Good(n) == \E g \in [SUBSET S -> Int] : \A s \in SUBSET S : Cardinality(s) <= n => g[s] = Def(g, s)
             T == {n \in Nat : Good(n)}
  <1>0. \A s \in SUBSET S : IsFiniteSet(s) /\ Cardinality(s) \in Nat /\ Cardinality(s) <= Cardinality(S) /\ Cardinality(S) \in Nat
    BY FS_Subset, FS_CardinalityType
  <1>a. \A s \in SUBSET S : s # {} => Pick(s) \in s /\ Pick(s) \in S /\ s \ {Pick(s)} \in SUBSET S
    BY DEF Pick
  <1>1. Good(0)
    <2> DEFINE g == [s \in SUBSET S |-> 0]
    <2>1. \A s \in SUBSET S : Cardinality(s) <= 0 => s = {}
      BY <1>0, FS_EmptySet
    <2>2. g \in [SUBSET S -> Int]
      OBVIOUS
    <2>3. \A s \in SUBSET S : Cardinality(s) <= 0 => g[s] = Def(g, s)
      BY <2>1
    <2> QED BY <2>2, <2>3
  <1>2. ASSUME NEW n \in Nat, Good(n) PROVE Good(n + 1)
    <2>1. PICK g \in [SUBSET S -> Int] : \A s \in SUBSET S : Cardinality(s) <= n => g[s] = Def(g, s)
      BY <1>2
    <2> DEFINE h == [s \in SUBSET S |-> IF Cardinality(s) <= n THEN g[s] ELSE Def(g, s)]
    <2>2. h \in [SUBSET S -> Int]
      BY <1>a, <2>1
    <2>3. ASSUME NEW s \in SUBSET S, Cardinality(s) <= n + 1 PROVE h[s] = Def(h, s)
      <3>1. CASE s = {}
        BY <2>1, <3>1
      <3>2. CASE s # {}
        <4> DEFINE r == s \ {Pick(s)}
        <4>1. r \in SUBSET S /\ Pick(s) \in s
          BY <1>a, <3>2
        <4>2. Cardinality(r) = Cardinality(s) - 1
          BY <1>0, <4>1, FS_RemoveElement
        <4>3. h[r] = g[r]
          BY <4>1, <4>2, <2>3, <1>0
        <4>4. h[s] = Def(g, s)
          BY <2>1
        <4> QED BY <4>3, <4>4
      <3> QED BY <3>1, <3>2
    <2> QED BY <2>2, <2>3
  <1>3. Good(Cardinality(S))
    <2> HIDE DEF Good
    <2>1. T \in SUBSET Nat /\ 0 \in T /\ \A n \in T : n + 1 \in T
      BY <1>1, <1>2
    <2> HIDE DEF T
    <2>2. T = Nat
      BY <2>1, SetInduction
    <2> QED BY <1>0, <2>2 DEF T
  <1>4. PICK g \in [SUBSET S -> Int] : \A s \in SUBSET S : Cardinality(s) <= Cardinality(S) => g[s] = Def(g, s)
    BY <1>3
  <1> QED BY <1>4, <1>0 DEF SumsUp

\* The sum of the library is one.
LEMMA SumEquation ==
  ASSUME NEW S, IsFiniteSet(S), NEW f \in [S -> Int]
  PROVE  \E g \in [SUBSET S -> Int] : SumsUp(g, f, S) /\ SumFunction(f) = g[S]
  <1> DEFINE Good(g) == g = [s \in SUBSET S |-> IF s = {} THEN 0 ELSE f[CHOOSE x \in s : TRUE] + g[s \ {CHOOSE x \in s : TRUE}]]
             it == CHOOSE g : Good(g)
  <1>3. PICK g \in [SUBSET S -> Int] : SumsUp(g, f, S)
    BY FoldExists
  <1>4. Good(g)
    BY <1>3 DEF SumsUp, Pick
  <1>5. Good(it)
    <2> HIDE DEF Good
    <2> QED BY <1>4
  <1>6. SumFunction(f) = it[S]
    BY DEF SumFunction, SumFunctionOnSet, FoldFunctionOnSet, MapThenFoldSet
  <1>7. it[S] = g[S]
    <2> HIDE DEF it
    <2> DEFINE T == {s \in SUBSET S : it[s] = g[s]}
    <2>1. it[{}] = 0 /\ \A s \in SUBSET S : s # {} => it[s] = f[Pick(s)] + it[s \ {Pick(s)}]
      BY <1>5 DEF Pick
    <2>2. T \in SUBSET SUBSET S /\ {} \in T
      BY <1>3, <2>1 DEF SumsUp
    <2>3. \A s \in SUBSET S : s # {} /\ s \ {Pick(s)} \in T => s \in T
      BY <1>3, <2>1 DEF SumsUp
    <2> HIDE DEF T
    <2>4. S \in T
      BY <2>2, <2>3, SubsetInduction
    <2> QED BY <2>4 DEF T
  <1> QED BY <1>3, <1>6, <1>7

\* A sum of zeros.
LEMMA SumOfZeros ==
  ASSUME NEW S, IsFiniteSet(S), NEW f \in [S -> Int], \A x \in S : f[x] = 0
  PROVE  SumFunction(f) = 0
  <1>1. PICK g \in [SUBSET S -> Int] : SumsUp(g, f, S) /\ SumFunction(f) = g[S]
    BY SumEquation
  <1> DEFINE T == {s \in SUBSET S : g[s] = 0}
  <1>2. T = SUBSET S
    <2>1. T \in SUBSET SUBSET S /\ {} \in T
      BY <1>1 DEF SumsUp
    <2>2. \A s \in SUBSET S : s # {} /\ s \ {Pick(s)} \in T => s \in T
      BY <1>1 DEF SumsUp, Pick
    <2> HIDE DEF T
    <2> QED BY <2>1, <2>2, SubsetInduction
  <1> QED BY <1>1, <1>2

LEMMA SumIsNumber ==
  ASSUME NEW S, IsFiniteSet(S), NEW f \in [S -> Int]
  PROVE  SumFunction(f) \in Int
  <1>1. PICK g \in [SUBSET S -> Int] : SumsUp(g, f, S) /\ SumFunction(f) = g[S]
    BY SumEquation
  <1> QED BY <1>1

\* One element has another value.
LEMMA SumDifference ==
  ASSUME NEW S, IsFiniteSet(S), NEW f \in [S -> Int], NEW h \in [S -> Int], NEW x \in S,
         \A y \in S : y # x => h[y] = f[y]
  PROVE  SumFunction(h) = SumFunction(f) + (h[x] - f[x])
  <1>1. PICK a \in [SUBSET S -> Int] : SumsUp(a, f, S) /\ SumFunction(f) = a[S]
    BY SumEquation
  <1>2. PICK b \in [SUBSET S -> Int] : SumsUp(b, h, S) /\ SumFunction(h) = b[S]
    BY SumEquation
  <1> DEFINE T == {s \in SUBSET S : b[s] = a[s] + (IF x \in s THEN h[x] - f[x] ELSE 0)}
  <1>3. T = SUBSET S
    <2>1. T \in SUBSET SUBSET S /\ {} \in T
      BY <1>1, <1>2 DEF SumsUp
    <2>2. ASSUME NEW s \in SUBSET S, s # {}, s \ {Pick(s)} \in T PROVE s \in T
      <3> DEFINE p == Pick(s)  r == s \ {p}
      <3>1. p \in s /\ p \in S
        BY <2>2 DEF Pick
      <3>2. b[s] = h[p] + b[r] /\ a[s] = f[p] + a[r]
        BY <1>1, <1>2, <2>2 DEF SumsUp
      <3>3. b[r] = a[r] + (IF x \in r THEN h[x] - f[x] ELSE 0)
        BY <2>2
      <3>4. h[p] \in Int /\ f[p] \in Int /\ h[x] \in Int /\ f[x] \in Int /\ a[r] \in Int /\ b[r] \in Int
        BY <3>1
      <3>5. CASE p = x
        <4>1. x \notin r /\ x \in s
          BY <3>1, <3>5
        <4>2. b[s] = a[s] + (h[x] - f[x])
          <5> HIDE DEF p, r
          <5> QED BY <3>2, <3>3, <3>4, <3>5, <4>1
        <4> QED BY <4>1, <4>2
      <3>6. CASE p # x
        <4>1. h[p] = f[p] /\ (x \in r <=> x \in s)
          BY <3>1, <3>6
        <4>2. b[s] = a[s] + (IF x \in s THEN h[x] - f[x] ELSE 0)
          <5> HIDE DEF p, r
          <5> QED BY <3>2, <3>3, <3>4, <4>1
        <4> QED BY <4>2
      <3> QED BY <3>5, <3>6
    <2> HIDE DEF T
    <2> QED BY <2>1, <2>2, SubsetInduction
  <1> QED BY <1>1, <1>2, <1>3

\* Functions that differ at one element only.
DifferAt(f, h, x, S) == \A y \in S : y # x => h[y] = f[y]

\* Then the sums differ by as much.
LEMMA SumChangesAt ==
  ASSUME NEW S, IsFiniteSet(S), NEW f \in [S -> Int], NEW h \in [S -> Int], NEW x \in S, DifferAt(f, h, x, S),
         NEW d \in Int, h[x] = f[x] + d
  PROVE  SumFunction(f) \in Int /\ SumFunction(h) = SumFunction(f) + d
  <1>0. SumFunction(f) \in Int
    BY SumIsNumber
  <1>1. SumFunction(h) = SumFunction(f) + (h[x] - f[x])
    <2>1. \A y \in S : y # x => h[y] = f[y]
      BY DEF DifferAt
    <2> QED BY <2>1, SumDifference
  <1>2. h[x] \in Int /\ f[x] \in Int /\ h[x] - f[x] = d
    BY <1>0
  <1> QED BY <1>0, <1>1, <1>2

\* A set that has every set of whose smaller subsets it has all is every subset.
LEMMA SubsetsBySize ==
  ASSUME NEW S, IsFiniteSet(S), NEW T \in SUBSET SUBSET S,
         \A s \in SUBSET S : (\A r \in SUBSET s : r # s => r \in T) => s \in T
  PROVE  T = SUBSET S
  <1> DEFINE N == {n \in Nat : \A s \in SUBSET S : Cardinality(s) <= n => s \in T}
  <1>0. \A s \in SUBSET S : IsFiniteSet(s) /\ Cardinality(s) \in Nat
    BY FS_Subset, FS_CardinalityType
  <1>1. 0 \in N
    <2>1. \A s \in SUBSET S : Cardinality(s) <= 0 => s = {}
      BY <1>0, FS_EmptySet
    <2> QED BY <2>1
  <1>2. ASSUME NEW n \in N PROVE n + 1 \in N
    <2>1. ASSUME NEW s \in SUBSET S, Cardinality(s) <= n + 1 PROVE s \in T
      <3>1. ASSUME NEW r \in SUBSET s, r # s PROVE r \in T
        <4>1. Cardinality(r) < Cardinality(s)
          BY <1>0, <3>1, FS_Subset
        <4>2. Cardinality(r) <= n
          BY <1>0, <2>1, <3>1, <4>1
        <4> QED BY <1>2, <3>1, <4>2
      <3> QED BY <3>1
    <2> QED BY <2>1
  <1>3. N = Nat
    <2>1. N \in SUBSET Nat /\ \A n \in N : n + 1 \in N
      BY <1>2
    <2> HIDE DEF N
    <2> QED BY <1>1, <2>1, SetInduction
  <1>4. Cardinality(S) \in N
    BY <1>0, <1>3
  <1>5. \A s \in SUBSET S : Cardinality(s) <= Cardinality(S)
    BY <1>0, FS_Subset
  <1> QED BY <1>4, <1>5

\* A set with one more element.
OneMore(S, x, all) == x \notin S /\ all = S \cup {x}

\* The sums of a function over the subsets of its domain.
SumTable(g, f, S) == f \in [S -> Int] /\ g \in [SUBSET S -> Int] /\ SumsUp(g, f, S)

\* Any element may be taken first.
LEMMA SumTakes ==
  ASSUME NEW S, IsFiniteSet(S), NEW f, NEW g, SumTable(g, f, S),
         NEW first, NEW rest, OneMore(rest, first, S)
  PROVE  g[S] = f[first] + g[rest]
  <1>0. f \in [S -> Int] /\ g \in [SUBSET S -> Int] /\ SumsUp(g, f, S)
    BY DEF SumTable
  <1> DEFINE T == {s \in SUBSET S : \A q \in s : g[s] = f[q] + g[s \ {q}]}
  <1>1. ASSUME NEW s \in SUBSET S, \A r \in SUBSET s : r # s => r \in T PROVE s \in T
    <2> SUFFICES ASSUME NEW q \in s PROVE g[s] = f[q] + g[s \ {q}]
      OBVIOUS
    <2> DEFINE p == Pick(s)
    <2>1. p \in s /\ g[s] = f[p] + g[s \ {p}]
      BY <1>0 DEF SumsUp, Pick
    <2> HIDE DEF p
    <2>2. CASE q = p
      BY <2>1, <2>2
    <2>3. CASE q # p
      <3>1. s \ {p} \in T /\ s \ {q} \in T
        BY <1>1, <2>1
      <3>2. q \in s \ {p} /\ p \in s \ {q}
        BY <2>1, <2>3
      <3>3. g[s \ {p}] = f[q] + g[(s \ {p}) \ {q}] /\ g[s \ {q}] = f[p] + g[(s \ {q}) \ {p}]
        BY <3>1, <3>2
      <3>4. (s \ {p}) \ {q} = (s \ {q}) \ {p} /\ (s \ {p}) \ {q} \in SUBSET S
        OBVIOUS
      <3>5. f[p] \in Int /\ f[q] \in Int /\ g[(s \ {p}) \ {q}] \in Int
        BY <1>0, <2>1, <3>4
      <3>6. g[s \ {p}] = f[q] + g[(s \ {p}) \ {q}] /\ g[s \ {q}] = f[p] + g[(s \ {p}) \ {q}]
        BY <3>3, <3>4
      <3> DEFINE m == f[p]
                 n == f[q]
                 both == g[(s \ {p}) \ {q}]
      <3>7. m \in Int /\ n \in Int /\ both \in Int /\ g[s] = m + (n + both) /\ g[s \ {q}] = m + both
        BY <2>1, <3>5, <3>6
      <3> HIDE DEF m, both
      <3>8. g[s] = n + g[s \ {q}]
        <4> HIDE DEF n
        <4> QED BY <3>7
      <3> QED BY <3>8
    <2> QED BY <2>2, <2>3
  <1>2. T \in SUBSET SUBSET S
    OBVIOUS
  <1>3. T = SUBSET S
    <2> HIDE DEF T
    <2> QED BY <1>1, <1>2, SubsetsBySize
  <1>4. S \in T /\ first \in S /\ rest = S \ {first}
    BY <1>3 DEF OneMore
  <1> QED BY <1>4

\* What a function is on a smaller set.
SameOn(f, h, S) == \A y \in S : h[y] = f[y]

\* The sum over a set with one more element.
LEMMA SumGrows ==
  ASSUME NEW S, IsFiniteSet(S), NEW x, NEW all, OneMore(S, x, all), NEW f \in [S -> Int],
         NEW h \in [all -> Int], SameOn(f, h, S)
  PROVE  SumFunction(f) \in Int /\ SumFunction(h) = SumFunction(f) + h[x]
  <1>0. IsFiniteSet(all) /\ x \in all /\ all \ {x} = S
    BY FS_AddElement DEF OneMore
  <1>1. PICK a \in [SUBSET S -> Int] : SumsUp(a, f, S) /\ SumFunction(f) = a[S]
    BY <1>0, SumEquation
  <1>2. PICK b \in [SUBSET all -> Int] : SumsUp(b, h, all) /\ SumFunction(h) = b[all]
    BY <1>0, SumEquation
  <1>3. b[all] = h[x] + b[S]
    <2>1. SumTable(b, h, all)
      BY <1>2 DEF SumTable
    <2> QED BY <1>0, <2>1, SumTakes
  <1> DEFINE T == {s \in SUBSET S : b[s] = a[s]}
  <1>4. T = SUBSET S
    <2>1. T \in SUBSET SUBSET S /\ {} \in T
      BY <1>1, <1>2 DEF SumsUp
    <2>2. ASSUME NEW s \in SUBSET S, s # {}, s \ {Pick(s)} \in T PROVE s \in T
      <3>1. Pick(s) \in S /\ s \in SUBSET all
        BY <2>2 DEF Pick, OneMore
      <3>2. h[Pick(s)] = f[Pick(s)]
        BY <3>1 DEF SameOn
      <3>3. b[s] = h[Pick(s)] + b[s \ {Pick(s)}] /\ a[s] = f[Pick(s)] + a[s \ {Pick(s)}]
        BY <1>1, <1>2, <2>2, <3>1 DEF SumsUp
      <3> QED BY <2>2, <3>2, <3>3
    <2> HIDE DEF T
    <2> QED BY <1>0, <2>1, <2>2, SubsetInduction
  <1> QED BY <1>0, <1>1, <1>2, <1>3, <1>4

\* The sum over one element.
LEMMA SumOfOne ==
  ASSUME NEW x, NEW S, S = {x}, NEW h \in [S -> Int]
  PROVE  SumFunction(h) = h[x]
  <1>1. IsFiniteSet(S)
    BY FS_Singleton
  <1>2. PICK b \in [SUBSET S -> Int] : SumsUp(b, h, S) /\ SumFunction(h) = b[S]
    BY <1>1, SumEquation
  <1>3. Pick(S) = x /\ S \ {Pick(S)} = {} /\ S # {} /\ S \in SUBSET S
    BY DEF Pick
  <1>4. b[S] = h[x] + b[{}] /\ b[{}] = 0
    BY <1>2, <1>3 DEF SumsUp
  <1>5. h[x] \in Int
    OBVIOUS
  <1> QED BY <1>2, <1>4, <1>5

\* What relates three functions at every element relates their sums.
PointwiseSum(f, g, h, S) == \A x \in S : h[x] = f[x] + g[x]

LEMMA SumOfBoth ==
  ASSUME NEW S, IsFiniteSet(S), NEW f \in [S -> Int], NEW g \in [S -> Int], NEW h \in [S -> Int],
         PointwiseSum(f, g, h, S)
  PROVE  SumFunction(h) = SumFunction(f) + SumFunction(g)
  <1>1. PICK a \in [SUBSET S -> Int] : SumsUp(a, f, S) /\ SumFunction(f) = a[S]
    BY SumEquation
  <1>2. PICK b \in [SUBSET S -> Int] : SumsUp(b, g, S) /\ SumFunction(g) = b[S]
    BY SumEquation
  <1>3. PICK c \in [SUBSET S -> Int] : SumsUp(c, h, S) /\ SumFunction(h) = c[S]
    BY SumEquation
  <1> DEFINE T == {s \in SUBSET S : c[s] = a[s] + b[s]}
  <1>4. T = SUBSET S
    <2>1. T \in SUBSET SUBSET S /\ {} \in T
      BY <1>1, <1>2, <1>3 DEF SumsUp
    <2>2. ASSUME NEW s \in SUBSET S, s # {}, s \ {Pick(s)} \in T PROVE s \in T
      <3> DEFINE p == Pick(s)  r == s \ {p}
      <3>1. p \in S /\ r \in SUBSET S
        BY <2>2 DEF Pick
      <3>2. a[s] = f[p] + a[r] /\ b[s] = g[p] + b[r] /\ c[s] = h[p] + c[r]
        BY <1>1, <1>2, <1>3, <2>2 DEF SumsUp
      <3>3. c[r] = a[r] + b[r] /\ h[p] = f[p] + g[p]
        BY <2>2, <3>1 DEF PointwiseSum
      <3>4. /\ f[p] \in Int /\ g[p] \in Int /\ h[p] \in Int
            /\ a[r] \in Int /\ b[r] \in Int /\ c[r] \in Int
        BY <3>1
      <3> HIDE DEF p, r
      <3>5. c[s] = a[s] + b[s]
        BY <3>2, <3>3, <3>4
      <3> QED BY <3>5
    <2> HIDE DEF T
    <2> QED BY <2>1, <2>2, SubsetInduction
  <1> QED BY <1>1, <1>2, <1>3, <1>4

\* Functions whose values at an element differ by a number.
MovedBy(f, h, S, x, d) ==
  f \in [S -> Int] /\ h \in [S -> Int] /\ x \in S /\ d \in Int /\ h[x] = f[x] + d /\ DifferAt(f, h, x, S)

LEMMA SumMoved ==
  ASSUME NEW S, IsFiniteSet(S), NEW f, NEW h, NEW x, NEW d, MovedBy(f, h, S, x, d)
  PROVE  SumFunction(f) \in Int /\ SumFunction(h) = SumFunction(f) + d
  <1>1. f \in [S -> Int] /\ h \in [S -> Int] /\ x \in S /\ d \in Int /\ h[x] = f[x] + d /\ DifferAt(f, h, x, S)
    BY DEF MovedBy
  <1> QED BY <1>1, SumChangesAt

\* Functions of which one has a further element with a number for value.
GrowsBy(f, h, S, x, all, d) ==
  f \in [S -> Int] /\ h \in [all -> Int] /\ OneMore(S, x, all) /\ SameOn(f, h, S) /\ h[x] = d

LEMMA SumGrown ==
  ASSUME NEW S, IsFiniteSet(S), NEW f, NEW h, NEW x, NEW all, NEW d, GrowsBy(f, h, S, x, all, d)
  PROVE  SumFunction(f) \in Int /\ SumFunction(h) = SumFunction(f) + d
  <1>1. f \in [S -> Int] /\ h \in [all -> Int] /\ OneMore(S, x, all) /\ SameOn(f, h, S) /\ h[x] = d
    BY DEF GrowsBy
  <1> QED BY <1>1, SumGrows

-----------------------------------------------------------------------------
\* Totals over sequences, whose elements have a weight each.

\* The sum of the first k elements of a sequence, weighed.
SumTo(s, w, k) == SumFunction([i \in 1 .. k |-> w[s[i]]])

TotalOf(s, w) == SumTo(s, w, Len(s))

LEMMA SumToNext ==
  ASSUME NEW V, NEW s \in Seq(V), NEW w \in [V -> Int]
  PROVE  /\ SumTo(s, w, 0) = 0 /\ TotalOf(s, w) \in Int
         /\ \A k \in 0 .. Len(s) : SumTo(s, w, k) \in Int
         /\ \A k \in 1 .. Len(s) : SumTo(s, w, k) = SumTo(s, w, k - 1) + w[s[k]]
  <1> DEFINE F(k) == [i \in 1 .. k |-> w[s[i]]]
  <1>1. ASSUME NEW k \in 0 .. Len(s) PROVE F(k) \in [1 .. k -> Int] /\ IsFiniteSet(1 .. k)
    <2>1. \A i \in 1 .. k : w[s[i]] \in Int
      <3>1. \A i \in 1 .. k : i \in 1 .. Len(s)
        OBVIOUS
      <3> QED BY <3>1
    <2> QED BY <2>1, FS_Interval
  <1>2. SumTo(s, w, 0) = 0
    <2>1. F(0) \in [1 .. 0 -> Int] /\ IsFiniteSet(1 .. 0) /\ \A x \in 1 .. 0 : F(0)[x] = 0
      BY <1>1
    <2>2. SumFunction(F(0)) = 0
      <3> HIDE DEF F
      <3> QED BY <2>1, SumOfZeros
    <2> QED BY <2>2 DEF SumTo
  <1>3. ASSUME NEW k \in 1 .. Len(s)
        PROVE  SumTo(s, w, k - 1) \in Int /\ SumTo(s, w, k) = SumTo(s, w, k - 1) + w[s[k]]
    <2> DEFINE S == 1 .. k - 1
               all == 1 .. k
               f == F(k - 1)
               h == F(k)
               d == w[s[k]]
    <2>1. k - 1 \in 0 .. Len(s) /\ k \in 0 .. Len(s)
      OBVIOUS
    <2>2. f \in [S -> Int] /\ h \in [all -> Int] /\ IsFiniteSet(S)
      BY <1>1, <2>1
    <2>3. OneMore(S, k, all)
      BY DEF OneMore
    <2>4. SameOn(f, h, S) /\ h[k] = d
      BY DEF SameOn
    <2> HIDE DEF S, all, f, h, d
    <2>5. GrowsBy(f, h, S, k, all, d)
      BY <2>2, <2>3, <2>4 DEF GrowsBy
    <2>6. SumFunction(f) \in Int /\ SumFunction(h) = SumFunction(f) + d
      BY <2>2, <2>5, SumGrown
    <2> QED BY <2>6 DEF f, h, d, SumTo
  <1>4. ASSUME NEW k \in 0 .. Len(s) PROVE SumTo(s, w, k) \in Int
    <2>1. CASE k = 0
      BY <1>2, <2>1
    <2>2. CASE k # 0
      <3>1. k \in 1 .. Len(s) /\ w[s[k]] \in Int
        BY <2>2
      <3> QED BY <1>3, <3>1
    <2> QED BY <2>1, <2>2
  <1>5. Len(s) \in 0 .. Len(s)
    OBVIOUS
  <1> QED BY <1>2, <1>3, <1>4, <1>5 DEF TotalOf

\* Two sequences put together have the total of both.
LEMMA TotalJoin ==
  ASSUME NEW V, NEW a \in Seq(V), NEW b \in Seq(V), NEW w \in [V -> Int]
  PROVE  TotalOf(a \o b, w) = TotalOf(a, w) + TotalOf(b, w)
  <1> DEFINE c == a \o b
             n == Len(a)
             m == Len(b)
  <1>1. /\ c \in Seq(V) /\ Len(c) = n + m /\ n \in Nat /\ m \in Nat
        /\ \A i \in 1 .. n + m : c[i] = IF i <= n THEN a[i] ELSE b[i - n]
    BY ConcatProperties
  <1>2. SumTo(c, w, n) = SumTo(a, w, n)
    <2>1. \A i \in 1 .. n : c[i] = a[i]
      <3>1. \A i \in 1 .. n : i \in 1 .. n + m /\ i <= n
        BY <1>1
      <3> HIDE DEF c, n, m
      <3> QED BY <1>1, <3>1
    <2> HIDE DEF c
    <2> QED BY <2>1 DEF SumTo
  <1> HIDE DEF c
  <1> DEFINE T == {k \in Nat : k \in 0 .. m => SumTo(c, w, n + k) = SumTo(a, w, n) + SumTo(b, w, k)}
  <1>3. 0 \in T
    <2>1. SumTo(b, w, 0) = 0 /\ SumTo(a, w, n) \in Int
      BY SumToNext DEF TotalOf
    <2> QED BY <1>1, <1>2, <2>1
  <1>4. ASSUME NEW k \in T PROVE k + 1 \in T
    <2> SUFFICES ASSUME k + 1 \in 0 .. m
                 PROVE  SumTo(c, w, n + (k + 1)) = SumTo(a, w, n) + SumTo(b, w, k + 1)
      OBVIOUS
    <2>1. k \in Nat /\ k \in 0 .. m /\ k + 1 \in 1 .. m /\ n + (k + 1) \in 1 .. Len(c)
          /\ (n + (k + 1)) - 1 = n + k /\ (k + 1) - 1 = k
      BY <1>1
    <2>2. SumTo(c, w, n + (k + 1)) = SumTo(c, w, n + k) + w[c[n + (k + 1)]]
      <3> DEFINE j == n + (k + 1)
      <3>1. j \in 1 .. Len(c) /\ j - 1 = n + k
        BY <2>1
      <3> HIDE DEF j, n
      <3>2. SumTo(c, w, j) = SumTo(c, w, j - 1) + w[c[j]]
        BY <1>1, <3>1, SumToNext
      <3> QED BY <3>1, <3>2 DEF j
    <2>3. SumTo(b, w, k + 1) = SumTo(b, w, k) + w[b[k + 1]]
      <3> DEFINE j == k + 1
      <3>1. j \in 1 .. Len(b) /\ j - 1 = k
        BY <2>1
      <3> HIDE DEF j
      <3>2. SumTo(b, w, j) = SumTo(b, w, j - 1) + w[b[j]]
        BY <3>1, SumToNext
      <3> QED BY <3>1, <3>2 DEF j
    <2>4. c[n + (k + 1)] = b[k + 1] /\ w[b[k + 1]] \in Int
      <3>1. n + (k + 1) \in 1 .. n + m /\ ~(n + (k + 1) <= n) /\ (n + (k + 1)) - n = k + 1
        BY <1>1, <2>1
      <3>2. b[k + 1] \in V
        BY <2>1
      <3> HIDE DEF n, m
      <3> QED BY <1>1, <3>1, <3>2
    <2>5. SumTo(c, w, n + k) = SumTo(a, w, n) + SumTo(b, w, k)
      BY <2>1
    <2>6. SumTo(a, w, n) \in Int /\ SumTo(b, w, k) \in Int
      BY <1>1, <2>1, SumToNext DEF TotalOf
    <2> HIDE DEF n, m
    <2> QED BY <2>2, <2>3, <2>4, <2>5, <2>6
  <1>5. T = Nat
    <2>1. T \in SUBSET Nat
      OBVIOUS
    <2> HIDE DEF T
    <2> QED BY <1>3, <1>4, <2>1, SetInduction
  <1>6. SumTo(c, w, n + m) = SumTo(a, w, n) + SumTo(b, w, m)
    <2>1. m \in T /\ m \in 0 .. m
      <3> HIDE DEF T, m
      <3> QED BY <1>1, <1>5
    <2> HIDE DEF n, m
    <2> QED BY <2>1
  <1> QED BY <1>1, <1>6 DEF TotalOf, c

\* No element, and one.
LEMMA TotalOfFew ==
  ASSUME NEW V, NEW x \in V, NEW w \in [V -> Int]
  PROVE  TotalOf(<<>>, w) = 0 /\ TotalOf(<<x>>, w) = w[x]
  <1> DEFINE e == <<>>
             o == <<x>>
  <1>1. e \in Seq(V) /\ Len(e) = 0 /\ o \in Seq(V) /\ Len(o) = 1 /\ o[1] = x /\ w[x] \in Int
    OBVIOUS
  <1> HIDE DEF e, o
  <1>2. SumTo(e, w, 0) = 0 /\ SumTo(o, w, 0) = 0
    BY <1>1, SumToNext
  <1>3. SumTo(o, w, 1) = SumTo(o, w, 1 - 1) + w[o[1]]
    <2>1. 1 \in 1 .. Len(o)
      BY <1>1
    <2> QED BY <1>1, <2>1, SumToNext
  <1>4. TotalOf(e, w) = 0 /\ TotalOf(o, w) = w[x]
    BY <1>1, <1>2, <1>3 DEF TotalOf
  <1> QED BY <1>4 DEF e, o

\* An element is appended, and the first is taken.
LEMMA TotalAppend ==
  ASSUME NEW V, NEW s \in Seq(V), NEW x \in V, NEW w \in [V -> Int]
  PROVE  TotalOf(Append(s, x), w) = TotalOf(s, w) + w[x]
  <1> DEFINE b == <<x>>
  <1>1. b \in Seq(V) /\ Append(s, x) = s \o b
    BY AppendIsConcat
  <1>2. TotalOf(b, w) = w[x]
    BY TotalOfFew
  <1> HIDE DEF b
  <1>3. TotalOf(s \o b, w) = TotalOf(s, w) + TotalOf(b, w)
    BY <1>1, TotalJoin
  <1> QED BY <1>1, <1>2, <1>3

LEMMA TotalTail ==
  ASSUME NEW V, NEW s \in Seq(V), s # <<>>, NEW w \in [V -> Int]
  PROVE  TotalOf(s, w) = w[Head(s)] + TotalOf(Tail(s), w)
  <1> DEFINE a == <<Head(s)>>
             t == Tail(s)
  <1>1. Head(s) \in V /\ t \in Seq(V) /\ a \in Seq(V) /\ a \o t = s
    BY HeadAndTail
  <1>2. TotalOf(a, w) = w[Head(s)]
    BY <1>1, TotalOfFew
  <1> HIDE DEF a, t
  <1>3. TotalOf(a \o t, w) = TotalOf(a, w) + TotalOf(t, w)
    BY <1>1, TotalJoin
  <1> QED BY <1>1, <1>2, <1>3 DEF t
=============================================================================
