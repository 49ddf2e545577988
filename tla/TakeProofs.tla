------------------------------- MODULE TakeProofs ------------------------------
(***************************************************************************)
(* What a take of the training buffer hands out, for any queue, batch      *)
(* size, environment caps and ages: as many groups as there are, extras    *)
(* only when short, the oldest urgent groups first, and one suspect.       *)
(***************************************************************************)
EXTENDS TrainerProofs, FiniteSetTheorems, WellFoundedInduction

\* Zenon is the default prover; the steps of arithmetic and of records name SMT.
USE Zenon

--------------------------------------------------------------------------------
(* Induction: the predicate is a set, so that the provers need no operator argument.*)

\* A set of naturals that is not empty has a least member.
LEMMA LeastNat ==
    ASSUME NEW T, T \subseteq Nat, T # {}
    PROVE  \E n \in T : \A m \in T : n <= m
<1>1. PICK n \in T : \A m \in T : ~ (<<m, n>> \in OpToRel(<, Nat))
  BY WFMin, NatLessThanWellFounded
<1>2. ASSUME NEW m \in T PROVE n <= m
  <2>1. n \in Nat /\ m \in Nat
    OBVIOUS
  <2>2. ~ (m < n)
    <3>1. SUFFICES ASSUME m < n PROVE <<m, n>> \in OpToRel(<, Nat)
      BY <1>1
    <3>2. QED
      BY <2>1, <3>1 DEF OpToRel
  <2>3. QED
    BY <2>1, <2>2, SMT
<1>3. QED
  BY <1>2

\* Induction over the naturals, for a set G of them.
LEMMA NatInduct ==
    ASSUME NEW G, 0 \in G, \A n \in Nat : n \in G => n + 1 \in G
    PROVE  \A n \in Nat : n \in G
<1> DEFINE Bad == {n \in Nat : n \notin G}
<1>1. SUFFICES ASSUME Bad # {} PROVE FALSE
  OBVIOUS
<1>2. PICK n \in Bad : \A m \in Bad : n <= m
  BY <1>1, LeastNat
<1>3. n \in Nat /\ n # 0 /\ n - 1 \in Nat /\ n - 1 \notin Bad
  BY <1>2, SMT
<1>4. n - 1 \in G /\ (n - 1) + 1 = n
  BY <1>3, SMT
<1>5. QED
  BY <1>3, <1>4

\* Induction over the subsets of a finite set: G has a subset once it has it without any one element.
LEMMA SetInduct ==
    ASSUME NEW S, IsFiniteSet(S), NEW G,
           \A T \in SUBSET S : (\A x \in T : T \ {x} \in G) => T \in G
    PROVE  \A T \in SUBSET S : T \in G
<1> DEFINE N == {n \in Nat : \A T \in SUBSET S : Cardinality(T) <= n => T \in G}
<1>0. \A T \in SUBSET S : IsFiniteSet(T) /\ Cardinality(T) \in Nat
  BY FS_Subset, FS_CardinalityType
<1>1. 0 \in N
  <2>1. ASSUME NEW T \in SUBSET S, Cardinality(T) <= 0 PROVE T = {}
    BY <1>0, <2>1, FS_EmptySet, SMT
  <2>2. QED
    BY <2>1
<1>2. ASSUME NEW n \in Nat, n \in N PROVE n + 1 \in N
  <2>1. SUFFICES ASSUME NEW T \in SUBSET S, Cardinality(T) <= n + 1 PROVE T \in G
    BY SMT
  <2>2. ASSUME NEW x \in T PROVE T \ {x} \in G
    <3>1. Cardinality(T \ {x}) = Cardinality(T) - 1 /\ T \ {x} \in SUBSET S
      BY <1>0, FS_RemoveElement
    <3>2. Cardinality(T \ {x}) <= n
      BY <1>0, <2>1, <3>1, SMT
    <3>3. QED
      BY <1>2, <3>1, <3>2
  <2>3. QED
    BY <2>2
<1>3. \A n \in Nat : n \in N
  <2> HIDE DEF N
  <2> QED BY <1>1, <1>2, NatInduct
<1>4. QED
  <2> TAKE T \in SUBSET S
  <2>1. Cardinality(T) \in N
    BY <1>0, <1>3
  <2> QED BY <2>1, <1>0, SMT

\* Max of two integers.
LEMMA MaxOfTwo ==
    ASSUME NEW a \in Int, NEW b \in Int
    PROVE  Max({a, b}) = (IF a <= b THEN b ELSE a)
<1>1. \E x \in {a, b} : \A y \in {a, b} : x >= y
  BY SMT
<1> QED BY <1>1, SMT DEF Max

\* What is more than the greater of two is more than each of them.
LEMMA MoreThanBoth ==
    ASSUME NEW a \in Nat, NEW b \in Nat, NEW c \in Nat, c > Max({a, b})
    PROVE  c > a /\ c > b
  BY MaxOfTwo, SMT

\* Min of two integers.
LEMMA MinOfTwo ==
    ASSUME NEW a \in Int, NEW b \in Int
    PROVE  Min({a, b}) = (IF a <= b THEN a ELSE b)
<1>1. \E x \in {a, b} : \A y \in {a, b} : x <= y
  BY SMT
<1> QED BY <1>1, SMT DEF Min

--------------------------------------------------------------------------------
(* The first n of an ordered set, and what mixed_take hands out.           *)

\* R orders S.
Orders(R, S) ==
    \A x, y \in S :
        /\ x # y => <<x, y>> \in R \/ <<y, x>> \in R
        /\ ~ (<<x, y>> \in R /\ <<y, x>> \in R)
        /\ \A z \in S : <<x, y>> \in R /\ <<y, z>> \in R => <<x, z>> \in R

\* Those before g, and the first n of T.
Preceding(R, T, g) == {h \in T : <<h, g>> \in R}
FirstOf(R, T, n) == {g \in T : Cardinality(Preceding(R, T, g)) < n}

\* A finite set that is not empty has a last member.
LEMMA LastOf ==
    ASSUME NEW R, NEW S, IsFiniteSet(S), Orders(R, S), NEW T \in SUBSET S, T # {}
    PROVE  \E m \in T : \A x \in T : x # m => <<x, m>> \in R
<1> DEFINE G == {U \in SUBSET S : U # {} => \E m \in U : \A x \in U : x # m => <<x, m>> \in R}
<1>1. ASSUME NEW U \in SUBSET S, \A x \in U : U \ {x} \in G PROVE U \in G
  <2>1. SUFFICES ASSUME U # {} PROVE \E m \in U : \A x \in U : x # m => <<x, m>> \in R
    OBVIOUS
  <2>2. PICK a \in U : TRUE
    BY <2>1
  <2>3. CASE U \ {a} = {}
    BY <2>3
  <2>4. CASE U \ {a} # {}
    <3>1. PICK m \in U \ {a} : \A x \in U \ {a} : x # m => <<x, m>> \in R
      BY <1>1, <2>2, <2>4
    <3>2. CASE <<a, m>> \in R
      BY <3>1, <3>2
    <3>3. CASE <<m, a>> \in R
      <4>1. ASSUME NEW x \in U, x # a PROVE <<x, a>> \in R
        BY <3>1, <3>3, <4>1, <2>2 DEF Orders
      <4> QED BY <4>1
    <3> QED BY <3>1, <3>2, <3>3 DEF Orders
  <2> QED BY <2>3, <2>4
<1> HIDE DEF G
<1>2. T \in G
  BY <1>1, SetInduct
<1> QED BY <1>2 DEF G

\* The first n of a set are n, or all of them.
LEMMA FirstCard ==
    ASSUME NEW R, NEW S, IsFiniteSet(S), Orders(R, S), NEW T \in SUBSET S, NEW n \in Nat
    PROVE  /\ IsFiniteSet(FirstOf(R, T, n))
           /\ Cardinality(T) <= n => FirstOf(R, T, n) = T
           /\ Cardinality(T) > n => Cardinality(FirstOf(R, T, n)) = n
<1> DEFINE F(U) == FirstOf(R, U, n)
           G == {U \in SUBSET S : /\ Cardinality(U) <= n => F(U) = U
                                  /\ Cardinality(U) > n => Cardinality(F(U)) = n}
<1>0. \A U \in SUBSET S : IsFiniteSet(U) /\ Cardinality(U) \in Nat /\ F(U) \in SUBSET U /\ IsFiniteSet(F(U))
  <2>1. \A U \in SUBSET S : IsFiniteSet(U) /\ Cardinality(U) \in Nat
    BY FS_Subset, FS_CardinalityType
  <2>2. \A U : F(U) \in SUBSET U
    BY DEF FirstOf
  <2> HIDE DEF F
  <2> QED BY <2>1, <2>2, FS_Subset
<1>1. ASSUME NEW U \in SUBSET S, \A x \in U : U \ {x} \in G PROVE U \in G
  <2>1. CASE U = {}
    <3>1. F(U) = U /\ Cardinality(U) = 0
      BY <2>1, FS_EmptySet DEF FirstOf
    <3> QED BY <3>1, SMT
  <2>2. CASE U # {}
    <3>1. PICK m \in U : \A x \in U : x # m => <<x, m>> \in R
      BY <2>2, LastOf, SMT
    <3> DEFINE V == U \ {m}
    <3>2. V \in G /\ V \in SUBSET S
      BY <1>1
    <3>3. Cardinality(U) = Cardinality(V) + 1 /\ Cardinality(V) \in Nat
      <4>1. IsFiniteSet(U) /\ Cardinality(U) \in Nat
        BY <1>0
      <4>2. Cardinality(V) = Cardinality(U) - 1
        BY <4>1, FS_RemoveElement
      <4>3. Cardinality(V) \in Nat
        BY <1>0, <3>2
      <4> HIDE DEF V
      <4> QED BY <4>1, <4>2, <4>3, SMT
    <3>4. ASSUME NEW g \in V PROVE Preceding(R, U, g) = Preceding(R, V, g)
      BY <3>1 DEF Orders, Preceding
    <3>5. Preceding(R, U, m) = V
      BY <3>1 DEF Orders, Preceding
    <3>6. F(U) = IF Cardinality(V) < n THEN F(V) \union {m} ELSE F(V)
      <4>1. \A g \in V : g \in F(U) <=> g \in F(V)
        BY <3>4 DEF FirstOf
      <4>2. m \in F(U) <=> Cardinality(V) < n
        BY <3>5 DEF FirstOf
      <4>3. F(U) \subseteq V \union {m} /\ F(V) \subseteq V /\ m \notin V
        BY DEF FirstOf
      <4> HIDE DEF F, V
      <4> QED BY <4>1, <4>2, <4>3, SMT
    <3>7. m \notin F(V)
      BY DEF FirstOf
    <3>8. /\ Cardinality(V) <= n => F(V) = V
          /\ Cardinality(V) > n => Cardinality(F(V)) = n
      BY <3>2
    <3>9. U = V \union {m}
      OBVIOUS
    <3> HIDE DEF F, V
    <3>10. CASE Cardinality(V) < n
      <4>1. F(V) = V /\ F(U) = F(V) \union {m}
        BY <3>3, <3>6, <3>8, <3>10, SMT
      <4>2. F(U) = U
        BY <3>9, <4>1
      <4>3. ~ (Cardinality(U) > n)
        BY <3>3, <3>10, SMT
      <4> QED BY <4>2, <4>3
    <3>11. CASE Cardinality(V) >= n
      <4>1. F(U) = F(V) /\ Cardinality(F(V)) = n
        BY <3>3, <3>6, <3>8, <3>11, SMT
      <4> QED BY <3>3, <3>11, <4>1, SMT
    <3> QED BY <3>3, <3>10, <3>11, SMT
  <2> QED BY <2>1, <2>2
<1> HIDE DEF G, F
<1>2. T \in G
  BY <1>1, SetInduct
<1>3. /\ Cardinality(T) <= n => F(T) = T
      /\ Cardinality(T) > n => Cardinality(F(T)) = n
  BY <1>2 DEF G
<1> QED BY <1>0, <1>3 DEF F

\* The groups of a queue are numbers, and have checkpoints.
IsQueue(b, S) == IsFiniteSet(S) /\ S \subseteq Nat /\ \A g \in S : b[g].k \in Nat

\* Oldest hands out n groups, or all of them.
LEMMA OldestCard ==
    ASSUME NEW S, IsFiniteSet(S), S \subseteq Nat, NEW n \in Nat
    PROVE  /\ Oldest(S, n) \in SUBSET S /\ IsFiniteSet(Oldest(S, n))
           /\ Cardinality(S) <= n => Oldest(S, n) = S
           /\ Cardinality(S) > n => Cardinality(Oldest(S, n)) = n
<1> DEFINE R == {e \in Nat \X Nat : e[1] < e[2]}
<1>1. \A x, y \in Nat : <<x, y>> \in R <=> x < y
  OBVIOUS
<1> HIDE DEF R
<1>2. Orders(R, S)
  <2>1. ASSUME NEW x \in S, NEW y \in S
        PROVE  (x # y => <<x, y>> \in R \/ <<y, x>> \in R) /\ ~ (<<x, y>> \in R /\ <<y, x>> \in R)
    <3>1. (<<x, y>> \in R <=> x < y) /\ (<<y, x>> \in R <=> y < x)
      BY <1>1
    <3> QED BY <3>1, SMT
  <2>2. \A x, y, z \in S : <<x, y>> \in R /\ <<y, z>> \in R => <<x, z>> \in R
    BY <1>1, SMT
  <2> QED BY <2>1, <2>2 DEF Orders
<1>3. \A g \in S : Preceding(R, S, g) = {h \in S : h < g}
  BY <1>1 DEF Preceding
<1>4. Oldest(S, n) = FirstOf(R, S, n)
  BY <1>3 DEF Oldest, FirstOf
<1>5. S \in SUBSET S
  OBVIOUS
<1>6. /\ IsFiniteSet(FirstOf(R, S, n))
      /\ Cardinality(S) <= n => FirstOf(R, S, n) = S
      /\ Cardinality(S) > n => Cardinality(FirstOf(R, S, n)) = n
  BY <1>2, <1>5, FirstCard
<1> QED BY <1>4, <1>6 DEF Oldest

Late(b, S, below) == {g \in S : b[g].k < below}
Sooner(b, h, g) == b[h].k < b[g].k \/ (b[h].k = b[g].k /\ h < g)
SoonerOf(b, T) == {e \in T \X T : Sooner(b, e[1], e[2])}

\* The urgent groups of a take are the first of the late ones, by checkpoint.
LEMMA UrgentFirst ==
    ASSUME NEW b, NEW S, IsQueue(b, S), NEW n \in Nat, NEW below
    PROVE  LET T == Late(b, S, below) R == SoonerOf(b, T)
           IN  T \in SUBSET S /\ IsFiniteSet(T) /\ Orders(R, T) /\ Urgent(b, S, n, below) = FirstOf(R, T, n)
<1> DEFINE T == Late(b, S, below)
           R == SoonerOf(b, T)
<1>1. T \in SUBSET S
  BY DEF Late
<1>2. IsFiniteSet(T)
  BY <1>1, FS_Subset DEF IsQueue
<1>3. \A x \in T : x \in Nat /\ b[x].k \in Nat
  BY <1>1 DEF IsQueue
<1>4. \A x, y \in T : <<x, y>> \in R <=> Sooner(b, x, y)
  BY DEF SoonerOf
<1>5. Urgent(b, S, n, below) = {g \in T : Cardinality({h \in T : Sooner(b, h, g)}) < n}
  BY DEF Urgent, Late, Sooner
<1> HIDE DEF T, R
<1>6. Orders(R, T)
  <2>1. ASSUME NEW x \in T, NEW y \in T
        PROVE  (x # y => <<x, y>> \in R \/ <<y, x>> \in R) /\ ~ (<<x, y>> \in R /\ <<y, x>> \in R)
    <3>1. (<<x, y>> \in R <=> Sooner(b, x, y)) /\ (<<y, x>> \in R <=> Sooner(b, y, x))
      BY <1>4
    <3> QED BY <3>1, <1>3, SMT DEF Sooner
  <2>2. \A x, y, z \in T : <<x, y>> \in R /\ <<y, z>> \in R => <<x, z>> \in R
    BY <1>3, <1>4, SMT DEF Sooner
  <2> QED BY <2>1, <2>2 DEF Orders
<1>7. \A g \in T : Preceding(R, T, g) = {h \in T : Sooner(b, h, g)}
  BY <1>4 DEF Preceding
<1>8. Urgent(b, S, n, below) = FirstOf(R, T, n)
  BY <1>5, <1>7 DEF FirstOf
<1> QED BY <1>1, <1>2, <1>6, <1>8 DEF T, R

\* They are n, or all the late ones.
LEMMA UrgentCard ==
    ASSUME NEW b, NEW S, IsQueue(b, S), NEW n \in Nat, NEW below
    PROVE  /\ Late(b, S, below) \in SUBSET S /\ IsFiniteSet(Late(b, S, below))
           /\ Urgent(b, S, n, below) \in SUBSET Late(b, S, below) /\ IsFiniteSet(Urgent(b, S, n, below))
           /\ Cardinality(Late(b, S, below)) <= n => Urgent(b, S, n, below) = Late(b, S, below)
           /\ Cardinality(Late(b, S, below)) > n => Cardinality(Urgent(b, S, n, below)) = n
<1> DEFINE T == Late(b, S, below)
           R == SoonerOf(b, T)
<1>1. T \in SUBSET S /\ IsFiniteSet(T) /\ Orders(R, T) /\ Urgent(b, S, n, below) = FirstOf(R, T, n)
  BY UrgentFirst
<1> HIDE DEF R, T
<1>2. T \in SUBSET T
  OBVIOUS
<1>3. /\ IsFiniteSet(FirstOf(R, T, n))
      /\ Cardinality(T) <= n => FirstOf(R, T, n) = T
      /\ Cardinality(T) > n => Cardinality(FirstOf(R, T, n)) = n
  BY <1>1, <1>2, FirstCard
<1>4. FirstOf(R, T, n) \in SUBSET T
  BY DEF FirstOf
<1> QED BY <1>1, <1>3, <1>4 DEF T

\* A late group that is not among them is of no older checkpoint than those that are.
LEMMA UrgentOrder ==
    ASSUME NEW b, NEW S, IsQueue(b, S), NEW n \in Nat, NEW below,
           NEW g \in Late(b, S, below), g \notin Urgent(b, S, n, below), NEW h \in Urgent(b, S, n, below)
    PROVE  b[h].k <= b[g].k
<1> DEFINE T == Late(b, S, below)
           R == SoonerOf(b, T)
<1>1. T \in SUBSET S /\ IsFiniteSet(T) /\ Orders(R, T) /\ Urgent(b, S, n, below) = FirstOf(R, T, n)
  BY UrgentFirst
<1>2. \A x, y \in T : <<x, y>> \in R <=> Sooner(b, x, y)
  BY DEF SoonerOf
<1>3. g \in T /\ h \in T
  BY <1>1 DEF FirstOf
<1> HIDE DEF R, T
<1>4. \A x \in T : IsFiniteSet(Preceding(R, T, x)) /\ Cardinality(Preceding(R, T, x)) \in Nat
  <2>1. \A x \in T : Preceding(R, T, x) \in SUBSET T
    BY DEF Preceding
  <2> QED BY <1>1, <2>1, FS_Subset, FS_CardinalityType
<1>5. Cardinality(Preceding(R, T, h)) < n /\ ~ (Cardinality(Preceding(R, T, g)) < n)
  BY <1>1, <1>3 DEF FirstOf
<1>6. SUFFICES ASSUME b[h].k > b[g].k PROVE FALSE
  BY <1>1, <1>3, SMT DEF IsQueue
<1>7. <<g, h>> \in R
  BY <1>1, <1>2, <1>3, <1>6 DEF Sooner, IsQueue
<1>8. Preceding(R, T, g) \in SUBSET Preceding(R, T, h)
  BY <1>1, <1>3, <1>7 DEF Preceding, Orders
<1>9. Cardinality(Preceding(R, T, g)) <= Cardinality(Preceding(R, T, h))
  <2>1. IsFiniteSet(Preceding(R, T, h))
    BY <1>3, <1>4
  <2> QED BY <1>8, <2>1, FS_Subset
<1> QED BY <1>3, <1>4, <1>5, <1>9, SMT

\* The parts of a mixed take beside the urgent groups U: those within the caps, those chosen of both, and the extra ones.
Within(S, caps, U) == WithinCap(caps, U, S \ U)
Chosen(S, caps, n, U) == U \union Oldest(Within(S, caps, U), n - Cardinality(U))
Extra(S, caps, n, U) == Oldest(S \ (U \union Within(S, caps, U)), n - Cardinality(Chosen(S, caps, n, U)))

\* A mixed take P of n groups of S with the urgent ones U: every group within the caps is chosen unless the take is full
\* of chosen ones, then there is no extra one; and the take is full or has all groups.
IsMix(S, caps, n, U, P) ==
    LET W == Within(S, caps, U)
        C == Chosen(S, caps, n, U)
        E == Extra(S, caps, n, U)
    IN  /\ P = C \union E
        /\ U \subseteq C /\ C \subseteq U \union W /\ W \subseteq S \ U /\ E \subseteq S \ (U \union W)
        /\ IsFiniteSet(U) /\ IsFiniteSet(W) /\ IsFiniteSet(C) /\ IsFiniteSet(E)
        /\ Cardinality(U) <= n
        /\ Cardinality(U) = n => C = U
        /\ Cardinality(C) < n => C = U \union W
        /\ ~ (Cardinality(C) < n) => Cardinality(C) = n /\ E = {}
        /\ Cardinality(S) <= n => P = S
        /\ Cardinality(S) > n => Cardinality(P) = n

\* mixed_take returns such a take.
LEMMA MixParts ==
    ASSUME NEW b, NEW S, IsQueue(b, S), NEW n \in Nat, NEW below, NEW caps, NEW U, U = Urgent(b, S, n, below)
    PROVE  IsMix(S, caps, n, U, mixed_take(b, S, caps, n, below))
<1> DEFINE W == Within(S, caps, U)
           C == Chosen(S, caps, n, U)
           E == Extra(S, caps, n, U)
           X == S \ (U \union W)
<1>1. U \in SUBSET S /\ IsFiniteSet(U) /\ Cardinality(U) \in Nat /\ Cardinality(U) <= n
  <2>1. /\ Late(b, S, below) \in SUBSET S /\ IsFiniteSet(Late(b, S, below))
        /\ U \in SUBSET Late(b, S, below) /\ IsFiniteSet(U)
        /\ Cardinality(Late(b, S, below)) <= n => U = Late(b, S, below)
        /\ Cardinality(Late(b, S, below)) > n => Cardinality(U) = n
    BY UrgentCard, SMT
  <2>2. Cardinality(U) \in Nat /\ Cardinality(Late(b, S, below)) \in Nat
    BY <2>1, FS_CardinalityType
  <2> QED BY <2>1, <2>2, SMT
<1>2. W \in SUBSET (S \ U)
  BY DEF Within, WithinCap
<1>3. mixed_take(b, S, caps, n, below) = C \union E
  BY DEF mixed_take, Within, Chosen, Extra
<1>4. C = U \union Oldest(W, n - Cardinality(U))
  BY DEF Chosen
<1>5. E = Oldest(X, n - Cardinality(C))
  BY DEF Extra
<1> HIDE DEF W, C, E
<1>6. /\ IsFiniteSet(S) /\ IsFiniteSet(W) /\ IsFiniteSet(X) /\ Cardinality(S) \in Nat /\ Cardinality(W) \in Nat
      /\ Cardinality(X) \in Nat
  <2>1. IsFiniteSet(S)
    BY DEF IsQueue
  <2>2. W \in SUBSET S /\ X \in SUBSET S
    BY <1>2
  <2>3. IsFiniteSet(W) /\ IsFiniteSet(X)
    BY <2>1, <2>2, FS_Subset
  <2> HIDE DEF X
  <2> QED BY <2>1, <2>3, FS_CardinalityType
<1>7. Cardinality(U \union W) = Cardinality(U) + Cardinality(W)
  <2>1. U \intersect W = {}
    BY <1>2
  <2>2. Cardinality(U \union W) = Cardinality(U) + Cardinality(W) - Cardinality(U \intersect W)
    BY <1>1, <1>6, FS_Union
  <2>3. Cardinality(U \intersect W) = 0
    BY <2>1, FS_EmptySet
  <2> QED BY <1>1, <1>6, <2>2, <2>3, SMT
<1>8. Cardinality(X) = Cardinality(S) - Cardinality(U) - Cardinality(W)
  <2>1. S \intersect (U \union W) = U \union W
    BY <1>1, <1>2
  <2>2. Cardinality(X) = Cardinality(S) - Cardinality(S \intersect (U \union W))
    BY <1>6, FS_Difference
  <2>3. Cardinality(X) = Cardinality(S) - Cardinality(U \union W)
    BY <2>1, <2>2
  <2> HIDE DEF X
  <2> QED BY <1>1, <1>6, <1>7, <2>3, SMT
<1> DEFINE d == n - Cardinality(U)
           D == Oldest(W, d)
<1>9. /\ D \in SUBSET W /\ IsFiniteSet(D)
      /\ Cardinality(W) <= d => D = W
      /\ Cardinality(W) > d => Cardinality(D) = d
  <2>1. W \subseteq Nat /\ d \in Nat
    BY <1>1, <1>2, SMT DEF IsQueue
  <2>2. IsFiniteSet(W)
    BY <1>6
  <2> HIDE DEF d
  <2>3. /\ Oldest(W, d) \in SUBSET W /\ IsFiniteSet(Oldest(W, d))
        /\ Cardinality(W) <= d => Oldest(W, d) = W
        /\ Cardinality(W) > d => Cardinality(Oldest(W, d)) = d
    BY <2>1, <2>2, OldestCard
  <2> QED BY <2>3
<1> HIDE DEF D
<1>10. Cardinality(D) \in Nat /\ IsFiniteSet(C) /\ Cardinality(C) = Cardinality(U) + Cardinality(D)
  <2>1. U \intersect D = {} /\ C = U \union D
    BY <1>2, <1>4, <1>9 DEF D
  <2>2. /\ IsFiniteSet(U \union D)
        /\ Cardinality(U \union D) = Cardinality(U) + Cardinality(D) - Cardinality(U \intersect D)
    BY <1>1, <1>9, FS_Union
  <2>3. Cardinality(U \intersect D) = 0
    BY <2>1, FS_EmptySet
  <2>4. Cardinality(D) \in Nat
    BY <1>9, FS_CardinalityType
  <2> QED BY <1>1, <2>1, <2>2, <2>3, <2>4, SMT
<1>11. C = U \union D
  BY <1>4 DEF D
<1>12. Cardinality(C) < n => C = U \union W /\ Cardinality(C) = Cardinality(U) + Cardinality(W)
  <2>1. Cardinality(C) < n => ~ (Cardinality(W) > d)
    BY <1>1, <1>6, <1>9, <1>10, SMT
  <2>2. Cardinality(C) < n => D = W
    BY <1>1, <1>6, <1>9, <2>1, SMT
  <2> QED BY <1>10, <1>11, <2>2
<1>13. Cardinality(C) \in Nat /\ Cardinality(C) <= n
  <2>1. Cardinality(D) <= d
    BY <1>1, <1>6, <1>9, <1>10, SMT
  <2> QED BY <1>1, <1>10, <2>1, SMT
<1>14. Cardinality(U) = n => C = U
  <2>1. ASSUME Cardinality(U) = n PROVE D = {}
    <3>1. Cardinality(D) = 0
      BY <1>1, <1>10, <1>13, <2>1, SMT
    <3> QED BY <1>9, <3>1, FS_EmptySet
  <2> QED BY <1>11, <2>1
<1> DEFINE e == n - Cardinality(C)
<1>15. /\ E \in SUBSET X /\ IsFiniteSet(E)
       /\ Cardinality(X) <= e => E = X
       /\ Cardinality(X) > e => Cardinality(E) = e
  <2>1. X \subseteq Nat
    BY DEF IsQueue
  <2>2. e \in Nat
    BY <1>13, SMT
  <2>3. E = Oldest(X, e)
    BY <1>5
  <2> HIDE DEF e, X
  <2> QED BY <1>6, <2>1, <2>2, <2>3, OldestCard
<1>16. Cardinality(E) \in Nat
  BY <1>15, FS_CardinalityType
<1>17. ~ (Cardinality(C) < n) => Cardinality(C) = n /\ E = {}
  <2>1. SUFFICES ASSUME ~ (Cardinality(C) < n) PROVE Cardinality(C) = n /\ E = {}
    OBVIOUS
  <2>2. Cardinality(C) = n /\ e = 0
    BY <1>13, <2>1, SMT
  <2>3. Cardinality(E) = 0
    <3> HIDE DEF X, e
    <3> QED BY <1>6, <1>15, <2>2, <1>16, SMT
  <2> QED BY <1>15, <2>2, <2>3, FS_EmptySet
<1>18. Cardinality(C \union E) = Cardinality(C) + Cardinality(E)
  <2>1. C \intersect E = {}
    BY <1>9, <1>11, <1>15
  <2>2. Cardinality(C \union E) = Cardinality(C) + Cardinality(E) - Cardinality(C \intersect E)
    BY <1>10, <1>15, FS_Union
  <2>3. Cardinality(C \intersect E) = 0
    BY <2>1, FS_EmptySet
  <2> QED BY <1>13, <1>16, <2>2, <2>3, SMT
<1>19. Cardinality(S) > n => Cardinality(C \union E) = n
  <2>1. SUFFICES ASSUME Cardinality(S) > n PROVE Cardinality(C) + Cardinality(E) = n
    BY <1>18
  <2>2. CASE Cardinality(C) < n
    <3>1. Cardinality(X) > e
      <4> HIDE DEF X
      <4> QED BY <1>1, <1>6, <1>8, <1>12, <2>1, <2>2, SMT
    <3> HIDE DEF X
    <3> QED BY <1>13, <1>15, <1>16, <3>1, SMT
  <2>3. CASE ~ (Cardinality(C) < n)
    <3>1. Cardinality(C) = n /\ Cardinality(E) = 0
      BY <1>17, <2>3, FS_EmptySet
    <3> QED BY <3>1, SMT
  <2> QED BY <2>2, <2>3
<1>20. Cardinality(S) <= n => C \union E = S
  <2>1. SUFFICES ASSUME Cardinality(S) <= n PROVE C \union E = S
    OBVIOUS
  <2>2. Cardinality(W) <= d
    <3> HIDE DEF X
    <3> QED BY <1>1, <1>6, <1>8, <2>1, SMT
  <2>3. D = W /\ C = U \union W
    BY <1>9, <1>11, <2>2
  <2>4. Cardinality(X) <= e
    <3> HIDE DEF X
    <3> QED BY <1>1, <1>6, <1>8, <1>10, <2>1, <2>3, SMT
  <2>5. E = X
    BY <1>15, <2>4
  <2> QED BY <1>1, <1>2, <2>3, <2>5
<1>21. U \subseteq C /\ C \subseteq U \union W /\ W \subseteq S \ U /\ E \subseteq S \ (U \union W)
  BY <1>2, <1>9, <1>11, <1>15
<1> HIDE DEF X, d, e
<1>22. Cardinality(S) <= n => mixed_take(b, S, caps, n, below) = S
  BY <1>3, <1>19, <1>20
<1>23. Cardinality(S) > n => Cardinality(mixed_take(b, S, caps, n, below)) = n
  BY <1>3, <1>19, <1>20
<1> QED BY <1>1, <1>3, <1>6, <1>10, <1>12, <1>14, <1>15, <1>17, <1>19, <1>20, <1>21, <1>22, <1>23 DEF W, C, E, IsMix

\* The groups within the caps, environment by environment: with the urgent ones they do not exceed the cap, and where
\* one is left out they reach it.
LEMMA WithinEnv ==
    ASSUME NEW S, IsFiniteSet(S), S \subseteq Nat, NEW U \in SUBSET S, NEW caps, NEW e \in DOMAIN caps, caps[e] \in Nat
    PROVE  LET UE == InEnv(U, e) WE == InEnv(Within(S, caps, U), e)
           IN  /\ WE # {} => Cardinality(UE) + Cardinality(WE) <= caps[e]
               /\ \A g \in S \ U : EnvOf[g] = e /\ g \notin Within(S, caps, U) =>
                    Cardinality(UE) + Cardinality(WE) >= caps[e]
<1> DEFINE RE == InEnv(S \ U, e)
           UE == InEnv(U, e)
           WE == InEnv(Within(S, caps, U), e)
           r == caps[e] - Cardinality(UE)
<1>1. RE \in SUBSET S /\ UE \in SUBSET S
  BY DEF InEnv
<1>2. WE = {g \in RE : Cardinality(UE) + Cardinality({h \in RE : h < g}) < caps[e]}
  <2>1. \A g \in S \ U : EnvOf[g] = e => SameEnv(U, g) = UE /\ SameEnv(S \ U, g) = RE
    BY DEF SameEnv, InEnv
  <2>2. \A g \in S \ U : EnvOf[g] = e =>
          (g \in Within(S, caps, U) <=> Cardinality(UE) + Cardinality({h \in RE : h < g}) < caps[e])
    <3> HIDE DEF UE, RE
    <3> QED BY <2>1 DEF Within, WithinCap
  <2>3. Within(S, caps, U) \subseteq S \ U
    BY DEF Within, WithinCap
  <2>4. \A g : g \in RE <=> g \in S \ U /\ EnvOf[g] = e
    BY DEF InEnv
  <2>5. \A g : g \in WE <=> g \in Within(S, caps, U) /\ EnvOf[g] = e
    BY DEF InEnv
  <2> HIDE DEF UE, RE, WE
  <2> QED BY <2>2, <2>3, <2>4, <2>5
<1>3. \A g : g \in S \ U /\ EnvOf[g] = e /\ g \notin Within(S, caps, U) => g \in RE /\ g \notin WE
  BY DEF InEnv
<1> HIDE DEF RE, UE, WE
<1>4. /\ IsFiniteSet(RE) /\ IsFiniteSet(UE) /\ Cardinality(RE) \in Nat /\ Cardinality(UE) \in Nat
      /\ RE \subseteq Nat
  BY <1>1, FS_Subset, FS_CardinalityType
<1>5. \A g \in RE : Cardinality({h \in RE : h < g}) \in Nat
  <2>1. \A g \in RE : {h \in RE : h < g} \in SUBSET RE
    OBVIOUS
  <2> QED BY <1>4, <2>1, FS_Subset, FS_CardinalityType
<1>6. WE \in SUBSET RE
  BY <1>2
<1>7. IsFiniteSet(WE) /\ Cardinality(WE) \in Nat
  BY <1>4, <1>6, FS_Subset, FS_CardinalityType
<1>8. r \in Int
  BY <1>4, SMT
<1>9. WE = Oldest(RE, r)
  <2>1. \A g \in RE : Cardinality(UE) + Cardinality({h \in RE : h < g}) < caps[e]
                        <=> Cardinality({h \in RE : h < g}) < r
    BY <1>4, <1>5, SMT
  <2> HIDE DEF r
  <2> QED BY <1>2, <2>1 DEF Oldest
<1>10. r < 0 => WE = {}
  <2>1. ASSUME r < 0, NEW g \in RE PROVE ~ (Cardinality({h \in RE : h < g}) < r)
    <3>1. Cardinality({h \in RE : h < g}) \in Nat
      BY <1>5
    <3> HIDE DEF r
    <3> QED BY <1>8, <2>1, <3>1, SMT
  <2> HIDE DEF r
  <2> QED BY <1>9, <2>1 DEF Oldest
<1>11. r >= 0 => /\ Cardinality(RE) <= r => WE = RE
                 /\ Cardinality(RE) > r => Cardinality(WE) = r
  <2>1. ASSUME r >= 0 PROVE r \in Nat
    BY <1>8, <2>1, SMT
  <2> HIDE DEF r
  <2> QED BY <1>4, <1>9, <2>1, OldestCard
<1>12. WE # {} => Cardinality(UE) + Cardinality(WE) <= caps[e]
  <2>1. SUFFICES ASSUME WE # {} PROVE Cardinality(WE) <= r
    BY <1>4, <1>7, SMT
  <2>2. r >= 0
    BY <1>8, <1>10, <2>1, SMT
  <2> HIDE DEF r
  <2> QED BY <1>4, <1>7, <1>8, <1>11, <2>2, SMT
<1>13. ASSUME NEW g \in RE, g \notin WE PROVE Cardinality(UE) + Cardinality(WE) >= caps[e]
  <2>1. CASE r < 0
    BY <1>4, <1>7, <2>1, SMT
  <2>2. CASE r >= 0
    <3>1. WE # RE
      BY <1>13
    <3>2. Cardinality(WE) = r
      <4> HIDE DEF r
      <4> QED BY <1>4, <1>8, <1>11, <2>2, <3>1, SMT
    <3> QED BY <1>4, <1>7, <3>2, SMT
  <2> QED BY <1>8, <2>1, <2>2, SMT
<1>14. \A g \in S \ U : EnvOf[g] = e /\ g \notin Within(S, caps, U) => Cardinality(UE) + Cardinality(WE) >= caps[e]
  <2>1. SUFFICES ASSUME NEW g \in S \ U, EnvOf[g] = e, g \notin Within(S, caps, U)
                 PROVE  Cardinality(UE) + Cardinality(WE) >= caps[e]
    OBVIOUS
  <2>2. g \in RE /\ g \notin WE
    BY <1>3, <2>1
  <2> QED BY <1>13, <2>2
<1> QED BY <1>12, <1>14 DEF UE, WE

\* While an environment is over its cap by more than its urgent groups, every group left behind is of an environment at
\* its cap.
LEMMA MixExtra ==
    ASSUME NEW b, NEW S, IsQueue(b, S), NEW n \in Nat, NEW below, NEW caps, \A e \in DOMAIN caps : caps[e] \in Nat,
           NEW P, P = mixed_take(b, S, caps, n, below), NEW e \in DOMAIN caps,
           Cardinality(InEnv(P, e)) > caps[e],
           Cardinality(InEnv(P, e)) > Cardinality({g \in InEnv(P, e) : b[g].k < below}),
           NEW g \in S \ P
    PROVE  EnvOf[g] \in DOMAIN caps /\ Cardinality(InEnv(P, EnvOf[g])) >= caps[EnvOf[g]]
<1> DEFINE U == Urgent(b, S, n, below)
           W == Within(S, caps, U)
           C == Chosen(S, caps, n, U)
           E == Extra(S, caps, n, U)
<1>1. /\ P = C \union E
      /\ U \subseteq C /\ C \subseteq U \union W /\ W \subseteq S \ U /\ E \subseteq S \ (U \union W)
      /\ IsFiniteSet(U) /\ IsFiniteSet(W) /\ IsFiniteSet(C) /\ IsFiniteSet(E)
      /\ Cardinality(C) < n => C = U \union W
      /\ ~ (Cardinality(C) < n) => Cardinality(C) = n /\ E = {}
  <2>1. U = Urgent(b, S, n, below)
    OBVIOUS
  <2> HIDE DEF U
  <2>2. IsMix(S, caps, n, U, P)
    BY <2>1, MixParts
  <2> QED BY <2>2 DEF IsMix
<1>2. U \subseteq S /\ \A x \in U : b[x].k < below
  BY DEF Urgent
<1>3. \A f \in DOMAIN caps :
        /\ InEnv(W, f) # {} => Cardinality(InEnv(U, f)) + Cardinality(InEnv(W, f)) <= caps[f]
        /\ \A x \in S \ U : EnvOf[x] = f /\ x \notin W => Cardinality(InEnv(U, f)) + Cardinality(InEnv(W, f)) >= caps[f]
  <2>1. SUFFICES ASSUME NEW f \in DOMAIN caps
                 PROVE  /\ InEnv(W, f) # {} => Cardinality(InEnv(U, f)) + Cardinality(InEnv(W, f)) <= caps[f]
                        /\ \A x \in S \ U : EnvOf[x] = f /\ x \notin W =>
                             Cardinality(InEnv(U, f)) + Cardinality(InEnv(W, f)) >= caps[f]
    OBVIOUS
  <2>2. U \in SUBSET S /\ IsFiniteSet(S) /\ S \subseteq Nat /\ caps[f] \in Nat
    BY <1>2 DEF IsQueue
  <2> HIDE DEF U
  <2> QED BY <2>1, <2>2, WithinEnv
<1>4. \A x \in S \ U : x \notin W => EnvOf[x] \in DOMAIN caps
  BY DEF Within, WithinCap
<1> HIDE DEF U, W, C, E
<1>5. \A f : /\ IsFiniteSet(InEnv(U, f)) /\ IsFiniteSet(InEnv(W, f)) /\ IsFiniteSet(InEnv(P, f))
             /\ Cardinality(InEnv(U, f)) \in Nat /\ Cardinality(InEnv(W, f)) \in Nat /\ Cardinality(InEnv(P, f)) \in Nat
  <2>1. IsFiniteSet(P)
    <3>1. IsFiniteSet(C \union E)
      BY <1>1, FS_Union
    <3> QED BY <1>1, <3>1
  <2>2. \A f : InEnv(U, f) \in SUBSET U /\ InEnv(W, f) \in SUBSET W /\ InEnv(P, f) \in SUBSET P
    BY DEF InEnv
  <2> QED BY <1>1, <2>1, <2>2, FS_Subset, FS_CardinalityType
<1>6. \A f : /\ IsFiniteSet(InEnv(U, f) \union InEnv(W, f))
             /\ Cardinality(InEnv(U, f) \union InEnv(W, f)) = Cardinality(InEnv(U, f)) + Cardinality(InEnv(W, f))
  <2>1. \A f : InEnv(U, f) \intersect InEnv(W, f) = {}
    BY <1>1 DEF InEnv
  <2>2. \A f : /\ IsFiniteSet(InEnv(U, f) \union InEnv(W, f))
               /\ Cardinality(InEnv(U, f) \union InEnv(W, f)) =
                    Cardinality(InEnv(U, f)) + Cardinality(InEnv(W, f)) - Cardinality(InEnv(U, f) \intersect InEnv(W, f))
    BY <1>5, FS_Union
  <2>3. \A f : Cardinality(InEnv(U, f) \intersect InEnv(W, f)) = 0
    BY <2>1, FS_EmptySet
  <2>4. ASSUME NEW f
        PROVE  Cardinality(InEnv(U, f) \union InEnv(W, f)) = Cardinality(InEnv(U, f)) + Cardinality(InEnv(W, f))
    <3>1. Cardinality(InEnv(U, f) \union InEnv(W, f)) = Cardinality(InEnv(U, f)) + Cardinality(InEnv(W, f)) - 0
      BY <2>2, <2>3
    <3> QED BY <1>5, <3>1, SMT
  <2> QED BY <2>2, <2>4
<1>7. InEnv(E, e) # {}
  <2>1. SUFFICES ASSUME InEnv(E, e) = {} PROVE FALSE
    OBVIOUS
  <2>2. InEnv(P, e) \in SUBSET (InEnv(U, e) \union InEnv(W, e))
    BY <1>1, <2>1 DEF InEnv
  <2>3. CASE InEnv(W, e) # {}
    <3>1. Cardinality(InEnv(P, e)) <= Cardinality(InEnv(U, e) \union InEnv(W, e))
      BY <1>6, <2>2, FS_Subset
    <3>2. Cardinality(InEnv(U, e)) + Cardinality(InEnv(W, e)) <= caps[e]
      BY <1>3, <2>3
    <3>3. Cardinality(InEnv(P, e)) <= Cardinality(InEnv(U, e)) + Cardinality(InEnv(W, e))
      BY <1>6, <3>1
    <3> QED BY <1>5, <3>2, <3>3, SMT
  <2>4. CASE InEnv(W, e) = {}
    <3>1. {x \in InEnv(P, e) : b[x].k < below} = InEnv(P, e)
      BY <1>2, <2>2, <2>4 DEF InEnv
    <3>2. ~ (Cardinality(InEnv(P, e)) > Cardinality(InEnv(P, e)))
      BY <1>5, SMT
    <3> QED BY <3>1, <3>2
  <2> QED BY <2>3, <2>4
<1>8. C = U \union W
  BY <1>1, <1>7 DEF InEnv
<1> DEFINE f == EnvOf[g]
<1>9. g \in S \ U /\ g \notin W
  BY <1>1, <1>8
<1>10. f \in DOMAIN caps /\ Cardinality(InEnv(U, f)) + Cardinality(InEnv(W, f)) >= caps[f]
  BY <1>3, <1>4, <1>9
<1>11. InEnv(U, f) \union InEnv(W, f) \in SUBSET InEnv(P, f)
  BY <1>1, <1>8 DEF InEnv
<1> HIDE DEF f
<1>12. Cardinality(InEnv(U, f) \union InEnv(W, f)) <= Cardinality(InEnv(P, f))
  BY <1>5, <1>11, FS_Subset
<1>13. Cardinality(InEnv(U, f)) + Cardinality(InEnv(W, f)) <= Cardinality(InEnv(P, f))
  BY <1>6, <1>12
<1>14. Cardinality(InEnv(P, f)) >= caps[f]
  BY <1>5, <1>10, <1>13, SMT
<1> QED BY <1>10, <1>14 DEF f

--------------------------------------------------------------------------------
(* The takes and the suspects, in every reachable state.                   *)

\* The fresh groups are a queue.
LEMMA FreshIsQueue == ASSUME Typed PROVE IsQueue(rl_buffer, Fresh(rl_buffer))
<1>1. Fresh(rl_buffer) \subseteq Groups
  BY DEF Fresh, Queued
<1>2. Groups \subseteq Nat /\ IsFiniteSet(Groups)
  BY TrainerAssumption
<1>3. IsFiniteSet(Fresh(rl_buffer))
  BY <1>1, <1>2, FS_Subset
<1>4. \A g \in Groups : rl_buffer[g].k \in Nat
  BY SMT DEF Typed, Rows, Versions
<1> QED BY <1>1, <1>2, <1>3, <1>4 DEF IsQueue

\* mixed_take never makes the trainer wait: whatever the caps and the queue, a take of n fresh groups hands out n of
\* them or all there are.
THEOREM TakesAreFull == Spec => []TakeIsFull
<1>1. ASSUME Typed PROVE TakeIsFull
  <2>1. SUFFICES ASSUME NEW n \in 1..BatchGroups
                 PROVE  Cardinality(Picked(n)) = Min({n, Cardinality(Fresh(rl_buffer))})
    BY DEF TakeIsFull
  <2> DEFINE S == Fresh(rl_buffer)
  <2>2. n \in Nat /\ IsQueue(rl_buffer, S) /\ IsFiniteSet(S) /\ S \subseteq Nat /\ Cardinality(S) \in Nat
    <3>1. IsQueue(rl_buffer, S)
      BY <1>1, FreshIsQueue
    <3>2. IsFiniteSet(S) /\ S \subseteq Nat
      BY <3>1 DEF IsQueue
    <3> QED BY <2>1, <3>1, <3>2, FS_CardinalityType, TrainerAssumption, SMT
  <2> HIDE DEF S
  <2>3. (Cardinality(S) <= n => Picked(n) = S) /\ (Cardinality(S) > n => Cardinality(Picked(n)) = n)
    <3>1. CASE BatchCaps[n] = <<>>
      <4>1. Picked(n) = Oldest(S, n)
        BY <3>1 DEF Picked, TakeFresh, S
      <4> QED BY <2>2, <4>1, OldestCard
    <3>2. CASE BatchCaps[n] # <<>>
      <4>1. Picked(n) = mixed_take(rl_buffer, S, BatchCaps[n], n, UrgentBelow(latest))
        BY <3>2 DEF Picked, TakeFresh, S
      <4>2. IsMix(S, BatchCaps[n], n, Urgent(rl_buffer, S, n, UrgentBelow(latest)), Picked(n))
        BY <2>2, <4>1, MixParts
      <4> QED BY <4>2 DEF IsMix
    <3> QED BY <3>1, <3>2
  <2>4. Min({n, Cardinality(S)}) = IF n <= Cardinality(S) THEN n ELSE Cardinality(S)
    BY <2>2, MinOfTwo, SMT
  <2> QED BY <2>2, <2>3, <2>4, SMT DEF S
<1>2. TrainInv => TakeIsFull
  BY <1>1 DEF TrainInv
<1> QED BY <1>2, TrainInvAlways, PTL

\* mixed_take hands out a group above its environment's cap only when every group it leaves behind is of an
\* environment that has its cap too.
THEOREM ExtrasFillTheBatch == Spec => []ExtraOnlyWhenShort
<1>1. ASSUME Typed PROVE ExtraOnlyWhenShort
  <2>1. SUFFICES ASSUME NEW n \in 1..BatchGroups, NEW e \in DOMAIN BatchCaps[n],
                        Cardinality(InEnv(Picked(n), e))
                          > Max({BatchCaps[n][e], Cardinality({g \in InEnv(Picked(n), e) : IsUrgent(g)})}),
                        NEW g \in LeftBehind(n)
                 PROVE  AtCap(n, EnvOf[g])
    BY DEF ExtraOnlyWhenShort
  <2> DEFINE S == Fresh(rl_buffer)
             P == Picked(n)
             caps == BatchCaps[n]
             late == {x \in InEnv(P, e) : rl_buffer[x].k < UrgentBelow(latest)}
  <2>2. n \in Nat /\ \A f \in DOMAIN caps : caps[f] \in Nat
    BY <2>1, TrainerAssumption, SMT
  <2>3. IsQueue(rl_buffer, S)
    BY <1>1, FreshIsQueue
  <2>4. P = mixed_take(rl_buffer, S, caps, n, UrgentBelow(latest))
    <3>1. caps # <<>>
      BY <2>1, SMT
    <3> QED BY <3>1 DEF Picked, TakeFresh
  <2>5. g \in S \ P
    BY <2>1 DEF LeftBehind
  <2>6. Cardinality(InEnv(P, e)) > Max({caps[e], Cardinality(late)})
    BY <2>1 DEF IsUrgent
  <2> HIDE DEF S, P, caps
  <2>7. IsFiniteSet(InEnv(P, e)) /\ Cardinality(InEnv(P, e)) \in Nat /\ Cardinality(late) \in Nat
    <3>1. P \subseteq S
      BY TakeFreshIsFresh DEF P, S, Picked
    <3>2. InEnv(P, e) \in SUBSET S
      BY <3>1 DEF InEnv
    <3>3. late \in SUBSET InEnv(P, e)
      OBVIOUS
    <3>4. IsFiniteSet(S)
      BY <2>3 DEF IsQueue
    <3>5. IsFiniteSet(InEnv(P, e)) /\ IsFiniteSet(late)
      BY <3>2, <3>3, <3>4, FS_Subset
    <3> QED BY <3>5, FS_CardinalityType
  <2>8. e \in DOMAIN caps /\ caps[e] \in Nat
    BY <2>1, <2>2 DEF caps
  <2>9. Cardinality(InEnv(P, e)) > caps[e] /\ Cardinality(InEnv(P, e)) > Cardinality(late)
    <3> HIDE DEF late
    <3> QED BY <2>6, <2>7, <2>8, MoreThanBoth
  <2>10. EnvOf[g] \in DOMAIN caps /\ Cardinality(InEnv(P, EnvOf[g])) >= caps[EnvOf[g]]
    BY <2>2, <2>3, <2>4, <2>5, <2>8, <2>9, MixExtra, SMT
  <2> QED BY <2>10 DEF AtCap, P, caps
<1>2. TrainInv => ExtraOnlyWhenShort
  BY <1>1 DEF TrainInv
<1> QED BY <1>2, TrainInvAlways, PTL

\* mixed_take leaves a group about to pass the max lag behind only when all it hands out is at least as old.
THEOREM UrgentServedFirst == Spec => []OldestUrgentFirst
<1>1. ASSUME Typed PROVE OldestUrgentFirst
  <2>1. SUFFICES ASSUME NEW n \in 1..BatchGroups, BatchCaps[n] # <<>>, NEW g \in LeftBehind(n), IsUrgent(g),
                        NEW h \in Picked(n)
                 PROVE  rl_buffer[h].k <= rl_buffer[g].k
    BY DEF OldestUrgentFirst
  <2> DEFINE S == Fresh(rl_buffer)
             P == Picked(n)
             below == UrgentBelow(latest)
             U == Urgent(rl_buffer, S, n, below)
             C == Chosen(S, BatchCaps[n], n, U)
             E == Extra(S, BatchCaps[n], n, U)
             T == Late(rl_buffer, S, below)
  <2>2. n \in Nat /\ IsQueue(rl_buffer, S)
    <3>1. n \in Nat
      BY <2>1, SMT
    <3>2. IsQueue(rl_buffer, S)
      BY <1>1, FreshIsQueue
    <3> QED BY <3>1, <3>2
  <2>3. IsMix(S, BatchCaps[n], n, U, P)
    <3>1. P = mixed_take(rl_buffer, S, BatchCaps[n], n, below)
      BY <2>1 DEF Picked, TakeFresh
    <3> HIDE DEF S, P, below
    <3> QED BY <2>2, <3>1, MixParts
  <2>4. g \in T /\ g \notin P
    BY <2>1 DEF LeftBehind, IsUrgent, Late
  <2>5. /\ IsFiniteSet(T) /\ IsFiniteSet(U)
        /\ Cardinality(T) <= n => U = T
        /\ Cardinality(T) > n => Cardinality(U) = n
    <3> HIDE DEF S, below, T, U
    <3>1. /\ IsFiniteSet(Late(rl_buffer, S, below)) /\ IsFiniteSet(Urgent(rl_buffer, S, n, below))
          /\ Cardinality(Late(rl_buffer, S, below)) <= n => Urgent(rl_buffer, S, n, below) = Late(rl_buffer, S, below)
          /\ Cardinality(Late(rl_buffer, S, below)) > n => Cardinality(Urgent(rl_buffer, S, n, below)) = n
      BY <2>2, UrgentCard, SMT
    <3> QED BY <3>1 DEF T, U
  <2> HIDE DEF S, P, below, U, T
  <2>6. /\ P = C \union E /\ U \subseteq C
        /\ Cardinality(U) = n => C = U
        /\ ~ (Cardinality(C) < n) => E = {}
    BY <2>3 DEF IsMix
  <2> HIDE DEF C, E
  <2>7. g \notin U
    BY <2>4, <2>6
  <2>8. Cardinality(U) = n
    BY <2>2, <2>4, <2>5, <2>7, FS_CardinalityType, SMT
  <2>9. h \in U
    BY <2>1, <2>2, <2>6, <2>8, SMT DEF P
  <2> QED BY <2>2, <2>4, <2>7, <2>9, UrgentOrder DEF T, U
<1>2. TrainInv => OldestUrgentFirst
  BY <1>1 DEF TrainInv
<1> QED BY <1>2, TrainInvAlways, PTL

\* TrainingBuffer.take serves one suspect at a time, so a training batch has at most one, whichever of the step and
\* the prefetch took it.
THEOREM OneSuspectTrained == Spec => []OneSuspectPerBatch
<1>1. BatchInv => OneSuspectPerBatch
  <2> SUFFICES ASSUME BatchInv, pc = "train"
               PROVE  Cardinality({g \in held : rl_buffer[g].attempts > SuspectAttempts}) <= 1
    BY DEF OneSuspectPerBatch
  <2> DEFINE X == {g \in held : rl_buffer[g].attempts > SuspectAttempts}
  <2>1. \A g, h \in X : g = h
    BY DEF BatchInv, SuspectInv, OneSuspect, Suspect
  <2> HIDE DEF X
  <2>2. X = {} \/ \E x : X = {x}
    BY <2>1, SMT
  <2>3. Cardinality(X) \in {0, 1}
    BY <2>2, FS_EmptySet, FS_Singleton
  <2> QED BY <2>3, SMT DEF X
<1> QED BY <1>1, BatchInvAlways, PTL
================================================================================
