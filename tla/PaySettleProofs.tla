---------------------------- MODULE PaySettleProofs ----------------------------
(***************************************************************************)
(* What settle does to the tables of the payment ledger, for all settings, *)
(* amounts and numbers of periods.  The tables it works on are a record,   *)
(* so that what one period does to them is a lemma about any such record;  *)
(* settle is the induction over the due periods.  Sums of naturals come    *)
(* first: each fact is proved by induction over the subsets of a set, in   *)
(* the form NatInduct and SetInduct give it, where the predicate is a set, *)
(* so that the provers need no operator argument.                          *)
(***************************************************************************)
EXTENDS PayLedger, FiniteSetTheorems, WellFoundedInduction, TLAPS

\* Zenon is the default prover; the steps of arithmetic and of records name SMT.
USE Zenon

--------------------------------------------------------------------------------
(* Sums of naturals over finite sets.                                      *)

\* A set of naturals that is not empty has a least member.
LEMMA LeastNat ==
    ASSUME NEW T, T \subseteq Nat, T # {}
    PROVE  \E n \in T : \A m \in T : n <= m
<1>1. PICK n \in T : \A m \in T : ~ (<<m, n>> \in OpToRel(<, Nat))
  BY WFMin, NatLessThanWellFounded
<1>2. ASSUME NEW m \in T PROVE n <= m
  <2>1. n \in Nat /\ m \in Nat
    OBVIOUS
  <2>2. ~ (m < n)
    <3>1. SUFFICES ASSUME m < n PROVE <<m, n>> \in OpToRel(<, Nat)
      BY <1>1
    <3>2. QED
      BY <2>1, <3>1 DEF OpToRel
  <2>3. QED
    BY <2>1, <2>2, SMT
<1>3. QED
  BY <1>2

\* Induction over the naturals, for a set G of them.
LEMMA NatInduct ==
    ASSUME NEW G, 0 \in G, \A n \in Nat : n \in G => n + 1 \in G
    PROVE  \A n \in Nat : n \in G
<1> DEFINE Bad == {n \in Nat : n \notin G}
<1>1. SUFFICES ASSUME Bad # {} PROVE FALSE
  OBVIOUS
<1>2. PICK n \in Bad : \A m \in Bad : n <= m
  BY <1>1, LeastNat
<1>3. n \in Nat /\ n # 0 /\ n - 1 \in Nat /\ n - 1 \notin Bad
  BY <1>2, SMT
<1>4. n - 1 \in G /\ (n - 1) + 1 = n
  BY <1>3, SMT
<1>5. QED
  BY <1>3, <1>4

\* Induction over the subsets of a finite set: G has a subset once it has it without any one element.
LEMMA SetInduct ==
    ASSUME NEW S, IsFiniteSet(S), NEW G,
           \A T \in SUBSET S : (\A x \in T : T \ {x} \in G) => T \in G
    PROVE  \A T \in SUBSET S : T \in G
<1> DEFINE N == {n \in Nat : \A T \in SUBSET S : Cardinality(T) <= n => T \in G}
<1>0. \A T \in SUBSET S : IsFiniteSet(T) /\ Cardinality(T) \in Nat
  BY FS_Subset, FS_CardinalityType
<1>1. 0 \in N
  <2>1. ASSUME NEW T \in SUBSET S, Cardinality(T) <= 0 PROVE T = {}
    BY <1>0, <2>1, FS_EmptySet, SMT
  <2>2. QED
    BY <2>1
<1>2. ASSUME NEW n \in Nat, n \in N PROVE n + 1 \in N
  <2>1. SUFFICES ASSUME NEW T \in SUBSET S, Cardinality(T) <= n + 1 PROVE T \in G
    BY SMT
  <2>2. ASSUME NEW x \in T PROVE T \ {x} \in G
    <3>1. Cardinality(T \ {x}) = Cardinality(T) - 1 /\ T \ {x} \in SUBSET S
      BY <1>0, FS_RemoveElement
    <3>2. Cardinality(T \ {x}) <= n
      BY <1>0, <2>1, <3>1, SMT
    <3>3. QED
      BY <1>2, <3>1, <3>2
  <2>3. QED
    BY <2>2
<1>3. \A n \in Nat : n \in N
  <2> HIDE DEF N
  <2> QED BY <1>1, <1>2, NatInduct
<1>4. QED
  <2> TAKE T \in SUBSET S
  <2>1. Cardinality(T) \in N
    BY <1>0, <1>3
  <2> QED BY <2>1, <1>0, SMT

\* The recursion a sum over the subsets of S unfolds.
Sums(f, S, g) ==
    g = [s \in SUBSET S |-> IF s = {} THEN 0
                            ELSE LET x == CHOOSE x \in s : TRUE IN f[x] + g[s \ {x}]]

\* The sum of f over S is the value at S of such a function.
LEMMA SumDef ==
    ASSUME NEW f, NEW S
    PROVE  SumFunctionOnSet(f, S) = (CHOOSE g : Sums(f, S, g))[S]
BY DEF SumFunctionOnSet, FoldFunctionOnSet, MapThenFoldSet, Sums

\* Such a function takes the elements of a set in any order: each of them may be the first.
LEMMA SumsOrder ==
    ASSUME NEW S, IsFiniteSet(S), NEW f, \A x \in S : f[x] \in Nat, NEW g, Sums(f, S, g)
    PROVE  \A T \in SUBSET S : g[T] \in Nat /\ \A x \in T : g[T] = f[x] + g[T \ {x}]
<1> DEFINE G == {T \in SUBSET S : \A U \in SUBSET T : g[U] \in Nat /\ \A x \in U : g[U] = f[x] + g[U \ {x}]}
<1>0. \A U \in SUBSET S : g[U] = IF U = {} THEN 0
                            ELSE LET x == CHOOSE x \in U : TRUE IN f[x] + g[U \ {x}]
  BY DEF Sums
<1>2. ASSUME NEW T \in SUBSET S, \A z \in T : T \ {z} \in G PROVE T \in G
  <2>1. SUFFICES ASSUME NEW U \in SUBSET T PROVE g[U] \in Nat /\ \A x \in U : g[U] = f[x] + g[U \ {x}]
    OBVIOUS
  <2>2. CASE U # T
    <3>1. PICK z \in T : z \notin U
      BY <2>2
    <3>2. U \in SUBSET (T \ {z})
      BY <3>1
    <3>3. QED
      BY <1>2, <3>1, <3>2
  <2>3. CASE U = T /\ T = {}
    BY <1>0, <2>3, SMT
  <2>4. CASE U = T /\ T # {}
    <3> DEFINE c == CHOOSE c \in T : TRUE
    <3>1. c \in T
      BY <2>4
    <3>2. g[T] = f[c] + g[T \ {c}]
      BY <1>0, <2>4
    <3> HIDE DEF c
    <3>3. T \ {c} \in G
      BY <1>2, <3>1
    <3>4. g[T \ {c}] \in Nat /\ f[c] \in Nat
      BY <3>1, <3>3
    <3>5. g[T] \in Nat
      BY <3>2, <3>4, SMT
    <3>6. ASSUME NEW x \in T PROVE g[T] = f[x] + g[T \ {x}]
      <4>1. CASE x = c
        BY <4>1, <3>2
      <4>2. CASE x # c
        <5> DEFINE R == (T \ {c}) \ {x}
        <5>1. R = (T \ {x}) \ {c} /\ R \in SUBSET (T \ {c})
          OBVIOUS
        <5>2. g[T \ {c}] = f[x] + g[R]
          BY <3>3, <4>2
        <5>3. T \ {x} \in G
          BY <1>2
        <5>4. g[T \ {x}] = f[c] + g[(T \ {x}) \ {c}]
          BY <3>1, <4>2, <5>3
        <5>5. g[R] \in Nat /\ f[x] \in Nat
          BY <3>3, <5>1
        <5> HIDE DEF R
        <5>6. QED
          BY <3>2, <3>4, <5>1, <5>2, <5>4, <5>5, SMT
      <4>3. QED
        BY <4>1, <4>2
    <3>7. QED
      BY <2>4, <3>5, <3>6
  <2>5. QED
    BY <2>2, <2>3, <2>4
<1>3. \A T \in SUBSET S : T \in G
  <2> HIDE DEF G
  <2> QED BY <1>2, SetInduct
<1>4. QED
  BY <1>3

\* There is such a function over every finite set.
LEMMA SumsExist ==
    ASSUME NEW S, IsFiniteSet(S), NEW f
    PROVE  \E g : Sums(f, S, g)
<1> DEFINE Small(n) == {s \in SUBSET S : Cardinality(s) <= n}
           IsSum(n, g) == g = [s \in Small(n) |-> IF s = {} THEN 0
                            ELSE LET x == CHOOSE x \in s : TRUE IN f[x] + g[s \ {x}]]
           N == {n \in Nat : \E g : IsSum(n, g)}
<1>0. \A T \in SUBSET S : IsFiniteSet(T) /\ Cardinality(T) \in Nat /\ Cardinality(T) <= Cardinality(S)
  BY FS_Subset, FS_CardinalityType
<1>1. 0 \in N
  <2> DEFINE g == [s \in Small(0) |-> 0]
  <2>1. \A s \in Small(0) : s = {}
    BY <1>0, FS_EmptySet, SMT
  <2>2. IsSum(0, g)
    BY <2>1
  <2> QED BY <2>2
<1>2. ASSUME NEW n \in Nat, n \in N PROVE n + 1 \in N
  <2>1. PICK g : IsSum(n, g)
    BY <1>2
  <2> DEFINE c(s) == CHOOSE x \in s : TRUE
             h == [s \in Small(n + 1) |-> IF s \in Small(n) THEN g[s] ELSE f[c(s)] + g[s \ {c(s)}]]
  <2>2. ASSUME NEW s \in Small(n + 1), s # {}
        PROVE  s \ {c(s)} \in Small(n) /\ s \ {c(s)} \in Small(n + 1)
    <3>1. c(s) \in s /\ s \in SUBSET S /\ Cardinality(s) <= n + 1
      BY <2>2
    <3>2. Cardinality(s \ {c(s)}) = Cardinality(s) - 1
      BY <1>0, <3>1, FS_RemoveElement
    <3>3. s \ {c(s)} \in SUBSET S
      BY <3>1
    <3> HIDE DEF c
    <3>4. Cardinality(s \ {c(s)}) <= n
      BY <1>0, <3>1, <3>2, SMT
    <3> QED BY <1>0, <3>3, <3>4, SMT
  <2>3. ASSUME NEW s \in Small(n + 1)
        PROVE  h[s] = IF s = {} THEN 0 ELSE f[c(s)] + h[s \ {c(s)}]
    <3>1. CASE s = {}
      <4>1. s \in Small(n)
        BY <3>1, FS_EmptySet, SMT
      <4>2. h[s] = g[s] /\ g[s] = 0
        BY <2>1, <4>1, <3>1
      <4> QED BY <4>2, <3>1
    <3>2. CASE s # {} /\ s \in Small(n)
      <4>1. h[s] = g[s] /\ g[s] = f[c(s)] + g[s \ {c(s)}]
        BY <2>1, <3>2
      <4>2. h[s \ {c(s)}] = g[s \ {c(s)}]
        BY <2>2, <3>2
      <4> QED BY <3>2, <4>1, <4>2
    <3>3. CASE s # {} /\ s \notin Small(n)
      <4>1. h[s] = f[c(s)] + g[s \ {c(s)}]
        BY <3>3
      <4>2. h[s \ {c(s)}] = g[s \ {c(s)}]
        BY <2>2, <3>3
      <4> QED BY <3>3, <4>1, <4>2
    <3> QED BY <3>1, <3>2, <3>3
  <2>4. IsSum(n + 1, h)
    <3>1. h = [s \in Small(n + 1) |-> h[s]]
      BY SMT
    <3> DEFINE R == [s \in Small(n + 1) |-> IF s = {} THEN 0 ELSE f[c(s)] + h[s \ {c(s)}]]
    <3>2. \A s \in Small(n + 1) : h[s] = R[s]
      <4> HIDE DEF h, Small, c
      <4> QED BY <2>3
    <3>3. h = R
      <4>1. R = [s \in Small(n + 1) |-> R[s]]
        <5> HIDE DEF h, Small, c
        <5> QED OBVIOUS
      <4> HIDE DEF h, R
      <4> QED BY <3>1, <3>2, <4>1
    <3> HIDE DEF h, Small
    <3> QED BY <3>3
  <2> HIDE DEF h, IsSum
  <2> QED BY <2>4, SMT
<1>3. \A n \in Nat : n \in N
  <2> HIDE DEF N
  <2> QED BY <1>1, <1>2, NatInduct
<1>4. Small(Cardinality(S)) = SUBSET S /\ Cardinality(S) \in Nat
  BY <1>0
<1>5. PICK g : IsSum(Cardinality(S), g)
  BY <1>3, <1>4
<1>6. Sums(f, S, g)
  BY <1>4, <1>5 DEF Sums
<1> QED BY <1>6

\* Two of them agree where the summands do.
LEMMA SumsSame ==
    ASSUME NEW S, NEW T, T \subseteq S, IsFiniteSet(T), NEW f, NEW f2, \A x \in T : f[x] = f2[x],
           NEW g, Sums(f, S, g), NEW h, Sums(f2, T, h)
    PROVE  g[T] = h[T]
<1> DEFINE G == {U \in SUBSET T : g[U] = h[U]}
<1>1. ASSUME NEW U \in SUBSET T, \A x \in U : U \ {x} \in G PROVE U \in G
  <2>1. CASE U = {}
    BY <2>1 DEF Sums
  <2>2. CASE U # {}
    <3> DEFINE c == CHOOSE x \in U : TRUE
    <3>1. g[U] = f[c] + g[U \ {c}] /\ h[U] = f2[c] + h[U \ {c}]
      BY <2>2 DEF Sums
    <3>2. c \in U
      BY <2>2
    <3> HIDE DEF c
    <3> QED BY <1>1, <3>1, <3>2
  <2> QED BY <2>1, <2>2
<1>2. \A U \in SUBSET T : U \in G
  <2> HIDE DEF G
  <2> QED BY <1>1, SetInduct
<1> QED BY <1>2

\* The sum of naturals is a natural, and any element may be taken out of it.
LEMMA SumStep ==
    ASSUME NEW S, IsFiniteSet(S), NEW f, \A x \in S : f[x] \in Nat
    PROVE  /\ SumFunctionOnSet(f, S) \in Nat
           /\ \A x \in S : SumFunctionOnSet(f, S) = f[x] + SumFunctionOnSet(f, S \ {x})
<1>1. PICK g : Sums(f, S, g)
  BY SumsExist
<1>2. \A T \in SUBSET S : g[T] \in Nat /\ \A x \in T : g[T] = f[x] + g[T \ {x}]
  BY <1>1, SumsOrder, SMT
<1>3. ASSUME NEW T \in SUBSET S PROVE SumFunctionOnSet(f, T) = g[T]
  <2> DEFINE h == CHOOSE h : Sums(f, T, h)
  <2>1. Sums(f, T, h)
    BY FS_Subset, SumsExist
  <2>2. SumFunctionOnSet(f, T) = h[T]
    BY SumDef
  <2> HIDE DEF h
  <2>3. g[T] = h[T]
    BY <1>1, <2>1, FS_Subset, SumsSame, SMT
  <2> QED BY <2>2, <2>3
<1> QED BY <1>2, <1>3

\* The sum over no element is 0.
LEMMA SumEmpty ==
    ASSUME NEW f
    PROVE  SumFunctionOnSet(f, {}) = 0
<1> DEFINE h == CHOOSE h : Sums(f, {}, h)
<1>1. Sums(f, {}, h)
  BY FS_EmptySet, SumsExist
<1>2. SumFunctionOnSet(f, {}) = h[{}]
  BY SumDef
<1> HIDE DEF h
<1> QED BY <1>1, <1>2 DEF Sums

\* Equal summands give equal sums.
LEMMA SumSame ==
    ASSUME NEW S, IsFiniteSet(S), NEW f, NEW g, \A x \in S : f[x] = g[x]
    PROVE  SumFunctionOnSet(f, S) = SumFunctionOnSet(g, S)
<1>1. Sums(f, S, CHOOSE h : Sums(f, S, h))
  BY SumsExist
<1>2. Sums(g, S, CHOOSE h : Sums(g, S, h))
  BY SumsExist
<1> QED BY <1>1, <1>2, SumsSame, SumDef, SMT

\* A ratio that bounds every pair of summands bounds the sums.
LEMMA SumRatio ==
    ASSUME NEW S, IsFiniteSet(S), NEW f, \A x \in S : f[x] \in Nat,
           NEW g, \A x \in S : g[x] \in Nat,
           NEW m \in Nat, NEW n \in Nat, \A x \in S : m * f[x] <= n * g[x]
    PROVE  m * SumFunctionOnSet(f, S) <= n * SumFunctionOnSet(g, S)
<1> DEFINE G == {T \in SUBSET S : m * SumFunctionOnSet(f, T) <= n * SumFunctionOnSet(g, T)}
<1>1. ASSUME NEW T \in SUBSET S, \A x \in T : T \ {x} \in G PROVE T \in G
  <2>1. CASE T = {}
    <3>1. SumFunctionOnSet(f, T) = 0 /\ SumFunctionOnSet(g, T) = 0
      BY <2>1, SumEmpty
    <3> QED BY <3>1, SMT
  <2>2. CASE T # {}
    <3>1. PICK x : x \in T
      BY <2>2
    <3> DEFINE fr == SumFunctionOnSet(f, T \ {x})
               gr == SumFunctionOnSet(g, T \ {x})
    <3>2. IsFiniteSet(T) /\ IsFiniteSet(T \ {x})
      BY FS_Subset
    <3>3. fr \in Nat /\ gr \in Nat
      BY <3>2, SumStep
    <3>4. SumFunctionOnSet(f, T) = f[x] + fr /\ SumFunctionOnSet(g, T) = g[x] + gr
      BY <3>1, <3>2, SumStep
    <3>5. m * fr <= n * gr /\ m * f[x] <= n * g[x] /\ f[x] \in Nat /\ g[x] \in Nat
      BY <1>1, <3>1
    <3> HIDE DEF fr, gr
    <3>6. m * (f[x] + fr) = m * f[x] + m * fr /\ n * (g[x] + gr) = n * g[x] + n * gr
      BY <3>3, <3>5, SMT
    <3>7. m * (f[x] + fr) <= n * (g[x] + gr)
      BY <3>3, <3>5, <3>6, SMT
    <3> QED BY <3>4, <3>7
  <2> QED BY <2>1, <2>2
<1>2. \A T \in SUBSET S : T \in G
  <2> HIDE DEF G
  <2> QED BY <1>1, SetInduct
<1> QED BY <1>2

\* Smaller summands give a smaller sum.
LEMMA SumLE ==
    ASSUME NEW S, IsFiniteSet(S), NEW f, \A x \in S : f[x] \in Nat,
           NEW g, \A x \in S : g[x] \in Nat, \A x \in S : f[x] <= g[x]
    PROVE  SumFunctionOnSet(f, S) <= SumFunctionOnSet(g, S)
<1>1. \A x \in S : 1 * f[x] <= 1 * g[x]
  BY SMT
<1>2. 1 * SumFunctionOnSet(f, S) <= 1 * SumFunctionOnSet(g, S)
  BY <1>1, SumRatio
<1>3. SumFunctionOnSet(f, S) \in Nat /\ SumFunctionOnSet(g, S) \in Nat
  BY SumStep
<1> QED BY <1>2, <1>3, SMT

\* A sum of zeros is 0.
LEMMA SumZero ==
    ASSUME NEW S, IsFiniteSet(S), NEW f, \A x \in S : f[x] = 0
    PROVE  SumFunctionOnSet(f, S) = 0
<1>1. \A x \in S : f[x] \in Nat /\ 1 * f[x] <= 0 * f[x]
  BY SMT
<1>2. 1 * SumFunctionOnSet(f, S) <= 0 * SumFunctionOnSet(f, S)
  BY <1>1, SumRatio
<1>3. SumFunctionOnSet(f, S) \in Nat
  BY <1>1, SumStep
<1> QED BY <1>2, <1>3, SMT

\* Adding up two summands at once gives the sum of their sums.
LEMMA SumPlus ==
    ASSUME NEW S, IsFiniteSet(S), NEW f, \A x \in S : f[x] \in Nat,
           NEW g, \A x \in S : g[x] \in Nat, NEW h, \A x \in S : h[x] = f[x] + g[x]
    PROVE  SumFunctionOnSet(h, S) = SumFunctionOnSet(f, S) + SumFunctionOnSet(g, S)
<1> DEFINE G == {T \in SUBSET S : SumFunctionOnSet(h, T) = SumFunctionOnSet(f, T) + SumFunctionOnSet(g, T)}
<1>1. ASSUME NEW T \in SUBSET S, \A x \in T : T \ {x} \in G PROVE T \in G
  <2>1. CASE T = {}
    <3>1. SumFunctionOnSet(f, T) = 0 /\ SumFunctionOnSet(g, T) = 0 /\ SumFunctionOnSet(h, T) = 0
      BY <2>1, SumEmpty
    <3> QED BY <3>1, SMT
  <2>2. CASE T # {}
    <3>1. PICK x : x \in T
      BY <2>2
    <3> DEFINE fr == SumFunctionOnSet(f, T \ {x})
               gr == SumFunctionOnSet(g, T \ {x})
               hr == SumFunctionOnSet(h, T \ {x})
    <3>2. IsFiniteSet(T) /\ IsFiniteSet(T \ {x}) /\ \A y \in S : h[y] \in Nat
      BY FS_Subset, SMT
    <3>3. fr \in Nat /\ gr \in Nat
      BY <3>2, SumStep
    <3>4. SumFunctionOnSet(f, T) = f[x] + fr /\ SumFunctionOnSet(g, T) = g[x] + gr
      BY <3>1, <3>2, SumStep
    <3>5. SumFunctionOnSet(h, T) = h[x] + hr
      BY <3>1, <3>2, SumStep
    <3>6. hr = fr + gr /\ h[x] = f[x] + g[x] /\ f[x] \in Nat /\ g[x] \in Nat
      BY <1>1, <3>1
    <3> HIDE DEF fr, gr, hr
    <3> QED BY <3>3, <3>4, <3>5, <3>6, SMT
  <2> QED BY <2>1, <2>2
<1>2. \A T \in SUBSET S : T \in G
  <2> HIDE DEF G
  <2> QED BY <1>1, SetInduct
<1> QED BY <1>2

\* A sum is the sum over a part and the sum over the rest.
LEMMA SumSplit ==
    ASSUME NEW S, IsFiniteSet(S), NEW f, \A x \in S : f[x] \in Nat, NEW T \in SUBSET S
    PROVE  SumFunctionOnSet(f, S) = SumFunctionOnSet(f, T) + SumFunctionOnSet(f, S \ T)
<1> DEFINE G == {U \in SUBSET T : SumFunctionOnSet(f, U \union (S \ T))
                                    = SumFunctionOnSet(f, U) + SumFunctionOnSet(f, S \ T)}
           rest == SumFunctionOnSet(f, S \ T)
<1>1. rest \in Nat
  <2>1. IsFiniteSet(S \ T)
    BY FS_Subset
  <2> QED BY <2>1, SumStep
<1>2. ASSUME NEW U \in SUBSET T, \A x \in U : U \ {x} \in G PROVE U \in G
  <2>1. CASE U = {}
    <3>1. SumFunctionOnSet(f, U) = 0 /\ U \union (S \ T) = S \ T
      BY <2>1, SumEmpty
    <3>2. SumFunctionOnSet(f, U \union (S \ T)) = rest
      BY <3>1
    <3>3. SumFunctionOnSet(f, U \union (S \ T)) = SumFunctionOnSet(f, U) + rest
      <4> HIDE DEF rest
      <4> QED BY <1>1, <3>1, <3>2, SMT
    <3> QED BY <3>3
  <2>2. CASE U # {}
    <3>1. PICK x : x \in U
      BY <2>2
    <3> DEFINE V == U \union (S \ T)
               fr == SumFunctionOnSet(f, U \ {x})
               vr == SumFunctionOnSet(f, V \ {x})
    <3>2. IsFiniteSet(U) /\ IsFiniteSet(V) /\ IsFiniteSet(U \ {x}) /\ V \subseteq S /\ U \subseteq S
      BY FS_Subset
    <3>3. fr \in Nat
      BY <3>2, SumStep
    <3>4. SumFunctionOnSet(f, U) = f[x] + fr /\ SumFunctionOnSet(f, V) = f[x] + vr
      BY <3>1, <3>2, SumStep
    <3>5. (U \ {x}) \union (S \ T) = V \ {x}
      BY <3>1
    <3>6. vr = fr + rest /\ f[x] \in Nat
      BY <1>2, <3>1, <3>5
    <3>7. SumFunctionOnSet(f, V) = SumFunctionOnSet(f, U) + rest
      <4> HIDE DEF fr, vr, V, rest
      <4> QED BY <1>1, <3>3, <3>4, <3>6, SMT
    <3> QED BY <3>7
  <2> QED BY <2>1, <2>2
<1>3. \A U \in SUBSET T : U \in G
  <2>1. IsFiniteSet(T)
    BY FS_Subset
  <2> HIDE DEF G
  <2> QED BY <1>2, <2>1, SetInduct
<1>4. T \union (S \ T) = S
  OBVIOUS
<1> QED BY <1>3, <1>4

\* row is the row h of the table f.
IsRow(f, h, W, row) == \A o \in W : f[<<h, o>>] \in Nat /\ row[o] = f[<<h, o>>]

\* The sum over one row of a table is the sum of the row.
LEMMA SumRow ==
    ASSUME NEW W, IsFiniteSet(W), NEW h, NEW f, NEW row, IsRow(f, h, W, row)
    PROVE  SumFunctionOnSet(f, {h} \X W) = SumFunctionOnSet(row, W)
<1>0. \A o \in W : f[<<h, o>>] \in Nat /\ row[o] = f[<<h, o>>]
  BY DEF IsRow
<1> DEFINE G == {V \in SUBSET W : SumFunctionOnSet(f, {h} \X V) = SumFunctionOnSet(row, V)}
<1>1. ASSUME NEW V \in SUBSET W, \A o \in V : V \ {o} \in G PROVE V \in G
  <2>1. CASE V = {}
    <3>1. {h} \X V = {}
      BY <2>1
    <3> QED BY <2>1, <3>1, SumEmpty
  <2>2. CASE V # {}
    <3>1. PICK o : o \in V
      BY <2>2
    <3> DEFINE P == {h} \X V
    <3>2. IsFiniteSet({h}) /\ IsFiniteSet(V)
      BY FS_Subset, FS_Singleton
    <3>3. IsFiniteSet(P)
      BY <3>2, FS_Product
    <3>4. \A x \in P : f[x] \in Nat
      BY <1>0, SMT
    <3>5. \A v \in V : row[v] \in Nat
      BY <1>0
    <3>6. <<h, o>> \in P /\ P \ {<<h, o>>} = {h} \X (V \ {o})
      BY <3>1, SMT
    <3> HIDE DEF P
    <3>7. SumFunctionOnSet(f, P) = f[<<h, o>>] + SumFunctionOnSet(f, {h} \X (V \ {o}))
      BY <3>3, <3>4, <3>6, SumStep, SMT
    <3>8. row[o] = f[<<h, o>>]
      BY <1>0, <3>1
    <3>9. SumFunctionOnSet(row, V) = row[o] + SumFunctionOnSet(row, V \ {o})
      BY <3>1, <3>2, <3>5, SumStep
    <3>10. SumFunctionOnSet(f, {h} \X (V \ {o})) = SumFunctionOnSet(row, V \ {o})
      BY <1>1, <3>1
    <3>11. SumFunctionOnSet(f, P) = SumFunctionOnSet(row, V)
      BY <3>7, <3>8, <3>9, <3>10
    <3> QED BY <3>11 DEF P
  <2> QED BY <2>1, <2>2
<1>2. \A V \in SUBSET W : V \in G
  <2> HIDE DEF G
  <2> QED BY <1>1, SetInduct
<1> QED BY <1>2

\* r holds the sums of the rows of the table f.
AreRowSums(f, H, W, r) ==
    \A h \in H : \E row : IsRow(f, h, W, row) /\ r[h] = SumFunctionOnSet(row, W)

\* The sum over a table is the sum of the sums of its rows.
LEMMA SumRows ==
    ASSUME NEW H, IsFiniteSet(H), NEW W, IsFiniteSet(W), NEW f, \A x \in H \X W : f[x] \in Nat,
           NEW r, AreRowSums(f, H, W, r)
    PROVE  SumFunctionOnSet(r, H) = SumFunctionOnSet(f, H \X W)
<1> DEFINE G == {T \in SUBSET H : SumFunctionOnSet(r, T) = SumFunctionOnSet(f, T \X W)}
<1>0. ASSUME NEW h \in H PROVE r[h] \in Nat /\ r[h] = SumFunctionOnSet(f, {h} \X W)
  <2>1. PICK row : IsRow(f, h, W, row) /\ r[h] = SumFunctionOnSet(row, W)
    BY DEF AreRowSums
  <2>2. SumFunctionOnSet(f, {h} \X W) = SumFunctionOnSet(row, W)
    BY <2>1, SumRow, SMT
  <2>2a. \A o \in W : row[o] \in Nat
    BY <2>1 DEF IsRow
  <2>3. SumFunctionOnSet(row, W) \in Nat
    BY <2>2a, SumStep
  <2> QED BY <2>1, <2>2, <2>3
<1>1. ASSUME NEW T \in SUBSET H, \A h \in T : T \ {h} \in G PROVE T \in G
  <2>1. CASE T = {}
    <3>1. T \X W = {}
      BY <2>1
    <3> QED BY <2>1, <3>1, SumEmpty
  <2>2. CASE T # {}
    <3>1. PICK h : h \in T
      BY <2>2
    <3>2a. IsFiniteSet(T)
      BY FS_Subset
    <3>2. IsFiniteSet(T) /\ IsFiniteSet(T \X W)
      BY <3>2a, FS_Product
    <3> DEFINE P == T \X W
    <3>3. {h} \X W \in SUBSET P /\ P \ ({h} \X W) = (T \ {h}) \X W /\ \A x \in P : f[x] \in Nat
      BY <3>1
    <3>4. IsFiniteSet(P)
      BY <3>2
    <3> HIDE DEF P
    <3>5. SumFunctionOnSet(f, P) = SumFunctionOnSet(f, {h} \X W) + SumFunctionOnSet(f, (T \ {h}) \X W)
      BY <3>3, <3>4, SumSplit, SMT
    <3>6a. \A x \in T : r[x] \in Nat
      BY <1>0
    <3>6. SumFunctionOnSet(r, T) = r[h] + SumFunctionOnSet(r, T \ {h})
      BY <3>6a, <3>1, <3>2a, SumStep
    <3>7. SumFunctionOnSet(r, T \ {h}) = SumFunctionOnSet(f, (T \ {h}) \X W)
      BY <1>1, <3>1
    <3>8. SumFunctionOnSet(r, T) = SumFunctionOnSet(f, P)
      BY <1>0, <3>1, <3>5, <3>6, <3>7
    <3> QED BY <3>8 DEF P
  <2> QED BY <2>1, <2>2
<1>2. \A T \in SUBSET H : T \in G
  <2> HIDE DEF G
  <2> QED BY <1>1, SetInduct
<1> QED BY <1>2

\* Min is the least member of a set of naturals.
LEMMA LeastIsMin ==
    ASSUME NEW T, T \subseteq Nat, T # {}
    PROVE  Min(T) \in T /\ \A m \in T : Min(T) <= m
BY LeastNat DEF Min

\* Max is the greatest member of a finite set of integers.
LEMMA FiniteHasMax ==
    ASSUME NEW S, IsFiniteSet(S), S # {}, S \subseteq Int
    PROVE  Max(S) \in S /\ \A m \in S : m <= Max(S)
<1> DEFINE G == {T \in SUBSET S : T # {} => \E x \in T : \A y \in T : y <= x}
<1>1. ASSUME NEW T \in SUBSET S, \A x \in T : T \ {x} \in G PROVE T \in G
  <2>1. SUFFICES ASSUME T # {} PROVE \E x \in T : \A y \in T : y <= x
    OBVIOUS
  <2>2. PICK x : x \in T
    BY <2>1
  <2>3. CASE T \ {x} = {}
    BY <2>2, <2>3, SMT
  <2>4. CASE T \ {x} # {}
    <3>1. PICK z \in T \ {x} : \A y \in T \ {x} : y <= z
      BY <1>1, <2>2, <2>4
    <3>2. x \in Int /\ z \in Int /\ \A y \in T : y \in Int
      BY <2>2
    <3>3. CASE x <= z
      BY <3>1, <3>2, <3>3
    <3>4. CASE z <= x
      <4>1. \A y \in T : y <= x
        BY <3>1, <3>2, <3>4, SMT
      <4> QED BY <4>1, <2>2
    <3> QED BY <3>2, <3>3, <3>4, SMT
  <2> QED BY <2>3, <2>4
<1>2. \A T \in SUBSET S : T \in G
  <2> HIDE DEF G
  <2> QED BY <1>1, SetInduct
<1>3. \E x \in S : \A y \in S : y <= x
  BY <1>2
<1> QED BY <1>3 DEF Max

\* Max of two integers.
LEMMA MaxOfTwo ==
    ASSUME NEW a \in Int, NEW b \in Int
    PROVE  Max({a, b}) = (IF a <= b THEN b ELSE a)
<1>1. \E x \in {a, b} : \A y \in {a, b} : x >= y
  BY SMT
<1> QED BY <1>1, SMT DEF Max

\* Min of two integers.
LEMMA MinOfTwo ==
    ASSUME NEW a \in Int, NEW b \in Int
    PROVE  Min({a, b}) = (IF a <= b THEN a ELSE b)
<1>1. \E x \in {a, b} : \A y \in {a, b} : x <= y
  BY SMT
<1> QED BY <1>1, SMT DEF Min

\* Division by a positive number is monotonic.
LEMMA DivMono ==
    ASSUME NEW k \in Nat, k > 0, NEW a \in Int, NEW b \in Int, a <= b
    PROVE  a \div k \in Int /\ a \div k <= b \div k
BY SMT

\* Division rounds down.
LEMMA DivLE ==
    ASSUME NEW k \in Nat, k > 0, NEW a \in Nat
    PROVE  a \div k \in Nat /\ k * (a \div k) <= a
BY SMT

--------------------------------------------------------------------------------
(* The settings and the types of the tables.                               *)

\* The settings are what SetupsAssumption says of every setup.
LEMMA SettingTypes ==
    ASSUME setup \in Setups
    PROVE  /\ IsFiniteSet(Hotkeys) /\ Amounts \subseteq Nat
           /\ PeriodSeconds \in Nat /\ PeriodSeconds > 0
           /\ CATCHUP_ENTRIES \in Nat /\ CATCHUP_ENTRIES > 0
           /\ slack_s \in Nat /\ cap \in Nat /\ carry_periods \in Nat /\ carry_max_caps \in Nat
           /\ outage_grace_s \in Nat /\ outage_max_s \in Nat
           /\ BanSeconds \in Nat /\ IngestLimit \in Nat /\ MaxTime \in Nat /\ DOWNTIME_MIN_S \in Nat
           /\ outage_fill \in BOOLEAN
<1>1. IsSetup(setup)
  BY SetupsAssumption
<1>2. /\ IsFiniteSet(Hotkeys) /\ Amounts \subseteq Nat
      /\ PeriodSeconds \in Nat \ {0} /\ CATCHUP_ENTRIES \in Nat \ {0}
      /\ slack_s \in Nat /\ cap \in Nat /\ carry_periods \in Nat /\ carry_max_caps \in Nat
      /\ outage_grace_s \in Nat /\ outage_max_s \in Nat
      /\ BanSeconds \in Nat /\ IngestLimit \in Nat /\ MaxTime \in Nat /\ DOWNTIME_MIN_S \in Nat
      /\ outage_fill \in BOOLEAN
  BY <1>1 DEF IsSetup, Hotkeys, Amounts, PeriodSeconds, CATCHUP_ENTRIES, slack_s, cap, carry_periods,
     carry_max_caps, outage_grace_s, outage_max_s, BanSeconds, IngestLimit, MaxTime, DOWNTIME_MIN_S, outage_fill
<1>3. PeriodSeconds > 0 /\ CATCHUP_ENTRIES > 0
  BY <1>2, SMT
<1> QED BY <1>2, <1>3

\* The setup is chosen once, and with it every setting.
LEMMA SameSettings ==
    ASSUME setup' = setup
    PROVE  /\ Hotkeys' = Hotkeys /\ Amounts' = Amounts /\ PeriodSeconds' = PeriodSeconds
           /\ CATCHUP_ENTRIES' = CATCHUP_ENTRIES /\ slack_s' = slack_s /\ cap' = cap
           /\ carry_periods' = carry_periods /\ carry_max_caps' = carry_max_caps
           /\ outage_fill' = outage_fill /\ outage_grace_s' = outage_grace_s /\ outage_max_s' = outage_max_s
           /\ MaxTime' = MaxTime /\ Work' = Work
BY DEF Hotkeys, Amounts, PeriodSeconds, CATCHUP_ENTRIES, slack_s, cap, carry_periods, carry_max_caps,
       outage_fill, outage_grace_s, outage_max_s, MaxTime, Work, period_of

\* Of the periods from due on there is one with room for an archive: there are more of
\* them than archives.
LEMMA EntryHasRoom ==
    ASSUME setup \in Setups, NEW due \in Nat, NEW P, IsFiniteSet(DOMAIN P)
    PROVE  /\ entry_for(due, P) \in Nat
           /\ Cardinality({p \in DOMAIN P : P[p].entry = entry_for(due, P)}) < CATCHUP_ENTRIES
<1> DEFINE n == Cardinality(DOMAIN P)
           E == due .. due + n
           At(e) == {p \in DOMAIN P : P[p].entry = e}
           Room == {e \in E : Cardinality(At(e)) < CATCHUP_ENTRIES}
<1>1. n \in Nat
  BY FS_CardinalityType
<1>2. Room # {}
  <2>1. SUFFICES ASSUME Room = {} PROVE FALSE
    OBVIOUS
  <2>2. ASSUME NEW e \in E PROVE \E p \in DOMAIN P : P[p].entry = e
    <3>1. SUFFICES ASSUME At(e) = {} PROVE FALSE
      OBVIOUS
    <3>2. Cardinality(At(e)) = 0
      BY <3>1, FS_EmptySet
    <3>3. CATCHUP_ENTRIES \in Nat /\ CATCHUP_ENTRIES > 0
      BY SettingTypes
    <3>4. e \in Room
      BY <3>2, <3>3
    <3> QED BY <2>1, <3>4
  <2> DEFINE f == [e \in E |-> CHOOSE p \in DOMAIN P : P[p].entry = e]
  <2>3. f \in [E -> DOMAIN P] /\ \A e \in E : P[f[e]].entry = e
    BY <2>2
  <2>4. IsFiniteSet(E) /\ Cardinality(E) = n + 1
    <3>1. due \in Int /\ due + n \in Int /\ ~ (due > due + n)
      BY <1>1, SMT
    <3>2. /\ IsFiniteSet(due .. (due + n))
          /\ Cardinality(due .. (due + n)) = IF due > due + n THEN 0 ELSE (due + n) - due + 1
      BY <3>1, FS_Interval
    <3>3. (due + n) - due + 1 = n + 1
      BY <1>1, SMT
    <3> HIDE DEF n
    <3> QED BY <1>1, <3>2, <3>3, SMT
  <2>5. Cardinality(DOMAIN P) < Cardinality(E)
    BY <1>1, <2>4, SMT
  <2> HIDE DEF f, E
  <2>6. \E x, y \in E : x # y /\ f[x] = f[y]
    BY <2>3, <2>4, <2>5, FS_PigeonHole, SMT
  <2> QED BY <2>3, <2>6
<1>3. Room \subseteq Nat
  BY <1>1, SMT
<1>4. entry_for(due, P) = Min(Room)
  BY DEF entry_for
<1>5. Min(Room) \in Room
  <2> HIDE DEF Room
  <2> QED BY <1>2, <1>3, LeastIsMin
<1> QED BY <1>3, <1>4, <1>5

\* An accrual, an archive, and the rows of the carry.
Row == [hotkey : Hotkeys, period : Nat, amount : Nat, status : {"accrued", "settled", "forfeited"}]
ArchiveRow == [work : Nat, entry : Nat, outage_s : Nat, rewards : [Hotkeys -> Nat],
            published : {"unattempted", "attempted", "yes"}]
Table == Hotkeys \X Work

\* The books of the ledger are of their types.
LedgerType(L) ==
    /\ L = [accruals |-> L.accruals, carry |-> L.carry, periods |-> L.periods]
    /\ IsFiniteSet(DOMAIN L.accruals) /\ L.accruals \in [DOMAIN L.accruals -> Row]
    /\ L.carry \in [Table -> Nat]
    /\ DOMAIN L.periods \subseteq Work /\ L.periods \in [DOMAIN L.periods -> ArchiveRow]

\* The spans the trainer or the validator was silent in are pairs of times.
Span == Nat \X Nat
ClockType ==
    /\ setup \in Setups /\ now \in Nat
    /\ bans \in [Hotkeys -> Nat]
    /\ downtime \in SUBSET Span /\ outages \in SUBSET Span
    /\ last_at \in Nat \union {-1}

\* SumFunction of naturals is a natural.
LEMMA SumFunType ==
    ASSUME NEW f, IsFiniteSet(DOMAIN f), \A x \in DOMAIN f : f[x] \in Nat
    PROVE  SumFunction(f) \in Nat
BY SumStep DEF SumFunction

\* The work periods of an instance are an interval of the naturals from 0.
LEMMA WorkType ==
    ASSUME setup \in Setups
    PROVE  /\ Work \subseteq Nat /\ IsFiniteSet(Work) /\ IsFiniteSet(Table)
           /\ period_of(MaxTime) \in Nat /\ Work = 0 .. period_of(MaxTime)
           /\ Cardinality(Work) = period_of(MaxTime) + 1
<1>1. MaxTime \in Nat /\ PeriodSeconds \in Nat /\ PeriodSeconds > 0 /\ IsFiniteSet(Hotkeys)
  BY SettingTypes
<1>2. period_of(MaxTime) \in Nat
  BY <1>1, DivLE DEF period_of
<1>3. Work = 0 .. period_of(MaxTime)
  BY DEF Work
<1>4. IsFiniteSet(0 .. period_of(MaxTime))
      /\ Cardinality(0 .. period_of(MaxTime))
           = IF 0 > period_of(MaxTime) THEN 0 ELSE period_of(MaxTime) - 0 + 1
  BY <1>2, FS_Interval, SMT
<1>5. Work \subseteq Nat /\ IsFiniteSet(Work) /\ Cardinality(Work) = period_of(MaxTime) + 1
  BY <1>2, <1>3, <1>4, SMT
<1>6. IsFiniteSet(Table)
  BY <1>1, <1>5, FS_Product DEF Table
<1> QED BY <1>2, <1>3, <1>5, <1>6

\* Every time has its period.
LEMMA PeriodOfNat ==
    ASSUME setup \in Setups, NEW t \in Nat
    PROVE  period_of(t) \in Nat
<1>1. PeriodSeconds \in Nat /\ PeriodSeconds > 0
  BY SettingTypes
<1> QED BY <1>1, DivLE DEF period_of

\* The part of an amount that is paid: all of it within the cap, and in proportion over it.
LEMMA ScaledLE ==
    ASSUME setup \in Setups, NEW a \in Nat, NEW total \in Nat
    PROVE  /\ Scaled(a, total) \in Nat
           /\ Scaled(a, total) <= a
           /\ total > cap => total * Scaled(a, total) <= cap * a
           /\ total <= cap => Scaled(a, total) = a
<1>1. cap \in Nat
  BY SettingTypes
<1>2. CASE total <= cap
  BY <1>1, <1>2, SMT DEF Scaled
<1>3. CASE total > cap
  <2>1. total > 0 /\ a * cap \in Nat /\ a * cap = cap * a
    BY <1>1, <1>3, SMT
  <2> DEFINE q == (a * cap) \div total
  <2>2. q \in Nat /\ total * q <= a * cap
    BY <2>1, DivLE
  <2>3. Scaled(a, total) = q
    BY <1>1, <1>3, SMT DEF Scaled
  <2> HIDE DEF q
  <2>4. q <= a
    <3>1. SUFFICES ASSUME q > a PROVE FALSE
      BY <2>2, SMT
    <3>2. total * q >= total * (a + 1)
      BY <2>1, <2>2, <3>1, SMT
    <3>3. total * (a + 1) = total * a + total
      BY <2>1, SMT
    <3>4. total * a >= cap * a
      BY <1>1, <1>3, SMT
    <3> QED BY <1>1, <2>1, <2>2, <3>2, <3>3, <3>4, SMT
  <2> QED BY <1>1, <1>3, <2>1, <2>2, <2>3, <2>4, SMT
<1> QED BY <1>1, <1>2, <1>3, SMT

--------------------------------------------------------------------------------
(* What settling one period computes.                                      *)

\* The accruals of a period, and those of a hotkey among them, are finitely many.
LEMMA RowsFinite ==
    ASSUME NEW L, LedgerType(L), NEW p, NEW h
    PROVE  /\ Rows(L, p) \subseteq DOMAIN L.accruals /\ IsFiniteSet(Rows(L, p))
           /\ RowsOf(L, p, h) \subseteq Rows(L, p) /\ IsFiniteSet(RowsOf(L, p, h))
           /\ \A s \in DOMAIN L.accruals : L.accruals[s] \in Row
<1>1. IsFiniteSet(DOMAIN L.accruals) /\ \A s \in DOMAIN L.accruals : L.accruals[s] \in Row
  BY DEF LedgerType
<1>2. Rows(L, p) \in SUBSET DOMAIN L.accruals /\ RowsOf(L, p, h) \in SUBSET DOMAIN L.accruals
      /\ RowsOf(L, p, h) \subseteq Rows(L, p)
  BY DEF Rows, RowsOf
<1> QED BY <1>1, <1>2, FS_Subset

\* A hotkey's fresh pay is the sum of its accruals of the period.
LEMMA FreshType ==
    ASSUME NEW L, LedgerType(L), NEW p
    PROVE  /\ Fresh(L, p) \in [Hotkeys -> Nat]
           /\ \A h \in Hotkeys :
                Fresh(L, p)[h] = SumFunctionOnSet([s \in RowsOf(L, p, h) |-> L.accruals[s].amount], RowsOf(L, p, h))
<1>1. ASSUME NEW h \in Hotkeys
      PROVE  /\ SumFunction([s \in RowsOf(L, p, h) |-> L.accruals[s].amount]) \in Nat
             /\ SumFunction([s \in RowsOf(L, p, h) |-> L.accruals[s].amount])
                  = SumFunctionOnSet([s \in RowsOf(L, p, h) |-> L.accruals[s].amount], RowsOf(L, p, h))
  <2> DEFINE f == [s \in RowsOf(L, p, h) |-> L.accruals[s].amount]
  <2>1. IsFiniteSet(RowsOf(L, p, h)) /\ RowsOf(L, p, h) \subseteq DOMAIN L.accruals
        /\ \A s \in DOMAIN L.accruals : L.accruals[s] \in Row
    BY RowsFinite
  <2>2. DOMAIN f = RowsOf(L, p, h) /\ \A s \in RowsOf(L, p, h) : f[s] \in Nat
    BY <2>1 DEF Row
  <2>3. SumFunction(f) = SumFunctionOnSet(f, DOMAIN f)
    BY DEF SumFunction
  <2> HIDE DEF f
  <2>4. SumFunction(f) \in Nat
    BY <2>1, <2>2, SumFunType
  <2>5. SumFunction(f) = SumFunctionOnSet(f, RowsOf(L, p, h))
    BY <2>2, <2>3
  <2> QED BY <2>4, <2>5 DEF f
<1>2. Fresh(L, p) = [h \in Hotkeys |-> SumFunction([s \in RowsOf(L, p, h) |-> L.accruals[s].amount])]
  BY DEF Fresh
<1> QED BY <1>1, <1>2

\* What settling period p pays from the carry: no more than was pending, none of it of p or later,
\* expired or of a banned hotkey, and no row both taken and kept.
LEMMA CarriedInType ==
    ASSUME setup \in Setups, NEW L, LedgerType(L), NEW p \in Work, NEW t
    PROVE  LET C == CarriedIn(L.carry, bans, p, t) IN
           /\ C \in [Table -> Nat]
           /\ \A x \in Table :
                /\ C[x] <= L.carry[x]
                /\ x[2] >= p => C[x] = 0
                /\ C[x] > 0 => p - x[2] <= carry_periods
                /\ t < bans[x[1]] => C[x] = 0
                /\ C[x] + _take_carry(L.carry, p)[x] <= L.carry[x]
<1>1. L.carry \in [Table -> Nat] /\ DOMAIN L.carry = Table
  BY DEF LedgerType
<1>2. carry_periods \in Nat /\ Work \subseteq Nat
  BY SettingTypes, WorkType
<1>3. \A x \in Table : x[2] \in Nat /\ p \in Nat
  BY <1>2 DEF Table
<1>4. CarriedIn(L.carry, bans, p, t)
        = [x \in Table |-> IF x[2] < p /\ p - x[2] <= carry_periods /\ ~ (t < bans[x[1]]) THEN L.carry[x] ELSE 0]
  BY <1>1 DEF CarriedIn, _banned
<1>5. _take_carry(L.carry, p) = [x \in Table |-> IF x[2] < p THEN 0 ELSE L.carry[x]]
  BY <1>1 DEF _take_carry
<1> DEFINE C == CarriedIn(L.carry, bans, p, t)
           K == _take_carry(L.carry, p)
<1>6. C \in [Table -> Nat]
  BY <1>1, <1>4, SMT
<1>7. ASSUME NEW x \in Table
      PROVE  /\ C[x] = IF x[2] < p /\ p - x[2] <= carry_periods /\ ~ (t < bans[x[1]]) THEN L.carry[x] ELSE 0
             /\ K[x] = IF x[2] < p THEN 0 ELSE L.carry[x]
  BY <1>4, <1>5
<1> HIDE DEF C, K
<1>8. ASSUME NEW x \in Table
      PROVE  /\ C[x] <= L.carry[x]
             /\ x[2] >= p => C[x] = 0
             /\ C[x] > 0 => p - x[2] <= carry_periods
             /\ t < bans[x[1]] => C[x] = 0
             /\ C[x] + K[x] <= L.carry[x]
  <2>1. L.carry[x] \in Nat
    BY <1>1
  <2> QED BY <1>3, <1>7, <2>1, SMT
<1> QED BY <1>6, <1>8 DEF C, K

\* The outage seconds of a period are a natural, and 0 without the fill.
LEMMA DownType ==
    ASSUME setup \in Setups, NEW p \in Nat, NEW t
    PROVE  Down(p, t) \in Nat /\ (~ outage_fill => Down(p, t) = 0)
<1> DEFINE I == (period_end(p) - PeriodSeconds) .. (period_end(p) - 1)
           D == {u \in I : \E o \in _outages(t) : o[1] <= u /\ u < o[2]}
<1>1. Down(p, t) = Cardinality(D)
  BY DEF Down, _outage_seconds
<1>2. PeriodSeconds \in Nat
  BY SettingTypes
<1>3. period_end(p) \in Int
  BY <1>2, SMT DEF period_end
<1>4. IsFiniteSet(I)
  BY <1>2, <1>3, FS_Interval, SMT
<1>5. D \in SUBSET I
  OBVIOUS
<1>6. IsFiniteSet(D)
  <2> HIDE DEF I, D
  <2> QED BY <1>4, <1>5, FS_Subset
<1>7. Cardinality(D) \in Nat
  <2> HIDE DEF D
  <2> QED BY <1>6, FS_CardinalityType
<1>8. ~ outage_fill => D = {}
  <2>1. ~ outage_fill => _outages(t) = {}
    BY DEF _outages
  <2> QED BY <2>1
<1> HIDE DEF D
<1> QED BY <1>1, <1>7, <1>8, FS_EmptySet

\* The fill is a natural for each hotkey, 0 without the setting and for a banned hotkey.
LEMMA FillType ==
    ASSUME setup \in Setups, NEW L, LedgerType(L), NEW p \in Nat, NEW t
    PROVE  /\ Fill(L, p, t) \in [Hotkeys -> Nat]
           /\ ~ outage_fill => \A h \in Hotkeys : Fill(L, p, t)[h] = 0
           /\ \A h \in Hotkeys : t < bans[h] => Fill(L, p, t)[h] = 0
<1>1. Down(p, t) \in Nat /\ (~ outage_fill => Down(p, t) = 0)
  BY DownType
<1>2. CASE Down(p, t) = 0
  <2>1. Fill(L, p, t) = [h \in Hotkeys |-> 0]
    BY <1>2, SMT DEF Fill
  <2> QED BY <2>1, SMT
<1>3. CASE Down(p, t) # 0
  <2> DEFINE d == Down(p, t)
             P == L.periods
             refs == References(P)
             share(h) == [q \in refs |-> (P[q].rewards[h] * d) \div (PeriodSeconds * Cardinality(refs))]
             G(h) == IF refs = {} \/ t < bans[h] THEN 0 ELSE SumFunction(share(h))
  <2>1. d \in Nat /\ d > 0
    BY <1>1, <1>3, SMT
  <2>2. Fill(L, p, t) = [h \in Hotkeys |-> G(h)]
    BY <2>1 DEF Fill, _outage_fill, _banned
  <2>3. IsFiniteSet(DOMAIN P) /\ \A q \in DOMAIN P : P[q] \in ArchiveRow
    <3>1. DOMAIN P \in SUBSET Work /\ \A q \in DOMAIN P : P[q] \in ArchiveRow
      BY DEF LedgerType
    <3> QED BY <3>1, WorkType, FS_Subset
  <2>4. refs \in SUBSET DOMAIN P
    BY DEF References
  <2> HIDE DEF d, refs, P
  <2>5. IsFiniteSet(refs) /\ Cardinality(refs) \in Nat /\ (refs # {} => Cardinality(refs) > 0)
    BY <2>3, <2>4, FS_Subset, FS_EmptySet, FS_CardinalityType, SMT
  <2>6. PeriodSeconds \in Nat /\ PeriodSeconds > 0
    BY SettingTypes
  <2>7. ASSUME NEW h \in Hotkeys, refs # {} PROVE SumFunction(share(h)) \in Nat
    <3> DEFINE m == PeriodSeconds * Cardinality(refs)
    <3>1. m \in Nat /\ m > 0
      BY <2>5, <2>6, <2>7, SMT
    <3>2. ASSUME NEW q \in refs PROVE share(h)[q] \in Nat
      <4>1. P[q].rewards[h] \in Nat
        BY <2>3, <2>4 DEF ArchiveRow
      <4>2. P[q].rewards[h] * d \in Nat
        BY <4>1, <2>1, SMT
      <4>3. share(h)[q] = (P[q].rewards[h] * d) \div m
        OBVIOUS
      <4> HIDE DEF m
      <4> QED BY <3>1, <4>2, <4>3, DivLE
    <3>3. DOMAIN share(h) = refs
      OBVIOUS
    <3> HIDE DEF share
    <3> QED BY <2>5, <3>2, <3>3, SumFunType
  <2>8. ASSUME NEW h \in Hotkeys PROVE G(h) \in Nat
    <3>1. refs # {} => SumFunction(share(h)) \in Nat
      BY <2>7
    <3> HIDE DEF share
    <3> QED BY <3>1
  <2>9. \A h \in Hotkeys : t < bans[h] => G(h) = 0
    <3> HIDE DEF share
    <3> QED OBVIOUS
  <2> HIDE DEF G
  <2>10. Fill(L, p, t) \in [Hotkeys -> Nat]
    BY <2>2, <2>8
  <2>11. \A h \in Hotkeys : t < bans[h] => Fill(L, p, t)[h] = 0
    BY <2>2, <2>9
  <2> QED BY <1>1, <1>3, <2>10, <2>11
<1> QED BY <1>2, <1>3

\* What is owed is what was carried in and what is fresh, and the total is its sum and that of the fill.
LEMMA PartsType ==
    ASSUME setup \in Setups, NEW L, LedgerType(L), NEW p \in Work, NEW t
    PROVE  /\ Parts(L, p, t) \in [Table -> Nat]
           /\ Total(L, p, t) \in Nat
           /\ Total(L, p, t) = SumFunctionOnSet(Parts(L, p, t), Table) + SumFunctionOnSet(Fill(L, p, t), Hotkeys)
           /\ \A x \in Table : Parts(L, p, t)[x]
                = CarriedIn(L.carry, bans, p, t)[x] + (IF x[2] = p THEN Fresh(L, p)[x[1]] ELSE 0)
<1> DEFINE C == CarriedIn(L.carry, bans, p, t)
           F == Fresh(L, p)
           P == Parts(L, p, t)
           O == Fill(L, p, t)
<1>1. C \in [Table -> Nat]
  BY CarriedInType
<1>2. F \in [Hotkeys -> Nat]
  BY FreshType
<1>3. O \in [Hotkeys -> Nat]
  <2>1. p \in Nat
    BY WorkType
  <2> QED BY <2>1, FillType
<1>4. P = [x \in Table |-> C[x] + (IF x[2] = p THEN F[x[1]] ELSE 0)]
  BY DEF Parts, Table
<1>5. Total(L, p, t) = SumFunction(P) + SumFunction(O)
  BY DEF Total
<1> HIDE DEF C, F, P, O
<1>6. \A x \in Table : P[x] = C[x] + (IF x[2] = p THEN F[x[1]] ELSE 0)
  BY <1>4
<1>7. \A x \in Table : C[x] \in Nat /\ x[1] \in Hotkeys /\ F[x[1]] \in Nat
  BY <1>1, <1>2 DEF Table
<1>8. \A x \in Table : P[x] \in Nat
  BY <1>6, <1>7, SMT
<1>9. P \in [Table -> Nat] /\ DOMAIN P = Table
  BY <1>4, <1>8
<1>10. IsFiniteSet(Table) /\ IsFiniteSet(Hotkeys)
  BY WorkType, SettingTypes
<1>11. SumFunction(P) \in Nat /\ SumFunction(P) = SumFunctionOnSet(P, Table)
  BY <1>8, <1>9, <1>10, SumFunType DEF SumFunction
<1>12. DOMAIN O = Hotkeys /\ \A h \in Hotkeys : O[h] \in Nat
  BY <1>3
<1>13. SumFunction(O) \in Nat /\ SumFunction(O) = SumFunctionOnSet(O, Hotkeys)
  BY <1>10, <1>12, SumFunType DEF SumFunction
<1>14. SumFunction(P) + SumFunction(O) \in Nat
  BY <1>11, <1>13, SMT
<1> QED BY <1>5, <1>6, <1>9, <1>11, <1>13, <1>14 DEF C, F, P, O

\* Each part owed is split into what is paid and what is not.
LEMMA PayoutType ==
    ASSUME setup \in Setups, NEW L, LedgerType(L), NEW p \in Work, NEW t
    PROVE  /\ Payout(L, p, t) \in [Table -> Nat]
           /\ Unpaid(L, p, t) \in [Table -> Nat]
           /\ \A x \in Table :
                /\ Payout(L, p, t)[x] = Scaled(Parts(L, p, t)[x], Total(L, p, t))
                /\ Payout(L, p, t)[x] + Unpaid(L, p, t)[x] = Parts(L, p, t)[x]
<1> DEFINE P == Parts(L, p, t)
           N == Total(L, p, t)
           Q == Payout(L, p, t)
           U == Unpaid(L, p, t)
<1>1. P \in [Table -> Nat] /\ N \in Nat
  BY PartsType
<1>2. Q = [x \in Table |-> Scaled(P[x], N)]
  BY DEF Payout, Table
<1>3. U = [x \in Table |-> P[x] - Q[x]]
  BY DEF Unpaid, Table
<1> HIDE DEF P, N, Q, U
<1>4. \A x \in Table : P[x] \in Nat
  BY <1>1
<1>5. \A x \in Table : Scaled(P[x], N) \in Nat /\ Scaled(P[x], N) <= P[x]
  BY <1>1, <1>4, ScaledLE
<1>6. \A x \in Table : Q[x] = Scaled(P[x], N) /\ U[x] = P[x] - Q[x]
  BY <1>2, <1>3
<1>7. \A x \in Table : Q[x] \in Nat /\ U[x] \in Nat /\ Q[x] + U[x] = P[x]
  BY <1>4, <1>5, <1>6, SMT
<1>8. Q \in [Table -> Nat] /\ U \in [Table -> Nat]
  BY <1>2, <1>3, <1>5, <1>7
<1> QED BY <1>6, <1>7, <1>8 DEF P, N, Q, U

\* The part of a reward paid for period o, of hotkey h.
PaidRow(L, p, t, h) == [o \in Work |-> Payout(L, p, t)[<<h, o>>]]

\* A hotkey's reward is its part of the fill and its row of the payout.
LEMMA RewardsType ==
    ASSUME setup \in Setups, NEW L, LedgerType(L), NEW p \in Work, NEW t
    PROVE  /\ Rewards(L, p, t) \in [Hotkeys -> Nat]
           /\ \A h \in Hotkeys :
                /\ IsRow(Payout(L, p, t), h, Work, PaidRow(L, p, t, h))
                /\ SumFunctionOnSet(PaidRow(L, p, t, h), Work) \in Nat
                /\ Scaled(Fill(L, p, t)[h], Total(L, p, t)) \in Nat
                /\ Rewards(L, p, t)[h] = Scaled(Fill(L, p, t)[h], Total(L, p, t))
                                           + SumFunctionOnSet(PaidRow(L, p, t, h), Work)
<1> DEFINE Q == Payout(L, p, t)
           O == Fill(L, p, t)
           N == Total(L, p, t)
<1>0. p \in Nat /\ IsFiniteSet(Work)
  BY WorkType
<1>1. Q \in [Table -> Nat] /\ O \in [Hotkeys -> Nat] /\ N \in Nat
  BY <1>0, PayoutType, FillType, PartsType
<1>2. Rewards(L, p, t) = [h \in Hotkeys |-> Scaled(O[h], N) + SumFunction(PaidRow(L, p, t, h))]
  BY DEF Rewards, PaidRow
<1>3. ASSUME NEW h \in Hotkeys
      PROVE  /\ IsRow(Q, h, Work, PaidRow(L, p, t, h))
             /\ SumFunction(PaidRow(L, p, t, h)) = SumFunctionOnSet(PaidRow(L, p, t, h), Work)
             /\ SumFunctionOnSet(PaidRow(L, p, t, h), Work) \in Nat
             /\ Scaled(O[h], N) \in Nat
  <2> DEFINE r == PaidRow(L, p, t, h)
  <2>1. DOMAIN r = Work /\ \A o \in Work : r[o] = Q[<<h, o>>]
    BY DEF PaidRow
  <2>2. \A o \in Work : <<h, o>> \in Table
    BY DEF Table
  <2> HIDE DEF Q, O, N, r
  <2>3. \A o \in Work : Q[<<h, o>>] \in Nat
    BY <1>1, <2>2
  <2>4. SumFunction(r) \in Nat
    BY <1>0, <2>1, <2>3, SumFunType
  <2>5. SumFunction(r) = SumFunctionOnSet(r, Work)
    BY <2>1 DEF SumFunction
  <2>6. IsRow(Q, h, Work, r)
    BY <2>1, <2>3 DEF IsRow
  <2>7. Scaled(O[h], N) \in Nat
    BY <1>1, ScaledLE
  <2> QED BY <2>4, <2>5, <2>6, <2>7 DEF r
<1> HIDE DEF Q, O, N
<1>4. \A h \in Hotkeys : Rewards(L, p, t)[h] = Scaled(O[h], N) + SumFunctionOnSet(PaidRow(L, p, t, h), Work)
  BY <1>2, <1>3
<1>5. \A h \in Hotkeys : Scaled(O[h], N) + SumFunction(PaidRow(L, p, t, h)) \in Nat
  BY <1>3, SMT
<1>6. Rewards(L, p, t) \in [Hotkeys -> Nat]
  BY <1>2, <1>5
<1> QED BY <1>3, <1>4, <1>6 DEF Q, O, N

\* A period pays at most the cap: rounding each part down loses some of the total.
LEMMA RewardsWithinCap ==
    ASSUME setup \in Setups, NEW L, LedgerType(L), NEW p \in Work, NEW t
    PROVE  SumFunction(Rewards(L, p, t)) <= cap
<1> DEFINE P == Parts(L, p, t)
           Q == Payout(L, p, t)
           O == Fill(L, p, t)
           N == Total(L, p, t)
           R == Rewards(L, p, t)
           A == [h \in Hotkeys |-> Scaled(O[h], N)]
           B == [h \in Hotkeys |-> SumFunctionOnSet(PaidRow(L, p, t, h), Work)]
           SP == SumFunctionOnSet(P, Table)
           SQ == SumFunctionOnSet(Q, Table)
           SO == SumFunctionOnSet(O, Hotkeys)
           SA == SumFunctionOnSet(A, Hotkeys)
           SB == SumFunctionOnSet(B, Hotkeys)
<1>0. p \in Nat /\ IsFiniteSet(Work) /\ IsFiniteSet(Table) /\ IsFiniteSet(Hotkeys) /\ cap \in Nat
  BY WorkType, SettingTypes
<1>1. P \in [Table -> Nat] /\ Q \in [Table -> Nat] /\ O \in [Hotkeys -> Nat] /\ N \in Nat
      /\ R \in [Hotkeys -> Nat]
  BY <1>0, PayoutType, FillType, PartsType, RewardsType
<1>2. N = SP + SO
  BY PartsType, SMT
<1>3. \A x \in Table : Q[x] = Scaled(P[x], N)
  BY PayoutType
<1>4. \A h \in Hotkeys : A[h] = Scaled(O[h], N) /\ A[h] \in Nat /\ B[h] \in Nat /\ R[h] = A[h] + B[h]
  BY RewardsType
<1>5. AreRowSums(Q, Hotkeys, Work, B)
  <2>1. ASSUME NEW h \in Hotkeys
        PROVE  IsRow(Q, h, Work, PaidRow(L, p, t, h)) /\ B[h] = SumFunctionOnSet(PaidRow(L, p, t, h), Work)
    BY RewardsType
  <2> HIDE DEF Q, B
  <2> QED BY <2>1 DEF AreRowSums
<1>6. SumFunction(R) = SumFunctionOnSet(R, Hotkeys)
  BY <1>1 DEF SumFunction
<1> HIDE DEF P, Q, O, N, R, A, B
<1>7. SumFunctionOnSet(R, Hotkeys) = SA + SB
  BY <1>0, <1>4, SumPlus
<1>8. SB = SQ
  <2>1. \A x \in Hotkeys \X Work : Q[x] \in Nat
    BY <1>1 DEF Table
  <2>2. SB = SumFunctionOnSet(Q, Hotkeys \X Work)
    BY <1>0, <1>5, <2>1, SumRows, SMT
  <2> QED BY <2>2 DEF Table
<1>9. /\ \A x \in Table : P[x] \in Nat /\ Q[x] \in Nat
      /\ \A h \in Hotkeys : O[h] \in Nat /\ A[h] \in Nat
  BY <1>1, <1>4
<1>10. SP \in Nat /\ SQ \in Nat /\ SO \in Nat /\ SA \in Nat
  BY <1>0, <1>9, SumStep
<1>11. CASE N <= cap
  <2>1. \A x \in Table : Q[x] = P[x]
    BY <1>1, <1>3, <1>9, <1>11, ScaledLE
  <2>2. \A h \in Hotkeys : A[h] = O[h]
    BY <1>1, <1>4, <1>9, <1>11, ScaledLE
  <2>3. SQ = SP /\ SA = SO
    BY <1>0, <2>1, <2>2, SumSame
  <2> HIDE DEF SP, SQ, SO, SA, SB
  <2> QED BY <1>0, <1>2, <1>6, <1>7, <1>8, <1>10, <1>11, <2>3, SMT DEF R
<1>12. CASE N > cap
  <2>1. \A x \in Table : N * Q[x] <= cap * P[x]
    BY <1>1, <1>3, <1>9, <1>12, ScaledLE
  <2>2. \A h \in Hotkeys : N * A[h] <= cap * O[h]
    BY <1>1, <1>4, <1>9, <1>12, ScaledLE
  <2>3. N * SQ <= cap * SP
    BY <1>0, <1>1, <1>9, <2>1, SumRatio
  <2>4. N * SA <= cap * SO
    BY <1>0, <1>1, <1>9, <2>2, SumRatio
  <2> HIDE DEF SP, SQ, SO, SA, SB
  <2>5. N * (SA + SQ) = N * SA + N * SQ /\ cap * (SP + SO) = cap * SP + cap * SO
    BY <1>0, <1>1, <1>10, SMT
  <2>6. N * (SA + SQ) <= cap * N
    BY <1>0, <1>1, <1>2, <1>10, <2>3, <2>4, <2>5, SMT
  <2>7. SA + SQ <= cap
    <3>1. SUFFICES ASSUME SA + SQ >= cap + 1 PROVE FALSE
      BY <1>0, <1>10, SMT
    <3>2. N * (SA + SQ) >= N * (cap + 1)
      BY <1>0, <1>1, <1>10, <3>1, SMT
    <3>3. N * (cap + 1) = cap * N + N
      BY <1>0, <1>1, SMT
    <3> QED BY <1>0, <1>1, <1>10, <1>12, <2>6, <3>2, <3>3, SMT
  <2> QED BY <1>6, <1>7, <1>8, <2>7 DEF R
<1> QED BY <1>0, <1>1, <1>11, <1>12, SMT DEF R

\* A hotkey under a ban and without accruals left in the period is paid nothing.
LEMMA BannedGetsNothing ==
    ASSUME setup \in Setups, NEW L, LedgerType(L), NEW p \in Work, NEW t,
           NEW h \in Hotkeys, t < bans[h], RowsOf(L, p, h) = {}
    PROVE  Rewards(L, p, t)[h] = 0
<1> DEFINE Q == Payout(L, p, t)
           N == Total(L, p, t)
           O == Fill(L, p, t)
           r == PaidRow(L, p, t, h)
<1>0. p \in Nat /\ IsFiniteSet(Work) /\ N \in Nat
  BY WorkType, PartsType
<1>1. O[h] = 0
  BY <1>0, FillType
<1>2. Fresh(L, p)[h] = 0
  <2>1. Fresh(L, p)[h] = SumFunctionOnSet([s \in RowsOf(L, p, h) |-> L.accruals[s].amount], {})
    BY FreshType
  <2> QED BY <2>1, SumEmpty
<1>3. ASSUME NEW o \in Work PROVE r[o] = 0
  <2> DEFINE x == <<h, o>>
  <2>1. x \in Table /\ x[1] = h
    BY DEF Table
  <2>2. Parts(L, p, t)[x] = CarriedIn(L.carry, bans, p, t)[x] + (IF x[2] = p THEN Fresh(L, p)[x[1]] ELSE 0)
    BY <2>1, PartsType, SMT
  <2>3. CarriedIn(L.carry, bans, p, t)[x] = 0
    BY <2>1, CarriedInType
  <2>4. Parts(L, p, t)[x] = 0
    BY <1>2, <2>1, <2>2, <2>3, SMT
  <2>5. Q[x] = Scaled(0, N)
    BY <2>1, <2>4, PayoutType, SMT
  <2>6. Scaled(0, N) = 0
    BY <1>0, ScaledLE, SMT
  <2> QED BY <2>5, <2>6 DEF PaidRow
<1>4. SumFunctionOnSet(r, Work) = 0
  <2> HIDE DEF r
  <2> QED BY <1>0, <1>3, SumZero
<1>5. Scaled(O[h], N) = 0
  BY <1>0, <1>1, ScaledLE, SMT
<1>6. Rewards(L, p, t)[h] = Scaled(O[h], N) + SumFunctionOnSet(r, Work)
  BY RewardsType
<1> QED BY <1>4, <1>5, <1>6, SMT

--------------------------------------------------------------------------------
(* The bound on the carry.                                                 *)

\* The parts of the origin periods before n, and of the origin period n.
Older(n) == {x \in Table : x[2] \in 0 .. (n - 1)}
Origin(n) == {x \in Table : x[2] \in {n}}

\* The rows of the carry up to origin n are those before n and those of n.
LEMMA OriginsSplit ==
    ASSUME setup \in Setups, NEW n \in Nat
    PROVE  /\ Older(n) \subseteq Table /\ Origin(n) \subseteq Table
           /\ IsFiniteSet(Older(n)) /\ IsFiniteSet(Origin(n)) /\ IsFiniteSet(Older(n + 1))
           /\ Older(n) \in SUBSET Older(n + 1) /\ Older(n + 1) \ Older(n) = Origin(n)
<1>1. Work \subseteq Nat /\ IsFiniteSet(Table)
  BY WorkType
<1>2. \A x \in Table : x[2] \in Nat
  BY <1>1 DEF Table
<1>3. Older(n) \in SUBSET Table /\ Origin(n) \in SUBSET Table /\ Older(n + 1) \in SUBSET Table
  BY DEF Older, Origin
<1>4. \A x \in Table : /\ x \in Older(n) <=> x[2] < n
                       /\ x \in Older(n + 1) <=> x[2] < n + 1
                       /\ x \in Origin(n) <=> x[2] = n
  BY <1>2, SMT DEF Older, Origin
<1>5. Older(n) \in SUBSET Older(n + 1) /\ Older(n + 1) \ Older(n) = Origin(n)
  BY <1>2, <1>3, <1>4, SMT
<1> QED BY <1>1, <1>3, <1>5, FS_Subset

\* What is held of an origin, and of the older ones, is a sum over the carry's rows.
LEMMA HeldType ==
    ASSUME setup \in Setups, NEW U \in [Table -> Nat], NEW n \in Nat
    PROVE  /\ Held(U, {n}) = SumFunctionOnSet(U, Origin(n)) /\ Held(U, {n}) \in Nat
           /\ Held(U, 0 .. (n - 1)) = SumFunctionOnSet(U, Older(n)) /\ Held(U, 0 .. (n - 1)) \in Nat
           /\ SumFunctionOnSet(U, Older(n + 1)) = Held(U, 0 .. (n - 1)) + Held(U, {n})
<1>1. /\ Older(n) \subseteq Table /\ Origin(n) \subseteq Table
      /\ IsFiniteSet(Older(n)) /\ IsFiniteSet(Origin(n)) /\ IsFiniteSet(Older(n + 1))
      /\ Older(n) \in SUBSET Older(n + 1) /\ Older(n + 1) \ Older(n) = Origin(n)
  BY OriginsSplit
<1>2. Held(U, {n}) = SumFunctionOnSet(U, Origin(n)) /\ Held(U, 0 .. (n - 1)) = SumFunctionOnSet(U, Older(n))
  BY DEF Held, Origin, Older
<1>3. \A x \in Table : U[x] \in Nat
  OBVIOUS
<1>4. \A x \in Older(n + 1) : U[x] \in Nat
  BY <1>3 DEF Older
<1>5. SumFunctionOnSet(U, Older(n)) \in Nat /\ SumFunctionOnSet(U, Origin(n)) \in Nat
  BY <1>1, <1>3, SumStep
<1>6. SumFunctionOnSet(U, Older(n + 1)) = SumFunctionOnSet(U, Older(n)) + SumFunctionOnSet(U, Origin(n))
  BY <1>1, <1>4, SumSplit, SMT
<1> QED BY <1>2, <1>5, <1>6

\* What the bound cuts from one origin period.
LEMMA CutValue ==
    ASSUME setup \in Setups, NEW U \in [Table -> Nat], NEW n \in Nat
    PROVE  LET excess == SumFunction(U) - carry_max_caps * cap
               left == excess - Held(U, 0 .. (n - 1))
               most == IF 0 <= left THEN left ELSE 0
           IN  /\ excess \in Int
               /\ Cut(U, n) = IF Held(U, {n}) <= most THEN Held(U, {n}) ELSE most
<1> DEFINE m == carry_max_caps * cap
           excess == SumFunction(U) - m
           h == Held(U, {n})
           g == Held(U, 0 .. (n - 1))
           left == excess - g
           most == IF 0 <= left THEN left ELSE 0
<1>1. h \in Nat /\ g \in Nat
  BY HeldType
<1>2. m \in Nat
  <2>1. carry_max_caps \in Nat /\ cap \in Nat
    BY SettingTypes
  <2> QED BY <2>1, SMT
<1>3. SumFunction(U) \in Nat
  <2>1. DOMAIN U = Table /\ \A x \in Table : U[x] \in Nat
    OBVIOUS
  <2>2. IsFiniteSet(Table)
    BY WorkType
  <2> QED BY <2>1, <2>2, SumFunType
<1>4. Cut(U, n) = Min({h, Max({0, left})})
  BY DEF Cut
<1> HIDE DEF m, h, g
<1>5. excess \in Int /\ left \in Int
  BY <1>1, <1>2, <1>3, SMT
<1> HIDE DEF excess, left
<1>6. Max({0, left}) = most
  BY <1>5, MaxOfTwo, SMT
<1>7. most \in Int
  BY <1>5, SMT
<1> HIDE DEF most
<1>8. Min({h, most}) = IF h <= most THEN h ELSE most
  BY <1>1, <1>7, MinOfTwo, SMT
<1> QED BY <1>4, <1>5, <1>6, <1>8 DEF excess, left, most, h, g, m

\* What is carried on is no more than what is unpaid, and of each origin no more than what the cut leaves.
LEMMA CarryRow ==
    ASSUME setup \in Setups, NEW U \in [Table -> Nat]
    PROVE  /\ _carry(U) \in [Table -> Nat]
           /\ \A x \in Table : _carry(U)[x] <= U[x]
           /\ \A n \in Nat : SumFunctionOnSet(_carry(U), Origin(n)) <= Held(U, {n}) - Cut(U, n)
<1> DEFINE V == _carry(U)
           h(n) == Held(U, {n})
           c(n) == Cut(U, n)
           share(x) == (U[x] * (h(x[2]) - c(x[2]))) \div h(x[2])
<1>1. V = [x \in Table |-> IF carry_periods = 0 \/ U[x] = 0 THEN 0 ELSE IF c(x[2]) = 0 THEN U[x] ELSE share(x)]
  BY DEF _carry
<1>2. ASSUME NEW n \in Nat PROVE h(n) \in Nat /\ c(n) \in Nat /\ c(n) <= h(n)
  <2>1. h(n) \in Nat /\ Held(U, 0 .. (n - 1)) \in Nat
    BY HeldType
  <2> DEFINE excess == SumFunction(U) - carry_max_caps * cap
             left == excess - Held(U, 0 .. (n - 1))
             most == IF 0 <= left THEN left ELSE 0
  <2>2. excess \in Int /\ c(n) = IF h(n) <= most THEN h(n) ELSE most
    BY CutValue
  <2> HIDE DEF excess, h, c
  <2> QED BY <2>1, <2>2, SMT
<1>3. \A x \in Table : x[2] \in Nat /\ U[x] \in Nat
  <2>1. Work \subseteq Nat
    BY WorkType
  <2> QED BY <2>1 DEF Table
<1> HIDE DEF h, c
<1>4. ASSUME NEW x \in Table, c(x[2]) # 0
      PROVE  /\ share(x) \in Nat /\ share(x) <= U[x]
             /\ h(x[2]) * share(x) <= (h(x[2]) - c(x[2])) * U[x]
  <2> DEFINE H == h(x[2])
             C == c(x[2])
             u == U[x]
             q == share(x)
  <2>1. H \in Nat /\ C \in Nat /\ C <= H /\ u \in Nat /\ C # 0
    BY <1>2, <1>3, <1>4
  <2>2. q = (u * (H - C)) \div H
    OBVIOUS
  <2> HIDE DEF H, C, u, q
  <2>3. H > 0 /\ H - C \in Nat /\ u * (H - C) \in Nat /\ u * (H - C) = (H - C) * u
    BY <2>1, SMT
  <2>4. q \in Nat /\ H * q <= u * (H - C)
    BY <2>1, <2>2, <2>3, DivLE
  <2>5. q <= u
    <3>1. SUFFICES ASSUME q >= u + 1 PROVE FALSE
      BY <2>1, <2>4, SMT
    <3>2. H * q >= H * (u + 1) /\ H * (u + 1) = H * u + H
      BY <2>1, <2>3, <2>4, <3>1, SMT
    <3>3. u * (H - C) = u * H - u * C /\ u * C \in Nat /\ u * H = H * u /\ u * H \in Nat
      BY <2>1, SMT
    <3> QED BY <2>1, <2>3, <2>4, <3>2, <3>3, SMT
  <2>6. H * q <= (H - C) * u
    BY <2>3, <2>4
  <2> QED BY <2>4, <2>5, <2>6 DEF H, C, u, q
<1> HIDE DEF share, V
<1>5. \A x \in Table : V[x] = IF carry_periods = 0 \/ U[x] = 0 THEN 0 ELSE IF c(x[2]) = 0 THEN U[x] ELSE share(x)
  BY <1>1
<1>6. ASSUME NEW x \in Table PROVE V[x] \in Nat /\ V[x] <= U[x]
  BY <1>3, <1>4, <1>5, SMT
<1>7. V \in [Table -> Nat]
  BY <1>1, <1>5, <1>6
<1>8. ASSUME NEW n \in Nat PROVE SumFunctionOnSet(V, Origin(n)) <= h(n) - c(n)
  <2> DEFINE T == Origin(n)
             sv == SumFunctionOnSet(V, T)
             su == SumFunctionOnSet(U, T)
  <2>1. T \subseteq Table /\ IsFiniteSet(T) /\ \A x \in T : x[2] = n
    <3>1. T \subseteq Table /\ IsFiniteSet(T)
      BY OriginsSplit
    <3> QED BY <3>1 DEF Origin
  <2>2. su = h(n)
    BY HeldType DEF h
  <2> HIDE DEF T
  <2>3. \A x \in T : U[x] \in Nat /\ V[x] \in Nat /\ V[x] <= U[x]
    BY <1>3, <1>6, <2>1
  <2>4. sv \in Nat /\ su \in Nat
    BY <2>1, <2>3, SumStep
  <2>5. c(n) \in Nat /\ h(n) \in Nat /\ c(n) <= h(n)
    BY <1>2
  <2>6. CASE c(n) = 0
    <3>1. sv <= su
      BY <2>1, <2>3, SumLE
    <3> HIDE DEF sv, su
    <3> QED BY <2>2, <2>4, <2>5, <2>6, <3>1, SMT DEF sv, T
  <2>7. CASE c(n) # 0 /\ carry_periods = 0
    <3>1. \A x \in T : V[x] = 0
      BY <1>5, <2>1, <2>7
    <3>2. sv = 0
      BY <2>1, <3>1, SumZero
    <3> HIDE DEF sv
    <3> QED BY <2>5, <3>2, SMT DEF sv, T
  <2>8. CASE c(n) # 0 /\ carry_periods # 0
    <3> DEFINE k == h(n) - c(n)
    <3>1. k \in Nat /\ h(n) > 0
      BY <2>5, <2>8, SMT
    <3>2. ASSUME NEW x \in T PROVE h(n) * V[x] <= k * U[x]
      <4>1. x \in Table /\ x[2] = n
        BY <2>1
      <4>2. V[x] = IF U[x] = 0 THEN 0 ELSE share(x)
        BY <1>5, <2>8, <4>1
      <4>3. h(x[2]) * share(x) <= (h(x[2]) - c(x[2])) * U[x]
        BY <1>4, <2>8, <4>1
      <4>4. CASE U[x] = 0
        BY <2>5, <3>1, <4>2, <4>4, SMT
      <4>5. CASE U[x] # 0
        BY <4>1, <4>2, <4>3, <4>5
      <4> QED BY <4>4, <4>5
    <3> HIDE DEF k
    <3>3. h(n) * sv <= k * su
      <4>1. \A x \in T : h(n) * V[x] <= k * U[x]
        BY <3>2
      <4>2. \A x \in T : V[x] \in Nat
        BY <2>3
      <4>3. \A x \in T : U[x] \in Nat
        BY <2>3
      <4> QED BY <2>1, <4>1, <4>2, <4>3, <2>5, <3>1, SumRatio
    <3>4. sv <= k
      <4> HIDE DEF sv, su
      <4>1. SUFFICES ASSUME sv >= k + 1 PROVE FALSE
        BY <2>4, <3>1, SMT
      <4>2. h(n) * sv >= h(n) * (k + 1) /\ h(n) * (k + 1) = k * h(n) + h(n)
        BY <2>4, <2>5, <3>1, <4>1, SMT
      <4> QED BY <2>2, <2>4, <2>5, <3>1, <3>3, <4>2, SMT
    <3> QED BY <3>4 DEF k, sv, T
  <2> QED BY <2>6, <2>7, <2>8
<1> QED BY <1>6, <1>7, <1>8 DEF V, h, c

\* The carry kept is within its bound: the older origin periods give up the excess first.
LEMMA CarryWithinBound ==
    ASSUME setup \in Setups, NEW U \in [Table -> Nat]
    PROVE  SumFunctionOnSet(_carry(U), Table) <= carry_max_caps * cap
<1> DEFINE V == _carry(U)
           m == carry_max_caps * cap
           excess == SumFunction(U) - m
           E == IF 0 <= excess THEN excess ELSE 0
           H(n) == SumFunctionOnSet(U, Older(n))
           K(n) == SumFunctionOnSet(V, Older(n))
           G == {n \in Nat : K(n) <= (IF H(n) >= E THEN H(n) - E ELSE 0)}
<1>1. V \in [Table -> Nat] /\ \A n \in Nat : SumFunctionOnSet(V, Origin(n)) <= Held(U, {n}) - Cut(U, n)
  BY CarryRow
<1>2. m \in Nat
  <2>1. carry_max_caps \in Nat /\ cap \in Nat
    BY SettingTypes
  <2> QED BY <2>1, SMT
<1>3. SumFunction(U) \in Nat /\ SumFunction(U) = SumFunctionOnSet(U, Table)
  <2>1. DOMAIN U = Table /\ \A x \in Table : U[x] \in Nat
    OBVIOUS
  <2>2. IsFiniteSet(Table)
    BY WorkType
  <2> QED BY <2>1, <2>2, SumFunType DEF SumFunction
<1>4. excess \in Int /\ E \in Nat
  BY <1>2, <1>3, SMT
<1>5. 0 \in G
  <2>1. Older(0) = {}
    BY SMT DEF Older
  <2>2. K(0) = 0 /\ H(0) = 0
    BY <2>1, SumEmpty
  <2> HIDE DEF K, H, E
  <2> QED BY <1>4, <2>2, SMT
<1>6. ASSUME NEW n \in Nat, n \in G PROVE n + 1 \in G
  <2> DEFINE h == Held(U, {n})
             g == Held(U, 0 .. (n - 1))
             c == Cut(U, n)
             v == SumFunctionOnSet(V, Origin(n))
             left == excess - g
             most == IF 0 <= left THEN left ELSE 0
  <2>1. h \in Nat /\ g \in Nat /\ g = H(n) /\ H(n + 1) = g + h
    BY HeldType
  <2>2. c = IF h <= most THEN h ELSE most
    BY CutValue
  <2>3. v <= h - c
    BY <1>1
  <2>4. v \in Nat /\ K(n) \in Nat /\ K(n + 1) = K(n) + v
    <3>1. /\ Older(n) \subseteq Table /\ Origin(n) \subseteq Table
          /\ IsFiniteSet(Older(n)) /\ IsFiniteSet(Origin(n)) /\ IsFiniteSet(Older(n + 1))
          /\ Older(n) \in SUBSET Older(n + 1) /\ Older(n + 1) \ Older(n) = Origin(n)
      BY OriginsSplit
    <3> HIDE DEF V
    <3>2. \A x \in Table : V[x] \in Nat
      BY <1>1
    <3>3. \A x \in Older(n + 1) : V[x] \in Nat
      BY <3>2 DEF Older
    <3>4. v \in Nat /\ K(n) \in Nat
      BY <3>1, <3>2, SumStep
    <3>5. K(n + 1) = K(n) + v
      BY <3>1, <3>3, SumSplit, SMT
    <3> QED BY <3>4, <3>5
  <2>5. K(n) <= (IF H(n) >= E THEN H(n) - E ELSE 0)
    BY <1>6
  <2> HIDE DEF h, g, c, v, H, K
  <2>6. K(n + 1) <= (IF H(n + 1) >= E THEN H(n + 1) - E ELSE 0)
    <3> HIDE DEF excess
    <3>1. left \in Int /\ H(n + 1) \in Nat
      BY <1>4, <2>1, SMT
    <3> QED BY <1>4, <2>1, <2>2, <2>3, <2>4, <2>5, <3>1, SMT
  <2> QED BY <2>6, SMT
<1>7. \A n \in Nat : n \in G
  <2> HIDE DEF G
  <2> QED BY <1>5, <1>6, NatInduct
<1> DEFINE n == period_of(MaxTime) + 1
<1>8. n \in Nat /\ Older(n) = Table
  <2>1. period_of(MaxTime) \in Nat /\ Work = 0 .. period_of(MaxTime)
    BY WorkType
  <2>2. \A x \in Table : x[2] \in Work
    BY DEF Table
  <2> QED BY <2>1, <2>2, SMT DEF Older
<1>9. K(n) <= (IF H(n) >= E THEN H(n) - E ELSE 0)
  BY <1>7, <1>8
<1>10. K(n) = SumFunctionOnSet(V, Table) /\ H(n) = SumFunction(U)
  BY <1>3, <1>8
<1>11. K(n) \in Nat
  <2>1. IsFiniteSet(Table) /\ \A x \in Table : V[x] \in Nat
    BY <1>1, WorkType
  <2> HIDE DEF V
  <2>2. SumFunctionOnSet(V, Table) \in Nat
    BY <2>1, SumStep
  <2> QED BY <2>2, <1>8
<1>12. K(n) <= m
  <2> HIDE DEF K, H, V, m, n
  <2> QED BY <1>2, <1>3, <1>9, <1>10, <1>11, SMT
<1> QED BY <1>10, <1>12

--------------------------------------------------------------------------------
(* Settling one period keeps what is said of the tables.                   *)

\* Of the ledger's tables: the pending carry comes from archived periods and none of it
\* is older than carry_periods.
CarryRecent(L) ==
    \A x \in Table : L.carry[x] > 0 =>
        /\ \E q \in DOMAIN L.periods : x[2] <= q
        /\ \A q \in DOMAIN L.periods : q - x[2] <= carry_periods

\* The carry is within its bound, and every archive within the cap.
CarryFits(L) == SumFunctionOnSet(L.carry, Table) <= carry_max_caps * cap
ArchivesCapped(L) == \A q \in DOMAIN L.periods : SumFunction(L.periods[q].rewards) <= cap

\* An archive is kept under its work period, and an entry period has room.
Numbered(L) == \A q \in DOMAIN L.periods : L.periods[q].work = q
EntriesFit(L) ==
    \A e \in Nat : Cardinality({q \in DOMAIN L.periods : L.periods[q].entry = e}) <= CATCHUP_ENTRIES

\* No pay is created.
Earned(L) == ~ outage_fill => \A h \in Hotkeys : Paid(L, h) + Carried(L, h) <= Settled(L, h)

TablesInv(L) ==
    LedgerType(L) /\ CarryRecent(L) /\ CarryFits(L) /\ ArchivesCapped(L) /\ Numbered(L) /\ EntriesFit(L) /\ Earned(L)

\* What settling period p does to the tables.
LEMMA SettleFields ==
    ASSUME NEW L, LedgerType(L), NEW p, NEW t
    PROVE  /\ SettlePeriod(L, p, t) = [accruals |-> SettlePeriod(L, p, t).accruals,
                                       carry |-> SettlePeriod(L, p, t).carry,
                                       periods |-> SettlePeriod(L, p, t).periods]
           /\ Idle(L, p, t) =>
                /\ SettlePeriod(L, p, t).accruals = L.accruals
                /\ SettlePeriod(L, p, t).periods = L.periods
                /\ SettlePeriod(L, p, t).carry = _take_carry(L.carry, p)
           /\ ~ Idle(L, p, t) =>
                /\ SettlePeriod(L, p, t).accruals = MarkSettled(L, p)
                /\ SettlePeriod(L, p, t).periods = AddArchive(L, p, t)
                /\ SettlePeriod(L, p, t).carry = CarryOn(L, p, t)
<1>1. L = [accruals |-> L.accruals, carry |-> L.carry, periods |-> L.periods]
  BY DEF LedgerType
<1>2. CASE Idle(L, p, t)
  <2>1. SettlePeriod(L, p, t) = [L EXCEPT !.carry = _take_carry(L.carry, p)]
    BY <1>2 DEF SettlePeriod
  <2> DEFINE K == _take_carry(L.carry, p)
  <2> HIDE DEF K
  <2>2. [L EXCEPT !.carry = K] = [accruals |-> L.accruals, carry |-> K, periods |-> L.periods]
    BY <1>1, SMT
  <2> QED BY <1>2, <2>1, <2>2 DEF K
<1>3. CASE ~ Idle(L, p, t)
  BY <1>3 DEF SettlePeriod
<1> QED BY <1>2, <1>3

\* Every row of the carry is taken by the period that is settled.
LEMMA NothingKept ==
    ASSUME setup \in Setups, NEW L, LedgerType(L), CarryRecent(L), NEW p \in Work,
           \A q \in DOMAIN L.periods : q < p
    PROVE  \A x \in Table : _take_carry(L.carry, p)[x] = 0
<1> TAKE x \in Table
<1>1. L.carry \in [Table -> Nat] /\ DOMAIN L.periods \subseteq Work
  BY DEF LedgerType
<1>2. Work \subseteq Nat
  BY WorkType
<1>3. x[2] \in Nat /\ p \in Nat /\ L.carry[x] \in Nat
  BY <1>1, <1>2 DEF Table
<1>4. L.carry[x] > 0 => x[2] < p
  <2>1. SUFFICES ASSUME L.carry[x] > 0 PROVE x[2] < p
    OBVIOUS
  <2>2. PICK q \in DOMAIN L.periods : x[2] <= q
    BY <2>1 DEF CarryRecent
  <2>3. q \in Nat /\ q < p
    BY <1>1, <1>2
  <2> QED BY <1>3, <2>2, <2>3, SMT
<1>5. _take_carry(L.carry, p)[x] = IF x[2] < p THEN 0 ELSE L.carry[x]
  BY <1>1 DEF _take_carry
<1> QED BY <1>3, <1>4, <1>5, SMT

\* Settling a period keeps the types of the tables, and the archive enters where there is room.
LEMMA SettleType ==
    ASSUME setup \in Setups, NEW L, LedgerType(L), NEW p \in Work, NEW t \in Nat
    PROVE  /\ LedgerType(SettlePeriod(L, p, t))
           /\ Archive(L, p, t) \in ArchiveRow
           /\ Cardinality({q \in DOMAIN L.periods : L.periods[q].entry = Archive(L, p, t).entry}) < CATCHUP_ENTRIES
<1> DEFINE M == SettlePeriod(L, p, t)
           K == _take_carry(L.carry, p)
           V == _carry(Unpaid(L, p, t))
           a == Archive(L, p, t)
<1>1. /\ IsFiniteSet(DOMAIN L.accruals) /\ L.accruals \in [DOMAIN L.accruals -> Row]
      /\ L.carry \in [Table -> Nat]
      /\ DOMAIN L.periods \subseteq Work /\ L.periods \in [DOMAIN L.periods -> ArchiveRow]
  BY DEF LedgerType
<1>2. K \in [Table -> Nat]
  BY <1>1 DEF _take_carry
<1>3. V \in [Table -> Nat]
  <2>1. Unpaid(L, p, t) \in [Table -> Nat]
    BY PayoutType
  <2> QED BY <2>1, CarryRow
<1>4. a \in ArchiveRow /\ Cardinality({q \in DOMAIN L.periods : L.periods[q].entry = a.entry}) < CATCHUP_ENTRIES
  <2>1. p \in Nat /\ Down(p, t) \in Nat
    BY WorkType, DownType
  <2>2. Rewards(L, p, t) \in [Hotkeys -> Nat]
    BY RewardsType
  <2>3. IsFiniteSet(DOMAIN L.periods)
    <3>1. DOMAIN L.periods \in SUBSET Work /\ IsFiniteSet(Work)
      BY <1>1, WorkType
    <3> QED BY <3>1, FS_Subset
  <2>4. period_of(t) + 1 \in Nat
    <3>1. period_of(t) \in Nat
      BY PeriodOfNat
    <3> QED BY <3>1, SMT
  <2> DEFINE e == entry_for(period_of(t) + 1, L.periods)
  <2>5. e \in Nat /\ Cardinality({q \in DOMAIN L.periods : L.periods[q].entry = e}) < CATCHUP_ENTRIES
    BY <2>3, <2>4, EntryHasRoom
  <2>6. a = [work |-> p, entry |-> e, outage_s |-> Down(p, t), rewards |-> Rewards(L, p, t),
             published |-> "unattempted"]
    BY DEF Archive
  <2> HIDE DEF a, e
  <2>7. a.entry = e /\ a \in ArchiveRow
    BY <2>1, <2>2, <2>5, <2>6 DEF ArchiveRow
  <2> QED BY <2>5, <2>7
<1>5. M = [accruals |-> M.accruals, carry |-> M.carry, periods |-> M.periods]
  BY SettleFields
<1>6. CASE Idle(L, p, t)
  <2>1. M.accruals = L.accruals /\ M.periods = L.periods /\ M.carry = K
    BY <1>6, SettleFields, SMT
  <2> HIDE DEF M, K
  <2>2. LedgerType(M)
    BY <1>1, <1>2, <1>5, <2>1 DEF LedgerType
  <2> QED BY <1>4, <2>2 DEF M
<1>7. CASE ~ Idle(L, p, t)
  <2>1. M.accruals = MarkSettled(L, p) /\ M.periods = AddArchive(L, p, t) /\ M.carry = CarryOn(L, p, t)
    BY <1>7, SettleFields, SMT
  <2>2. ASSUME NEW s \in DOMAIN L.accruals PROVE [L.accruals[s] EXCEPT !.status = "settled"] \in Row
    <3>1. L.accruals[s] \in Row
      BY <1>1
    <3> QED BY <3>1 DEF Row
  <2>3. DOMAIN MarkSettled(L, p) = DOMAIN L.accruals /\ MarkSettled(L, p) \in [DOMAIN L.accruals -> Row]
    BY <1>1, <2>2 DEF MarkSettled
  <2>4. CarryOn(L, p, t) \in [Table -> Nat]
    <3>1. CarryOn(L, p, t) = [x \in Table |-> K[x] + V[x]]
      BY DEF CarryOn, Table
    <3> HIDE DEF K, V
    <3>2. \A x \in Table : K[x] + V[x] \in Nat
      BY <1>2, <1>3, SMT
    <3> QED BY <3>1, <3>2
  <2>5. DOMAIN AddArchive(L, p, t) = DOMAIN L.periods \union {p}
        /\ AddArchive(L, p, t) \in [DOMAIN L.periods \union {p} -> ArchiveRow]
    BY <1>1, <1>4 DEF AddArchive
  <2> HIDE DEF M
  <2>6. LedgerType(M)
    BY <1>1, <1>5, <2>1, <2>3, <2>4, <2>5 DEF LedgerType
  <2> QED BY <1>4, <2>6 DEF M
<1> QED BY <1>6, <1>7

\* The carry a settled period leaves: the unpaid parts the bound keeps.
LEMMA CarryLeft ==
    ASSUME setup \in Setups, NEW L, LedgerType(L), CarryRecent(L), NEW p \in Work, NEW t \in Nat,
           \A q \in DOMAIN L.periods : q < p
    PROVE  /\ Idle(L, p, t) => \A x \in Table : SettlePeriod(L, p, t).carry[x] = 0
           /\ ~ Idle(L, p, t) =>
                \A x \in Table : SettlePeriod(L, p, t).carry[x] = _carry(Unpaid(L, p, t))[x]
<1> DEFINE V == _carry(Unpaid(L, p, t))
           K == _take_carry(L.carry, p)
<1>1. \A x \in Table : K[x] = 0
  BY NothingKept
<1>2. V \in [Table -> Nat]
  <2>1. Unpaid(L, p, t) \in [Table -> Nat]
    BY PayoutType
  <2> QED BY <2>1, CarryRow
<1>3. CASE Idle(L, p, t)
  BY <1>1, <1>3, SettleFields, SMT
<1>4. CASE ~ Idle(L, p, t)
  <2>0. SettlePeriod(L, p, t).carry = CarryOn(L, p, t)
    BY <1>4, SettleFields, SMT
  <2>1. CarryOn(L, p, t) = [x \in Table |-> K[x] + V[x]]
    BY DEF CarryOn, Table
  <2> HIDE DEF K, V
  <2>2. ASSUME NEW x \in Table PROVE SettlePeriod(L, p, t).carry[x] = V[x]
    <3>1. K[x] = 0 /\ V[x] \in Nat
      BY <1>1, <1>2
    <3>2. SettlePeriod(L, p, t).carry[x] = K[x] + V[x]
      BY <2>0, <2>1
    <3> QED BY <3>1, <3>2, SMT
  <2> QED BY <1>4, <2>2 DEF V
<1> QED BY <1>3, <1>4

\* Settling a period leaves a carry within its bound, none of it expired.
LEMMA SettleCarry ==
    ASSUME setup \in Setups, NEW L, LedgerType(L), CarryRecent(L), NEW p \in Work, NEW t \in Nat,
           \A q \in DOMAIN L.periods : q < p
    PROVE  CarryRecent(SettlePeriod(L, p, t)) /\ CarryFits(SettlePeriod(L, p, t))
<1> DEFINE M == SettlePeriod(L, p, t)
           U == Unpaid(L, p, t)
           V == _carry(U)
<1>0. /\ Work \subseteq Nat /\ IsFiniteSet(Table) /\ p \in Nat
      /\ carry_max_caps \in Nat /\ cap \in Nat /\ carry_periods \in Nat
  BY WorkType, SettingTypes
<1>1. M.carry \in [Table -> Nat] /\ DOMAIN L.periods \subseteq Work
  <2>1. LedgerType(M)
    BY SettleType
  <2> QED BY <2>1 DEF LedgerType
<1>2. CASE Idle(L, p, t)
  <2>1. \A x \in Table : M.carry[x] = 0
    BY <1>2, CarryLeft
  <2> HIDE DEF M
  <2>2. CarryRecent(M)
    BY <2>1, SMT DEF CarryRecent
  <2>3. SumFunctionOnSet(M.carry, Table) = 0
    BY <1>0, <2>1, SumZero
  <2>4. carry_max_caps * cap \in Nat
    BY <1>0, SMT
  <2>5. CarryFits(M)
    BY <2>3, <2>4, SMT DEF CarryFits
  <2> QED BY <2>2, <2>5 DEF M
<1>3. CASE ~ Idle(L, p, t)
  <2>1. \A x \in Table : M.carry[x] = V[x]
    BY <1>3, CarryLeft
  <2>2. U \in [Table -> Nat]
    BY PayoutType
  <2>3. SumFunctionOnSet(V, Table) <= carry_max_caps * cap
    BY <2>2, CarryWithinBound
  <2>4. DOMAIN M.periods = DOMAIN L.periods \union {p}
    <3>1. M.periods = AddArchive(L, p, t)
      BY <1>3, SettleFields, SMT
    <3>2. DOMAIN AddArchive(L, p, t) = DOMAIN L.periods \union {p}
      BY DEF AddArchive
    <3> QED BY <3>1, <3>2
  <2>5. ASSUME NEW x \in Table, V[x] > 0 PROVE x[2] <= p /\ p - x[2] <= carry_periods
    <3> DEFINE P == Parts(L, p, t)
               C == CarriedIn(L.carry, bans, p, t)
    <3>1. V[x] <= U[x] /\ V[x] \in Nat
      BY <2>2, CarryRow
    <3>2. U[x] <= P[x] /\ P[x] \in Nat
      <4>1. Payout(L, p, t)[x] + U[x] = P[x] /\ Payout(L, p, t)[x] \in Nat /\ U[x] \in Nat
        BY PayoutType, SMT
      <4> HIDE DEF U, P
      <4> QED BY <4>1, SMT
    <3>3. P[x] = C[x] + (IF x[2] = p THEN Fresh(L, p)[x[1]] ELSE 0)
      BY PartsType, SMT
    <3>4. C[x] \in Nat /\ (x[2] >= p => C[x] = 0) /\ (C[x] > 0 => p - x[2] <= carry_periods)
      <4>1. /\ C \in [Table -> Nat]
            /\ \A y \in Table : (y[2] >= p => C[y] = 0) /\ (C[y] > 0 => p - y[2] <= carry_periods)
        BY CarriedInType
      <4> HIDE DEF C
      <4> QED BY <4>1
    <3>5. x[2] \in Nat
      BY <1>0 DEF Table
    <3> HIDE DEF P, C, U, V
    <3>6. CASE x[2] = p
      BY <1>0, <3>6, SMT
    <3>7. CASE x[2] # p
      <4>1. C[x] > 0
        BY <2>5, <2>2, <3>1, <3>2, <3>3, <3>4, <3>7, SMT
      <4> QED BY <1>0, <3>4, <3>5, <3>7, <4>1, SMT
    <3> QED BY <3>6, <3>7
  <2>6. CarryRecent(M)
    <3>1. SUFFICES ASSUME NEW x \in Table, M.carry[x] > 0
                   PROVE  /\ \E q \in DOMAIN M.periods : x[2] <= q
                          /\ \A q \in DOMAIN M.periods : q - x[2] <= carry_periods
      BY DEF CarryRecent
    <3>2. V[x] > 0
      BY <2>1, <3>1
    <3>3. x[2] <= p /\ p - x[2] <= carry_periods
      BY <2>5, <3>2
    <3>4. x[2] \in Nat
      BY <1>0 DEF Table
    <3> HIDE DEF M
    <3>5. ASSUME NEW q \in DOMAIN M.periods PROVE q - x[2] <= carry_periods
      <4>0. q \in Nat /\ (q < p \/ q = p)
        BY <1>0, <1>1, <2>4
      <4>1. q \in Nat /\ q <= p
        BY <1>0, <4>0, SMT
      <4> QED BY <1>0, <3>3, <3>4, <4>1, SMT
    <3> QED BY <2>4, <3>3, <3>5
  <2>7. CarryFits(M)
    <3> HIDE DEF M, V
    <3>1. SumFunctionOnSet(M.carry, Table) = SumFunctionOnSet(V, Table)
      BY <1>0, <2>1, SumSame
    <3> QED BY <2>3, <3>1 DEF CarryFits
  <2> QED BY <2>6, <2>7
<1> QED BY <1>2, <1>3

\* What settling period p leaves alone, and the archive it adds.
LEMMA SettleChanges ==
    ASSUME setup \in Setups, NEW L, LedgerType(L), NEW p \in Work, NEW t \in Nat,
           \A q \in DOMAIN L.periods : q < p
    PROVE  LET M == SettlePeriod(L, p, t) IN
           /\ DOMAIN M.accruals = DOMAIN L.accruals
           /\ \A s \in DOMAIN L.accruals :
                /\ M.accruals[s].hotkey = L.accruals[s].hotkey /\ M.accruals[s].amount = L.accruals[s].amount
                /\ M.accruals[s].status = "accrued" =>
                     M.accruals[s] = L.accruals[s] /\ L.accruals[s].period # p
           /\ DOMAIN L.periods \subseteq DOMAIN M.periods
           /\ DOMAIN M.periods \subseteq DOMAIN L.periods \union {p}
           /\ \A q \in DOMAIN L.periods : M.periods[q] = L.periods[q]
           /\ p \notin DOMAIN L.periods
           /\ p \in DOMAIN M.periods => M.periods[p] = Archive(L, p, t)
<1> DEFINE M == SettlePeriod(L, p, t)
<1>0. p \notin DOMAIN L.periods
  <2>1. p \in Nat
    BY WorkType
  <2> QED BY <2>1, SMT
<1>1. CASE Idle(L, p, t)
  <2>1. M.accruals = L.accruals /\ M.periods = L.periods
    BY <1>1, SettleFields, SMT
  <2>2. ASSUME NEW s \in DOMAIN L.accruals, L.accruals[s].status = "accrued" PROVE L.accruals[s].period # p
    BY <1>1, <2>2 DEF Idle, Rows
  <2> HIDE DEF M
  <2> QED BY <1>0, <2>1, <2>2 DEF M
<1>2. CASE ~ Idle(L, p, t)
  <2>1. M.accruals = MarkSettled(L, p) /\ M.periods = AddArchive(L, p, t)
    BY <1>2, SettleFields, SMT
  <2>2. DOMAIN MarkSettled(L, p) = DOMAIN L.accruals
    BY DEF MarkSettled
  <2>3. ASSUME NEW s \in DOMAIN L.accruals
        PROVE  LET r == MarkSettled(L, p)[s] IN
               /\ r.hotkey = L.accruals[s].hotkey /\ r.amount = L.accruals[s].amount
               /\ r.status = "accrued" => r = L.accruals[s] /\ L.accruals[s].period # p
    <3> DEFINE r == MarkSettled(L, p)[s]
    <3>1. L.accruals[s] \in Row
      BY DEF LedgerType
    <3>2. r = IF s \in Rows(L, p) THEN [L.accruals[s] EXCEPT !.status = "settled"] ELSE L.accruals[s]
      BY DEF MarkSettled
    <3> HIDE DEF r
    <3>3. CASE s \in Rows(L, p)
      <4>1. r.hotkey = L.accruals[s].hotkey /\ r.amount = L.accruals[s].amount /\ r.status = "settled"
        BY <3>1, <3>2, <3>3 DEF Row
      <4> QED BY <4>1 DEF r
    <3>4. CASE s \notin Rows(L, p)
      <4>1. r = L.accruals[s]
        BY <3>2, <3>4
      <4>2. r.status = "accrued" => L.accruals[s].period # p
        BY <3>4, <4>1 DEF Rows
      <4> QED BY <4>1, <4>2 DEF r
    <3> QED BY <3>3, <3>4
  <2>4. DOMAIN AddArchive(L, p, t) = DOMAIN L.periods \union {p}
        /\ (\A q \in DOMAIN L.periods : AddArchive(L, p, t)[q] = L.periods[q])
        /\ AddArchive(L, p, t)[p] = Archive(L, p, t)
    BY <1>0 DEF AddArchive
  <2> HIDE DEF M
  <2> QED BY <1>0, <2>1, <2>2, <2>3, <2>4 DEF M
<1> QED BY <1>1, <1>2

\* The archives stay within the cap, under their number, and their entry periods bounded.
LEMMA SettleArchives ==
    ASSUME setup \in Setups, NEW L, LedgerType(L), ArchivesCapped(L), Numbered(L), EntriesFit(L),
           NEW p \in Work, NEW t \in Nat, \A q \in DOMAIN L.periods : q < p
    PROVE  /\ ArchivesCapped(SettlePeriod(L, p, t))
           /\ Numbered(SettlePeriod(L, p, t))
           /\ EntriesFit(SettlePeriod(L, p, t))
<1> DEFINE M == SettlePeriod(L, p, t)
           a == Archive(L, p, t)
<1>1. CASE Idle(L, p, t)
  <2>1. M.periods = L.periods
    BY <1>1, SettleFields, SMT
  <2> HIDE DEF M
  <2>2. ArchivesCapped(M) /\ Numbered(M) /\ EntriesFit(M)
    BY <2>1 DEF ArchivesCapped, Numbered, EntriesFit
  <2> QED BY <2>2 DEF M
<1>2. CASE ~ Idle(L, p, t)
  <2>1. M.periods = AddArchive(L, p, t)
    BY <1>2, SettleFields, SMT
  <2>2. p \notin DOMAIN L.periods
    BY SettleChanges
  <2>3. /\ DOMAIN AddArchive(L, p, t) = DOMAIN L.periods \union {p}
        /\ \A q \in DOMAIN L.periods : AddArchive(L, p, t)[q] = L.periods[q]
        /\ AddArchive(L, p, t)[p] = a
    BY <2>2 DEF AddArchive
  <2>4. a.work = p /\ SumFunction(a.rewards) <= cap
    <3>1. a.work = p /\ a.rewards = Rewards(L, p, t)
      BY DEF Archive
    <3>2. SumFunction(Rewards(L, p, t)) <= cap
      BY RewardsWithinCap
    <3> QED BY <3>1, <3>2
  <2>5. Cardinality({q \in DOMAIN L.periods : L.periods[q].entry = a.entry}) < CATCHUP_ENTRIES
    BY SettleType
  <2> HIDE DEF M, a
  <2>6. ArchivesCapped(M) /\ Numbered(M)
    BY <2>1, <2>3, <2>4 DEF ArchivesCapped, Numbered
  <2>7. EntriesFit(M)
    <3>1. SUFFICES ASSUME NEW e \in Nat
                   PROVE  Cardinality({q \in DOMAIN M.periods : M.periods[q].entry = e}) <= CATCHUP_ENTRIES
      BY DEF EntriesFit
    <3> DEFINE A == {q \in DOMAIN L.periods : L.periods[q].entry = e}
               B == {q \in DOMAIN M.periods : M.periods[q].entry = e}
    <3>2. Cardinality(A) <= CATCHUP_ENTRIES
      BY DEF EntriesFit
    <3>3. CASE a.entry # e
      <4>1. B = A
        BY <2>1, <2>3, <3>3
      <4> QED BY <3>2, <4>1
    <3>4. CASE a.entry = e
      <4>1. B = A \union {p} /\ p \notin A
        BY <2>1, <2>2, <2>3, <3>4
      <4>2. IsFiniteSet(A)
        <5>1. DOMAIN L.periods \subseteq Work
          BY DEF LedgerType
        <5>2. A \in SUBSET Work /\ IsFiniteSet(Work)
          BY <5>1, WorkType
        <5> QED BY <5>2, FS_Subset
      <4>3. Cardinality(A) < CATCHUP_ENTRIES
        BY <2>5, <3>4
      <4> HIDE DEF A, B
      <4>4. Cardinality(B) = Cardinality(A) + 1
        BY <4>1, <4>2, FS_AddElement
      <4>5. Cardinality(A) \in Nat /\ CATCHUP_ENTRIES \in Nat
        BY <4>2, FS_CardinalityType, SettingTypes
      <4>6. Cardinality(B) <= CATCHUP_ENTRIES
        BY <4>3, <4>4, <4>5, SMT
      <4> QED BY <4>6 DEF B
    <3> QED BY <3>3, <3>4
  <2> QED BY <2>6, <2>7 DEF M
<1> QED BY <1>1, <1>2

\* The sums of NoPayCreated are naturals.
PaidRows(L, h) == [q \in DOMAIN L.periods |-> L.periods[q].rewards[h]]
CarriedRow(L, h) == [o \in Work |-> L.carry[<<h, o>>]]
SettledAmounts(L, h) == [s \in SettledRows(L, h) |-> L.accruals[s].amount]

\* What a hotkey was paid, has carried and settled are sums of naturals.
LEMMA AccountsType ==
    ASSUME setup \in Setups, NEW L, LedgerType(L), NEW h \in Hotkeys
    PROVE  /\ IsFiniteSet(DOMAIN L.periods) /\ IsFiniteSet(SettledRows(L, h)) /\ IsFiniteSet(Work)
           /\ \A q \in DOMAIN L.periods : PaidRows(L, h)[q] \in Nat /\ PaidRows(L, h)[q] = L.periods[q].rewards[h]
           /\ \A o \in Work : CarriedRow(L, h)[o] \in Nat /\ CarriedRow(L, h)[o] = L.carry[<<h, o>>]
           /\ \A s \in SettledRows(L, h) :
                SettledAmounts(L, h)[s] \in Nat /\ SettledAmounts(L, h)[s] = L.accruals[s].amount
           /\ Paid(L, h) = SumFunctionOnSet(PaidRows(L, h), DOMAIN L.periods) /\ Paid(L, h) \in Nat
           /\ Carried(L, h) = SumFunctionOnSet(CarriedRow(L, h), Work) /\ Carried(L, h) \in Nat
           /\ Settled(L, h) = SumFunctionOnSet(SettledAmounts(L, h), SettledRows(L, h)) /\ Settled(L, h) \in Nat
<1>1. /\ IsFiniteSet(DOMAIN L.accruals) /\ L.accruals \in [DOMAIN L.accruals -> Row]
      /\ L.carry \in [Table -> Nat]
      /\ DOMAIN L.periods \subseteq Work /\ L.periods \in [DOMAIN L.periods -> ArchiveRow]
  BY DEF LedgerType
<1>2. IsFiniteSet(Work)
  BY WorkType
<1>3. IsFiniteSet(DOMAIN L.periods)
  <2>1. DOMAIN L.periods \in SUBSET Work
    BY <1>1
  <2> QED BY <1>2, <2>1, FS_Subset
<1>4. IsFiniteSet(SettledRows(L, h))
  <2>1. SettledRows(L, h) \in SUBSET DOMAIN L.accruals
    BY DEF SettledRows
  <2> QED BY <1>1, <2>1, FS_Subset
<1>5. \A q \in DOMAIN L.periods : PaidRows(L, h)[q] \in Nat /\ PaidRows(L, h)[q] = L.periods[q].rewards[h]
  <2> TAKE q \in DOMAIN L.periods
  <2>1. L.periods[q] \in ArchiveRow
    BY <1>1
  <2>2. L.periods[q].rewards \in [Hotkeys -> Nat]
    BY <2>1 DEF ArchiveRow
  <2>3. L.periods[q].rewards[h] \in Nat
    BY <2>2
  <2> QED BY <2>3 DEF PaidRows
<1>6. \A o \in Work : CarriedRow(L, h)[o] \in Nat /\ CarriedRow(L, h)[o] = L.carry[<<h, o>>]
  <2> TAKE o \in Work
  <2>1. <<h, o>> \in Table
    BY DEF Table
  <2> QED BY <1>1, <2>1 DEF CarriedRow
<1>7. \A s \in SettledRows(L, h) :
         SettledAmounts(L, h)[s] \in Nat /\ SettledAmounts(L, h)[s] = L.accruals[s].amount
  <2> TAKE s \in SettledRows(L, h)
  <2>1. L.accruals[s] \in Row
    BY <1>1 DEF SettledRows
  <2>2. L.accruals[s].amount \in Nat
    BY <2>1 DEF Row
  <2> QED BY <2>2 DEF SettledAmounts
<1>8. /\ Paid(L, h) = SumFunctionOnSet(PaidRows(L, h), DOMAIN L.periods)
      /\ Carried(L, h) = SumFunctionOnSet(CarriedRow(L, h), Work)
      /\ Settled(L, h) = SumFunctionOnSet(SettledAmounts(L, h), SettledRows(L, h))
  BY DEF Paid, Carried, Settled, PaidRows, CarriedRow, SettledAmounts, SumFunction
<1>9. Paid(L, h) \in Nat
  BY <1>3, <1>5, <1>8, SumStep
<1>10. Carried(L, h) \in Nat
  BY <1>2, <1>6, <1>8, SumStep
<1>11. Settled(L, h) \in Nat
  BY <1>4, <1>7, <1>8, SumStep
<1> QED BY <1>2, <1>3, <1>4, <1>5, <1>6, <1>7, <1>8, <1>9, <1>10, <1>11

\* An archive adds its reward to what a hotkey was paid.
LEMMA PaidGrows ==
    ASSUME setup \in Setups, NEW L, LedgerType(L), NEW p \in Work, NEW t \in Nat,
           \A q \in DOMAIN L.periods : q < p, ~ Idle(L, p, t), NEW h \in Hotkeys
    PROVE  Paid(SettlePeriod(L, p, t), h) = Paid(L, h) + Rewards(L, p, t)[h]
<1> DEFINE M == SettlePeriod(L, p, t)
           f == PaidRows(L, h)
           g == PaidRows(M, h)
           S == DOMAIN L.periods
           T == DOMAIN M.periods
<1>1. LedgerType(M)
  BY SettleType
<1>2. p \notin S
  BY SettleChanges
<1>3. M.periods = AddArchive(L, p, t)
  BY SettleFields, SMT
<1>4. /\ DOMAIN AddArchive(L, p, t) = S \union {p}
      /\ \A q \in S : AddArchive(L, p, t)[q] = L.periods[q]
      /\ AddArchive(L, p, t)[p].rewards = Rewards(L, p, t)
  BY <1>2 DEF AddArchive, Archive
<1>5. /\ Paid(L, h) = SumFunctionOnSet(f, S) /\ Paid(L, h) \in Nat /\ IsFiniteSet(S)
      /\ \A q \in S : f[q] = L.periods[q].rewards[h]
  BY AccountsType
<1>6. /\ Paid(M, h) = SumFunctionOnSet(g, T) /\ IsFiniteSet(T)
      /\ \A q \in T : g[q] \in Nat
      /\ \A q \in T : g[q] = M.periods[q].rewards[h]
  BY <1>1, AccountsType
<1> HIDE DEF M, f, g
<1>7. T = S \union {p} /\ T \ {p} = S /\ p \in T
  BY <1>2, <1>3, <1>4
<1>8. \A q \in S : g[q] = f[q]
  BY <1>3, <1>4, <1>5, <1>6, <1>7, SMT
<1>9. g[p] = Rewards(L, p, t)[h] /\ g[p] \in Nat
  BY <1>3, <1>4, <1>6, <1>7
<1> HIDE DEF S, T
<1>10. SumFunctionOnSet(g, T) = g[p] + SumFunctionOnSet(g, T \ {p})
  BY <1>6, <1>7, SumStep
<1>11. SumFunctionOnSet(g, S) = SumFunctionOnSet(f, S)
  BY <1>5, <1>8, SumSame
<1>12. Paid(M, h) = g[p] + Paid(L, h)
  BY <1>5, <1>6, <1>7, <1>10, <1>11
<1>13. Paid(M, h) = Paid(L, h) + Rewards(L, p, t)[h]
  BY <1>5, <1>9, <1>12, SMT
<1> QED BY <1>13 DEF M

\* Its accruals join the settled ones.
LEMMA SettledGrows ==
    ASSUME setup \in Setups, NEW L, LedgerType(L), NEW p \in Work, NEW t \in Nat,
           ~ Idle(L, p, t), NEW h \in Hotkeys
    PROVE  Settled(SettlePeriod(L, p, t), h) = Settled(L, h) + Fresh(L, p)[h]
<1> DEFINE M == SettlePeriod(L, p, t)
           f == SettledAmounts(L, h)
           g == SettledAmounts(M, h)
           r == [s \in RowsOf(L, p, h) |-> L.accruals[s].amount]
           R == RowsOf(L, p, h)
           S == SettledRows(L, h)
           T == SettledRows(M, h)
<1>1. LedgerType(M)
  BY SettleType
<1>2. M.accruals = MarkSettled(L, p)
  BY SettleFields, SMT
<1>3. DOMAIN M.accruals = DOMAIN L.accruals
  BY <1>2 DEF MarkSettled
<1>4. ASSUME NEW s \in DOMAIN L.accruals
      PROVE  /\ M.accruals[s].hotkey = L.accruals[s].hotkey /\ M.accruals[s].amount = L.accruals[s].amount
             /\ M.accruals[s].status = IF s \in Rows(L, p) THEN "settled" ELSE L.accruals[s].status
  <2>1. L.accruals[s] \in Row
    BY DEF LedgerType
  <2>2. M.accruals[s] = IF s \in Rows(L, p) THEN [L.accruals[s] EXCEPT !.status = "settled"] ELSE L.accruals[s]
    BY <1>2 DEF MarkSettled
  <2> HIDE DEF M
  <2> QED BY <2>1, <2>2 DEF Row
<1>5. T = S \union R /\ S \cap R = {}
  <2>1. \A s : s \in T <=> s \in DOMAIN L.accruals /\ M.accruals[s].status = "settled" /\ L.accruals[s].hotkey = h
    <3> HIDE DEF M
    <3> QED BY <1>3, <1>4 DEF SettledRows
  <2>2. \A s : s \in S <=> s \in DOMAIN L.accruals /\ L.accruals[s].status = "settled" /\ L.accruals[s].hotkey = h
    BY DEF SettledRows
  <2>3. \A s : s \in R <=> s \in Rows(L, p) /\ L.accruals[s].hotkey = h
    BY DEF RowsOf
  <2>4. \A s \in Rows(L, p) : s \in DOMAIN L.accruals /\ L.accruals[s].status = "accrued"
    BY DEF Rows
  <2> HIDE DEF M, T, S, R
  <2> QED BY <1>4, <2>1, <2>2, <2>3, <2>4
<1>6. /\ Settled(L, h) = SumFunctionOnSet(f, S) /\ Settled(L, h) \in Nat /\ IsFiniteSet(S)
      /\ \A s \in S : f[s] = L.accruals[s].amount
  BY AccountsType
<1>7. /\ Settled(M, h) = SumFunctionOnSet(g, T) /\ IsFiniteSet(T)
      /\ \A s \in T : g[s] \in Nat
      /\ \A s \in T : g[s] = M.accruals[s].amount
  BY <1>1, AccountsType
<1>8. /\ Fresh(L, p)[h] = SumFunctionOnSet(r, R) /\ IsFiniteSet(R) /\ R \subseteq DOMAIN L.accruals
      /\ \A s \in R : r[s] = L.accruals[s].amount
  BY FreshType, RowsFinite
<1>9. S \subseteq DOMAIN L.accruals
  BY DEF SettledRows
<1> HIDE DEF M, f, g, r, R, S, T
<1>10. \A s \in S : g[s] = f[s]
  BY <1>4, <1>5, <1>6, <1>7, <1>9
<1>11. \A s \in R : g[s] = r[s]
  BY <1>4, <1>5, <1>7, <1>8
<1>12. R \in SUBSET T /\ T \ R = S
  BY <1>5
<1>13. SumFunctionOnSet(g, T) = SumFunctionOnSet(g, R) + SumFunctionOnSet(g, T \ R)
  BY <1>7, <1>12, SumSplit
<1>14. SumFunctionOnSet(g, S) = SumFunctionOnSet(f, S)
  BY <1>6, <1>10, SumSame
<1>15. SumFunctionOnSet(g, R) = SumFunctionOnSet(r, R)
  BY <1>8, <1>11, SumSame
<1>16. Fresh(L, p)[h] \in Nat
  BY FreshType
<1>17. Settled(M, h) = Fresh(L, p)[h] + Settled(L, h)
  BY <1>6, <1>7, <1>8, <1>12, <1>13, <1>14, <1>15
<1>18. Settled(M, h) = Settled(L, h) + Fresh(L, p)[h]
  BY <1>6, <1>16, <1>17, SMT
<1> QED BY <1>18 DEF M

\* What it pays a hotkey and carries on for it is at most what was carried in and fresh.
LEMMA PayFromParts ==
    ASSUME setup \in Setups, NEW L, LedgerType(L), CarryRecent(L), NEW p \in Work, NEW t \in Nat,
           \A q \in DOMAIN L.periods : q < p, ~ Idle(L, p, t), ~ outage_fill, NEW h \in Hotkeys
    PROVE  Rewards(L, p, t)[h] + Carried(SettlePeriod(L, p, t), h) <= Carried(L, h) + Fresh(L, p)[h]
<1> DEFINE M == SettlePeriod(L, p, t)
           paid == PaidRow(L, p, t, h)
           out == CarriedRow(M, h)
           in == CarriedRow(L, h)
           fresh == [o \in Work |-> IF o = p THEN Fresh(L, p)[h] ELSE 0]
           both == [o \in Work |-> paid[o] + out[o]]
           due == [o \in Work |-> in[o] + fresh[o]]
<1>1. /\ IsFiniteSet(Work) /\ Carried(L, h) = SumFunctionOnSet(in, Work)
      /\ \A o \in Work : in[o] \in Nat
      /\ \A o \in Work : in[o] = L.carry[<<h, o>>]
  <2> HIDE DEF M, paid, out, fresh, both, due
  <2>1. /\ IsFiniteSet(Work) /\ Carried(L, h) = SumFunctionOnSet(CarriedRow(L, h), Work)
        /\ \A o \in Work : CarriedRow(L, h)[o] \in Nat /\ CarriedRow(L, h)[o] = L.carry[<<h, o>>]
    BY AccountsType, SMT
  <2> QED BY <2>1
<1>2. LedgerType(M)
  BY SettleType
<1>3. /\ Carried(M, h) = SumFunctionOnSet(out, Work)
      /\ \A o \in Work : out[o] \in Nat
      /\ \A o \in Work : out[o] = M.carry[<<h, o>>]
  <2> HIDE DEF M, paid, in, fresh, both, due
  <2>1. /\ Carried(M, h) = SumFunctionOnSet(CarriedRow(M, h), Work)
        /\ \A o \in Work : CarriedRow(M, h)[o] \in Nat /\ CarriedRow(M, h)[o] = M.carry[<<h, o>>]
    BY <1>2, AccountsType, SMT
  <2> QED BY <2>1
<1>4. Rewards(L, p, t)[h] = SumFunctionOnSet(paid, Work)
  <2> DEFINE s == SumFunctionOnSet(paid, Work)
             k == Scaled(Fill(L, p, t)[h], Total(L, p, t))
  <2>1. Rewards(L, p, t)[h] = k + s /\ k \in Nat /\ s \in Nat
    BY RewardsType
  <2>2. Fill(L, p, t)[h] = 0 /\ p \in Nat
    BY WorkType, FillType
  <2>3. Total(L, p, t) \in Nat /\ 0 \in Nat
    BY PartsType
  <2>4. k <= 0
    BY <2>2, <2>3, ScaledLE
  <2> HIDE DEF k, s
  <2>5. Rewards(L, p, t)[h] = s
    BY <2>1, <2>4, SMT
  <2> QED BY <2>5 DEF s
<1>5. ASSUME NEW o \in Work PROVE paid[o] = Payout(L, p, t)[<<h, o>>] /\ paid[o] \in Nat
  <2>1. Payout(L, p, t) \in [Table -> Nat] /\ <<h, o>> \in Table
    BY PayoutType DEF Table
  <2> QED BY <2>1 DEF PaidRow
<1>6. Fresh(L, p)[h] \in Nat
  BY FreshType
<1>7. ASSUME NEW o \in Work PROVE paid[o] + out[o] <= in[o] + fresh[o]
  <2> DEFINE x == <<h, o>>
             U == Unpaid(L, p, t)
  <2>1. x \in Table /\ x[1] = h /\ x[2] = o
    BY DEF Table
  <2>2. M.carry[x] = _carry(U)[x]
    BY <2>1, CarryLeft
  <2>3. U \in [Table -> Nat]
    BY PayoutType
  <2>4. _carry(U)[x] <= U[x]
    BY <2>1, <2>3, CarryRow
  <2>5. Payout(L, p, t)[x] + U[x] = Parts(L, p, t)[x]
    BY <2>1, PayoutType, SMT
  <2>6. Parts(L, p, t)[x] = CarriedIn(L.carry, bans, p, t)[x] + (IF x[2] = p THEN Fresh(L, p)[x[1]] ELSE 0)
    BY <2>1, PartsType, SMT
  <2>7. CarriedIn(L.carry, bans, p, t)[x] <= L.carry[x] /\ CarriedIn(L.carry, bans, p, t)[x] \in Nat
    <3> HIDE DEF x
    <3>1. /\ CarriedIn(L.carry, bans, p, t) \in [Table -> Nat]
          /\ \A y \in Table : CarriedIn(L.carry, bans, p, t)[y] <= L.carry[y]
      BY CarriedInType
    <3> QED BY <2>1, <3>1
  <2>8. paid[o] = Payout(L, p, t)[x] /\ paid[o] \in Nat /\ out[o] = M.carry[x] /\ out[o] \in Nat
        /\ in[o] = L.carry[x] /\ in[o] \in Nat /\ U[x] \in Nat
    BY <1>1, <1>3, <1>5, <2>1, <2>3
  <2>9. fresh[o] = IF x[2] = p THEN Fresh(L, p)[x[1]] ELSE 0
    BY <2>1
  <2>10. fresh[o] \in Nat
    BY <1>6
  <2> HIDE DEF M, paid, out, in, fresh, U, x
  <2> QED BY <2>2, <2>4, <2>5, <2>6, <2>7, <2>8, <2>9, <2>10, SMT
<1>8. \A o \in Work : fresh[o] \in Nat
  BY <1>6
<1>9. SumFunctionOnSet(fresh, Work) = Fresh(L, p)[h]
  <2>1. SumFunctionOnSet(fresh, Work) = fresh[p] + SumFunctionOnSet(fresh, Work \ {p})
    <3> HIDE DEF fresh
    <3> QED BY <1>1, <1>8, SumStep
  <2>2. fresh[p] = Fresh(L, p)[h] /\ \A o \in Work \ {p} : fresh[o] = 0
    OBVIOUS
  <2>3. IsFiniteSet(Work \ {p})
    BY <1>1, FS_RemoveElement
  <2> HIDE DEF fresh
  <2>4. SumFunctionOnSet(fresh, Work \ {p}) = 0
    BY <2>2, <2>3, SumZero
  <2> QED BY <1>6, <2>1, <2>2, <2>4, SMT
<1>10. \A o \in Work : paid[o] \in Nat
  BY <1>5
<1>11. \A o \in Work : both[o] = paid[o] + out[o]
  OBVIOUS
<1>12. \A o \in Work : due[o] = in[o] + fresh[o]
  OBVIOUS
<1> HIDE DEF M, paid, out, in, fresh, both, due
<1>13. SumFunctionOnSet(both, Work) = SumFunctionOnSet(paid, Work) + SumFunctionOnSet(out, Work)
  BY <1>1, <1>3, <1>10, <1>11, SumPlus
<1>14. SumFunctionOnSet(due, Work) = SumFunctionOnSet(in, Work) + SumFunctionOnSet(fresh, Work)
  BY <1>1, <1>8, <1>12, SumPlus
<1>15. \A o \in Work : both[o] \in Nat
  BY <1>3, <1>10, <1>11, SMT
<1>16. \A o \in Work : due[o] \in Nat
  BY <1>1, <1>8, <1>12, SMT
<1>17. \A o \in Work : both[o] <= due[o]
  BY <1>7, <1>11, <1>12
<1>18. SumFunctionOnSet(both, Work) <= SumFunctionOnSet(due, Work)
  BY <1>1, <1>15, <1>16, <1>17, SumLE
<1>19. Rewards(L, p, t)[h] + Carried(M, h) <= Carried(L, h) + Fresh(L, p)[h]
  BY <1>1, <1>3, <1>4, <1>9, <1>13, <1>14, <1>18
<1> QED BY <1>19 DEF M

\* Settling a period creates no pay.
LEMMA SettleEarned ==
    ASSUME setup \in Setups, NEW L, LedgerType(L), CarryRecent(L), Earned(L), NEW p \in Work, NEW t \in Nat,
           \A q \in DOMAIN L.periods : q < p
    PROVE  Earned(SettlePeriod(L, p, t))
<1> DEFINE M == SettlePeriod(L, p, t)
<1>1. SUFFICES ASSUME ~ outage_fill, NEW h \in Hotkeys
               PROVE  Paid(M, h) + Carried(M, h) <= Settled(M, h)
  BY DEF Earned
<1>2. LedgerType(M)
  BY SettleType
<1>3. Paid(L, h) \in Nat /\ Carried(L, h) \in Nat /\ Settled(L, h) \in Nat
  BY AccountsType
<1>4. Paid(M, h) \in Nat /\ Carried(M, h) \in Nat /\ Settled(M, h) \in Nat
  BY <1>2, AccountsType
<1>5. Paid(L, h) + Carried(L, h) <= Settled(L, h)
  BY <1>1 DEF Earned
<1>6. CASE Idle(L, p, t)
  <2>1. M.periods = L.periods /\ M.accruals = L.accruals
    BY <1>6, SettleFields, SMT
  <2>2. Paid(M, h) = Paid(L, h) /\ Settled(M, h) = Settled(L, h)
    <3> HIDE DEF M
    <3> QED BY <2>1 DEF Paid, Settled, SettledRows
  <2>3. \A x \in Table : M.carry[x] = 0
    BY <1>6, CarryLeft
  <2>4. /\ Carried(M, h) = SumFunctionOnSet(CarriedRow(M, h), Work) /\ IsFiniteSet(Work)
        /\ \A o \in Work : CarriedRow(M, h)[o] = M.carry[<<h, o>>]
    BY <1>2, AccountsType, SMT
  <2> HIDE DEF M
  <2>5. \A o \in Work : CarriedRow(M, h)[o] = 0
    BY <2>3, <2>4 DEF Table
  <2>6. Carried(M, h) = 0
    BY <2>4, <2>5, SumZero
  <2> QED BY <1>3, <1>5, <2>2, <2>6, SMT
<1>7. CASE ~ Idle(L, p, t)
  <2>1. Paid(M, h) = Paid(L, h) + Rewards(L, p, t)[h]
    BY <1>7, PaidGrows
  <2>2. Settled(M, h) = Settled(L, h) + Fresh(L, p)[h]
    BY <1>7, SettledGrows
  <2>3. Rewards(L, p, t)[h] + Carried(M, h) <= Carried(L, h) + Fresh(L, p)[h]
    BY <1>1, <1>7, PayFromParts
  <2>4. Fresh(L, p)[h] \in Nat /\ Rewards(L, p, t)[h] \in Nat
    <3>1. Fresh(L, p) \in [Hotkeys -> Nat] /\ Rewards(L, p, t) \in [Hotkeys -> Nat]
      BY FreshType, RewardsType
    <3> QED BY <3>1
  <2> HIDE DEF M
  <2> QED BY <1>3, <1>4, <1>5, <2>1, <2>2, <2>3, <2>4, SMT
<1> QED BY <1>6, <1>7

\* Settling a period after the last archive keeps all that is said of the tables.
LEMMA SettlePreserves ==
    ASSUME setup \in Setups, NEW L, TablesInv(L), NEW p \in Work, NEW t \in Nat,
           \A q \in DOMAIN L.periods : q < p
    PROVE  TablesInv(SettlePeriod(L, p, t))
<1>1. /\ LedgerType(L) /\ CarryRecent(L) /\ CarryFits(L) /\ ArchivesCapped(L) /\ Numbered(L)
      /\ EntriesFit(L) /\ Earned(L)
  BY DEF TablesInv
<1>2. LedgerType(SettlePeriod(L, p, t))
  BY <1>1, SettleType
<1>3. CarryRecent(SettlePeriod(L, p, t)) /\ CarryFits(SettlePeriod(L, p, t))
  BY <1>1, SettleCarry
<1>4. /\ ArchivesCapped(SettlePeriod(L, p, t)) /\ Numbered(SettlePeriod(L, p, t))
      /\ EntriesFit(SettlePeriod(L, p, t))
  BY <1>1, SettleArchives
<1>5. Earned(SettlePeriod(L, p, t))
  BY <1>1, SettleEarned
<1> QED BY <1>2, <1>3, <1>4, <1>5 DEF TablesInv

--------------------------------------------------------------------------------
(* The loop of settle over the due periods.                                *)

\* The tables after period n, when the due ones are settled.
Settle1(due, t, L, n) == IF n \in due THEN SettlePeriod(L, n, t) ELSE L
IsSettling(N, due, t, f) ==
    f = [n \in 0 .. N |-> IF n = 0 THEN books ELSE Settle1(due, t, f[n - 1], n - 1)]

\* Settling is a function that follows this recursion,
LEMMA SettlingIsChosen ==
    ASSUME NEW due, NEW t
    PROVE  Settling(due, t) = CHOOSE f : IsSettling(Cardinality(Work), due, t, f)
BY DEF Settling, IsSettling, Settle1

\* there is one,
LEMMA SettlingExists ==
    ASSUME NEW due, NEW t, NEW N \in Nat
    PROVE  \E f : IsSettling(N, due, t, f)
<1> DEFINE G == {n \in Nat : \E f : IsSettling(n, due, t, f)}
<1>1. 0 \in G
  <2> DEFINE f == [n \in 0 .. 0 |-> books]
  <2>1. IsSettling(0, due, t, f)
    <3>1. \A n \in 0 .. 0 : n = 0
      BY SMT
    <3>2. f = [n \in 0 .. 0 |-> IF n = 0 THEN books ELSE Settle1(due, t, f[n - 1], n - 1)]
      BY <3>1
    <3> HIDE DEF f
    <3> QED BY <3>2 DEF IsSettling
  <2> QED BY <2>1
<1>2. ASSUME NEW k \in Nat, k \in G PROVE k + 1 \in G
  <2>1. PICK f : IsSettling(k, due, t, f)
    BY <1>2
  <2> DEFINE F == [n \in 0 .. k |-> IF n = 0 THEN books ELSE Settle1(due, t, f[n - 1], n - 1)]
             g == [n \in 0 .. (k + 1) |-> IF n = k + 1 THEN Settle1(due, t, f[k], k) ELSE f[n]]
  <2>2. f = F
    BY <2>1 DEF IsSettling
  <2>3. ASSUME NEW n \in 0 .. (k + 1)
        PROVE  g[n] = IF n = 0 THEN books ELSE Settle1(due, t, g[n - 1], n - 1)
    <3>1. CASE n = k + 1
      <4>1. n # 0 /\ n - 1 = k /\ k \in 0 .. (k + 1) /\ k # k + 1
        BY <3>1, SMT
      <4>2. g[k] = f[k] /\ g[n] = Settle1(due, t, f[k], k)
        BY <3>1, <4>1
      <4> HIDE DEF g
      <4> QED BY <4>1, <4>2
    <3>2. CASE n # k + 1 /\ n # 0
      <4>1. n \in 0 .. k /\ n - 1 \in 0 .. (k + 1) /\ n - 1 # k + 1
        BY <3>2, SMT
      <4>2. g[n] = f[n] /\ g[n - 1] = f[n - 1]
        BY <3>2, <4>1
      <4>3. F[n] = Settle1(due, t, f[n - 1], n - 1)
        BY <3>2, <4>1
      <4> HIDE DEF g, F
      <4> QED BY <2>2, <3>2, <4>2, <4>3
    <3>3. CASE n = 0
      <4>1. n \in 0 .. k /\ n # k + 1
        BY <3>3, SMT
      <4>2. g[n] = f[n] /\ F[n] = books
        BY <3>3, <4>1
      <4> HIDE DEF g, F
      <4> QED BY <2>2, <3>3, <4>2
    <3> QED BY <3>1, <3>2, <3>3
  <2>4. g = [n \in 0 .. (k + 1) |-> IF n = 0 THEN books ELSE Settle1(due, t, g[n - 1], n - 1)]
    <3>1. g = [n \in 0 .. (k + 1) |-> g[n]]
      OBVIOUS
    <3> HIDE DEF g
    <3> QED BY <2>3, <3>1
  <2>5. IsSettling(k + 1, due, t, g)
    <3> HIDE DEF g
    <3> QED BY <2>4 DEF IsSettling
  <2>6. k + 1 \in Nat
    BY SMT
  <2> HIDE DEF g
  <2> QED BY <2>5, <2>6
<1> HIDE DEF G
<1>3. \A n \in Nat : n \in G
  BY <1>1, <1>2, NatInduct
<1> QED BY <1>3 DEF G

\* hence Settling goes from the tables of settle on, one period at a time.
LEMMA SettlingSteps ==
    ASSUME setup \in Setups, NEW due, NEW t
    PROVE  /\ Settling(due, t)[0] = books
           /\ \A n \in Work : Settling(due, t)[n + 1] = Settle1(due, t, Settling(due, t)[n], n)
<1> DEFINE N == Cardinality(Work)
           f == Settling(due, t)
<1>1. N \in Nat /\ Work = 0 .. (N - 1)
  <2>1. period_of(MaxTime) \in Nat /\ Work = 0 .. period_of(MaxTime) /\ N = period_of(MaxTime) + 1
    BY WorkType
  <2> HIDE DEF N
  <2> QED BY <2>1, SMT
<1>2. IsSettling(N, due, t, f)
  <2>1. \E g : IsSettling(N, due, t, g)
    <3> HIDE DEF N
    <3> QED BY <1>1, SettlingExists
  <2>2. IsSettling(N, due, t, CHOOSE g : IsSettling(N, due, t, g))
    BY <2>1
  <2> QED BY <2>2, SettlingIsChosen
<1> HIDE DEF N, f
<1>3. \A n \in 0 .. N : f[n] = IF n = 0 THEN books ELSE Settle1(due, t, f[n - 1], n - 1)
  BY <1>2 DEF IsSettling
<1>4. f[0] = books
  BY <1>1, <1>3, SMT
<1>5. ASSUME NEW n \in Work PROVE f[n + 1] = Settle1(due, t, f[n], n)
  <2>1. n + 1 \in 0 .. N /\ n + 1 # 0 /\ (n + 1) - 1 = n
    BY <1>1, SMT
  <2> QED BY <1>3, <2>1
<1> QED BY <1>4, <1>5 DEF f

\* An accrual not yet settled is of a period after every archive.
Ahead ==
    \A s \in DOMAIN accruals : accruals[s].status = "accrued" =>
        \A q \in DOMAIN periods : q < accruals[s].period

\* A known outage starts at some time.
LEMMA OutageStarts ==
    ASSUME ClockType, NEW o \in _outages(now)
    PROVE  o[1] \in Nat
<1> DEFINE spans == outages \union (IF last_at >= 0 /\ now - last_at > outage_grace_s THEN {<<last_at, now>>} ELSE {})
           long == {p \in UNION {Pieces(s) : s \in spans} : p[2] - p[1] > outage_grace_s}
<1>1. outages \subseteq Nat \X Nat /\ downtime \subseteq Nat \X Nat /\ last_at \in Nat \union {-1} /\ now \in Nat
  BY DEF ClockType, Span
<1>2. ASSUME NEW s \in spans PROVE s[1] \in Nat
  <2>1. CASE s \in outages
    BY <1>1, <2>1
  <2>2. CASE s \notin outages
    <3>1. last_at >= 0 /\ s = <<last_at, now>>
      BY <2>2
    <3>2. last_at \in Nat
      BY <1>1, <3>1, SMT
    <3> QED BY <3>1, <3>2
  <2> QED BY <2>1, <2>2
<1>3. ASSUME NEW s \in spans, NEW p \in Pieces(s) PROVE p[1] \in Nat
  <2> DEFINE cuts == {s[1]} \union {d[2] : d \in downtime}
  <2>1. \A c \in cuts : c \in Nat
    <3>1. \A d \in downtime : d[2] \in Nat
      BY <1>1
    <3>2. s[1] \in Nat
      BY <1>2
    <3> HIDE DEF spans
    <3> QED BY <3>1, <3>2
  <2>2. p[1] \in cuts
    <3> DEFINE EndOf(a) == Min({s[2]} \union {d[1] : d \in {e \in downtime : e[2] > a}})
    <3>1. Pieces(s) = {<<a, EndOf(a)>> : a \in {c \in cuts : c >= s[1] /\ c < s[2] /\ EndOf(c) > c}}
      BY DEF Pieces
    <3> HIDE DEF spans, cuts, EndOf
    <3>2. PICK a \in cuts : p = <<a, EndOf(a)>>
      BY <3>1
    <3> QED BY <3>2
  <2> QED BY <2>1, <2>2
<1>4. _outages(now) = IF outage_fill THEN {<<p[1], Min({p[2], p[1] + outage_max_s})>> : p \in long} ELSE {}
  BY DEF _outages
<1> HIDE DEF long
<1>5. PICK p \in long : o = <<p[1], Min({p[2], p[1] + outage_max_s})>>
  BY <1>4
<1>6. p[1] \in Nat
  <2>1. PICK s \in spans : p \in Pieces(s)
    <3> HIDE DEF spans
    <3> QED BY DEF long
  <2> QED BY <1>3, <2>1
<1> QED BY <1>5, <1>6

\* The last closed period is before the period of the last time.
LEMMA ClosedType ==
    ASSUME ClockType, now <= MaxTime
    PROVE  LET closed == closed_through(now, SettleSlack) IN closed \in Int /\ closed < period_of(MaxTime)
<1>1. /\ PeriodSeconds \in Nat /\ PeriodSeconds > 0 /\ slack_s \in Nat /\ outage_grace_s \in Nat
      /\ MaxTime \in Nat /\ now \in Nat /\ setup \in Setups
  BY SettingTypes DEF ClockType
<1>2. SettleSlack \in Nat
  <2>1. Max({slack_s, outage_grace_s}) = IF slack_s <= outage_grace_s THEN outage_grace_s ELSE slack_s
    BY <1>1, MaxOfTwo, SMT
  <2>2. Max({slack_s, outage_grace_s}) \in Nat
    BY <1>1, <2>1
  <2> QED BY <1>1, <2>2 DEF SettleSlack
<1> DEFINE d == now - SettleSlack
<1>3. d \in Int /\ d <= MaxTime
  BY <1>1, <1>2, SMT
<1> HIDE DEF d
<1>4. d \div PeriodSeconds \in Int /\ d \div PeriodSeconds <= MaxTime \div PeriodSeconds
  BY <1>1, <1>3, DivMono, SMT
<1>5. MaxTime \div PeriodSeconds \in Nat
  BY <1>1, DivLE
<1>6. period_of(d) \in Int /\ period_of(d) - 1 < period_of(MaxTime)
  BY <1>4, <1>5, SMT DEF period_of
<1>7. closed_through(now, SettleSlack) = period_of(d) - 1
  BY DEF closed_through, d
<1> QED BY <1>6, <1>7, SMT

\* The due periods are closed, come after every archive, and hold every accrual that is closed.
LEMMA DuePeriods ==
    ASSUME ClockType, now <= MaxTime, LedgerType(books), CarryRecent(books), Ahead
    PROVE  LET closed == closed_through(now, SettleSlack)
               due == _due_periods(closed, _outages(now))
           IN  /\ \A p \in due : p \in Work /\ p <= closed /\ \A q \in DOMAIN periods : q < p
               /\ \A s \in DOMAIN accruals :
                    accruals[s].status = "accrued" /\ accruals[s].period <= closed => accruals[s].period \in due
<1> DEFINE closed == closed_through(now, SettleSlack)
           O == _outages(now)
           next == IF DOMAIN periods = {} THEN {} ELSE {Max(DOMAIN periods) + 1}
           accrued == {accruals[s].period : s \in {r \in DOMAIN accruals : accruals[r].status = "accrued"}}
           down == UNION {Max({period_of(o[1])} \union next) .. period_of(o[2]) : o \in O}
           early == {p \in accrued \union down : p <= closed}
           first == Min(IF early \union next = {} THEN {closed} ELSE early \union next)
           more == IF carry_periods > 0 /\ SumFunction(carry) > 0 THEN first .. closed ELSE {}
<1>1. closed \in Int /\ closed < period_of(MaxTime)
  BY ClosedType
<1>2. setup \in Setups /\ Work \subseteq Nat /\ IsFiniteSet(Work) /\ IsFiniteSet(Table)
      /\ period_of(MaxTime) \in Nat /\ Work = 0 .. period_of(MaxTime)
  BY WorkType DEF ClockType
<1>3. /\ accruals \in [DOMAIN accruals -> Row] /\ carry \in [Table -> Nat] /\ DOMAIN periods \subseteq Work
  BY DEF LedgerType, books
<1>4. IsFiniteSet(DOMAIN periods) /\ DOMAIN periods \subseteq Int
  <2>1. DOMAIN periods \in SUBSET Work
    BY <1>3
  <2> QED BY <1>2, <2>1, FS_Subset, SMT
<1>5. \A n \in next : n \in Nat /\ \A q \in DOMAIN periods : q < n
  <2>1. SUFFICES ASSUME DOMAIN periods # {}
                 PROVE  LET n == Max(DOMAIN periods) + 1 IN n \in Nat /\ \A q \in DOMAIN periods : q < n
    OBVIOUS
  <2> DEFINE m == Max(DOMAIN periods)
  <2>2. m \in DOMAIN periods /\ \A q \in DOMAIN periods : q <= m
    BY <1>4, <2>1, FiniteHasMax
  <2>3. m \in Nat
    BY <1>2, <1>3, <2>2
  <2>4. \A q \in DOMAIN periods : q \in Int
    BY <1>4
  <2> HIDE DEF m
  <2>5. m + 1 \in Nat /\ \A q \in DOMAIN periods : q < m + 1
    BY <2>2, <2>3, <2>4, SMT
  <2> QED BY <2>5 DEF m
<1>6. DOMAIN periods # {} => next # {}
  OBVIOUS
<1>7. \A p \in accrued : p \in Nat /\ \A q \in DOMAIN periods : q < p
  <2>1. SUFFICES ASSUME NEW s \in DOMAIN accruals, accruals[s].status = "accrued"
                 PROVE  accruals[s].period \in Nat /\ \A q \in DOMAIN periods : q < accruals[s].period
    OBVIOUS
  <2>2. accruals[s] \in Row
    BY <1>3
  <2> QED BY <2>1, <2>2 DEF Row, Ahead
<1>8. \A p \in down : p \in Nat /\ \A q \in DOMAIN periods : q < p
  <2>1. SUFFICES ASSUME NEW o \in O, NEW p \in Max({period_of(o[1])} \union next) .. period_of(o[2])
                 PROVE  p \in Nat /\ \A q \in DOMAIN periods : q < p
    <3> HIDE DEF O, next
    <3> QED OBVIOUS
  <2> DEFINE b == period_of(o[1])
             S == {b} \union next
  <2>2. b \in Nat
    <3>1. o[1] \in Nat
      BY OutageStarts
    <3> QED BY <1>2, <3>1, PeriodOfNat
  <2>3. IsFiniteSet(S) /\ S # {} /\ S \subseteq Int
    <3>1. IsFiniteSet(next)
      BY FS_EmptySet, FS_Singleton
    <3>2. IsFiniteSet(next \union {b}) /\ S = next \union {b}
      BY <3>1, FS_AddElement
    <3>3. S # {} /\ S \subseteq Int
      <4> HIDE DEF next, b
      <4> QED BY <1>5, <2>2, SMT
    <3> QED BY <3>2, <3>3
  <2>4. Max(S) \in S /\ \A m \in S : m <= Max(S)
    <3> HIDE DEF S
    <3> QED BY <2>3, FiniteHasMax
  <2>5. p \in Int /\ Max(S) <= p
    <3>1. Max(S) \in Int
      BY <2>3, <2>4
    <3> QED BY <2>1, <3>1, SMT
  <2>6. b <= p
    <3>1. b <= Max(S) /\ Max(S) \in Int
      BY <2>3, <2>4
    <3> HIDE DEF b, S
    <3> QED BY <2>2, <2>5, <3>1, SMT
  <2>7. p \in Nat
    <3> HIDE DEF b
    <3> QED BY <2>2, <2>5, <2>6, SMT
  <2>8. ASSUME NEW q \in DOMAIN periods PROVE q < p
    <3>1. PICK n \in next : TRUE
      BY <1>6, <2>8
    <3>2. n <= Max(S) /\ Max(S) \in Int /\ n \in Nat /\ q < n /\ q \in Int
      <4>1. n \in S /\ Max(S) \in Int
        BY <2>3, <2>4
      <4>2. n \in Nat /\ q < n /\ q \in Int
        BY <1>4, <1>5
      <4> QED BY <2>4, <4>1, <4>2
    <3> HIDE DEF S, next
    <3> QED BY <2>5, <3>2, SMT
  <2> QED BY <2>7, <2>8
<1>9. \A p \in early : p \in Nat /\ p <= closed /\ \A q \in DOMAIN periods : q < p
  <2> HIDE DEF accrued, down, closed
  <2> QED BY <1>7, <1>8
<1>10. \A p \in more : p \in Nat /\ p <= closed /\ \A q \in DOMAIN periods : q < p
  <2>1. SUFFICES ASSUME SumFunction(carry) > 0, NEW p \in first .. closed
                 PROVE  p \in Nat /\ p <= closed /\ \A q \in DOMAIN periods : q < p
    <3> HIDE DEF first, closed
    <3> QED OBVIOUS
  <2>2. \E x \in Table : carry[x] # 0
    <3>1. SUFFICES ASSUME \A x \in Table : carry[x] = 0 PROVE FALSE
      OBVIOUS
    <3>2. SumFunctionOnSet(carry, Table) = 0
      BY <1>2, <3>1, SumZero
    <3>3. DOMAIN carry = Table
      BY <1>3
    <3> QED BY <2>1, <3>2, <3>3, SMT DEF SumFunction
  <2>3. PICK x \in Table : carry[x] # 0
    BY <2>2
  <2>4. carry[x] > 0
    BY <1>3, <2>3, SMT
  <2>5. DOMAIN periods # {}
    BY <2>4 DEF CarryRecent, books
  <2> DEFINE S == early \union next
  <2>6. S # {} /\ S \subseteq Nat
    <3>1. next # {}
      BY <1>6, <2>5
    <3> HIDE DEF early, next
    <3> QED BY <1>5, <1>9, <3>1
  <2>7. first = Min(S)
    <3> HIDE DEF early, next
    <3> QED BY <2>6
  <2>8. first \in S
    <3> HIDE DEF S, first
    <3> QED BY <2>6, <2>7, LeastIsMin
  <2>9. first \in Nat /\ \A q \in DOMAIN periods : q < first
    <3> HIDE DEF early, next, first
    <3> QED BY <1>5, <1>9, <2>8
  <2>10. p \in Int /\ first <= p /\ p <= closed
    <3> HIDE DEF first, closed
    <3> QED BY <1>1, <2>1, <2>9, SMT
  <2>11. \A q \in DOMAIN periods : q \in Int
    BY <1>4
  <2> HIDE DEF first, closed
  <2> QED BY <2>9, <2>10, <2>11, SMT
<1>11. _due_periods(closed, O) = early \union more
  BY DEF _due_periods
<1>12. \A p \in early \union more : p \in Work /\ p <= closed /\ \A q \in DOMAIN periods : q < p
  <2>1. \A p \in early \union more : p \in Nat /\ p <= closed /\ \A q \in DOMAIN periods : q < p
    <3> HIDE DEF early, more, closed
    <3> QED BY <1>9, <1>10
  <2> HIDE DEF early, more, closed
  <2>2. \A p \in early \union more : p \in Work
    <3> TAKE p \in early \union more
    <3>1. p \in Nat /\ p <= closed
      BY <2>1
    <3> QED BY <1>1, <1>2, <3>1, SMT
  <2> QED BY <2>1, <2>2
<1>13. \A s \in DOMAIN accruals :
         accruals[s].status = "accrued" /\ accruals[s].period <= closed => accruals[s].period \in early
  <2> HIDE DEF closed, down
  <2> QED OBVIOUS
<1> HIDE DEF closed, O, early, more
<1>14. /\ \A p \in _due_periods(closed, O) : p \in Work /\ p <= closed /\ \A q \in DOMAIN periods : q < p
       /\ \A s \in DOMAIN accruals : accruals[s].status = "accrued" /\ accruals[s].period <= closed =>
            accruals[s].period \in _due_periods(closed, O)
  BY <1>11, <1>12, <1>13
<1> QED BY <1>14 DEF closed, O

\* No unsettled accrual of the hotkey is left in the tables settle starts from.
Cleared(h) == \A s \in DOMAIN accruals : accruals[s].status = "accrued" => accruals[s].hotkey # h

\* The tables L once the due periods before n are settled, compared with those before.
LoopInv(n, due, t, L) ==
    /\ TablesInv(L)
    /\ DOMAIN L.accruals = DOMAIN accruals
    /\ \A s \in DOMAIN accruals : L.accruals[s].status = "accrued" =>
         L.accruals[s] = accruals[s] /\ (accruals[s].period \in due => accruals[s].period >= n)
    /\ DOMAIN periods \subseteq DOMAIN L.periods
    /\ \A q \in DOMAIN periods : L.periods[q] = periods[q]
    /\ \A q \in DOMAIN L.periods \ DOMAIN periods :
         /\ q \in due /\ q < n
         /\ L.periods[q].published = "unattempted" /\ L.periods[q].outage_s = Down(q, t)
         /\ \A h \in Hotkeys : t < bans[h] /\ Cleared(h) => L.periods[q].rewards[h] = 0

\* One period settled: the invariant of the loop holds of the next.
LEMMA LoopStep ==
    ASSUME setup \in Setups, NEW due, NEW t \in Nat, NEW n \in Work,
           \A p \in due : \A q \in DOMAIN periods : q < p,
           LedgerType(books), NEW L, LoopInv(n, due, t, L)
    PROVE  LoopInv(n + 1, due, t, Settle1(due, t, L, n))
<1> DEFINE M == Settle1(due, t, L, n)
<1>1. /\ TablesInv(L)
      /\ DOMAIN L.accruals = DOMAIN accruals
      /\ \A s \in DOMAIN accruals : L.accruals[s].status = "accrued" =>
           L.accruals[s] = accruals[s] /\ (accruals[s].period \in due => accruals[s].period >= n)
      /\ DOMAIN periods \subseteq DOMAIN L.periods
      /\ \A q \in DOMAIN periods : L.periods[q] = periods[q]
  BY DEF LoopInv
<1>2. ASSUME NEW q \in DOMAIN L.periods \ DOMAIN periods
      PROVE  /\ q \in due /\ q < n
             /\ L.periods[q].published = "unattempted" /\ L.periods[q].outage_s = Down(q, t)
             /\ \A h \in Hotkeys : t < bans[h] /\ Cleared(h) => L.periods[q].rewards[h] = 0
  BY DEF LoopInv
<1>3. n \in Nat /\ Work \subseteq Nat
  BY WorkType
<1>4. \A s \in DOMAIN accruals : accruals[s].period \in Nat
  <2>1. \A s \in DOMAIN accruals : accruals[s] \in Row
    BY DEF LedgerType, books
  <2> QED BY <2>1 DEF Row
<1>5. LedgerType(L) /\ DOMAIN L.periods \subseteq Work
  BY <1>1 DEF TablesInv, LedgerType
<1>6. \A q \in DOMAIN L.periods : q \in Nat
  BY <1>3, <1>5
<1>7. CASE n \notin due
  <2>1. M = L
    BY <1>7 DEF Settle1
  <2>2. \A s \in DOMAIN accruals : L.accruals[s].status = "accrued" =>
          L.accruals[s] = accruals[s] /\ (accruals[s].period \in due => accruals[s].period >= n + 1)
    <3> TAKE s \in DOMAIN accruals
    <3> HAVE L.accruals[s].status = "accrued"
    <3>1. L.accruals[s] = accruals[s] /\ (accruals[s].period \in due => accruals[s].period >= n)
      BY <1>1
    <3>2. accruals[s].period \in Nat /\ (accruals[s].period \in due => accruals[s].period # n)
      BY <1>4, <1>7
    <3> QED BY <1>3, <3>1, <3>2, SMT
  <2>3. \A q \in DOMAIN L.periods \ DOMAIN periods : q < n + 1
    BY <1>2, <1>3, <1>6, SMT
  <2>4. LoopInv(n + 1, due, t, L)
    BY <1>1, <1>2, <2>2, <2>3 DEF LoopInv
  <2> QED BY <2>1, <2>4
<1>8. CASE n \in due
  <2>1. M = SettlePeriod(L, n, t)
    BY <1>8 DEF Settle1
  <2>2. \A q \in DOMAIN L.periods : q < n
    BY <1>2, <1>8
  <2>3. TablesInv(M)
    BY <1>1, <2>1, <2>2, SettlePreserves
  <2>4. /\ DOMAIN M.accruals = DOMAIN L.accruals
        /\ \A s \in DOMAIN L.accruals :
                M.accruals[s].status = "accrued" => M.accruals[s] = L.accruals[s] /\ L.accruals[s].period # n
        /\ DOMAIN L.periods \subseteq DOMAIN M.periods
        /\ DOMAIN M.periods \subseteq DOMAIN L.periods \union {n}
        /\ \A q \in DOMAIN L.periods : M.periods[q] = L.periods[q]
        /\ n \in DOMAIN M.periods => M.periods[n] = Archive(L, n, t)
    <3> HIDE DEF M
    <3> QED BY <1>5, <2>1, <2>2, SettleChanges, SMT
  <2>5. /\ Archive(L, n, t).published = "unattempted" /\ Archive(L, n, t).rewards = Rewards(L, n, t)
        /\ Archive(L, n, t).outage_s = Down(n, t)
    BY DEF Archive
  <2>6. ASSUME NEW h \in Hotkeys, t < bans[h], Cleared(h) PROVE Rewards(L, n, t)[h] = 0
    <3>1. RowsOf(L, n, h) = {}
      <4>1. ASSUME NEW s \in RowsOf(L, n, h) PROVE FALSE
        <5>1. s \in DOMAIN accruals /\ L.accruals[s].status = "accrued" /\ L.accruals[s].hotkey = h
          BY <1>1 DEF RowsOf, Rows
        <5>2. L.accruals[s] = accruals[s]
          BY <1>1, <5>1
        <5> QED BY <2>6, <5>1, <5>2 DEF Cleared
      <4> QED BY <4>1
    <3> QED BY <1>5, <2>6, <3>1, BannedGetsNothing
  <2> HIDE DEF M
  <2>7. \A s \in DOMAIN accruals : M.accruals[s].status = "accrued" =>
          M.accruals[s] = accruals[s] /\ (accruals[s].period \in due => accruals[s].period >= n + 1)
    <3> TAKE s \in DOMAIN accruals
    <3> HAVE M.accruals[s].status = "accrued"
    <3>1. M.accruals[s] = L.accruals[s] /\ L.accruals[s].period # n
      BY <1>1, <2>4
    <3>2. L.accruals[s] = accruals[s] /\ (accruals[s].period \in due => accruals[s].period >= n)
      BY <1>1, <3>1
    <3>3. accruals[s].period \in Nat /\ accruals[s].period # n
      BY <1>4, <3>1, <3>2
    <3> QED BY <1>3, <3>1, <3>2, <3>3, SMT
  <2>8. \A q \in DOMAIN periods : M.periods[q] = periods[q]
    BY <1>1, <2>4
  <2>9. ASSUME NEW q \in DOMAIN M.periods \ DOMAIN periods
        PROVE  /\ q \in due /\ q < n + 1
               /\ M.periods[q].published = "unattempted" /\ M.periods[q].outage_s = Down(q, t)
               /\ \A h \in Hotkeys : t < bans[h] /\ Cleared(h) => M.periods[q].rewards[h] = 0
    <3>1. CASE q \in DOMAIN L.periods
      <4>1. q \in DOMAIN L.periods \ DOMAIN periods /\ M.periods[q] = L.periods[q] /\ q \in Nat
        BY <1>6, <2>4, <3>1
      <4>2. q < n + 1
        BY <1>2, <1>3, <4>1, SMT
      <4> QED BY <1>2, <4>1, <4>2
    <3>2. CASE q \notin DOMAIN L.periods
      <4>1. q = n /\ M.periods[q] = Archive(L, n, t)
        BY <2>4, <3>2
      <4>2. q < n + 1
        BY <1>3, <4>1, SMT
      <4> QED BY <1>8, <2>5, <2>6, <4>1, <4>2
    <3> QED BY <3>1, <3>2
  <2>10. DOMAIN M.accruals = DOMAIN accruals /\ DOMAIN periods \subseteq DOMAIN M.periods
    BY <1>1, <2>4
  <2>11. LoopInv(n + 1, due, t, M)
    BY <2>3, <2>7, <2>8, <2>9, <2>10 DEF LoopInv
  <2> QED BY <2>11 DEF M
<1> QED BY <1>7, <1>8

\* The tables settle leaves.
LEMMA SettledTables ==
    ASSUME setup \in Setups, NEW due, NEW t \in Nat,
           \A p \in due : \A q \in DOMAIN periods : q < p, TablesInv(books)
    PROVE  LoopInv(Cardinality(Work), due, t, Settling(due, t)[Cardinality(Work)])
<1> DEFINE f == Settling(due, t)
           N == Cardinality(Work)
           G == {n \in Nat : n <= N => LoopInv(n, due, t, f[n])}
<1>1. N \in Nat /\ Work = 0 .. (N - 1)
  <2>1. period_of(MaxTime) \in Nat /\ Work = 0 .. period_of(MaxTime) /\ N = period_of(MaxTime) + 1
    BY WorkType
  <2> HIDE DEF N
  <2> QED BY <2>1, SMT
<1>2. f[0] = books /\ \A n \in Work : f[n + 1] = Settle1(due, t, f[n], n)
  BY SettlingSteps
<1>3. LedgerType(books)
  BY DEF TablesInv
<1> HIDE DEF f, N
<1>4. LoopInv(0, due, t, books)
  <2>1. books.accruals = accruals /\ books.periods = periods
    BY DEF books
  <2>2. \A s \in DOMAIN accruals : accruals[s].period >= 0
    <3>1. \A s \in DOMAIN accruals : accruals[s] \in Row
      BY <1>3 DEF LedgerType, books
    <3>2. \A s \in DOMAIN accruals : accruals[s].period \in Nat
      BY <3>1 DEF Row
    <3> QED BY <3>2, SMT
  <2> QED BY <2>1, <2>2 DEF LoopInv
<1>5. 0 \in G
  BY <1>2, <1>4
<1>6. ASSUME NEW n \in Nat, n \in G PROVE n + 1 \in G
  <2>1. SUFFICES ASSUME n + 1 <= N PROVE LoopInv(n + 1, due, t, f[n + 1])
    BY SMT
  <2>2. n <= N /\ n \in Work
    BY <1>1, <2>1, SMT
  <2>3. LoopInv(n, due, t, f[n])
    BY <1>6, <2>2
  <2>4. LoopInv(n + 1, due, t, Settle1(due, t, f[n], n))
    BY <1>3, <2>2, <2>3, LoopStep
  <2> QED BY <1>2, <2>2, <2>4
<1> HIDE DEF G
<1>7. \A n \in Nat : n \in G
  BY <1>5, <1>6, NatInduct
<1>8. N \in G
  BY <1>1, <1>7
<1>9. LoopInv(N, due, t, f[N])
  BY <1>1, <1>8, SMT DEF G
<1> QED BY <1>9 DEF f, N
================================================================================
