------------------------------ MODULE FiniteFacts ------------------------------
(***************************************************************************)
(* Facts about finite sets that the proofs of several components rest on:  *)
(* greatest and least elements, and sums over them.                        *)
(***************************************************************************)
EXTENDS Integers, FiniteSets, FiniteSetsExt, Functions, FiniteSetTheorems, WellFoundedInduction, TLAPS

LEMMA StrictSubsets ==
    ASSUME NEW S, NEW B \in SUBSET S, NEW A \in SUBSET B, A # B
    PROVE  <<A, B>> \in StrictSubsetOrdering(S)
<1>1. <<A, B>> \in (SUBSET S) \X (SUBSET S)
  OBVIOUS
<1>. QED  BY <1>1 DEF StrictSubsetOrdering

\* The image of a finite set is finite.
LEMMA FiniteImage ==
    ASSUME NEW S, IsFiniteSet(S), NEW f
    PROVE  IsFiniteSet({f[x] : x \in S})
<1> DEFINE T == {f[x] : x \in S}
           g == [x \in S |-> f[x]]
<1>1. g \in Surjection(S, T)
  BY DEF Surjection
<1>. QED  BY <1>1, FS_Surjection

LEMMA FinitePair == ASSUME NEW a, NEW b PROVE IsFiniteSet({a, b})
<1>1. {a, b} = {a} \cup {b}
  OBVIOUS
<1>2. IsFiniteSet({a})
  BY FS_Singleton
<1>. QED  BY <1>1, <1>2, FS_AddElement

\* A finite set of integers that is not empty has a greatest element: of the sets of those below an
\* element and of the element itself a smallest one is missing otherwise.
LEMMA GreatestOfFinite ==
    ASSUME NEW S, S \subseteq Int, IsFiniteSet(S), S # {}
    PROVE  Max(S) \in S /\ \A y \in S : Max(S) >= y
<1> DEFINE Above(x) == {y \in S : y > x}
           Aboves == {Above(x) : x \in S}
<1>1. IsWellFoundedOn(StrictSubsetOrdering(S), FiniteSubsetsOf(S))
  BY FS_StrictSubsetOrderingWellFounded
<1>2. Aboves \subseteq FiniteSubsetsOf(S) /\ Aboves # {}
  <2>1. \A x \in S : Above(x) \in SUBSET S
    OBVIOUS
  <2>2. \A U \in SUBSET S : IsFiniteSet(U)
    BY FS_Subset
  <2>. QED  BY <2>1, <2>2 DEF FiniteSubsetsOf
<1>3. PICK T \in Aboves : \A U \in Aboves : <<U, T>> \notin StrictSubsetOrdering(S)
  BY <1>1, <1>2, WFMin
<1>4. PICK x \in S : T = Above(x)
  OBVIOUS
<1>5. ASSUME NEW y \in S, y > x
      PROVE  FALSE
  <2>1. Above(y) \subseteq Above(x) /\ y \in Above(x) /\ y \notin Above(y)
    <3>1. x \in Int /\ y \in Int /\ \A z \in S : z \in Int
      OBVIOUS
    <3>2. y \in Above(x) /\ y \notin Above(y)
      BY <1>5, <3>1
    <3>3. ASSUME NEW z \in Above(y)
          PROVE  z \in Above(x)
      BY <1>5, <3>1, <3>3
    <3>. QED  BY <3>2, <3>3
  <2>2. Above(x) \in SUBSET S
    OBVIOUS
  <2>3. <<Above(y), Above(x)>> \in StrictSubsetOrdering(S)
    BY <2>1, <2>2, StrictSubsets
  <2>. QED  BY <1>3, <1>4, <2>3
<1>6. \A y \in S : x >= y
  BY <1>5
<1>. QED  BY <1>6 DEF Max

LEMMA LeastOfFinite ==
    ASSUME NEW S, S \subseteq Int, IsFiniteSet(S), S # {}
    PROVE  Min(S) \in S /\ \A y \in S : Min(S) <= y
<1> DEFINE f == [x \in S |-> -x]
           T == {f[x] : x \in S}
<1>1. IsFiniteSet(T)
  BY FiniteImage
<1>2. PICK m \in T : \A y \in T : m >= y
  <2>1. \A x \in S : f[x] \in Int
    OBVIOUS
  <2>2. T # {}
    OBVIOUS
  <2>. HIDE DEF f
  <2>3. T \subseteq Int
    BY <2>1
  <2>. HIDE DEF T
  <2>. QED  BY <1>1, <2>2, <2>3, GreatestOfFinite
<1>3. PICK x \in S : m = -x
  OBVIOUS
<1>4. \A y \in S : x <= y
  <2> SUFFICES ASSUME NEW y \in S
               PROVE  x <= y
    OBVIOUS
  <2>1. -y \in T /\ x \in Int /\ y \in Int
    OBVIOUS
  <2>2. m >= -y
    BY <1>2, <2>1
  <2>. QED  BY <1>3, <2>1, <2>2
<1>. QED  BY <1>4 DEF Min

\* Two elements, or more.
LEMMA TwoElements ==
    ASSUME NEW S, IsFiniteSet(S)
    PROVE  /\ Cardinality(S) \in Nat
           /\ Cardinality(S) = 0 <=> S = {}
           /\ Cardinality(S) = 1 <=> \E x : S = {x}
           /\ Cardinality(S) > 1 <=> \E x, y \in S : x # y
<1>1. Cardinality(S) \in Nat /\ (Cardinality(S) = 0 <=> S = {}) /\ (Cardinality(S) = 1 <=> \E x : S = {x})
  BY FS_CardinalityType, FS_EmptySet, FS_Singleton
<1>. QED  BY <1>1

-------------------------------------------------------------------------------
(* Sums.                                                                   *)

\* A collection of subsets of a finite set that is not empty has a smallest one.
LEMMA SmallestSubset ==
    ASSUME NEW S, IsFiniteSet(S), NEW C \in SUBSET (SUBSET S), C # {}
    PROVE  \E A \in C : \A B \in C : ~(B \subseteq A /\ B # A)
<1>1. IsWellFoundedOn(StrictSubsetOrdering(S), FiniteSubsetsOf(S))
  BY FS_StrictSubsetOrderingWellFounded
<1>2. \A U \in SUBSET S : IsFiniteSet(U)
  BY FS_Subset
<1>3. C \subseteq FiniteSubsetsOf(S)
  BY <1>2 DEF FiniteSubsetsOf
<1>4. PICK A \in C : \A B \in C : <<B, A>> \notin StrictSubsetOrdering(S)
  BY <1>1, <1>3, WFMin
<1>5. ASSUME NEW B \in C, B \subseteq A, B # A
      PROVE  FALSE
  BY <1>4, <1>5, StrictSubsets
<1>. QED  BY <1>5

\* What a sum takes next, and the function it is defined by.
AnyOf(s) == CHOOSE x \in s : TRUE
Sums(g, w, S) ==
    g = [s \in SUBSET S |-> IF s = {} THEN 0 ELSE w[AnyOf(s)] + g[s \ {AnyOf(s)}]]

LEMMA AnyOfIs == ASSUME NEW s, s # {} PROVE AnyOf(s) \in s
BY DEF AnyOf

LEMMA SumsAre ==
    ASSUME NEW S, NEW w
    PROVE  SumFunctionOnSet(w, S) = (CHOOSE g : Sums(g, w, S))[S]
BY DEF SumFunctionOnSet, FoldFunctionOnSet, MapThenFoldSet, Sums, AnyOf

\* The sums are there: of the numbers of elements up to which they are not a smallest one is missing.
LEMMA SumsExist ==
    ASSUME NEW S, IsFiniteSet(S), NEW w
    PROVE  \E g : Sums(g, w, S)
<1> DEFINE D(n) == {s \in SUBSET S : Cardinality(s) <= n}
           Good(g, n) == g = [s \in D(n) |-> IF s = {} THEN 0 ELSE w[AnyOf(s)] + g[s \ {AnyOf(s)}]]
           Bad == {n \in Nat : ~\E g : Good(g, n)}
<1>1. \A s \in SUBSET S : IsFiniteSet(s) /\ Cardinality(s) \in Nat
  BY FS_Subset, FS_CardinalityType
<1>2. \A s \in SUBSET S : s # {} =>
          /\ AnyOf(s) \in s /\ s \ {AnyOf(s)} \in SUBSET S
          /\ Cardinality(s \ {AnyOf(s)}) = Cardinality(s) - 1
  BY <1>1, AnyOfIs, FS_RemoveElement
<1>3. Good([s \in D(0) |-> 0], 0)
  <2>1. \A s \in D(0) : s = {}
    BY <1>1, FS_EmptySet
  <2>. QED  BY <2>1
<1>4. ASSUME NEW n \in Nat, NEW g, Good(g, n)
      PROVE  \E h : Good(h, n + 1)
  <2> DEFINE h == [s \in D(n + 1) |-> IF s = {} THEN 0 ELSE w[AnyOf(s)] + g[s \ {AnyOf(s)}]]
  <2>1. ASSUME NEW s \in D(n + 1), s # {}
        PROVE  h[s \ {AnyOf(s)}] = g[s \ {AnyOf(s)}]
    <3> DEFINE t == s \ {AnyOf(s)}
    <3>1. t \in D(n) /\ t \in D(n + 1)
      BY <1>1, <1>2, <2>1
    <3>2. h[t] = IF t = {} THEN 0 ELSE w[AnyOf(t)] + g[t \ {AnyOf(t)}]
      BY <3>1
    <3>3. g[t] = IF t = {} THEN 0 ELSE w[AnyOf(t)] + g[t \ {AnyOf(t)}]
      <4>. HIDE DEF D, t
      <4>. QED  BY <3>1, <1>4
    <3>. QED  BY <3>2, <3>3
  <2>2. h = [s \in D(n + 1) |-> IF s = {} THEN 0 ELSE w[AnyOf(s)] + h[s \ {AnyOf(s)}]]
    <3> DEFINE k == [s \in D(n + 1) |-> IF s = {} THEN 0 ELSE w[AnyOf(s)] + h[s \ {AnyOf(s)}]]
    <3>1. \A s \in D(n + 1) : h[s] = k[s]
      BY <2>1
    <3>2. DOMAIN h = D(n + 1) /\ DOMAIN k = D(n + 1)
      OBVIOUS
    <3>3. h = [s \in D(n + 1) |-> h[s]] /\ k = [s \in D(n + 1) |-> k[s]]
      OBVIOUS
    <3>. HIDE DEF h, k, D
    <3>4. h = k
      BY <3>1, <3>3
    <3>. QED  BY <3>4 DEF k
  <2>. QED  BY <2>2
<1>5. Bad = {}
  <2> SUFFICES ASSUME Bad # {}
               PROVE  FALSE
    OBVIOUS
  <2> HIDE DEF Good
  <2>1. PICK n \in Bad : \A m \in Bad : <<m, n>> \notin OpToRel(<, Nat)
    BY NatLessThanWellFounded, WFMin
  <2>2. n # 0
    BY <1>3
  <2>3. n - 1 \in Nat /\ <<n - 1, n>> \in OpToRel(<, Nat)
    BY <2>2 DEF OpToRel
  <2>4. n - 1 \notin Bad
    BY <2>1, <2>3
  <2>5. \E g : Good(g, (n - 1) + 1)
    BY <1>4, <2>3, <2>4
  <2>. QED  BY <2>5
<1>6. Cardinality(S) \in Nat /\ \A s \in SUBSET S : Cardinality(s) <= Cardinality(S)
  BY <1>1, FS_Subset
<1>7. D(Cardinality(S)) = SUBSET S
  BY <1>6
<1>8. \E g : Good(g, Cardinality(S))
  <2> HIDE DEF Good
  <2>. QED  BY <1>5, <1>6
<1>. HIDE DEF D
<1>. QED  BY <1>7, <1>8 DEF Sums

\* They are the same for a set and for a part of it.
LEMMA SumsAgree ==
    ASSUME NEW S, IsFiniteSet(S), NEW A \in SUBSET S, NEW w, NEW g, Sums(g, w, S), NEW h, Sums(h, w, A)
    PROVE  g[A] = h[A]
<1> DEFINE C == {s \in SUBSET A : g[s] # h[s]}
<1> SUFFICES ASSUME C # {}
             PROVE  FALSE
  OBVIOUS
<1>1. PICK s \in C : \A t \in C : ~(t \subseteq s /\ t # s)
  <2>1. IsFiniteSet(A) /\ C \in SUBSET (SUBSET A)
    BY FS_Subset
  <2>. HIDE DEF C
  <2>. QED  BY <2>1, SmallestSubset
<1>2. /\ g[s] = IF s = {} THEN 0 ELSE w[AnyOf(s)] + g[s \ {AnyOf(s)}]
      /\ h[s] = IF s = {} THEN 0 ELSE w[AnyOf(s)] + h[s \ {AnyOf(s)}]
  BY DEF Sums
<1>3. s # {} /\ g[s] # h[s]
  BY <1>2
<1>4. s \ {AnyOf(s)} \in SUBSET A /\ s \ {AnyOf(s)} # s
  BY <1>3, AnyOfIs
<1>5. g[s \ {AnyOf(s)}] = h[s \ {AnyOf(s)}]
  BY <1>1, <1>4
<1>. QED  BY <1>2, <1>3, <1>5

\* A sum is the value of some element and the sum of the others.
LEMMA SumUnfolds ==
    ASSUME NEW S, IsFiniteSet(S), NEW w
    PROVE  /\ SumFunctionOnSet(w, {}) = 0
           /\ S # {} => SumFunctionOnSet(w, S) = w[AnyOf(S)] + SumFunctionOnSet(w, S \ {AnyOf(S)})
<1> DEFINE G(A) == CHOOSE g : Sums(g, w, A)
<1>1. \A A \in SUBSET S : IsFiniteSet(A)
  BY FS_Subset
<1>2. \A A \in SUBSET S : Sums(G(A), w, A) /\ SumFunctionOnSet(w, A) = G(A)[A]
  BY <1>1, SumsExist, SumsAre
<1>3. \A A \in SUBSET S : G(S)[A] = G(A)[A]
  <2>. HIDE DEF G
  <2>. QED  BY <1>2, SumsAgree
<1>4. \A A \in SUBSET S : G(S)[A] = IF A = {} THEN 0 ELSE w[AnyOf(A)] + G(S)[A \ {AnyOf(A)}]
  <2>1. Sums(G(S), w, S)
    BY <1>2
  <2>. HIDE DEF G
  <2>. QED  BY <2>1 DEF Sums
<1>5. {} \in SUBSET S /\ S \in SUBSET S /\ S \ {AnyOf(S)} \in SUBSET S
  OBVIOUS
<1>. HIDE DEF G
<1>. QED  BY <1>2, <1>3, <1>4, <1>5

LEMMA SumType ==
    ASSUME NEW S, IsFiniteSet(S), NEW w, NEW T, T \in {Int, Nat}, \A x \in S : w[x] \in T
    PROVE  SumFunctionOnSet(w, S) \in T
<1> DEFINE C == {s \in SUBSET S : SumFunctionOnSet(w, s) \notin T}
<1> SUFFICES ASSUME C # {}
             PROVE  FALSE
  OBVIOUS
<1>1. PICK s \in C : \A t \in C : ~(t \subseteq s /\ t # s)
  <2>1. C \in SUBSET (SUBSET S)
    OBVIOUS
  <2>. HIDE DEF C
  <2>. QED  BY <2>1, SmallestSubset
<1>2. IsFiniteSet(s) /\ s \in SUBSET S
  BY FS_Subset
<1>3. s # {}
  <2>1. SumFunctionOnSet(w, {}) = 0
    BY <1>2, SumUnfolds
  <2>2. 0 \in T
    OBVIOUS
  <2>3. SumFunctionOnSet(w, {}) \in T
    BY <2>1, <2>2
  <2>4. SumFunctionOnSet(w, s) \notin T
    OBVIOUS
  <2>. QED  BY <2>3, <2>4
<1>4. AnyOf(s) \in s
  BY <1>3, AnyOfIs
<1>5. s \ {AnyOf(s)} \in SUBSET S /\ s \ {AnyOf(s)} # s
  BY <1>2, <1>4
<1>6. SumFunctionOnSet(w, s \ {AnyOf(s)}) \in T
  BY <1>1, <1>5
<1>7. SumFunctionOnSet(w, s) = w[AnyOf(s)] + SumFunctionOnSet(w, s \ {AnyOf(s)})
  BY <1>2, <1>3, SumUnfolds
<1>8. w[AnyOf(s)] \in T
  BY <1>2, <1>4
<1>. QED  BY <1>1, <1>6, <1>7, <1>8

\* It does not matter which element is taken out.
LEMMA SumRemoves ==
    ASSUME NEW S, IsFiniteSet(S), NEW w, \A x \in S : w[x] \in Int, NEW x \in S
    PROVE  SumFunctionOnSet(w, S) = w[x] + SumFunctionOnSet(w, S \ {x})
<1> DEFINE Sum(s) == SumFunctionOnSet(w, s)
           C == {s \in SUBSET S : \E y \in s : Sum(s) # w[y] + Sum(s \ {y})}
<1> SUFFICES ASSUME C # {}
             PROVE  FALSE
  OBVIOUS
<1>1. PICK s \in C : \A t \in C : ~(t \subseteq s /\ t # s)
  <2>1. C \in SUBSET (SUBSET S)
    OBVIOUS
  <2>. HIDE DEF C
  <2>. QED  BY <2>1, SmallestSubset
<1>2. PICK y \in s : Sum(s) # w[y] + Sum(s \ {y})
  OBVIOUS
<1> DEFINE z == AnyOf(s)
<1>3. \A t \in SUBSET S : IsFiniteSet(t) /\ Sum(t) \in Int
  <2> SUFFICES ASSUME NEW t \in SUBSET S
               PROVE  IsFiniteSet(t) /\ Sum(t) \in Int
    OBVIOUS
  <2>1. IsFiniteSet(t) /\ \A v \in t : w[v] \in Int
    BY FS_Subset
  <2>. QED  BY <2>1, SumType
<1>4. z \in s /\ Sum(s) = w[z] + Sum(s \ {z})
  BY <1>3, AnyOfIs, SumUnfolds
<1>5. z # y
  BY <1>2, <1>4
<1>6. \A t \in SUBSET s : t # s => \A v \in t : Sum(t) = w[v] + Sum(t \ {v})
  BY <1>1
<1> HIDE DEF Sum, z
<1>7. Sum(s \ {z}) = w[y] + Sum((s \ {z}) \ {y})
  BY <1>4, <1>5, <1>6
<1>8. Sum(s \ {y}) = w[z] + Sum((s \ {y}) \ {z})
  BY <1>4, <1>5, <1>6
<1> DEFINE rest == (s \ {z}) \ {y}
<1>9. (s \ {y}) \ {z} = rest /\ rest \in SUBSET S
  OBVIOUS
<1>10. w[y] \in Int /\ w[z] \in Int /\ Sum(rest) \in Int
  BY <1>3, <1>4, <1>9
<1> HIDE DEF rest, C
<1>11. Sum(s \ {y}) = w[z] + Sum(rest) /\ Sum(s) = w[z] + (w[y] + Sum(rest))
  BY <1>4, <1>7, <1>8, <1>9 DEF rest
<1>. QED  BY <1>2, <1>10, <1>11

\* A sum depends on the values of its elements only.
LEMMA SumSame ==
    ASSUME NEW S, IsFiniteSet(S), NEW w, NEW v, \A x \in S : w[x] = v[x]
    PROVE  SumFunctionOnSet(w, S) = SumFunctionOnSet(v, S)
<1> DEFINE C == {s \in SUBSET S : SumFunctionOnSet(w, s) # SumFunctionOnSet(v, s)}
<1> SUFFICES ASSUME C # {}
             PROVE  FALSE
  OBVIOUS
<1>1. PICK s \in C : \A t \in C : ~(t \subseteq s /\ t # s)
  <2>1. C \in SUBSET (SUBSET S)
    OBVIOUS
  <2>. HIDE DEF C
  <2>. QED  BY <2>1, SmallestSubset
<1>2. IsFiniteSet(s) /\ s \in SUBSET S
  BY FS_Subset
<1>3. s # {}
  BY <1>2, SumUnfolds
<1>4. AnyOf(s) \in s
  BY <1>3, AnyOfIs
<1>5. SumFunctionOnSet(w, s \ {AnyOf(s)}) = SumFunctionOnSet(v, s \ {AnyOf(s)})
  BY <1>1, <1>4
<1>6. /\ SumFunctionOnSet(w, s) = w[AnyOf(s)] + SumFunctionOnSet(w, s \ {AnyOf(s)})
      /\ SumFunctionOnSet(v, s) = v[AnyOf(s)] + SumFunctionOnSet(v, s \ {AnyOf(s)})
  BY <1>2, <1>3, SumUnfolds
<1>. QED  BY <1>4, <1>5, <1>6

\* A sum over what a set is mapped to without two elements coming together.
LEMMA SumOfImage ==
    ASSUME NEW S, IsFiniteSet(S), NEW v, NEW w, NEW f,
           \A x \in S : v[x] \in Int /\ w[f[x]] = v[x],
           \A x, y \in S : f[x] = f[y] => x = y
    PROVE  SumFunctionOnSet(v, S) = SumFunctionOnSet(w, {f[x] : x \in S})
<1> DEFINE Image(s) == {f[x] : x \in s}
           C == {s \in SUBSET S : SumFunctionOnSet(v, s) # SumFunctionOnSet(w, Image(s))}
<1> SUFFICES ASSUME C # {}
             PROVE  FALSE
  OBVIOUS
<1>1. PICK s \in C : \A t \in C : ~(t \subseteq s /\ t # s)
  <2>1. C \in SUBSET (SUBSET S)
    OBVIOUS
  <2>. HIDE DEF C
  <2>. QED  BY <2>1, SmallestSubset
<1>2. IsFiniteSet(s) /\ s \in SUBSET S /\ IsFiniteSet(Image(s))
  BY FS_Subset, FiniteImage
<1>3. s # {}
  <2>1. Image({}) = {}
    OBVIOUS
  <2>. HIDE DEF Image
  <2>. QED  BY <1>2, <2>1, SumUnfolds
<1> DEFINE x == AnyOf(s)
<1>4. x \in s
  BY <1>3, AnyOfIs
<1>5. Image(s) \ {f[x]} = Image(s \ {x}) /\ f[x] \in Image(s)
  <2>. HIDE DEF x
  <2>. QED  BY <1>2, <1>4
<1>6. SumFunctionOnSet(v, s \ {x}) = SumFunctionOnSet(w, Image(s \ {x}))
  BY <1>1, <1>4
<1>7. \A y \in Image(s) : w[y] \in Int
  BY <1>2
<1> HIDE DEF Image
<1>8. SumFunctionOnSet(w, Image(s)) = w[f[x]] + SumFunctionOnSet(w, Image(s) \ {f[x]})
  BY <1>2, <1>5, <1>7, SumRemoves
<1>9. SumFunctionOnSet(v, s) = v[x] + SumFunctionOnSet(v, s \ {x})
  BY <1>2, <1>3, SumUnfolds
<1>. QED  BY <1>2, <1>4, <1>5, <1>6, <1>8, <1>9

\* A sum of natural numbers is not less than that of a part.
LEMMA SumOfPart ==
    ASSUME NEW S, IsFiniteSet(S), NEW w, \A x \in S : w[x] \in Nat, NEW A \in SUBSET S
    PROVE  SumFunctionOnSet(w, A) <= SumFunctionOnSet(w, S)
<1> DEFINE Sum(s) == SumFunctionOnSet(w, s)
           C == {s \in SUBSET S : A \subseteq s /\ ~(Sum(A) <= Sum(s))}
<1> SUFFICES ASSUME C # {}
             PROVE  FALSE
  OBVIOUS
<1>1. PICK s \in C : \A t \in C : ~(t \subseteq s /\ t # s)
  <2>1. C \in SUBSET (SUBSET S)
    OBVIOUS
  <2>. HIDE DEF C
  <2>. QED  BY <2>1, SmallestSubset
<1>2. \A t \in SUBSET S : IsFiniteSet(t) /\ Sum(t) \in Nat
  <2> SUFFICES ASSUME NEW t \in SUBSET S
               PROVE  IsFiniteSet(t) /\ Sum(t) \in Nat
    OBVIOUS
  <2>1. IsFiniteSet(t) /\ \A x \in t : w[x] \in Nat
    BY FS_Subset
  <2>. QED  BY <2>1, SumType
<1>3. s # A /\ s \in SUBSET S /\ A \subseteq s
  BY <1>2
<1>4. PICK x \in s : x \notin A
  BY <1>3
<1>5. Sum(A) <= Sum(s \ {x})
  BY <1>1, <1>3, <1>4
<1>6. Sum(s) = w[x] + Sum(s \ {x})
  <2>1. IsFiniteSet(s) /\ \A y \in s : w[y] \in Int
    BY <1>2
  <2>. QED  BY <2>1, <1>4, SumRemoves
<1>7. w[x] \in Nat /\ s \ {x} \in SUBSET S
  BY <1>3, <1>4
<1>8. Sum(A) \in Nat /\ Sum(s) \in Nat /\ Sum(s \ {x}) \in Nat
  BY <1>2, <1>7
<1>. QED  BY <1>1, <1>5, <1>6, <1>7, <1>8

\* A sum over two sets that have nothing in common.
LEMMA SumOfUnion ==
    ASSUME NEW A, IsFiniteSet(A), NEW B, IsFiniteSet(B), A \cap B = {},
           NEW w, \A x \in A \cup B : w[x] \in Int
    PROVE  SumFunctionOnSet(w, A \cup B) = SumFunctionOnSet(w, A) + SumFunctionOnSet(w, B)
<1> DEFINE Sum(s) == SumFunctionOnSet(w, s)
           C == {s \in SUBSET A : Sum(s \cup B) # Sum(s) + Sum(B)}
<1> SUFFICES ASSUME C # {}
             PROVE  FALSE
  OBVIOUS
<1>1. PICK s \in C : \A t \in C : ~(t \subseteq s /\ t # s)
  <2>1. C \in SUBSET (SUBSET A)
    OBVIOUS
  <2>. HIDE DEF C
  <2>. QED  BY <2>1, SmallestSubset
<1>2. \A t \in SUBSET (A \cup B) : IsFiniteSet(t) /\ Sum(t) \in Int
  <2> SUFFICES ASSUME NEW t \in SUBSET (A \cup B)
               PROVE  IsFiniteSet(t) /\ Sum(t) \in Int
    OBVIOUS
  <2>1. IsFiniteSet(t) /\ \A x \in t : w[x] \in Int
    BY FS_Union, FS_Subset
  <2>. QED  BY <2>1, SumType
<1>3. s \in SUBSET A /\ Sum(s \cup B) # Sum(s) + Sum(B)
  OBVIOUS
<1>4. Sum({}) = 0
  BY SumUnfolds
<1>5. s # {}
  <2> SUFFICES ASSUME s = {}
               PROVE  FALSE
    OBVIOUS
  <2>1. s \cup B = B /\ Sum(B) \in Int
    BY <1>2
  <2>. HIDE DEF Sum, C
  <2>2. Sum(s \cup B) = Sum(B) /\ Sum(s) = 0
    BY <1>4, <2>1
  <2>. QED  BY <1>3, <2>1, <2>2
<1>6. PICK x \in s : TRUE
  BY <1>5
<1> DEFINE t == s \ {x}
<1>7. Sum(t \cup B) = Sum(t) + Sum(B)
  <2>1. t \in SUBSET A /\ t \subseteq s /\ t # s
    BY <1>3, <1>6
  <2>. HIDE DEF t
  <2>. QED  BY <1>1, <2>1
<1>8. Sum(s) = w[x] + Sum(t)
  <2>1. IsFiniteSet(s) /\ \A y \in s : w[y] \in Int
    BY <1>2, <1>3
  <2>. QED  BY <1>6, <2>1, SumRemoves
<1>9. Sum(s \cup B) = w[x] + Sum(t \cup B)
  <2>1. IsFiniteSet(s \cup B) /\ (\A y \in s \cup B : w[y] \in Int) /\ x \in s \cup B
    BY <1>2, <1>3, <1>6
  <2>2. (s \cup B) \ {x} = t \cup B
    BY <1>3, <1>6
  <2>. HIDE DEF t
  <2>. QED  BY <2>1, <2>2, SumRemoves
<1>10. w[x] \in Int /\ Sum(t) \in Int /\ Sum(B) \in Int
  BY <1>2, <1>3, <1>6
<1> HIDE DEF Sum, t, C
<1>. QED  BY <1>3, <1>7, <1>8, <1>9, <1>10

\* Products of integers: how they distribute, and their order.
LEMMA Products ==
    ASSUME NEW a \in Int, NEW b \in Int, NEW c \in Int
    PROVE  /\ a * b \in Int
           /\ a * (b + c) = a * b + a * c
           /\ a * 0 = 0
           /\ b <= c /\ a >= 0 => b * a <= c * a
<1>1. a * b \in Int /\ a * (b + c) = a * b + a * c /\ a * 0 = 0
  OBVIOUS
<1>2. ASSUME b <= c, a >= 0
      PROVE  b * a <= c * a
  BY <1>2
<1>. QED  BY <1>1, <1>2

\* A weighted sum lies between the least and the greatest value, times the weights.
LEMMA SumBetween ==
    ASSUME NEW S, IsFiniteSet(S), NEW w, NEW v, NEW low \in Int, NEW high \in Int,
           \A x \in S : w[x] \in Nat /\ v[x] \in Int /\ low <= v[x] /\ v[x] <= high,
           NEW f, \A x \in S : f[x] = w[x] * v[x]
    PROVE  /\ SumFunctionOnSet(w, S) \in Nat /\ SumFunctionOnSet(f, S) \in Int
           /\ low * SumFunctionOnSet(w, S) <= SumFunctionOnSet(f, S)
           /\ SumFunctionOnSet(f, S) <= high * SumFunctionOnSet(w, S)
<1> DEFINE W(s) == SumFunctionOnSet(w, s)
           F(s) == SumFunctionOnSet(f, s)
           C == {s \in SUBSET S : ~(low * W(s) <= F(s) /\ F(s) <= high * W(s))}
<1>1. \A s \in SUBSET S : IsFiniteSet(s) /\ W(s) \in Nat /\ F(s) \in Int
  <2> SUFFICES ASSUME NEW s \in SUBSET S
               PROVE  IsFiniteSet(s) /\ W(s) \in Nat /\ F(s) \in Int
    OBVIOUS
  <2>1. IsFiniteSet(s) /\ (\A x \in s : w[x] \in Nat) /\ \A x \in s : w[x] * v[x] \in Int
    BY FS_Subset, Products
  <2>2. \A x \in s : f[x] \in Int
    BY <2>1
  <2>. QED  BY <2>1, <2>2, SumType
<1>2. C = {}
  <2> SUFFICES ASSUME C # {}
               PROVE  FALSE
    OBVIOUS
  <2>1. PICK s \in C : \A t \in C : ~(t \subseteq s /\ t # s)
    <3>1. C \in SUBSET (SUBSET S)
      OBVIOUS
    <3>. HIDE DEF C
    <3>. QED  BY <3>1, SmallestSubset
  <2>2. IsFiniteSet(s) /\ s \in SUBSET S
    BY <1>1
  <2>3. s # {}
    <3>1. W({}) = 0 /\ F({}) = 0
      BY <2>2, SumUnfolds
    <3>2. low * 0 = 0 /\ high * 0 = 0
      BY Products
    <3>3. low * W({}) <= F({}) /\ F({}) <= high * W({})
      BY <3>1, <3>2
    <3>4. ~(low * W(s) <= F(s) /\ F(s) <= high * W(s))
      OBVIOUS
    <3>. HIDE DEF W, F, C
    <3>. QED  BY <3>3, <3>4
  <2> DEFINE x == AnyOf(s)
             t == s \ {x}
  <2>4. x \in s /\ x \in S
    BY <2>2, <2>3, AnyOfIs
  <2>5. W(s) = w[x] + W(t) /\ F(s) = f[x] + F(t)
    BY <2>2, <2>3, SumUnfolds
  <2>6. t \in SUBSET S /\ t \subseteq s /\ t # s
    BY <2>2, <2>4
  <2>7. low * W(t) <= F(t) /\ F(t) <= high * W(t)
    <3>. HIDE DEF W, F, t
    <3>. QED  BY <2>1, <2>6
  <2>8. W(t) \in Nat /\ F(t) \in Int /\ W(s) \in Nat /\ F(s) \in Int
    BY <1>1, <2>2, <2>6
  <2>9. w[x] \in Nat /\ v[x] \in Int /\ f[x] = w[x] * v[x] /\ low <= v[x] /\ v[x] <= high
    BY <2>4
  <2> HIDE DEF W, F, x, t
  <2>10. /\ low * (w[x] + W(t)) = low * w[x] + low * W(t)
         /\ high * (w[x] + W(t)) = high * w[x] + high * W(t)
         /\ low * w[x] \in Int /\ low * W(t) \in Int /\ high * w[x] \in Int /\ high * W(t) \in Int
    BY <2>8, <2>9, Products
  <2>11. low * w[x] <= v[x] * w[x] /\ v[x] * w[x] <= high * w[x] /\ v[x] * w[x] = w[x] * v[x]
    BY <2>9, Products
  <2>12. f[x] \in Int /\ low * w[x] <= f[x] /\ f[x] <= high * w[x]
    <3>1. w[x] * v[x] \in Int
      BY <2>9, Products
    <3>. QED  BY <2>9, <2>11, <3>1
  <2>13. low * W(s) <= F(s) /\ F(s) <= high * W(s)
    <3>1. low * W(s) = low * w[x] + low * W(t) /\ high * W(s) = high * w[x] + high * W(t)
      BY <2>5, <2>10
    <3> DEFINE a == low * w[x]
               b == low * W(t)
               c == high * w[x]
               d == high * W(t)
    <3>2. a \in Int /\ b \in Int /\ c \in Int /\ d \in Int
      BY <2>10
    <3>3. low * W(s) = a + b /\ high * W(s) = c + d /\ a <= f[x] /\ f[x] <= c /\ b <= F(t) /\ F(t) <= d
      BY <2>7, <2>12, <3>1
    <3>. HIDE DEF a, b, c, d
    <3>. QED  BY <2>5, <2>8, <2>12, <3>2, <3>3
  <2>. QED  BY <2>1, <2>13
<1>3. S \in SUBSET S /\ S \notin C
  BY <1>2
<1>. QED  BY <1>1, <1>3

\* A set that is mapped to another without two elements coming together keeps its size.
LEMMA SizeOfImage ==
    ASSUME NEW S, IsFiniteSet(S), NEW f, \A x, y \in S : f[x] = f[y] => x = y
    PROVE  Cardinality({f[x] : x \in S}) = Cardinality(S)
<1> DEFINE T == {f[x] : x \in S}
           g == [x \in S |-> f[x]]
<1>1. g \in Bijection(S, T)
  BY DEF Bijection, Injection, Surjection, IsInjective
<1>. HIDE DEF T, g
<1>2. ExistsBijection(S, T)
  BY <1>1 DEF ExistsBijection
<1>. QED  BY <1>2, FS_Bijection DEF T

===============================================================================
