----------------------------- MODULE SumTheorems -----------------------------
(***************************************************************************)
(* Facts about sums over finite sets, and the two induction principles     *)
(* they rest on.  Balances, reserves, fees and gas are sums in the models; *)
(* SumFunctionOnSet(f, S) adds f[x] for the x in S.                        *)
(*                                                                         *)
(* The induction theorems of the library quantify over a predicate.  Here  *)
(* induction is stated over sets: the naturals, and the subsets of a       *)
(* finite set, are well founded, so a non-empty set of counterexamples has *)
(* a least one.                                                            *)
(***************************************************************************)
EXTENDS Integers, Functions, FiniteSets, FiniteSetTheorems, WellFoundedInduction, TLAPS

--------------------------------------------------------------------------------
(* Induction. *)

\* A non-empty set of natural numbers has a least element.
LEMMA LeastNatural ==
    ASSUME NEW T \in SUBSET Nat, T # {}
    PROVE  \E n \in T : \A m \in T : n <= m
<1> DEFINE R == OpToRel(<, Nat)
<1>1. PICK n \in T : \A m \in T : ~ (<<m, n>> \in R)
    <2>1. IsWellFoundedOn(R, Nat)
        BY NatLessThanWellFounded
    <2> HIDE DEF R
    <2>2. QED BY <2>1, WFMin
<1>2. \A m \in T : ~ (m < n)
    BY <1>1 DEF OpToRel
<1>3. QED BY <1>2

\* A set that has zero and every successor of its elements has every natural number.
LEMMA InductionOnNaturals ==
    ASSUME NEW T \in SUBSET Nat, 0 \in T, \A n \in T : n + 1 \in T
    PROVE  T = Nat
<1> SUFFICES ASSUME T # Nat PROVE FALSE
    OBVIOUS
<1>1. PICK n \in Nat \ T : \A m \in Nat \ T : n <= m
    BY LeastNatural
<1>2. n - 1 \in T
    BY <1>1
<1>3. QED BY <1>1, <1>2

\* A non-empty family of subsets of a finite set has a minimal one.
LEMMA LeastSubset ==
    ASSUME NEW S, IsFiniteSet(S), NEW T \in SUBSET (SUBSET S), T # {}
    PROVE  \E U \in T : \A W \in T : W \subseteq U => W = U
<1> DEFINE R == StrictSubsetOrdering(S)
<1>1. PICK U \in T : \A W \in T : ~ (<<W, U>> \in R)
    <2>1. IsWellFoundedOn(R, SUBSET S)
        BY FS_StrictSubsetOrderingWellFounded, FS_FiniteSubsetsOfFinite
    <2> HIDE DEF R
    <2>2. QED BY <2>1, WFMin
<1>2. QED BY <1>1 DEF StrictSubsetOrdering

\* A family that has the empty set, and with a subset also every one larger by an
\* element, has the whole finite set.
LEMMA InductionOnSubsets ==
    ASSUME NEW S, IsFiniteSet(S), NEW T \in SUBSET (SUBSET S), {} \in T,
           \A U \in T : \A x \in S \ U : U \cup {x} \in T
    PROVE  T = SUBSET S
<1> DEFINE F == (SUBSET S) \ T
<1> SUFFICES ASSUME F # {} PROVE FALSE
    OBVIOUS
<1>1. PICK U \in F : \A W \in F : W \subseteq U => W = U
    <2>1. F \in SUBSET (SUBSET S)
        OBVIOUS
    <2> HIDE DEF F
    <2>2. QED BY <2>1, LeastSubset
<1>2. PICK x \in U : x \in S
    <2>1. U # {} /\ U \in SUBSET S
        BY <1>1
    <2>2. QED BY <2>1
<1>3. U \ {x} \in T
    BY <1>1, <1>2
<1>4. U = (U \ {x}) \cup {x} /\ x \in S \ (U \ {x})
    BY <1>2
<1>5. QED BY <1>1, <1>3, <1>4

--------------------------------------------------------------------------------
(* The recursion behind a sum. *)

Some(s) == CHOOSE x \in s : TRUE

\* g adds up f over every subset of S, one element at a time.
AddsUp(g, f, S) ==
    g = [s \in SUBSET S |-> IF s = {} THEN 0 ELSE f[Some(s)] + g[s \ {Some(s)}]]

\* There is such a function: it can be built for subsets of at most n elements, for
\* every n.
LEMMA AddsUpExists ==
    ASSUME NEW S, IsFiniteSet(S), NEW f
    PROVE  \E g : AddsUp(g, f, S)
<1> DEFINE Step(g, s) == IF s = {} THEN 0 ELSE f[Some(s)] + g[s \ {Some(s)}]
           UpTo(n, g) == \A s \in SUBSET S : Cardinality(s) <= n => g[s] = Step(g, s)
           Done(n) == \E g : g = [s \in SUBSET S |-> g[s]] /\ UpTo(n, g)
           T == {n \in Nat : Done(n)}
<1>0. \A s \in SUBSET S : IsFiniteSet(s) /\ Cardinality(s) \in Nat /\ Cardinality(s) <= Cardinality(S)
    BY FS_Subset, FS_CardinalityType
<1>1. \A s \in SUBSET S : s # {} =>
          /\ Some(s) \in s /\ s \ {Some(s)} \in SUBSET S
          /\ Cardinality(s \ {Some(s)}) = Cardinality(s) - 1
    <2> TAKE s \in SUBSET S
    <2> HAVE s # {}
    <2>1. Some(s) \in s
        BY DEF Some
    <2>2. QED BY <2>1, <1>0, FS_RemoveElement
<1>2. \A s \in SUBSET S : s # {} => Cardinality(s) # 0
    BY <1>0, FS_EmptySet
<1>3. 0 \in T
    <2> DEFINE g == [s \in SUBSET S |-> 0]
    <2>1. g = [s \in SUBSET S |-> g[s]]
        OBVIOUS
    <2>2. UpTo(0, g)
        BY <1>0, <1>2
    <2>3. QED BY <2>1, <2>2
<1>4. \A n \in T : n + 1 \in T
    <2> TAKE n \in T
    <2>0. n \in Nat
        OBVIOUS
    <2>1. PICK g : UpTo(n, g)
        OBVIOUS
    <2> DEFINE h == [s \in SUBSET S |-> Step(g, s)]
    <2>2. h = [s \in SUBSET S |-> h[s]]
        OBVIOUS
    <2>3. UpTo(n + 1, h)
        <3> SUFFICES ASSUME NEW s \in SUBSET S, Cardinality(s) <= n + 1
                     PROVE  h[s] = Step(h, s)
            OBVIOUS
        <3>1. CASE s = {}
            BY <3>1
        <3>2. CASE s # {}
            <4> DEFINE r == s \ {Some(s)}
            <4>1. r \in SUBSET S /\ Cardinality(r) <= n
                <5>1. Cardinality(r) = Cardinality(s) - 1 /\ Cardinality(s) \in Nat
                    BY <1>0, <1>1, <3>2
                <5>2. r \in SUBSET S
                    OBVIOUS
                <5> HIDE DEF r, T
                <5>3. QED BY <5>1, <5>2, <2>0
            <4>2. h[r] = Step(g, r) /\ g[r] = Step(g, r)
                BY <4>1, <2>1
            <4>3. QED BY <4>2, <3>2
        <3>3. QED BY <3>1, <3>2
    <2>4. Done(n + 1)
        <3> HIDE DEF h, UpTo
        <3>1. QED BY <2>2, <2>3
    <2> HIDE DEF Done
    <2>5. QED BY <2>0, <2>4
<1>5. Cardinality(S) \in T
    <2>1. T \in SUBSET Nat
        OBVIOUS
    <2> HIDE DEF T
    <2>2. QED BY <2>1, <1>0, <1>3, <1>4, InductionOnNaturals
<1>6. PICK g : g = [s \in SUBSET S |-> g[s]] /\ UpTo(Cardinality(S), g)
    BY <1>5
<1>7. \A s \in SUBSET S : g[s] = Step(g, s)
    BY <1>0, <1>6
<1>8. g = [s \in SUBSET S |-> Step(g, s)]
    BY <1>6, <1>7
<1>9. QED BY <1>8 DEF AddsUp

\* A sum is the last value of the recursion.
LEMMA SumUnfolds ==
    ASSUME NEW S, IsFiniteSet(S), NEW f
    PROVE  \E g : AddsUp(g, f, S) /\ SumFunctionOnSet(f, S) = g[S]
<1> DEFINE g == CHOOSE h : AddsUp(h, f, S)
<1>1. AddsUp(g, f, S)
    BY AddsUpExists
<1>2. SumFunctionOnSet(f, S) = g[S]
    BY DEF SumFunctionOnSet, FoldFunctionOnSet, MapThenFoldSet, AddsUp, Some
<1>3. QED BY <1>1, <1>2

\* The equation of the recursion, at one subset.
LEMMA AddsUpAt ==
    ASSUME NEW S, NEW f, NEW g, AddsUp(g, f, S)
    PROVE  \A s \in SUBSET S :
              g[s] = IF s = {} THEN 0 ELSE f[Some(s)] + g[s \ {Some(s)}]
BY DEF AddsUp

\* Whichever element is taken out of a subset, the rest adds up to what is left.
AnyOrder(g, f, S) ==
    \A s \in SUBSET S : g[s] \in Int /\ \A x \in s : g[s] = f[x] + g[s \ {x}]

\* Sums of integers are integers, and do not depend on the order.
LEMMA AddsUpInAnyOrder ==
    ASSUME NEW S, IsFiniteSet(S), NEW f, \A x \in S : f[x] \in Int,
           NEW g, AddsUp(g, f, S)
    PROVE  AnyOrder(g, f, S)
<1> USE DEF AnyOrder
<1> DEFINE Right(s) == g[s] \in Int /\ \A x \in s : g[s] = f[x] + g[s \ {x}]
           F == {s \in SUBSET S : ~ Right(s)}
<1> SUFFICES ASSUME F # {} PROVE FALSE
    OBVIOUS
<1>1. PICK s \in F : \A r \in F : r \subseteq s => r = s
    <2>1. F \in SUBSET (SUBSET S)
        OBVIOUS
    <2> HIDE DEF F
    <2>2. QED BY <2>1, LeastSubset
<1>2. s \in SUBSET S /\ ~ Right(s)
    OBVIOUS
<1> HIDE DEF F
<1>3. PICK c : c \in s /\ g[s] = f[c] + g[s \ {c}]
    <2>1. \A r \in SUBSET S : g[r] = IF r = {} THEN 0 ELSE f[Some(r)] + g[r \ {Some(r)}]
        BY AddsUpAt
    <2>2. g[s] = IF s = {} THEN 0 ELSE f[Some(s)] + g[s \ {Some(s)}]
        BY <1>2, <2>1
    <2>3. s # {}
        BY <1>2, <2>2
    <2>4. Some(s) \in s
        BY <2>3 DEF Some
    <2>5. QED BY <2>2, <2>3, <2>4
<1>4. \A x \in s : f[x] \in Int
    BY <1>2
<1>5. ASSUME NEW x \in s
      PROVE  /\ g[s \ {x}] \in Int
             /\ \A y \in s \ {x} : g[s \ {x}] = f[y] + g[(s \ {x}) \ {y}]
    <2>1. s \ {x} \in SUBSET S /\ s \ {x} \subseteq s /\ s \ {x} # s
        BY <1>2
    <2>2. Right(s \ {x})
        <3> HIDE DEF Right
        <3>1. QED BY <2>1, <1>1 DEF F
    <2>3. QED BY <2>2
<1>6. g[s] \in Int
    <2>1. f[c] \in Int /\ g[s \ {c}] \in Int
        BY <1>3, <1>4, <1>5
    <2> HIDE DEF Right
    <2>2. QED BY <1>3, <2>1
<1>7. ASSUME NEW x \in s, x # c
      PROVE  g[s] = f[x] + g[s \ {x}]
    <2> DEFINE r == s \ {c, x}
    <2>1. (s \ {c}) \ {x} = r /\ (s \ {x}) \ {c} = r
        OBVIOUS
    <2>2. g[s \ {c}] = f[x] + g[r] /\ g[s \ {x}] = f[c] + g[r]
        BY <1>3, <1>5, <1>7, <2>1
    <2>3. g[r] \in Int
        <3>1. s \ {c} \in SUBSET S /\ Right(s \ {c}) /\ Right((s \ {c}) \ {x})
            <4>1. /\ s \ {c} \in SUBSET S /\ s \ {c} \subseteq s /\ s \ {c} # s
                  /\ r \in SUBSET S /\ r \subseteq s /\ r # s
                BY <1>2, <1>3
            <4> HIDE DEF Right, r
            <4>2. QED BY <4>1, <2>1, <1>1 DEF F
        <3>2. QED BY <3>1, <2>1
    <2> HIDE DEF r
    <2>4. f[x] \in Int /\ f[c] \in Int
        BY <1>3, <1>4
    <2>5. QED BY <1>3, <2>2, <2>3, <2>4
<1>8. QED BY <1>2, <1>3, <1>6, <1>7

\* Functions that agree on S add up to the same over its subsets.
LEMMA AddsUpSame ==
    ASSUME NEW S, IsFiniteSet(S), NEW f, NEW h, \A x \in S : f[x] = h[x],
           NEW g, AddsUp(g, f, S), NEW k, NEW R, S \subseteq R, AddsUp(k, h, R)
    PROVE  \A s \in SUBSET S : g[s] = k[s]
<1> DEFINE F == {s \in SUBSET S : g[s] # k[s]}
<1> SUFFICES ASSUME F # {} PROVE FALSE
    OBVIOUS
<1>1. PICK s \in F : \A r \in F : r \subseteq s => r = s
    <2>1. F \in SUBSET (SUBSET S)
        OBVIOUS
    <2> HIDE DEF F
    <2>2. QED BY <2>1, LeastSubset
<1>2. s \in SUBSET S /\ s \in SUBSET R /\ g[s] # k[s]
    OBVIOUS
<1>3. /\ g[s] = IF s = {} THEN 0 ELSE f[Some(s)] + g[s \ {Some(s)}]
      /\ k[s] = IF s = {} THEN 0 ELSE h[Some(s)] + k[s \ {Some(s)}]
    <2> HIDE DEF F
    <2>1. \A r \in SUBSET S : g[r] = IF r = {} THEN 0 ELSE f[Some(r)] + g[r \ {Some(r)}]
        BY DEF AddsUp
    <2>2. \A r \in SUBSET R : k[r] = IF r = {} THEN 0 ELSE h[Some(r)] + k[r \ {Some(r)}]
        BY DEF AddsUp
    <2>3. QED BY <1>2, <2>1, <2>2
<1>4. s # {} /\ Some(s) \in s
    BY <1>2, <1>3 DEF Some
<1>5. s \ {Some(s)} \in SUBSET S /\ s \ {Some(s)} \notin F
    <2>1. s \ {Some(s)} \subseteq s /\ s \ {Some(s)} # s
        BY <1>4
    <2>2. s \ {Some(s)} \in SUBSET S
        BY <1>2
    <2> HIDE DEF F
    <2>3. QED BY <1>1, <2>1, <2>2
<1>6. QED BY <1>2, <1>3, <1>4, <1>5

--------------------------------------------------------------------------------
(* Sums. *)

\* Nothing adds up to zero.
THEOREM SumEmpty == ASSUME NEW f PROVE SumFunctionOnSet(f, {}) = 0
<1>1. PICK g : AddsUp(g, f, {}) /\ SumFunctionOnSet(f, {}) = g[{}]
    BY SumUnfolds, FS_EmptySet
<1>2. QED BY <1>1, AddsUpAt

\* A sum only looks at the elements it adds.
THEOREM SumSame ==
    ASSUME NEW S, IsFiniteSet(S), NEW f, NEW h, \A x \in S : f[x] = h[x]
    PROVE  SumFunctionOnSet(f, S) = SumFunctionOnSet(h, S)
<1>1. PICK g : AddsUp(g, f, S) /\ SumFunctionOnSet(f, S) = g[S]
    BY SumUnfolds
<1>2. PICK k : AddsUp(k, h, S) /\ SumFunctionOnSet(h, S) = k[S]
    BY SumUnfolds
<1>3. QED BY <1>1, <1>2, AddsUpSame

\* An element can be taken out of the sum.
THEOREM SumTake ==
    ASSUME NEW S, IsFiniteSet(S), NEW f, \A x \in S : f[x] \in Int, NEW c \in S
    PROVE  /\ SumFunctionOnSet(f, S) \in Int /\ SumFunctionOnSet(f, S \ {c}) \in Int
           /\ SumFunctionOnSet(f, S) = f[c] + SumFunctionOnSet(f, S \ {c})
<1>1. PICK g : AddsUp(g, f, S) /\ SumFunctionOnSet(f, S) = g[S]
    BY SumUnfolds
<1>2. IsFiniteSet(S \ {c})
    BY FS_RemoveElement
<1>3. PICK k : AddsUp(k, f, S \ {c}) /\ SumFunctionOnSet(f, S \ {c}) = k[S \ {c}]
    BY <1>2, SumUnfolds
<1>4. k[S \ {c}] = g[S \ {c}]
    BY <1>1, <1>2, <1>3, AddsUpSame
<1>5. AnyOrder(g, f, S)
    BY <1>1, AddsUpInAnyOrder
<1>6. g[S] \in Int /\ g[S \ {c}] \in Int /\ g[S] = f[c] + g[S \ {c}]
    BY <1>5 DEF AnyOrder
<1>7. QED BY <1>1, <1>3, <1>4, <1>6

\* An element can be added to the sum.
THEOREM SumAdd ==
    ASSUME NEW S, IsFiniteSet(S), NEW c, c \notin S, NEW f, \A x \in S \cup {c} : f[x] \in Int
    PROVE  SumFunctionOnSet(f, S \cup {c}) = f[c] + SumFunctionOnSet(f, S)
<1>1. IsFiniteSet(S \cup {c}) /\ c \in S \cup {c} /\ (S \cup {c}) \ {c} = S
    BY FS_AddElement
<1> DEFINE T == S \cup {c}
<1> HIDE DEF T
<1>2. IsFiniteSet(T) /\ c \in T /\ T \ {c} = S /\ \A x \in T : f[x] \in Int
    BY <1>1 DEF T
<1>3. SumFunctionOnSet(f, T) = f[c] + SumFunctionOnSet(f, T \ {c})
    BY <1>2, SumTake
<1>4. QED BY <1>2, <1>3 DEF T

\* A sum of integers is an integer.
THEOREM SumInt ==
    ASSUME NEW S, IsFiniteSet(S), NEW f, \A x \in S : f[x] \in Int
    PROVE  SumFunctionOnSet(f, S) \in Int
<1>1. CASE S = {}
    BY <1>1, SumEmpty
<1>2. CASE S # {}
    <2>1. PICK c \in S : TRUE
        BY <1>2
    <2>2. QED BY <2>1, SumTake
<1>3. QED BY <1>1, <1>2

\* Changing the value of one element changes the sum by the difference.
THEOREM SumChange ==
    ASSUME NEW S, IsFiniteSet(S), NEW f, NEW h, NEW c \in S,
           \A x \in S : f[x] \in Int /\ h[x] \in Int,
           \A x \in S \ {c} : f[x] = h[x]
    PROVE  SumFunctionOnSet(h, S) = SumFunctionOnSet(f, S) - f[c] + h[c]
<1>1. IsFiniteSet(S \ {c})
    BY FS_RemoveElement
<1>2. SumFunctionOnSet(f, S \ {c}) = SumFunctionOnSet(h, S \ {c})
    BY <1>1, SumSame
<1>3. /\ SumFunctionOnSet(f, S) = f[c] + SumFunctionOnSet(f, S \ {c})
      /\ SumFunctionOnSet(f, S \ {c}) \in Int
    BY SumTake
<1>4. SumFunctionOnSet(h, S) = h[c] + SumFunctionOnSet(h, S \ {c})
    BY SumTake
<1>5. f[c] \in Int /\ h[c] \in Int
    OBVIOUS
<1>6. QED BY <1>2, <1>3, <1>4, <1>5

\* A sum of naturals is a natural, and a larger set adds up to at least as much.
THEOREM SumGrows ==
    ASSUME NEW S, IsFiniteSet(S), NEW f, \A x \in S : f[x] \in Nat
    PROVE  \A s \in SUBSET S : /\ SumFunctionOnSet(f, s) \in Nat
                               /\ SumFunctionOnSet(f, s) <= SumFunctionOnSet(f, S)
<1> DEFINE T == {s \in SUBSET S : SumFunctionOnSet(f, s) \in Nat}
<1>0. \A s \in SUBSET S : IsFiniteSet(s)
    BY FS_Subset
<1>1. T = SUBSET S
    <2>1. {} \in T
        BY SumEmpty
    <2>2. ASSUME NEW s \in T, NEW x \in S \ s
          PROVE  s \cup {x} \in T
        <3>1. IsFiniteSet(s) /\ x \notin s /\ \A y \in s \cup {x} : f[y] \in Int
            BY <1>0
        <3>2. SumFunctionOnSet(f, s) \in Nat /\ s \cup {x} \in SUBSET S /\ f[x] \in Nat
            OBVIOUS
        <3>3. SumFunctionOnSet(f, s \cup {x}) = f[x] + SumFunctionOnSet(f, s)
            <4> HIDE DEF T
            <4>1. QED BY <3>1, SumAdd
        <3>4. QED BY <3>2, <3>3
    <2>3. T \in SUBSET (SUBSET S)
        OBVIOUS
    <2> HIDE DEF T
    <2>4. QED BY <2>1, <2>2, <2>3, InductionOnSubsets
<1> DEFINE D == {s \in SUBSET S : SumFunctionOnSet(f, S \ s) <= SumFunctionOnSet(f, S)}
<1>2. D = SUBSET S
    <2>1. {} \in D
        <3>1. S \ {} = S /\ S \in T
            BY <1>1
        <3>2. QED BY <3>1
    <2>2. ASSUME NEW s \in D, NEW x \in S \ s
          PROVE  s \cup {x} \in D
        <3> DEFINE r == S \ s
        <3>1. IsFiniteSet(r) /\ x \in r /\ \A y \in r : f[y] \in Int
            BY <1>0
        <3>2. r \ {x} = S \ (s \cup {x})
            OBVIOUS
        <3>3. r \in T /\ r \ {x} \in T /\ S \in T
            BY <1>1
        <3>4. SumFunctionOnSet(f, r) <= SumFunctionOnSet(f, S) /\ f[x] \in Nat
            OBVIOUS
        <3>5. SumFunctionOnSet(f, r) = f[x] + SumFunctionOnSet(f, r \ {x})
            <4> HIDE DEF r
            <4>1. QED BY <3>1, SumTake
        <3>6. SumFunctionOnSet(f, r \ {x}) <= SumFunctionOnSet(f, S)
            BY <3>3, <3>4, <3>5
        <3>7. QED BY <3>2, <3>6
    <2>3. D \in SUBSET (SUBSET S)
        OBVIOUS
    <2> HIDE DEF D
    <2>4. QED BY <2>1, <2>2, <2>3, InductionOnSubsets
<1>3. ASSUME NEW s \in SUBSET S
      PROVE  SumFunctionOnSet(f, s) <= SumFunctionOnSet(f, S)
    <2>1. S \ s \in D /\ S \ (S \ s) = s
        BY <1>2
    <2>2. QED BY <2>1
<1>4. QED BY <1>1, <1>3

\* One element more, the others with their values kept.
THEOREM SumExtends ==
    ASSUME NEW S, IsFiniteSet(S), NEW c, c \notin S, NEW T, T = S \cup {c}, NEW f, NEW h,
           \A x \in T : h[x] \in Int, \A x \in S : f[x] = h[x]
    PROVE  SumFunctionOnSet(h, T) = SumFunctionOnSet(f, S) + h[c]
<1>1. SumFunctionOnSet(f, S) = SumFunctionOnSet(h, S)
    BY SumSame
<1>2. SumFunctionOnSet(h, S \cup {c}) = h[c] + SumFunctionOnSet(h, S)
    BY SumAdd
<1>3. SumFunctionOnSet(h, S) \in Int
    BY SumInt
<1>4. QED BY <1>1, <1>2, <1>3

\* One element less, the others with their values kept.
THEOREM SumShrinks ==
    ASSUME NEW S, IsFiniteSet(S), NEW c \in S, NEW T, T = S \ {c}, NEW f, NEW h,
           \A x \in S : f[x] \in Int, \A x \in T : f[x] = h[x]
    PROVE  SumFunctionOnSet(h, T) = SumFunctionOnSet(f, S) - f[c]
<1>1. IsFiniteSet(T)
    BY FS_RemoveElement
<1>2. SumFunctionOnSet(f, T) = SumFunctionOnSet(h, T)
    BY <1>1, SumSame
<1>3. SumFunctionOnSet(f, S) = f[c] + SumFunctionOnSet(f, T) /\ SumFunctionOnSet(f, T) \in Int
    BY SumTake
<1>4. f[c] \in Int
    OBVIOUS
<1>5. QED BY <1>2, <1>3, <1>4

\* A sum carried over to other indices, one to one.
THEOREM SumCarried ==
    ASSUME NEW S, IsFiniteSet(S), NEW f, NEW h, NEW e,
           \A x \in S : f[x] \in Int /\ f[x] = h[e[x]],
           \A x, y \in S : e[x] = e[y] => x = y
    PROVE  SumFunctionOnSet(f, S) = SumFunctionOnSet(h, {e[x] : x \in S})
<1> DEFINE Onto(s) == {e[x] : x \in s}
           Same(s) == /\ IsFiniteSet(Onto(s)) /\ SumFunctionOnSet(f, s) \in Int
                      /\ SumFunctionOnSet(f, s) = SumFunctionOnSet(h, Onto(s))
           T == {s \in SUBSET S : Same(s)}
<1>0. \A s \in SUBSET S : IsFiniteSet(s)
    BY FS_Subset
<1>1. {} \in T
    <2>1. Onto({}) = {}
        OBVIOUS
    <2> HIDE DEF Onto
    <2>2. IsFiniteSet(Onto({})) /\ SumFunctionOnSet(f, {}) = 0 /\ SumFunctionOnSet(h, Onto({})) = 0
        BY <2>1, FS_EmptySet, SumEmpty
    <2>3. QED BY <2>2
<1>2. ASSUME NEW s \in T, NEW c \in S \ s PROVE s \cup {c} \in T
    <2>1. s \in SUBSET S /\ Same(s) /\ IsFiniteSet(s) /\ c \in S /\ c \notin s
        BY <1>0
    <2>2. Onto(s \cup {c}) = Onto(s) \cup {e[c]} /\ e[c] \notin Onto(s)
        BY <2>1
    <2>3. /\ \A x \in s \cup {c} : f[x] \in Int
          /\ \A x \in Onto(s) \cup {e[c]} : h[x] \in Int
        BY <2>1
    <2> HIDE DEF Onto
    <2>4. IsFiniteSet(Onto(s) \cup {e[c]})
        BY <2>1, FS_AddElement
    <2>5. SumFunctionOnSet(f, s \cup {c}) = f[c] + SumFunctionOnSet(f, s)
        BY <2>1, <2>3, SumAdd
    <2> DEFINE W == Onto(s)
    <2>6. IsFiniteSet(W) /\ e[c] \notin W /\ \A x \in W \cup {e[c]} : h[x] \in Int
        BY <2>1, <2>2, <2>3
    <2> HIDE DEF W
    <2>7. SumFunctionOnSet(h, W \cup {e[c]}) = h[e[c]] + SumFunctionOnSet(h, W)
        BY <2>6, SumAdd
    <2>8. f[c] \in Int /\ f[c] = h[e[c]]
        BY <2>1
    <2>9. IsFiniteSet(Onto(s \cup {c}))
        BY <2>2, <2>4
    <2>10. SumFunctionOnSet(h, Onto(s \cup {c})) = h[e[c]] + SumFunctionOnSet(h, Onto(s))
        BY <2>2, <2>7 DEF W
    <2>11. /\ SumFunctionOnSet(f, s \cup {c}) \in Int
           /\ SumFunctionOnSet(f, s \cup {c}) = SumFunctionOnSet(h, Onto(s \cup {c}))
        BY <2>1, <2>5, <2>8, <2>10
    <2>12. Same(s \cup {c})
        BY <2>9, <2>11
    <2> HIDE DEF Same
    <2>13. QED BY <2>1, <2>12
<1> HIDE DEF Same
<1>3. T = SUBSET S
    <2>1. T \in SUBSET (SUBSET S)
        OBVIOUS
    <2>2. \A s \in T : \A c \in S \ s : s \cup {c} \in T
        BY <1>2
    <2> HIDE DEF T
    <2>3. QED BY <1>1, <2>1, <2>2, InductionOnSubsets
<1>4. S \in T
    BY <1>3
<1>5. QED BY <1>4 DEF Same
\* Two sums whose terms are in proportion are in proportion.
THEOREM SumScaled ==
    ASSUME NEW S, IsFiniteSet(S), NEW f, NEW h, NEW a \in Int, NEW c \in Int,
           \A x \in S : f[x] \in Int /\ h[x] \in Int /\ a * h[x] <= c * f[x]
    PROVE  a * SumFunctionOnSet(h, S) <= c * SumFunctionOnSet(f, S)
<1> DEFINE T == {s \in SUBSET S : a * SumFunctionOnSet(h, s) <= c * SumFunctionOnSet(f, s)}
<1>1. {} \in T
    BY SumEmpty, a * 0 <= c * 0
<1>2. ASSUME NEW s \in T, NEW x \in S \ s PROVE s \cup {x} \in T
    <2>1. IsFiniteSet(s) /\ x \notin s /\ \A y \in s \cup {x} : f[y] \in Int /\ h[y] \in Int
        BY FS_Subset
    <2>2. s \cup {x} \in SUBSET S /\ a * SumFunctionOnSet(h, s) <= c * SumFunctionOnSet(f, s)
        OBVIOUS
    <2> HIDE DEF T
    <2>3. /\ SumFunctionOnSet(f, s \cup {x}) = f[x] + SumFunctionOnSet(f, s)
          /\ SumFunctionOnSet(h, s \cup {x}) = h[x] + SumFunctionOnSet(h, s)
          /\ SumFunctionOnSet(f, s) \in Int /\ SumFunctionOnSet(h, s) \in Int
        BY <2>1, SumAdd, SumInt
    <2>4. f[x] \in Int /\ h[x] \in Int /\ a * h[x] <= c * f[x]
        OBVIOUS
    <2>5. /\ a * (h[x] + SumFunctionOnSet(h, s)) = a * h[x] + a * SumFunctionOnSet(h, s)
          /\ c * (f[x] + SumFunctionOnSet(f, s)) = c * f[x] + c * SumFunctionOnSet(f, s)
        BY <2>3, <2>4
    <2>6. /\ a * h[x] \in Int /\ a * SumFunctionOnSet(h, s) \in Int
          /\ c * f[x] \in Int /\ c * SumFunctionOnSet(f, s) \in Int
        BY <2>3, <2>4
    <2>7. a * SumFunctionOnSet(h, s \cup {x}) <= c * SumFunctionOnSet(f, s \cup {x})
        BY <2>2, <2>3, <2>4, <2>5, <2>6
    <2>8. QED BY <2>2, <2>7 DEF T
<1>3. T \in SUBSET (SUBSET S)
    OBVIOUS
<1>4. T = SUBSET S
    <2> HIDE DEF T
    <2>1. QED BY <1>1, <1>2, <1>3, InductionOnSubsets
<1>5. QED BY <1>4

\* A sum of differences is the difference of the sums.
THEOREM SumDifference ==
    ASSUME NEW S, IsFiniteSet(S), NEW f, NEW g, NEW h,
           \A x \in S : f[x] \in Int /\ g[x] \in Int /\ h[x] = f[x] - g[x]
    PROVE  SumFunctionOnSet(h, S) = SumFunctionOnSet(f, S) - SumFunctionOnSet(g, S)
<1> DEFINE T == {s \in SUBSET S : SumFunctionOnSet(h, s) = SumFunctionOnSet(f, s) - SumFunctionOnSet(g, s)}
<1>1. {} \in T
    BY SumEmpty
<1>2. ASSUME NEW s \in T, NEW x \in S \ s PROVE s \cup {x} \in T
    <2>1. IsFiniteSet(s) /\ x \notin s /\ \A y \in s \cup {x} : f[y] \in Int /\ g[y] \in Int /\ h[y] \in Int
        BY FS_Subset
    <2>2. s \cup {x} \in SUBSET S /\ SumFunctionOnSet(h, s) = SumFunctionOnSet(f, s) - SumFunctionOnSet(g, s)
        OBVIOUS
    <2> HIDE DEF T
    <2>3. /\ SumFunctionOnSet(f, s \cup {x}) = f[x] + SumFunctionOnSet(f, s)
          /\ SumFunctionOnSet(g, s \cup {x}) = g[x] + SumFunctionOnSet(g, s)
          /\ SumFunctionOnSet(h, s \cup {x}) = h[x] + SumFunctionOnSet(h, s)
          /\ SumFunctionOnSet(f, s) \in Int /\ SumFunctionOnSet(g, s) \in Int
        BY <2>1, SumAdd, SumInt
    <2>4. f[x] \in Int /\ g[x] \in Int /\ h[x] = f[x] - g[x]
        OBVIOUS
    <2>5. SumFunctionOnSet(h, s \cup {x}) = SumFunctionOnSet(f, s \cup {x}) - SumFunctionOnSet(g, s \cup {x})
        BY <2>2, <2>3, <2>4
    <2>6. QED BY <2>2, <2>5 DEF T
<1>3. T \in SUBSET (SUBSET S)
    OBVIOUS
<1>4. T = SUBSET S
    <2> HIDE DEF T
    <2>1. QED BY <1>1, <1>2, <1>3, InductionOnSubsets
<1>5. QED BY <1>4

\* A sum over some elements is the sum over all, with zero for the others.
THEOREM SumOfSome ==
    ASSUME NEW S, IsFiniteSet(S), NEW P \in SUBSET S, NEW f, NEW h,
           \A x \in P : f[x] \in Int, \A x \in S : h[x] = IF x \in P THEN f[x] ELSE 0
    PROVE  SumFunctionOnSet(f, P) = SumFunctionOnSet(h, S)
<1> DEFINE T == {s \in SUBSET S : SumFunctionOnSet(f, s \cap P) = SumFunctionOnSet(h, s)}
<1>1. {} \in T
    BY SumEmpty, {} \cap P = {}
<1>2. ASSUME NEW s \in T, NEW x \in S \ s PROVE s \cup {x} \in T
    <2>1. IsFiniteSet(s) /\ IsFiniteSet(s \cap P) /\ x \notin s
        BY FS_Subset
    <2>2. \A y \in s \cup {x} : h[y] \in Int
        OBVIOUS
    <2>3. s \cup {x} \in SUBSET S /\ SumFunctionOnSet(f, s \cap P) = SumFunctionOnSet(h, s)
        OBVIOUS
    <2> HIDE DEF T
    <2>4. SumFunctionOnSet(h, s \cup {x}) = h[x] + SumFunctionOnSet(h, s) /\ SumFunctionOnSet(h, s) \in Int
        BY <2>1, <2>2, SumAdd, SumInt
    <2>5. CASE x \in P
        <3>1. (s \cup {x}) \cap P = (s \cap P) \cup {x} /\ x \notin s \cap P /\ h[x] = f[x]
            BY <2>5
        <3> DEFINE r == s \cap P
        <3>2. IsFiniteSet(r) /\ x \notin r /\ \A y \in r \cup {x} : f[y] \in Int
            BY <2>1, <2>5
        <3> HIDE DEF r
        <3>3. SumFunctionOnSet(f, r \cup {x}) = f[x] + SumFunctionOnSet(f, r)
            BY <3>2, SumAdd
        <3>4. QED BY <2>3, <2>4, <3>1, <3>3 DEF r, T
    <2>6. CASE x \notin P
        <3>1. (s \cup {x}) \cap P = s \cap P /\ h[x] = 0
            BY <2>6
        <3>2. SumFunctionOnSet(h, s \cup {x}) = SumFunctionOnSet(h, s)
            BY <2>4, <3>1
        <3>3. QED BY <2>3, <3>1, <3>2 DEF T
    <2>7. QED BY <2>5, <2>6
<1>3. T \in SUBSET (SUBSET S)
    OBVIOUS
<1>4. T = SUBSET S
    <2> HIDE DEF T
    <2>1. QED BY <1>1, <1>2, <1>3, InductionOnSubsets
<1>5. S \in T /\ S \cap P = P
    BY <1>4
<1>6. QED BY <1>5

\* What is owned by whom, and how much of it.
OwnedBy(s, o, i) == {x \in s : o[x] = i}
OwnerSums(f, s, o, I) == [i \in I |-> SumFunctionOnSet(f, OwnedBy(s, o, i))]

\* What everybody owns adds up to what there is.
THEOREM SumByOwner ==
    ASSUME NEW S, IsFiniteSet(S), NEW I, IsFiniteSet(I), NEW f, NEW o,
           \A x \in S : f[x] \in Int /\ o[x] \in I
    PROVE  SumFunctionOnSet(f, S) = SumFunctionOnSet(OwnerSums(f, S, o, I), I)
<1> DEFINE T == {s \in SUBSET S : SumFunctionOnSet(f, s) = SumFunctionOnSet(OwnerSums(f, s, o, I), I)}
<1>1. {} \in T
    <2>1. \A i \in I : OwnerSums(f, {}, o, I)[i] = 0
        <3>1. \A i \in I : OwnedBy({}, o, i) = {}
            BY DEF OwnedBy
        <3>2. QED BY <3>1, SumEmpty DEF OwnerSums
    <2>2. SumFunctionOnSet(OwnerSums(f, {}, o, I), I) = 0
        <3> DEFINE g == OwnerSums(f, {}, o, I)
                   D == {r \in SUBSET I : SumFunctionOnSet(g, r) = 0}
        <3>1. \A i \in I : g[i] = 0
            BY <2>1
        <3> HIDE DEF g
        <3>2. {} \in D
            BY SumEmpty
        <3>3. ASSUME NEW r \in D, NEW i \in I \ r PROVE r \cup {i} \in D
            <4>1. IsFiniteSet(r) /\ i \notin r /\ (\A j \in r \cup {i} : g[j] \in Int) /\ g[i] = 0
                BY <3>1, FS_Subset
            <4>2. r \cup {i} \in SUBSET I /\ SumFunctionOnSet(g, r) = 0
                OBVIOUS
            <4> HIDE DEF D
            <4>3. SumFunctionOnSet(g, r \cup {i}) = g[i] + SumFunctionOnSet(g, r)
                BY <4>1, SumAdd
            <4>4. QED BY <4>1, <4>2, <4>3 DEF D
        <3>4. D \in SUBSET (SUBSET I)
            OBVIOUS
        <3>5. D = SUBSET I
            <4> HIDE DEF D
            <4>1. QED BY <3>2, <3>3, <3>4, InductionOnSubsets
        <3>6. QED BY <3>5 DEF g
    <2>3. QED BY <2>2, SumEmpty
<1>2. ASSUME NEW s \in T, NEW x \in S \ s PROVE s \cup {x} \in T
    <2>1. IsFiniteSet(s) /\ x \notin s /\ s \in SUBSET S /\ s \cup {x} \in SUBSET S
        BY FS_Subset
    <2>2. o[x] \in I /\ f[x] \in Int /\ \A y \in s \cup {x} : f[y] \in Int
        OBVIOUS
    <2>3. SumFunctionOnSet(f, s) = SumFunctionOnSet(OwnerSums(f, s, o, I), I)
        OBVIOUS
    <2> HIDE DEF T
    <2>4. SumFunctionOnSet(f, s \cup {x}) = f[x] + SumFunctionOnSet(f, s) /\ SumFunctionOnSet(f, s) \in Int
        BY <2>1, <2>2, SumAdd, SumInt
    <2>5. \A i \in I : /\ IsFiniteSet(OwnedBy(s, o, i)) /\ OwnedBy(s, o, i) \subseteq s
                       /\ (i # o[x] => OwnedBy(s \cup {x}, o, i) = OwnedBy(s, o, i))
        BY <2>1, FS_Subset DEF OwnedBy
    <2>6. OwnedBy(s \cup {x}, o, o[x]) = OwnedBy(s, o, o[x]) \cup {x} /\ x \notin OwnedBy(s, o, o[x])
        BY <2>1 DEF OwnedBy
    <2>7. \A i \in I : SumFunctionOnSet(f, OwnedBy(s, o, i)) \in Int
        <3> TAKE i \in I
        <3> DEFINE r == OwnedBy(s, o, i)
        <3>1. IsFiniteSet(r) /\ r \subseteq s
            BY <2>5
        <3>2. \A y \in r : f[y] \in Int
            BY <2>2, <3>1
        <3> HIDE DEF r
        <3>3. QED BY <3>1, <3>2, SumInt DEF r
    <2>8. SumFunctionOnSet(f, OwnedBy(s \cup {x}, o, o[x])) = f[x] + SumFunctionOnSet(f, OwnedBy(s, o, o[x]))
        <3> DEFINE r == OwnedBy(s, o, o[x])
        <3>1. IsFiniteSet(r) /\ r \subseteq s /\ x \notin r
            BY <2>2, <2>5, <2>6
        <3> HIDE DEF r
        <3>2. \A y \in r \cup {x} : f[y] \in Int
            BY <2>2, <3>1
        <3>3. SumFunctionOnSet(f, r \cup {x}) = f[x] + SumFunctionOnSet(f, r)
            BY <3>1, <3>2, SumAdd
        <3>4. QED BY <3>3, <2>6 DEF r
    <2> DEFINE g == OwnerSums(f, s, o, I)
               k == OwnerSums(f, s \cup {x}, o, I)
    <2>9. PICK c \in I : c = o[x]
        BY <2>2
    <2>10. \A i \in I : g[i] = SumFunctionOnSet(f, OwnedBy(s, o, i)) /\ g[i] \in Int
        BY <2>7 DEF OwnerSums
    <2>11. \A i \in I : k[i] = IF i = c THEN f[x] + g[i] ELSE g[i]
        BY <2>5, <2>8, <2>9, <2>10 DEF OwnerSums
    <2> HIDE DEF g, k
    <2>12. f[x] \in Int /\ \A i \in I : k[i] \in Int
        BY <2>2, <2>10, <2>11
    <2>13. \A i \in I \ {c} : g[i] = k[i]
        BY <2>11
    <2>14. \A i \in I : g[i] \in Int /\ k[i] \in Int
        BY <2>10, <2>12
    <2>15. SumFunctionOnSet(k, I) = SumFunctionOnSet(g, I) - g[c] + k[c]
        BY <2>13, <2>14, SumChange
    <2>16. g[c] \in Int /\ SumFunctionOnSet(g, I) \in Int
        BY <2>10, SumInt
    <2>17. SumFunctionOnSet(k, I) = SumFunctionOnSet(g, I) + f[x]
        BY <2>11, <2>12, <2>15, <2>16
    <2>18. SumFunctionOnSet(f, s \cup {x}) = SumFunctionOnSet(OwnerSums(f, s \cup {x}, o, I), I)
        BY <2>3, <2>4, <2>12, <2>16, <2>17 DEF g, k
    <2>19. QED BY <2>1, <2>18 DEF T
<1>3. T \in SUBSET (SUBSET S)
    OBVIOUS
<1>4. T = SUBSET S
    <2> HIDE DEF T
    <2>1. QED BY <1>1, <1>2, <1>3, InductionOnSubsets
<1>5. QED BY <1>4
================================================================================
