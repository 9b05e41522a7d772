----------------------------- MODULE SumTheorems -----------------------------
(***************************************************************************)
(* Sums over finite sets.  SumFunction is a fold over a set in an order    *)
(* nobody knows.  A fold exists for every finite set (PartialExists), does *)
(* not depend on the order (AnyFirst), and so a sum changes with its       *)
(* entries, splits by a partition and is the sum of two sums.  The         *)
(* inductions are over the cardinality of a subset, with a set in the      *)
(* place of a predicate.                                                   *)
(***************************************************************************)
EXTENDS Integers, FiniteSets, Functions, FiniteSetTheorems, WellFoundedInduction, TLAPS

(* Of some finite sets one has the fewest elements.                        *)
LEMMA SmallestExists ==
  ASSUME NEW D, IsFiniteSet(D), NEW B \in SUBSET (SUBSET D), B # {}
  PROVE  \E T \in B : \A U \in B : Cardinality(T) <= Cardinality(U)
<1> DEFINE N == {Cardinality(T) : T \in B}
<1>1. \A T \in B : IsFiniteSet(T) /\ Cardinality(T) \in Nat
  BY FS_Subset, FS_CardinalityType
<1>2. N \in SUBSET Nat /\ N # {}
  BY <1>1
<1>3. \A U \in B : Cardinality(U) \in N
  OBVIOUS
<1>4. \A n \in N : \E T \in B : Cardinality(T) = n
  OBVIOUS
<1> HIDE DEF N
<1>5. PICK n \in N : \A m \in N : ~(<<m, n>> \in OpToRel(<, Nat))
  BY <1>2, NatLessThanWellFounded, WFMin
<1>6. \A m \in N : ~(m < n)
  BY <1>2, <1>5 DEF OpToRel
<1>7. \A U \in B : n <= Cardinality(U)
  <2>1. \A m \in N : m \in Nat /\ n <= m
    BY <1>2, <1>6
  <2> QED
    BY <2>1, <1>3
<1> QED
  BY <1>4, <1>7

Pick(s) == CHOOSE x \in s : TRUE
Adds(g, f, s) == IF s = {} THEN 0 ELSE f[Pick(s)] + g[s \ {Pick(s)}]
Partial(g, f, S) == g = [s \in S |-> Adds(g, f, s)]

LEMMA PartialExists ==
  ASSUME NEW f, IsFiniteSet(DOMAIN f)
  PROVE  \E g : Partial(g, f, SUBSET DOMAIN f)
<1> DEFINE D == DOMAIN f
           Small(n) == {s \in SUBSET D : Cardinality(s) <= n}
           Good(n) == \E g : Partial(g, f, Small(n))
           Bad == {n \in Nat : ~Good(n)}
<1>1. \A s \in SUBSET D : IsFiniteSet(s) /\ Cardinality(s) \in Nat
                          /\ Cardinality(s) <= Cardinality(D)
  BY FS_Subset, FS_CardinalityType
<1>2. Cardinality(D) \in Nat /\ Small(Cardinality(D)) = SUBSET D
  BY <1>1, FS_CardinalityType
<1>3. CASE Bad = {}
  <2>1. Good(Cardinality(D))
    BY <1>2, <1>3
  <2> QED
    BY <2>1, <1>2
<1>4. CASE Bad # {}
  <2>1. PICK n \in Bad : \A m \in Bad : ~(<<m, n>> \in OpToRel(<, Nat))
    BY <1>4, NatLessThanWellFounded, WFMin
  <2>2. \A m \in Bad : ~(m < n)
    BY <2>1 DEF OpToRel
  <2>3. n \in Nat /\ ~Good(n)
    BY <2>1
  <2>4. CASE n = 0
    <3> DEFINE g == [s \in Small(0) |-> 0]
    <3>1. \A s \in Small(0) : s = {}
      BY <1>1, FS_EmptySet
    <3>2. g = [s \in Small(0) |-> Adds(g, f, s)]
      BY <3>1 DEF Adds
    <3> HIDE DEF g
    <3> QED
      BY <2>3, <2>4, <3>2 DEF Partial
  <2>5. CASE n # 0
    <3>1. n - 1 \in Nat /\ n - 1 < n
      BY <2>3, <2>5
    <3>2. Good(n - 1)
      <4> HIDE DEF Good
      <4> QED
        BY <3>1, <2>2
    <3>3. PICK g : Partial(g, f, Small(n - 1))
      BY <3>2
    <3> DEFINE h == [s \in Small(n) |-> Adds(g, f, s)]
    <3>4. ASSUME NEW s \in Small(n), s # {}
          PROVE  h[s \ {Pick(s)}] = g[s \ {Pick(s)}]
      <4> DEFINE t == s \ {Pick(s)}
      <4>1. Pick(s) \in s
        BY <3>4 DEF Pick
      <4>2. Cardinality(t) = Cardinality(s) - 1
        BY <4>1, <1>1, FS_RemoveElement
      <4>3. Cardinality(s) \in Nat /\ Cardinality(t) \in Nat /\ Cardinality(s) <= n
        BY <1>1
      <4>4. t \in Small(n - 1) /\ t \in Small(n)
        BY <4>2, <4>3, <2>3
      <4>5. g[t] = Adds(g, f, t)
        <5> HIDE DEF t, Small
        <5> QED
          BY <4>4, <3>3, Zenon DEF Partial
      <4>6. h[t] = Adds(g, f, t)
        <5> HIDE DEF t, Small
        <5> QED
          BY <4>4
      <4> QED
        BY <4>5, <4>6
    <3>5. \A s \in Small(n) : Adds(h, f, s) = Adds(g, f, s)
      <4> HIDE DEF h, Small
      <4> QED
        BY <3>4, Zenon DEF Adds
    <3>6. h = [s \in Small(n) |-> Adds(h, f, s)]
      <4> HIDE DEF Small
      <4> QED
        BY <3>5, Zenon
    <3> HIDE DEF h, Small
    <3> QED
      BY <2>3, <3>6 DEF Partial
  <2> QED
    BY <2>4, <2>5
<1> QED
  BY <1>3, <1>4

(* The sum of f over a part of its domain, as the folds compute it.        *)
PartialSum(f) == CHOOSE g : Partial(g, f, SUBSET DOMAIN f)

LEMMA PartialSums ==
  ASSUME NEW f, IsFiniteSet(DOMAIN f), NEW s \in SUBSET DOMAIN f
  PROVE  PartialSum(f)[s] = Adds(PartialSum(f), f, s)
<1>1. Partial(PartialSum(f), f, SUBSET DOMAIN f)
  BY PartialExists DEF PartialSum
<1> QED
  BY <1>1 DEF Partial

LEMMA SumIsPartial == ASSUME NEW f PROVE SumFunction(f) = PartialSum(f)[DOMAIN f]
BY DEF SumFunction, SumFunctionOnSet, FoldFunctionOnSet, MapThenFoldSet,
       PartialSum, Partial, Adds, Pick

LEMMA PartialSumsTyped ==
  ASSUME NEW f, IsFiniteSet(DOMAIN f), \A x \in DOMAIN f : f[x] \in Int
  PROVE  \A T \in SUBSET DOMAIN f : PartialSum(f)[T] \in Int
<1> DEFINE B == {T \in SUBSET DOMAIN f : PartialSum(f)[T] \notin Int}
<1>1. ASSUME B # {} PROVE FALSE
  <2>1. PICK T \in B : \A U \in B : Cardinality(T) <= Cardinality(U)
    BY <1>1, SmallestExists
  <2>2. PartialSum(f)[T] = Adds(PartialSum(f), f, T)
    BY PartialSums
  <2>3. T # {}
    BY <2>1, <2>2 DEF Adds
  <2>4. Pick(T) \in T
    BY <2>3 DEF Pick
  <2>5. Cardinality(T \ {Pick(T)}) < Cardinality(T)
    <3>1. IsFiniteSet(T)
      BY FS_Subset
    <3>2. Cardinality(T) \in Nat /\ Cardinality(T \ {Pick(T)}) = Cardinality(T) - 1
      BY <3>1, <2>4, FS_CardinalityType, FS_RemoveElement
    <3> QED
      BY <3>2
  <2>6. PartialSum(f)[T \ {Pick(T)}] \in Int
    <3>1. Cardinality(T \ {Pick(T)}) \in Nat /\ Cardinality(T) \in Nat
      BY FS_Subset, FS_CardinalityType
    <3>2. T \ {Pick(T)} \notin B
      BY <2>1, <2>5, <3>1
    <3> QED
      BY <3>2
  <2> QED
    BY <2>2, <2>3, <2>4, <2>6 DEF Adds
<1> QED
  BY <1>1

(* The element that comes first does not matter.                           *)
LEMMA AnyFirst ==
  ASSUME NEW f, IsFiniteSet(DOMAIN f), \A x \in DOMAIN f : f[x] \in Int
  PROVE  \A T \in SUBSET DOMAIN f : \A x \in T :
           PartialSum(f)[T] = f[x] + PartialSum(f)[T \ {x}]
<1> DEFINE B == {T \in SUBSET DOMAIN f :
                   \E x \in T : PartialSum(f)[T] # f[x] + PartialSum(f)[T \ {x}]}
<1>1. ASSUME B # {} PROVE FALSE
  <2>1. PICK T \in B : \A U \in B : Cardinality(T) <= Cardinality(U)
    BY <1>1, SmallestExists
  <2>2. PICK x \in T : PartialSum(f)[T] # f[x] + PartialSum(f)[T \ {x}]
    BY <2>1
  <2> DEFINE c == Pick(T)
             S(U) == PartialSum(f)[U]
  <2>3. c \in T /\ T \subseteq DOMAIN f
    BY <2>2 DEF Pick
  <2>4. S(T) = f[c] + S(T \ {c})
    BY <2>3, PartialSums DEF Adds
  <2>5. c # x
    BY <2>2, <2>4
  <2>6. \A y \in T : \A z \in T \ {y} : S(T \ {y}) = f[z] + S((T \ {y}) \ {z})
    <3> SUFFICES ASSUME NEW y \in T, NEW z \in T \ {y}
                 PROVE  S(T \ {y}) = f[z] + S((T \ {y}) \ {z})
      OBVIOUS
    <3>1. IsFiniteSet(T)
      BY FS_Subset
    <3>2. Cardinality(T) \in Nat /\ Cardinality(T \ {y}) = Cardinality(T) - 1
      BY <3>1, FS_CardinalityType, FS_RemoveElement
    <3>3. T \ {y} \notin B
      BY <2>1, <3>2
    <3> QED
      BY <3>3
  <2>7. (T \ {c}) \ {x} = (T \ {x}) \ {c}
    OBVIOUS
  <2>8. /\ S(T \ {c}) = f[x] + S((T \ {c}) \ {x})
        /\ S(T \ {x}) = f[c] + S((T \ {c}) \ {x})
    BY <2>2, <2>3, <2>5, <2>6, <2>7
  <2>9. /\ S((T \ {c}) \ {x}) \in Int /\ f[x] \in Int /\ f[c] \in Int
        /\ S(T \ {c}) \in Int /\ S(T \ {x}) \in Int
    <3>1. /\ (T \ {c}) \ {x} \in SUBSET DOMAIN f
          /\ T \ {c} \in SUBSET DOMAIN f /\ T \ {x} \in SUBSET DOMAIN f
      BY <2>3
    <3> QED
      BY <3>1, <2>2, <2>3, PartialSumsTyped
  <2> HIDE DEF c
  <2>10. S(T) = f[x] + S(T \ {x})
    <3> DEFINE a == S((T \ {c}) \ {x})
               b == S(T \ {c})
               d == S(T \ {x})
               e == S(T)
    <3>1. e = f[c] + b /\ b = f[x] + a /\ d = f[c] + a
      BY <2>4, <2>8
    <3>2. a \in Int /\ b \in Int /\ d \in Int /\ f[x] \in Int /\ f[c] \in Int
      BY <2>9
    <3> HIDE DEF a, b, d, e
    <3>3. e = f[x] + d
      BY <3>1, <3>2
    <3> QED
      BY <3>3 DEF d, e
  <2> QED
    BY <2>2, <2>10
<1> QED
  BY <1>1

Without(f, x) == [y \in DOMAIN f \ {x} |-> f[y]]
Over(f, S) == [x \in S |-> f[x]]

LEMMA PartOfFunction ==
  ASSUME NEW f, IsFiniteSet(DOMAIN f), \A x \in DOMAIN f : f[x] \in Int,
         NEW E \in SUBSET DOMAIN f
  PROVE  SumFunction(Over(f, E)) = PartialSum(f)[E]
<1> DEFINE h == Over(f, E)
           B == {T \in SUBSET E : PartialSum(h)[T] # PartialSum(f)[T]}
<1>1. DOMAIN h = E /\ IsFiniteSet(E) /\ \A x \in E : h[x] = f[x]
  BY FS_Subset DEF Over
<1> HIDE DEF h
<1>2. ASSUME B # {} PROVE FALSE
  <2>1. PICK T \in B : \A U \in B : Cardinality(T) <= Cardinality(U)
    BY <1>1, <1>2, SmallestExists
  <2>2. T \subseteq E /\ PartialSum(h)[T] # PartialSum(f)[T]
    BY <2>1
  <2>3. /\ PartialSum(h)[T] = Adds(PartialSum(h), h, T)
        /\ PartialSum(f)[T] = Adds(PartialSum(f), f, T)
    BY <1>1, <2>2, PartialSums
  <2>4. T # {}
    BY <2>2, <2>3 DEF Adds
  <2>5. Pick(T) \in T
    BY <2>4 DEF Pick
  <2>6. IsFiniteSet(T)
    BY <1>1, <2>2, FS_Subset
  <2>7. Cardinality(T) \in Nat /\ Cardinality(T \ {Pick(T)}) = Cardinality(T) - 1
    BY <2>5, <2>6, FS_CardinalityType, FS_RemoveElement
  <2>8. T \ {Pick(T)} \notin B
    BY <2>1, <2>7
  <2>9. PartialSum(h)[T \ {Pick(T)}] = PartialSum(f)[T \ {Pick(T)}]
    BY <2>2, <2>8
  <2>10. h[Pick(T)] = f[Pick(T)]
    BY <1>1, <2>2, <2>5
  <2>11. Adds(PartialSum(h), h, T) = Adds(PartialSum(f), f, T)
    BY <2>4, <2>9, <2>10, Zenon DEF Adds
  <2> QED
    BY <2>2, <2>3, <2>11
<1>3. PartialSum(h)[E] = PartialSum(f)[E]
  BY <1>2
<1>4. SumFunction(h) = PartialSum(h)[E]
  BY <1>1, SumIsPartial
<1> QED
  BY <1>3, <1>4 DEF h

-----------------------------------------------------------------------------
(* What is used of sums                                                    *)

LEMMA SumTyped ==
  ASSUME NEW S, IsFiniteSet(S), NEW f \in [S -> Int]
  PROVE  SumFunction(f) \in Int
BY PartialSumsTyped, SumIsPartial

LEMMA SumOfNone ==
  ASSUME NEW f, DOMAIN f = {}
  PROVE  SumFunction(f) = 0
<1>1. IsFiniteSet({})
  BY FS_EmptySet
<1>2. PartialSum(f)[{}] = Adds(PartialSum(f), f, {})
  BY <1>1, PartialSums
<1> QED
  BY <1>2, SumIsPartial DEF Adds

LEMMA OverAll == ASSUME NEW S, NEW V, NEW f \in [S -> V] PROVE Over(f, S) = f
BY DEF Over

(* One element taken out of the sum.                                       *)
LEMMA SumSplit ==
  ASSUME NEW S, IsFiniteSet(S), NEW f \in [S -> Int], NEW T \in SUBSET S, NEW x \in T
  PROVE  /\ SumFunction(Over(f, T)) = f[x] + SumFunction(Over(f, T \ {x}))
         /\ SumFunction(Over(f, T \ {x})) \in Int
         /\ SumFunction(Over(f, T)) \in Int
<1>1. PartialSum(f)[T] = f[x] + PartialSum(f)[T \ {x}]
  BY AnyFirst
<1>2. SumFunction(Over(f, T)) = PartialSum(f)[T]
  BY PartOfFunction
<1>3. T \ {x} \in SUBSET DOMAIN f /\ T \in SUBSET DOMAIN f
  OBVIOUS
<1>4. SumFunction(Over(f, T \ {x})) = PartialSum(f)[T \ {x}]
  BY <1>3, PartOfFunction
<1>5. PartialSum(f)[T \ {x}] \in Int /\ PartialSum(f)[T] \in Int
  BY <1>3, PartialSumsTyped
<1> QED
  BY <1>1, <1>2, <1>4, <1>5

(* One element put into the sum.                                           *)
LEMMA SumJoin ==
  ASSUME NEW S, IsFiniteSet(S), NEW x, x \notin S,
         NEW f \in [S -> Int], NEW g \in [S \cup {x} -> Int],
         \A y \in S : g[y] = f[y]
  PROVE  SumFunction(g) = SumFunction(f) + g[x]
<1> DEFINE T == S \cup {x}
<1>1. IsFiniteSet(T) /\ x \in T /\ T \in SUBSET T
  BY FS_AddElement
<1>2. g \in [T -> Int]
  OBVIOUS
<1>3. Over(g, T) = g
  BY <1>2, OverAll
<1>4. Over(g, T \ {x}) = f
  <2>1. T \ {x} = S
    OBVIOUS
  <2>2. Over(g, S) = Over(f, S)
    BY DEF Over
  <2>3. Over(f, S) = f
    BY OverAll
  <2> QED
    BY <2>1, <2>2, <2>3
<1> HIDE DEF T
<1>5. /\ SumFunction(Over(g, T)) = g[x] + SumFunction(Over(g, T \ {x}))
      /\ SumFunction(Over(g, T \ {x})) \in Int
  BY <1>1, <1>2, SumSplit
<1>6. g[x] \in Int
  BY <1>1, <1>2
<1> QED
  BY <1>3, <1>4, <1>5, <1>6

(* One summand changed.                                                    *)
LEMMA SumChange ==
  ASSUME NEW S, IsFiniteSet(S), NEW x \in S,
         NEW f \in [S -> Int], NEW g \in [S -> Int],
         \A y \in S \ {x} : g[y] = f[y]
  PROVE  SumFunction(g) = SumFunction(f) - f[x] + g[x]
<1>1. Over(g, S \ {x}) = Over(f, S \ {x})
  BY DEF Over
<1>2. Over(f, S) = f /\ Over(g, S) = g
  BY OverAll
<1> DEFINE r == SumFunction(Over(f, S \ {x}))
<1>3. S \in SUBSET S
  OBVIOUS
<1>4. SumFunction(Over(f, S)) = f[x] + r /\ r \in Int
  BY <1>3, SumSplit
<1>5. SumFunction(Over(g, S)) = g[x] + SumFunction(Over(g, S \ {x}))
  BY <1>3, SumSplit
<1>6. f[x] \in Int /\ g[x] \in Int
  OBVIOUS
<1>7. SumFunction(g) = g[x] + r
  BY <1>1, <1>2, <1>5
<1> HIDE DEF r
<1> QED
  BY <1>2, <1>4, <1>6, <1>7

LEMMA SumNatural ==
  ASSUME NEW S, IsFiniteSet(S), NEW f \in [S -> Nat]
  PROVE  SumFunction(f) \in Nat
<1> DEFINE B == {T \in SUBSET S : SumFunction(Over(f, T)) \notin Nat}
<1>1. ASSUME B # {} PROVE FALSE
  <2>1. PICK T \in B : \A U \in B : Cardinality(T) <= Cardinality(U)
    BY <1>1, SmallestExists
  <2>2. IsFiniteSet(T)
    BY FS_Subset
  <2>3. T # {}
    <3>1. SumFunction(Over(f, {})) = 0
      BY SumOfNone DEF Over
    <3> QED
      BY <2>1, <3>1
  <2>4. PICK x \in T : TRUE
    BY <2>3
  <2>5. Cardinality(T) \in Nat /\ Cardinality(T \ {x}) = Cardinality(T) - 1
    BY <2>2, FS_CardinalityType, FS_RemoveElement
  <2>6. T \ {x} \notin B
    BY <2>1, <2>5
  <2>7. SumFunction(Over(f, T \ {x})) \in Nat
    BY <2>6
  <2>9. SumFunction(Over(f, T)) = f[x] + SumFunction(Over(f, T \ {x}))
    <3>1. f \in [S -> Int] /\ T \in SUBSET S
      OBVIOUS
    <3> QED
      BY <3>1, <2>4, SumSplit
  <2>10. f[x] \in Nat
    OBVIOUS
  <2> QED
    BY <2>1, <2>7, <2>9, <2>10
<1>2. Over(f, S) = f
  BY OverAll
<1> QED
  BY <1>1, <1>2

LEMMA SumBounds ==
  ASSUME NEW S, IsFiniteSet(S), NEW f \in [S -> Nat], NEW x \in S
  PROVE  f[x] <= SumFunction(f)
<1>1. IsFiniteSet(S \ {x}) /\ Over(f, S \ {x}) \in [S \ {x} -> Nat]
  BY FS_Subset DEF Over
<1>2. SumFunction(Over(f, S \ {x})) \in Nat
  BY <1>1, SumNatural
<1>3. f \in [S -> Int] /\ S \in SUBSET S /\ Over(f, S) = f
  BY OverAll
<1>4. SumFunction(Over(f, S)) = f[x] + SumFunction(Over(f, S \ {x}))
  BY <1>3, SumSplit
<1>5. f[x] \in Nat
  OBVIOUS
<1> QED
  BY <1>2, <1>3, <1>4, <1>5

LEMMA SumOfZeros ==
  ASSUME NEW S, IsFiniteSet(S), NEW f \in [S -> {0}]
  PROVE  SumFunction(f) = 0
<1> DEFINE B == {T \in SUBSET S : SumFunction(Over(f, T)) # 0}
<1>1. ASSUME B # {} PROVE FALSE
  <2>1. PICK T \in B : \A U \in B : Cardinality(T) <= Cardinality(U)
    BY <1>1, SmallestExists
  <2>2. IsFiniteSet(T)
    BY FS_Subset
  <2>3. T # {}
    <3>1. SumFunction(Over(f, {})) = 0
      BY SumOfNone DEF Over
    <3> QED
      BY <2>1, <3>1
  <2>4. PICK x \in T : TRUE
    BY <2>3
  <2>5. Cardinality(T) \in Nat /\ Cardinality(T \ {x}) = Cardinality(T) - 1
    BY <2>2, FS_CardinalityType, FS_RemoveElement
  <2>6. T \ {x} \notin B
    BY <2>1, <2>5
  <2>7. SumFunction(Over(f, T \ {x})) = 0
    BY <2>6
  <2>9. SumFunction(Over(f, T)) = f[x] + SumFunction(Over(f, T \ {x}))
    <3>1. f \in [S -> Int] /\ T \in SUBSET S
      OBVIOUS
    <3> QED
      BY <3>1, <2>4, SumSplit
  <2>10. f[x] = 0
    OBVIOUS
  <2> QED
    BY <2>1, <2>7, <2>9, <2>10
<1>2. Over(f, S) = f
  BY OverAll
<1> QED
  BY <1>1, <1>2

(* The sum over two sets that share nothing.                               *)
LEMMA SumUnion ==
  ASSUME NEW A, NEW C, IsFiniteSet(A), IsFiniteSet(C), A \cap C = {},
         NEW f \in [A \cup C -> Int]
  PROVE  SumFunction(f) = SumFunction(Over(f, A)) + SumFunction(Over(f, C))
<1> DEFINE SumIn(T) == SumFunction(Over(f, T))
           B == {T \in SUBSET C : SumIn(A \cup T) # SumIn(A) + SumIn(T)}
<1>1. \A T \in SUBSET C : /\ IsFiniteSet(A \cup T) /\ IsFiniteSet(T)
                          /\ Over(f, A \cup T) \in [A \cup T -> Int]
                          /\ Over(f, T) \in [T -> Int]
  BY FS_Subset, FS_Union DEF Over
<1>2. \A T \in SUBSET C : SumIn(T) \in Int /\ SumIn(A \cup T) \in Int
  BY <1>1, SumTyped
<1>3. A \cup {} = A /\ {} \in SUBSET C
  OBVIOUS
<1>4. SumIn(A) \in Int /\ SumIn({}) = 0
  BY <1>2, <1>3, SumOfNone DEF Over
<1>5. ASSUME B # {} PROVE FALSE
  <2>1. PICK T \in B : \A U \in B : Cardinality(T) <= Cardinality(U)
    BY <1>5, SmallestExists
  <2>3. T # {}
    <3>1. SumIn(A \cup {}) = SumIn(A) + SumIn({})
      BY <1>3, <1>4
    <3> QED
      BY <2>1, <3>1
  <2>4. PICK x \in T : TRUE
    BY <2>3
  <2>5. Cardinality(T) \in Nat /\ Cardinality(T \ {x}) = Cardinality(T) - 1
    BY <1>1, FS_CardinalityType, FS_RemoveElement
  <2>6. T \ {x} \notin B
    BY <2>1, <2>5
  <2>7. SumIn(A \cup (T \ {x})) = SumIn(A) + SumIn(T \ {x})
    BY <2>6
  <2>8. /\ x \in A \cup T /\ (A \cup T) \ {x} = A \cup (T \ {x})
        /\ T \in SUBSET (A \cup C) /\ A \cup T \in SUBSET (A \cup C)
        /\ IsFiniteSet(A \cup C) /\ f[x] \in Int
    <3>1. IsFiniteSet(A \cup C)
      BY FS_Union
    <3>2. T \subseteq C /\ x \in T
      OBVIOUS
    <3>3. x \notin A
      BY <3>2
    <3>4. (A \cup T) \ {x} = A \cup (T \ {x})
      BY <3>3
    <3> QED
      BY <3>1, <3>2, <3>4
  <2>10. SumIn(T) = f[x] + SumIn(T \ {x})
    BY <2>8, SumSplit
  <2>11. SumIn(A \cup T) = f[x] + SumIn(A \cup (T \ {x}))
    <3>1. SumIn(A \cup T) = f[x] + SumIn((A \cup T) \ {x})
      BY <2>8, SumSplit
    <3> QED
      BY <3>1, <2>8
  <2>12. T \ {x} \in SUBSET C /\ SumIn(A \cup T) # SumIn(A) + SumIn(T)
    BY <2>1
  <2> HIDE DEF SumIn
  <2> QED
    BY <2>7, <2>8, <2>10, <2>11, <2>12, <1>2, <1>4
<1>6. SumIn(A \cup C) = SumIn(A) + SumIn(C)
  BY <1>5
<1>7. Over(f, A \cup C) = f
  BY OverAll
<1> QED
  BY <1>6, <1>7

(* The two lemmas above, under names that are easier to match.             *)
SplitAt(f, T, x) ==
  /\ SumFunction(Over(f, T)) = f[x] + SumFunction(Over(f, T \ {x}))
  /\ SumFunction(Over(f, T \ {x})) \in Int

InTwo(f, A, C) == SumFunction(f) = SumFunction(Over(f, A)) + SumFunction(Over(f, C))

LEMMA SumSplits ==
  ASSUME NEW S, IsFiniteSet(S), NEW f \in [S -> Int], NEW T \in SUBSET S, NEW x \in T
  PROVE  SplitAt(f, T, x)
BY SumSplit DEF SplitAt

LEMMA SumOfTwo ==
  ASSUME NEW A, NEW C, IsFiniteSet(A), IsFiniteSet(C), A \cap C = {},
         NEW f \in [A \cup C -> Int]
  PROVE  InTwo(f, A, C)
BY SumUnion DEF InTwo

(* Induction over a finite set, with a set in the place of a predicate.    *)
LEMMA GrowingSets ==
  ASSUME NEW D, IsFiniteSet(D), NEW G, {} \in G,
         \A T \in SUBSET D : \A x \in T : T \ {x} \in G => T \in G
  PROVE  D \in G
<1> DEFINE B == {T \in SUBSET D : T \notin G}
<1>1. ASSUME B # {} PROVE FALSE
  <2>1. PICK T \in B : \A U \in B : Cardinality(T) <= Cardinality(U)
    BY <1>1, SmallestExists
  <2>2. IsFiniteSet(T) /\ T \subseteq D /\ T \notin G
    BY FS_Subset
  <2>3. PICK x \in T : TRUE
    BY <2>2
  <2>4. Cardinality(T) \in Nat /\ Cardinality(T \ {x}) = Cardinality(T) - 1
    BY <2>2, FS_CardinalityType, FS_RemoveElement
  <2>5. T \ {x} \notin B
    BY <2>1, <2>4
  <2> QED
    BY <2>2, <2>5
<1> QED
  BY <1>1

(* Sums are added term by term.                                            *)
LEMMA SumPlus ==
  ASSUME NEW S, IsFiniteSet(S), NEW f \in [S -> Int], NEW g \in [S -> Int],
         NEW h \in [S -> Int], \A x \in S : h[x] = f[x] + g[x]
  PROVE  SumFunction(h) = SumFunction(f) + SumFunction(g)
<1> DEFINE Holds(T) == SumFunction(Over(h, T)) = SumFunction(Over(f, T)) + SumFunction(Over(g, T))
           G == {T \in SUBSET S : Holds(T)}
<1>1. {} \in G
  BY SumOfNone DEF Over
<1>2. ASSUME NEW T \in SUBSET S, NEW x \in T, T \ {x} \in G
      PROVE  T \in G
  <2>1. SplitAt(f, T, x) /\ SplitAt(g, T, x) /\ SplitAt(h, T, x)
    BY SumSplits
  <2>4. x \in S /\ f[x] \in Int /\ g[x] \in Int
    OBVIOUS
  <2>5. Holds(T \ {x})
    BY <1>2
  <2>6. Holds(T)
    BY <2>1, <2>4, <2>5 DEF SplitAt
  <2> QED
    BY <2>6
<1> HIDE DEF G
<1>3. S \in G
  BY <1>1, <1>2, GrowingSets
<1>4. Holds(S)
  BY <1>3 DEF G
<1>5. Over(f, S) = f /\ Over(g, S) = g /\ Over(h, S) = h
  BY OverAll
<1> QED
  BY <1>4, <1>5

(* Summed class by class.                                                  *)
ClassOf(k, S, c) == {x \in S : k[x] = c}

LEMMA SumByClass ==
  ASSUME NEW C, IsFiniteSet(C), NEW S, IsFiniteSet(S), NEW f \in [S -> Int],
         NEW k \in [S -> C]
  PROVE  SumFunction(f) = SumFunction([c \in C |-> SumFunction(Over(f, ClassOf(k, S, c)))])
<1> DEFINE inner == [c \in C |-> SumFunction(Over(f, ClassOf(k, S, c)))]
           In(T) == {x \in S : k[x] \in T}
           Holds(T) == SumFunction(Over(f, In(T))) = SumFunction(Over(inner, T))
           G == {T \in SUBSET C : Holds(T)}
<1>1. \A T : /\ In(T) \in SUBSET S /\ IsFiniteSet(In(T)) /\ Over(f, In(T)) \in [In(T) -> Int]
  <2>1. \A T : In(T) \in SUBSET S /\ Over(f, In(T)) \in [In(T) -> Int]
    BY DEF Over
  <2> QED
    BY <2>1, FS_Subset
<1>2. \A c : /\ ClassOf(k, S, c) \in SUBSET S /\ IsFiniteSet(ClassOf(k, S, c))
             /\ Over(f, ClassOf(k, S, c)) \in [ClassOf(k, S, c) -> Int]
  <2>1. \A c : /\ ClassOf(k, S, c) \in SUBSET S
               /\ Over(f, ClassOf(k, S, c)) \in [ClassOf(k, S, c) -> Int]
    BY DEF Over, ClassOf
  <2> QED
    BY <2>1, FS_Subset
<1>3. inner \in [C -> Int]
  BY <1>2, SumTyped
<1>4. {} \in G
  <2>1. DOMAIN Over(f, In({})) = {} /\ DOMAIN Over(inner, {}) = {}
    BY DEF Over
  <2>2. SumFunction(Over(f, In({}))) = 0 /\ SumFunction(Over(inner, {})) = 0
    BY <2>1, SumOfNone
  <2> QED
    BY <2>2
<1>5. ASSUME NEW T \in SUBSET C, NEW c \in T, T \ {c} \in G
      PROVE  T \in G
  <2> DEFINE A == ClassOf(k, S, c)
             R == In(T \ {c})
             w == Over(f, In(T))
  <2>1. In(T) = A \cup R /\ A \cap R = {}
    BY DEF ClassOf
  <2>2. Over(w, A) = Over(f, A) /\ Over(w, R) = Over(f, R)
    BY <2>1 DEF Over
  <2>3. IsFiniteSet(A) /\ IsFiniteSet(R) /\ w \in [A \cup R -> Int]
    BY <1>1, <1>2, <2>1
  <2>4. SumFunction(w) = SumFunction(Over(f, A)) + SumFunction(Over(f, R))
    <3>1. InTwo(w, A, R)
      <4> HIDE DEF A, R, w, In
      <4> QED
        BY <2>1, <2>3, SumOfTwo
    <3> QED
      BY <2>2, <3>1 DEF InTwo
  <2>5. SumFunction(Over(inner, T)) = inner[c] + SumFunction(Over(inner, T \ {c}))
    <3> HIDE DEF inner
    <3> QED
      BY <1>3, SumSplit
  <2>6. inner[c] = SumFunction(Over(f, A))
    OBVIOUS
  <2>7. Holds(T \ {c})
    BY <1>5
  <2> HIDE DEF A, inner
  <2>8. Holds(T)
    BY <2>4, <2>5, <2>6, <2>7
  <2> QED
    BY <2>8
<1>6. C \in G
  <2> HIDE DEF G
  <2> QED
    BY <1>4, <1>5, GrowingSets
<1>7. Holds(C)
  BY <1>6
<1>8. In(C) = S /\ Over(f, S) = f /\ Over(inner, C) = inner
  BY <1>3, OverAll
<1> QED
  BY <1>7, <1>8

(* The members of a set are counted by a sum.                              *)
LEMMA CountIsSum ==
  ASSUME NEW S, IsFiniteSet(S), NEW T \in SUBSET S
  PROVE  SumFunction([x \in S |-> IF x \in T THEN 1 ELSE 0]) = Cardinality(T)
<1> DEFINE f == [x \in S |-> IF x \in T THEN 1 ELSE 0]
           Holds(U) == SumFunction(Over(f, U)) = Cardinality(U \cap T)
           G == {U \in SUBSET S : Holds(U)}
<1>1. f \in [S -> Int] /\ \A x \in S : f[x] = IF x \in T THEN 1 ELSE 0
  OBVIOUS
<1> HIDE DEF f
<1>2. {} \in G
  BY SumOfNone, FS_EmptySet DEF Over
<1>3. ASSUME NEW U \in SUBSET S, NEW x \in U, U \ {x} \in G PROVE U \in G
  <2>1. SplitAt(f, U, x) /\ Holds(U \ {x})
    BY <1>1, <1>3, SumSplits
  <2>2. IsFiniteSet(U \cap T)
    BY FS_Subset
  <2>3. (U \ {x}) \cap T = (U \cap T) \ {x}
    OBVIOUS
  <2>4. /\ Cardinality(U \cap T) \in Nat
        /\ Cardinality((U \cap T) \ {x}) =
             IF x \in U \cap T THEN Cardinality(U \cap T) - 1 ELSE Cardinality(U \cap T)
    BY <2>2, FS_CardinalityType, FS_RemoveElement
  <2>5. SumFunction(Over(f, U)) = f[x] + Cardinality((U \cap T) \ {x})
    BY <2>1, <2>3 DEF SplitAt
  <2>6. f[x] = IF x \in U \cap T THEN 1 ELSE 0
    BY <1>1
  <2> QED
    BY <2>4, <2>5, <2>6
<1> HIDE DEF G
<1>4. S \in G
  BY <1>2, <1>3, GrowingSets
<1>5. Holds(S)
  BY <1>4 DEF G
<1>6. Over(f, S) = f /\ S \cap T = T
  BY <1>1, OverAll
<1> QED
  BY <1>5, <1>6 DEF f

(* What is nothing outside of a part is summed over the part.              *)
LEMMA SumOfPart ==
  ASSUME NEW S, IsFiniteSet(S), NEW f \in [S -> Int], NEW T \in SUBSET S,
         \A x \in S \ T : f[x] = 0
  PROVE  SumFunction(f) = SumFunction(Over(f, T))
<1>1. IsFiniteSet(T) /\ IsFiniteSet(S \ T) /\ T \cup (S \ T) = S
  BY FS_Subset
<1>2. InTwo(f, T, S \ T)
  BY <1>1, SumOfTwo
<1>3. Over(f, S \ T) \in [S \ T -> {0}]
  BY DEF Over
<1>4. SumFunction(Over(f, S \ T)) = 0
  BY <1>1, <1>3, SumOfZeros
<1>5. Over(f, T) \in [T -> Int]
  BY DEF Over
<1>6. SumFunction(Over(f, T)) \in Int
  BY <1>1, <1>5, SumTyped
<1> QED
  BY <1>2, <1>4, <1>6 DEF InTwo

KeysOf(k, S) == {k[x] : x \in S}

LEMMA KeysFinite ==
  ASSUME NEW S, IsFiniteSet(S), NEW k, DOMAIN k = S, k = [x \in S |-> k[x]]
  PROVE  IsFiniteSet(KeysOf(k, S)) /\ k \in [S -> KeysOf(k, S)]
<1>1. k \in Surjection(S, KeysOf(k, S))
  BY DEF KeysOf, Surjection
<1> QED
  BY <1>1, FS_Surjection DEF Surjection

(* The groups of a set by a key: the sums of the groups add up to the sum, *)
(* and what is counted in each to the count.                               *)
LEMMA GroupsSum ==
  ASSUME NEW S, IsFiniteSet(S), NEW f \in [S -> Int], NEW k, DOMAIN k = S, k = [x \in S |-> k[x]]
  PROVE  SumFunction([v \in KeysOf(k, S) |-> SumFunction([x \in ClassOf(k, S, v) |-> f[x]])])
           = SumFunction(f)
<1>1. IsFiniteSet(KeysOf(k, S)) /\ k \in [S -> KeysOf(k, S)]
  BY KeysFinite
<1> QED
  BY <1>1, SumByClass DEF Over

LEMMA GroupsCount ==
  ASSUME NEW S, IsFiniteSet(S), NEW T \in SUBSET S, NEW k, DOMAIN k = S, k = [x \in S |-> k[x]]
  PROVE  SumFunction([v \in KeysOf(k, S) |-> Cardinality({x \in ClassOf(k, S, v) : x \in T})])
           = Cardinality(T)
<1> DEFINE f == [x \in S |-> IF x \in T THEN 1 ELSE 0]
           counts == [v \in KeysOf(k, S) |-> Cardinality({x \in ClassOf(k, S, v) : x \in T})]
           sums == [v \in KeysOf(k, S) |-> SumFunction([x \in ClassOf(k, S, v) |-> f[x]])]
<1>1. f \in [S -> Int] /\ SumFunction(f) = Cardinality(T)
  BY CountIsSum
<1>2. ASSUME NEW v \in KeysOf(k, S) PROVE counts[v] = sums[v]
  <2>1. PICK U : U = ClassOf(k, S, v)
    OBVIOUS
  <2>2. U \in SUBSET S /\ IsFiniteSet(U)
    BY <2>1, FS_Subset DEF ClassOf
  <2>3. PICK W \in SUBSET U : W = {x \in U : x \in T}
    OBVIOUS
  <2>4. SumFunction([x \in U |-> IF x \in W THEN 1 ELSE 0]) = Cardinality(W)
    BY <2>2, CountIsSum
  <2>5. [x \in U |-> f[x]] = [x \in U |-> IF x \in W THEN 1 ELSE 0]
    BY <2>2, <2>3
  <2> QED
    BY <2>1, <2>3, <2>4, <2>5
<1> HIDE DEF f
<1>3. SumFunction(sums) = SumFunction(f)
  BY <1>1, GroupsSum
<1>4. counts = sums
  BY <1>2
<1> QED
  BY <1>1, <1>3, <1>4

===============================================================================
