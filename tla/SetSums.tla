------------------------------ MODULE SetSums ------------------------------
(***************************************************************************)
(* Sums over finite sets, for the properties that count units: the stock   *)
(* ledger and the quantities of a cart.                                    *)
(*                                                                         *)
(* SumFunctionOnSet takes the elements of its set out one by one, in an    *)
(* order it chooses.  The lemmas say that the order does not matter and    *)
(* what adding or taking out an element does.  Induction is by a smallest  *)
(* counterexample.                                                         *)
(***************************************************************************)
EXTENDS Integers, FiniteSetsExt, FiniteSetTheorems, WellFoundedInduction, TLAPS

\* A set of natural numbers that is not empty has a least element.
LEMMA LeastNumber ==
  ASSUME NEW T, T \subseteq Nat, T # {}
  PROVE  \E m \in T : \A k \in T : m <= k
<1>1. \E x \in T : \A y \in T : ~ (<<y, x>> \in OpToRel(<, Nat))
  BY NatLessThanWellFounded, WFMin
<1>2. PICK x \in T : \A y \in T : ~ (<<y, x>> \in OpToRel(<, Nat))
  BY <1>1
<1>3. \A y \in T : y \in Nat /\ x \in Nat /\ ~(y < x)
  BY <1>2 DEF OpToRel
<1> QED
  BY <1>3

\* g has the sum of f over every subset of S, whatever element is taken first.
IsTotal(g, f, S) ==
  /\ g \in [SUBSET S -> Int]
  /\ g[{}] = 0
  /\ \A T \in SUBSET S : \A x \in T : g[T] = f[x] + g[T \ {x}]

\* One element more.
LEMMA TotalExtends ==
  ASSUME NEW f, NEW S, NEW a \in S, f[a] \in Int, \A x \in S : f[x] \in Int,
         NEW g, IsTotal(g, f, S \ {a})
  PROVE  \E h : IsTotal(h, f, S)
<1> DEFINE h == [T \in SUBSET S |-> IF a \in T THEN f[a] + g[T \ {a}] ELSE g[T]]
<1>1. \A T \in SUBSET (S \ {a}) : g[T] \in Int
  BY DEF IsTotal
<1>2. \A T \in SUBSET S : T \ {a} \in SUBSET (S \ {a}) /\ (a \notin T => T \in SUBSET (S \ {a}))
  OBVIOUS
<1>3. h \in [SUBSET S -> Int]
  BY <1>1, <1>2
<1>4. h[{}] = 0
  BY DEF IsTotal
<1>5. ASSUME NEW T \in SUBSET S, NEW x \in T
      PROVE  h[T] = f[x] + h[T \ {x}]
  <2>0. T \ {x} \in SUBSET S /\ x \in S
    OBVIOUS
  <2>1. CASE x = a
    <3>1. h[T] = f[a] + g[T \ {a}] /\ h[T \ {a}] = g[T \ {a}]
      BY <2>0, <2>1
    <3> QED
      BY <2>1, <3>1
  <2>2. CASE x # a /\ a \in T
    <3>1. h[T] = f[a] + g[T \ {a}] /\ h[T \ {x}] = f[a] + g[(T \ {x}) \ {a}]
      BY <2>0, <2>2
    <3>2. g[T \ {a}] = f[x] + g[(T \ {a}) \ {x}]
      BY <1>2, <2>2 DEF IsTotal
    <3>3. (T \ {x}) \ {a} = (T \ {a}) \ {x} /\ (T \ {a}) \ {x} \in SUBSET (S \ {a})
      OBVIOUS
    <3>4. g[(T \ {a}) \ {x}] \in Int /\ f[x] \in Int
      BY <1>1, <2>0, <3>3
    <3> DEFINE k == g[(T \ {a}) \ {x}]
    <3>5. h[T] = f[a] + (f[x] + k) /\ h[T \ {x}] = f[a] + k
      BY <3>1, <3>2, <3>3
    <3>6. k \in Int /\ f[x] \in Int /\ f[a] \in Int
      BY <3>4
    <3> HIDE DEF h, k
    <3>7. f[a] + (f[x] + k) = f[x] + (f[a] + k)
      BY <3>6
    <3> QED
      BY <3>5, <3>7
  <2>3. CASE a \notin T
    <3>1. h[T] = g[T] /\ h[T \ {x}] = g[T \ {x}]
      BY <2>0, <2>3
    <3>2. g[T] = f[x] + g[T \ {x}]
      BY <1>2, <2>3 DEF IsTotal
    <3> QED
      BY <3>1, <3>2
  <2> QED
    BY <2>1, <2>2, <2>3
<1> HIDE DEF h
<1> QED
  BY <1>3, <1>4, <1>5 DEF IsTotal

\* There are such totals for every finite set.
LEMMA TotalExists ==
  ASSUME NEW f, NEW S, IsFiniteSet(S), \A x \in S : f[x] \in Int
  PROVE  \E g : IsTotal(g, f, S)
<1> DEFINE Bad == {k \in Nat : \E T \in SUBSET S : Cardinality(T) = k /\ ~\E g : IsTotal(g, f, T)}
<1>1. \A T \in SUBSET S : IsFiniteSet(T) /\ Cardinality(T) \in Nat
  BY FS_Subset, FS_CardinalityType
<1>2. SUFFICES ASSUME Bad # {}
               PROVE  FALSE
  BY <1>1
<1>3. PICK m \in Bad : \A k \in Bad : m <= k
  BY <1>2, LeastNumber
<1>4. PICK T \in SUBSET S : Cardinality(T) = m /\ ~\E g : IsTotal(g, f, T)
  BY <1>3
<1>5. CASE T = {}
  <2>1. IsTotal([U \in SUBSET {} |-> 0], f, {})
    BY DEF IsTotal
  <2> QED
    BY <1>4, <1>5, <2>1
<1>6. CASE T # {}
  <2>1. PICK a \in T : TRUE
    BY <1>6
  <2>2. T \ {a} \in SUBSET S /\ Cardinality(T \ {a}) = m - 1 /\ m \in Nat
    BY <1>1, <1>3, <1>4, FS_RemoveElement
  <2>3. m - 1 \in Nat
    BY <1>1, <2>2
  <2>4. m - 1 \notin Bad
    BY <1>3, <2>2
  <2>5. \E g : IsTotal(g, f, T \ {a})
    BY <2>2, <2>3, <2>4
  <2> QED
    BY <1>4, <2>5, TotalExtends
<1> QED
  BY <1>5, <1>6

\* The recursion of SumFunctionOnSet.
Recursion(g, f, S) ==
  g = [s \in SUBSET S |->
         IF s = {} THEN 0
         ELSE f[CHOOSE x \in s : TRUE] + g[s \ {CHOOSE x \in s : TRUE}]]

\* The sum is the total.
LEMMA SumIsTotal ==
  ASSUME NEW f, NEW S, IsFiniteSet(S), \A x \in S : f[x] \in Int, NEW G, IsTotal(G, f, S)
  PROVE  SumFunctionOnSet(f, S) = G[S]
<1> DEFINE c == CHOOSE g : Recursion(g, f, S)
<1>1. SumFunctionOnSet(f, S) = c[S]
  BY DEF SumFunctionOnSet, FoldFunctionOnSet, MapThenFoldSet, Recursion
<1>2. Recursion(G, f, S)
  <2>1. \A s \in SUBSET S : s # {} => (CHOOSE x \in s : TRUE) \in s
    OBVIOUS
  <2>2. \A s \in SUBSET S :
          G[s] = IF s = {} THEN 0 ELSE f[CHOOSE x \in s : TRUE] + G[s \ {CHOOSE x \in s : TRUE}]
    BY <2>1 DEF IsTotal
  <2> QED
    BY <2>2 DEF IsTotal, Recursion
<1>3. Recursion(c, f, S)
  BY <1>2
<1> DEFINE Bad == {k \in Nat : \E T \in SUBSET S : Cardinality(T) = k /\ c[T] # G[T]}
<1>4. \A T \in SUBSET S : IsFiniteSet(T) /\ Cardinality(T) \in Nat
  BY FS_Subset, FS_CardinalityType
<1>5. Bad = {}
  <2>1. SUFFICES ASSUME Bad # {}
                 PROVE  FALSE
    OBVIOUS
  <2>2. PICK m \in Bad : \A k \in Bad : m <= k
    BY <2>1, LeastNumber
  <2>3. PICK T \in SUBSET S : Cardinality(T) = m /\ c[T] # G[T]
    BY <2>2
  <2> DEFINE a == CHOOSE x \in T : TRUE
  <2>4. c[T] = IF T = {} THEN 0 ELSE f[a] + c[T \ {a}]
    BY <1>3 DEF Recursion
  <2>5. T # {}
    BY <2>3, <2>4 DEF IsTotal
  <2>6. a \in T
    BY <2>5
  <2> HIDE DEF a, c
  <2>7. T \ {a} \in SUBSET S /\ Cardinality(T \ {a}) = m - 1 /\ m \in Nat
    BY <1>4, <2>2, <2>3, <2>6, FS_RemoveElement
  <2>8. m - 1 \in Nat
    BY <1>4, <2>7
  <2>9. c[T \ {a}] = G[T \ {a}]
    BY <2>2, <2>7, <2>8
  <2>10. G[T] = f[a] + G[T \ {a}]
    BY <2>6 DEF IsTotal
  <2> QED
    BY <2>3, <2>4, <2>5, <2>9, <2>10
<1> HIDE DEF c
<1>6. c[S] = G[S]
  BY <1>4, <1>5
<1> QED
  BY <1>1, <1>6

\* A sum of integers is an integer.
LEMMA SumType ==
  ASSUME NEW f, NEW S, IsFiniteSet(S), \A x \in S : f[x] \in Int
  PROVE  SumFunctionOnSet(f, S) \in Int
<1>1. PICK G : IsTotal(G, f, S)
  BY TotalExists
<1>2. SumFunctionOnSet(f, S) = G[S]
  BY <1>1, SumIsTotal
<1>3. G[S] \in Int
  BY <1>1 DEF IsTotal
<1> QED
  BY <1>2, <1>3

\* The sum over nothing.
LEMMA SumEmpty ==
  ASSUME NEW f
  PROVE  SumFunctionOnSet(f, {}) = 0
<1>1. IsFiniteSet({}) /\ \A x \in {} : f[x] \in Int
  BY FS_EmptySet
<1>2. PICK G : IsTotal(G, f, {})
  BY <1>1, TotalExists
<1>3. SumFunctionOnSet(f, {}) = G[{}]
  BY <1>1, <1>2, SumIsTotal
<1> QED
  BY <1>2, <1>3 DEF IsTotal

\* Any element may be taken out first.
LEMMA SumRemove ==
  ASSUME NEW f, NEW S, IsFiniteSet(S), \A x \in S : f[x] \in Int, NEW a \in S
  PROVE  SumFunctionOnSet(f, S) = f[a] + SumFunctionOnSet(f, S \ {a})
<1>1. PICK G : IsTotal(G, f, S)
  BY TotalExists
<1>2. SumFunctionOnSet(f, S) = G[S]
  BY <1>1, SumIsTotal
<1> DEFINE H == [T \in SUBSET (S \ {a}) |-> G[T]]
<1>3. IsTotal(H, f, S \ {a})
  <2>1. \A T \in SUBSET (S \ {a}) : T \in SUBSET S /\ H[T] = G[T] /\ G[T] \in Int
    BY <1>1 DEF IsTotal
  <2>2. H[{}] = 0
    BY <1>1, <2>1 DEF IsTotal
  <2>3. H \in [SUBSET (S \ {a}) -> Int]
    BY <2>1
  <2>4. ASSUME NEW T \in SUBSET (S \ {a}), NEW x \in T
        PROVE  H[T] = f[x] + H[T \ {x}]
    <3>1. T \ {x} \in SUBSET (S \ {a})
      OBVIOUS
    <3>2. G[T] = f[x] + G[T \ {x}]
      BY <1>1, <2>1 DEF IsTotal
    <3> QED
      BY <2>1, <3>1, <3>2
  <2> HIDE DEF H
  <2> QED
    BY <2>2, <2>3, <2>4 DEF IsTotal
<1>4. H[S \ {a}] = G[S \ {a}]
  OBVIOUS
<1> HIDE DEF H
<1>5. IsFiniteSet(S \ {a}) /\ \A x \in S \ {a} : f[x] \in Int
  BY FS_RemoveElement
<1>6. SumFunctionOnSet(f, S \ {a}) = H[S \ {a}]
  BY <1>3, <1>5, SumIsTotal
<1>7. G[S] = f[a] + G[S \ {a}]
  BY <1>1 DEF IsTotal
<1> QED
  BY <1>2, <1>4, <1>6, <1>7

\* A new element adds its value.
LEMMA SumAdd ==
  ASSUME NEW f, NEW S, IsFiniteSet(S), \A x \in S : f[x] \in Int, NEW a, a \notin S, f[a] \in Int
  PROVE  SumFunctionOnSet(f, S \cup {a}) = f[a] + SumFunctionOnSet(f, S)
<1>1. IsFiniteSet(S \cup {a}) /\ \A x \in S \cup {a} : f[x] \in Int
  BY FS_AddElement
<1>2. (S \cup {a}) \ {a} = S
  OBVIOUS
<1>3. SumFunctionOnSet(f, S \cup {a}) = f[a] + SumFunctionOnSet(f, (S \cup {a}) \ {a})
  BY <1>1, SumRemove
<1> QED
  BY <1>2, <1>3

\* Only the values on the set count.
LEMMA SumAgrees ==
  ASSUME NEW f, NEW g, NEW S, IsFiniteSet(S), \A x \in S : f[x] \in Int /\ g[x] = f[x]
  PROVE  SumFunctionOnSet(g, S) = SumFunctionOnSet(f, S)
<1>1. PICK G : IsTotal(G, f, S)
  BY TotalExists
<1>2. SumFunctionOnSet(f, S) = G[S]
  BY <1>1, SumIsTotal
<1>3. IsTotal(G, g, S)
  BY <1>1 DEF IsTotal
<1>4. \A x \in S : g[x] \in Int
  OBVIOUS
<1>5. SumFunctionOnSet(g, S) = G[S]
  BY <1>3, <1>4, SumIsTotal
<1> QED
  BY <1>2, <1>5

\* A sum of values that are not negative does not shrink with its set.
LEMMA SumMonotone ==
  ASSUME NEW f, NEW S, IsFiniteSet(S), \A x \in S : f[x] \in Nat, NEW T \in SUBSET S
  PROVE  SumFunctionOnSet(f, T) <= SumFunctionOnSet(f, S)
<1> DEFINE Sum(U) == SumFunctionOnSet(f, U)
<1> DEFINE Bad == {k \in Nat : \E U \in SUBSET S : Cardinality(S \ U) = k /\ ~(Sum(U) <= Sum(S))}
<1>1. \A U \in SUBSET S :
        /\ IsFiniteSet(U) /\ IsFiniteSet(S \ U) /\ Cardinality(S \ U) \in Nat
        /\ \A x \in U : f[x] \in Int
  BY FS_Subset, FS_CardinalityType
<1>2. \A U \in SUBSET S : Sum(U) \in Int
  BY <1>1, SumType
<1>3. Bad = {}
  <2>1. SUFFICES ASSUME Bad # {}
                 PROVE  FALSE
    OBVIOUS
  <2>2. PICK m \in Bad : \A k \in Bad : m <= k
    BY <2>1, LeastNumber
  <2>3. PICK U \in SUBSET S : Cardinality(S \ U) = m /\ ~(Sum(U) <= Sum(S))
    BY <2>2
  <2>4. U # S
    <3>1. Sum(S) \in Int
      BY <1>2
    <3> HIDE DEF Sum
    <3>2. Sum(S) <= Sum(S)
      BY <3>1
    <3> QED
      BY <2>3, <3>2
  <2>5. PICK a \in S \ U : TRUE
    BY <2>4
  <2>6. U \cup {a} \in SUBSET S /\ S \ (U \cup {a}) = (S \ U) \ {a}
    OBVIOUS
  <2>7. Cardinality((S \ U) \ {a}) = m - 1 /\ m \in Nat
    BY <1>1, <2>2, <2>3, FS_RemoveElement
  <2>8. m - 1 \in Nat
    BY <1>1, <2>6, <2>7
  <2>9. Sum(U \cup {a}) <= Sum(S)
    <3>1. m - 1 \notin Bad
      <4> HIDE DEF Bad
      <4> QED
        BY <2>2, <2>7, <2>8
    <3>2. Cardinality(S \ (U \cup {a})) = m - 1
      BY <2>6, <2>7
    <3> HIDE DEF Sum
    <3> QED
      BY <2>6, <2>8, <3>1, <3>2
  <2>10. Sum(U \cup {a}) = f[a] + Sum(U)
    BY <1>1, SumAdd
  <2>11. f[a] \in Nat /\ Sum(U) \in Int /\ Sum(S) \in Int
    BY <1>2
  <2> HIDE DEF Sum
  <2> QED
    BY <2>3, <2>9, <2>10, <2>11
<1> QED
  BY <1>1, <1>3

\* A set of numbers below a bound has a largest one.
LEMMA MaxIsLargest ==
  ASSUME NEW S \in SUBSET Nat, S # {}, NEW b \in Nat, \A y \in S : y <= b
  PROVE  Max(S) \in S /\ \A y \in S : y <= Max(S)
<1> DEFINE B == {n \in Nat : \A y \in S : y <= n}
<1>1. PICK m \in B : \A k \in B : m <= k
  <2>1. b \in B /\ B \subseteq Nat
    OBVIOUS
  <2> HIDE DEF B
  <2> QED
    BY <2>1, LeastNumber
<1>2. m \in S
  <2>1. SUFFICES ASSUME m \notin S
                 PROVE  FALSE
    OBVIOUS
  <2>2. \A y \in S : y \in Nat /\ y <= m /\ y # m
    BY <1>1, <2>1
  <2>3. m \in Nat /\ m # 0
    <3>1. PICK y \in S : TRUE
      OBVIOUS
    <3>2. y \in Nat /\ y <= m /\ y # m /\ m \in Nat
      BY <1>1, <2>2, <3>1
    <3> QED
      BY <3>2
  <2>4. m - 1 \in Nat /\ \A y \in S : y <= m - 1
    BY <2>2, <2>3
  <2>5. m - 1 \in B
    BY <2>4
  <2> QED
    BY <1>1, <2>3, <2>5
<1>3. \A y \in S : m >= y
  BY <1>1
<1>4. \E x \in S : \A y \in S : x >= y
  BY <1>2, <1>3
<1>5. Max(S) \in S /\ \A y \in S : Max(S) >= y
  BY <1>4 DEF Max
<1> QED
  BY <1>5
=============================================================================
