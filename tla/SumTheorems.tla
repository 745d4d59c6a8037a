----------------------------- MODULE SumTheorems -----------------------------
(***************************************************************************)
(* What a sum is: facts about SumFunctionOnSet and SumFunction of module   *)
(* Functions, with which stocks, ledgers and amounts are added up.         *)
(*                                                                         *)
(* The library's induction theorems have an operator as parameter. Here a  *)
(* claim about all subsets of a finite set is proved from a least          *)
(* counterexample, a set like any other, so no operator is instantiated:   *)
(* first that the recursive function a fold is made of exists and is the   *)
(* only one, then the laws of sums.                                        *)
(***************************************************************************)
EXTENDS Integers, FiniteSets, Functions, FiniteSetTheorems, TLAPS

\* Of the subsets of a finite set that are counterexamples, one is minimal.
LEMMA LeastSubset ==
  ASSUME NEW S, IsFiniteSet(S), NEW X, X \subseteq SUBSET S, X # {}
  PROVE  \E T \in X : \A U \in X : U \subseteq T => U = T
<1>1. IsWellFoundedOn(StrictSubsetOrdering(S), FiniteSubsetsOf(S))
  BY FS_StrictSubsetOrderingWellFounded
<1>2. FiniteSubsetsOf(S) = SUBSET S
  BY FS_FiniteSubsetsOfFinite
<1>3. PICK T \in X : \A U \in X : <<U, T>> \notin StrictSubsetOrdering(S)
  BY <1>1, <1>2, WFMin
<1>4. \A U \in X : U \subseteq T => U = T
  BY <1>3 DEF StrictSubsetOrdering
<1> QED  BY <1>4

LEMMA SmallerIsFinite ==
  ASSUME NEW S, IsFiniteSet(S), NEW T, T \subseteq S
  PROVE  IsFiniteSet(T)
BY FS_Subset

-------------------------------------------------------------------------------
(* The function a sum is a value of *)

Pick(s) == CHOOSE x \in s : TRUE

\* g gives each subset of D the sum of f over it.
Sums(g, f, D) ==
  g = [s \in SUBSET D |-> IF s = {} THEN 0 ELSE f[Pick(s)] + g[s \ {Pick(s)}]]

LEMMA PickIsIn == \A s : s # {} => Pick(s) \in s
BY DEF Pick

LEMMA SumIsValue ==
  ASSUME NEW f, NEW D
  PROVE  SumFunctionOnSet(f, D) = (CHOOSE g : Sums(g, f, D))[D]
BY DEF SumFunctionOnSet, FoldFunctionOnSet, MapThenFoldSet, Sums, Pick

LEMMA SumsUnfold ==
  ASSUME NEW f, NEW D, NEW g, Sums(g, f, D), NEW s \in SUBSET D
  PROVE  g[s] = IF s = {} THEN 0 ELSE f[Pick(s)] + g[s \ {Pick(s)}]
<1> DEFINE G(h) == [t \in SUBSET D |-> IF t = {} THEN 0 ELSE f[Pick(t)] + h[t \ {Pick(t)}]]
<1>1. g = G(g)
  BY DEF Sums
<1>2. G(g)[s] = IF s = {} THEN 0 ELSE f[Pick(s)] + g[s \ {Pick(s)}]
  OBVIOUS
<1> QED  BY <1>1, <1>2

LEMMA SumsUnique ==
  ASSUME NEW f, NEW D, IsFiniteSet(D), NEW g, NEW h, Sums(g, f, D), Sums(h, f, D)
  PROVE  g = h
<1> DEFINE X == {s \in SUBSET D : g[s] # h[s]}
<1>1. SUFFICES ASSUME X # {} PROVE FALSE
  BY DEF Sums
<1>2. PICK T \in X : \A U \in X : U \subseteq T => U = T
  <2>1. X \subseteq SUBSET D
    OBVIOUS
  <2> HIDE DEF X
  <2> QED  BY <1>1, <2>1, LeastSubset
<1>3. g[T] = IF T = {} THEN 0 ELSE f[Pick(T)] + g[T \ {Pick(T)}]
  BY SumsUnfold
<1>4. h[T] = IF T = {} THEN 0 ELSE f[Pick(T)] + h[T \ {Pick(T)}]
  BY SumsUnfold
<1>5. T # {}
  BY <1>2, <1>3, <1>4
<1>6. T \ {Pick(T)} \subseteq T /\ T \ {Pick(T)} # T
  BY <1>5, PickIsIn
<1>7. T \ {Pick(T)} \in SUBSET D /\ T \ {Pick(T)} \notin X
  BY <1>2, <1>6
<1> QED  BY <1>2, <1>3, <1>4, <1>5, <1>7

LEMMA SumsRestrict ==
  ASSUME NEW f, NEW D, NEW g, Sums(g, f, D), NEW E, E \subseteq D
  PROVE  Sums([s \in SUBSET E |-> g[s]], f, E)
<1> DEFINE h == [s \in SUBSET E |-> g[s]]
<1>1. ASSUME NEW s \in SUBSET E
      PROVE  h[s] = IF s = {} THEN 0 ELSE f[Pick(s)] + h[s \ {Pick(s)}]
  <2>1. g[s] = IF s = {} THEN 0 ELSE f[Pick(s)] + g[s \ {Pick(s)}]
    BY SumsUnfold
  <2>2. h[s] = g[s] /\ h[s \ {Pick(s)}] = g[s \ {Pick(s)}]
    OBVIOUS
  <2> QED  BY <2>1, <2>2
<1>2. h = [s \in SUBSET E |-> h[s]]
  OBVIOUS
<1> HIDE DEF h
<1>3. h = [s \in SUBSET E |-> IF s = {} THEN 0 ELSE f[Pick(s)] + h[s \ {Pick(s)}]]
  BY <1>1, <1>2
<1> QED  BY <1>3 DEF Sums, h

\* Where there is such a function, the sum over a set follows from the sum
\* over the set without the element picked.
LEMMA SumUnfoldsIf ==
  ASSUME NEW f, NEW D, IsFiniteSet(D), D # {},
         \A E \in SUBSET D : \E g : Sums(g, f, E)
  PROVE  SumFunctionOnSet(f, D) = f[Pick(D)] + SumFunctionOnSet(f, D \ {Pick(D)})
<1> DEFINE G(E) == CHOOSE g : Sums(g, f, E)
           E == D \ {Pick(D)}
<1>1. Sums(G(D), f, D) /\ Sums(G(E), f, E)
  OBVIOUS
<1>2. G(D)[D] = f[Pick(D)] + G(D)[E]
  BY <1>1, SumsUnfold
<1> DEFINE h == [s \in SUBSET E |-> G(D)[s]]
<1>3. Sums(h, f, E)
  BY <1>1, SumsRestrict
<1>4. IsFiniteSet(E)
  BY SmallerIsFinite
<1>5. h = G(E)
  <2> HIDE DEF h, G, E
  <2> QED  BY <1>1, <1>3, <1>4, SumsUnique
<1>6. h[E] = G(D)[E]
  OBVIOUS
<1>7. SumFunctionOnSet(f, D) = G(D)[D] /\ SumFunctionOnSet(f, E) = G(E)[E]
  BY SumIsValue
<1> QED  BY <1>2, <1>5, <1>6, <1>7

LEMMA SumOfNone ==
  ASSUME NEW f, NEW D, D = {}
  PROVE  SumFunctionOnSet(f, D) = 0
<1> DEFINE g == [s \in SUBSET D |-> 0]
<1>1. Sums(g, f, D)
  BY DEF Sums
<1> HIDE DEF g
<1>2. Sums(CHOOSE h : Sums(h, f, D), f, D)
  BY <1>1
<1>3. (CHOOSE h : Sums(h, f, D))[D] = 0
  BY <1>2, SumsUnfold
<1> QED  BY <1>3, SumIsValue

LEMMA SumsExist ==
  ASSUME NEW f, NEW D, IsFiniteSet(D)
  PROVE  \E g : Sums(g, f, D)
<1> DEFINE X == {s \in SUBSET D : ~ \E g : Sums(g, f, s)}
<1>1. SUFFICES ASSUME X # {} PROVE FALSE
  OBVIOUS
<1>2. PICK T \in X : \A U \in X : U \subseteq T => U = T
  <2>1. X \subseteq SUBSET D
    OBVIOUS
  <2> HIDE DEF X
  <2> QED  BY <1>1, <2>1, LeastSubset
<1>3. \A U \in SUBSET T : U # T => \E g : Sums(g, f, U)
  BY <1>2
<1> DEFINE S(U) == SumFunctionOnSet(f, U)
           h == [U \in SUBSET T |-> IF U = {} THEN 0 ELSE f[Pick(U)] + S(U \ {Pick(U)})]
<1>4. ASSUME NEW U \in SUBSET T, U # T
      PROVE  h[U] = S(U)
  <2>1. CASE U = {}
    BY <2>1, SumOfNone
  <2>2. CASE U # {}
    <3>1. \A V \in SUBSET U : \E g : Sums(g, f, V)
      BY <1>3, <1>4
    <3>2. IsFiniteSet(U)
      BY <1>2, SmallerIsFinite
    <3>3. S(U) = f[Pick(U)] + S(U \ {Pick(U)})
      BY <2>2, <3>1, <3>2, SumUnfoldsIf
    <3> HIDE DEF S
    <3> QED  BY <2>2, <3>3
  <2> QED  BY <2>1, <2>2
<1> HIDE DEF S
<1>5. ASSUME NEW U \in SUBSET T
      PROVE  h[U] = IF U = {} THEN 0 ELSE f[Pick(U)] + h[U \ {Pick(U)}]
  <2>1. CASE U = {}
    BY <2>1
  <2>2. CASE U # {}
    <3>1. U \ {Pick(U)} \in SUBSET T /\ U \ {Pick(U)} # T
      BY <2>2, PickIsIn
    <3>2. h[U \ {Pick(U)}] = S(U \ {Pick(U)})
      <4> HIDE DEF h
      <4> QED  BY <3>1, <1>4
    <3> QED  BY <2>2, <3>2
  <2> QED  BY <2>1, <2>2
<1>6. h = [U \in SUBSET T |-> h[U]]
  OBVIOUS
<1> HIDE DEF h
<1>7. Sums(h, f, T)
  BY <1>5, <1>6 DEF Sums
<1> QED  BY <1>2, <1>7

\* A sum over a finite set that is not empty is one of its terms and the sum of
\* the others: stocks over warehouses, logs over rounds and amounts over the
\* rows of a window are what they are meant to be (nonDefaultStockSum,
\* SumExecuteAmountByTenantTool).
THEOREM SumUnfolds ==
  ASSUME NEW f, NEW D, IsFiniteSet(D), D # {}
  PROVE  SumFunctionOnSet(f, D) = f[Pick(D)] + SumFunctionOnSet(f, D \ {Pick(D)})
<1>1. \A E \in SUBSET D : \E g : Sums(g, f, E)
  BY SmallerIsFinite, SumsExist
<1> QED  BY <1>1, SumUnfoldsIf

-------------------------------------------------------------------------------
(* The laws of sums. Where a law needs the values to be integers it says so. *)

LEMMA SumIsInt ==
  ASSUME NEW f, NEW D, IsFiniteSet(D), \A x \in D : f[x] \in Int
  PROVE  SumFunctionOnSet(f, D) \in Int
<1> DEFINE S(U) == SumFunctionOnSet(f, U)
           X == {U \in SUBSET D : S(U) \notin Int}
<1>1. SUFFICES ASSUME X # {} PROVE FALSE
  OBVIOUS
<1>2. PICK T \in X : \A U \in X : U \subseteq T => U = T
  <2>1. X \subseteq SUBSET D
    OBVIOUS
  <2> HIDE DEF X
  <2> QED  BY <1>1, <2>1, LeastSubset
<1>3. T # {}
  BY <1>2, SumOfNone
<1>4. S(T) = f[Pick(T)] + S(T \ {Pick(T)})
  BY <1>2, <1>3, SumUnfolds, SmallerIsFinite
<1>5. Pick(T) \in T /\ T \ {Pick(T)} # T
  BY <1>3, PickIsIn
<1> HIDE DEF S
<1>6. S(T \ {Pick(T)}) \in Int
  BY <1>2, <1>5
<1> QED  BY <1>2, <1>4, <1>5, <1>6

\* A sum may be taken apart at any of its elements.
LEMMA SumWithout ==
  ASSUME NEW f, NEW D, IsFiniteSet(D), \A x \in D : f[x] \in Int, NEW a \in D
  PROVE  SumFunctionOnSet(f, D) = f[a] + SumFunctionOnSet(f, D \ {a})
<1> DEFINE S(U) == SumFunctionOnSet(f, U)
           Apart(U) == \A x \in U : S(U) = f[x] + S(U \ {x})
           X == {U \in SUBSET D : ~Apart(U)}
<1>1. SUFFICES ASSUME X # {} PROVE FALSE
  BY DEF X
<1>2. PICK T \in X : \A U \in X : U \subseteq T => U = T
  <2>1. X \subseteq SUBSET D
    OBVIOUS
  <2> HIDE DEF X
  <2> QED  BY <1>1, <2>1, LeastSubset
<1>3. PICK x \in T : S(T) # f[x] + S(T \ {x})
  BY <1>2
<1> DEFINE c == Pick(T)
<1>4. c \in T
  BY <1>3, PickIsIn
<1>5. S(T) = f[c] + S(T \ {c})
  BY <1>2, <1>3, SumUnfolds, SmallerIsFinite
<1>6. x # c
  BY <1>3, <1>5
<1>7. S(T \ {c}) = f[x] + S((T \ {c}) \ {x})
  <2>1. Apart(T \ {c})
    BY <1>2, <1>4
  <2> QED  BY <1>3, <1>6, <2>1
<1>8. S(T \ {x}) = f[c] + S((T \ {x}) \ {c})
  <2>1. Apart(T \ {x})
    BY <1>2, <1>3
  <2> QED  BY <1>4, <1>6, <2>1
<1>9. (T \ {c}) \ {x} = (T \ {x}) \ {c}
  OBVIOUS
<1>10. S((T \ {x}) \ {c}) \in Int
  <2>1. (T \ {x}) \ {c} \subseteq D
    BY <1>2
  <2> QED  BY <2>1, SumIsInt, SmallerIsFinite
<1>11. f[c] \in Int /\ f[x] \in Int
  BY <1>2, <1>3, <1>4
<1>12. S(T) = f[c] + (f[x] + S((T \ {x}) \ {c}))
  BY <1>5, <1>7, <1>9
<1>13. S(T) # f[x] + (f[c] + S((T \ {x}) \ {c}))
  BY <1>3, <1>8
<1> HIDE DEF S, c
<1> QED  BY <1>10, <1>11, <1>12, <1>13

\* Only the values on the set count.
LEMMA SumAgrees ==
  ASSUME NEW f, NEW g, NEW D, IsFiniteSet(D), \A x \in D : f[x] = g[x]
  PROVE  SumFunctionOnSet(f, D) = SumFunctionOnSet(g, D)
<1> DEFINE S(U) == SumFunctionOnSet(f, U)
           R(U) == SumFunctionOnSet(g, U)
           X == {U \in SUBSET D : S(U) # R(U)}
<1>1. SUFFICES ASSUME X # {} PROVE FALSE
  BY DEF X
<1>2. PICK T \in X : \A U \in X : U \subseteq T => U = T
  <2>1. X \subseteq SUBSET D
    OBVIOUS
  <2> HIDE DEF X
  <2> QED  BY <1>1, <2>1, LeastSubset
<1>3. T # {}
  BY <1>2, SumOfNone
<1>4. Pick(T) \in T
  BY <1>3, PickIsIn
<1>5. S(T) = f[Pick(T)] + S(T \ {Pick(T)}) /\ R(T) = g[Pick(T)] + R(T \ {Pick(T)})
  BY <1>2, <1>3, SumUnfolds, SmallerIsFinite
<1> HIDE DEF S, R
<1>6. S(T \ {Pick(T)}) = R(T \ {Pick(T)})
  BY <1>2, <1>4
<1> QED  BY <1>2, <1>4, <1>5, <1>6

\* Sums are added term by term.
LEMMA SumOfSums ==
  ASSUME NEW f, NEW g, NEW h, NEW D, IsFiniteSet(D),
         \A x \in D : f[x] \in Int /\ g[x] \in Int /\ h[x] = f[x] + g[x]
  PROVE  SumFunctionOnSet(h, D) = SumFunctionOnSet(f, D) + SumFunctionOnSet(g, D)
<1> DEFINE F(U) == SumFunctionOnSet(f, U)
           G(U) == SumFunctionOnSet(g, U)
           H(U) == SumFunctionOnSet(h, U)
           X == {U \in SUBSET D : H(U) # F(U) + G(U)}
<1>1. SUFFICES ASSUME X # {} PROVE FALSE
  BY DEF X
<1>2. PICK T \in X : \A U \in X : U \subseteq T => U = T
  <2>1. X \subseteq SUBSET D
    OBVIOUS
  <2> HIDE DEF X
  <2> QED  BY <1>1, <2>1, LeastSubset
<1>3. T # {}
  BY <1>2, SumOfNone
<1> DEFINE c == Pick(T)
           U == T \ {c}
<1>4. c \in T /\ U \in SUBSET D /\ U \subseteq T /\ U # T
  BY <1>2, <1>3, PickIsIn
<1>5. F(T) = f[c] + F(U) /\ G(T) = g[c] + G(U) /\ H(T) = h[c] + H(U)
  BY <1>2, <1>3, SumUnfolds, SmallerIsFinite
<1>6. F(U) \in Int /\ G(U) \in Int
  BY <1>4, SumIsInt, SmallerIsFinite
<1>7. f[c] \in Int /\ g[c] \in Int /\ h[c] = f[c] + g[c]
  BY <1>2, <1>4
<1>8. H(T) # F(T) + G(T)
  BY <1>2
<1> HIDE DEF F, G, H, c, U
<1>9. H(U) = F(U) + G(U)
  BY <1>2, <1>4
<1> QED  BY <1>5, <1>6, <1>7, <1>8, <1>9

\* A sum is no greater than one with terms no smaller.
LEMMA SumMonotone ==
  ASSUME NEW f, NEW g, NEW D, IsFiniteSet(D),
         \A x \in D : f[x] \in Int /\ g[x] \in Int /\ f[x] <= g[x]
  PROVE  SumFunctionOnSet(f, D) <= SumFunctionOnSet(g, D)
<1> DEFINE F(U) == SumFunctionOnSet(f, U)
           G(U) == SumFunctionOnSet(g, U)
           X == {U \in SUBSET D : ~(F(U) <= G(U))}
<1>1. SUFFICES ASSUME X # {} PROVE FALSE
  BY DEF X
<1>2. PICK T \in X : \A U \in X : U \subseteq T => U = T
  <2>1. X \subseteq SUBSET D
    OBVIOUS
  <2> HIDE DEF X
  <2> QED  BY <1>1, <2>1, LeastSubset
<1>3. T # {}
  BY <1>2, SumOfNone
<1> DEFINE c == Pick(T)
           U == T \ {c}
<1>4. c \in T /\ U \in SUBSET D /\ U \subseteq T /\ U # T
  BY <1>2, <1>3, PickIsIn
<1>5. F(T) = f[c] + F(U) /\ G(T) = g[c] + G(U)
  BY <1>2, <1>3, SumUnfolds, SmallerIsFinite
<1>6. F(U) \in Int /\ G(U) \in Int
  BY <1>4, SumIsInt, SmallerIsFinite
<1>7. f[c] \in Int /\ g[c] \in Int /\ f[c] <= g[c]
  BY <1>2, <1>4
<1>8. ~(F(T) <= G(T))
  BY <1>2
<1> HIDE DEF F, G, c, U
<1>9. F(U) <= G(U)
  BY <1>2, <1>4
<1> QED  BY <1>5, <1>6, <1>7, <1>8, <1>9

LEMMA SumOfZeros ==
  ASSUME NEW f, NEW D, IsFiniteSet(D), \A x \in D : f[x] = 0
  PROVE  SumFunctionOnSet(f, D) = 0
<1> DEFINE X == {U \in SUBSET D : SumFunctionOnSet(f, U) # 0}
<1>1. SUFFICES ASSUME X # {} PROVE FALSE
  BY DEF X
<1>2. PICK T \in X : \A U \in X : U \subseteq T => U = T
  <2>1. X \subseteq SUBSET D
    OBVIOUS
  <2> HIDE DEF X
  <2> QED  BY <1>1, <2>1, LeastSubset
<1>3. T # {}
  BY <1>2, SumOfNone
<1>4. Pick(T) \in T
  BY <1>3, PickIsIn
<1>5. SumFunctionOnSet(f, T) = f[Pick(T)] + SumFunctionOnSet(f, T \ {Pick(T)})
  BY <1>2, <1>3, SumUnfolds, SmallerIsFinite
<1>6. SumFunctionOnSet(f, T \ {Pick(T)}) = 0
  BY <1>2, <1>4
<1> QED  BY <1>2, <1>4, <1>5, <1>6

\* Sums of naturals are naturals, none of the terms greater than the sum, and
\* a sum above zero has a term above zero.
LEMMA SumOfNats ==
  ASSUME NEW f, NEW D, IsFiniteSet(D), \A x \in D : f[x] \in Nat
  PROVE  /\ SumFunctionOnSet(f, D) \in Nat
         /\ \A x \in D : f[x] <= SumFunctionOnSet(f, D)
<1> DEFINE z == [x \in D |-> 0]
<1>1. \A E \in SUBSET D : SumFunctionOnSet(f, E) \in Nat
  <2> TAKE E \in SUBSET D
  <2>1. IsFiniteSet(E)
    BY SmallerIsFinite
  <2>2. SumFunctionOnSet(z, E) = 0
    BY <2>1, SumOfZeros
  <2>3. SumFunctionOnSet(z, E) <= SumFunctionOnSet(f, E)
    <3>1. \A x \in E : z[x] \in Int /\ f[x] \in Int /\ z[x] <= f[x]
      OBVIOUS
    <3> HIDE DEF z
    <3> QED  BY <2>1, <3>1, SumMonotone
  <2>4. SumFunctionOnSet(f, E) \in Int
    BY <2>1, SumIsInt
  <2> QED  BY <2>2, <2>3, <2>4
<1>2. ASSUME NEW x \in D PROVE f[x] <= SumFunctionOnSet(f, D)
  <2>1. SumFunctionOnSet(f, D) = f[x] + SumFunctionOnSet(f, D \ {x})
    BY SumWithout
  <2>2. SumFunctionOnSet(f, D \ {x}) \in Nat
    BY <1>1
  <2> QED  BY <2>1, <2>2
<1> QED  BY <1>1, <1>2

LEMMA SumNotPositive ==
  ASSUME NEW f, NEW D, IsFiniteSet(D), \A x \in D : f[x] \in Int /\ f[x] <= 0
  PROVE  SumFunctionOnSet(f, D) <= 0
<1> DEFINE z == [x \in D |-> 0]
<1>1. SumFunctionOnSet(z, D) = 0
  BY SumOfZeros
<1>2. \A x \in D : z[x] \in Int /\ f[x] \in Int /\ f[x] <= z[x]
  OBVIOUS
<1> HIDE DEF z
<1>3. SumFunctionOnSet(f, D) <= SumFunctionOnSet(z, D)
  BY <1>2, SumMonotone
<1> QED  BY <1>1, <1>3

\* A term that changes changes the sum by as much.
LEMMA SumUpdate ==
  ASSUME NEW f, NEW g, NEW D, IsFiniteSet(D), NEW a \in D,
         \A x \in D : f[x] \in Int, g[a] \in Int,
         \A x \in D \ {a} : g[x] = f[x]
  PROVE  SumFunctionOnSet(g, D) = SumFunctionOnSet(f, D) - f[a] + g[a]
<1>1. SumFunctionOnSet(f, D) = f[a] + SumFunctionOnSet(f, D \ {a})
  BY SumWithout
<1>2. \A x \in D : g[x] \in Int
  OBVIOUS
<1>3. SumFunctionOnSet(g, D) = g[a] + SumFunctionOnSet(g, D \ {a})
  BY <1>2, SumWithout
<1>4. IsFiniteSet(D \ {a})
  BY SmallerIsFinite
<1>5. SumFunctionOnSet(g, D \ {a}) = SumFunctionOnSet(f, D \ {a})
  BY <1>4, SumAgrees
<1>6. SumFunctionOnSet(f, D \ {a}) \in Int
  BY <1>4, SumIsInt
<1> QED  BY <1>1, <1>3, <1>5, <1>6

\* An element more is a term more.
LEMMA SumWith ==
  ASSUME NEW f, NEW D, IsFiniteSet(D), \A x \in D : f[x] \in Int,
         NEW a, a \notin D, f[a] \in Int
  PROVE  SumFunctionOnSet(f, D \union {a}) = SumFunctionOnSet(f, D) + f[a]
<1>1. IsFiniteSet(D \union {a})
  BY FS_AddElement
<1>2. (D \union {a}) \ {a} = D
  OBVIOUS
<1>3. SumFunctionOnSet(f, D \union {a}) = f[a] + SumFunctionOnSet(f, (D \union {a}) \ {a})
  BY <1>1, SumWithout
<1>4. SumFunctionOnSet(f, D) \in Int
  BY SumIsInt
<1>5. SumFunctionOnSet(f, D \union {a}) = f[a] + SumFunctionOnSet(f, D)
  BY <1>2, <1>3, Zenon
<1> QED  BY <1>4, <1>5

\* Where f is g raised at the images of E under an injection k, by q each, its
\* sum is that of g raised by the sum of q.
LEMMA SumRaised ==
  ASSUME NEW D, IsFiniteSet(D), NEW E, IsFiniteSet(E),
         NEW f, NEW g, NEW q, NEW k,
         \A x \in D : g[x] \in Int,
         \A j \in E : q[j] \in Int /\ k[j] \in D,
         \A i, j \in E : k[i] = k[j] => i = j,
         \A j \in E : f[k[j]] = g[k[j]] + q[j],
         \A x \in D : (\A j \in E : k[j] # x) => f[x] = g[x]
  PROVE  SumFunctionOnSet(f, D) = SumFunctionOnSet(g, D) + SumFunctionOnSet(q, E)
<1> DEFINE Upto(U) == [x \in D |-> IF \E j \in U : k[j] = x THEN f[x] ELSE g[x]]
           F(U) == SumFunctionOnSet(Upto(U), D)
           Q(U) == SumFunctionOnSet(q, U)
           X == {U \in SUBSET E : F(U) # F({}) + Q(U)}
<1>1. ASSUME X # {} PROVE FALSE
  <2>1. PICK T \in X : \A U \in X : U \subseteq T => U = T
    <3>1. X \subseteq SUBSET E
      OBVIOUS
    <3> HIDE DEF X
    <3> QED  BY <1>1, <3>1, LeastSubset
  <2>2. F({}) \in Int
    <3>1. \A x \in D : Upto({})[x] \in Int
      OBVIOUS
    <3> HIDE DEF Upto
    <3> QED  BY <3>1, SumIsInt
  <2>3. T # {}
    <3>1. SUFFICES ASSUME T = {} PROVE FALSE
      OBVIOUS
    <3>2. Q(T) = 0
      BY <3>1, SumOfNone
    <3>3. F(T) = F({})
      BY <3>1
    <3>4. F(T) # F({}) + Q(T)
      BY <2>1
    <3> HIDE DEF F, Q
    <3> QED  BY <2>2, <3>2, <3>3, <3>4
  <2> DEFINE c == Pick(T)
             U == T \ {c}
  <2>4. c \in T /\ c \in E /\ T \subseteq E /\ U \in SUBSET E /\ U \subseteq T /\ U # T
    BY <2>1, <2>3, PickIsIn
  <2>5. Q(T) = q[c] + Q(U)
    BY <2>1, <2>3, SumUnfolds, SmallerIsFinite
  <2>6. Q(U) \in Int
    BY <2>4, SumIsInt, SmallerIsFinite
  <2>7. F(T) # F({}) + Q(T)
    BY <2>1
  <2>8. F(U) = F({}) + Q(U)
    <3> HIDE DEF F, Q, U
    <3> QED  BY <2>1, <2>4
  <2>9. F(T) = F(U) - g[k[c]] + f[k[c]]
    <3> HIDE DEF c
    <3>1. \A x \in D : Upto(U)[x] \in Int
      BY <2>4
    <3>2. Upto(U)[k[c]] = g[k[c]] /\ Upto(T)[k[c]] = f[k[c]] /\ k[c] \in D
      BY <2>4
    <3>3. \A x \in D \ {k[c]} : Upto(T)[x] = Upto(U)[x]
      BY <2>4
    <3>4. f[k[c]] \in Int
      BY <2>4
    <3> HIDE DEF Upto, U
    <3> QED  BY <3>1, <3>2, <3>3, <3>4, SumUpdate
  <2>10. f[k[c]] = g[k[c]] + q[c] /\ q[c] \in Int /\ g[k[c]] \in Int
    BY <2>4
  <2> HIDE DEF F, Q, c, U
  <2> QED  BY <2>2, <2>5, <2>6, <2>7, <2>8, <2>9, <2>10
<1>2. F(E) = F({}) + Q(E)
  <2> HIDE DEF F, Q
  <2> QED  BY <1>1
<1>3. \A x \in D : Upto(E)[x] = f[x]
  OBVIOUS
<1>4. \A x \in D : Upto({})[x] = g[x]
  OBVIOUS
<1>5. F(E) = SumFunctionOnSet(f, D) /\ F({}) = SumFunctionOnSet(g, D)
  <2> HIDE DEF Upto
  <2> QED  BY <1>3, <1>4, SumAgrees
<1> QED  BY <1>2, <1>5

\* Fewer terms, none of them negative
LEMMA SumOfFewer ==
  ASSUME NEW f, NEW D, IsFiniteSet(D), \A x \in D : f[x] \in Nat, NEW E, E \subseteq D
  PROVE  SumFunctionOnSet(f, E) <= SumFunctionOnSet(f, D)
<1> DEFINE none == [x \in D |-> 0]
           some == [x \in D |-> IF x \in E THEN f[x] ELSE 0]
           k == [x \in E |-> x]
<1>1. IsFiniteSet(E)
  BY SmallerIsFinite
<1>2. /\ \A x \in D : none[x] = 0 /\ none[x] \in Int
      /\ \A x \in E : some[x] = f[x] /\ f[x] \in Int /\ k[x] = x /\ k[x] \in D
      /\ \A x \in D : some[x] \in Int /\ some[x] <= f[x] /\ f[x] \in Int
      /\ \A x \in D : x \notin E => some[x] = 0
  OBVIOUS
<1> HIDE DEF none, some, k
<1>3. SumFunctionOnSet(none, D) = 0
  BY <1>2, SumOfZeros
<1>4. SumFunctionOnSet(some, D) = SumFunctionOnSet(none, D) + SumFunctionOnSet(f, E)
  <2>1. \A i, j \in E : k[i] = k[j] => i = j
    BY <1>2
  <2>2. \A j \in E : some[k[j]] = none[k[j]] + f[j]
    BY <1>2
  <2>3. \A x \in D : (\A j \in E : k[j] # x) => some[x] = none[x]
    BY <1>2
  <2> QED  BY <1>1, <1>2, <2>1, <2>2, <2>3, SumRaised
<1>5. SumFunctionOnSet(some, D) <= SumFunctionOnSet(f, D)
  BY <1>2, SumMonotone
<1>6. SumFunctionOnSet(f, E) \in Int
  BY <1>1, <1>2, SumIsInt
<1> QED  BY <1>3, <1>4, <1>5, <1>6

===============================================================================
