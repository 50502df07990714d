----------------------------- MODULE FoldLemmas -----------------------------
(***************************************************************************)
(* What the folds of the community modules compute.  The models add up     *)
(* lengths and read files line by line with MapThenFoldSet and operators   *)
(* built on it, which recurse over the subsets of a finite set.            *)
(*                                                                         *)
(* Induction comes from WFMin, which speaks of sets rather than operators: *)
(* a set of naturals that is not empty has a least element.  A fold is     *)
(* given by first-order data: the set S, the start value b, the function c *)
(* that chooses the next element of a set, and the function h that         *)
(* combines an element with a result.                                      *)
(***************************************************************************)
EXTENDS Integers, Functions, FiniteSetTheorems, WellFoundedInduction, TLAPS

\* The numbers are well-founded: a set of naturals has a least element.
LEMMA LeastNatural ==
  ASSUME NEW T, T \subseteq Nat, T # {}
  PROVE  \E x \in T : \A y \in T : x <= y
<1> DEFINE R == OpToRel(<, Nat)
<1>1. IsWellFoundedOn(R, Nat)  BY NatLessThanWellFounded
<1>2. \A x, y \in Nat : <<x, y>> \in R <=> x < y  BY DEF OpToRel
<1> HIDE DEF R
<1>3. PICK x \in T : \A y \in T : ~(<<y, x>> \in R)  BY <1>1, WFMin
<1>4. \A y \in T : x <= y
  <2> SUFFICES ASSUME NEW y \in T PROVE x <= y  OBVIOUS
  <2>1. x \in Nat /\ y \in Nat  OBVIOUS
  <2>2. ~(y < x)  BY <1>2, <1>3, <2>1
  <2> QED  BY <2>1, <2>2
<1> QED  BY <1>4

\* Induction over the numbers, for a set in place of a predicate.
LEMMA SetInduction ==
  ASSUME NEW T, 0 \in T, \A n \in Nat : n \in T => n + 1 \in T
  PROVE  Nat \subseteq T
<1> SUFFICES ASSUME Nat \ T # {} PROVE FALSE  OBVIOUS
<1>1. PICK x \in Nat \ T : \A y \in Nat \ T : x <= y  BY LeastNatural
<1>2. x # 0 /\ x - 1 \in Nat  BY <1>1
<1>3. x - 1 \in T  BY <1>1, <1>2
<1> QED  BY <1>1, <1>2, <1>3

-----------------------------------------------------------------------------
(* Folds.                                                                  *)

\* What one turn of the fold makes of the results g for smaller sets.
Turn(b, c, h, g, s) == IF s = {} THEN b ELSE h[<<c[s], g[s \ {c[s]}]>>]

\* g is the fold over all subsets of S.
IsFold(S, b, c, h, g) == g = [s \in SUBSET S |-> Turn(b, c, h, g, s)]

\* A choice function for S, and a combination of its elements with values of V.
Foldable(S, V, b, c, h) ==
  /\ IsFiniteSet(S)
  /\ b \in V
  /\ \A s \in SUBSET S : s # {} => c[s] \in s
  /\ h \in [S \X V -> V]

\* Taking the chosen element out of a set makes it smaller by one.
LEMMA Smaller ==
  ASSUME NEW S, IsFiniteSet(S), NEW s \in SUBSET S, NEW x \in s
  PROVE  /\ IsFiniteSet(s) /\ Cardinality(s) \in Nat
         /\ s \ {x} \in SUBSET S
         /\ Cardinality(s \ {x}) = Cardinality(s) - 1
         /\ Cardinality(s \ {x}) \in Nat
<1>1. IsFiniteSet(s)  BY FS_Subset
<1>2. Cardinality(s) \in Nat  BY <1>1, FS_CardinalityType
<1>3. IsFiniteSet(s \ {x}) /\ Cardinality(s \ {x}) = Cardinality(s) - 1
  BY <1>1, FS_RemoveElement
<1>4. Cardinality(s \ {x}) \in Nat  BY <1>3, FS_CardinalityType
<1> QED  BY <1>1, <1>2, <1>3, <1>4

\* Induction over the subsets of a finite set.
LEMMA SubsetInduction ==
  ASSUME NEW S, IsFiniteSet(S), NEW T, {} \in T,
         \A s \in SUBSET S : s # {} /\ (\A x \in s : s \ {x} \in T) => s \in T
  PROVE  SUBSET S \subseteq T
<1> DEFINE U == {n \in Nat : \A s \in SUBSET S : Cardinality(s) <= n => s \in T}
<1>1. 0 \in U
  <2> SUFFICES ASSUME NEW s \in SUBSET S, Cardinality(s) <= 0 PROVE s \in T  OBVIOUS
  <2>1. IsFiniteSet(s)  BY FS_Subset
  <2>2. Cardinality(s) \in Nat  BY <2>1, FS_CardinalityType
  <2>3. s = {}  BY <2>1, <2>2, FS_EmptySet
  <2> QED  BY <2>3
<1>2. \A n \in Nat : n \in U => n + 1 \in U
  <2> SUFFICES ASSUME NEW n \in Nat, n \in U, NEW s \in SUBSET S, Cardinality(s) <= n + 1
               PROVE  s \in T
    OBVIOUS
  <2>1. CASE s = {}  BY <2>1
  <2>2. CASE s # {}
    <3>1. \A x \in s : s \ {x} \in T
      <4> SUFFICES ASSUME NEW x \in s PROVE s \ {x} \in T  OBVIOUS
      <4>1. /\ Cardinality(s) \in Nat /\ s \ {x} \in SUBSET S
            /\ Cardinality(s \ {x}) = Cardinality(s) - 1
        BY Smaller
      <4>2. Cardinality(s \ {x}) <= n  BY <4>1
      <4> QED  BY <4>1, <4>2
    <3> QED  BY <3>1, <2>2
  <2> QED  BY <2>1, <2>2
<1> HIDE DEF U
<1>3. Nat \subseteq U  BY <1>1, <1>2, SetInduction
<1>4. \A s \in SUBSET S : s \in T
  <2> SUFFICES ASSUME NEW s \in SUBSET S PROVE s \in T  OBVIOUS
  <2>1. IsFiniteSet(s)  BY FS_Subset
  <2>2. Cardinality(s) \in Nat  BY <2>1, FS_CardinalityType
  <2>3. Cardinality(s) \in U  BY <1>3, <2>2
  <2> QED  BY <2>2, <2>3 DEF U
<1> QED  BY <1>4

\* There is a fold: each turn makes a table of results right for sets of one
\* element more.
LEMMA FoldExists ==
  ASSUME NEW S, NEW V, NEW b, NEW c, NEW h, Foldable(S, V, b, c, h)
  PROVE  \E g \in [SUBSET S -> V] : IsFold(S, b, c, h, g)
<1> DEFINE Right(g, n) == \A s \in SUBSET S : Cardinality(s) <= n => g[s] = Turn(b, c, h, g, s)
           U == {n \in Nat : \E g \in [SUBSET S -> V] : Right(g, n)}
<1>0. \A s \in SUBSET S : Cardinality(s) \in Nat /\ (Cardinality(s) <= 0 => s = {})
  BY FS_Subset, FS_CardinalityType, FS_EmptySet DEF Foldable
<1>1. 0 \in U
  <2>1. [s \in SUBSET S |-> b] \in [SUBSET S -> V]  BY DEF Foldable
  <2>2. Right([s \in SUBSET S |-> b], 0)  BY <1>0 DEF Turn
  <2> QED  BY <2>1, <2>2
<1>2. \A n \in Nat : n \in U => n + 1 \in U
  <2> SUFFICES ASSUME NEW n \in Nat, n \in U PROVE n + 1 \in U  OBVIOUS
  <2>1. PICK g \in [SUBSET S -> V] : Right(g, n)  OBVIOUS
  <2> DEFINE f == [s \in SUBSET S |-> Turn(b, c, h, g, s)]
  <2>2. \A s \in SUBSET S : s # {} => c[s] \in s /\ c[s] \in S /\ s \ {c[s]} \in SUBSET S
    BY DEF Foldable
  <2>3. f \in [SUBSET S -> V]  BY <2>2 DEF Foldable, Turn
  <2>4. \A s \in SUBSET S : s # {} /\ Cardinality(s) <= n + 1 => f[s \ {c[s]}] = g[s \ {c[s]}]
    <3> SUFFICES ASSUME NEW s \in SUBSET S, s # {}, Cardinality(s) <= n + 1
                 PROVE  f[s \ {c[s]}] = g[s \ {c[s]}]
      OBVIOUS
    <3>1. /\ Cardinality(s) \in Nat
          /\ Cardinality(s \ {c[s]}) = Cardinality(s) - 1
      BY <2>2, Smaller DEF Foldable
    <3>2. Cardinality(s \ {c[s]}) <= n  BY <3>1
    <3> QED  BY <2>1, <2>2, <3>2
  <2>5. Right(f, n + 1)
    <3> SUFFICES ASSUME NEW s \in SUBSET S, Cardinality(s) <= n + 1
                 PROVE  f[s] = Turn(b, c, h, f, s)
      OBVIOUS
    <3> QED  BY <2>4 DEF Turn
  <2> HIDE DEF f, Right
  <2>6. \E e \in [SUBSET S -> V] : Right(e, n + 1)  BY <2>3, <2>5, Zenon
  <2>7. n + 1 \in Nat  OBVIOUS
  <2> QED  BY <2>6, <2>7, Zenon
<1> HIDE DEF U
<1>3. Cardinality(S) \in U
  BY <1>1, <1>2, SetInduction, FS_CardinalityType DEF Foldable
<1>4. PICK g \in [SUBSET S -> V] : Right(g, Cardinality(S))  BY <1>3 DEF U
<1>5. \A s \in SUBSET S : Cardinality(s) <= Cardinality(S)  BY FS_Subset DEF Foldable
<1>6. g = [s \in SUBSET S |-> Turn(b, c, h, g, s)]  BY <1>4, <1>5
<1> QED  BY <1>6 DEF IsFold

-----------------------------------------------------------------------------
(* Sums: SumFunctionOnSet(w, S) adds up w[i] over S in an order nobody      *)
(* chooses.                                                                *)

\* The element a sum takes next, and the table of sums over the subsets of S.
Some(s) == CHOOSE x \in s : TRUE
IsSum(S, w, g) ==
  g = [s \in SUBSET S |-> IF s = {} THEN 0 ELSE w[Some(s)] + g[s \ {Some(s)}]]

Weights(S, w) == IsFiniteSet(S) /\ \A i \in S : w[i] \in Nat

LEMMA SumExists ==
  ASSUME NEW S, NEW w, Weights(S, w)
  PROVE  \E g \in [SUBSET S -> Nat] : IsSum(S, w, g)
<1> DEFINE c == [s \in SUBSET S |-> Some(s)]
           h == [p \in S \X Nat |-> w[p[1]] + p[2]]
<1>1. \A s \in SUBSET S : s # {} => Some(s) \in s /\ Some(s) \in S /\ s \ {Some(s)} \in SUBSET S
  BY DEF Some
<1>2. h \in [S \X Nat -> Nat]  BY DEF Weights
<1>3. Foldable(S, Nat, 0, c, h)  BY <1>1, <1>2 DEF Foldable, Weights
<1>4. PICK g \in [SUBSET S -> Nat] : IsFold(S, 0, c, h, g)
  <2> HIDE DEF c, h
  <2> QED  BY <1>3, FoldExists
<1>5. \A s \in SUBSET S : g[s] = IF s = {} THEN 0 ELSE w[Some(s)] + g[s \ {Some(s)}]
  <2> SUFFICES ASSUME NEW s \in SUBSET S
               PROVE  g[s] = IF s = {} THEN 0 ELSE w[Some(s)] + g[s \ {Some(s)}]
    OBVIOUS
  <2>1. g[s] = IF s = {} THEN 0 ELSE h[<<c[s], g[s \ {c[s]}]>>]  BY <1>4 DEF IsFold, Turn
  <2>2. c[s] = Some(s)  OBVIOUS
  <2>3. CASE s = {}  BY <2>1, <2>3
  <2>4. CASE s # {}
    <3>1. g[s] = h[<<Some(s), g[s \ {Some(s)}]>>]  BY <2>1, <2>2, <2>4
    <3>2. Some(s) \in S /\ g[s \ {Some(s)}] \in Nat  BY <1>1, <2>4
    <3>3. \A x \in S, n \in Nat : h[<<x, n>>] = w[x] + n  OBVIOUS
    <3> HIDE DEF h, c
    <3> QED  BY <2>4, <3>1, <3>2, <3>3
  <2> QED  BY <2>3, <2>4
<1>6. g = [s \in SUBSET S |-> g[s]]  OBVIOUS
<1> QED  BY <1>5, <1>6 DEF IsSum

\* The table for S has the sum over every part of S.
LEMMA SumInTable ==
  ASSUME NEW S, NEW w, IsFiniteSet(S), NEW g \in [SUBSET S -> Nat], IsSum(S, w, g),
         NEW T \in SUBSET S
  PROVE  SumFunctionOnSet(w, T) = g[T]
<1> DEFINE Body(f) == [s \in SUBSET T |-> IF s = {} THEN 0 ELSE w[Some(s)] + f[s \ {Some(s)}]]
           iter == CHOOSE f : f = Body(f)
           U == {s \in SUBSET T : iter[s] = g[s]}
<1>0. IsFiniteSet(T)  BY FS_Subset
<1>1. \A s \in SUBSET T : s # {} => Some(s) \in s /\ s \ {Some(s)} \in SUBSET T  BY DEF Some
<1>2. \A s \in SUBSET T : g[s] = IF s = {} THEN 0 ELSE w[Some(s)] + g[s \ {Some(s)}]  BY DEF IsSum
<1>3. \E f : f = Body(f)
  <2> DEFINE f == [s \in SUBSET T |-> g[s]]
  <2>1. \A s \in SUBSET T : f[s] = g[s]  OBVIOUS
  <2>2. \A s \in SUBSET T : f[s] = IF s = {} THEN 0 ELSE w[Some(s)] + f[s \ {Some(s)}]
    BY <1>1, <1>2, <2>1
  <2>3. f = Body(f)  BY <2>2
  <2> QED  BY <2>3
<1>4. iter = Body(iter)
  <2> HIDE DEF Body
  <2> QED  BY <1>3
<1>5. \A s \in SUBSET T : iter[s] = IF s = {} THEN 0 ELSE w[Some(s)] + iter[s \ {Some(s)}]
  <2> HIDE DEF iter
  <2> QED  BY <1>4
<1>6. SumFunctionOnSet(w, T) = iter[T]
  BY DEF SumFunctionOnSet, FoldFunctionOnSet, MapThenFoldSet, Some
<1> HIDE DEF iter
<1>7. {} \in U  BY <1>2, <1>5
<1>8. \A s \in SUBSET T : s # {} /\ (\A x \in s : s \ {x} \in U) => s \in U
  BY <1>1, <1>2, <1>5
<1>9. SUBSET T \subseteq U
  <2> HIDE DEF U
  <2> QED  BY <1>0, <1>7, <1>8, SubsetInduction
<1> QED  BY <1>6, <1>9

\* The order does not matter: any element may be the first.
LEMMA SumInAnyOrder ==
  ASSUME NEW S, NEW w, Weights(S, w), NEW g \in [SUBSET S -> Nat], IsSum(S, w, g),
         NEW s \in SUBSET S, NEW x \in s
  PROVE  g[s] = w[x] + g[s \ {x}]
<1> DEFINE U == {t \in SUBSET S : \A y \in t : g[t] = w[y] + g[t \ {y}]}
<1>1. \A t \in SUBSET S : g[t] = IF t = {} THEN 0 ELSE w[Some(t)] + g[t \ {Some(t)}]  BY DEF IsSum
<1>2. {} \in U  OBVIOUS
<1>3. ASSUME NEW t \in SUBSET S, t # {}, \A y \in t : t \ {y} \in U
      PROVE  t \in U
  <2> SUFFICES ASSUME NEW y \in t, y # Some(t) PROVE g[t] = w[y] + g[t \ {y}]
    BY <1>1, <1>3
  <2> DEFINE z == Some(t)
  <2>1. z \in t  BY <1>3 DEF Some
  <2> HIDE DEF z
  <2>2. g[t] = w[z] + g[t \ {z}]  BY <1>1, <1>3 DEF z
  <2>3. y \in t \ {z} /\ z \in t \ {y}  BY <2>1 DEF z
  <2>4. g[t \ {z}] = w[y] + g[(t \ {z}) \ {y}]  BY <1>3, <2>1, <2>3
  <2>5. g[t \ {y}] = w[z] + g[(t \ {y}) \ {z}]  BY <1>3, <2>3
  <2>6. (t \ {z}) \ {y} = (t \ {y}) \ {z}  OBVIOUS
  <2>7. w[y] \in Nat /\ w[z] \in Nat /\ g[(t \ {y}) \ {z}] \in Nat  BY <2>1 DEF Weights
  <2>8. \A a, b, n \in Nat : b + (a + n) = a + (b + n)  OBVIOUS
  <2>9. g[t \ {z}] = w[y] + g[(t \ {y}) \ {z}]  BY <2>4, <2>6, Zenon
  <2>10. g[t] = w[z] + (w[y] + g[(t \ {y}) \ {z}])  BY <2>2, <2>9, Zenon
  <2>11. w[z] + (w[y] + g[(t \ {y}) \ {z}]) = w[y] + (w[z] + g[(t \ {y}) \ {z}])
    BY <2>7, <2>8, Zenon
  <2> QED  BY <2>5, <2>10, <2>11, Zenon
<1>4. SUBSET S \subseteq U
  <2> HIDE DEF U
  <2> QED  BY <1>2, <1>3, SubsetInduction DEF Weights
<1> QED  BY <1>4

\* What the rest of the proofs knows of a sum: it is a number, 0 for the empty set,
\* and any element can be taken out.
LEMMA SumTheorem ==
  ASSUME NEW S, NEW w, Weights(S, w)
  PROVE  /\ SumFunctionOnSet(w, S) \in Nat
         /\ S = {} => SumFunctionOnSet(w, S) = 0
         /\ \A x \in S : SumFunctionOnSet(w, S) = w[x] + SumFunctionOnSet(w, S \ {x})
<1>1. PICK g \in [SUBSET S -> Nat] : IsSum(S, w, g)  BY SumExists
<1>2. \A T \in SUBSET S : SumFunctionOnSet(w, T) = g[T]  BY <1>1, SumInTable DEF Weights
<1>3. \A x \in S : g[S] = w[x] + g[S \ {x}]  BY <1>1, SumInAnyOrder
<1>4. S = {} => g[S] = 0  BY <1>1 DEF IsSum
<1>5. g[S] \in Nat /\ \A x \in S : S \ {x} \in SUBSET S  OBVIOUS
<1> QED  BY <1>2, <1>3, <1>4, <1>5

\* A part of smaller summands has a smaller sum.
LEMMA SumMonotone ==
  ASSUME NEW S, NEW w, Weights(S, w),
         NEW T \in SUBSET S, NEW v, Weights(T, v), \A i \in T : v[i] <= w[i]
  PROVE  SumFunctionOnSet(v, T) <= SumFunctionOnSet(w, S)
<1> DEFINE U == {s \in SUBSET S : SumFunctionOnSet(v, T \cap s) <= SumFunctionOnSet(w, s)}
<1>0. \A s \in SUBSET S : Weights(s, w) /\ Weights(T \cap s, v)
  BY FS_Subset DEF Weights
<1>1. {} \in U
  <2>1. SumFunctionOnSet(w, {}) = 0 /\ SumFunctionOnSet(v, {}) = 0  BY <1>0, SumTheorem
  <2>2. T \cap {} = {}  OBVIOUS
  <2> QED  BY <2>1, <2>2
<1>2. ASSUME NEW s \in SUBSET S, s # {}, \A x \in s : s \ {x} \in U
      PROVE  s \in U
  <2>1. PICK x \in s : TRUE  BY <1>2
  <2>2. SumFunctionOnSet(v, T \cap (s \ {x})) <= SumFunctionOnSet(w, s \ {x})  BY <1>2
  <2>3. /\ SumFunctionOnSet(w, s) = w[x] + SumFunctionOnSet(w, s \ {x})
        /\ SumFunctionOnSet(w, s) \in Nat
    BY <1>0, SumTheorem
  <2>4. /\ s \ {x} \in SUBSET S /\ w[x] \in Nat  BY DEF Weights
  <2>5. /\ SumFunctionOnSet(w, s \ {x}) \in Nat
        /\ SumFunctionOnSet(v, T \cap (s \ {x})) \in Nat
    BY <1>0, <2>4, SumTheorem
  <2>6. CASE x \in T
    <3>1. x \in T \cap s /\ (T \cap s) \ {x} = T \cap (s \ {x})  BY <2>6
    <3>2. SumFunctionOnSet(v, T \cap s) = v[x] + SumFunctionOnSet(v, (T \cap s) \ {x})
      BY <1>0, <3>1, SumTheorem
    <3>3. v[x] \in Nat /\ v[x] <= w[x]  BY <2>6 DEF Weights
    <3>4. SumFunctionOnSet(v, T \cap s) = v[x] + SumFunctionOnSet(v, T \cap (s \ {x}))
      BY <3>1, <3>2, Zenon
    <3>5. \A a, b, m, n \in Nat : a <= b /\ m <= n => a + m <= b + n  OBVIOUS
    <3>6. SumFunctionOnSet(v, T \cap s) <= SumFunctionOnSet(w, s)
      BY ONLY <2>2, <2>3, <2>4, <2>5, <3>3, <3>4, <3>5, Zenon
    <3> QED  BY <3>6
  <2>7. CASE x \notin T
    <3>1. T \cap s = T \cap (s \ {x})  BY <2>7
    <3>2. SumFunctionOnSet(v, T \cap s) = SumFunctionOnSet(v, T \cap (s \ {x}))
      BY <3>1, Zenon
    <3>3. \A m, n, b \in Nat : m <= n => m <= b + n  OBVIOUS
    <3>4. SumFunctionOnSet(v, T \cap s) <= SumFunctionOnSet(w, s)
      BY ONLY <2>2, <2>3, <2>4, <2>5, <3>2, <3>3, Zenon
    <3> QED  BY <3>4
  <2> QED  BY <2>6, <2>7
<1>3. SUBSET S \subseteq U
  <2> HIDE DEF U
  <2> QED  BY <1>1, <1>2, SubsetInduction DEF Weights
<1>4. SumFunctionOnSet(v, T \cap S) <= SumFunctionOnSet(w, S)  BY <1>3
<1>5. T \cap S = T  OBVIOUS
<1> QED  BY <1>4, <1>5

\* Equal summands have equal sums.
LEMMA SumEqual ==
  ASSUME NEW S, NEW v, NEW w, Weights(S, w), \A i \in S : v[i] = w[i]
  PROVE  SumFunctionOnSet(v, S) = SumFunctionOnSet(w, S)
<1>1. Weights(S, v)  BY DEF Weights
<1>2. /\ \A i \in S : v[i] <= w[i] /\ w[i] <= v[i]
      /\ S \in SUBSET S
  BY DEF Weights
<1>3. SumFunctionOnSet(v, S) <= SumFunctionOnSet(w, S)  BY <1>1, <1>2, SumMonotone
<1>4. SumFunctionOnSet(w, S) <= SumFunctionOnSet(v, S)  BY <1>1, <1>2, SumMonotone
<1>5. SumFunctionOnSet(v, S) \in Nat /\ SumFunctionOnSet(w, S) \in Nat  BY <1>1, SumTheorem
<1> QED  BY <1>3, <1>4, <1>5

\* Summands that are 0 can be left out.
LEMMA SumOfPart ==
  ASSUME NEW S, NEW w, Weights(S, w), NEW T \in SUBSET S, \A i \in S \ T : w[i] = 0
  PROVE  SumFunctionOnSet(w, T) = SumFunctionOnSet(w, S)
<1> DEFINE U == {s \in SUBSET S : SumFunctionOnSet(w, T \cap s) = SumFunctionOnSet(w, s)}
<1>0. \A s \in SUBSET S : Weights(s, w)  BY FS_Subset DEF Weights
<1>1. {} \in U
  <2>1. T \cap {} = {}  OBVIOUS
  <2> QED  BY <2>1, Zenon
<1>2. ASSUME NEW s \in SUBSET S, s # {}, \A x \in s : s \ {x} \in U
      PROVE  s \in U
  <2>1. PICK x \in s : TRUE  BY <1>2
  <2>2. SumFunctionOnSet(w, T \cap (s \ {x})) = SumFunctionOnSet(w, s \ {x})  BY <1>2
  <2>3. SumFunctionOnSet(w, s) = w[x] + SumFunctionOnSet(w, s \ {x})  BY <1>0, SumTheorem
  <2>4. s \ {x} \in SUBSET S /\ T \cap s \in SUBSET S  OBVIOUS
  <2>5. SumFunctionOnSet(w, s \ {x}) \in Nat  BY <1>0, <2>4, SumTheorem
  <2>6. CASE x \in T
    <3>1. x \in T \cap s /\ (T \cap s) \ {x} = T \cap (s \ {x})  BY <2>6
    <3>2. SumFunctionOnSet(w, T \cap s) = w[x] + SumFunctionOnSet(w, (T \cap s) \ {x})
      BY <1>0, <2>4, <3>1, SumTheorem
    <3>3. SumFunctionOnSet(w, T \cap s) = SumFunctionOnSet(w, s)
      BY ONLY <2>2, <2>3, <3>1, <3>2, Zenon
    <3> QED  BY <3>3
  <2>7. CASE x \notin T
    <3>1. T \cap s = T \cap (s \ {x})  BY <2>7
    <3>2. w[x] = 0  BY <2>7
    <3>3. \A n \in Nat : 0 + n = n  OBVIOUS
    <3>4. SumFunctionOnSet(w, T \cap s) = SumFunctionOnSet(w, s)
      BY ONLY <2>2, <2>3, <2>5, <3>1, <3>2, <3>3, Zenon
    <3> QED  BY <3>4
  <2> QED  BY <2>6, <2>7
<1>3. SUBSET S \subseteq U
  <2> HIDE DEF U
  <2> QED  BY <1>1, <1>2, SubsetInduction DEF Weights
<1>4. SumFunctionOnSet(w, T \cap S) = SumFunctionOnSet(w, S)  BY <1>3
<1>5. T \cap S = T  OBVIOUS
<1> QED  BY <1>4, <1>5, Zenon
=============================================================================
