--------------------------------- MODULE Sums ---------------------------------
(***************************************************************************)
(* Facts about SumFunctionOnSet(f, S), the sum of f[x] over the x of a     *)
(* finite set S: the operator the ledgers' balances are written with.      *)
(*                                                                         *)
(* The fold is a recursive function, which the definition only chooses: it *)
(* has to be shown that there is one and that there is only one.  Both are *)
(* inductions on the size of the set, made by taking a smallest            *)
(* counterexample.                                                         *)
(***************************************************************************)
EXTENDS Integers, FiniteSets, Functions, FiniteSetTheorems, WellFoundedInduction, TLAPS

Pick(s) == CHOOSE x \in s : TRUE

\* g is the recursive function of the fold over S.
Recursion(f, S, g) ==
    g = [s \in SUBSET S |-> IF s = {} THEN 0 ELSE f[Pick(s)] + g[s \ {Pick(s)}]]

Fold(f, S) == CHOOSE g : Recursion(f, S, g)

LEMMA SumIsFold ==
    ASSUME NEW f, NEW S
    PROVE  SumFunctionOnSet(f, S) = Fold(f, S)[S]
BY DEF SumFunctionOnSet, FoldFunctionOnSet, MapThenFoldSet, Fold, Recursion, Pick

\* Every set of natural numbers that is not empty has a least element.
LEMMA LeastNumber ==
    ASSUME NEW T, T \subseteq Nat, T # {}
    PROVE  \E x \in T : \A y \in T : x <= y
<1> DEFINE R == {ss \in Nat \X Nat : ss[1] < ss[2]}
<1>1. IsWellFoundedOn(R, Nat)
  BY NatLessThanWellFounded DEF OpToRel
<1>2. PICK x \in T : \A y \in T : ~ (<<y, x>> \in R)
  BY <1>1, WFMin
<1>3. \A y \in T : ~ (y < x)
  <2>1. SUFFICES ASSUME NEW y \in T, y < x PROVE FALSE
    OBVIOUS
  <2>2. ~ (<<y, x>> \in R)
    BY <1>2
  <2>3. <<y, x>> \in Nat \X Nat
    OBVIOUS
  <2>4. QED
    BY <2>1, <2>2, <2>3
<1>4. QED
  BY <1>3

\* A collection of finite sets that is not empty has a smallest member.
LEMMA Smallest ==
    ASSUME NEW C, C # {}, \A s \in C : IsFiniteSet(s)
    PROVE  \E s \in C : \A u \in C : Cardinality(s) <= Cardinality(u)
<1> DEFINE N == {Cardinality(s) : s \in C}
<1>1. \A s \in C : Cardinality(s) \in Nat
  BY FS_CardinalityType
<1>2. N \subseteq Nat /\ N # {}
  BY <1>1
<1>3. PICK n \in N : \A m \in N : n <= m
  BY <1>2, LeastNumber
<1>4. PICK s \in C : n = Cardinality(s)
  OBVIOUS
<1>5. QED
  BY <1>3, <1>4

\* A set without one of its elements is smaller.
LEMMA Without ==
    ASSUME NEW S, IsFiniteSet(S), NEW x \in S
    PROVE  /\ IsFiniteSet(S \ {x})
           /\ Cardinality(S \ {x}) < Cardinality(S)
<1>1. IsFiniteSet(S \ {x}) /\ Cardinality(S \ {x}) = Cardinality(S) - 1
  BY FS_RemoveElement
<1>2. Cardinality(S) \in Nat
  BY FS_CardinalityType
<1>3. QED
  BY <1>1, <1>2

LEMMA PickIn == ASSUME NEW s, s # {} PROVE Pick(s) \in s
BY DEF Pick

\* Two recursions, over whatever sets, agree on the finite sets both know.
LEMMA OneRecursion ==
    ASSUME NEW f, NEW S, NEW T, NEW g, NEW h, Recursion(f, S, g), Recursion(f, T, h),
           NEW s \in SUBSET (S \cap T), IsFiniteSet(s)
    PROVE  g[s] = h[s]
<1> DEFINE C == {u \in SUBSET s : g[u] # h[u]}
<1>1. SUFFICES C = {}
  OBVIOUS
<1>2. SUFFICES ASSUME C # {} PROVE FALSE
  OBVIOUS
<1>3. \A u \in C : IsFiniteSet(u)
  BY FS_Subset
<1>4. PICK u \in C : \A v \in C : Cardinality(u) <= Cardinality(v)
  BY <1>2, <1>3, Smallest
<1> HIDE DEF C
<1>5. u \in SUBSET S /\ u \in SUBSET T /\ g[u] # h[u] /\ IsFiniteSet(u) /\ u \subseteq s
  BY <1>3 DEF C
<1>6. /\ g[u] = IF u = {} THEN 0 ELSE f[Pick(u)] + g[u \ {Pick(u)}]
      /\ h[u] = IF u = {} THEN 0 ELSE f[Pick(u)] + h[u \ {Pick(u)}]
  BY <1>5 DEF Recursion
<1>7. u # {} /\ Pick(u) \in u
  BY <1>5, <1>6, PickIn
<1>8. g[u \ {Pick(u)}] # h[u \ {Pick(u)}]
  BY <1>5, <1>6, <1>7
<1>9. u \ {Pick(u)} \in C
  BY <1>5, <1>8 DEF C
<1>10. /\ Cardinality(u \ {Pick(u)}) < Cardinality(u)
       /\ Cardinality(u \ {Pick(u)}) \in Nat /\ Cardinality(u) \in Nat
  BY <1>5, <1>7, Without, FS_CardinalityType
<1>11. Cardinality(u) <= Cardinality(u \ {Pick(u)})
  BY <1>4, <1>9
<1>12. QED
  BY <1>10, <1>11

\* There is a recursion over every finite set.
LEMMA SomeRecursion ==
    ASSUME NEW f, NEW S, IsFiniteSet(S)
    PROVE  \E g : Recursion(f, S, g)
<1> DEFINE C == {u \in SUBSET S : ~ \E g : Recursion(f, u, g)}
<1>1. SUFFICES ASSUME C # {} PROVE FALSE
  OBVIOUS
<1>2. \A u \in C : IsFiniteSet(u)
  BY FS_Subset
<1>3. PICK u \in C : \A v \in C : Cardinality(u) <= Cardinality(v)
  BY <1>1, <1>2, Smallest
<1>4. IsFiniteSet(u) /\ u \in SUBSET S /\ ~ \E g : Recursion(f, u, g)
  BY <1>2
\* every proper subset of u has its recursion
<1>5. ASSUME NEW v \in SUBSET u, v # u
      PROVE  Recursion(f, v, Fold(f, v)) /\ IsFiniteSet(v)
  <2>1. PICK x \in u : x \notin v
    BY <1>5
  <2>2. IsFiniteSet(u \ {x}) /\ Cardinality(u \ {x}) < Cardinality(u) /\ v \subseteq u \ {x}
    BY <1>4, <2>1, Without
  <2>3. IsFiniteSet(v) /\ Cardinality(v) <= Cardinality(u \ {x})
    BY <2>2, FS_Subset
  <2>4. Cardinality(v) \in Nat /\ Cardinality(u) \in Nat /\ Cardinality(u \ {x}) \in Nat
    BY <1>4, <2>2, <2>3, FS_CardinalityType
  <2>5. v \notin C
    BY <1>3, <2>2, <2>3, <2>4
  <2>6. \E g : Recursion(f, v, g)
    BY <1>4, <2>5
  <2>7. QED
    BY <2>3, <2>6 DEF Fold
<1> DEFINE G(v) == IF v = {} THEN 0 ELSE f[Pick(v)] + Fold(f, v \ {Pick(v)})[v \ {Pick(v)}]
           g == [v \in SUBSET u |-> G(v)]
<1>6. ASSUME NEW v \in SUBSET u, v # u
      PROVE  g[v] = Fold(f, v)[v]
  <2>1. Fold(f, v)[v] = IF v = {} THEN 0 ELSE f[Pick(v)] + Fold(f, v)[v \ {Pick(v)}]
    BY <1>5, <1>6 DEF Recursion
  <2>2. CASE v = {}
    BY <2>1, <2>2
  <2>3. CASE v # {}
    <3> DEFINE w == v \ {Pick(v)}
    <3>1. w \in SUBSET u /\ w # u /\ w \in SUBSET (v \cap w)
      BY <1>6, <2>3, PickIn
    <3>2. Recursion(f, v, Fold(f, v)) /\ Recursion(f, w, Fold(f, w)) /\ IsFiniteSet(w)
      BY <1>5, <1>6, <3>1
    <3> HIDE DEF w
    <3>3. Fold(f, v)[w] = Fold(f, w)[w]
      BY <3>1, <3>2, OneRecursion
    <3>4. g[v] = f[Pick(v)] + Fold(f, w)[w]
      BY <2>3 DEF w
    <3>5. QED
      BY <2>1, <2>3, <3>3, <3>4 DEF w
  <2>4. QED
    BY <2>2, <2>3
<1>7. ASSUME NEW v \in SUBSET u
      PROVE  g[v] = IF v = {} THEN 0 ELSE f[Pick(v)] + g[v \ {Pick(v)}]
  <2>1. CASE v = {}
    BY <2>1
  <2>2. CASE v # {}
    <3>1. v \ {Pick(v)} \in SUBSET u /\ v \ {Pick(v)} # u
      BY <2>2, PickIn
    <3>2. g[v \ {Pick(v)}] = Fold(f, v \ {Pick(v)})[v \ {Pick(v)}]
      BY <1>6, <3>1
    <3>3. g[v] = f[Pick(v)] + Fold(f, v \ {Pick(v)})[v \ {Pick(v)}]
      BY <2>2
    <3>4. QED
      BY <2>2, <3>2, <3>3
  <2>3. QED
    BY <2>1, <2>2
<1>8. g = [v \in SUBSET u |-> g[v]]
  OBVIOUS
<1> HIDE DEF g
<1>9. Recursion(f, u, g)
  BY <1>7, <1>8 DEF Recursion
<1>10. QED
  BY <1>4, <1>9

\* The fold over any finite set is a recursion.
LEMMA FoldIsRecursion ==
    ASSUME NEW f, NEW S, IsFiniteSet(S)
    PROVE  Recursion(f, S, Fold(f, S))
BY SomeRecursion DEF Fold
-----------------------------------------------------------------------------
\* THE SUM

\* No element, no amount.
LEMMA SumEmpty == ASSUME NEW f PROVE SumFunctionOnSet(f, {}) = 0
<1>1. Recursion(f, {}, Fold(f, {}))
  BY FoldIsRecursion, FS_EmptySet
<1>2. Fold(f, {})[{}] = 0
  BY <1>1 DEF Recursion
<1>3. QED
  BY <1>2, SumIsFold

\* The defining equation of the fold.
LEMMA SumPick ==
    ASSUME NEW f, NEW S, IsFiniteSet(S), S # {}
    PROVE  SumFunctionOnSet(f, S) = f[Pick(S)] + SumFunctionOnSet(f, S \ {Pick(S)})
<1> DEFINE T == S \ {Pick(S)}
<1>1. Pick(S) \in S /\ IsFiniteSet(T)
  BY PickIn, Without
<1>2. Recursion(f, S, Fold(f, S)) /\ Recursion(f, T, Fold(f, T))
  BY <1>1, FoldIsRecursion
<1>3. T \in SUBSET (S \cap T)
  OBVIOUS
<1> HIDE DEF T
<1>4. Fold(f, S)[T] = Fold(f, T)[T]
  BY <1>1, <1>2, <1>3, OneRecursion
<1>5. Fold(f, S)[S] = f[Pick(S)] + Fold(f, S)[T]
  BY <1>2 DEF Recursion, T
<1>6. QED
  BY <1>4, <1>5, SumIsFold DEF T

\* A sum of integers is an integer.
LEMMA SumInt ==
    ASSUME NEW f, NEW S, IsFiniteSet(S), \A x \in S : f[x] \in Int
    PROVE  SumFunctionOnSet(f, S) \in Int
<1> DEFINE C == {u \in SUBSET S : SumFunctionOnSet(f, u) \notin Int}
<1>1. SUFFICES ASSUME C # {} PROVE FALSE
  OBVIOUS
<1>2. \A u \in C : IsFiniteSet(u)
  BY FS_Subset
<1>3. PICK u \in C : \A v \in C : Cardinality(u) <= Cardinality(v)
  BY <1>1, <1>2, Smallest
<1> HIDE DEF C
<1>4. u \in SUBSET S /\ SumFunctionOnSet(f, u) \notin Int /\ IsFiniteSet(u)
  BY <1>2 DEF C
<1>5. u # {} /\ Pick(u) \in u
  BY <1>4, SumEmpty, PickIn
<1>6. SumFunctionOnSet(f, u) = f[Pick(u)] + SumFunctionOnSet(f, u \ {Pick(u)})
  BY <1>4, <1>5, SumPick
<1>7. /\ Cardinality(u \ {Pick(u)}) < Cardinality(u) /\ IsFiniteSet(u \ {Pick(u)})
      /\ Cardinality(u \ {Pick(u)}) \in Nat /\ Cardinality(u) \in Nat
  BY <1>4, <1>5, Without, FS_CardinalityType
<1>8. u \ {Pick(u)} \notin C
  BY <1>3, <1>7
<1>9. SumFunctionOnSet(f, u \ {Pick(u)}) \in Int
  BY <1>4, <1>8 DEF C
<1>10. f[Pick(u)] \in Int
  BY <1>4, <1>5
<1>11. QED
  BY <1>4, <1>6, <1>9, <1>10

\* Any element may be taken out first.
LEMMA SumTake ==
    ASSUME NEW f, NEW S, IsFiniteSet(S), \A x \in S : f[x] \in Int, NEW y \in S
    PROVE  SumFunctionOnSet(f, S) = f[y] + SumFunctionOnSet(f, S \ {y})
<1> DEFINE Good(u) == \A z \in u : SumFunctionOnSet(f, u) = f[z] + SumFunctionOnSet(f, u \ {z})
           C == {u \in SUBSET S : ~Good(u)}
<1>1. SUFFICES ASSUME C # {} PROVE FALSE
  OBVIOUS
<1>2. \A u \in C : IsFiniteSet(u)
  BY FS_Subset
<1>3. PICK u \in C : \A v \in C : Cardinality(u) <= Cardinality(v)
  BY <1>1, <1>2, Smallest
<1> HIDE DEF C
<1>4. u \in SUBSET S /\ IsFiniteSet(u)
  BY <1>2 DEF C
<1>5. PICK z \in u : SumFunctionOnSet(f, u) # f[z] + SumFunctionOnSet(f, u \ {z})
  BY DEF C
<1> DEFINE p == Pick(u)
<1>6. p \in u /\ SumFunctionOnSet(f, u) = f[p] + SumFunctionOnSet(f, u \ {p})
  BY <1>4, <1>5, PickIn, SumPick
<1> HIDE DEF p
<1>7. p # z
  BY <1>5, <1>6
<1>8. \A q \in u : /\ IsFiniteSet(u \ {q}) /\ u \ {q} \in SUBSET S
                   /\ Cardinality(u \ {q}) < Cardinality(u)
                   /\ Cardinality(u \ {q}) \in Nat /\ Cardinality(u) \in Nat
  BY <1>4, Without, FS_CardinalityType
<1>9. ASSUME NEW q \in u PROVE u \ {q} \notin C
  <2>1. u \ {q} \in C => Cardinality(u) <= Cardinality(u \ {q})
    BY <1>3
  <2>2. /\ Cardinality(u \ {q}) < Cardinality(u)
        /\ Cardinality(u \ {q}) \in Nat /\ Cardinality(u) \in Nat
    BY <1>8
  <2>3. QED
    BY <2>1, <2>2
<1>10. Good(u \ {p}) /\ Good(u \ {z})
  BY <1>5, <1>6, <1>8, <1>9 DEF C
<1>11. /\ SumFunctionOnSet(f, u \ {p}) = f[z] + SumFunctionOnSet(f, (u \ {p}) \ {z})
       /\ SumFunctionOnSet(f, u \ {z}) = f[p] + SumFunctionOnSet(f, (u \ {z}) \ {p})
  BY <1>5, <1>6, <1>7, <1>10
<1>12. (u \ {p}) \ {z} = (u \ {z}) \ {p}
  OBVIOUS
<1>13. f[p] \in Int /\ f[z] \in Int
  BY <1>4, <1>5, <1>6
<1>14. IsFiniteSet((u \ {p}) \ {z}) /\ \A x \in (u \ {p}) \ {z} : f[x] \in Int
  BY <1>4, FS_Subset
<1>15. SumFunctionOnSet(f, (u \ {p}) \ {z}) \in Int
  BY <1>14, SumInt
<1>16. PICK rest \in Int : rest = SumFunctionOnSet(f, (u \ {p}) \ {z})
  BY <1>15
<1>17. /\ SumFunctionOnSet(f, u) = f[p] + (f[z] + rest)
       /\ SumFunctionOnSet(f, u \ {z}) = f[p] + rest
  BY <1>6, <1>11, <1>12, <1>16
<1>18. f[p] + (f[z] + rest) = f[z] + (f[p] + rest)
  BY <1>13
<1>19. QED
  BY <1>5, <1>17, <1>18

\* One element more.
LEMMA SumAdd ==
    ASSUME NEW f, NEW S, IsFiniteSet(S), NEW y, y \notin S, \A x \in S \cup {y} : f[x] \in Int
    PROVE  SumFunctionOnSet(f, S \cup {y}) = f[y] + SumFunctionOnSet(f, S)
<1>1. IsFiniteSet(S \cup {y}) /\ y \in S \cup {y} /\ (S \cup {y}) \ {y} = S
  BY FS_AddElement
<1>2. QED
  BY <1>1, SumTake

\* Only the amounts of the set's elements count.
LEMMA SumSame ==
    ASSUME NEW f, NEW g, NEW S, IsFiniteSet(S), \A x \in S : f[x] = g[x]
    PROVE  SumFunctionOnSet(f, S) = SumFunctionOnSet(g, S)
<1> DEFINE C == {u \in SUBSET S : SumFunctionOnSet(f, u) # SumFunctionOnSet(g, u)}
<1>1. SUFFICES ASSUME C # {} PROVE FALSE
  OBVIOUS
<1>2. \A u \in C : IsFiniteSet(u)
  BY FS_Subset
<1>3. PICK u \in C : \A v \in C : Cardinality(u) <= Cardinality(v)
  BY <1>1, <1>2, Smallest
<1> HIDE DEF C
<1>4. u \in SUBSET S /\ SumFunctionOnSet(f, u) # SumFunctionOnSet(g, u) /\ IsFiniteSet(u)
  BY <1>2 DEF C
<1>5. u # {} /\ Pick(u) \in u
  BY <1>4, SumEmpty, PickIn
<1>6. /\ SumFunctionOnSet(f, u) = f[Pick(u)] + SumFunctionOnSet(f, u \ {Pick(u)})
      /\ SumFunctionOnSet(g, u) = g[Pick(u)] + SumFunctionOnSet(g, u \ {Pick(u)})
  BY <1>4, <1>5, SumPick
<1>7. /\ Cardinality(u \ {Pick(u)}) < Cardinality(u) /\ IsFiniteSet(u \ {Pick(u)})
      /\ Cardinality(u \ {Pick(u)}) \in Nat /\ Cardinality(u) \in Nat
  BY <1>4, <1>5, Without, FS_CardinalityType
<1>8. u \ {Pick(u)} \notin C
  BY <1>3, <1>7
<1>9. SumFunctionOnSet(f, u \ {Pick(u)}) = SumFunctionOnSet(g, u \ {Pick(u)})
  BY <1>4, <1>8 DEF C
<1>10. f[Pick(u)] = g[Pick(u)]
  BY <1>4, <1>5
<1>11. QED
  BY <1>4, <1>6, <1>9, <1>10

\* A part and the rest of it.
LEMMA SumSplit ==
    ASSUME NEW f, NEW S, IsFiniteSet(S), \A x \in S : f[x] \in Int, NEW T \in SUBSET S
    PROVE  SumFunctionOnSet(f, S) = SumFunctionOnSet(f, T) + SumFunctionOnSet(f, S \ T)
<1> DEFINE C == {u \in SUBSET (S \ T) :
                    SumFunctionOnSet(f, T \cup u) # SumFunctionOnSet(f, T) + SumFunctionOnSet(f, u)}
<1>1. SUFFICES ASSUME C # {} PROVE FALSE
  <2>1. S \ T \in SUBSET (S \ T) /\ T \cup (S \ T) = S
    OBVIOUS
  <2>2. QED
    BY <2>1
<1>2. \A u \in C : IsFiniteSet(u)
  BY FS_Subset
<1>3. PICK u \in C : \A v \in C : Cardinality(u) <= Cardinality(v)
  BY <1>1, <1>2, Smallest
<1> HIDE DEF C
<1>4. /\ u \in SUBSET (S \ T) /\ IsFiniteSet(u)
      /\ SumFunctionOnSet(f, T \cup u) # SumFunctionOnSet(f, T) + SumFunctionOnSet(f, u)
  BY <1>2 DEF C
<1>5. IsFiniteSet(T) /\ \A v \in SUBSET S : IsFiniteSet(v) /\ \A x \in v : f[x] \in Int
  BY FS_Subset
<1>6. PICK t \in Int : t = SumFunctionOnSet(f, T)
  BY <1>5, SumInt
<1>7. u # {}
  <2>1. T \cup {} = T
    OBVIOUS
  <2>2. t + 0 = t
    OBVIOUS
  <2>3. QED
    BY <1>4, <1>6, <2>1, <2>2, SumEmpty
<1>8. PICK x \in u : x = Pick(u)
  BY <1>7, PickIn
<1> DEFINE v == u \ {x}
<1>9. v \in SUBSET (S \ T) /\ x \notin T \cup v /\ T \cup u = (T \cup v) \cup {x} /\ u = v \cup {x}
  BY <1>4
<1>10. IsFiniteSet(v) /\ Cardinality(v) < Cardinality(u)
  BY <1>4, Without
<1>11. Cardinality(v) \in Nat /\ Cardinality(u) \in Nat
  BY <1>4, <1>10, FS_CardinalityType
<1> HIDE DEF v
<1>12. v \notin C
  BY <1>3, <1>10, <1>11
<1>13. SumFunctionOnSet(f, T \cup v) = t + SumFunctionOnSet(f, v)
  BY <1>6, <1>9, <1>12 DEF C
<1>14. PICK w \in Int : w = SumFunctionOnSet(f, v)
  BY <1>5, <1>9, SumInt
<1>15. IsFiniteSet(T \cup v) /\ (\A y \in (T \cup v) \cup {x} : f[y] \in Int) /\ f[x] \in Int
  BY <1>4, <1>5, <1>9
<1>16. SumFunctionOnSet(f, T \cup u) = f[x] + (t + w)
  BY <1>9, <1>13, <1>14, <1>15, SumAdd
<1>17. SumFunctionOnSet(f, u) = f[x] + w
  BY <1>9, <1>10, <1>14, <1>15, SumAdd
<1>18. f[x] + (t + w) = t + (f[x] + w)
  BY <1>15
<1>19. QED
  BY <1>4, <1>6, <1>16, <1>17, <1>18

\* Smaller amounts, a smaller sum.
LEMMA SumLess ==
    ASSUME NEW f, NEW g, NEW S, IsFiniteSet(S),
           \A x \in S : f[x] \in Int /\ g[x] \in Int /\ f[x] <= g[x]
    PROVE  SumFunctionOnSet(f, S) <= SumFunctionOnSet(g, S)
<1> DEFINE C == {u \in SUBSET S : ~(SumFunctionOnSet(f, u) <= SumFunctionOnSet(g, u))}
<1>1. SUFFICES ASSUME C # {} PROVE FALSE
  OBVIOUS
<1>2. \A u \in C : IsFiniteSet(u)
  BY FS_Subset
<1>3. PICK u \in C : \A v \in C : Cardinality(u) <= Cardinality(v)
  BY <1>1, <1>2, Smallest
<1> HIDE DEF C
<1>4. /\ u \in SUBSET S /\ IsFiniteSet(u)
      /\ ~(SumFunctionOnSet(f, u) <= SumFunctionOnSet(g, u))
  BY <1>2 DEF C
<1>5. u # {}
  BY <1>4, SumEmpty
<1>6. PICK x \in u : x = Pick(u)
  BY <1>5, PickIn
<1> DEFINE v == u \ {x}
<1>7. v \in SUBSET S /\ IsFiniteSet(v) /\ Cardinality(v) < Cardinality(u)
  BY <1>4, Without
<1>8. Cardinality(v) \in Nat /\ Cardinality(u) \in Nat
  BY <1>4, <1>7, FS_CardinalityType
<1>9. /\ SumFunctionOnSet(f, u) = f[x] + SumFunctionOnSet(f, v)
      /\ SumFunctionOnSet(g, u) = g[x] + SumFunctionOnSet(g, v)
  BY <1>4, <1>5, <1>6, SumPick
<1> HIDE DEF v
<1>10. v \notin C
  BY <1>3, <1>7, <1>8
<1>11. PICK a \in Int, b \in Int :
          a = SumFunctionOnSet(f, v) /\ b = SumFunctionOnSet(g, v)
  BY <1>7, SumInt
<1>12. a <= b
  BY <1>7, <1>10, <1>11 DEF C
<1>13. f[x] \in Int /\ g[x] \in Int /\ f[x] <= g[x]
  BY <1>4
<1>14. f[x] + a <= g[x] + b
  BY <1>12, <1>13
<1>15. QED
  BY <1>4, <1>9, <1>11, <1>14

\* Nothing but zeros.
LEMMA SumZero ==
    ASSUME NEW f, NEW S, IsFiniteSet(S), \A x \in S : f[x] = 0
    PROVE  SumFunctionOnSet(f, S) = 0
<1> DEFINE C == {u \in SUBSET S : SumFunctionOnSet(f, u) # 0}
<1>1. SUFFICES ASSUME C # {} PROVE FALSE
  OBVIOUS
<1>2. \A u \in C : IsFiniteSet(u)
  BY FS_Subset
<1>3. PICK u \in C : \A v \in C : Cardinality(u) <= Cardinality(v)
  BY <1>1, <1>2, Smallest
<1> HIDE DEF C
<1>4. u \in SUBSET S /\ IsFiniteSet(u) /\ SumFunctionOnSet(f, u) # 0
  BY <1>2 DEF C
<1>5. u # {}
  BY <1>4, SumEmpty
<1>6. PICK x \in u : x = Pick(u)
  BY <1>5, PickIn
<1> DEFINE v == u \ {x}
<1>7. v \in SUBSET S /\ IsFiniteSet(v) /\ Cardinality(v) < Cardinality(u)
  BY <1>4, Without
<1>8. Cardinality(v) \in Nat /\ Cardinality(u) \in Nat
  BY <1>4, <1>7, FS_CardinalityType
<1>9. SumFunctionOnSet(f, u) = f[x] + SumFunctionOnSet(f, v) /\ f[x] = 0
  BY <1>4, <1>5, <1>6, SumPick
<1> HIDE DEF v
<1>10. v \notin C
  BY <1>3, <1>7, <1>8
<1>11. SumFunctionOnSet(f, v) = 0
  BY <1>7, <1>10 DEF C
<1>12. QED
  BY <1>4, <1>9, <1>11

\* The sign of the amounts is the sign of the sum.
LEMMA SumSign ==
    ASSUME NEW f, NEW S, IsFiniteSet(S), \A x \in S : f[x] \in Int
    PROVE  /\ (\A x \in S : f[x] >= 0) => SumFunctionOnSet(f, S) >= 0
           /\ (\A x \in S : f[x] <= 0) => SumFunctionOnSet(f, S) <= 0
<1> DEFINE z == [x \in S |-> 0]
<1>1. \A x \in S : z[x] = 0
  OBVIOUS
<1> HIDE DEF z
<1>2. SumFunctionOnSet(z, S) = 0
  BY <1>1, SumZero
<1>3. PICK a \in Int : a = SumFunctionOnSet(f, S)
  BY SumInt
<1>4. ASSUME \A x \in S : f[x] >= 0 PROVE a >= 0
  <2>1. \A x \in S : z[x] \in Int /\ f[x] \in Int /\ z[x] <= f[x]
    BY <1>1, <1>4
  <2>2. SumFunctionOnSet(z, S) <= SumFunctionOnSet(f, S)
    BY <2>1, SumLess
  <2>3. QED
    BY <1>2, <1>3, <2>2
<1>5. ASSUME \A x \in S : f[x] <= 0 PROVE a <= 0
  <2>1. \A x \in S : f[x] \in Int /\ z[x] \in Int /\ f[x] <= z[x]
    BY <1>1, <1>5
  <2>2. SumFunctionOnSet(f, S) <= SumFunctionOnSet(z, S)
    BY <2>1, SumLess
  <2>3. QED
    BY <1>2, <1>3, <2>2
<1>6. QED
  BY <1>3, <1>4, <1>5

\* What is left out decides which of two sums is the greater.
LEMMA SumPart ==
    ASSUME NEW f, NEW S, IsFiniteSet(S), \A x \in S : f[x] \in Int, NEW T \in SUBSET S
    PROVE  /\ (\A x \in S \ T : f[x] >= 0) => SumFunctionOnSet(f, T) <= SumFunctionOnSet(f, S)
           /\ (\A x \in S \ T : f[x] <= 0) => SumFunctionOnSet(f, S) <= SumFunctionOnSet(f, T)
           /\ (\A x \in S \ T : f[x] = 0) => SumFunctionOnSet(f, S) = SumFunctionOnSet(f, T)
<1>1. IsFiniteSet(T) /\ IsFiniteSet(S \ T)
  BY FS_Subset
<1>2. PICK a \in Int, b \in Int :
         a = SumFunctionOnSet(f, T) /\ b = SumFunctionOnSet(f, S \ T)
  BY <1>1, SumInt
<1>3. SumFunctionOnSet(f, S) = a + b
  BY <1>2, SumSplit
<1>4. (\A x \in S \ T : f[x] >= 0) => b >= 0
  BY <1>1, <1>2, SumSign
<1>5. (\A x \in S \ T : f[x] <= 0) => b <= 0
  BY <1>1, <1>2, SumSign
<1>6. (\A x \in S \ T : f[x] = 0) => b = 0
  BY <1>1, <1>2, SumZero
<1>7. QED
  BY <1>2, <1>3, <1>4, <1>5, <1>6

\* Every amount below zero has an amount of its own, elsewhere, that outweighs it.
LEMMA SumCover ==
    ASSUME NEW f, NEW S, IsFiniteSet(S), \A x \in S : f[x] \in Int,
           NEW g, NEW T, IsFiniteSet(T), \A y \in T : g[y] \in Nat,
           NEW m,
           \A x \in S : f[x] < 0 => m[x] \in T /\ f[x] + g[m[x]] >= 0,
           \A x, y \in S : f[x] < 0 /\ f[y] < 0 /\ m[x] = m[y] => x = y
    PROVE  SumFunctionOnSet(f, S) + SumFunctionOnSet(g, T) >= 0
<1> DEFINE N == {x \in S : f[x] < 0}
           Covers(u) == {m[x] : x \in u}
           C == {u \in SUBSET N :
                   ~(SumFunctionOnSet(f, u) + SumFunctionOnSet(g, Covers(u)) >= 0)}
<1>1. /\ IsFiniteSet(N) /\ N \in SUBSET S
      /\ \A u \in SUBSET N : IsFiniteSet(u) /\ Covers(u) \in SUBSET T /\ IsFiniteSet(Covers(u))
  <2>1. N \subseteq S
    OBVIOUS
  <2>2. IsFiniteSet(N)
    BY <2>1, FS_Subset
  <2>3. ASSUME NEW u \in SUBSET N
        PROVE  IsFiniteSet(u) /\ Covers(u) \in SUBSET T /\ IsFiniteSet(Covers(u))
    <3>1. Covers(u) \in SUBSET T
      OBVIOUS
    <3>2. QED
      BY <2>2, <3>1, FS_Subset
  <2>4. QED
    BY <2>1, <2>2, <2>3
<1>2. C = {}
  <2>1. SUFFICES ASSUME C # {} PROVE FALSE
    OBVIOUS
  <2>2. \A u \in C : IsFiniteSet(u)
    BY <1>1
  <2> HIDE DEF C
  <2>3. PICK u \in C : \A v \in C : Cardinality(u) <= Cardinality(v)
    BY <2>1, <2>2, Smallest
  <2>4. /\ u \in SUBSET N /\ IsFiniteSet(u)
        /\ ~(SumFunctionOnSet(f, u) + SumFunctionOnSet(g, Covers(u)) >= 0)
    BY <2>2 DEF C
  <2>5. u # {}
    <3>1. Covers({}) = {}
      OBVIOUS
    <3>2. SumFunctionOnSet(f, {}) = 0 /\ SumFunctionOnSet(g, {}) = 0
      BY SumEmpty
    <3> HIDE DEF Covers
    <3>3. QED
      BY <2>4, <3>1, <3>2
  <2>6. PICK x \in u : x = Pick(u)
    BY <2>5, PickIn
  <2> DEFINE v == u \ {x}
  <2>7. v \in SUBSET N /\ x \notin v /\ u = v \cup {x} /\ x \in N
    BY <2>4
  <2>8. IsFiniteSet(v) /\ Cardinality(v) < Cardinality(u)
    BY <2>4, Without
  <2>9. Cardinality(v) \in Nat /\ Cardinality(u) \in Nat
    BY <2>4, <2>8, FS_CardinalityType
  <2> HIDE DEF v
  <2>10. v \notin C
    BY <2>3, <2>8, <2>9
  <2>11. Covers(u) = Covers(v) \cup {m[x]} /\ m[x] \notin Covers(v) /\ m[x] \in T
    <3>1. \A y \in v : m[y] # m[x]
      BY <2>7
    <3>2. QED
      BY <2>7, <3>1
  <2>12. /\ \A y \in u : f[y] \in Int
         /\ \A y \in Covers(u) : g[y] \in Int
         /\ f[x] \in Int /\ g[m[x]] \in Int /\ f[x] + g[m[x]] >= 0
         /\ IsFiniteSet(Covers(v)) /\ Covers(v) \subseteq Covers(u)
    <3>1. \A y \in u : f[y] \in Int
      BY <2>4
    <3>2. x \in S /\ f[x] < 0 /\ f[x] \in Int /\ m[x] \in T /\ f[x] + g[m[x]] >= 0
      BY <2>7
    <3> HIDE DEF Covers, N
    <3>3. Covers(u) \in SUBSET T /\ IsFiniteSet(Covers(v))
      BY <1>1, <2>4, <2>7
    <3>4. \A y \in Covers(u) : g[y] \in Int
      BY <3>3
    <3>5. QED
      BY <2>11, <3>1, <3>2, <3>3, <3>4
  <2> HIDE DEF Covers, N
  <2>13. /\ SumFunctionOnSet(f, u) = f[x] + SumFunctionOnSet(f, v)
         /\ SumFunctionOnSet(g, Covers(u)) = g[m[x]] + SumFunctionOnSet(g, Covers(v))
    BY <2>7, <2>8, <2>11, <2>12, SumAdd
  <2>14. PICK a \in Int, b \in Int :
            a = SumFunctionOnSet(f, v) /\ b = SumFunctionOnSet(g, Covers(v))
    BY <2>7, <2>8, <2>12, SumInt
  <2>15. a + b >= 0
    BY <2>7, <2>10, <2>14 DEF C
  <2>16. (f[x] + a) + (g[m[x]] + b) >= 0
    BY <2>12, <2>15
  <2>17. QED
    BY <2>4, <2>13, <2>14, <2>16
<1>3. SumFunctionOnSet(f, N) <= SumFunctionOnSet(f, S)
  <2>1. \A x \in S \ N : f[x] >= 0
    OBVIOUS
  <2> HIDE DEF N
  <2>2. QED
    BY <1>1, <2>1, SumPart
<1>4. N \in SUBSET N
  OBVIOUS
<1>5. SumFunctionOnSet(f, N) + SumFunctionOnSet(g, Covers(N)) >= 0
  BY <1>2, <1>4
<1> HIDE DEF Covers, N, C
<1>6. SumFunctionOnSet(g, Covers(N)) <= SumFunctionOnSet(g, T)
  <2>1. Covers(N) \in SUBSET T
    BY <1>1, <1>4
  <2>2. (\A y \in T : g[y] \in Int) /\ \A y \in T \ Covers(N) : g[y] >= 0
    OBVIOUS
  <2>3. QED
    BY <2>1, <2>2, SumPart
<1>7. PICK a \in Int, b \in Int, c \in Int, d \in Int :
         /\ a = SumFunctionOnSet(f, N) /\ b = SumFunctionOnSet(g, Covers(N))
         /\ c = SumFunctionOnSet(f, S) /\ d = SumFunctionOnSet(g, T)
  <2>1. /\ \A x \in N : f[x] \in Int
        /\ \A y \in Covers(N) : g[y] \in Int
        /\ \A y \in T : g[y] \in Int
        /\ IsFiniteSet(N) /\ IsFiniteSet(Covers(N))
    BY <1>1, <1>4
  <2>2. QED
    BY <2>1, SumInt
<1>8. QED
  BY <1>3, <1>5, <1>6, <1>7

\* The sum of one amount, and of the opposite amounts.
LEMMA SumOne == ASSUME NEW f, NEW y, f[y] \in Int PROVE SumFunctionOnSet(f, {y}) = f[y]
<1>1. IsFiniteSet({}) /\ y \notin {} /\ \A x \in {} \cup {y} : f[x] \in Int
  BY FS_EmptySet
<1>2. SumFunctionOnSet(f, {} \cup {y}) = f[y] + SumFunctionOnSet(f, {})
  BY <1>1, SumAdd
<1>3. {} \cup {y} = {y}
  OBVIOUS
<1> QED
  BY <1>2, <1>3, SumEmpty

LEMMA SumOpposite ==
    ASSUME NEW f, NEW g, NEW S, IsFiniteSet(S), \A x \in S : f[x] \in Int /\ g[x] = -f[x]
    PROVE  SumFunctionOnSet(g, S) = -SumFunctionOnSet(f, S)
<1> DEFINE C == {u \in SUBSET S : SumFunctionOnSet(g, u) # -SumFunctionOnSet(f, u)}
<1>1. SUFFICES ASSUME C # {} PROVE FALSE
  OBVIOUS
<1>2. \A u \in C : IsFiniteSet(u)
  BY FS_Subset
<1>3. PICK u \in C : \A v \in C : Cardinality(u) <= Cardinality(v)
  BY <1>1, <1>2, Smallest
<1> HIDE DEF C
<1>4. u \in SUBSET S /\ IsFiniteSet(u) /\ SumFunctionOnSet(g, u) # -SumFunctionOnSet(f, u)
  BY <1>2 DEF C
<1>5. u # {}
  BY <1>4, SumEmpty
<1>6. PICK x \in u : x = Pick(u)
  BY <1>5, PickIn
<1> DEFINE v == u \ {x}
<1>7. v \in SUBSET S /\ IsFiniteSet(v) /\ Cardinality(v) < Cardinality(u)
  BY <1>4, Without
<1>8. Cardinality(v) \in Nat /\ Cardinality(u) \in Nat
  BY <1>4, <1>7, FS_CardinalityType
<1>9. /\ SumFunctionOnSet(f, u) = f[x] + SumFunctionOnSet(f, v)
      /\ SumFunctionOnSet(g, u) = g[x] + SumFunctionOnSet(g, v)
      /\ f[x] \in Int /\ g[x] = -f[x]
  BY <1>4, <1>5, <1>6, SumPick
<1>10. SumFunctionOnSet(f, v) \in Int
  <2>1. \A y \in v : f[y] \in Int
    BY <1>7
  <2> QED
    BY <1>7, <2>1, SumInt
<1> HIDE DEF v
<1>11. v \notin C
  BY <1>3, <1>7, <1>8
<1>12. SumFunctionOnSet(g, v) = -SumFunctionOnSet(f, v)
  BY <1>7, <1>11 DEF C
<1>13. PICK a \in Int, b \in Int : a = SumFunctionOnSet(f, v) /\ b = f[x]
  BY <1>9, <1>10
<1> QED
  BY <1>4, <1>9, <1>12, <1>13

\* Ones add up to the number of them.
LEMMA SumOnes ==
    ASSUME NEW f, NEW S, IsFiniteSet(S), \A x \in S : f[x] = 1
    PROVE  SumFunctionOnSet(f, S) = Cardinality(S)
<1> DEFINE C == {u \in SUBSET S : SumFunctionOnSet(f, u) # Cardinality(u)}
<1>1. SUFFICES ASSUME C # {} PROVE FALSE
  OBVIOUS
<1>2. \A u \in C : IsFiniteSet(u)
  BY FS_Subset
<1>3. PICK u \in C : \A v \in C : Cardinality(u) <= Cardinality(v)
  BY <1>1, <1>2, Smallest
<1> HIDE DEF C
<1>4. u \in SUBSET S /\ IsFiniteSet(u) /\ SumFunctionOnSet(f, u) # Cardinality(u)
  BY <1>2 DEF C
<1>5. u # {}
  BY <1>4, SumEmpty, FS_EmptySet
<1>6. PICK x \in u : x = Pick(u)
  BY <1>5, PickIn
<1> DEFINE v == u \ {x}
<1>7. v \in SUBSET S /\ IsFiniteSet(v) /\ Cardinality(v) < Cardinality(u)
  BY <1>4, Without
<1>8. Cardinality(v) \in Nat /\ Cardinality(u) \in Nat /\ Cardinality(v) = Cardinality(u) - 1
  BY <1>4, <1>7, FS_CardinalityType, FS_RemoveElement
<1>9. SumFunctionOnSet(f, u) = f[x] + SumFunctionOnSet(f, v) /\ f[x] = 1
  BY <1>4, <1>5, <1>6, SumPick
<1> HIDE DEF v
<1>10. v \notin C
  BY <1>3, <1>7, <1>8
<1>11. SumFunctionOnSet(f, v) = Cardinality(v)
  BY <1>7, <1>10 DEF C
<1> QED
  BY <1>4, <1>8, <1>9, <1>11
===============================================================================
