---------------------------------- MODULE Sums ----------------------------------
(***************************************************************************)
(* Sums over finite sets: what SumFunctionOnSet of the community modules   *)
(* computes, from its recursive definition.  Every induction here is over  *)
(* the finite subsets of a set, as the existence of a smallest one in any  *)
(* set of them that is not empty.                                          *)
(***************************************************************************)
EXTENDS Functions, FiniteSetTheorems, TLAPS

-----------------------------------------------------------------------------

\* Induction on the finite subsets, in the form the provers can use: a set of finite
\* sets that is not empty has a member none of whose strict subsets is in it.
LEMMA SmallestSet ==
  ASSUME NEW S, IsFiniteSet(S), NEW T \in SUBSET SUBSET S, T # {}
  PROVE  \E s \in T : \A u \in T : u \subseteq s => u = s
<1>1. FiniteSubsetsOf(S) = SUBSET S
  BY FS_FiniteSubsetsOfFinite
<1>2. IsWellFoundedOn(StrictSubsetOrdering(S), SUBSET S)
  BY <1>1, FS_StrictSubsetOrderingWellFounded
<1>3. PICK s \in T : \A u \in T : <<u, s>> \notin StrictSubsetOrdering(S)
  BY <1>2, WFMin
<1> QED BY <1>3 DEF StrictSubsetOrdering

\* The element a sum takes first.
First(s) == CHOOSE x \in s : TRUE

\* What a sum over S is defined by.
IsSum(g, fun, S) ==
    g = [s \in SUBSET S |-> IF s = {} THEN 0 ELSE fun[First(s)] + g[s \ {First(s)}]]

\* A sum is the value at S of a function that satisfies that equation, if there is one.
LEMMA SumIsChosen ==
  ASSUME NEW fun, NEW S
  PROVE  SumFunctionOnSet(fun, S) = (CHOOSE g : IsSum(g, fun, S))[S]
  BY DEF SumFunctionOnSet, FoldFunctionOnSet, MapThenFoldSet, IsSum, First

\* A solution for S is one for the subsets of S.
LEMMA SumRestricted ==
  ASSUME NEW fun, NEW S, NEW T \in SUBSET S, NEW g, IsSum(g, fun, S)
  PROVE  IsSum([s \in SUBSET T |-> g[s]], fun, T)
<1> DEFINE h == [s \in SUBSET T |-> g[s]]
<1>1. ASSUME NEW s \in SUBSET T
      PROVE  h[s] = IF s = {} THEN 0 ELSE fun[First(s)] + h[s \ {First(s)}]
  <2>1. s \in SUBSET S /\ s \ {First(s)} \in SUBSET T
    OBVIOUS
  <2>2. g[s] = IF s = {} THEN 0 ELSE fun[First(s)] + g[s \ {First(s)}]
    BY <2>1 DEF IsSum
  <2> QED BY <2>1, <2>2
<1>2. h = [s \in SUBSET T |-> IF s = {} THEN 0 ELSE fun[First(s)] + h[s \ {First(s)}]]
  BY <1>1
<1> QED BY <1>2 DEF IsSum

\* There is no other solution.
LEMMA SumUnique ==
  ASSUME NEW fun, NEW S, IsFiniteSet(S), NEW g, NEW h, IsSum(g, fun, S), IsSum(h, fun, S)
  PROVE  g = h
<1> DEFINE Bad == {s \in SUBSET S : g[s] # h[s]}
<1>1. ASSUME Bad # {} PROVE FALSE
  <2>0. Bad \in SUBSET SUBSET S
    OBVIOUS
  <2>1. PICK s \in Bad : \A u \in Bad : u \subseteq s => u = s
    <3> HIDE DEF Bad
    <3> QED BY <1>1, <2>0, SmallestSet
  <2>2. s \in SUBSET S /\ g[s] # h[s]
    BY <2>1
  <2>3. g[s] = IF s = {} THEN 0 ELSE fun[First(s)] + g[s \ {First(s)}]
    BY <2>2 DEF IsSum
  <2>4. h[s] = IF s = {} THEN 0 ELSE fun[First(s)] + h[s \ {First(s)}]
    BY <2>2 DEF IsSum
  <2>5. s # {}
    BY <2>2, <2>3, <2>4
  <2>6. First(s) \in s
    BY <2>5 DEF First
  <2>7. s \ {First(s)} \notin Bad
    <3>1. s \ {First(s)} \subseteq s /\ s \ {First(s)} # s
      BY <2>6
    <3> QED BY <2>1, <3>1
  <2>8. g[s \ {First(s)}] = h[s \ {First(s)}]
    BY <2>2, <2>7
  <2> QED BY <2>2, <2>3, <2>4, <2>8
<1>2. \A s \in SUBSET S : g[s] = h[s]
  BY <1>1
<1>3. DOMAIN g = SUBSET S /\ DOMAIN h = SUBSET S /\ g = [s \in DOMAIN g |-> g[s]] /\ h = [s \in DOMAIN h |-> h[s]]
  BY DEF IsSum
<1> QED BY <1>2, <1>3

\* Every finite set has a sum.
LEMMA SumExists ==
  ASSUME NEW fun, NEW S, IsFiniteSet(S)
  PROVE  \E g : IsSum(g, fun, S)
<1> DEFINE Bad == {s \in SUBSET S : ~\E g : IsSum(g, fun, s)}
<1>1. ASSUME Bad # {} PROVE FALSE
  <2>0. Bad \in SUBSET SUBSET S
    OBVIOUS
  <2>1. PICK T \in Bad : \A u \in Bad : u \subseteq T => u = T
    <3> HIDE DEF Bad
    <3> QED BY <1>1, <2>0, SmallestSet
  <2>2. T \in SUBSET S /\ ~\E g : IsSum(g, fun, T)
    BY <2>1
  <2> DEFINE Of(u) == CHOOSE g : IsSum(g, fun, u)
             Val(s) == IF s = {} THEN 0 ELSE fun[First(s)] + Of(s \ {First(s)})[s \ {First(s)}]
             G == [s \in SUBSET T |-> Val(s)]
  <2>3. ASSUME NEW s \in SUBSET T, s # T PROVE IsSum(Of(s), fun, s)
    <3>1. s \notin Bad
      BY <2>1, <2>3
    <3>2. s \in SUBSET S
      BY <2>2
    <3>3. \E g : IsSum(g, fun, s)
      BY <3>1, <3>2
    <3> QED BY <3>3
  <2>4. ASSUME NEW s \in SUBSET T, s # T, s # {}
        PROVE  Of(s)[s] = Val(s)
    <3> DEFINE r == s \ {First(s)}
    <3>1. First(s) \in s
      BY <2>4 DEF First
    <3>2. r \in SUBSET s /\ r \in SUBSET T /\ r # T
      BY <2>4, <3>1
    <3>3. Of(s)[s] = fun[First(s)] + Of(s)[r]
      <4>1. IsSum(Of(s), fun, s)
        BY <2>3, <2>4
      <4> HIDE DEF Of
      <4> QED BY <2>4, <4>1 DEF IsSum
    <3>4. IsSum([u \in SUBSET r |-> Of(s)[u]], fun, r)
      BY <2>3, <2>4, <3>2, SumRestricted
    <3>5. IsFiniteSet(r)
      BY <2>2, <3>2, FS_Subset
    <3>6. IsSum(Of(r), fun, r)
      BY <2>3, <3>2
    <3>7. Of(r) = [u \in SUBSET r |-> Of(s)[u]]
      <4> HIDE DEF r, Of
      <4> QED BY <3>4, <3>5, <3>6, SumUnique
    <3>8. Of(r)[r] = Of(s)[r]
      <4> HIDE DEF r, Of
      <4> QED BY <3>7
    <3> QED BY <2>4, <3>3, <3>8
  <2>5. ASSUME NEW s \in SUBSET T
        PROVE  G[s] = IF s = {} THEN 0 ELSE fun[First(s)] + G[s \ {First(s)}]
    <3>1. CASE s = {}
      BY <3>1
    <3>2. CASE s # {}
      <4> DEFINE r == s \ {First(s)}
      <4>1. First(s) \in s
        BY <3>2 DEF First
      <4>2. r \in SUBSET T /\ r # T
        BY <4>1
      <4>3. Of(r)[r] = Val(r)
        <5>1. CASE r # {}
          BY <4>2, <5>1, <2>4
        <5>2. CASE r = {}
          <6>1. IsSum(Of(r), fun, r)
            BY <4>2, <2>3
          <6> HIDE DEF r, Of
          <6>2. Of(r)[r] = 0
            BY <5>2, <6>1 DEF IsSum
          <6>3. Val(r) = 0
            BY <5>2
          <6> QED BY <6>2, <6>3
        <5> QED BY <5>1, <5>2
      <4> HIDE DEF Of
      <4> QED BY <3>2, <4>2, <4>3
    <3> QED BY <3>1, <3>2
  <2>6. IsSum(G, fun, T)
    <3> HIDE DEF Val
    <3>1. G = [s \in SUBSET T |-> G[s]]
      OBVIOUS
    <3> HIDE DEF G
    <3>2. [s \in SUBSET T |-> G[s]] = [s \in SUBSET T |-> IF s = {} THEN 0 ELSE fun[First(s)] + G[s \ {First(s)}]]
      BY <2>5
    <3> QED BY <3>1, <3>2 DEF IsSum
  <2> HIDE DEF G
  <2> QED BY <2>2, <2>6
<1>2. S \notin Bad
  BY <1>1
<1> QED BY <1>2

\* The sum over nothing is 0, and the other sums are numbers and can be taken apart at
\* the element that CHOOSE picks.
LEMMA SumStep ==
  ASSUME NEW S, IsFiniteSet(S), NEW fun
  PROVE  /\ SumFunctionOnSet(fun, {}) = 0
         /\ S # {} => SumFunctionOnSet(fun, S) = fun[First(S)] + SumFunctionOnSet(fun, S \ {First(S)})
<1> DEFINE Of(u) == CHOOSE g : IsSum(g, fun, u)
<1>1. \A u : SumFunctionOnSet(fun, u) = Of(u)[u]
  BY SumIsChosen
<1>2. ASSUME NEW u, IsFiniteSet(u) PROVE IsSum(Of(u), fun, u)
  BY <1>2, SumExists
<1> HIDE DEF Of
<1>3. Of({})[{}] = 0
  <2>1. IsSum(Of({}), fun, {})
    BY <1>2, FS_EmptySet
  <2> QED BY <2>1 DEF IsSum
<1>4. ASSUME S # {} PROVE Of(S)[S] = fun[First(S)] + Of(S \ {First(S)})[S \ {First(S)}]
  <2> DEFINE r == S \ {First(S)}
  <2>1. IsFiniteSet(r)
    BY FS_RemoveElement
  <2>2. IsSum(Of(S), fun, S) /\ IsSum(Of(r), fun, r)
    BY <1>2, <2>1
  <2>3. Of(S)[S] = fun[First(S)] + Of(S)[r]
    BY <1>4, <2>2 DEF IsSum
  <2>4. r \in SUBSET S
    OBVIOUS
  <2> HIDE DEF r
  <2>5. Of(r) = [u \in SUBSET r |-> Of(S)[u]]
    <3>1. IsSum([u \in SUBSET r |-> Of(S)[u]], fun, r)
      BY <2>2, <2>4, SumRestricted
    <3> QED BY <2>1, <2>2, <3>1, SumUnique
  <2>6. Of(r)[r] = Of(S)[r]
    BY <2>5
  <2> QED BY <2>3, <2>6 DEF r
<1> QED BY <1>1, <1>3, <1>4

\* A sum of integers is an integer.
LEMMA SumType ==
  ASSUME NEW S, IsFiniteSet(S), NEW fun, \A x \in S : fun[x] \in Int
  PROVE  SumFunctionOnSet(fun, S) \in Int
<1> DEFINE Bad == {s \in SUBSET S : SumFunctionOnSet(fun, s) \notin Int}
<1>1. ASSUME Bad # {} PROVE FALSE
  <2>0. Bad \in SUBSET SUBSET S
    OBVIOUS
  <2>1. PICK s \in Bad : \A u \in Bad : u \subseteq s => u = s
    <3> HIDE DEF Bad
    <3> QED BY <1>1, <2>0, SmallestSet
  <2>2. s \in SUBSET S /\ IsFiniteSet(s) /\ SumFunctionOnSet(fun, s) \notin Int
    BY <2>1, FS_Subset
  <2>3. s # {}
    <3>1. SumFunctionOnSet(fun, {}) = 0
      BY SumStep
    <3> QED BY <2>2, <3>1
  <2>4. First(s) \in s
    BY <2>3 DEF First
  <2>5. SumFunctionOnSet(fun, s) = fun[First(s)] + SumFunctionOnSet(fun, s \ {First(s)})
    BY <2>2, <2>3, SumStep
  <2>6. SumFunctionOnSet(fun, s \ {First(s)}) \in Int
    <3>1. s \ {First(s)} \subseteq s /\ s \ {First(s)} # s
      BY <2>4
    <3> QED BY <2>1, <2>2, <3>1
  <2>7. fun[First(s)] \in Int
    BY <2>2, <2>4
  <2> QED BY <2>2, <2>5, <2>6, <2>7
<1> QED BY <1>1

\* A sum can be taken apart at any of its elements.
LEMMA SumRemove ==
  ASSUME NEW S, IsFiniteSet(S), NEW fun, \A x \in S : fun[x] \in Int, NEW x \in S
  PROVE  SumFunctionOnSet(fun, S) = fun[x] + SumFunctionOnSet(fun, S \ {x})
<1> DEFINE Sum(s) == SumFunctionOnSet(fun, s)
           Bad == {s \in SUBSET S : \E y \in s : Sum(s) # fun[y] + Sum(s \ {y})}
<1>0. ASSUME NEW s \in SUBSET S PROVE IsFiniteSet(s) /\ Sum(s) \in Int
  BY FS_Subset, SumType
<1>1. ASSUME Bad # {} PROVE FALSE
  <2>0. Bad \in SUBSET SUBSET S
    OBVIOUS
  <2>1. PICK s \in Bad : \A u \in Bad : u \subseteq s => u = s
    <3> HIDE DEF Bad
    <3> QED BY <1>1, <2>0, SmallestSet
  <2>2. s \in SUBSET S /\ \E y \in s : Sum(s) # fun[y] + Sum(s \ {y})
    BY <2>1
  <2>3. PICK y \in s : Sum(s) # fun[y] + Sum(s \ {y})
    BY <2>2
  <2>4. PICK f \in s : f = First(s)
    BY <2>3 DEF First
  <2>5. Sum(s) = fun[f] + Sum(s \ {f})
    BY <1>0, <2>2, <2>3, <2>4, SumStep
  <2>6. y # f
    BY <2>3, <2>5
  <2>7. s \ {y} \notin Bad /\ s \ {f} \notin Bad
    <3>1. /\ s \ {y} \subseteq s /\ s \ {y} # s /\ s \ {f} \subseteq s /\ s \ {f} # s
      OBVIOUS
    <3> QED BY <2>1, <3>1
  <2> DEFINE r == s \ {y, f}
  <2>8. (s \ {y}) \ {f} = r /\ (s \ {f}) \ {y} = r /\ f \in s \ {y} /\ y \in s \ {f}
    BY <2>6
  <2>9. Sum(s \ {f}) = fun[y] + Sum(r) /\ Sum(s \ {y}) = fun[f] + Sum(r)
    <3>1. s \ {y} \in SUBSET S /\ s \ {f} \in SUBSET S
      BY <2>2
    <3> HIDE DEF Sum
    <3>2. \A z \in s \ {y} : Sum(s \ {y}) = fun[z] + Sum((s \ {y}) \ {z})
      BY <2>7, <3>1
    <3>3. \A z \in s \ {f} : Sum(s \ {f}) = fun[z] + Sum((s \ {f}) \ {z})
      BY <2>7, <3>1
    <3> QED BY <2>8, <3>2, <3>3
  <2>10. r \in SUBSET S /\ fun[y] \in Int /\ fun[f] \in Int
    BY <2>2
  <2>11. Sum(r) \in Int
    BY <1>0, <2>10
  <2> HIDE DEF Sum, r
  <2> QED BY <2>3, <2>5, <2>9, <2>10, <2>11
<1>2. S \notin Bad
  BY <1>1
<1> QED BY <1>2

\* It depends on the function only over the set summed over.
LEMMA SumSame ==
  ASSUME NEW S, IsFiniteSet(S), NEW fun, NEW other, \A x \in S : fun[x] = other[x]
  PROVE  SumFunctionOnSet(fun, S) = SumFunctionOnSet(other, S)
<1> DEFINE Bad == {s \in SUBSET S : SumFunctionOnSet(fun, s) # SumFunctionOnSet(other, s)}
<1>1. ASSUME Bad # {} PROVE FALSE
  <2>0. Bad \in SUBSET SUBSET S
    OBVIOUS
  <2>1. PICK s \in Bad : \A u \in Bad : u \subseteq s => u = s
    <3> HIDE DEF Bad
    <3> QED BY <1>1, <2>0, SmallestSet
  <2>2. s \in SUBSET S /\ IsFiniteSet(s) /\ SumFunctionOnSet(fun, s) # SumFunctionOnSet(other, s)
    BY <2>1, FS_Subset
  <2>3. s # {}
    BY <2>2, SumStep, FS_EmptySet
  <2>4. First(s) \in s
    BY <2>3 DEF First
  <2>5. /\ SumFunctionOnSet(fun, s) = fun[First(s)] + SumFunctionOnSet(fun, s \ {First(s)})
        /\ SumFunctionOnSet(other, s) = other[First(s)] + SumFunctionOnSet(other, s \ {First(s)})
    BY <2>2, <2>3, SumStep
  <2>6. SumFunctionOnSet(fun, s \ {First(s)}) = SumFunctionOnSet(other, s \ {First(s)})
    <3>1. s \ {First(s)} \subseteq s /\ s \ {First(s)} # s
      BY <2>4
    <3> QED BY <2>1, <2>2, <3>1
  <2> QED BY <2>2, <2>4, <2>5, <2>6
<1> QED BY <1>1

\* What x counts for in the sum over S.
Share(fun, S, x) == IF x \in S THEN fun[x] ELSE 0

\* A set and a function that change at one place only: the sum changes by what that
\* place counts for.
LEMMA SumMove ==
  ASSUME NEW S, IsFiniteSet(S), NEW T, NEW x, T \ {x} = S \ {x},
         NEW fun, NEW other,
         \A y \in S \cup T : fun[y] \in Int /\ other[y] \in Int,
         \A y \in S \ {x} : fun[y] = other[y]
  PROVE  /\ SumFunctionOnSet(fun, S) \in Int
         /\ SumFunctionOnSet(other, T) = SumFunctionOnSet(fun, S) + Share(other, T, x) - Share(fun, S, x)
<1> DEFINE R == S \ {x}
<1>1. IsFiniteSet(R)
  BY FS_RemoveElement
<1>2. SumFunctionOnSet(fun, R) = SumFunctionOnSet(other, R) /\ SumFunctionOnSet(fun, R) \in Int
  BY <1>1, SumSame, SumType
<1>3. ASSUME NEW U, NEW f, U \ {x} = R, \A y \in U : f[y] \in Int
      PROVE  SumFunctionOnSet(f, U) = SumFunctionOnSet(f, R) + Share(f, U, x)
  <2>1. \A y \in R : f[y] \in Int
    BY <1>3
  <2>2. SumFunctionOnSet(f, R) \in Int
    BY <1>1, <2>1, SumType
  <2>3. CASE x \in U
    <3>1. IsFiniteSet(U)
      <4>1. U = R \cup {x}
        BY <1>3, <2>3
      <4>2. IsFiniteSet(R \cup {x})
        BY <1>1, FS_AddElement
      <4> QED BY <4>1, <4>2
    <3>2. SumFunctionOnSet(f, U) = f[x] + SumFunctionOnSet(f, U \ {x})
      BY <1>3, <2>3, <3>1, SumRemove
    <3>3. f[x] \in Int
      BY <1>3, <2>3
    <3>4. Share(f, U, x) = f[x]
      BY <2>3 DEF Share
    <3>5. SumFunctionOnSet(f, U) = f[x] + SumFunctionOnSet(f, R)
      BY <1>3, <3>2
    <3> QED BY <2>2, <3>3, <3>4, <3>5
  <2>4. CASE x \notin U
    <3>1. U = R
      BY <1>3, <2>4
    <3> QED BY <2>2, <2>4, <3>1 DEF Share
  <2> QED BY <2>3, <2>4
<1>4. SumFunctionOnSet(fun, S) = SumFunctionOnSet(fun, R) + Share(fun, S, x)
  BY <1>3
<1>5. SumFunctionOnSet(other, T) = SumFunctionOnSet(other, R) + Share(other, T, x)
  BY <1>3
<1>6. Share(fun, S, x) \in Int /\ Share(other, T, x) \in Int
  BY DEF Share
<1> QED BY <1>2, <1>4, <1>5, <1>6
==============================================================================
