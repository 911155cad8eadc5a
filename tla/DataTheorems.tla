---------------------------- MODULE DataTheorems ----------------------------
(***************************************************************************)
(* What the operators the models share return, for every argument: the     *)
(* sums of module FiniteSums, least elements, cardinalities, and tables    *)
(* kept as sequences.  The fold under a sum is a recursive function; its   *)
(* equation and the laws of sums are proved by minimal counterexample,     *)
(* with the well-foundedness of strict inclusion on finite sets.           *)
(***************************************************************************)
EXTENDS FiniteSums, Integers, FiniteSetTheorems, SequenceTheorems, TLAPS

\* The element MapThenSumSet takes first.
First(s) == CHOOSE x \in s : TRUE

\* One unfolding of the recursive function under MapThenSumSet.
Unfolded(f, g, S) ==
    [s \in SUBSET S |-> IF s = {} THEN 0 ELSE f[First(s)] + g[s \ {First(s)}]]

Solves(f, g, S) == g = Unfolded(f, g, S)

Solution(f, S) == CHOOSE g : Solves(f, g, S)

\* SumOver is the value at S of a function that solves the recursion.
LEMMA SumIsSolution ==
    ASSUME NEW f, NEW S
    PROVE  SumOver(f, S) = Solution(f, S)[S]
BY DEF SumOver, Solution, Solves, Unfolded, First, MapThenSumSet, MapThenFoldSet

\* The element taken first is one of the set.
LEMMA FirstIn == ASSUME NEW s, s # {} PROVE First(s) \in s
BY DEF First

\* A family of subsets of a finite set has a minimal member: the form in
\* which the lemmas below use induction.
LEMMA MinimalSubset ==
    ASSUME NEW S, IsFiniteSet(S), NEW B \in SUBSET SUBSET S, B # {}
    PROVE  \E s \in B : \A t \in SUBSET s : t # s => t \notin B
<1>1. IsWellFoundedOn(StrictSubsetOrdering(S), SUBSET S)
  BY FS_StrictSubsetOrderingWellFounded, FS_FiniteSubsetsOfFinite
<1>2. PICK s \in B : \A t \in B : <<t, s>> \notin StrictSubsetOrdering(S)
  BY <1>1, WFMin, Zenon
<1> QED BY <1>2 DEF StrictSubsetOrdering

\* Two solutions, one over a part of the other's set, agree on that part.
LEMMA SolutionsAgree ==
    ASSUME NEW f, NEW S, NEW R, IsFiniteSet(S), R \subseteq S,
           NEW g, Solves(f, g, S), NEW h, Solves(f, h, R)
    PROVE  \A s \in SUBSET R : g[s] = h[s]
<1> DEFINE B == {s \in SUBSET R : g[s] # h[s]}
<1> SUFFICES ASSUME B # {} PROVE FALSE
  OBVIOUS
<1>0. IsFiniteSet(R)
  BY FS_Subset
<1>1. PICK s \in B : \A t \in SUBSET s : t # s => t \notin B
  <2>1. B \in SUBSET SUBSET R
    OBVIOUS
  <2> HIDE DEF B
  <2> QED BY <1>0, <2>1, MinimalSubset
<1>2. s # {}
  BY DEF Solves, Unfolded
<1>3. First(s) \in s
  BY <1>2, FirstIn
<1> DEFINE t == s \ {First(s)}
<1>4. t \in SUBSET R /\ g[t] = h[t]
  BY <1>1, <1>3
<1>5. g[s] = f[First(s)] + g[t] /\ h[s] = f[First(s)] + h[t]
  BY <1>2 DEF Solves, Unfolded
<1> QED BY <1>4, <1>5

\* The recursion has a solution over every finite set.
LEMMA SolutionExists ==
    ASSUME NEW f, NEW S, IsFiniteSet(S)
    PROVE  Solves(f, Solution(f, S), S)
<1> DEFINE B == {s \in SUBSET S : ~ Solves(f, Solution(f, s), s)}
<1> SUFFICES ASSUME B # {} PROVE FALSE
  OBVIOUS
<1>1. PICK s \in B : \A t \in SUBSET s : t # s => t \notin B
  <2>1. B \in SUBSET SUBSET S
    OBVIOUS
  <2> HIDE DEF B
  <2> QED BY <2>1, MinimalSubset
<1>2. ASSUME NEW t \in SUBSET s, t # s PROVE Solves(f, Solution(f, t), t)
  BY <1>1, <1>2
<1> DEFINE h(t) == Solution(f, t)[t]
           G == [t \in SUBSET s |->
                    IF t = {} THEN 0 ELSE f[First(t)] + h(t \ {First(t)})]
<1>3. ASSUME NEW u \in SUBSET s, u # s PROVE G[u] = h(u)
  <2>1. Solves(f, Solution(f, u), u)
    BY <1>2, <1>3
  <2>2. CASE u = {}
    BY <2>1, <2>2 DEF Solves, Unfolded
  <2>3. CASE u # {}
    <3> DEFINE v == u \ {First(u)}
    <3>1. First(u) \in u /\ v \in SUBSET s /\ v # s /\ v \subseteq u
      BY <2>3, <1>3, FirstIn
    <3>2. Solves(f, Solution(f, v), v) /\ IsFiniteSet(u)
      BY <3>1, <1>2, FS_Subset
    <3>3. Solution(f, u)[v] = h(v)
      BY <2>1, <3>1, <3>2, SolutionsAgree
    <3>4. h(u) = f[First(u)] + Solution(f, u)[v]
      BY <2>1, <2>3 DEF Solves, Unfolded
    <3> QED BY <2>3, <3>3, <3>4
  <2> QED BY <2>2, <2>3
<1>4. \A t \in SUBSET s : t # {} => G[t] = f[First(t)] + G[t \ {First(t)}]
  <2> SUFFICES ASSUME NEW t \in SUBSET s, t # {}
               PROVE  G[t] = f[First(t)] + G[t \ {First(t)}]
    OBVIOUS
  <2>1. t \ {First(t)} \in SUBSET s /\ t \ {First(t)} # s
    BY FirstIn
  <2>2. G[t \ {First(t)}] = h(t \ {First(t)})
    BY <2>1, <1>3
  <2> HIDE DEF h
  <2> QED BY <2>2
<1>5. G[{}] = 0
  OBVIOUS
<1>6. G = Unfolded(f, G, s)
  <2> DEFINE U == Unfolded(f, G, s)
  <2>1. ASSUME NEW t \in SUBSET s PROVE G[t] = U[t]
    <3> HIDE DEF G
    <3> QED BY <2>1, <1>4, <1>5 DEF Unfolded
  <2>2. G = [t \in SUBSET s |-> G[t]] /\ U = [t \in SUBSET s |-> U[t]]
    <3> HIDE DEF h
    <3> QED BY DEF Unfolded
  <2> HIDE DEF G, U
  <2>3. [t \in SUBSET s |-> G[t]] = [t \in SUBSET s |-> U[t]]
    BY <2>1
  <2>4. G = U
    BY <2>2, <2>3
  <2> QED BY <2>4 DEF U
<1>7. Solves(f, G, s)
  BY <1>6 DEF Solves
<1> HIDE DEF G
<1>8. Solves(f, Solution(f, s), s)
  BY <1>7 DEF Solution
<1> QED BY <1>1, <1>8

\* Nothing adds up to 0.
LEMMA SumEmpty == ASSUME NEW f PROVE SumOver(f, {}) = 0
<1>1. Solves(f, Solution(f, {}), {})
  BY SolutionExists, FS_EmptySet
<1> QED BY <1>1, SumIsSolution DEF Solves, Unfolded

\* The recursion of MapThenSumSet, as an equation about SumOver.
LEMMA SumFirst ==
    ASSUME NEW f, NEW S, IsFiniteSet(S), S # {}
    PROVE  SumOver(f, S) = f[First(S)] + SumOver(f, S \ {First(S)})
<1> DEFINE R == S \ {First(S)}
<1>0. IsFiniteSet(R)
  BY FS_Subset
<1>1. Solves(f, Solution(f, S), S) /\ Solves(f, Solution(f, R), R)
  BY <1>0, SolutionExists
<1>2. Solution(f, S)[S] = f[First(S)] + Solution(f, S)[R]
  BY <1>1 DEF Solves, Unfolded
<1>3. Solution(f, S)[R] = Solution(f, R)[R]
  <2>1. R \subseteq S /\ R \in SUBSET R
    OBVIOUS
  <2> HIDE DEF R
  <2> QED BY <1>1, <2>1, SolutionsAgree
<1> QED BY <1>2, <1>3, SumIsSolution

\* A sum of natural numbers is one.
LEMMA SumType ==
    ASSUME NEW f, NEW S, IsFiniteSet(S), \A x \in S : f[x] \in Nat
    PROVE  SumOver(f, S) \in Nat
<1> DEFINE B == {s \in SUBSET S : SumOver(f, s) \notin Nat}
<1> SUFFICES ASSUME B # {} PROVE FALSE
  OBVIOUS
<1>1. PICK s \in B : \A t \in SUBSET s : t # s => t \notin B
  <2>1. B \in SUBSET SUBSET S
    OBVIOUS
  <2> HIDE DEF B
  <2> QED BY <2>1, MinimalSubset
<1>2. s # {}
  BY SumEmpty
<1>3. First(s) \in s /\ IsFiniteSet(s) /\ s \subseteq S
  BY <1>2, FirstIn, FS_Subset
<1>4. SumOver(f, s \ {First(s)}) \in Nat
  BY <1>1, <1>3
<1>5. SumOver(f, s) = f[First(s)] + SumOver(f, s \ {First(s)})
  BY <1>2, <1>3, SumFirst
<1> QED BY <1>3, <1>4, <1>5

\* A sum depends on the values over its set only.
LEMMA SumSame ==
    ASSUME NEW f, NEW g, NEW S, IsFiniteSet(S), \A x \in S : f[x] = g[x]
    PROVE  SumOver(f, S) = SumOver(g, S)
<1> DEFINE B == {s \in SUBSET S : SumOver(f, s) # SumOver(g, s)}
<1> SUFFICES ASSUME B # {} PROVE FALSE
  OBVIOUS
<1>1. PICK s \in B : \A t \in SUBSET s : t # s => t \notin B
  <2>1. B \in SUBSET SUBSET S
    OBVIOUS
  <2> HIDE DEF B
  <2> QED BY <2>1, MinimalSubset
<1>2. s # {}
  BY SumEmpty
<1>3. First(s) \in s /\ IsFiniteSet(s) /\ s \subseteq S
  BY <1>2, FirstIn, FS_Subset
<1>4. SumOver(f, s \ {First(s)}) = SumOver(g, s \ {First(s)})
  BY <1>1, <1>3
<1>5. /\ SumOver(f, s) = f[First(s)] + SumOver(f, s \ {First(s)})
      /\ SumOver(g, s) = g[First(s)] + SumOver(g, s \ {First(s)})
  BY <1>2, <1>3, SumFirst
<1> QED BY <1>3, <1>4, <1>5

\* Any element may be taken first.
LEMMA SumRemove ==
    ASSUME NEW f, NEW S, IsFiniteSet(S), \A x \in S : f[x] \in Nat,
           NEW e \in S
    PROVE  SumOver(f, S) = f[e] + SumOver(f, S \ {e})
<1> DEFINE B == {s \in SUBSET S :
                    \E x \in s : SumOver(f, s) # f[x] + SumOver(f, s \ {x})}
<1> SUFFICES ASSUME B # {} PROVE FALSE
  OBVIOUS
<1>1. PICK s \in B : \A t \in SUBSET s : t # s => t \notin B
  <2>1. B \in SUBSET SUBSET S
    OBVIOUS
  <2> HIDE DEF B
  <2> QED BY <2>1, MinimalSubset
<1>2. PICK x \in s : SumOver(f, s) # f[x] + SumOver(f, s \ {x})
  OBVIOUS
<1> DEFINE y == First(s)  both == (s \ {x}) \ {y}
<1>3. y \in s /\ IsFiniteSet(s) /\ s \subseteq S
  BY FirstIn, FS_Subset
<1>4. SumOver(f, s) = f[y] + SumOver(f, s \ {y})
  BY <1>2, <1>3, SumFirst
<1>5. x # y
  BY <1>2, <1>4
<1>6. s \ {y} \notin B /\ s \ {x} \notin B
  BY <1>1, <1>2, <1>3
<1>7. (s \ {y}) \ {x} = both
  OBVIOUS
<1>8. SumOver(f, s \ {y}) = f[x] + SumOver(f, both)
  BY <1>2, <1>3, <1>5, <1>6, <1>7
<1>9. SumOver(f, s \ {x}) = f[y] + SumOver(f, both)
  BY <1>3, <1>5, <1>6
<1>10. SumOver(f, both) \in Nat /\ f[x] \in Nat /\ f[y] \in Nat
  BY <1>3, SumType, FS_Subset
<1> QED BY <1>2, <1>4, <1>8, <1>9, <1>10

\* An element added to the set adds its value.
LEMMA SumAdd ==
    ASSUME NEW f, NEW S, IsFiniteSet(S), NEW e, e \notin S,
           \A x \in S \cup {e} : f[x] \in Nat
    PROVE  SumOver(f, S \cup {e}) = f[e] + SumOver(f, S)
<1>1. IsFiniteSet(S \cup {e}) /\ (S \cup {e}) \ {e} = S
  BY FS_AddElement
<1> QED BY <1>1, SumRemove

\* A change of one value changes the sum by as much.
LEMMA SumChange ==
    ASSUME NEW f, NEW g, NEW S, IsFiniteSet(S), NEW e \in S,
           \A x \in S : f[x] \in Nat /\ g[x] \in Nat,
           \A x \in S \ {e} : f[x] = g[x]
    PROVE  SumOver(g, S) = SumOver(f, S) + (g[e] - f[e])
<1>1. SumOver(f, S) = f[e] + SumOver(f, S \ {e})
  BY SumRemove
<1>2. SumOver(g, S) = g[e] + SumOver(g, S \ {e})
  BY SumRemove
<1>3. IsFiniteSet(S \ {e})
  BY FS_Subset
<1>4. SumOver(f, S \ {e}) = SumOver(g, S \ {e}) /\ SumOver(f, S \ {e}) \in Nat
  BY <1>3, SumSame, SumType
<1> QED BY <1>1, <1>2, <1>4

\* Sums over disjoint sets add up.
LEMMA SumUnion ==
    ASSUME NEW f, NEW A, NEW D, IsFiniteSet(A), IsFiniteSet(D),
           A \cap D = {}, \A x \in A \cup D : f[x] \in Nat
    PROVE  SumOver(f, A \cup D) = SumOver(f, A) + SumOver(f, D)
<1> DEFINE B == {s \in SUBSET D :
                    SumOver(f, A \cup s) # SumOver(f, A) + SumOver(f, s)}
<1> SUFFICES ASSUME B # {} PROVE FALSE
  OBVIOUS
<1>1. PICK s \in B : \A t \in SUBSET s : t # s => t \notin B
  <2>1. B \in SUBSET SUBSET D
    OBVIOUS
  <2> HIDE DEF B
  <2> QED BY <2>1, MinimalSubset
<1>2. SumOver(f, A) \in Nat
  BY SumType
<1>3. s # {}
  <2> SUFFICES ASSUME s = {} PROVE FALSE
    OBVIOUS
  <2>1. A \cup s = A
    OBVIOUS
  <2>2. SumOver(f, s) = 0
    BY SumEmpty
  <2>3. SumOver(f, A \cup s) # SumOver(f, A) + SumOver(f, s)
    BY <1>1
  <2> QED BY <1>2, <2>1, <2>2, <2>3
<1>4. PICK e \in s : TRUE
  BY <1>3
<1> DEFINE t == s \ {e}
<1>5. IsFiniteSet(t) /\ IsFiniteSet(A \cup t) /\ e \notin A \cup t
      /\ e \notin t /\ t \cup {e} = s /\ (A \cup t) \cup {e} = A \cup s
  <2>1. IsFiniteSet(t)
    BY FS_Subset
  <2> QED BY <1>4, <2>1, FS_Union
<1>6. t \notin B
  BY <1>1, <1>4
<1>7. SumOver(f, A \cup t) = SumOver(f, A) + SumOver(f, t)
  BY <1>6
<1>8. /\ SumOver(f, A \cup s) = f[e] + SumOver(f, A \cup t)
      /\ SumOver(f, s) = f[e] + SumOver(f, t)
  <2>1. \A x \in (A \cup t) \cup {e} : f[x] \in Nat
    BY <1>4
  <2>2. \A x \in t \cup {e} : f[x] \in Nat
    BY <2>1
  <2> HIDE DEF t
  <2>3. SumOver(f, (A \cup t) \cup {e}) = f[e] + SumOver(f, A \cup t)
    BY <1>5, <2>1, SumAdd
  <2>4. SumOver(f, t \cup {e}) = f[e] + SumOver(f, t)
    BY <1>5, <2>2, SumAdd
  <2> QED BY <1>5, <2>3, <2>4
<1>9. f[e] \in Nat /\ SumOver(f, t) \in Nat
  <2>1. \A x \in t : f[x] \in Nat
    OBVIOUS
  <2> QED BY <1>4, <1>5, <2>1, SumType
<1>10. SumOver(f, A \cup s) # SumOver(f, A) + SumOver(f, s)
  BY <1>1
<1> QED BY <1>2, <1>7, <1>8, <1>9, <1>10

\* A larger set adds up to at least as much.
LEMMA SumMonotone ==
    ASSUME NEW f, NEW S, NEW T, IsFiniteSet(T), S \subseteq T,
           \A x \in T : f[x] \in Nat
    PROVE  SumOver(f, S) <= SumOver(f, T)
<1> DEFINE R == T \ S
<1>1. /\ IsFiniteSet(S) /\ IsFiniteSet(R) /\ S \cap R = {} /\ S \cup R = T
      /\ \A x \in S \cup R : f[x] \in Nat
  BY FS_Subset
<1> HIDE DEF R
<1>2. SumOver(f, T) = SumOver(f, S) + SumOver(f, R)
  BY <1>1, SumUnion
<1>3. SumOver(f, S) \in Nat /\ SumOver(f, R) \in Nat
  BY <1>1, SumType
<1> QED BY <1>2, <1>3

\* Two sets that cover S add up to at least the sum over S.
LEMMA SumCover ==
    ASSUME NEW f, NEW S, NEW A, NEW D, IsFiniteSet(A), IsFiniteSet(D),
           S \subseteq A \cup D, \A x \in A \cup D : f[x] \in Nat
    PROVE  SumOver(f, S) <= SumOver(f, A) + SumOver(f, D)
<1> DEFINE P == S \cap A  Q == S \ A
<1>1. /\ IsFiniteSet(P) /\ IsFiniteSet(Q) /\ P \cap Q = {} /\ P \cup Q = S
      /\ P \subseteq A /\ Q \subseteq D
      /\ \A x \in P \cup Q : f[x] \in Nat
      /\ \A x \in A : f[x] \in Nat /\ \A y \in D : f[y] \in Nat
  BY FS_Subset
<1> HIDE DEF P, Q
<1>2. SumOver(f, S) = SumOver(f, P) + SumOver(f, Q)
  BY <1>1, SumUnion
<1>3. SumOver(f, P) <= SumOver(f, A) /\ SumOver(f, Q) <= SumOver(f, D)
  BY <1>1, SumMonotone
<1>4. /\ SumOver(f, P) \in Nat /\ SumOver(f, Q) \in Nat
      /\ SumOver(f, A) \in Nat /\ SumOver(f, D) \in Nat
  BY <1>1, SumType
<1> QED BY <1>2, <1>3, <1>4

\* Zeros add up to 0.
LEMMA SumZero ==
    ASSUME NEW f, NEW S, IsFiniteSet(S), \A x \in S : f[x] = 0
    PROVE  SumOver(f, S) = 0
<1> DEFINE B == {s \in SUBSET S : SumOver(f, s) # 0}
<1> SUFFICES ASSUME B # {} PROVE FALSE
  OBVIOUS
<1>1. PICK s \in B : \A t \in SUBSET s : t # s => t \notin B
  <2>1. B \in SUBSET SUBSET S
    OBVIOUS
  <2> HIDE DEF B
  <2> QED BY <2>1, MinimalSubset
<1>2. s # {}
  BY SumEmpty
<1>3. First(s) \in s /\ IsFiniteSet(s) /\ s \subseteq S
  BY <1>2, FirstIn, FS_Subset
<1>4. SumOver(f, s \ {First(s)}) = 0
  BY <1>1, <1>3
<1>5. SumOver(f, s) = f[First(s)] + SumOver(f, s \ {First(s)})
  BY <1>2, <1>3, SumFirst
<1> QED BY <1>3, <1>4, <1>5

-----------------------------------------------------------------------------

\* One more element is at most one more.
LEMMA AddOne ==
    ASSUME NEW S, IsFiniteSet(S), NEW e
    PROVE  /\ IsFiniteSet(S \cup {e}) /\ Cardinality(S \cup {e}) \in Nat
           /\ Cardinality(S \cup {e}) <= Cardinality(S) + 1
<1>1. Cardinality(S) \in Nat
  BY FS_CardinalityType
<1>2. /\ IsFiniteSet(S \cup {e})
      /\ \/ Cardinality(S \cup {e}) = Cardinality(S)
         \/ Cardinality(S \cup {e}) = Cardinality(S) + 1
  BY FS_AddElement
<1> QED BY <1>1, <1>2

\* The sequence t is s with e appended.
Extends(t, s, e) ==
    /\ Len(t) = Len(s) + 1 /\ DOMAIN t = 1..(Len(s) + 1)
    /\ \A i \in 1..Len(s) : t[i] = s[i]
    /\ t[Len(s) + 1] = e

\* The sequence t is s with its i-th element replaced by e.
Differs(t, s, i, e) ==
    /\ Len(t) = Len(s) /\ DOMAIN t = 1..Len(s)
    /\ \A j \in 1..Len(s) : t[j] = IF j = i THEN e ELSE s[j]

\* What Append returns: an INSERT of a row at the end.
LEMMA AppendIs ==
    ASSUME NEW T, NEW s \in Seq(T), NEW e \in T
    PROVE  Append(s, e) \in Seq(T) /\ Extends(Append(s, e), s, e)
<1>1. Append(s, e) \in Seq(T) /\ Len(Append(s, e)) = Len(s) + 1
  BY AppendProperties
<1>2. DOMAIN Append(s, e) = 1..(Len(s) + 1)
  BY <1>1, LenProperties
<1>3. /\ \A i \in 1..Len(s) : Append(s, e)[i] = s[i]
      /\ Append(s, e)[Len(s) + 1] = e
  BY AppendProperties
<1> QED BY <1>1, <1>2, <1>3 DEF Extends

\* What EXCEPT does to one element: an UPDATE of one row.
LEMMA ExceptIs ==
    ASSUME NEW T, NEW s \in Seq(T), NEW i \in DOMAIN s, NEW e \in T
    PROVE  [s EXCEPT ![i] = e] \in Seq(T) /\ Differs([s EXCEPT ![i] = e], s, i, e)
<1>0. i \in 1..Len(s)
  BY LenProperties
<1>1. [s EXCEPT ![i] = e] \in Seq(T) /\ Len([s EXCEPT ![i] = e]) = Len(s)
  BY <1>0, ExceptSeq
<1>2. DOMAIN [s EXCEPT ![i] = e] = 1..Len(s)
  BY <1>1, LenProperties
<1>3. \A j \in 1..Len(s) : [s EXCEPT ![i] = e][j] = IF j = i THEN e ELSE s[j]
  BY <1>0, ExceptSeq
<1> QED BY <1>1, <1>2, <1>3 DEF Differs

\* The least of a non-empty set of places is one of them, and least.
LEMMA MinIn ==
    ASSUME NEW n \in Nat, NEW S \in SUBSET (1..n), S # {}
    PROVE  Min(S) \in S /\ \A x \in S : Min(S) <= x
<1> DEFINE Below(i) == {j \in S : j <= i}  B == {Below(i) : i \in S}
<1>1. IsFiniteSet(S)
  <2>1. IsFiniteSet(1..n)
    BY FS_Interval
  <2> QED BY <2>1, FS_Subset
<1>2. PICK s \in B : \A t \in SUBSET s : t # s => t \notin B
  <2>1. B \in SUBSET SUBSET S /\ B # {}
    OBVIOUS
  <2> HIDE DEF B
  <2> QED BY <1>1, <2>1, MinimalSubset
<1>3. PICK i \in S : s = Below(i)
  BY <1>2
<1>4. ASSUME NEW j \in S PROVE i <= j
  <2> SUFFICES ASSUME j < i PROVE FALSE
    OBVIOUS
  <2>1. Below(j) \in SUBSET s /\ i \in s /\ i \notin Below(j) /\ Below(j) \in B
    <3>1. i \in Int /\ j \in Int /\ \A x \in S : x \in Int
      OBVIOUS
    <3>2. Below(j) \in B
      OBVIOUS
    <3> HIDE DEF B
    <3>3. i \in s /\ i \notin Below(j)
      BY <3>1, <1>3
    <3>4. \A x \in Below(j) : x \in s
      BY <3>1, <1>3
    <3> QED BY <3>2, <3>3, <3>4
  <2> QED BY <2>1, <1>2
<1> QED BY <1>4 DEF Min

\* A set whose elements are all equal has at most one.
LEMMA AtMostOne ==
    ASSUME NEW S, \A x, y \in S : x = y
    PROVE  Cardinality(S) <= 1
<1>1. CASE S = {}
  <2>1. Cardinality(S) = 0
    BY <1>1, FS_EmptySet
  <2> QED BY <2>1
<1>2. CASE S # {}
  <2>1. PICK x : S = {x}
    BY <1>2
  <2>2. Cardinality(S) = 1
    BY <2>1, FS_Singleton
  <2> QED BY <2>2
<1> QED BY <1>1, <1>2

\* A non-empty finite set with integer keys has an element of lowest key.
LEMMA LowestKey ==
    ASSUME NEW S, IsFiniteSet(S), S # {}, NEW key, \A x \in S : key[x] \in Int
    PROVE  \E m \in S : \A x \in S : key[x] >= key[m]
<1> DEFINE Lowest(s, m) == \A x \in s : key[x] >= key[m]
           B == {s \in SUBSET S : s # {} /\ ~ \E m \in s : Lowest(s, m)}
<1> SUFFICES ASSUME B # {} PROVE FALSE
  OBVIOUS
<1>1. PICK s \in B : \A t \in SUBSET s : t # s => t \notin B
  <2>1. B \in SUBSET SUBSET S
    OBVIOUS
  <2> HIDE DEF B
  <2> QED BY <2>1, MinimalSubset
<1>2. PICK e \in s : TRUE
  OBVIOUS
<1> DEFINE t == s \ {e}
<1>3. \A x \in s : key[x] \in Int
  OBVIOUS
<1>4. t # {}
  <2> SUFFICES ASSUME t = {} PROVE FALSE
    OBVIOUS
  <2>1. Lowest(s, e)
    BY <1>3
  <2> QED BY <2>1
<1>5. PICK m \in t : Lowest(t, m)
  BY <1>1, <1>2, <1>4
<1>6. Lowest(s, m) \/ Lowest(s, e)
  <2>1. key[e] >= key[m] \/ key[m] >= key[e]
    BY <1>3
  <2>2. CASE key[e] >= key[m]
    BY <1>5, <2>2
  <2>3. CASE key[m] >= key[e]
    <3>1. ASSUME NEW x \in s PROVE key[x] >= key[e]
      <4>1. CASE x = e
        BY <1>3, <4>1
      <4>2. CASE x \in t
        <5>1. key[x] >= key[m]
          BY <1>5, <4>2
        <5> QED BY <1>3, <2>3, <5>1
      <4> QED BY <4>1, <4>2
    <3> QED BY <3>1
  <2> QED BY <2>1, <2>2, <2>3
<1> QED BY <1>2, <1>6

\* A sum over S is the sum of the sums over the classes of S.
LEMMA SumByClass ==
    ASSUME NEW f, NEW c, NEW S, IsFiniteSet(S), NEW I, IsFiniteSet(I),
           \A x \in S : f[x] \in Nat /\ c[x] \in I
    PROVE  SumOver([i \in I |-> SumOver(f, {x \in S : c[x] = i})], I) = SumOver(f, S)
<1> DEFINE Class(s, i) == {x \in s : c[x] = i}
           By(s) == [i \in I |-> SumOver(f, Class(s, i))]
           B == {s \in SUBSET S : SumOver(By(s), I) # SumOver(f, s)}
<1> SUFFICES ASSUME B # {} PROVE FALSE
  OBVIOUS
<1>1. PICK s \in B : \A t \in SUBSET s : t # s => t \notin B
  <2>1. B \in SUBSET SUBSET S
    OBVIOUS
  <2> HIDE DEF B
  <2> QED BY <2>1, MinimalSubset
<1>2. ASSUME NEW t \in SUBSET S
      PROVE  /\ IsFiniteSet(t) /\ \A i \in I : IsFiniteSet(Class(t, i))
             /\ \A i \in I : By(t)[i] \in Nat /\ By(t)[i] = SumOver(f, Class(t, i))
  <2>1. IsFiniteSet(t) /\ \A i \in I : IsFiniteSet(Class(t, i))
    BY FS_Subset
  <2>2. ASSUME NEW i \in I PROVE SumOver(f, Class(t, i)) \in Nat
    <3>1. IsFiniteSet(Class(t, i)) /\ \A x \in Class(t, i) : f[x] \in Nat
      BY <2>1
    <3> HIDE DEF Class
    <3> QED BY <3>1, SumType
  <2> QED BY <2>1, <2>2
<1>3. s # {}
  <2> SUFFICES ASSUME s = {} PROVE FALSE
    OBVIOUS
  <2>1. \A i \in I : By(s)[i] = 0
    <3>1. \A i \in I : Class(s, i) = {}
      OBVIOUS
    <3> HIDE DEF Class
    <3> QED BY <3>1, SumEmpty
  <2> HIDE DEF By
  <2>2. SumOver(By(s), I) = 0
    BY <2>1, SumZero
  <2> QED BY <2>2, SumEmpty
<1>4. PICK e \in s : TRUE
  BY <1>3
<1> DEFINE t == s \ {e}
<1>5. /\ t \in SUBSET S /\ e \notin t /\ t \cup {e} = s /\ c[e] \in I /\ f[e] \in Nat
      /\ \A x \in t : f[x] \in Nat
  BY <1>4
<1>6. SumOver(By(t), I) = SumOver(f, t)
  BY <1>1, <1>4
<1>7. SumOver(f, s) = f[e] + SumOver(f, t)
  <2> HIDE DEF t
  <2> QED BY <1>2, <1>5, SumAdd
<1>8. By(s)[c[e]] = f[e] + By(t)[c[e]]
  <2>1. Class(s, c[e]) = Class(t, c[e]) \cup {e} /\ e \notin Class(t, c[e])
    BY <1>4
  <2>2. IsFiniteSet(Class(t, c[e])) /\ \A x \in Class(t, c[e]) \cup {e} : f[x] \in Nat
    BY <1>2, <1>5
  <2>3. SumOver(f, Class(t, c[e]) \cup {e}) = f[e] + SumOver(f, Class(t, c[e]))
    <3> HIDE DEF Class, t
    <3> QED BY <2>1, <2>2, SumAdd
  <2> QED BY <1>5, <2>1, <2>3
<1>9. \A i \in I \ {c[e]} : By(s)[i] = By(t)[i]
  <2> SUFFICES ASSUME NEW i \in I \ {c[e]} PROVE By(s)[i] = By(t)[i]
    OBVIOUS
  <2>1. Class(s, i) = Class(t, i)
    OBVIOUS
  <2> HIDE DEF Class, t
  <2> QED BY <2>1
<1>10. SumOver(By(s), I) = SumOver(By(t), I) + (By(s)[c[e]] - By(t)[c[e]])
  <2>1. \A i \in I : By(t)[i] \in Nat /\ By(s)[i] \in Nat
    BY <1>2, <1>5
  <2> HIDE DEF By, t
  <2> QED BY <1>5, <1>9, <2>1, SumChange
<1>11. By(t)[c[e]] \in Nat /\ SumOver(f, t) \in Nat
  <2>1. SumOver(f, t) \in Nat
    <3> HIDE DEF t
    <3> QED BY <1>2, <1>5, SumType
  <2> QED BY <1>2, <1>5, <2>1
<1>12. SumOver(By(s), I) = SumOver(f, s)
  <2> HIDE DEF By, t
  <2> QED BY <1>5, <1>6, <1>7, <1>8, <1>10, <1>11
<1> QED BY <1>1, <1>12

\* A set has as many elements as ones add up to.
LEMMA CountIsSum ==
    ASSUME NEW S, IsFiniteSet(S), NEW f, \A x \in S : f[x] = 1
    PROVE  Cardinality(S) = SumOver(f, S)
<1> DEFINE B == {s \in SUBSET S : Cardinality(s) # SumOver(f, s)}
<1> SUFFICES ASSUME B # {} PROVE FALSE
  OBVIOUS
<1>1. PICK s \in B : \A t \in SUBSET s : t # s => t \notin B
  <2>1. B \in SUBSET SUBSET S
    OBVIOUS
  <2> HIDE DEF B
  <2> QED BY <2>1, MinimalSubset
<1>2. s # {}
  BY SumEmpty, FS_EmptySet
<1>3. First(s) \in s /\ IsFiniteSet(s) /\ s \subseteq S
  BY <1>2, FirstIn, FS_Subset
<1>4. Cardinality(s \ {First(s)}) = SumOver(f, s \ {First(s)})
  BY <1>1, <1>3
<1>5. SumOver(f, s) = f[First(s)] + SumOver(f, s \ {First(s)})
  BY <1>2, <1>3, SumFirst
<1>6. Cardinality(s \ {First(s)}) = Cardinality(s) - 1 /\ Cardinality(s) \in Nat
  BY <1>3, FS_RemoveElement, FS_CardinalityType
<1> QED BY <1>3, <1>4, <1>5, <1>6

\* A set has as many elements as its classes together.
LEMMA CountByClass ==
    ASSUME NEW c, NEW S, IsFiniteSet(S), NEW I, IsFiniteSet(I), \A x \in S : c[x] \in I
    PROVE  SumOver([i \in I |-> Cardinality({x \in S : c[x] = i})], I) = Cardinality(S)
<1> DEFINE f == [x \in S |-> 1]
           Class(i) == {x \in S : c[x] = i}
           Counts == [i \in I |-> Cardinality(Class(i))]
           Sums == [i \in I |-> SumOver(f, Class(i))]
<1>1. Cardinality(S) = SumOver(f, S)
  <2>1. \A x \in S : f[x] = 1
    OBVIOUS
  <2> HIDE DEF f
  <2> QED BY <2>1, CountIsSum
<1>2. ASSUME NEW i \in I PROVE Counts[i] = Sums[i]
  <2>1. IsFiniteSet(Class(i)) /\ \A x \in Class(i) : f[x] = 1
    BY FS_Subset
  <2> HIDE DEF f, Class
  <2>2. Cardinality(Class(i)) = SumOver(f, Class(i))
    BY <2>1, CountIsSum
  <2> QED BY <2>2
<1>3. SumOver(Sums, I) = SumOver(f, S)
  <2>1. \A x \in S : f[x] \in Nat /\ c[x] \in I
    OBVIOUS
  <2> HIDE DEF f
  <2> QED BY <2>1, SumByClass
<1>4. SumOver(Counts, I) = SumOver(Sums, I)
  <2> HIDE DEF Counts, Sums
  <2> QED BY <1>2, SumSame
<1> QED BY <1>1, <1>3, <1>4

\* Natural numbers have a least one among them.
LEMMA LeastNat ==
    ASSUME NEW S \in SUBSET Nat, S # {}
    PROVE  Min(S) \in S /\ \A x \in S : Min(S) <= x
<1>1. PICK m \in S : \A y \in S : ~ (<<y, m>> \in OpToRel(<, Nat))
  BY NatLessThanWellFounded, WFMin, Zenon
<1>2. ASSUME NEW y \in S PROVE m <= y
  <2>1. m \in Nat /\ y \in Nat /\ ~ (y < m)
    BY <1>1 DEF OpToRel
  <2> QED BY <2>1
<1> QED BY <1>2 DEF Min

=============================================================================
