---------------------------- MODULE SetTheorems ----------------------------
(***************************************************************************)
(* Sums of integers over finite sets of accounts or payments, and the      *)
(* smallest and the largest element of a finite set of numbers.            *)
(* SumFunctionOnSet of the module Functions takes one chosen element away  *)
(* at a time, by a function on the subsets of the set.  What follows is    *)
(* proved by looking at a smallest set for which it would fail.            *)
(***************************************************************************)
EXTENDS Integers, FiniteSets, Functions, FiniteSetTheorems, WellFoundedInduction, TLAPS

Some(s) == CHOOSE x \in s : TRUE

\* g sums f over every subset of U.
Sums(g, f, U) ==
  \A s \in SUBSET U : g[s] = IF s = {} THEN 0 ELSE f[Some(s)] + g[s \ {Some(s)}]

\* Of any finite sets there is one without a proper subset among them.
LEMMA SmallestSet ==
  ASSUME NEW S, IsFiniteSet(S), NEW T, T \subseteq SUBSET S, T # {}
  PROVE  \E U \in T : \A V \in T : ~(V \subseteq U /\ V # U)
<1>1. FiniteSubsetsOf(S) = SUBSET S
  BY FS_FiniteSubsetsOfFinite, Zenon
<1>2. IsWellFoundedOn(StrictSubsetOrdering(S), FiniteSubsetsOf(S))
  BY FS_StrictSubsetOrderingWellFounded, Zenon
<1>3. PICK U \in T : \A V \in T : ~(<<V, U>> \in StrictSubsetOrdering(S))
  BY <1>1, <1>2, WFMin, Zenon
<1>4. ASSUME NEW V \in T, V \subseteq U, V # U PROVE FALSE
  BY <1>3, <1>4 DEF StrictSubsetOrdering
<1> QED
  BY <1>3, <1>4, Zenon

\* The element taken away is one of the set.
LEMMA SomeIn == \A s : s # {} => Some(s) \in s
BY Zenon DEF Some

\* Two functions that sum f agree on every set both are about.
LEMMA SumsAgree ==
  ASSUME NEW f, NEW U, NEW W, IsFiniteSet(U), NEW g, NEW h, Sums(g, f, U), Sums(h, f, W)
  PROVE  \A s \in SUBSET U : s \subseteq W => g[s] = h[s]
<1> DEFINE T == {s \in SUBSET U : s \subseteq W /\ g[s] # h[s]}
<1>1. SUFFICES ASSUME T # {} PROVE FALSE
  BY Zenon
<1>2. PICK s \in T : \A v \in T : ~(v \subseteq s /\ v # s)
  <2>1. T \subseteq SUBSET U
    BY Zenon
  <2> HIDE DEF T
  <2> QED
    BY <1>1, <2>1, SmallestSet, SMT
<1>3. s # {}
  BY <1>2, Zenon DEF Sums
<1>4. Some(s) \in s /\ s \ {Some(s)} \subseteq s /\ s \ {Some(s)} # s
  BY <1>3, SomeIn, Zenon
<1>5. g[s \ {Some(s)}] = h[s \ {Some(s)}]
  BY <1>2, <1>4, Zenon
<1>6. g[s] = f[Some(s)] + g[s \ {Some(s)}] /\ h[s] = f[Some(s)] + h[s \ {Some(s)}]
  BY <1>2, <1>3, Zenon DEF Sums
<1> QED
  BY <1>2, <1>5, <1>6, Zenon

\* Every function has a function that sums it over the subsets of a finite set.
LEMMA SumsExist ==
  ASSUME NEW f, NEW S, IsFiniteSet(S)
  PROVE  \E g : g = [s \in SUBSET S |-> g[s]] /\ Sums(g, f, S)
<1> DEFINE Has(U) == \E g : g = [s \in SUBSET U |-> g[s]] /\ Sums(g, f, U)
<1> DEFINE T == {U \in SUBSET S : ~Has(U)}
<1>1. SUFFICES ASSUME T # {} PROVE FALSE
  BY Zenon
<1>2. PICK U \in T : \A V \in T : ~(V \subseteq U /\ V # U)
  <2>1. T \subseteq SUBSET S
    BY Zenon
  <2> HIDE DEF T
  <2> QED
    BY <1>1, <2>1, SmallestSet, SMT
<1> DEFINE G(V) == CHOOSE g : g = [s \in SUBSET V |-> g[s]] /\ Sums(g, f, V)
<1> DEFINE sum == [s \in SUBSET U |->
                     IF s = {} THEN 0 ELSE f[Some(s)] + G(s \ {Some(s)})[s \ {Some(s)}]]
<1>3. \A V \in SUBSET U : V # U => Sums(G(V), f, V)
  <2>1. \A V \in SUBSET U : V # U => Has(V)
    <3> HIDE DEF Has
    <3> QED BY <1>2, Zenon
  <2> QED BY <2>1, Zenon
<1>4. IsFiniteSet(U) /\ \A V \in SUBSET U : IsFiniteSet(V)
  BY <1>2, FS_Subset, Zenon
<1> HIDE DEF G
<1>5. ASSUME NEW s \in SUBSET U PROVE sum[s] = IF s = {} THEN 0 ELSE f[Some(s)] + sum[s \ {Some(s)}]
  <2>1. CASE s = {}
    BY <2>1, Zenon
  <2>2. CASE s # {}
    <3> DEFINE v == s \ {Some(s)}
    <3>1. v \in SUBSET U /\ v # U
      BY <2>2, SomeIn, Zenon
    <3>2. sum[s] = f[Some(s)] + G(v)[v]
      BY <2>2, Zenon
    <3>3. G(v)[v] = sum[v]
      <4> HIDE DEF v
      <4>1. CASE v = {}
        BY <1>3, <3>1, <4>1, Zenon DEF Sums
      <4>2. CASE v # {}
        <5> DEFINE u == v \ {Some(v)}
        <5>1. u \in SUBSET U /\ u # U /\ u \subseteq v
          BY <3>1, <4>2, SomeIn, Zenon
        <5>2. sum[v] = f[Some(v)] + G(u)[u]
          BY <3>1, <4>2, Zenon
        <5>3. G(v)[v] = f[Some(v)] + G(v)[u]
          BY <1>3, <3>1, <4>2, Zenon DEF Sums
        <5> HIDE DEF u
        <5>4. G(u)[u] = G(v)[u]
          <6>1. Sums(G(u), f, u) /\ Sums(G(v), f, v) /\ IsFiniteSet(u)
            BY <1>3, <1>4, <3>1, <5>1, Zenon
          <6>2. \A t \in SUBSET u : t \subseteq v => G(u)[t] = G(v)[t]
            <7> HIDE DEF sum
            <7> QED
              BY <6>1, SumsAgree, SMT
          <6> QED
            BY <5>1, <6>2, Zenon
        <5> QED
          BY <5>2, <5>3, <5>4, Zenon
      <4> QED
        BY <4>1, <4>2, Zenon
    <3> QED
      BY <2>2, <3>2, <3>3, Zenon
  <2> QED
    BY <2>1, <2>2, Zenon
<1>6. sum = [s \in SUBSET U |-> sum[s]]
  BY Zenon
<1> HIDE DEF sum
<1>7. Sums(sum, f, U)
  BY <1>5, Zenon DEF Sums
<1>8. Has(U)
  BY <1>6, <1>7, Zenon
<1> HIDE DEF Has
<1> QED
  BY <1>2, <1>8, Zenon

\* SumFunctionOnSet is the value of such a function at the whole set.
LEMMA SumIsSums ==
  ASSUME NEW f, NEW S, IsFiniteSet(S)
  PROVE  \E g : Sums(g, f, S) /\ SumFunctionOnSet(f, S) = g[S]
<1> DEFINE It(g) == g = [s \in SUBSET S |-> IF s = {} THEN 0 ELSE f[Some(s)] + g[s \ {Some(s)}]]
<1> DEFINE iter == CHOOSE g : It(g)
<1>1. SumFunctionOnSet(f, S) = iter[S]
  BY Zenon DEF SumFunctionOnSet, FoldFunctionOnSet, MapThenFoldSet, Some
<1>2. PICK g : g = [s \in SUBSET S |-> g[s]] /\ Sums(g, f, S)
  BY SumsExist, Zenon
<1>3. It(g)
  BY <1>2, Zenon DEF Sums
<1>4. It(iter)
  <2> HIDE DEF It
  <2> QED BY <1>3, Zenon
<1>5. Sums(iter, f, S)
  <2> HIDE DEF iter
  <2> QED BY <1>4, Zenon DEF Sums
<1> QED
  BY <1>1, <1>5, Zenon

-----------------------------------------------------------------------------
(* What a sum over a finite set is. *)

\* Nothing sums to zero.
LEMMA SumEmpty == \A f : SumFunctionOnSet(f, {}) = 0
<1>1. IsFiniteSet({})
  BY FS_EmptySet, Zenon
<1> QED
  BY <1>1, SumIsSums, Zenon DEF Sums

\* The chosen element is added to the sum over the others.
LEMMA SumSome ==
  ASSUME NEW f, NEW S, IsFiniteSet(S), S # {}
  PROVE  SumFunctionOnSet(f, S) = f[Some(S)] + SumFunctionOnSet(f, S \ {Some(S)})
<1> DEFINE v == S \ {Some(S)}
<1>1. IsFiniteSet(v) /\ v \subseteq S
  BY FS_Subset, Zenon
<1>2. PICK g : Sums(g, f, S) /\ SumFunctionOnSet(f, S) = g[S]
  BY SumIsSums, Zenon
<1>3. PICK h : Sums(h, f, v) /\ SumFunctionOnSet(f, v) = h[v]
  <2> HIDE DEF v
  <2> QED
    BY <1>1, SumIsSums, Zenon
<1>4. g[S] = f[Some(S)] + g[v]
  BY <1>2, Zenon DEF Sums
<1>5. h[v] = g[v]
  <2> HIDE DEF v
  <2>1. IsFiniteSet(v) /\ Sums(h, f, v) /\ Sums(g, f, S)
    BY <1>1, <1>2, <1>3, Zenon
  <2>2. \A s \in SUBSET v : s \subseteq S => h[s] = g[s]
    BY <2>1, SumsAgree, SMT
  <2> QED
    BY <1>1, <2>2, Zenon
<1> QED
  BY <1>2, <1>3, <1>4, <1>5, Zenon

\* A sum of integers is an integer.
LEMMA SumType ==
  ASSUME NEW S, IsFiniteSet(S), NEW f, \A x \in S : f[x] \in Int
  PROVE  SumFunctionOnSet(f, S) \in Int
<1> DEFINE T == {U \in SUBSET S : SumFunctionOnSet(f, U) \notin Int}
<1>1. SUFFICES ASSUME T # {} PROVE FALSE
  BY Zenon
<1>2. PICK U \in T : \A V \in T : ~(V \subseteq U /\ V # U)
  <2>1. T \subseteq SUBSET S
    BY Zenon
  <2> HIDE DEF T
  <2> QED
    BY <1>1, <2>1, SmallestSet, SMT
<1>3. U # {}
  BY <1>2, SumEmpty
<1>4. Some(U) \in U /\ U \ {Some(U)} \subseteq U /\ U \ {Some(U)} # U
  BY <1>3, SomeIn, Zenon
<1>5. SumFunctionOnSet(f, U \ {Some(U)}) \in Int /\ f[Some(U)] \in Int
  BY <1>2, <1>4, Zenon
<1>6. IsFiniteSet(U)
  BY <1>2, FS_Subset, Zenon
<1>7. SumFunctionOnSet(f, U) = f[Some(U)] + SumFunctionOnSet(f, U \ {Some(U)})
  BY <1>3, <1>6, SumSome, Zenon
<1> QED
  BY <1>2, <1>5, <1>7

\* Any element may be taken out of a sum, whichever the definition chooses.
LEMMA SumTake ==
  ASSUME NEW S, IsFiniteSet(S), NEW f, \A y \in S : f[y] \in Int
  PROVE  \A x \in S : SumFunctionOnSet(f, S) = f[x] + SumFunctionOnSet(f, S \ {x})
<1> DEFINE T == {U \in SUBSET S :
                   \E x \in U : SumFunctionOnSet(f, U) # f[x] + SumFunctionOnSet(f, U \ {x})}
<1>1. SUFFICES ASSUME T # {} PROVE FALSE
  BY Zenon
<1>2. PICK U \in T : \A V \in T : ~(V \subseteq U /\ V # U)
  <2>1. T \subseteq SUBSET S
    BY Zenon
  <2> HIDE DEF T
  <2> QED
    BY <1>1, <2>1, SmallestSet, SMT
<1>3. PICK x \in U : SumFunctionOnSet(f, U) # f[x] + SumFunctionOnSet(f, U \ {x})
  BY <1>2, Zenon
<1>4. U \in SUBSET S /\ Some(U) \in U
  BY <1>2, <1>3, SomeIn, Zenon
<1> DEFINE y == Some(U)
<1>5. SumFunctionOnSet(f, U) = f[y] + SumFunctionOnSet(f, U \ {y}) /\ IsFiniteSet(U)
  <2>1. IsFiniteSet(U) /\ U # {}
    BY <1>4, FS_Subset, Zenon
  <2> QED
    BY <2>1, SumSome, Zenon
<1> HIDE DEF y
<1>6. x # y /\ y \in U
  BY <1>3, <1>4, <1>5, Zenon DEF y
<1>7. \A V \in SUBSET U : V # U => \A z \in V :
        SumFunctionOnSet(f, V) = f[z] + SumFunctionOnSet(f, V \ {z})
  BY <1>2, <1>4, Zenon
<1>8. SumFunctionOnSet(f, U \ {y}) = f[x] + SumFunctionOnSet(f, (U \ {y}) \ {x})
  <2>1. U \ {y} \in SUBSET U /\ U \ {y} # U /\ x \in U \ {y}
    BY <1>6, Zenon
  <2> QED
    BY <1>7, <2>1, Zenon
<1>9. SumFunctionOnSet(f, U \ {x}) = f[y] + SumFunctionOnSet(f, (U \ {y}) \ {x})
  <2>1. U \ {x} \in SUBSET U /\ U \ {x} # U /\ y \in U \ {x}
    BY <1>6, Zenon
  <2>2. (U \ {x}) \ {y} = (U \ {y}) \ {x}
    BY Zenon
  <2>3. SumFunctionOnSet(f, U \ {x}) = f[y] + SumFunctionOnSet(f, (U \ {x}) \ {y})
    BY <1>7, <2>1, Zenon
  <2> QED
    BY <2>2, <2>3, Zenon
<1>10. SumFunctionOnSet(f, (U \ {y}) \ {x}) \in Int /\ f[x] \in Int /\ f[y] \in Int
  <2>1. IsFiniteSet((U \ {y}) \ {x}) /\ \A z \in (U \ {y}) \ {x} : f[z] \in Int
    BY <1>4, <1>5, FS_Subset, SMT
  <2>2. f[x] \in Int /\ f[y] \in Int
    BY <1>4, <1>6, Zenon
  <2> QED
    BY <2>1, <2>2, SumType, SMT
<1> QED
  <2> DEFINE r == SumFunctionOnSet(f, (U \ {y}) \ {x})
  <2>1. \A i, j, k \in Int : i + (j + k) = j + (i + k)
    BY SMT
  <2>2. f[y] + (f[x] + r) = f[x] + (f[y] + r)
    BY <1>10, <2>1, Zenon
  <2> QED
    BY <1>3, <1>5, <1>8, <1>9, <2>2, Zenon

\* An element that is put into a set adds its value to the sum.
LEMMA SumInsert ==
  ASSUME NEW S, IsFiniteSet(S), NEW f, \A y \in S : f[y] \in Int,
         NEW U \in SUBSET S, NEW x \in S \ U
  PROVE  SumFunctionOnSet(f, U \cup {x}) = f[x] + SumFunctionOnSet(f, U)
<1> DEFINE V == U \cup {x}
<1>1. IsFiniteSet(V) /\ (\A y \in V : f[y] \in Int) /\ x \in V /\ V \ {x} = U
  BY FS_Subset, Zenon
<1> HIDE DEF V
<1>2. \A y \in V : SumFunctionOnSet(f, V) = f[y] + SumFunctionOnSet(f, V \ {y})
  BY <1>1, SumTake, SMT
<1>3. SumFunctionOnSet(f, V) = f[x] + SumFunctionOnSet(f, U)
  BY <1>1, <1>2, Zenon
<1> QED
  BY <1>3, Zenon DEF V

\* What holds of the empty set, and is kept when an element is put in, holds of a finite
\* set: T are the sets it holds of.
LEMMA SetInduction ==
  ASSUME NEW S, IsFiniteSet(S), NEW T, {} \in T,
         \A U \in SUBSET S : \A x \in S \ U : U \in T => U \cup {x} \in T
  PROVE  S \in T
<1> DEFINE N == {U \in SUBSET S : U \notin T}
<1>1. SUFFICES ASSUME N # {} PROVE FALSE
  BY Zenon
<1>2. PICK U \in N : \A V \in N : ~(V \subseteq U /\ V # U)
  <2>1. N \subseteq SUBSET S
    BY Zenon
  <2> HIDE DEF N
  <2> QED
    BY <1>1, <2>1, SmallestSet, SMT
<1>3. PICK x \in U : TRUE
  BY <1>2, Zenon
<1>4. U \ {x} \in T /\ U \ {x} \in SUBSET S /\ x \in S \ (U \ {x})
  <2>1. U \ {x} \in SUBSET S /\ x \in S \ (U \ {x}) /\ U \ {x} \subseteq U /\ U \ {x} # U
    BY <1>2, <1>3, Zenon
  <2> QED
    BY <1>2, <2>1, Zenon
<1>5. (U \ {x}) \cup {x} = U
  BY <1>3, Zenon
<1>6. U \in T
  BY <1>4, <1>5
<1> QED
  BY <1>2, <1>6, Zenon

-----------------------------------------------------------------------------
(* How sums compare. *)

\* Functions that agree on a set have the same sum over it.
LEMMA SumSame ==
  ASSUME NEW S, IsFiniteSet(S), NEW f, NEW g, \A x \in S : f[x] \in Int /\ g[x] = f[x]
  PROVE  SumFunctionOnSet(g, S) = SumFunctionOnSet(f, S)
<1> DEFINE T == {U \in SUBSET S : SumFunctionOnSet(g, U) = SumFunctionOnSet(f, U)}
<1>1. {} \in T
  BY SumEmpty, Zenon
<1>2. ASSUME NEW U \in SUBSET S, NEW x \in S \ U, U \in T PROVE U \cup {x} \in T
  <2>1. /\ SumFunctionOnSet(f, U \cup {x}) = f[x] + SumFunctionOnSet(f, U)
        /\ SumFunctionOnSet(g, U \cup {x}) = g[x] + SumFunctionOnSet(g, U)
    BY SumInsert, SMT
  <2> QED
    BY <1>2, <2>1, Zenon
<1>3. S \in T
  <2> HIDE DEF T
  <2>1. \A U \in SUBSET S : \A x \in S \ U : U \in T => U \cup {x} \in T
    BY <1>2, Zenon
  <2> QED
    BY <1>1, <2>1, SetInduction, Zenon
<1> QED
  BY <1>3, Zenon

\* The sum of a sum.
LEMMA SumAdd ==
  ASSUME NEW S, IsFiniteSet(S), NEW f, NEW g, NEW h,
         \A x \in S : f[x] \in Int /\ g[x] \in Int /\ h[x] = f[x] + g[x]
  PROVE  SumFunctionOnSet(h, S) = SumFunctionOnSet(f, S) + SumFunctionOnSet(g, S)
<1> DEFINE T == {U \in SUBSET S :
                   SumFunctionOnSet(h, U) = SumFunctionOnSet(f, U) + SumFunctionOnSet(g, U)}
<1>1. {} \in T
  BY SumEmpty
<1>2. ASSUME NEW U \in SUBSET S, NEW x \in S \ U, U \in T PROVE U \cup {x} \in T
  <2>1. \A y \in S : h[y] \in Int
    OBVIOUS
  <2>2. /\ SumFunctionOnSet(f, U \cup {x}) = f[x] + SumFunctionOnSet(f, U)
        /\ SumFunctionOnSet(g, U \cup {x}) = g[x] + SumFunctionOnSet(g, U)
        /\ SumFunctionOnSet(h, U \cup {x}) = h[x] + SumFunctionOnSet(h, U)
    BY <2>1, SumInsert, SMT
  <2>3. SumFunctionOnSet(f, U) \in Int /\ SumFunctionOnSet(g, U) \in Int
    <3>1. IsFiniteSet(U) /\ (\A y \in U : f[y] \in Int) /\ (\A y \in U : g[y] \in Int)
      BY FS_Subset, Zenon
    <3> QED
      BY <3>1, SumType, SMT
  <2>5. SumFunctionOnSet(h, U) = SumFunctionOnSet(f, U) + SumFunctionOnSet(g, U)
    BY <1>2, Zenon
  <2>6. h[x] = f[x] + g[x] /\ f[x] \in Int /\ g[x] \in Int
    BY Zenon
  <2>7. SumFunctionOnSet(h, U \cup {x}) =
          SumFunctionOnSet(f, U \cup {x}) + SumFunctionOnSet(g, U \cup {x})
    BY <2>2, <2>3, <2>5, <2>6, SMT
  <2> QED
    BY <2>7, Zenon
<1>3. S \in T
  <2> HIDE DEF T
  <2>1. \A U \in SUBSET S : \A x \in S \ U : U \in T => U \cup {x} \in T
    BY <1>2, Zenon
  <2> QED
    BY <1>1, <2>1, SetInduction, Zenon
<1> QED
  BY <1>3, Zenon

\* A function that is nowhere larger has no larger sum.
LEMMA SumLe ==
  ASSUME NEW S, IsFiniteSet(S), NEW f, NEW g,
         \A x \in S : f[x] \in Int /\ g[x] \in Int /\ f[x] <= g[x]
  PROVE  SumFunctionOnSet(f, S) <= SumFunctionOnSet(g, S)
<1> DEFINE T == {U \in SUBSET S : SumFunctionOnSet(f, U) <= SumFunctionOnSet(g, U)}
<1>1. {} \in T
  BY SumEmpty
<1>2. ASSUME NEW U \in SUBSET S, NEW x \in S \ U, U \in T PROVE U \cup {x} \in T
  <2>1. /\ SumFunctionOnSet(f, U \cup {x}) = f[x] + SumFunctionOnSet(f, U)
        /\ SumFunctionOnSet(g, U \cup {x}) = g[x] + SumFunctionOnSet(g, U)
    BY SumInsert, SMT
  <2>2. SumFunctionOnSet(f, U) \in Int /\ SumFunctionOnSet(g, U) \in Int
    <3>1. IsFiniteSet(U) /\ (\A y \in U : f[y] \in Int) /\ (\A y \in U : g[y] \in Int)
      BY FS_Subset, Zenon
    <3> QED
      BY <3>1, SumType, SMT
  <2>3. SumFunctionOnSet(f, U) <= SumFunctionOnSet(g, U)
    BY <1>2, Zenon
  <2>4. f[x] <= g[x] /\ f[x] \in Int /\ g[x] \in Int
    BY Zenon
  <2>5. SumFunctionOnSet(f, U \cup {x}) <= SumFunctionOnSet(g, U \cup {x})
    BY <2>1, <2>2, <2>3, <2>4, SMT
  <2> QED
    BY <2>5, Zenon
<1>3. S \in T
  <2> HIDE DEF T
  <2>1. \A U \in SUBSET S : \A x \in S \ U : U \in T => U \cup {x} \in T
    BY <1>2, Zenon
  <2> QED
    BY <1>1, <2>1, SetInduction, Zenon
<1> QED
  BY <1>3, Zenon

\* A constant sums to its multiple.
LEMMA SumConst ==
  ASSUME NEW S, IsFiniteSet(S), NEW f, NEW n \in Int, \A x \in S : f[x] = n
  PROVE  SumFunctionOnSet(f, S) = n * Cardinality(S)
<1> DEFINE T == {U \in SUBSET S : SumFunctionOnSet(f, U) = n * Cardinality(U)}
<1>1. {} \in T
  BY SumEmpty, FS_EmptySet
<1>2. ASSUME NEW U \in SUBSET S, NEW x \in S \ U, U \in T PROVE U \cup {x} \in T
  <2>1. SumFunctionOnSet(f, U \cup {x}) = n + SumFunctionOnSet(f, U)
    BY SumInsert, SMT
  <2>2. IsFiniteSet(U)
    BY FS_Subset, Zenon
  <2>3. Cardinality(U \cup {x}) = Cardinality(U) + 1 /\ Cardinality(U) \in Nat
    BY <2>2, FS_AddElement, FS_CardinalityType, SMT
  <2>4. \A i \in Nat : n + n * i = n * (i + 1)
    BY SMT
  <2>5. SumFunctionOnSet(f, U) = n * Cardinality(U)
    BY <1>2, Zenon
  <2>6. SumFunctionOnSet(f, U \cup {x}) = n * Cardinality(U \cup {x})
    BY <2>1, <2>3, <2>4, <2>5, Zenon
  <2> QED
    BY <2>6, Zenon
<1>3. S \in T
  <2> HIDE DEF T
  <2>1. \A U \in SUBSET S : \A x \in S \ U : U \in T => U \cup {x} \in T
    BY <1>2, Zenon
  <2> QED
    BY <1>1, <2>1, SetInduction, Zenon
<1> QED
  BY <1>3, Zenon

\* A sum over a part of a set is the sum over the set of what is zero elsewhere.
LEMMA SumPart ==
  ASSUME NEW S, IsFiniteSet(S), NEW f, NEW g, NEW A \in SUBSET S,
         \A x \in S : g[x] = IF x \in A THEN f[x] ELSE 0,
         \A x \in A : f[x] \in Int
  PROVE  SumFunctionOnSet(f, A) = SumFunctionOnSet(g, S)
<1> DEFINE T == {U \in SUBSET S : SumFunctionOnSet(f, U \cap A) = SumFunctionOnSet(g, U)}
<1>1. {} \in T
  <2>1. {} \cap A = {}
    BY Zenon
  <2> QED
    BY <2>1, SumEmpty, Zenon
<1>2. ASSUME NEW U \in SUBSET S, NEW x \in S \ U, U \in T PROVE U \cup {x} \in T
  <2>1. \A y \in S : g[y] \in Int
    OBVIOUS
  <2>2. SumFunctionOnSet(g, U \cup {x}) = g[x] + SumFunctionOnSet(g, U)
    BY <2>1, SumInsert, SMT
  <2>3. SumFunctionOnSet(g, U) \in Int
    <3>1. IsFiniteSet(U) /\ (\A y \in U : g[y] \in Int)
      BY <2>1, FS_Subset, Zenon
    <3> QED
      BY <3>1, SumType, SMT
  <2>4. SumFunctionOnSet(f, U \cap A) = SumFunctionOnSet(g, U)
    BY <1>2, Zenon
  <2>5. CASE x \in A
    <3> DEFINE B == U \cap A
    <3>1. IsFiniteSet(A) /\ B \in SUBSET A /\ x \in A \ B /\ (U \cup {x}) \cap A = B \cup {x}
      BY <2>5, FS_Subset, Zenon
    <3> HIDE DEF B
    <3>2. SumFunctionOnSet(f, B \cup {x}) = f[x] + SumFunctionOnSet(f, B)
      BY <3>1, SumInsert, SMT
    <3>3. g[x] = f[x]
      BY <2>5, Zenon
    <3>4. SumFunctionOnSet(f, (U \cup {x}) \cap A) = SumFunctionOnSet(g, U \cup {x})
      BY <2>2, <2>4, <3>1, <3>2, <3>3, Zenon DEF B
    <3> QED
      BY <3>4, Zenon
  <2>6. CASE x \notin A
    <3>1. (U \cup {x}) \cap A = U \cap A
      BY <2>6, Zenon
    <3>2. g[x] = 0
      BY <2>6, Zenon
    <3>3. 0 + SumFunctionOnSet(g, U) = SumFunctionOnSet(g, U)
      BY <2>3, SMT
    <3>4. SumFunctionOnSet(f, (U \cup {x}) \cap A) = SumFunctionOnSet(g, U \cup {x})
      BY <2>2, <2>4, <3>1, <3>2, <3>3, Zenon
    <3> QED
      BY <3>4, Zenon
  <2> QED
    BY <2>5, <2>6, Zenon
<1>3. S \in T
  <2> HIDE DEF T
  <2>1. \A U \in SUBSET S : \A x \in S \ U : U \in T => U \cup {x} \in T
    BY <1>2, Zenon
  <2> QED
    BY <1>1, <2>1, SetInduction, Zenon
<1>4. S \cap A = A
  BY Zenon
<1> QED
  BY <1>3, <1>4, Zenon

\* Two functions on S that differ at x only.
AgreeBut(f, g, S, x) ==
  \A y \in S : f[y] \in Int /\ g[y] \in Int /\ (y # x => g[y] = f[y])

\* A function that changes at one element changes its sum by as much.
LEMMA SumChange ==
  ASSUME NEW S, IsFiniteSet(S), NEW f, NEW g, NEW x \in S,
         AgreeBut(f, g, S, x)
  PROVE  SumFunctionOnSet(g, S) = SumFunctionOnSet(f, S) + (g[x] - f[x])
<1> USE DEF AgreeBut
<1> DEFINE U == S \ {x}
<1>1. IsFiniteSet(U) /\ \A y \in U : f[y] \in Int /\ g[y] = f[y]
  BY FS_Subset, Zenon
<1>2. /\ SumFunctionOnSet(f, S) = f[x] + SumFunctionOnSet(f, U)
      /\ SumFunctionOnSet(g, S) = g[x] + SumFunctionOnSet(g, U)
  BY SumTake, SMT
<1> HIDE DEF U
<1>3. SumFunctionOnSet(g, U) = SumFunctionOnSet(f, U)
  BY <1>1, SumSame, Zenon
<1>4. SumFunctionOnSet(f, U) \in Int
  BY <1>1, SumType, Zenon
<1>5. f[x] \in Int /\ g[x] \in Int
  BY Zenon
<1> QED
  BY <1>2, <1>3, <1>4, <1>5, SMT

\* What is at least f on one part of a set and n on another sums to at least as much.
LEMMA SumCovers ==
  ASSUME NEW S, IsFiniteSet(S), NEW f, NEW g, NEW n \in Int,
         NEW A \in SUBSET S, NEW B \in SUBSET S, A \cap B = {},
         \A x \in S : g[x] \in Int /\ 0 <= g[x],
         \A x \in A : f[x] \in Int /\ f[x] <= g[x],
         \A x \in B : n <= g[x]
  PROVE  SumFunctionOnSet(f, A) + n * Cardinality(B) <= SumFunctionOnSet(g, S)
<1> DEFINE p == [x \in S |-> IF x \in A THEN f[x] ELSE 0]
           c == [x \in S |-> n]
           q == [x \in S |-> IF x \in B THEN c[x] ELSE 0]
           h == [x \in S |-> p[x] + q[x]]
<1>1. SumFunctionOnSet(f, A) = SumFunctionOnSet(p, S)
  <2>1. \A x \in S : p[x] = IF x \in A THEN f[x] ELSE 0
    BY Zenon
  <2> HIDE DEF p
  <2> QED
    BY <2>1, SumPart, SMT
<1>2. n * Cardinality(B) = SumFunctionOnSet(q, S)
  <2>1. IsFiniteSet(B) /\ \A x \in B : c[x] = n
    BY FS_Subset, Zenon
  <2>2. (\A x \in S : q[x] = IF x \in B THEN c[x] ELSE 0) /\ \A x \in B : c[x] \in Int
    BY Zenon
  <2> HIDE DEF c, q
  <2>3. SumFunctionOnSet(c, B) = n * Cardinality(B)
    BY <2>1, SumConst, Zenon
  <2>4. SumFunctionOnSet(c, B) = SumFunctionOnSet(q, S)
    BY <2>2, SumPart, SMT
  <2> QED
    BY <2>3, <2>4, Zenon
<1>3. \A x \in S : /\ p[x] \in Int /\ q[x] \in Int /\ h[x] = p[x] + q[x]
                   /\ h[x] \in Int /\ h[x] <= g[x]
  OBVIOUS
<1> HIDE DEF p, q, h
<1>4. SumFunctionOnSet(h, S) = SumFunctionOnSet(p, S) + SumFunctionOnSet(q, S)
  BY <1>3, SumAdd, Zenon
<1>5. SumFunctionOnSet(h, S) <= SumFunctionOnSet(g, S)
  BY <1>3, SumLe, Zenon
<1> QED
  BY <1>1, <1>2, <1>4, <1>5, Zenon

At(f, S, x, v) == \A y \in S : f[y] = IF y = x THEN v ELSE 0

\* What is put on one element counts when the element is in the set.
LEMMA SumPoint ==
  ASSUME NEW S, IsFiniteSet(S), NEW f, NEW x, NEW v \in Int, At(f, S, x, v)
  PROVE  /\ SumFunctionOnSet(f, S) = IF x \in S THEN v ELSE 0
         /\ \A y \in S : f[y] \in Int
<1> DEFINE U == S \ {x}
<1>1. IsFiniteSet(U) /\ \A y \in U : f[y] = 0
  BY FS_Subset, Zenon DEF At
<1>2. SumFunctionOnSet(f, U) = 0
  <2> HIDE DEF U
  <2>1. SumFunctionOnSet(f, U) = 0 * Cardinality(U)
    BY <1>1, SumConst, SMT
  <2>2. Cardinality(U) \in Nat
    BY <1>1, FS_CardinalityType, Zenon
  <2> QED
    BY <2>1, <2>2
<1>3. \A y \in S : f[y] \in Int
  BY DEF At
<1>4. CASE x \in S
  <2>1. f[x] = v
    BY <1>4, Zenon DEF At
  <2>2. SumFunctionOnSet(f, S) = f[x] + SumFunctionOnSet(f, U)
    BY <1>3, <1>4, SumTake, SMT
  <2> QED
    BY <1>2, <1>3, <1>4, <2>1, <2>2
<1>5. CASE x \notin S
  <2>1. S = U
    BY <1>5, Zenon
  <2> QED
    BY <1>2, <1>3, <1>5, <2>1, Zenon
<1> QED
  BY <1>4, <1>5

PutOn(h, S, v, m, w, n, x, i, y, j, z, k) ==
  \A a \in S : h[a] = (IF a = v THEN m ELSE 0) + (IF a = w THEN n ELSE 0)
                      + (IF a = x THEN i ELSE 0) + (IF a = y THEN j ELSE 0)
                      + (IF a = z THEN k ELSE 0)

\* The legs of an entry add up to those that fall on the set.
LEMMA SumPoints ==
  ASSUME NEW S, IsFiniteSet(S), NEW h,
         NEW v, NEW w, NEW x, NEW y, NEW z,
         NEW m \in Int, NEW n \in Int, NEW i \in Int, NEW j \in Int, NEW k \in Int,
         PutOn(h, S, v, m, w, n, x, i, y, j, z, k)
  PROVE  SumFunctionOnSet(h, S) = (IF v \in S THEN m ELSE 0) + (IF w \in S THEN n ELSE 0)
                             + (IF x \in S THEN i ELSE 0) + (IF y \in S THEN j ELSE 0)
                             + (IF z \in S THEN k ELSE 0)
<1> DEFINE P(p, q) == [a \in S |-> IF a = p THEN q ELSE 0]
           f1 == P(v, m)
           f2 == P(w, n)
           f3 == P(x, i)
           f4 == P(y, j)
           f5 == P(z, k)
           h2 == [a \in S |-> f1[a] + f2[a]]
           h3 == [a \in S |-> h2[a] + f3[a]]
           h4 == [a \in S |-> h3[a] + f4[a]]
<1>1. At(f1, S, v, m) /\ At(f2, S, w, n) /\ At(f3, S, x, i) /\ At(f4, S, y, j) /\ At(f5, S, z, k)
  BY Zenon DEF At
<1>2. \A a \in S : /\ h2[a] = f1[a] + f2[a] /\ h3[a] = h2[a] + f3[a]
                   /\ h4[a] = h3[a] + f4[a] /\ h[a] = h4[a] + f5[a]
  BY Zenon DEF PutOn
<1> HIDE DEF f1, f2, f3, f4, f5, h2, h3, h4
<1>3. /\ SumFunctionOnSet(f1, S) = (IF v \in S THEN m ELSE 0) /\ \A a \in S : f1[a] \in Int
      /\ SumFunctionOnSet(f2, S) = (IF w \in S THEN n ELSE 0) /\ \A a \in S : f2[a] \in Int
      /\ SumFunctionOnSet(f3, S) = (IF x \in S THEN i ELSE 0) /\ \A a \in S : f3[a] \in Int
      /\ SumFunctionOnSet(f4, S) = (IF y \in S THEN j ELSE 0) /\ \A a \in S : f4[a] \in Int
      /\ SumFunctionOnSet(f5, S) = (IF z \in S THEN k ELSE 0) /\ \A a \in S : f5[a] \in Int
  BY <1>1, SumPoint, Zenon
<1>4. \A a \in S : h2[a] \in Int /\ h3[a] \in Int /\ h4[a] \in Int
  BY <1>2, <1>3
<1>5. SumFunctionOnSet(h2, S) = SumFunctionOnSet(f1, S) + SumFunctionOnSet(f2, S)
  <2>1. \A a \in S : f1[a] \in Int /\ f2[a] \in Int /\ h2[a] = f1[a] + f2[a]
    BY <1>2, <1>3, Zenon
  <2> QED
    BY <2>1, SumAdd, Zenon
<1>6. SumFunctionOnSet(h3, S) = SumFunctionOnSet(h2, S) + SumFunctionOnSet(f3, S)
  <2>1. \A a \in S : h2[a] \in Int /\ f3[a] \in Int /\ h3[a] = h2[a] + f3[a]
    BY <1>2, <1>3, <1>4, Zenon
  <2> QED
    BY <2>1, SumAdd, Zenon
<1>7. SumFunctionOnSet(h4, S) = SumFunctionOnSet(h3, S) + SumFunctionOnSet(f4, S)
  <2>1. \A a \in S : h3[a] \in Int /\ f4[a] \in Int /\ h4[a] = h3[a] + f4[a]
    BY <1>2, <1>3, <1>4, Zenon
  <2> QED
    BY <2>1, SumAdd, Zenon
<1>8. SumFunctionOnSet(h, S) = SumFunctionOnSet(h4, S) + SumFunctionOnSet(f5, S)
  <2>1. \A a \in S : h4[a] \in Int /\ f5[a] \in Int /\ h[a] = h4[a] + f5[a]
    BY <1>2, <1>3, <1>4, Zenon
  <2> QED
    BY <2>1, SumAdd, Zenon
<1> QED
  BY <1>3, <1>5, <1>6, <1>7, <1>8, Zenon

-----------------------------------------------------------------------------
(* The smallest and the largest element *)

\* A set of natural numbers that is not empty has a least element.
LEMMA LeastNatural ==
  ASSUME NEW T, T \subseteq Nat, T # {}
  PROVE  \E x \in T : \A y \in T : x <= y
<1>1. PICK x \in T : \A y \in T : ~ (<<y, x>> \in OpToRel(<, Nat))
  BY NatLessThanWellFounded, WFMin, Zenon
<1>2. \A y \in T : <<y, x>> \in OpToRel(<, Nat) <=> y < x
  BY DEF OpToRel
<1>3. \A y \in T : ~ (y < x)
  BY <1>1, <1>2, Zenon
<1>4. x \in Nat /\ \A y \in T : y \in Nat
  BY <1>1
<1> QED
  BY <1>3, <1>4

\* A bounded function has a largest value on a set that is not empty.
LEMMA LargestValue ==
  ASSUME NEW S, S # {}, NEW f, NEW m \in Nat, \A x \in S : f[x] \in 0..m
  PROVE  \E x \in S : \A y \in S : f[y] <= f[x]
<1>1. {m - f[x] : x \in S} \subseteq Nat
  OBVIOUS
<1>2. PICK v \in {m - f[x] : x \in S} : \A w \in {m - f[x] : x \in S} : v <= w
  BY <1>1, LeastNatural
<1>3. PICK x \in S : v = m - f[x]
  BY <1>2
<1>4. \A y \in S : m - f[x] <= m - f[y]
  BY <1>2, <1>3
<1> QED
  BY <1>4
=============================================================================
