------------------------------- MODULE SumLemmas -------------------------------
(***************************************************************************)
(* What SumFunctionOnSet computes, for every finite set and every function *)
(* into the integers: the facts on which the budgets and the books rest.   *)
(*                                                                         *)
(* The operator is a recursive function over the subsets of the set, which *)
(* takes the elements in an order CHOOSE fixes.  That such a function      *)
(* exists, and that the order does not matter, is proved by taking a       *)
(* smallest subset for which it fails: strict inclusion is well founded    *)
(* on the subsets of a finite set.                                         *)
(***************************************************************************)
EXTENDS FiniteSetsExt, FiniteSetTheorems, WellFoundedInduction, TLAPS

Pick(s) == CHOOSE x \in s : TRUE

(* Function g sums f over the subsets of S.                                *)
Sums(g, f, S) ==
  g = [s \in SUBSET S |-> IF s = {} THEN 0 ELSE f[Pick(s)] + g[s \ {Pick(s)}]]

(* The sum, as the library computes it: a function chosen by its equation. *)
LEMMA SumIsChosen ==
  ASSUME NEW f, NEW S
  PROVE  SumFunctionOnSet(f, S) = (CHOOSE g : Sums(g, f, S))[S]
BY DEF SumFunctionOnSet, FoldFunctionOnSet, MapThenFoldSet, Sums, Pick

(* A set of subsets of S is all of them, if it contains each subset whose  *)
(* strict subsets it contains.                                             *)
LEMMA SubsetInduction ==
  ASSUME NEW S, IsFiniteSet(S), NEW Good,
         \A T \in SUBSET S : (\A U \in SUBSET T : U # T => U \in Good) => T \in Good
  PROVE  \A T \in SUBSET S : T \in Good
<1> DEFINE Bad == (SUBSET S) \ Good
<1> SUFFICES ASSUME Bad # {} PROVE FALSE
  OBVIOUS
<1>1. IsWellFoundedOn(StrictSubsetOrdering(S), SUBSET S)
  <2>1. IsWellFoundedOn(StrictSubsetOrdering(S), FiniteSubsetsOf(S))
    BY FS_StrictSubsetOrderingWellFounded
  <2>2. FiniteSubsetsOf(S) = SUBSET S
    BY FS_FiniteSubsetsOfFinite
  <2> QED
    BY <2>1, <2>2
<1>2. PICK T \in Bad : \A U \in Bad : ~ (<<U, T>> \in StrictSubsetOrdering(S))
  <2>1. Bad \subseteq SUBSET S
    OBVIOUS
  <2> HIDE DEF Bad
  <2> QED
    BY <1>1, <2>1, WFMin
<1>3. \A U \in SUBSET T : U # T => U \in Good
  BY <1>2 DEF StrictSubsetOrdering
<1> QED
  BY <1>2, <1>3

(* What the library takes off first is in the set.                         *)
LEMMA PickIs == \A s : s # {} => Pick(s) \in s
BY DEF Pick

(* Two such functions agree where both are defined.                        *)
LEMMA SumsAgree ==
  ASSUME NEW f, NEW A, NEW B, NEW g, NEW h, Sums(g, f, A), Sums(h, f, B),
         NEW W, W \subseteq A, W \subseteq B, IsFiniteSet(W)
  PROVE  g[W] = h[W]
<1> DEFINE Good == {T \in SUBSET W : g[T] = h[T]}
<1>1. ASSUME NEW T \in SUBSET W, \A U \in SUBSET T : U # T => U \in Good
      PROVE  T \in Good
  <2>1. /\ g[T] = IF T = {} THEN 0 ELSE f[Pick(T)] + g[T \ {Pick(T)}]
        /\ h[T] = IF T = {} THEN 0 ELSE f[Pick(T)] + h[T \ {Pick(T)}]
    <3>1. T \in SUBSET A /\ T \in SUBSET B
      OBVIOUS
    <3> QED
      BY <3>1 DEF Sums
  <2>2. CASE T = {}
    BY <2>1, <2>2
  <2>3. CASE T # {}
    <3>1. T \ {Pick(T)} \in Good
      BY <1>1, <2>3, PickIs
    <3> QED
      BY <2>1, <2>3, <3>1
  <2> QED
    BY <2>2, <2>3
<1> HIDE DEF Good
<1>2. \A T \in SUBSET W : T \in Good
  BY <1>1, SubsetInduction
<1> QED
  BY <1>2 DEF Good

(* There is one.                                                           *)
LEMMA SumsExist ==
  ASSUME NEW f, NEW S, IsFiniteSet(S)
  PROVE  \E g : Sums(g, f, S)
<1> DEFINE Good == {T \in SUBSET S : \E g : Sums(g, f, T)}
           Sum(T) == (CHOOSE g : Sums(g, f, T))[T]
           G(T) == [U \in SUBSET T |-> IF U = {} THEN 0 ELSE f[Pick(U)] + Sum(U \ {Pick(U)})]
<1>1. ASSUME NEW T \in SUBSET S, \A U \in SUBSET T : U # T => U \in Good
      PROVE  T \in Good
  <2>1. ASSUME NEW V \in SUBSET T, V # T
        PROVE  G(T)[V] = Sum(V)
    <3> DEFINE h == CHOOSE g : Sums(g, f, V)
    <3>1. Sums(h, f, V)
      BY <1>1, <2>1
    <3>2. Sum(V) = h[V] /\ h[V] = IF V = {} THEN 0 ELSE f[Pick(V)] + h[V \ {Pick(V)}]
      BY <3>1 DEF Sums
    <3>3. CASE V = {}
      BY <3>2, <3>3
    <3>4. CASE V # {}
      <4> DEFINE W == V \ {Pick(V)}
                 k == CHOOSE g : Sums(g, f, W)
      <4>1. W \in SUBSET T /\ W # T /\ W \subseteq V
        BY <3>4, PickIs
      <4>2. Sums(k, f, W)
        BY <1>1, <4>1
      <4>3. IsFiniteSet(W)
        BY <4>1, FS_Subset
      <4> HIDE DEF h, k
      <4>4. h[W] = k[W]
        BY <3>1, <4>1, <4>2, <4>3, SumsAgree
      <4>5. Sum(W) = k[W]
        BY DEF k
      <4> QED
        BY <2>1, <3>2, <3>4, <4>4, <4>5
    <3> QED
      BY <3>3, <3>4
  <2>2. \A U \in SUBSET T : U # {} => G(T)[U \ {Pick(U)}] = Sum(U \ {Pick(U)})
    <3> SUFFICES ASSUME NEW U \in SUBSET T, U # {}
                 PROVE  G(T)[U \ {Pick(U)}] = Sum(U \ {Pick(U)})
      OBVIOUS
    <3>1. U \ {Pick(U)} \in SUBSET T /\ U \ {Pick(U)} # T
      BY PickIs
    <3> HIDE DEF G, Sum
    <3> QED
      BY <2>1, <3>1
  <2>3. G(T) = [U \in SUBSET T |-> IF U = {} THEN 0 ELSE f[Pick(U)] + G(T)[U \ {Pick(U)}]]
    <3> HIDE DEF Sum
    <3> QED
      BY <2>2
  <2>4. Sums(G(T), f, T)
    <3> HIDE DEF G
    <3> QED
      BY <2>3 DEF Sums
  <2> QED
    BY <2>4
<1> HIDE DEF Good
<1>2. \A T \in SUBSET S : T \in Good
  BY <1>1, SubsetInduction
<1> QED
  BY <1>2 DEF Good

(* The sum takes one element off at a time.                                *)
LEMMA SumStep ==
  ASSUME NEW f, NEW S, IsFiniteSet(S)
  PROVE  SumFunctionOnSet(f, S) =
           IF S = {} THEN 0 ELSE f[Pick(S)] + SumFunctionOnSet(f, S \ {Pick(S)})
<1> DEFINE g == CHOOSE g : Sums(g, f, S)
           W == S \ {Pick(S)}
           h == CHOOSE h : Sums(h, f, W)
<1>1. IsFiniteSet(W) /\ W \subseteq S
  BY FS_Subset
<1>2. Sums(g, f, S) /\ Sums(h, f, W)
  BY <1>1, SumsExist
<1>3. SumFunctionOnSet(f, S) = g[S] /\ SumFunctionOnSet(f, W) = h[W]
  BY SumIsChosen
<1>4. g[S] = IF S = {} THEN 0 ELSE f[Pick(S)] + g[W]
  BY <1>2 DEF Sums
<1> HIDE DEF g, h
<1>5. g[W] = h[W]
  BY <1>1, <1>2, SumsAgree
<1> QED
  BY <1>3, <1>4, <1>5

(* The sum of nothing.                                                     *)
LEMMA SumEmpty == ASSUME NEW f PROVE SumFunctionOnSet(f, {}) = 0
BY SumStep, FS_EmptySet

(* A sum of integers is one.                                               *)
LEMMA SumType ==
  ASSUME NEW S, IsFiniteSet(S), NEW f, \A x \in S : f[x] \in Int
  PROVE  SumFunctionOnSet(f, S) \in Int
<1> DEFINE Good == {T \in SUBSET S : SumFunctionOnSet(f, T) \in Int}
<1>1. ASSUME NEW T \in SUBSET S, \A U \in SUBSET T : U # T => U \in Good
      PROVE  T \in Good
  <2>1. IsFiniteSet(T)
    BY FS_Subset
  <2>2. SumFunctionOnSet(f, T) = IF T = {} THEN 0 ELSE f[Pick(T)] + SumFunctionOnSet(f, T \ {Pick(T)})
    BY <2>1, SumStep
  <2>3. T # {} => T \ {Pick(T)} \in Good /\ f[Pick(T)] \in Int
    BY <1>1, PickIs
  <2> QED
    BY <2>2, <2>3
<1> HIDE DEF Good
<1>2. \A T \in SUBSET S : T \in Good
  BY <1>1, SubsetInduction
<1> QED
  BY <1>2 DEF Good

(* Any element may be taken off.                                           *)
LEMMA SumRemove ==
  ASSUME NEW S, IsFiniteSet(S), NEW f, \A x \in S : f[x] \in Int, NEW e \in S
  PROVE  SumFunctionOnSet(f, S) = f[e] + SumFunctionOnSet(f, S \ {e})
<1> DEFINE Sum(T) == SumFunctionOnSet(f, T)
           Good == {T \in SUBSET S : \A x \in T : Sum(T) = f[x] + Sum(T \ {x})}
<1>1. \A T \in SUBSET S : IsFiniteSet(T)
  BY FS_Subset
<1>2. \A T \in SUBSET S : Sum(T) \in Int
  BY <1>1, SumType
<1>3. \A T \in SUBSET S : T # {} => Pick(T) \in T /\ Sum(T) = f[Pick(T)] + Sum(T \ {Pick(T)})
  BY <1>1, SumStep, PickIs
<1> HIDE DEF Sum
<1>4. ASSUME NEW T \in SUBSET S, \A U \in SUBSET T : U # T => U \in Good
      PROVE  T \in Good
  <2> SUFFICES ASSUME NEW x \in T PROVE Sum(T) = f[x] + Sum(T \ {x})
    OBVIOUS
  <2> DEFINE c == Pick(T)
  <2>1. c \in T /\ Sum(T) = f[c] + Sum(T \ {c})
    BY <1>3
  <2>2. CASE x = c
    BY <2>1, <2>2
  <2>3. CASE x # c
    <3> HIDE DEF c
    <3>1. T \ {c} \in Good /\ T \ {x} \in Good
      BY <1>4, <2>1
    <3>2. Sum(T \ {c}) = f[x] + Sum((T \ {c}) \ {x})
      BY <2>3, <3>1
    <3>3. Sum(T \ {x}) = f[c] + Sum((T \ {x}) \ {c})
      BY <2>1, <2>3, <3>1
    <3>4. Sum((T \ {c}) \ {x}) = Sum((T \ {x}) \ {c})
      <4>1. (T \ {c}) \ {x} = (T \ {x}) \ {c}
        OBVIOUS
      <4> QED
        BY <4>1
    <3>5. f[x] \in Int /\ f[c] \in Int /\ Sum((T \ {c}) \ {x}) \in Int
      BY <1>2, <2>1
    <3>6. ASSUME NEW a \in Int, NEW b \in Int, NEW r \in Int PROVE a + (b + r) = b + (a + r)
      OBVIOUS
    <3>7. f[c] + (f[x] + Sum((T \ {c}) \ {x})) = f[x] + (f[c] + Sum((T \ {c}) \ {x}))
      BY <3>5, <3>6
    <3> QED
      BY <2>1, <3>2, <3>3, <3>4, <3>7
  <2> QED
    BY <2>2, <2>3
<1> HIDE DEF Good
<1>5. \A T \in SUBSET S : T \in Good
  BY <1>4, SubsetInduction
<1>6. S \in Good
  BY <1>5
<1> QED
  BY <1>6 DEF Good, Sum

(* A sum grows by what is added to it.                                     *)
LEMMA SumAdd ==
  ASSUME NEW S, IsFiniteSet(S), NEW f, NEW e, e \notin S, \A x \in S \cup {e} : f[x] \in Int
  PROVE  SumFunctionOnSet(f, S \cup {e}) = f[e] + SumFunctionOnSet(f, S)
<1>1. IsFiniteSet(S \cup {e})
  BY FS_AddElement
<1>2. (S \cup {e}) \ {e} = S
  OBVIOUS
<1>3. e \in S \cup {e}
  OBVIOUS
<1> QED
  BY <1>1, <1>2, <1>3, SumRemove

(* Nowhere more, no more altogether.                                       *)
LEMMA SumMonotone ==
  ASSUME NEW S, IsFiniteSet(S), NEW f, NEW g,
         \A x \in S : f[x] \in Int /\ g[x] \in Int /\ f[x] <= g[x]
  PROVE  SumFunctionOnSet(f, S) <= SumFunctionOnSet(g, S)
<1> DEFINE F(T) == SumFunctionOnSet(f, T)
           G(T) == SumFunctionOnSet(g, T)
           Good == {T \in SUBSET S : F(T) <= G(T)}
<1>1. ASSUME NEW T \in SUBSET S, \A U \in SUBSET T : U # T => U \in Good
      PROVE  T \in Good
  <2>1. IsFiniteSet(T) /\ IsFiniteSet(T \ {Pick(T)})
    BY FS_Subset
  <2>2. /\ F(T) = IF T = {} THEN 0 ELSE f[Pick(T)] + F(T \ {Pick(T)})
        /\ G(T) = IF T = {} THEN 0 ELSE g[Pick(T)] + G(T \ {Pick(T)})
    BY <2>1, SumStep
  <2>3. F(T \ {Pick(T)}) \in Int /\ G(T \ {Pick(T)}) \in Int
    <3>1. \A x \in T \ {Pick(T)} : f[x] \in Int /\ g[x] \in Int
      OBVIOUS
    <3> QED
      BY <2>1, <3>1, SumType
  <2> HIDE DEF F, G
  <2>4. T # {} => /\ T \ {Pick(T)} \in Good
                  /\ f[Pick(T)] \in Int /\ g[Pick(T)] \in Int /\ f[Pick(T)] <= g[Pick(T)]
    BY <1>1, PickIs
  <2> QED
    BY <2>2, <2>3, <2>4
<1> HIDE DEF Good
<1>2. \A T \in SUBSET S : T \in Good
  BY <1>1, SubsetInduction
<1>3. S \in Good
  BY <1>2
<1> QED
  BY <1>3 DEF Good

(* Only the values on the set count.                                       *)
LEMMA SumAgrees ==
  ASSUME NEW S, IsFiniteSet(S), NEW f, NEW g, \A x \in S : f[x] \in Int /\ g[x] = f[x]
  PROVE  SumFunctionOnSet(f, S) = SumFunctionOnSet(g, S)
<1>1. SumFunctionOnSet(f, S) <= SumFunctionOnSet(g, S)
  BY SumMonotone
<1>2. SumFunctionOnSet(g, S) <= SumFunctionOnSet(f, S)
  BY SumMonotone
<1>3. SumFunctionOnSet(f, S) \in Int /\ SumFunctionOnSet(g, S) \in Int
  BY SumType
<1> QED
  BY <1>1, <1>2, <1>3

(* Adding up two functions together, or each by itself.                    *)
LEMMA SumCombine ==
  ASSUME NEW S, IsFiniteSet(S), NEW f, NEW g, NEW h,
         \A x \in S : f[x] \in Int /\ g[x] \in Int /\ h[x] = f[x] + g[x]
  PROVE  SumFunctionOnSet(h, S) = SumFunctionOnSet(f, S) + SumFunctionOnSet(g, S)
<1> DEFINE F(T) == SumFunctionOnSet(f, T)
           G(T) == SumFunctionOnSet(g, T)
           H(T) == SumFunctionOnSet(h, T)
           Good == {T \in SUBSET S : H(T) = F(T) + G(T)}
<1>1. ASSUME NEW T \in SUBSET S, \A U \in SUBSET T : U # T => U \in Good
      PROVE  T \in Good
  <2>1. IsFiniteSet(T) /\ IsFiniteSet(T \ {Pick(T)})
    BY FS_Subset
  <2>2. /\ F(T) = IF T = {} THEN 0 ELSE f[Pick(T)] + F(T \ {Pick(T)})
        /\ G(T) = IF T = {} THEN 0 ELSE g[Pick(T)] + G(T \ {Pick(T)})
        /\ H(T) = IF T = {} THEN 0 ELSE h[Pick(T)] + H(T \ {Pick(T)})
    BY <2>1, SumStep
  <2>3. F(T \ {Pick(T)}) \in Int /\ G(T \ {Pick(T)}) \in Int
    <3>1. \A x \in T \ {Pick(T)} : f[x] \in Int /\ g[x] \in Int
      OBVIOUS
    <3> QED
      BY <2>1, <3>1, SumType
  <2> HIDE DEF F, G, H
  <2>4. T # {} => /\ T \ {Pick(T)} \in Good
                  /\ f[Pick(T)] \in Int /\ g[Pick(T)] \in Int
                  /\ h[Pick(T)] = f[Pick(T)] + g[Pick(T)]
    BY <1>1, PickIs
  <2> QED
    BY <2>2, <2>3, <2>4
<1> HIDE DEF Good
<1>2. \A T \in SUBSET S : T \in Good
  BY <1>1, SubsetInduction
<1>3. S \in Good
  BY <1>2
<1> QED
  BY <1>3 DEF Good

(* A factor may be taken out of a sum.                                     *)
LEMMA SumScaled ==
  ASSUME NEW S, IsFiniteSet(S), NEW f, NEW g, NEW k \in Int,
         \A x \in S : f[x] \in Int /\ g[x] = k * f[x]
  PROVE  SumFunctionOnSet(g, S) = k * SumFunctionOnSet(f, S)
<1> DEFINE F(T) == SumFunctionOnSet(f, T)
           G(T) == SumFunctionOnSet(g, T)
           Good == {T \in SUBSET S : G(T) = k * F(T)}
<1>1. ASSUME NEW T \in SUBSET S, \A U \in SUBSET T : U # T => U \in Good
      PROVE  T \in Good
  <2>1. IsFiniteSet(T) /\ IsFiniteSet(T \ {Pick(T)})
    BY FS_Subset
  <2>2. /\ F(T) = IF T = {} THEN 0 ELSE f[Pick(T)] + F(T \ {Pick(T)})
        /\ G(T) = IF T = {} THEN 0 ELSE g[Pick(T)] + G(T \ {Pick(T)})
    BY <2>1, SumStep
  <2>3. F(T \ {Pick(T)}) \in Int
    <3>1. \A x \in T \ {Pick(T)} : f[x] \in Int
      OBVIOUS
    <3> QED
      BY <2>1, <3>1, SumType
  <2> HIDE DEF F, G
  <2>4. T # {} => /\ T \ {Pick(T)} \in Good
                  /\ f[Pick(T)] \in Int /\ g[Pick(T)] = k * f[Pick(T)]
    BY <1>1, PickIs
  <2>5. \A a \in Int, b \in Int : k * a + k * b = k * (a + b)
    OBVIOUS
  <2>6. k * 0 = 0
    OBVIOUS
  <2>7. CASE T = {}
    BY <2>2, <2>6, <2>7
  <2>8. CASE T # {}
    <3>1. G(T) = k * f[Pick(T)] + k * F(T \ {Pick(T)})
      BY <2>2, <2>4, <2>8
    <3>2. k * f[Pick(T)] + k * F(T \ {Pick(T)}) = k * (f[Pick(T)] + F(T \ {Pick(T)}))
      BY <2>3, <2>4, <2>5, <2>8
    <3> QED
      BY <2>2, <2>8, <3>1, <3>2
  <2> QED
    BY <2>7, <2>8
<1> HIDE DEF Good
<1>2. \A T \in SUBSET S : T \in Good
  BY <1>1, SubsetInduction
<1>3. S \in Good
  BY <1>2
<1> QED
  BY <1>3 DEF Good

(* Elements that count nothing may be left out.                            *)
LEMMA SumZeros ==
  ASSUME NEW S, IsFiniteSet(S), NEW D \in SUBSET S, NEW f,
         \A x \in S : f[x] \in Int, \A x \in S \ D : f[x] = 0
  PROVE  SumFunctionOnSet(f, S) = SumFunctionOnSet(f, D)
<1> DEFINE F(T) == SumFunctionOnSet(f, T)
           Good == {T \in SUBSET S : D \subseteq T => F(T) = F(D)}
<1>1. ASSUME NEW T \in SUBSET S, \A U \in SUBSET T : U # T => U \in Good
      PROVE  T \in Good
  <2> SUFFICES ASSUME D \subseteq T, D # T PROVE F(T) = F(D)
    OBVIOUS
  <2>1. PICK e \in T : e \notin D
    OBVIOUS
  <2>2. T \ {e} \in Good /\ D \subseteq T \ {e}
    BY <1>1, <2>1
  <2>3. IsFiniteSet(T) /\ IsFiniteSet(D)
    BY FS_Subset
  <2>4. \A x \in T : f[x] \in Int
    OBVIOUS
  <2>5. F(T) = f[e] + F(T \ {e})
    BY <2>3, <2>4, SumRemove
  <2>6. F(D) \in Int
    BY <2>3, SumType
  <2> HIDE DEF F
  <2> QED
    BY <2>1, <2>2, <2>5, <2>6
<1> HIDE DEF Good
<1>2. \A T \in SUBSET S : T \in Good
  BY <1>1, SubsetInduction
<1>3. S \in Good
  BY <1>2
<1> QED
  BY <1>3 DEF Good

(* A function that extends another by one element sums to that much more.  *)
LEMMA SumOfMore ==
  ASSUME NEW D, IsFiniteSet(D), NEW e, e \notin D, NEW f, NEW g,
         \A p \in D : f[p] \in Int /\ g[p] = f[p], g[e] \in Int
  PROVE  SumFunctionOnSet(g, D \cup {e}) = SumFunctionOnSet(f, D) + g[e]
<1>1. SumFunctionOnSet(g, D \cup {e}) = g[e] + SumFunctionOnSet(g, D)
  BY SumAdd
<1>2. SumFunctionOnSet(f, D) = SumFunctionOnSet(g, D)
  BY SumAgrees
<1>3. SumFunctionOnSet(f, D) \in Int
  BY SumType
<1> QED
  BY <1>1, <1>2, <1>3
===============================================================================
