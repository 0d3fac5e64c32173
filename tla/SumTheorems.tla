----------------------------- MODULE SumTheorems -----------------------------
(***************************************************************************)
(* Sums of a function over a finite set, as SumFunctionOnSet of module     *)
(* Functions defines them: by a recursive function on the subsets, which   *)
(* takes an element that CHOOSE picks.  The recursion has one solution,    *)
(* and which element goes first does not matter.                           *)
(*                                                                         *)
(* Each induction is by a smallest counterexample: strict inclusion is     *)
(* well founded on the subsets of a finite set.                            *)
(***************************************************************************)
EXTENDS Integers, FiniteSets, Functions, FiniteSetTheorems, WellFoundedInduction, TLAPS

Chosen(s) == CHOOSE x \in s : TRUE

\* it sums f over every subset of U.
Sums(f, U, it) ==
  it = [s \in SUBSET U |-> IF s = {} THEN 0 ELSE f[Chosen(s)] + it[s \ {Chosen(s)}]]

SumOf(f, U) == CHOOSE it : Sums(f, U, it)

LEMMA SumUnfolded ==
  ASSUME NEW f, NEW S PROVE SumFunctionOnSet(f, S) = SumOf(f, S)[S]
BY DEF SumFunctionOnSet, FoldFunctionOnSet, MapThenFoldSet, SumOf, Sums, Chosen

\* A set of subsets of a finite set has a smallest member.
LEMMA SmallestSubset ==
  ASSUME NEW S, IsFiniteSet(S), NEW T \in SUBSET (SUBSET S), T # {}
  PROVE  \E U \in T : \A V \in T : V \subseteq U => V = U
<1>1. IsWellFoundedOn(StrictSubsetOrdering(S), SUBSET S)
  BY FS_StrictSubsetOrderingWellFounded, FS_FiniteSubsetsOfFinite
<1>2. PICK U \in T : \A V \in T : <<V, U>> \notin StrictSubsetOrdering(S)
  <2> HIDE DEF StrictSubsetOrdering
  <2>1. QED
    BY <1>1, WFMin
<1>3. \A V \in T : V \subseteq U => V = U
  BY <1>2 DEF StrictSubsetOrdering
<1>4. QED
  BY <1>3

LEMMA ChosenMember == \A s : s # {} => Chosen(s) \in s
BY DEF Chosen

LEMMA SumsValue ==
  ASSUME NEW f, NEW U, NEW it, Sums(f, U, it), NEW s \in SUBSET U
  PROVE  it[s] = IF s = {} THEN 0 ELSE f[Chosen(s)] + it[s \ {Chosen(s)}]
<1> DEFINE g == [t \in SUBSET U |-> IF t = {} THEN 0 ELSE f[Chosen(t)] + it[t \ {Chosen(t)}]]
<1>1. it = g
  BY DEF Sums
<1>2. g[s] = IF s = {} THEN 0 ELSE f[Chosen(s)] + it[s \ {Chosen(s)}]
  OBVIOUS
<1> HIDE DEF g
<1>3. QED
  BY <1>1, <1>2

\* Two sums agree where both are defined.
LEMMA SumsAgree ==
  ASSUME NEW f, NEW U, NEW V, NEW a, NEW b, Sums(f, U, a), Sums(f, V, b),
         IsFiniteSet(V), V \subseteq U
  PROVE  \A s \in SUBSET V : a[s] = b[s]
<1> DEFINE T == {s \in SUBSET V : a[s] # b[s]}
<1> SUFFICES ASSUME T # {} PROVE FALSE
  OBVIOUS
<1>1. T \in SUBSET (SUBSET V)
  OBVIOUS
<1> HIDE DEF T
<1>2. PICK s \in T : \A t \in T : t \subseteq s => t = s
  BY <1>1, SmallestSubset
<1>3. s \in SUBSET V /\ a[s] # b[s]
  BY <1>2 DEF T
<1> DEFINE t == s \ {Chosen(s)}
<1>4. /\ a[s] = IF s = {} THEN 0 ELSE f[Chosen(s)] + a[t]
      /\ b[s] = IF s = {} THEN 0 ELSE f[Chosen(s)] + b[t]
  BY <1>3, SumsValue
<1>5. s # {} /\ a[t] # b[t]
  BY <1>3, <1>4
<1>6. t \in T
  BY <1>3, <1>5 DEF T
<1>7. QED
  BY <1>2, <1>5, <1>6, ChosenMember

\* The recursion has a solution.
LEMMA SumsExist ==
  ASSUME NEW f, NEW S, IsFiniteSet(S) PROVE \E it : Sums(f, S, it)
<1> DEFINE T == {V \in SUBSET S : ~\E it : Sums(f, V, it)}
<1> SUFFICES ASSUME T # {} PROVE FALSE
  OBVIOUS
<1>1. T \in SUBSET (SUBSET S)
  OBVIOUS
<1> HIDE DEF T
<1>2. PICK U \in T : \A V \in T : V \subseteq U => V = U
  BY <1>1, SmallestSubset
<1>3. U \in SUBSET S /\ ~\E it : Sums(f, U, it)
  BY <1>2 DEF T
<1>4. ASSUME NEW V \in SUBSET U, V # U PROVE Sums(f, V, SumOf(f, V)) /\ IsFiniteSet(V)
  <2>1. V \notin T /\ V \in SUBSET S
    BY <1>2, <1>3, <1>4
  <2>2. \E it : Sums(f, V, it)
    BY <2>1 DEF T
  <2>3. Sums(f, V, SumOf(f, V))
    BY <2>2 DEF SumOf
  <2>4. QED
    BY <2>1, <2>3, FS_Subset
<1> DEFINE rest(s) == s \ {Chosen(s)}
           value(s) == IF s = {} THEN 0 ELSE f[Chosen(s)] + SumOf(f, rest(s))[rest(s)]
           g == [s \in SUBSET U |-> value(s)]
<1>5. ASSUME NEW v \in SUBSET U, v # U PROVE value(v) = SumOf(f, v)[v]
  <2>1. Sums(f, v, SumOf(f, v)) /\ IsFiniteSet(v)
    BY <1>4, <1>5
  <2>2. SumOf(f, v)[v] = IF v = {} THEN 0 ELSE f[Chosen(v)] + SumOf(f, v)[rest(v)]
    BY <2>1, SumsValue
  <2>3. CASE v # {}
    <3>1. rest(v) \in SUBSET U /\ rest(v) # U /\ rest(v) \subseteq v
      BY <2>3, <1>5, ChosenMember
    <3>2. Sums(f, rest(v), SumOf(f, rest(v))) /\ IsFiniteSet(rest(v))
      BY <3>1, <1>4
    <3>3. SumOf(f, v)[rest(v)] = SumOf(f, rest(v))[rest(v)]
      BY <2>1, <3>1, <3>2, SumsAgree
    <3>4. QED
      BY <2>2, <2>3, <3>3
  <2>4. QED
    BY <2>2, <2>3
<1>6. ASSUME NEW s \in SUBSET U
      PROVE  value(s) = IF s = {} THEN 0 ELSE f[Chosen(s)] + g[rest(s)]
  <2>1. CASE s # {}
    <3>1. rest(s) \in SUBSET U /\ rest(s) # U
      BY <2>1, ChosenMember
    <3>2. g[rest(s)] = SumOf(f, rest(s))[rest(s)]
      <4>1. g[rest(s)] = value(rest(s))
        BY <3>1
      <4> HIDE DEF value, g, rest
      <4>2. QED
        BY <3>1, <4>1, <1>5
    <3> HIDE DEF g, rest
    <3>3. QED
      BY <2>1, <3>2
  <2>2. QED
    BY <2>1
<1>7. Sums(f, U, g)
  <2>1. g = [s \in SUBSET U |-> IF s = {} THEN 0 ELSE f[Chosen(s)] + g[rest(s)]]
    <3>1. \A s \in SUBSET U : value(s) = IF s = {} THEN 0 ELSE f[Chosen(s)] + g[rest(s)]
      BY <1>6
    <3> HIDE DEF value
    <3>2. QED
      BY <3>1
  <2>2. QED
    BY <2>1 DEF Sums
<1>8. QED
  BY <1>3, <1>7

LEMMA SumOfSums ==
  ASSUME NEW f, NEW S, IsFiniteSet(S) PROVE Sums(f, S, SumOf(f, S))
BY SumsExist DEF SumOf

-----------------------------------------------------------------------------
LEMMA SumEmpty == \A f : SumFunctionOnSet(f, {}) = 0
<1>1. IsFiniteSet({})
  BY FS_EmptySet
<1>2. ASSUME NEW f PROVE SumFunctionOnSet(f, {}) = 0
  BY <1>1, SumUnfolded, SumOfSums, SumsValue
<1>3. QED
  BY <1>2

LEMMA SumStep ==
  ASSUME NEW f, NEW S, IsFiniteSet(S), S # {}
  PROVE  SumFunctionOnSet(f, S) = f[Chosen(S)] + SumFunctionOnSet(f, S \ {Chosen(S)})
<1> DEFINE R == S \ {Chosen(S)}
<1>1. IsFiniteSet(R) /\ R \subseteq S
  BY FS_Subset
<1>2. Sums(f, S, SumOf(f, S)) /\ Sums(f, R, SumOf(f, R))
  BY <1>1, SumOfSums
<1>3. SumOf(f, S)[S] = f[Chosen(S)] + SumOf(f, S)[R]
  BY <1>2, SumsValue
<1>4. SumOf(f, S)[R] = SumOf(f, R)[R]
  BY <1>1, <1>2, SumsAgree
<1>5. QED
  BY <1>3, <1>4, SumUnfolded

-----------------------------------------------------------------------------
(* The sums of a set and of its parts. *)

LEMMA SumInt ==
  ASSUME NEW S, IsFiniteSet(S), NEW f, \A x \in S : f[x] \in Int
  PROVE  SumFunctionOnSet(f, S) \in Int
<1> DEFINE T == {V \in SUBSET S : SumFunctionOnSet(f, V) \notin Int}
<1> SUFFICES ASSUME T # {} PROVE FALSE
  OBVIOUS
<1>1. T \in SUBSET (SUBSET S)
  OBVIOUS
<1> HIDE DEF T
<1>2. PICK U \in T : \A V \in T : V \subseteq U => V = U
  BY <1>1, SmallestSubset
<1>3. U \in SUBSET S /\ SumFunctionOnSet(f, U) \notin Int /\ IsFiniteSet(U)
  BY <1>2, FS_Subset DEF T
<1>4. U # {}
  BY <1>3, SumEmpty
<1> DEFINE c == Chosen(U)  R == U \ {c}
<1>5. c \in U /\ R \in SUBSET S /\ R # U /\ R \subseteq U
  BY <1>3, <1>4, ChosenMember
<1>6. SumFunctionOnSet(f, R) \in Int
  BY <1>2, <1>5 DEF T
<1>7. SumFunctionOnSet(f, U) = f[c] + SumFunctionOnSet(f, R)
  BY <1>3, <1>4, SumStep
<1>8. f[c] \in Int
  BY <1>3, <1>5
<1> HIDE DEF c, R
<1>9. QED
  BY <1>3, <1>6, <1>7, <1>8

\* Any element can go first.
LEMMA SumRemove ==
  ASSUME NEW S, IsFiniteSet(S), NEW f, \A x \in S : f[x] \in Int, NEW y \in S
  PROVE  SumFunctionOnSet(f, S) = f[y] + SumFunctionOnSet(f, S \ {y})
<1> DEFINE Sum(V) == SumFunctionOnSet(f, V)
           T == {V \in SUBSET S : \E x \in V : Sum(V) # f[x] + Sum(V \ {x})}
<1> SUFFICES ASSUME T # {} PROVE FALSE
  OBVIOUS
<1>1. T \in SUBSET (SUBSET S)
  OBVIOUS
<1>2. \A V \in SUBSET S : IsFiniteSet(V) /\ Sum(V) \in Int
  BY FS_Subset, SumInt
<1> HIDE DEF T
<1>3. PICK U \in T : \A V \in T : V \subseteq U => V = U
  BY <1>1, SmallestSubset
<1>4. PICK x \in U : Sum(U) # f[x] + Sum(U \ {x})
  BY <1>3 DEF T
<1>5. U \in SUBSET S /\ IsFiniteSet(U) /\ U # {}
  BY <1>1, <1>2, <1>3, <1>4
<1> DEFINE c == Chosen(U)
<1>6. c \in U /\ Sum(U) = f[c] + Sum(U \ {c})
  BY <1>5, SumStep, ChosenMember
<1>7. x # c
  BY <1>4, <1>6
<1>8. Sum(U \ {c}) = f[x] + Sum((U \ {c}) \ {x})
  <2>1. U \ {c} \notin T /\ U \ {c} \in SUBSET S /\ x \in U \ {c}
    BY <1>3, <1>4, <1>5, <1>6, <1>7
  <2>2. QED
    BY <2>1 DEF T
<1>9. Sum(U \ {x}) = f[c] + Sum((U \ {x}) \ {c})
  <2>1. U \ {x} \notin T /\ U \ {x} \in SUBSET S /\ c \in U \ {x}
    BY <1>3, <1>4, <1>5, <1>6, <1>7
  <2>2. QED
    BY <2>1 DEF T
<1>10. (U \ {c}) \ {x} = (U \ {x}) \ {c}
  OBVIOUS
<1>11. f[x] \in Int /\ f[c] \in Int /\ Sum((U \ {x}) \ {c}) \in Int
  <2>1. (U \ {x}) \ {c} \in SUBSET S
    BY <1>5
  <2>2. QED
    BY <1>2, <1>4, <1>5, <1>6, <2>1
<1> DEFINE rest == Sum((U \ {x}) \ {c})
<1>12. Sum(U \ {c}) = f[x] + rest /\ Sum(U \ {x}) = f[c] + rest /\ rest \in Int
  BY <1>8, <1>9, <1>10, <1>11
<1> HIDE DEF Sum, c, rest
<1>13. QED
  BY <1>4, <1>6, <1>11, <1>12

\* The larger the terms, the larger the sum.
LEMMA SumMonotone ==
  ASSUME NEW S, IsFiniteSet(S), NEW f, NEW g,
         \A x \in S : f[x] \in Int /\ g[x] \in Int /\ f[x] <= g[x]
  PROVE  SumFunctionOnSet(f, S) <= SumFunctionOnSet(g, S)
<1> DEFINE F(V) == SumFunctionOnSet(f, V)
           G(V) == SumFunctionOnSet(g, V)
           T == {V \in SUBSET S : ~(F(V) <= G(V))}
<1> SUFFICES ASSUME T # {} PROVE FALSE
  OBVIOUS
<1>1. T \in SUBSET (SUBSET S)
  OBVIOUS
<1>2. \A V \in SUBSET S : IsFiniteSet(V) /\ F(V) \in Int /\ G(V) \in Int
  BY FS_Subset, SumInt
<1>3. F({}) = 0 /\ G({}) = 0
  BY SumEmpty
<1> HIDE DEF T
<1>4. PICK U \in T : \A V \in T : V \subseteq U => V = U
  BY <1>1, SmallestSubset
<1>5. U \in SUBSET S /\ ~(F(U) <= G(U)) /\ U # {} /\ IsFiniteSet(U)
  <2>1. U \in SUBSET S /\ ~(F(U) <= G(U))
    BY <1>4 DEF T
  <2> HIDE DEF F, G
  <2>2. U # {}
    BY <1>3, <2>1
  <2>3. QED
    BY <1>2, <2>1, <2>2
<1> DEFINE c == Chosen(U)  R == U \ {c}
<1>6. c \in U /\ F(U) = f[c] + F(R) /\ G(U) = g[c] + G(R)
  BY <1>5, SumStep, ChosenMember
<1>7. R \in SUBSET S /\ R \notin T
  BY <1>4, <1>5, <1>6
<1>8. F(R) <= G(R)
  BY <1>7 DEF T
<1>9. f[c] \in Int /\ g[c] \in Int /\ f[c] <= g[c] /\ F(R) \in Int /\ G(R) \in Int
  BY <1>2, <1>5, <1>6, <1>7
<1> HIDE DEF F, G, c, R
<1>10. QED
  BY <1>5, <1>6, <1>8, <1>9

\* The sum looks at nothing but the terms of its set.
LEMMA SumEqual ==
  ASSUME NEW S, IsFiniteSet(S), NEW f, NEW g,
         \A x \in S : f[x] = g[x] /\ f[x] \in Int
  PROVE  SumFunctionOnSet(f, S) = SumFunctionOnSet(g, S)
<1>1. SumFunctionOnSet(f, S) <= SumFunctionOnSet(g, S)
  BY SumMonotone
<1>2. SumFunctionOnSet(g, S) <= SumFunctionOnSet(f, S)
  BY SumMonotone
<1>3. SumFunctionOnSet(f, S) \in Int /\ SumFunctionOnSet(g, S) \in Int
  BY SumInt
<1>4. QED
  BY <1>1, <1>2, <1>3

LEMMA SumZero ==
  ASSUME NEW S, IsFiniteSet(S), NEW f, \A x \in S : f[x] = 0
  PROVE  SumFunctionOnSet(f, S) = 0
<1> DEFINE T == {V \in SUBSET S : SumFunctionOnSet(f, V) # 0}
<1> SUFFICES ASSUME T # {} PROVE FALSE
  OBVIOUS
<1>1. T \in SUBSET (SUBSET S)
  OBVIOUS
<1> HIDE DEF T
<1>2. PICK U \in T : \A V \in T : V \subseteq U => V = U
  BY <1>1, SmallestSubset
<1>3. U \in SUBSET S /\ SumFunctionOnSet(f, U) # 0 /\ IsFiniteSet(U)
  BY <1>2, FS_Subset DEF T
<1>4. U # {}
  BY <1>3, SumEmpty
<1> DEFINE c == Chosen(U)  R == U \ {c}
<1>5. c \in U /\ R \in SUBSET S /\ R # U /\ R \subseteq U
  BY <1>3, <1>4, ChosenMember
<1>6. SumFunctionOnSet(f, R) = 0
  BY <1>2, <1>5 DEF T
<1>7. SumFunctionOnSet(f, U) = f[c] + SumFunctionOnSet(f, R)
  BY <1>3, <1>4, SumStep
<1>8. f[c] = 0
  BY <1>3, <1>5
<1> HIDE DEF c, R
<1>9. QED
  BY <1>3, <1>6, <1>7, <1>8

LEMMA SumNat ==
  ASSUME NEW S, IsFiniteSet(S), NEW f, \A x \in S : f[x] \in Nat
  PROVE  SumFunctionOnSet(f, S) \in Nat
<1> DEFINE zero == [x \in S |-> 0]
<1>1. SumFunctionOnSet(zero, S) = 0
  BY SumZero
<1>2. SumFunctionOnSet(zero, S) <= SumFunctionOnSet(f, S)
  BY SumMonotone
<1>3. SumFunctionOnSet(f, S) \in Int
  BY SumInt
<1> HIDE DEF zero
<1>4. QED
  BY <1>1, <1>2, <1>3

\* One term is replaced by another.
LEMMA SumUpdate ==
  ASSUME NEW S, IsFiniteSet(S), NEW f, \A x \in S : f[x] \in Int,
         NEW y \in S, NEW g, g[y] \in Int, \A x \in S : x # y => g[x] = f[x]
  PROVE  SumFunctionOnSet(g, S) = SumFunctionOnSet(f, S) - f[y] + g[y]
<1> DEFINE R == S \ {y}
<1>1. IsFiniteSet(R) /\ \A x \in R : f[x] \in Int /\ g[x] = f[x]
  BY FS_Subset
<1>2. SumFunctionOnSet(g, R) = SumFunctionOnSet(f, R) /\ SumFunctionOnSet(f, R) \in Int
  BY <1>1, SumEqual, SumInt
<1>3. SumFunctionOnSet(f, S) = f[y] + SumFunctionOnSet(f, R)
  BY SumRemove
<1>4. SumFunctionOnSet(g, S) = g[y] + SumFunctionOnSet(g, R)
  BY SumRemove
<1>5. f[y] \in Int
  OBVIOUS
<1> HIDE DEF R
<1>6. QED
  BY <1>2, <1>3, <1>4, <1>5

\* No term exceeds the sum.
LEMMA SumPart ==
  ASSUME NEW S, IsFiniteSet(S), NEW f, \A x \in S : f[x] \in Nat, NEW y \in S
  PROVE  f[y] <= SumFunctionOnSet(f, S)
<1> DEFINE R == S \ {y}
<1>1. IsFiniteSet(R)
  BY FS_Subset
<1>2. SumFunctionOnSet(f, R) \in Nat
  BY <1>1, SumNat
<1>3. SumFunctionOnSet(f, S) = f[y] + SumFunctionOnSet(f, R) /\ f[y] \in Nat
  BY SumRemove
<1> HIDE DEF R
<1>4. QED
  BY <1>2, <1>3

-----------------------------------------------------------------------------
(* Sums over the image of a set. *)

\* h takes S to T, one to one.
Pairs(h, S, T) ==
  /\ \A x, y \in S : h[x] = h[y] => x = y
  /\ \A x \in S : h[x] \in T
  /\ \A y \in T : \E x \in S : y = h[x]

\* An injective image has as many elements.
LEMMA ImageFinite ==
  ASSUME NEW S, IsFiniteSet(S), NEW h, NEW T, Pairs(h, S, T)
  PROVE  IsFiniteSet(T) /\ Cardinality(T) = Cardinality(S)
<1> DEFINE k == [x \in S |-> h[x]]
<1>1. k \in [S -> T] /\ (\A x, y \in S : k[x] = k[y] => x = y) /\ \A t \in T : \E x \in S : k[x] = t
  BY DEF Pairs
<1>2. k \in Bijection(S, T)
  <2>1. k \in Surjection(S, T)
    BY <1>1 DEF Surjection
  <2>2. k \in Injection(S, T)
    <3>1. DOMAIN k = S
      OBVIOUS
    <3>2. IsInjective(k)
      BY <1>1, <3>1 DEF IsInjective
    <3> HIDE DEF k
    <3>3. QED
      BY <1>1, <3>2 DEF Injection
  <2>3. QED
    BY <2>1, <2>2 DEF Bijection
<1>3. QED
  BY <1>2, FS_Bijection DEF ExistsBijection

LEMMA SumImage ==
  ASSUME NEW S, IsFiniteSet(S), NEW h, NEW I, Pairs(h, S, I),
         NEW f, NEW g, \A x \in S : g[x] \in Int /\ f[h[x]] = g[x]
  PROVE  SumFunctionOnSet(f, I) = SumFunctionOnSet(g, S)
<1>0. I = {h[x] : x \in S} /\ \A x, y \in S : h[x] = h[y] => x = y
  BY DEF Pairs
<1> DEFINE Im(V) == {h[x] : x \in V}
           F(V) == SumFunctionOnSet(f, Im(V))
           G(V) == SumFunctionOnSet(g, V)
           T == {V \in SUBSET S : F(V) # G(V)}
<1> SUFFICES ASSUME T # {} PROVE FALSE
  BY <1>0
<1>1. T \in SUBSET (SUBSET S)
  OBVIOUS
<1>2. F({}) = G({})
  <2>1. Im({}) = {}
    OBVIOUS
  <2> HIDE DEF Im
  <2>2. QED
    BY <2>1, SumEmpty
<1> HIDE DEF T
<1>3. PICK U \in T : \A V \in T : V \subseteq U => V = U
  BY <1>1, SmallestSubset
<1>4. U \in SUBSET S /\ F(U) # G(U)
  BY <1>3 DEF T
<1>5. IsFiniteSet(U) /\ IsFiniteSet(Im(U))
  <2>1. IsFiniteSet(U)
    BY <1>4, FS_Subset
  <2>2. Pairs(h, U, Im(U))
    BY <1>0, <1>4 DEF Pairs
  <2> HIDE DEF Im
  <2>3. QED
    BY <2>1, <2>2, ImageFinite
<1>6. U # {}
  <2> HIDE DEF F, G
  <2>1. QED
    BY <1>2, <1>4
<1> DEFINE c == Chosen(U)  R == U \ {c}
<1>7. c \in U /\ R \in SUBSET S /\ R # U /\ R \subseteq U
  BY <1>4, <1>6, ChosenMember
<1>8. F(R) = G(R)
  BY <1>3, <1>7 DEF T
<1>9. G(U) = g[c] + G(R)
  BY <1>5, <1>6, SumStep
<1>10. F(U) = g[c] + F(R)
  <2>1. Im(R) = Im(U) \ {h[c]} /\ h[c] \in Im(U)
    BY <1>0, <1>4, <1>7
  <2>2. (\A y \in Im(U) : f[y] \in Int) /\ f[h[c]] = g[c]
    BY <1>4, <1>7
  <2> HIDE DEF Im, c, R
  <2>3. SumFunctionOnSet(f, Im(U)) = f[h[c]] + SumFunctionOnSet(f, Im(U) \ {h[c]})
    BY <1>5, <2>1, <2>2, SumRemove
  <2>4. QED
    BY <2>1, <2>2, <2>3
<1> HIDE DEF F, G, c, R
<1>11. QED
  BY <1>4, <1>8, <1>9, <1>10

LEMMA SumNegate ==
  ASSUME NEW S, IsFiniteSet(S), NEW f, NEW g, \A x \in S : f[x] \in Int /\ g[x] = -f[x]
  PROVE  SumFunctionOnSet(g, S) = -SumFunctionOnSet(f, S)
<1> DEFINE F(V) == SumFunctionOnSet(f, V)
           G(V) == SumFunctionOnSet(g, V)
           T == {V \in SUBSET S : G(V) # -F(V)}
<1> SUFFICES ASSUME T # {} PROVE FALSE
  OBVIOUS
<1>1. T \in SUBSET (SUBSET S)
  OBVIOUS
<1>2. F({}) = 0 /\ G({}) = 0
  BY SumEmpty
<1> HIDE DEF T
<1>3. PICK U \in T : \A V \in T : V \subseteq U => V = U
  BY <1>1, SmallestSubset
<1>4. U \in SUBSET S /\ G(U) # -F(U)
  BY <1>3 DEF T
<1>5. IsFiniteSet(U)
  BY <1>4, FS_Subset
<1>6. U # {}
  <2> HIDE DEF F, G
  <2>1. QED
    BY <1>2, <1>4
<1> DEFINE c == Chosen(U)  R == U \ {c}
<1>7. c \in U /\ R \in SUBSET S /\ R # U /\ R \subseteq U
  BY <1>4, <1>6, ChosenMember
<1>8. G(R) = -F(R)
  BY <1>3, <1>7 DEF T
<1>9. G(U) = g[c] + G(R) /\ F(U) = f[c] + F(R)
  BY <1>5, <1>6, SumStep
<1>10. f[c] \in Int /\ g[c] = -f[c]
  BY <1>4, <1>7
<1>11. F(R) \in Int
  BY <1>4, <1>7, FS_Subset, SumInt
<1> HIDE DEF F, G, c, R
<1>12. QED
  BY <1>4, <1>8, <1>9, <1>10, <1>11

\* A set's sum is that of a part and of the rest.
LEMMA SumSplit ==
  ASSUME NEW S, IsFiniteSet(S), NEW f, \A x \in S : f[x] \in Int, NEW P \in SUBSET S
  PROVE  SumFunctionOnSet(f, S) = SumFunctionOnSet(f, P) + SumFunctionOnSet(f, S \ P)
<1> DEFINE F(V) == SumFunctionOnSet(f, V)
           T == {V \in SUBSET S : F(V) # F(V \cap P) + F(V \ P)}
<1> SUFFICES ASSUME T # {} PROVE FALSE
  <2>1. S \cap P = P
    OBVIOUS
  <2> HIDE DEF F
  <2>2. S \notin T => F(S) = F(S \cap P) + F(S \ P)
    OBVIOUS
  <2> HIDE DEF T
  <2>3. QED
    BY <2>1, <2>2 DEF F
<1>1. T \in SUBSET (SUBSET S)
  OBVIOUS
<1>2. \A V \in SUBSET S : IsFiniteSet(V) /\ F(V) \in Int
  BY FS_Subset, SumInt
<1> HIDE DEF T
<1>3. PICK U \in T : \A V \in T : V \subseteq U => V = U
  BY <1>1, SmallestSubset
<1>4. U \in SUBSET S /\ F(U) # F(U \cap P) + F(U \ P)
  BY <1>3 DEF T
<1>5. U # {}
  <2> SUFFICES ASSUME U = {} PROVE FALSE
    OBVIOUS
  <2>1. U \cap P = {} /\ U \ P = {}
    OBVIOUS
  <2>2. F(U) = 0 /\ F(U \cap P) = 0 /\ F(U \ P) = 0
    BY <2>1, SumEmpty
  <2> HIDE DEF F
  <2>3. QED
    BY <1>4, <2>2
<1>6. PICK c \in U : TRUE
  BY <1>5
<1> DEFINE R == U \ {c}
<1>7. R \in SUBSET S /\ R \notin T /\ c \in S
  BY <1>3, <1>4, <1>6
<1>8. F(R) = F(R \cap P) + F(R \ P)
  BY <1>7 DEF T
<1>9. F(U) = f[c] + F(R) /\ f[c] \in Int
  BY <1>2, <1>4, <1>6, SumRemove
<1>10. F(R \cap P) \in Int /\ F(R \ P) \in Int
  <2>1. R \cap P \in SUBSET S /\ R \ P \in SUBSET S
    BY <1>7
  <2> HIDE DEF F, R
  <2>2. QED
    BY <1>2, <2>1
<1>11. CASE c \in P
  <2>1. (U \cap P) \ {c} = R \cap P /\ U \ P = R \ P /\ U \cap P \in SUBSET S /\ c \in U \cap P
    BY <1>4, <1>6, <1>11
  <2>2. F(U \cap P) = f[c] + F((U \cap P) \ {c})
    BY <1>2, <2>1, SumRemove
  <2> HIDE DEF F, R
  <2>3. F(U \cap P) = f[c] + F(R \cap P) /\ F(U \ P) = F(R \ P)
    BY <2>1, <2>2
  <2>4. QED
    BY <1>4, <1>8, <1>9, <1>10, <2>3
<1>12. CASE c \notin P
  <2>1. (U \ P) \ {c} = R \ P /\ U \cap P = R \cap P /\ U \ P \in SUBSET S /\ c \in U \ P
    BY <1>4, <1>6, <1>12
  <2>2. F(U \ P) = f[c] + F((U \ P) \ {c})
    BY <1>2, <2>1, SumRemove
  <2> HIDE DEF F, R
  <2>3. F(U \ P) = f[c] + F(R \ P) /\ F(U \cap P) = F(R \cap P)
    BY <2>1, <2>2
  <2>4. QED
    BY <1>4, <1>8, <1>9, <1>10, <2>3
<1>13. QED
  BY <1>11, <1>12

\* The sum of two functions added up.
LEMMA SumAdd ==
  ASSUME NEW S, IsFiniteSet(S), NEW f, NEW g, NEW h,
         \A x \in S : f[x] \in Int /\ g[x] \in Int /\ h[x] = f[x] + g[x]
  PROVE  SumFunctionOnSet(h, S) = SumFunctionOnSet(f, S) + SumFunctionOnSet(g, S)
<1> DEFINE F(V) == SumFunctionOnSet(f, V)
           G(V) == SumFunctionOnSet(g, V)
           H(V) == SumFunctionOnSet(h, V)
           T == {V \in SUBSET S : H(V) # F(V) + G(V)}
<1> SUFFICES ASSUME T # {} PROVE FALSE
  OBVIOUS
<1>1. T \in SUBSET (SUBSET S)
  OBVIOUS
<1>2. F({}) = 0 /\ G({}) = 0 /\ H({}) = 0
  BY SumEmpty
<1> HIDE DEF T
<1>3. PICK U \in T : \A V \in T : V \subseteq U => V = U
  BY <1>1, SmallestSubset
<1>4. U \in SUBSET S /\ H(U) # F(U) + G(U)
  BY <1>3 DEF T
<1>5. IsFiniteSet(U)
  BY <1>4, FS_Subset
<1>6. U # {}
  <2> SUFFICES ASSUME U = {} PROVE FALSE
    OBVIOUS
  <2>1. F(U) = 0 /\ G(U) = 0 /\ H(U) = 0
    BY <1>2
  <2> HIDE DEF F, G, H
  <2>2. QED
    BY <1>4, <2>1
<1> DEFINE c == Chosen(U)  R == U \ {c}
<1>7. c \in U /\ R \in SUBSET S /\ R # U /\ R \subseteq U
  BY <1>4, <1>6, ChosenMember
<1>8. H(R) = F(R) + G(R)
  BY <1>3, <1>7 DEF T
<1>9. F(U) = f[c] + F(R) /\ G(U) = g[c] + G(R) /\ H(U) = h[c] + H(R)
  BY <1>5, <1>6, SumStep
<1>10. f[c] \in Int /\ g[c] \in Int /\ h[c] = f[c] + g[c]
  BY <1>4, <1>7
<1>11. F(R) \in Int /\ G(R) \in Int
  BY <1>4, <1>7, FS_Subset, SumInt
<1> HIDE DEF F, G, H, c, R
<1>12. QED
  BY <1>4, <1>8, <1>9, <1>10, <1>11
=============================================================================
