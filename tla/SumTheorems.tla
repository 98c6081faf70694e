---------------------------- MODULE SumTheorems ----------------------------
(***************************************************************************)
(* What has to be known of the sums the models are written with: the sum   *)
(* over a finite set does not depend on the order of its terms.  The sum   *)
(* is recursive, so these facts need induction over finite sets, which is  *)
(* had here from a least counterexample in a well-founded order.           *)
(***************************************************************************)
EXTENDS Integers, FiniteSetsExt, FiniteSetTheorems, WellFoundedInduction, TLAPS

\* The element a sum takes next, as MapThenSumSet does.
Chosen(s) == CHOOSE x \in s : TRUE

\* h[s] is the sum over s, for every subset s of S.
Sums(h, f, S) ==
  h = [s \in SUBSET S |->
         IF s = {} THEN 0 ELSE f[Chosen(s)] + h[s \ {Chosen(s)}]]

\* The sum of f[x] for x in S.
SumOver(f, S) == (CHOOSE h : Sums(h, f, S))[S]

\* MapThenSumSet of the community modules is this sum.
LEMMA SumIsFold ==
  ASSUME NEW f, NEW S
  PROVE MapThenSumSet(LAMBDA x : f[x], S) = SumOver(f, S)
BY DEF MapThenSumSet, MapThenFoldSet, SumOver, Sums, Chosen

\* Induction over a finite set, in the form of a least counterexample.
LEMMA Minimal ==
  ASSUME NEW S, IsFiniteSet(S), NEW B, B \subseteq SUBSET S, B # {}
  PROVE  \E T \in B : \A U \in SUBSET T : U # T => U \notin B
<1>1. IsWellFoundedOn(StrictSubsetOrdering(S), FiniteSubsetsOf(S))
  BY FS_StrictSubsetOrderingWellFounded
<1>2. B \subseteq FiniteSubsetsOf(S) BY FS_FiniteSubsetsOfFinite
<1>3. PICK T \in B : \A y \in B : ~(<<y, T>> \in StrictSubsetOrdering(S))
  BY <1>1, <1>2, WFMin
<1> QED BY <1>3 DEF StrictSubsetOrdering

\* What is chosen of a set is in it.
LEMMA ChosenIn ==
  ASSUME NEW s, s # {}
  PROVE  Chosen(s) \in s
BY DEF Chosen

\* The recursive function behind a sum is the same over every larger set.
LEMMA SumsAgree ==
  ASSUME NEW f, NEW S, IsFiniteSet(S), NEW U, NEW V,
         S \subseteq U, S \subseteq V,
         NEW g, NEW h, Sums(g, f, U), Sums(h, f, V)
  PROVE  g[S] = h[S]
<1> DEFINE B == {s \in SUBSET S : g[s] # h[s]}
<1> SUFFICES ASSUME B # {} PROVE FALSE
  OBVIOUS
<1>0. B \subseteq SUBSET S
  OBVIOUS
<1> HIDE DEF B
<1>1. PICK T \in B : \A W \in SUBSET T : W # T => W \notin B
  BY <1>0, Minimal
<1> USE DEF B
<1> HIDE DEF B
<1>2. T \in SUBSET S /\ g[T] # h[T]
  BY DEF B
<1>3. T # {} /\ Chosen(T) \in T
  BY <1>2, ChosenIn DEF Sums
<1>4. T \ {Chosen(T)} \in SUBSET S /\ T \ {Chosen(T)} \notin B
  BY <1>1, <1>2, <1>3
<1>5. g[T \ {Chosen(T)}] = h[T \ {Chosen(T)}]
  BY <1>4 DEF B
<1>6. g[T] = f[Chosen(T)] + g[T \ {Chosen(T)}]
  BY <1>2, <1>3 DEF Sums
<1>7. h[T] = f[Chosen(T)] + h[T \ {Chosen(T)}]
  BY <1>2, <1>3 DEF Sums
<1> QED
  BY <1>2, <1>5, <1>6, <1>7

\* It exists over every finite set.
LEMMA SumsExist ==
  ASSUME NEW f, NEW S, IsFiniteSet(S)
  PROVE  \E h : Sums(h, f, S)
<1> DEFINE B == {s \in SUBSET S : ~\E h : Sums(h, f, s)}
<1> SUFFICES ASSUME B # {} PROVE FALSE
  OBVIOUS
<1>0. B \subseteq SUBSET S
  OBVIOUS
<1> HIDE DEF B
<1>1. PICK T \in B : \A W \in SUBSET T : W # T => W \notin B
  BY <1>0, Minimal
<1> USE DEF B
<1>a. T \in SUBSET S /\ ~\E h : Sums(h, f, T)
  OBVIOUS
<1>2. \A W \in SUBSET T : W # T => \E h : Sums(h, f, W)
  BY <1>1
<1> HIDE DEF B
<1> DEFINE below(s) == s \ {Chosen(s)}
           h == [s \in SUBSET T |-> IF s = {} THEN 0
                                    ELSE f[Chosen(s)] + SumOver(f, below(s))]
<1>3. \A s \in SUBSET T : s # {} => below(s) \in SUBSET T /\ below(s) # T
  BY ChosenIn
<1>4. \A s \in SUBSET T : s # T => h[s] = SumOver(f, s)
  <2> SUFFICES ASSUME NEW s \in SUBSET T, s # T PROVE h[s] = SumOver(f, s)
    OBVIOUS
  <2> DEFINE g == CHOOSE k : Sums(k, f, s)
  <2>1. Sums(g, f, s)
    BY <1>2
  <2>2. CASE s = {}
    <3>1. g[s] = 0
      BY <2>1, <2>2 DEF Sums
    <3> QED BY <3>1, <2>2 DEF SumOver
  <2>3. CASE s # {}
    <3> DEFINE k == CHOOSE k : Sums(k, f, below(s))
    <3>1. Sums(k, f, below(s))
      BY <1>2, <1>3, <2>3
    <3>2. IsFiniteSet(below(s)) /\ below(s) \subseteq s
      BY <1>a, FS_Subset
    <3> HIDE DEF k, g
    <3>3. g[below(s)] = k[below(s)]
      BY <3>1, <3>2, <2>1, SumsAgree
    <3>4. g[s] = f[Chosen(s)] + g[below(s)]
      BY <2>1, <2>3 DEF Sums
    <3>5. h[s] = f[Chosen(s)] + k[below(s)]
      BY <2>3 DEF SumOver, k
    <3> QED
      BY <3>3, <3>4, <3>5 DEF SumOver, g
  <2> QED BY <2>2, <2>3
<1>5. Sums(h, f, T)
  BY <1>3, <1>4 DEF Sums
<1> QED
  BY <1>5, <1>a

\* Nothing adds up to 0.
LEMMA SumEmpty ==
  ASSUME NEW f
  PROVE  SumOver(f, {}) = 0
<1>1. \E h : Sums(h, f, {})
  BY SumsExist, FS_EmptySet
<1> DEFINE h == CHOOSE h : Sums(h, f, {})
<1>2. Sums(h, f, {})
  BY <1>1
<1> HIDE DEF h
<1>3. h[{}] = 0
  BY <1>2 DEF Sums
<1> QED BY <1>3 DEF SumOver, h

\* The recursive equation.
LEMMA SumChosen ==
  ASSUME NEW f, NEW S, IsFiniteSet(S), S # {}
  PROVE  SumOver(f, S) = f[Chosen(S)] + SumOver(f, S \ {Chosen(S)})
<1> DEFINE c == Chosen(S)
           R == S \ {c}
           g == CHOOSE h : Sums(h, f, S)
           k == CHOOSE h : Sums(h, f, R)
<1>1. Sums(g, f, S)
  BY SumsExist
<1>2. IsFiniteSet(R)
  BY FS_RemoveElement
<1>3. Sums(k, f, R)
  BY <1>2, SumsExist
<1> HIDE DEF g, k
<1>4. g[R] = k[R]
  BY <1>1, <1>2, <1>3, SumsAgree
<1>5. g[S] = f[c] + g[R]
  BY <1>1 DEF Sums
<1> QED
  BY <1>4, <1>5 DEF SumOver, g, k

\* Integers add up to an integer.
LEMMA SumInt ==
  ASSUME NEW S, IsFiniteSet(S), NEW f, \A x \in S : f[x] \in Int
  PROVE  SumOver(f, S) \in Int
<1> DEFINE B == {s \in SUBSET S : SumOver(f, s) \notin Int}
<1> SUFFICES ASSUME B # {} PROVE FALSE
  OBVIOUS
<1>0. B \subseteq SUBSET S
  OBVIOUS
<1> HIDE DEF B
<1>1. PICK T \in B : \A W \in SUBSET T : W # T => W \notin B
  BY <1>0, Minimal
<1> USE DEF B
<1>2. T # {} /\ Chosen(T) \in T
  BY SumEmpty, ChosenIn
<1>3. IsFiniteSet(T)
  BY FS_Subset
<1>4. SumOver(f, T \ {Chosen(T)}) \in Int
  BY <1>1, <1>2
<1>5. SumOver(f, T) = f[Chosen(T)] + SumOver(f, T \ {Chosen(T)})
  BY <1>2, <1>3, SumChosen
<1> QED
  BY <1>2, <1>4, <1>5

\* The order of the terms does not matter: any one can be taken out.
LEMMA SumRemove ==
  ASSUME NEW S, IsFiniteSet(S), NEW f, \A x \in S : f[x] \in Int,
         NEW x \in S
  PROVE  SumOver(f, S) = f[x] + SumOver(f, S \ {x})
<1> DEFINE B == {s \in SUBSET S :
                   \E y \in s : SumOver(f, s) # f[y] + SumOver(f, s \ {y})}
<1> SUFFICES ASSUME B # {} PROVE FALSE
  OBVIOUS
<1>0. B \subseteq SUBSET S
  OBVIOUS
<1> HIDE DEF B
<1>1. PICK T \in B : \A W \in SUBSET T : W # T => W \notin B
  BY <1>0, Minimal
<1> USE DEF B
<1>2. PICK y \in T : SumOver(f, T) # f[y] + SumOver(f, T \ {y})
  OBVIOUS
<1>3. T \in SUBSET S
  OBVIOUS
<1>4. \A W \in SUBSET T : W # T =>
        \A z \in W : SumOver(f, W) = f[z] + SumOver(f, W \ {z})
  BY <1>1
<1> HIDE DEF B
<1> DEFINE c == Chosen(T)
<1>5. c \in T
  BY <1>2, ChosenIn
<1>6. SumOver(f, T) = f[c] + SumOver(f, T \ {c})
  BY <1>2, <1>3, FS_Subset, SumChosen
<1>7. y # c
  BY <1>2, <1>6
<1>8. SumOver(f, T \ {c}) = f[y] + SumOver(f, (T \ {c}) \ {y})
  BY <1>4, <1>5, <1>7
<1>9. SumOver(f, T \ {y}) = f[c] + SumOver(f, (T \ {y}) \ {c})
  BY <1>4, <1>5, <1>7
<1>10. SumOver(f, (T \ {y}) \ {c}) = SumOver(f, (T \ {c}) \ {y})
  <2>1. (T \ {y}) \ {c} = (T \ {c}) \ {y}
    OBVIOUS
  <2> QED BY <2>1
<1>11. SumOver(f, (T \ {c}) \ {y}) \in Int
  <2>1. IsFiniteSet((T \ {c}) \ {y})
    BY <1>3, FS_Subset
  <2> QED
    BY <2>1, <1>3, SumInt
<1>12. f[y] \in Int /\ f[c] \in Int
  BY <1>3, <1>5
<1> HIDE DEF c
<1> QED
  BY <1>2, <1>6, <1>8, <1>9, <1>10, <1>11, <1>12

\* Adding an element adds its term.
LEMMA SumAdd ==
  ASSUME NEW S, IsFiniteSet(S), NEW x, x \notin S,
         NEW f, \A y \in S \union {x} : f[y] \in Int
  PROVE  SumOver(f, S \union {x}) = SumOver(f, S) + f[x]
<1>1. IsFiniteSet(S \union {x})
  BY FS_AddElement
<1>2. SumOver(f, S \union {x}) = f[x] + SumOver(f, (S \union {x}) \ {x})
  BY <1>1, SumRemove
<1>3. SumOver(f, (S \union {x}) \ {x}) = SumOver(f, S)
  <2>1. (S \union {x}) \ {x} = S
    OBVIOUS
  <2> QED BY <2>1
<1>4. SumOver(f, S) \in Int
  BY SumInt
<1> QED
  BY <1>2, <1>3, <1>4

\* A sum depends on its terms only.
LEMMA SumSame ==
  ASSUME NEW S, IsFiniteSet(S), NEW f, NEW g, \A x \in S : f[x] = g[x]
  PROVE  SumOver(f, S) = SumOver(g, S)
<1> DEFINE B == {s \in SUBSET S : SumOver(f, s) # SumOver(g, s)}
<1> SUFFICES ASSUME B # {} PROVE FALSE
  OBVIOUS
<1>0. B \subseteq SUBSET S
  OBVIOUS
<1> HIDE DEF B
<1>1. PICK T \in B : \A W \in SUBSET T : W # T => W \notin B
  BY <1>0, Minimal
<1> USE DEF B
<1>2. T # {} /\ Chosen(T) \in T
  BY SumEmpty, ChosenIn
<1>3. IsFiniteSet(T)
  BY FS_Subset
<1>4. SumOver(f, T \ {Chosen(T)}) = SumOver(g, T \ {Chosen(T)})
  BY <1>1, <1>2
<1>5. /\ SumOver(f, T) = f[Chosen(T)] + SumOver(f, T \ {Chosen(T)})
      /\ SumOver(g, T) = g[Chosen(T)] + SumOver(g, T \ {Chosen(T)})
  BY <1>2, <1>3, SumChosen
<1> QED
  BY <1>2, <1>4, <1>5

\* A sum of naturals over a larger set is no smaller.
LEMMA SumSubset ==
  ASSUME NEW T, IsFiniteSet(T), NEW f, \A x \in T : f[x] \in Nat,
         NEW S \in SUBSET T
  PROVE  SumOver(f, S) <= SumOver(f, T)
<1> DEFINE B == {U \in SUBSET T :
                   \E s \in SUBSET U : ~(SumOver(f, s) <= SumOver(f, U))}
<1> SUFFICES ASSUME B # {} PROVE FALSE
  OBVIOUS
<1>0. B \subseteq SUBSET T
  OBVIOUS
<1> HIDE DEF B
<1>1. PICK U \in B : \A W \in SUBSET U : W # U => W \notin B
  BY <1>0, Minimal
<1> USE DEF B
<1>2. PICK s \in SUBSET U : ~(SumOver(f, s) <= SumOver(f, U))
  OBVIOUS
<1>3. IsFiniteSet(U) /\ \A x \in U : f[x] \in Int
  BY FS_Subset
<1>4. SumOver(f, U) \in Int
  BY <1>3, SumInt
<1>5. PICK x \in U : x \notin s
  BY <1>2, <1>4
<1>6. SumOver(f, U) = f[x] + SumOver(f, U \ {x})
  BY <1>3, SumRemove
<1>7. IsFiniteSet(U \ {x}) /\ U \ {x} \in SUBSET U /\ U \ {x} # U
  BY <1>3, FS_RemoveElement
<1>8. SumOver(f, U \ {x}) \in Int
  BY <1>3, <1>7, SumInt
<1>9. SumOver(f, s) <= SumOver(f, U \ {x})
  <2>1. U \ {x} \notin B /\ s \in SUBSET (U \ {x})
    BY <1>1, <1>5, <1>7
  <2> QED BY <2>1
<1>10. SumOver(f, s) \in Int
  <2>1. IsFiniteSet(s)
    BY <1>3, FS_Subset
  <2> QED BY <1>3, <2>1, SumInt
<1>11. f[x] \in Nat
  OBVIOUS
<1> HIDE DEF B
<1> QED BY <1>2, <1>4, <1>6, <1>8, <1>9, <1>10, <1>11

\* Terms in a proportion have sums in that proportion.
LEMMA SumBelow ==
  ASSUME NEW S, IsFiniteSet(S), NEW a \in Nat, NEW b \in Nat, NEW f, NEW g,
         \A x \in S : f[x] \in Int /\ g[x] \in Int /\ a * f[x] <= b * g[x]
  PROVE  a * SumOver(f, S) <= b * SumOver(g, S)
<1> DEFINE B == {s \in SUBSET S : ~(a * SumOver(f, s) <= b * SumOver(g, s))}
<1> SUFFICES ASSUME B # {} PROVE FALSE
  OBVIOUS
<1>0. B \subseteq SUBSET S
  OBVIOUS
<1> HIDE DEF B
<1>1. PICK T \in B : \A W \in SUBSET T : W # T => W \notin B
  BY <1>0, Minimal
<1> USE DEF B
<1>2. ~(a * SumOver(f, T) <= b * SumOver(g, T)) /\ T \in SUBSET S
  OBVIOUS
<1>3. T # {}
  BY <1>2, SumEmpty
<1> DEFINE x == Chosen(T)
           R == T \ {x}
<1>4. x \in T /\ IsFiniteSet(T)
  BY <1>2, <1>3, ChosenIn, FS_Subset
<1>5. IsFiniteSet(R) /\ R \in SUBSET S /\ R \notin B
  BY <1>1, <1>4, FS_RemoveElement
<1>6. a * SumOver(f, R) <= b * SumOver(g, R)
  BY <1>5
<1>7. /\ SumOver(f, T) = f[x] + SumOver(f, R)
      /\ SumOver(g, T) = g[x] + SumOver(g, R)
  BY <1>3, <1>4, SumChosen
<1>8. SumOver(f, R) \in Int /\ SumOver(g, R) \in Int
  BY <1>5, SumInt
<1>9. f[x] \in Int /\ g[x] \in Int /\ a * f[x] <= b * g[x]
  BY <1>4
<1> HIDE DEF B, R, x
<1>10. /\ a * SumOver(f, T) = a * f[x] + a * SumOver(f, R)
       /\ b * SumOver(g, T) = b * g[x] + b * SumOver(g, R)
  BY <1>7, <1>8, <1>9
<1>11. /\ a * f[x] \in Int /\ a * SumOver(f, R) \in Int
       /\ b * g[x] \in Int /\ b * SumOver(g, R) \in Int
  BY <1>8, <1>9
<1> QED BY <1>2, <1>6, <1>9, <1>10, <1>11

\* The values of a function on a finite set are finitely many.
LEMMA ImageFinite ==
  ASSUME NEW S, IsFiniteSet(S), NEW f
  PROVE  IsFiniteSet({f[x] : x \in S})
<1> DEFINE g == [x \in S |-> f[x]]
           T == {f[x] : x \in S}
<1>1. g \in Surjection(S, T)
  BY DEF Surjection
<1> HIDE DEF g, T
<1>2. IsFiniteSet(T)
  BY <1>1, FS_Surjection
<1> QED BY <1>2 DEF T

\* A finite, non-empty set of integers has a greatest element.
LEMMA MaxIs ==
  ASSUME NEW S \in SUBSET Int, IsFiniteSet(S), S # {}
  PROVE  Max(S) \in S /\ \A y \in S : Max(S) >= y
<1> DEFINE greatest(T, x) == x \in T /\ \A y \in T : x >= y
           B == {T \in SUBSET S : T # {} /\ ~\E x : greatest(T, x)}
<1>1. B = {}
  <2> SUFFICES ASSUME B # {} PROVE FALSE
    OBVIOUS
  <2>0. B \subseteq SUBSET S
    OBVIOUS
  <2> HIDE DEF B
  <2>1. PICK T \in B : \A W \in SUBSET T : W # T => W \notin B
    BY <2>0, Minimal
  <2> USE DEF B
  <2>2. PICK x \in T : TRUE
    OBVIOUS
  <2> DEFINE R == T \ {x}
  <2>3. R \in SUBSET T /\ R # T /\ R \notin B
    BY <2>1, <2>2
  <2>4. CASE R = {}
    <3>1. greatest(T, x)
      BY <2>4
    <3> QED BY <3>1
  <2>5. CASE R # {}
    <3>1. PICK z : greatest(R, z)
      BY <2>3, <2>5
    <3>2. x \in Int /\ z \in Int /\ z \in T
      BY <3>1
    <3>3. CASE x >= z
      <4>1. greatest(T, x)
        BY <3>1, <3>2, <3>3
      <4> QED BY <4>1
    <3>4. CASE ~(x >= z)
      <4>1. greatest(T, z)
        BY <3>1, <3>2, <3>4
      <4> QED BY <4>1
    <3> QED BY <3>3, <3>4
  <2> QED BY <2>4, <2>5
<1>2. \E x : greatest(S, x)
  BY <1>1
<1> QED
  BY <1>2 DEF Max

-----------------------------------------------------------------------------
(***************************************************************************)
(* Naturals.                                                               *)
(***************************************************************************)
\* Induction over the naturals, in the form of a least counterexample.
LEMMA Least ==
  ASSUME NEW B, B \subseteq Nat, B # {}
  PROVE  \E n \in B : \A k \in B : n <= k
<1>1. PICK n \in B : \A k \in B : ~(<<k, n>> \in OpToRel(<, Nat))
  BY NatLessThanWellFounded, WFMin
<1>2. \A k \in B : ~(k < n)
  BY <1>1 DEF OpToRel
<1>3. \A k \in B : n <= k
  BY <1>2
<1> QED BY <1>3

\* The powers of two up to 2^n.
IsPower(f, n) == f = [k \in 0..n |-> IF k = 0 THEN 1 ELSE 2 * f[k - 1]]

\* Their recursion has a solution, for any n.
LEMMA PowersExist ==
  ASSUME NEW n \in Nat
  PROVE  \E f : IsPower(f, n)
<1> DEFINE B == {k \in Nat : ~\E f : IsPower(f, k)}
<1> SUFFICES ASSUME B # {} PROVE FALSE
  OBVIOUS
<1>0. B \subseteq Nat
  OBVIOUS
<1> HIDE DEF B
<1>1. PICK m \in B : \A k \in B : m <= k
  BY <1>0, Least
<1> USE DEF B
<1>2. m \in Nat /\ ~\E f : IsPower(f, m)
  OBVIOUS
<1>3. CASE m = 0
  <2>1. IsPower([k \in 0..m |-> 1], m)
    BY <1>3 DEF IsPower
  <2> QED BY <1>2, <2>1
<1>4. CASE m # 0
  <2>1. m - 1 \in Nat /\ m - 1 \notin B
    BY <1>1, <1>2, <1>4
  <2>2. PICK g : IsPower(g, m - 1)
    BY <2>1
  <2> DEFINE h == [k \in 0..m |-> IF k = 0 THEN 1 ELSE 2 * g[k - 1]]
  <2>3. \A k \in 0..(m - 1) : g[k] = IF k = 0 THEN 1 ELSE 2 * g[k - 1]
    BY <2>2 DEF IsPower
  <2>4. \A k \in 0..(m - 1) : h[k] = g[k]
    BY <1>2, <2>3
  <2>5. \A k \in 1..m : h[k - 1] = g[k - 1]
    BY <1>2, <2>4
  <2>6. IsPower(h, m)
    <3>1. \A k \in 0..m : (IF k = 0 THEN 1 ELSE 2 * g[k - 1])
                           = (IF k = 0 THEN 1 ELSE 2 * h[k - 1])
      <4> HIDE DEF h
      <4>1. \A k \in 0..m : k # 0 => k \in 1..m
        BY <1>2
      <4> QED BY <2>5, <4>1
    <3>2. h = [k \in 0..m |-> IF k = 0 THEN 1 ELSE 2 * g[k - 1]]
      OBVIOUS
    <3> HIDE DEF h
    <3> QED BY <3>1, <3>2 DEF IsPower
  <2> QED BY <1>2, <2>6
<1> QED BY <1>3, <1>4

\* Division with remainder.
LEMMA Division ==
  ASSUME NEW u \in Nat \ {0}, NEW n \in Nat
  PROVE  /\ n \div u \in Nat /\ n % u \in 0..(u - 1)
         /\ n = u * (n \div u) + (n % u)
OBVIOUS

\* An inequality holds for n times its terms.
LEMMA Scaled ==
  ASSUME NEW n \in Nat \ {0}, NEW x \in Int, NEW y \in Int, x < y
  PROVE  n * x < n * y
OBVIOUS

\* A product of a sum.
LEMMA Distributes ==
  ASSUME NEW n \in Int, NEW a \in Int, NEW b \in Int, NEW x \in Int, NEW y \in Int
  PROVE  n * (a * x + b * y) = a * (n * x) + b * (n * y)
OBVIOUS

\* A part that is bounded by a tenth, and one that is bounded by M.
LEMMA TenTimes ==
  ASSUME NEW t \in Int, NEW u \in Int, NEW w \in Int, NEW M \in Int,
         NEW x \in Int, NEW y \in Int,
         t = u + w, 10 * w <= x, x < y, u <= M
  PROVE  10 * t < 10 * M + y
OBVIOUS

Image(g, S) == { g[q] : q \in S }

\* The same, of the image.
LEMMA BuffersFinite ==
  ASSUME NEW S, IsFiniteSet(S), NEW g
  PROVE  IsFiniteSet(Image(g, S))
BY ImageFinite DEF Image

Allowed(n, P, M, B, f, e, a) ==
    /\ n \in Nat \ {0} /\ P \in Int /\ M \in Int /\ B \in Nat
    /\ f \in Nat \ {0} /\ e \in Nat /\ a \in Nat
    /\ 10 * P < 10 * M + f * B
    /\ 10 * e + B * n * f <= 10 * a

Missed(n, P, M, e, a) == e + n * P < a + n * M

\* From one rank's buffers to those of n ranks.
LEMMA AllowanceSum ==
  ASSUME NEW n, NEW P, NEW M, NEW B, NEW f, NEW e, NEW a,
         Allowed(n, P, M, B, f, e, a)
  PROVE  Missed(n, P, M, e, a)
<1>0. /\ n \in Nat \ {0} /\ P \in Int /\ M \in Int /\ B \in Nat
      /\ f \in Nat \ {0} /\ e \in Nat /\ a \in Nat
      /\ 10 * P < 10 * M + f * B
      /\ 10 * e + B * n * f <= 10 * a
  BY DEF Allowed
<1> DEFINE y == 10 * M + f * B
           np == n * P
           nm == n * M
           nb == n * B
           z == f * nb
<1>1. /\ y \in Int /\ np \in Int /\ nm \in Int /\ nb \in Nat /\ z \in Int
  BY <1>0
<1>2. n * (10 * P) < n * y
  BY <1>0, <1>1, Scaled
<1>3. n * y = 10 * nm + z
  BY <1>0, Distributes
<1>4. n * (10 * P) = 10 * np
  BY <1>0
<1>5. B * n * f = z
  BY <1>0
<1>6. 10 * np < 10 * nm + z /\ 10 * e + z <= 10 * a
  BY <1>0, <1>2, <1>3, <1>4, <1>5
<1> HIDE DEF y, np, nm, nb, z
<1>7. e + np < a + nm
  BY <1>0, <1>1, <1>6
<1> QED BY <1>7 DEF Missed, np, nm

\* An initial segment is finite.
LEMMA UpTo ==
    ASSUME NEW n \in Nat
    PROVE  IsFiniteSet(1..n)
BY FS_Interval

\* A quotient of integers is one.
LEMMA Quotient ==
    ASSUME NEW n \in Int, NEW d \in Nat \ {0}
    PROVE  n \div d \in Int
OBVIOUS

\* A part of a size is no larger.
LEMMA PartIs ==
    ASSUME NEW n \in Nat, NEW d \in Nat \ {0}, NEW b \in Nat, n <= b
    PROVE  n \div d \in Nat /\ n \div d <= b
<1> DEFINE q == n \div d
           e == n % d
<1>1. q \in Nat /\ e \in Nat /\ n = d * q + e
  BY Division
<1>2. d * q >= q
  <2> HIDE DEF q, e
  <2> QED BY <1>1
<1> HIDE DEF q, e
<1>3. d * q \in Nat
  BY <1>1
<1>4. q <= b
  BY <1>1, <1>2, <1>3
<1> QED BY <1>1, <1>4 DEF q

\* A sequence of integers that never falls is at its greatest in the end.
LEMMA LastIsGreatest ==
    ASSUME NEW N \in Nat, NEW h, \A l \in 0..N : h[l] \in Int,
           \A l \in 1..N : h[l] >= h[l - 1]
    PROVE  \A n \in 0..N : h[n] <= h[N]
<1> DEFINE B == {k \in 0..N : ~(h[N - k] <= h[N])}
<1>1. ASSUME B # {} PROVE FALSE
  <2>0. B \subseteq Nat
    OBVIOUS
  <2> HIDE DEF B
  <2>1. PICK k \in B : \A j \in B : k <= j
    BY <1>1, <2>0, Least
  <2> USE DEF B
  <2>2. k \in 0..N /\ ~(h[N - k] <= h[N])
    OBVIOUS
  <2>3. k # 0
    BY <2>2
  <2>4. k - 1 \in 0..N /\ k - 1 \notin B
    BY <2>1, <2>2, <2>3
  <2>5. h[N - (k - 1)] <= h[N]
    BY <2>4
  <2> HIDE DEF B
  <2>6. N - (k - 1) \in 1..N /\ (N - (k - 1)) - 1 = N - k /\ N - k \in 0..N
        /\ N - (k - 1) \in 0..N /\ N \in 0..N
    BY <2>2, <2>3
  <2>7. h[N - (k - 1)] >= h[N - k]
    BY <2>6
  <2> QED BY <2>2, <2>5, <2>6, <2>7
<1>2. ASSUME NEW n \in 0..N PROVE h[n] <= h[N]
  <2>1. N - n \in 0..N /\ N - (N - n) = n
    OBVIOUS
  <2>2. h[N - (N - n)] <= h[N]
    BY <1>1, <2>1
  <2> QED BY <2>1, <2>2
<1> QED BY <1>2

=============================================================================
