----------------------------- MODULE SumTheorems ------------------------------
(* What Sum is for every finite set. Sum folds over the set, so each fact  *)
(* is an induction over subsets, made with a smallest counterexample: the  *)
(* subsets of a finite set are well founded by strict inclusion.           *)
EXTENDS Sums, FiniteSetTheorems, SequenceTheorems, WellFoundedInduction, TLAPS

(* The element the fold takes out of S first.                              *)
Chosen(S) == CHOOSE x \in S : TRUE

(* A family of subsets of a finite set has a member that contains no other.*)
LEMMA SmallestSubset ==
  ASSUME NEW S, IsFiniteSet(S), NEW F \in SUBSET SUBSET S, F # {}
  PROVE  \E T \in F : \A U \in SUBSET T : U \in F => U = T
<1>1. IsWellFoundedOn(StrictSubsetOrdering(S), SUBSET S)
  BY FS_StrictSubsetOrderingWellFounded, FS_FiniteSubsetsOfFinite
<1>2. PICK T \in F : \A U \in F : ~(<<U, T>> \in StrictSubsetOrdering(S))
  BY <1>1, WFMin
<1> QED BY <1>2 DEF StrictSubsetOrdering

(* g is the function by which the fold is defined on the subsets of S.     *)
Rec(f, S, g) ==
  g = [s \in SUBSET S |-> IF s = {} THEN 0 ELSE f[Chosen(s)] + g[s \ {Chosen(s)}]]

(* The definition of the fold, at S.                                       *)
LEMMA SumIsRec ==
  ASSUME NEW f, NEW S
  PROVE  Sum(f, S) = (CHOOSE g : Rec(f, S, g))[S]
BY DEF Sum, MapThenSumSet, MapThenFoldSet, Rec, Chosen

(* What is left when one element is taken out is a smaller set.            *)
LEMMA ChosenInside ==
  ASSUME NEW T, T # {}
  PROVE  Chosen(T) \in T /\ T \ {Chosen(T)} \in SUBSET T /\ T \ {Chosen(T)} # T
BY DEF Chosen

(* The recursive function behind the sum exists, subset by subset.         *)
LEMMA RecExists ==
  ASSUME NEW f, NEW S, IsFiniteSet(S)
  PROVE  \A T \in SUBSET S :
           /\ Rec(f, T, [U \in SUBSET T |-> Sum(f, U)])
           /\ \A g : Rec(f, T, g) => g = [U \in SUBSET T |-> Sum(f, U)]
<1> DEFINE total(T) == [U \in SUBSET T |-> Sum(f, U)]
           Good(T) == Rec(f, T, total(T)) /\ \A g : Rec(f, T, g) => g = total(T)
           Bad == {T \in SUBSET S : ~Good(T)}
<1>1. SUFFICES ASSUME Bad # {} PROVE FALSE
  OBVIOUS
<1>2. PICK T \in Bad : \A U \in SUBSET T : U \in Bad => U = T
  <2>1. Bad \in SUBSET SUBSET S
    OBVIOUS
  <2> HIDE DEF Bad
  <2> QED BY <1>1, <2>1, SmallestSubset
<1>3. \A U \in SUBSET T : U # T => Good(U)
  BY <1>2
<1>4. IsFiniteSet(T)
  BY FS_Subset
(* Smaller sums unfold.                                                    *)
<1>5. \A U \in SUBSET T : U # T =>
        Sum(f, U) = IF U = {} THEN 0 ELSE f[Chosen(U)] + Sum(f, U \ {Chosen(U)})
  <2> SUFFICES ASSUME NEW U \in SUBSET T, U # T
               PROVE  Sum(f, U) = IF U = {} THEN 0 ELSE f[Chosen(U)] + Sum(f, U \ {Chosen(U)})
    OBVIOUS
  <2>1. total(U) = [s \in SUBSET U |-> IF s = {} THEN 0 ELSE f[Chosen(s)] + total(U)[s \ {Chosen(s)}]]
    BY <1>3 DEF Rec
  <2>2. total(U)[U] = IF U = {} THEN 0 ELSE f[Chosen(U)] + total(U)[U \ {Chosen(U)}]
    BY <2>1
  <2> QED BY <2>2
<1> DEFINE h == [s \in SUBSET T |-> IF s = {} THEN 0 ELSE f[Chosen(s)] + Sum(f, s \ {Chosen(s)})]
(* h satisfies the equation of the sum.                                    *)
<1>6. Rec(f, T, h)
  <2> SUFFICES ASSUME NEW s \in SUBSET T, s # {}
               PROVE  Sum(f, s \ {Chosen(s)}) = h[s \ {Chosen(s)}]
    BY DEF Rec
  <2>1. s \ {Chosen(s)} \in SUBSET T /\ s \ {Chosen(s)} # T
    BY ChosenInside
  <2> QED BY <1>5, <2>1
(* Nothing else does.                                                      *)
<1>7. ASSUME NEW g, Rec(f, T, g) PROVE g = h
  <2> DEFINE Differ == {s \in SUBSET T : g[s] # h[s]}
  <2>1. /\ g = [s \in SUBSET T |-> IF s = {} THEN 0 ELSE f[Chosen(s)] + g[s \ {Chosen(s)}]]
        /\ h = [s \in SUBSET T |-> IF s = {} THEN 0 ELSE f[Chosen(s)] + h[s \ {Chosen(s)}]]
    BY <1>6, <1>7 DEF Rec
  <2> HIDE DEF h
  <2>2. CASE Differ = {}
    <3>1. \A s \in SUBSET T : g[s] = h[s]
      BY <2>2
    <3>2. g = [s \in SUBSET T |-> g[s]] /\ h = [s \in SUBSET T |-> h[s]]
      BY <2>1
    <3> QED BY <3>1, <3>2
  <2>3. CASE Differ # {}
    <3>1. PICK s \in Differ : \A u \in SUBSET s : u \in Differ => u = s
      <4>1. Differ \in SUBSET SUBSET T
        OBVIOUS
      <4> HIDE DEF Differ
      <4> QED BY <1>4, <2>3, <4>1, SmallestSubset
    <3>2. s # {}
      BY <2>1
    <3>3. s \ {Chosen(s)} \notin Differ
      BY <3>1, <3>2, ChosenInside
    <3>4. g[s \ {Chosen(s)}] = h[s \ {Chosen(s)}]
      BY <3>3
    <3>5. g[s] = f[Chosen(s)] + g[s \ {Chosen(s)}] /\ h[s] = f[Chosen(s)] + h[s \ {Chosen(s)}]
      BY <2>1, <3>2
    <3> QED BY <3>1, <3>4, <3>5
  <2> QED BY <2>2, <2>3
<1>8. Sum(f, T) = h[T]
  <2>1. Rec(f, T, CHOOSE g : Rec(f, T, g))
    BY <1>6
  <2>2. (CHOOSE g : Rec(f, T, g)) = h
    BY <1>7, <2>1
  <2> QED BY <2>2, SumIsRec
<1>9. \A s \in SUBSET T : Sum(f, s) = h[s]
  BY <1>5, <1>8
<1>10. total(T) = h
  BY <1>9
<1>11. Good(T)
  BY <1>6, <1>7, <1>10
<1> QED BY <1>2, <1>11

(* Hence the sum is one value and the sum of the rest.                     *)
LEMMA SumUnfolds ==
  ASSUME NEW f, NEW S, IsFiniteSet(S)
  PROVE  /\ Sum(f, {}) = 0
         /\ S # {} => Sum(f, S) = f[Chosen(S)] + Sum(f, S \ {Chosen(S)})
<1> DEFINE g == [U \in SUBSET S |-> Sum(f, U)]
<1>1. g = [s \in SUBSET S |-> IF s = {} THEN 0 ELSE f[Chosen(s)] + g[s \ {Chosen(s)}]]
  <2>1. S \in SUBSET S /\ Rec(f, S, g)
    BY RecExists
  <2> HIDE DEF g
  <2> QED BY <2>1 DEF Rec
<1>2. \A s \in SUBSET S : g[s] = IF s = {} THEN 0 ELSE f[Chosen(s)] + g[s \ {Chosen(s)}]
  <2> HIDE DEF g
  <2> QED BY <1>1
<1>3. \A s \in SUBSET S : g[s] = Sum(f, s)
  OBVIOUS
<1> HIDE DEF g
<1>4. CASE S = {}
  BY <1>2, <1>3, <1>4
<1>5. CASE S # {}
  <2>1. S \ {Chosen(S)} \in SUBSET S /\ {} \in SUBSET S /\ S \in SUBSET S
    OBVIOUS
  <2> QED BY <1>2, <1>3, <1>5, <2>1
<1> QED BY <1>4, <1>5

(* The sum over no element, of any function.                               *)
LEMMA SumEmpty == \A f : Sum(f, {}) = 0
BY SumUnfolds, FS_EmptySet

(* Induction over the subsets of a finite set, with the claim as a set.    *)
LEMMA SubsetInduction ==
  ASSUME NEW S, IsFiniteSet(S), NEW Good, {} \in Good,
         \A T \in SUBSET S : T # {} /\ (\A U \in SUBSET T : U # T => U \in Good) => T \in Good
  PROVE  S \in Good
<1> DEFINE Bad == {T \in SUBSET S : T \notin Good}
<1>1. CASE Bad = {}
  BY <1>1
<1>2. CASE Bad # {}
  <2>1. Bad \in SUBSET SUBSET S
    OBVIOUS
  <2>2. PICK T \in Bad : \A U \in SUBSET T : U \in Bad => U = T
    <3> HIDE DEF Bad
    <3> QED BY <1>2, <2>1, SmallestSubset
  <2> QED BY <2>2
<1> QED BY <1>1, <1>2

(* Only the values on S count.                                             *)
LEMMA SumAgrees ==
  ASSUME NEW f, NEW g, NEW S, IsFiniteSet(S), \A x \in S : f[x] = g[x]
  PROVE  Sum(f, S) = Sum(g, S)
<1> DEFINE Good == {T \in SUBSET S : Sum(f, T) = Sum(g, T)}
<1>1. {} \in Good
  BY SumEmpty
<1>2. ASSUME NEW T \in SUBSET S, T # {}, \A U \in SUBSET T : U # T => U \in Good
      PROVE  T \in Good
  <2>1. IsFiniteSet(T) /\ Chosen(T) \in T /\ T \ {Chosen(T)} \in Good
    BY <1>2, ChosenInside, FS_Subset
  <2> QED BY <1>2, <2>1, SumUnfolds
<1>3. S \in Good
  <2> HIDE DEF Good
  <2> QED BY <1>1, <1>2, SubsetInduction
<1> QED BY <1>3

(* A sum of integers is an integer.                                        *)
LEMMA SumInt ==
  ASSUME NEW f, NEW S, IsFiniteSet(S), \A x \in S : f[x] \in Int
  PROVE  Sum(f, S) \in Int
<1> DEFINE Good == {T \in SUBSET S : Sum(f, T) \in Int}
<1>1. {} \in Good
  BY SumEmpty
<1>2. ASSUME NEW T \in SUBSET S, T # {}, \A U \in SUBSET T : U # T => U \in Good
      PROVE  T \in Good
  <2>1. IsFiniteSet(T) /\ Chosen(T) \in T /\ T \ {Chosen(T)} \in Good
    BY <1>2, ChosenInside, FS_Subset
  <2> QED BY <1>2, <2>1, SumUnfolds
<1>3. S \in Good
  <2> HIDE DEF Good
  <2> QED BY <1>1, <1>2, SubsetInduction
<1> QED BY <1>3

(* The same of naturals: what amounts of money add up to is not negative.  *)
LEMMA SumNat ==
  ASSUME NEW f, NEW S, IsFiniteSet(S), \A x \in S : f[x] \in Nat
  PROVE  Sum(f, S) \in Nat
<1> DEFINE Good == {T \in SUBSET S : Sum(f, T) \in Nat}
<1>1. {} \in Good
  BY SumEmpty
<1>2. ASSUME NEW T \in SUBSET S, T # {}, \A U \in SUBSET T : U # T => U \in Good
      PROVE  T \in Good
  <2>1. IsFiniteSet(T) /\ Chosen(T) \in T /\ T \ {Chosen(T)} \in Good
    BY <1>2, ChosenInside, FS_Subset
  <2> QED BY <1>2, <2>1, SumUnfolds
<1>3. S \in Good
  <2> HIDE DEF Good
  <2> QED BY <1>1, <1>2, SubsetInduction
<1> QED BY <1>3

(* A sum of zeros is zero.                                                 *)
LEMMA SumZero ==
  ASSUME NEW f, NEW S, IsFiniteSet(S), \A x \in S : f[x] = 0
  PROVE  Sum(f, S) = 0
<1> DEFINE Good == {T \in SUBSET S : Sum(f, T) = 0}
<1>1. {} \in Good
  BY SumEmpty
<1>2. ASSUME NEW T \in SUBSET S, T # {}, \A U \in SUBSET T : U # T => U \in Good
      PROVE  T \in Good
  <2>1. IsFiniteSet(T) /\ Chosen(T) \in T /\ T \ {Chosen(T)} \in Good
    BY <1>2, ChosenInside, FS_Subset
  <2> QED BY <1>2, <2>1, SumUnfolds
<1>3. S \in Good
  <2> HIDE DEF Good
  <2> QED BY <1>1, <1>2, SubsetInduction
<1> QED BY <1>3

(* Any element may be taken out first.                                     *)
LEMMA SumRemove ==
  ASSUME NEW f, NEW S, IsFiniteSet(S), \A x \in S : f[x] \in Int, NEW e \in S
  PROVE  Sum(f, S) = f[e] + Sum(f, S \ {e})
<1> DEFINE Good == {T \in SUBSET S : \A x \in T : Sum(f, T) = f[x] + Sum(f, T \ {x})}
<1>1. {} \in Good
  OBVIOUS
<1>2. ASSUME NEW T \in SUBSET S, T # {}, \A U \in SUBSET T : U # T => U \in Good
      PROVE  T \in Good
  <2> SUFFICES ASSUME NEW x \in T PROVE Sum(f, T) = f[x] + Sum(f, T \ {x})
    OBVIOUS
  <2> DEFINE c == Chosen(T)
  <2>1. c \in T /\ IsFiniteSet(T) /\ Sum(f, T) = f[c] + Sum(f, T \ {c})
    BY <1>2, ChosenInside, FS_Subset, SumUnfolds
  <2> HIDE DEF c
  <2>2. CASE x = c
    BY <2>1, <2>2
  <2>3. CASE x # c
    <3> DEFINE rest == Sum(f, (T \ {c}) \ {x})
    <3>1. Sum(f, T \ {c}) = f[x] + rest
      BY <1>2, <2>1, <2>3
    <3>2. (T \ {c}) \ {x} = (T \ {x}) \ {c}
      OBVIOUS
    <3>3. Sum(f, T \ {x}) = f[c] + rest
      BY <1>2, <2>1, <2>3, <3>2
    <3>4. rest \in Int
      <4>1. IsFiniteSet((T \ {c}) \ {x})
        BY <2>1, FS_Subset
      <4> QED BY <4>1, SumInt
    <3>5. f[x] \in Int /\ f[c] \in Int
      BY <2>1
    <3> HIDE DEF rest, Good
    <3> QED BY <2>1, <3>1, <3>3, <3>4, <3>5
  <2> QED BY <2>2, <2>3
<1>3. S \in Good
  <2> HIDE DEF Good
  <2> QED BY <1>1, <1>2, SubsetInduction
<1> QED BY <1>3

(* A change at one element changes the sum by as much.                     *)
LEMMA SumChange ==
  ASSUME NEW f, NEW g, NEW S, IsFiniteSet(S), NEW e \in S,
         \A x \in S : f[x] \in Int /\ g[x] \in Int,
         \A x \in S \ {e} : g[x] = f[x]
  PROVE  /\ Sum(f, S) \in Int
         /\ Sum(g, S) = Sum(f, S) + (g[e] - f[e])
<1>1. IsFiniteSet(S \ {e})
  BY FS_Subset
<1>2. Sum(f, S \ {e}) \in Int /\ Sum(g, S \ {e}) = Sum(f, S \ {e})
  BY <1>1, SumInt, SumAgrees
<1>3. Sum(f, S) = f[e] + Sum(f, S \ {e}) /\ Sum(g, S) = g[e] + Sum(g, S \ {e})
  BY SumRemove
<1>4. f[e] \in Int /\ g[e] \in Int
  OBVIOUS
<1> QED BY <1>2, <1>3, <1>4

(* A value appended to a sequence adds to the sum over it.                 *)
LEMMA SumAppended ==
  ASSUME NEW n \in Nat, NEW f, NEW g, \A i \in 1..n : f[i] \in Int /\ g[i] = f[i], g[n + 1] \in Int
  PROVE  Sum(g, 1..(n + 1)) = Sum(f, 1..n) + g[n + 1]
<1>1. IsFiniteSet(1..n) /\ IsFiniteSet(1..(n + 1))
  BY FS_Interval
<1>2. (1..(n + 1)) \ {n + 1} = 1..n /\ n + 1 \in 1..(n + 1)
  OBVIOUS
<1>3. Sum(g, 1..(n + 1)) = g[n + 1] + Sum(g, 1..n)
  <2>1. \A i \in 1..(n + 1) : g[i] \in Int
    OBVIOUS
  <2>2. Sum(g, 1..(n + 1)) = g[n + 1] + Sum(g, (1..(n + 1)) \ {n + 1})
    BY <1>1, <1>2, <2>1, SumRemove
  <2> QED BY <1>2, <2>2
<1>4. Sum(g, 1..n) = Sum(f, 1..n) /\ Sum(f, 1..n) \in Int
  BY <1>1, SumAgrees, SumInt
<1> QED BY <1>3, <1>4
==============================================================================
