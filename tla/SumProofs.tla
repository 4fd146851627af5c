------------------------------- MODULE SumProofs -------------------------------
(***************************************************************************)
(* Sums of a function over a finite set, SumFunctionOnSet of the community *)
(* modules: the equations by which invariants about sums are proved. The   *)
(* definition folds the set in an order that CHOOSE picks. SumUnfold shows *)
(* that its recursion has a solution, SumRemove that the order is of no    *)
(* consequence. Both go by a least set that would be an exception.         *)
(***************************************************************************)
EXTENDS Functions, FiniteSetTheorems, WellFoundedInduction, TLAPS

\* The element that a fold takes first
Picked(S) == CHOOSE x \in S : TRUE

\* One step of the fold
Unfold(f, S) ==
    IF S = {} THEN 0 ELSE f[Picked(S)] + SumFunctionOnSet(f, S \ {Picked(S)})

\* A recursive function of subsets of S is what the fold computes.
Iterates(f, S, iter) ==
    iter = [s \in SUBSET S |-> IF s = {} THEN 0 ELSE f[Picked(s)] + iter[s \ {Picked(s)}]]

LEMMA SumDef ==
    ASSUME NEW f, NEW S
    PROVE  SumFunctionOnSet(f, S) = (CHOOSE iter : Iterates(f, S, iter))[S]
BY DEF SumFunctionOnSet, FoldFunctionOnSet, MapThenFoldSet, Iterates, Picked

\* Strict subsets of a finite set have a least element in every set of them.
LEMMA LeastSubset ==
    ASSUME NEW S, IsFiniteSet(S), NEW D, D \subseteq SUBSET S, D # {}
    PROVE  \E T \in D : \A U \in SUBSET T : U # T => U \notin D
<1>1. D \subseteq FiniteSubsetsOf(S)
  BY FS_FiniteSubsetsOfFinite
<1>2. \E T \in D : \A U \in D : ~ (<<U, T>> \in StrictSubsetOrdering(S))
  BY <1>1, FS_StrictSubsetOrderingWellFounded, WFMin
<1>3. \A U, T \in D : U \subseteq T /\ U # T => <<U, T>> \in StrictSubsetOrdering(S)
  BY DEF StrictSubsetOrdering
<1> QED BY <1>2, <1>3

\* The fold is its own recursion.
LEMMA SumUnfold ==
    ASSUME NEW f, NEW S, IsFiniteSet(S)
    PROVE  SumFunctionOnSet(f, S) = Unfold(f, S)
<1> DEFINE D == {T \in SUBSET S : SumFunctionOnSet(f, T) # Unfold(f, T)}
<1> SUFFICES ASSUME D # {} PROVE FALSE
  OBVIOUS
<1>1. \E T \in D : \A U \in SUBSET T : U # T => U \notin D
  <2>1. D \subseteq SUBSET S
    OBVIOUS
  <2> HIDE DEF D
  <2> QED BY <2>1, LeastSubset
<1>a. PICK T \in D : \A U \in SUBSET T : U # T => U \notin D
  BY <1>1
<1>2. \A U \in SUBSET T : U # T => SumFunctionOnSet(f, U) = Unfold(f, U)
  BY <1>a
<1>3. \A s : s # {} => Picked(s) \in s
  BY DEF Picked
<1> DEFINE G == [s \in SUBSET T |-> Unfold(f, s)]
<1>4. Iterates(f, T, G)
  <2>1. ASSUME NEW s \in SUBSET T, s # {}
        PROVE  G[s] = f[Picked(s)] + G[s \ {Picked(s)}]
    <3>1. s \ {Picked(s)} \in SUBSET T /\ s \ {Picked(s)} # T
      BY <2>1, <1>3
    <3> QED BY <2>1, <3>1, <1>2 DEF Unfold
  <2>2. \A s \in SUBSET T : G[s] = IF s = {} THEN 0 ELSE f[Picked(s)] + G[s \ {Picked(s)}]
    BY <2>1 DEF Unfold
  <2> HIDE DEF G
  <2>3. G = [s \in SUBSET T |-> G[s]]
    BY DEF G
  <2> QED BY <2>2, <2>3 DEF Iterates
<1> DEFINE I == CHOOSE iter : Iterates(f, T, iter)
<1>5. Iterates(f, T, I)
  BY <1>4
<1> HIDE DEF I
<1>6. \A s \in SUBSET T : I[s] = IF s = {} THEN 0 ELSE f[Picked(s)] + I[s \ {Picked(s)}]
  BY <1>5 DEF Iterates
<1>7. \A s \in SUBSET T : s # T => I[s] = SumFunctionOnSet(f, s)
  <2> DEFINE E == {s \in SUBSET T : s # T /\ I[s] # SumFunctionOnSet(f, s)}
  <2> SUFFICES ASSUME E # {} PROVE FALSE
    OBVIOUS
  <2>1. \E s \in E : \A u \in SUBSET s : u # s => u \notin E
    <3>1. E \subseteq SUBSET T
      OBVIOUS
    <3>2. IsFiniteSet(T)
      BY FS_Subset
    <3> HIDE DEF E
    <3> QED BY <3>1, <3>2, LeastSubset
  <2>a. PICK s \in E : \A u \in SUBSET s : u # s => u \notin E
    BY <2>1
  <2>2. CASE s = {}
    BY <2>a, <2>2, <1>2, <1>6 DEF Unfold
  <2>3. CASE s # {}
    <3>1. s \ {Picked(s)} \in SUBSET s /\ s \ {Picked(s)} # s /\ s \ {Picked(s)} # T
      BY <2>3, <1>3
    <3>2. I[s \ {Picked(s)}] = SumFunctionOnSet(f, s \ {Picked(s)})
      BY <3>1, <2>a
    <3> QED BY <2>a, <2>3, <3>2, <1>2, <1>6 DEF Unfold
  <2> QED BY <2>2, <2>3
<1>8. SumFunctionOnSet(f, T) = I[T]
  BY SumDef DEF I
<1>9. SumFunctionOnSet(f, T) = Unfold(f, T)
  <2>1. CASE T = {}
    BY <2>1, <1>6, <1>8 DEF Unfold
  <2>2. CASE T # {}
    <3>1. T \ {Picked(T)} \in SUBSET T /\ T \ {Picked(T)} # T
      BY <2>2, <1>3
    <3> QED BY <2>2, <3>1, <1>6, <1>7, <1>8 DEF Unfold
  <2> QED BY <2>1, <2>2
<1> QED BY <1>9

-------------------------------------------------------------------------------

\* Induction along the fold: Good holds every subset of S when it holds each one
\* whose rest, after the first element is taken, it holds.
LEMMA PickInduction ==
    ASSUME NEW S, IsFiniteSet(S), NEW Good,
           \A T \in SUBSET S : T = {} \/ T \ {Picked(T)} \in Good => T \in Good
    PROVE  S \in Good
<1> DEFINE D == (SUBSET S) \ Good
<1>1. ASSUME D # {} PROVE FALSE
  <2>1. \E T \in D : \A U \in SUBSET T : U # T => U \notin D
    <3>1. D \subseteq SUBSET S
      OBVIOUS
    <3> HIDE DEF D
    <3> QED BY <3>1, <1>1, LeastSubset
  <2>2. PICK T \in D : \A U \in SUBSET T : U # T => U \notin D
    BY <2>1
  <2>3. T # {}
    BY <2>2
  <2>4. Picked(T) \in T
    BY <2>3 DEF Picked
  <2>5. T \ {Picked(T)} \in SUBSET T /\ T \ {Picked(T)} # T /\ T \ {Picked(T)} \in SUBSET S
    BY <2>4
  <2>6. T \ {Picked(T)} \in Good
    BY <2>2, <2>5
  <2> QED BY <2>6
<1> QED BY <1>1

\* A sum of integers is one.
LEMMA SumInt ==
    ASSUME NEW f, NEW S, IsFiniteSet(S), \A x \in S : f[x] \in Int
    PROVE  SumFunctionOnSet(f, S) \in Int
<1> DEFINE Good == {T \in SUBSET S : SumFunctionOnSet(f, T) \in Int}
<1>1. ASSUME NEW T \in SUBSET S, T = {} \/ T \ {Picked(T)} \in Good
      PROVE  T \in Good
  <2>1. SumFunctionOnSet(f, T) = Unfold(f, T)
    BY SumUnfold, FS_Subset
  <2> QED BY <1>1, <2>1 DEF Unfold, Picked
<1>2. S \in Good
  <2> HIDE DEF Good
  <2> QED BY <1>1, PickInduction
<1> QED BY <1>2

\* A sum of terms that are not negative is not negative.
LEMMA SumNat ==
    ASSUME NEW f, NEW S, IsFiniteSet(S), \A x \in S : f[x] \in Nat
    PROVE  SumFunctionOnSet(f, S) \in Nat
<1> DEFINE Good == {T \in SUBSET S : SumFunctionOnSet(f, T) \in Nat}
<1>1. ASSUME NEW T \in SUBSET S, T = {} \/ T \ {Picked(T)} \in Good
      PROVE  T \in Good
  <2>1. SumFunctionOnSet(f, T) = Unfold(f, T)
    BY SumUnfold, FS_Subset
  <2> QED BY <1>1, <2>1 DEF Unfold, Picked
<1>2. S \in Good
  <2> HIDE DEF Good
  <2> QED BY <1>1, PickInduction
<1> QED BY <1>2

\* The sum depends on the values over the set only.
LEMMA SumCongruence ==
    ASSUME NEW f, NEW g, NEW S, IsFiniteSet(S), \A x \in S : f[x] = g[x]
    PROVE  SumFunctionOnSet(f, S) = SumFunctionOnSet(g, S)
<1> DEFINE Good == {T \in SUBSET S : SumFunctionOnSet(f, T) = SumFunctionOnSet(g, T)}
<1>1. ASSUME NEW T \in SUBSET S, T = {} \/ T \ {Picked(T)} \in Good
      PROVE  T \in Good
  <2>1. /\ SumFunctionOnSet(f, T) = Unfold(f, T)
        /\ SumFunctionOnSet(g, T) = Unfold(g, T)
    BY SumUnfold, FS_Subset
  <2> QED BY <1>1, <2>1 DEF Unfold, Picked
<1>2. S \in Good
  <2> HIDE DEF Good
  <2> QED BY <1>1, PickInduction
<1> QED BY <1>2

LEMMA SumEmpty ==
    ASSUME NEW f
    PROVE  SumFunctionOnSet(f, {}) = 0
BY SumUnfold, FS_EmptySet DEF Unfold

\* Any element can be taken out first.
LEMMA SumRemove ==
    ASSUME NEW f, NEW S, IsFiniteSet(S), \A x \in S : f[x] \in Int, NEW a \in S
    PROVE  SumFunctionOnSet(f, S) = f[a] + SumFunctionOnSet(f, S \ {a})
<1> DEFINE D == {T \in SUBSET S : \E x \in T :
                    SumFunctionOnSet(f, T) # f[x] + SumFunctionOnSet(f, T \ {x})}
<1> SUFFICES ASSUME D # {} PROVE FALSE
  OBVIOUS
<1>1. \E T \in D : \A U \in SUBSET T : U # T => U \notin D
  <2>1. D \subseteq SUBSET S
    OBVIOUS
  <2> HIDE DEF D
  <2> QED BY <2>1, LeastSubset
<1>2. PICK T \in D : \A U \in SUBSET T : U # T => U \notin D
  BY <1>1
<1>3. PICK x \in T : SumFunctionOnSet(f, T) # f[x] + SumFunctionOnSet(f, T \ {x})
  OBVIOUS
<1> DEFINE c == Picked(T)
           R == (T \ {x}) \ {c}
<1>4. c \in T
  BY <1>3 DEF Picked
<1>5. SumFunctionOnSet(f, T) = f[c] + SumFunctionOnSet(f, T \ {c})
  BY <1>3, SumUnfold, FS_Subset DEF Unfold
<1>6. x # c
  BY <1>3, <1>5
<1>7. SumFunctionOnSet(f, T \ {c}) = f[x] + SumFunctionOnSet(f, R)
  <2>1. T \ {c} \in SUBSET T /\ T \ {c} # T /\ x \in T \ {c}
    BY <1>4, <1>6
  <2>2. (T \ {c}) \ {x} = R
    OBVIOUS
  <2>3. SumFunctionOnSet(f, T \ {c}) = f[x] + SumFunctionOnSet(f, (T \ {c}) \ {x})
    BY <2>1, <1>2
  <2> QED BY <2>2, <2>3
<1>8. SumFunctionOnSet(f, T \ {x}) = f[c] + SumFunctionOnSet(f, R)
  <2>1. T \ {x} \in SUBSET T /\ T \ {x} # T /\ c \in T \ {x}
    BY <1>4, <1>6
  <2> QED BY <2>1, <1>2
<1>9. SumFunctionOnSet(f, R) \in Int /\ f[c] \in Int /\ f[x] \in Int
  <2>1. R \subseteq S /\ IsFiniteSet(R)
    BY FS_Subset
  <2>2. SumFunctionOnSet(f, R) \in Int
    <3> HIDE DEF R
    <3> QED BY <2>1, SumInt
  <2> QED BY <2>2, <1>4
<1> HIDE DEF c, R
<1> QED BY <1>3, <1>5, <1>7, <1>8, <1>9

\* One element more
LEMMA SumAdd ==
    ASSUME NEW f, NEW S, IsFiniteSet(S), NEW a, a \notin S,
           \A x \in S \cup {a} : f[x] \in Int
    PROVE  SumFunctionOnSet(f, S \cup {a}) = f[a] + SumFunctionOnSet(f, S)
<1>1. IsFiniteSet(S \cup {a})
  BY FS_AddElement
<1>2. (S \cup {a}) \ {a} = S
  OBVIOUS
<1> QED BY <1>1, <1>2, SumRemove

\* Two functions that differ at one element
LEMMA SumUpdate ==
    ASSUME NEW f, NEW g, NEW S, IsFiniteSet(S), NEW a \in S,
           \A x \in S : f[x] \in Int /\ g[x] \in Int,
           \A x \in S : x # a => g[x] = f[x]
    PROVE  SumFunctionOnSet(g, S) = SumFunctionOnSet(f, S) - f[a] + g[a]
<1>1. IsFiniteSet(S \ {a})
  BY FS_Subset
<1>2. SumFunctionOnSet(f, S \ {a}) = SumFunctionOnSet(g, S \ {a})
  BY <1>1, SumCongruence
<1>3. SumFunctionOnSet(f, S \ {a}) \in Int
  BY <1>1, SumInt
<1>4. SumFunctionOnSet(f, S) = f[a] + SumFunctionOnSet(f, S \ {a})
  BY SumRemove
<1>5. SumFunctionOnSet(g, S) = g[a] + SumFunctionOnSet(g, S \ {a})
  BY SumRemove
<1> QED BY <1>2, <1>3, <1>4, <1>5

\* It bounds each term when none is negative.
LEMMA SumBounds ==
    ASSUME NEW f, NEW S, IsFiniteSet(S), \A x \in S : f[x] \in Nat, NEW a \in S
    PROVE  f[a] <= SumFunctionOnSet(f, S)
<1>1. SumFunctionOnSet(f, S) = f[a] + SumFunctionOnSet(f, S \ {a})
  BY SumRemove
<1>2. SumFunctionOnSet(f, S \ {a}) \in Nat
  BY SumNat, FS_Subset
<1> QED BY <1>1, <1>2

-------------------------------------------------------------------------------

\* Terms that are zero can be left out.
LEMMA SumDrop ==
    ASSUME NEW f, NEW S, IsFiniteSet(S), NEW R \in SUBSET S,
           \A x \in S : f[x] \in Int, \A x \in S \ R : f[x] = 0
    PROVE  SumFunctionOnSet(f, S) = SumFunctionOnSet(f, R)
<1> DEFINE Good == {T \in SUBSET S : SumFunctionOnSet(f, T) = SumFunctionOnSet(f, T \cap R)}
<1>1. ASSUME NEW T \in SUBSET S, T = {} \/ T \ {Picked(T)} \in Good
      PROVE  T \in Good
  <2>1. CASE T = {}
    BY <2>1
  <2>2. CASE T # {}
    <3>1. PICK c \in T : c = Picked(T)
      BY <2>2 DEF Picked
    <3>2. SumFunctionOnSet(f, T \ {c}) = SumFunctionOnSet(f, (T \ {c}) \cap R)
      BY <1>1, <2>2, <3>1
    <3>3. SumFunctionOnSet(f, T) = f[c] + SumFunctionOnSet(f, T \ {c})
      BY SumRemove, FS_Subset
    <3>4. IsFiniteSet(T \cap R) /\ (T \ {c}) \cap R = (T \cap R) \ {c}
      BY FS_Subset
    <3>5. CASE c \in R
      <4>1. SumFunctionOnSet(f, T \cap R) = f[c] + SumFunctionOnSet(f, (T \cap R) \ {c})
        BY <3>4, <3>5, SumRemove
      <4> QED BY <3>2, <3>3, <3>4, <4>1
    <3>6. CASE c \notin R
      <4>1. (T \cap R) \ {c} = T \cap R /\ f[c] = 0
        BY <3>6
      <4>2. SumFunctionOnSet(f, T \cap R) \in Int
        BY <3>4, SumInt
      <4>3. SumFunctionOnSet(f, T \ {c}) = SumFunctionOnSet(f, T \cap R)
        BY <3>2, <3>4, <4>1
      <4>4. SumFunctionOnSet(f, T) = SumFunctionOnSet(f, T \cap R)
        BY <3>3, <4>1, <4>2, <4>3
      <4> QED BY <4>4
    <3> QED BY <3>5, <3>6
  <2> QED BY <2>1, <2>2
<1>2. S \in Good
  <2> HIDE DEF Good
  <2> QED BY <1>1, PickInduction
<1>3. S \cap R = R
  OBVIOUS
<1> QED BY <1>2, <1>3

LEMMA SumZero ==
    ASSUME NEW f, NEW S, IsFiniteSet(S), \A x \in S : f[x] = 0
    PROVE  SumFunctionOnSet(f, S) = 0
BY SumDrop, SumEmpty

\* The sum of sums
LEMMA SumPlus ==
    ASSUME NEW f, NEW g, NEW h, NEW S, IsFiniteSet(S),
           \A x \in S : f[x] \in Int /\ g[x] \in Int /\ h[x] = f[x] + g[x]
    PROVE  SumFunctionOnSet(h, S) = SumFunctionOnSet(f, S) + SumFunctionOnSet(g, S)
<1> DEFINE Good == {T \in SUBSET S :
              SumFunctionOnSet(h, T) = SumFunctionOnSet(f, T) + SumFunctionOnSet(g, T)}
<1>1. ASSUME NEW T \in SUBSET S, T = {} \/ T \ {Picked(T)} \in Good
      PROVE  T \in Good
  <2>1. CASE T = {}
    BY <2>1, SumEmpty
  <2>2. CASE T # {}
    <3>1. PICK c \in T : c = Picked(T)
      BY <2>2 DEF Picked
    <3>2. IsFiniteSet(T) /\ IsFiniteSet(T \ {c})
      BY FS_Subset
    <3>3. /\ SumFunctionOnSet(f, T) = f[c] + SumFunctionOnSet(f, T \ {c})
          /\ SumFunctionOnSet(g, T) = g[c] + SumFunctionOnSet(g, T \ {c})
          /\ SumFunctionOnSet(h, T) = h[c] + SumFunctionOnSet(h, T \ {c})
      <4>1. \A x \in T : f[x] \in Int /\ g[x] \in Int /\ h[x] \in Int
        OBVIOUS
      <4> QED BY <3>2, <4>1, SumRemove
    <3>4. /\ SumFunctionOnSet(f, T \ {c}) \in Int
          /\ SumFunctionOnSet(g, T \ {c}) \in Int
      BY <3>2, SumInt
    <3>5. SumFunctionOnSet(h, T \ {c}) =
              SumFunctionOnSet(f, T \ {c}) + SumFunctionOnSet(g, T \ {c})
      BY <1>1, <2>2, <3>1
    <3>6. f[c] \in Int /\ g[c] \in Int /\ h[c] = f[c] + g[c]
      OBVIOUS
    <3> HIDE DEF Good
    <3>7. SumFunctionOnSet(h, T) = SumFunctionOnSet(f, T) + SumFunctionOnSet(g, T)
      BY <3>3, <3>4, <3>5, <3>6
    <3> QED BY <3>7 DEF Good
  <2> QED BY <2>1, <2>2
<1>2. S \in Good
  <2> HIDE DEF Good
  <2> QED BY <1>1, PickInduction
<1> QED BY <1>2

\* The names of the terms do not matter.
LEMMA SumReindex ==
    ASSUME NEW f, NEW g, NEW b, NEW S, IsFiniteSet(S),
           \A x \in S : f[x] \in Int /\ g[b[x]] = f[x],
           \A x, y \in S : b[x] = b[y] => x = y
    PROVE  SumFunctionOnSet(g, {b[x] : x \in S}) = SumFunctionOnSet(f, S)
<1> DEFINE Good == {T \in SUBSET S :
              SumFunctionOnSet(g, {b[x] : x \in T}) = SumFunctionOnSet(f, T)}
<1>1. ASSUME NEW T \in SUBSET S, T = {} \/ T \ {Picked(T)} \in Good
      PROVE  T \in Good
  <2>1. CASE T = {}
    <3>1. {b[x] : x \in T} = {}
      BY <2>1
    <3> QED BY <2>1, <3>1, SumEmpty
  <2>2. CASE T # {}
    <3>1. PICK c \in T : c = Picked(T)
      BY <2>2 DEF Picked
    <3>2. SumFunctionOnSet(g, {b[x] : x \in T \ {c}}) = SumFunctionOnSet(f, T \ {c})
      BY <1>1, <2>2, <3>1
    <3>3. SumFunctionOnSet(f, T) = f[c] + SumFunctionOnSet(f, T \ {c})
      BY SumRemove, FS_Subset
    <3>4. PICK I : I = {b[x] : x \in T}
      OBVIOUS
    <3>5. IsFiniteSet(I) /\ b[c] \in I /\ I \ {b[c]} = {b[x] : x \in T \ {c}}
      <4>1. IsFiniteSet(T)
        BY FS_Subset
      <4>2. PICK h \in [T -> I] : \A x \in T : h[x] = b[x]
        <5>1. [x \in T |-> b[x]] \in [T -> I]
          BY <3>4
        <5> QED BY <5>1
      <4>3. h \in Surjection(T, I)
        BY <3>4, <4>2 DEF Surjection
      <4> QED BY <3>4, <4>1, <4>3, FS_Surjection
    <3>6. \A y \in I : g[y] \in Int
      BY <3>4
    <3>7. SumFunctionOnSet(g, I) = g[b[c]] + SumFunctionOnSet(g, I \ {b[c]})
      BY <3>5, <3>6, SumRemove
    <3> QED BY <3>2, <3>3, <3>4, <3>5, <3>7
  <2> QED BY <2>1, <2>2
<1>2. S \in Good
  <2> HIDE DEF Good
  <2> QED BY <1>1, PickInduction
<1> QED BY <1>2

-------------------------------------------------------------------------------

\* Induction up to a natural number, for a set in the place of a predicate
LEMMA UpTo ==
    ASSUME NEW n \in Nat, NEW Good, 0 \in Good,
           \A m \in 0 .. n - 1 : m \in Good => m + 1 \in Good
    PROVE  \A m \in 0 .. n : m \in Good
<1> DEFINE D == {T \in SUBSET (0 .. n) : \E m \in 0 .. n : T = 0 .. m /\ m \notin Good}
<1>1. ASSUME D # {} PROVE FALSE
  <2>1. \E T \in D : \A U \in SUBSET T : U # T => U \notin D
    <3>1. D \subseteq SUBSET (0 .. n) /\ IsFiniteSet(0 .. n)
      BY FS_Interval
    <3> HIDE DEF D
    <3> QED BY <1>1, <3>1, LeastSubset
  <2>2. PICK T \in D : \A U \in SUBSET T : U # T => U \notin D
    BY <2>1
  <2>3. PICK m \in 0 .. n : T = 0 .. m /\ m \notin Good
    BY <2>2
  <2>4. m # 0 /\ m - 1 \in 0 .. n - 1 /\ (m - 1) + 1 = m
    BY <2>3
  <2>5. m - 1 \notin Good
    BY <2>3, <2>4
  <2>6. 0 .. m - 1 \in SUBSET T /\ 0 .. m - 1 # T
    BY <2>3, <2>4
  <2>7. m - 1 \in 0 .. n /\ 0 .. m - 1 \in SUBSET (0 .. n)
    BY <2>4
  <2>8. 0 .. m - 1 \in D
    BY <2>5, <2>7
  <2> QED BY <2>2, <2>6, <2>8
<1> QED BY <1>1, SMTT(30)
===============================================================================
