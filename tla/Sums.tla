-------------------------------- MODULE Sums --------------------------------
(***************************************************************************)
(* Facts about the sums that the invariants of this project are stated     *)
(* with.  MapThenSumSet adds up one value per element of a set by removing *)
(* one element after another, in an order CHOOSE fixes; what a sum is and  *)
(* how it changes when an element is added, removed or replaced does not   *)
(* depend on that order.                                                   *)
(*                                                                         *)
(* Each induction is an appeal to a smallest set among the finite sets for *)
(* which the claim is false.                                               *)
(***************************************************************************)
EXTENDS Integers, Sequences, FiniteSets, FiniteSetsExt, Functions,
        FiniteSetTheorems, WellFoundedInduction, TLAPS

SumOf(f, S) == MapThenSumSet(LAMBDA x : f[x], S)

-----------------------------------------------------------------------------
(* The recursion that defines a sum *)

First(s) == CHOOSE x \in s : TRUE
Adds(g, f, S) ==
    g = [s \in SUBSET S |-> IF s = {} THEN 0 ELSE f[First(s)] + g[s \ {First(s)}]]

\* A sum is the value of some function that satisfies the recursion, if there is one.
LEMMA SumUnfolds ==
    ASSUME NEW f, NEW S
    PROVE  SumOf(f, S) = (CHOOSE g : Adds(g, f, S))[S]
  BY DEF SumOf, MapThenSumSet, MapThenFoldSet, Adds, First

\* Among finite sets with some property there is one no proper subset of which has it.
LEMMA SmallestSet ==
    ASSUME NEW S, IsFiniteSet(S), NEW F, F \subseteq SUBSET S, F # {}
    PROVE  \E T \in F : \A U \in F : U \subseteq T => U = T
<1>1. IsWellFoundedOn(StrictSubsetOrdering(S), FiniteSubsetsOf(S))
  BY FS_StrictSubsetOrderingWellFounded
<1>2. FiniteSubsetsOf(S) = SUBSET S
  BY FS_FiniteSubsetsOfFinite
<1>3. IsWellFoundedOn(StrictSubsetOrdering(S), SUBSET S)
  BY <1>1, <1>2
<1>4. PICK T \in F : \A U \in F : ~(<<U, T>> \in StrictSubsetOrdering(S))
  BY <1>3, WFMin
<1>5. ASSUME NEW U \in F, U \subseteq T
      PROVE  U = T
  BY <1>4, <1>5 DEF StrictSubsetOrdering
<1> QED
  BY <1>5

\* What CHOOSE takes out of a set that is not empty is in it.
LEMMA FirstIsIn ==
    ASSUME NEW s, s # {}
    PROVE  First(s) \in s
  BY DEF First

\* Two functions that satisfy the recursion agree wherever both are defined.
LEMMA AddsUnique ==
    ASSUME NEW f, NEW S, NEW T, IsFiniteSet(S), NEW g, NEW h, Adds(g, f, S), Adds(h, f, T)
    PROVE  \A s \in SUBSET S : s \in SUBSET T => g[s] = h[s]
<1> DEFINE Bad == {s \in SUBSET S : s \in SUBSET T /\ g[s] # h[s]}
<1> SUFFICES ASSUME Bad # {}
             PROVE  FALSE
  OBVIOUS
<1>0. Bad \subseteq SUBSET S
  OBVIOUS
<1>1. PICK s \in Bad : \A u \in Bad : u \subseteq s => u = s
  <2> HIDE DEF Bad
  <2> QED
    BY <1>0, SmallestSet
<1>2. g[s] = IF s = {} THEN 0 ELSE f[First(s)] + g[s \ {First(s)}]
  BY DEF Adds
<1>3. h[s] = IF s = {} THEN 0 ELSE f[First(s)] + h[s \ {First(s)}]
  BY DEF Adds
<1>4. s # {}
  BY <1>2, <1>3
<1>5. First(s) \in s
  BY <1>4, FirstIsIn
<1>6. g[s \ {First(s)}] = h[s \ {First(s)}]
  BY <1>1, <1>5
<1> QED
  BY <1>2, <1>3, <1>4, <1>6

\* There is a function that satisfies the recursion on the subsets of a finite set.
LEMMA AddsExists ==
    ASSUME NEW f, NEW S, IsFiniteSet(S)
    PROVE  \E g : Adds(g, f, S)
<1> DEFINE Bad == {T \in SUBSET S : ~\E g : Adds(g, f, T)}
<1> SUFFICES ASSUME Bad # {}
             PROVE  FALSE
  OBVIOUS
<1>0. Bad \subseteq SUBSET S
  OBVIOUS
<1>1. PICK T \in Bad : \A u \in Bad : u \subseteq T => u = T
  <2> HIDE DEF Bad
  <2> QED
    BY <1>0, SmallestSet
<1>2. IsFiniteSet(T)
  BY FS_Subset
<1> DEFINE h(U) == CHOOSE g : Adds(g, f, U)
<1>3. \A U \in SUBSET T : U # T => Adds(h(U), f, U)
  BY <1>1
<1> HIDE DEF h
<1> DEFINE body(s) == IF s = {} THEN 0
                      ELSE f[First(s)] + h(s \ {First(s)})[s \ {First(s)}]
           g == [s \in SUBSET T |-> body(s)]
<1>4. ASSUME NEW U \in SUBSET T, U # T
      PROVE  g[U] = h(U)[U]
  <2>1. Adds(h(U), f, U)
    BY <1>3, <1>4
  <2>2. h(U)[U] = IF U = {} THEN 0 ELSE f[First(U)] + h(U)[U \ {First(U)}]
    BY <2>1 DEF Adds
  <2>3. CASE U = {}
    BY <2>2, <2>3
  <2>4. CASE U # {}
    <3> DEFINE V == U \ {First(U)}
    <3>1. V \in SUBSET T /\ V # T /\ V \in SUBSET U
      BY <1>4, <2>4, FirstIsIn
    <3>2. Adds(h(V), f, V)
      BY <1>3, <3>1
    <3>3. IsFiniteSet(U)
      BY <1>2, FS_Subset
    <3>4. h(U)[V] = h(V)[V]
      BY <2>1, <3>1, <3>2, <3>3, AddsUnique, SMTT(30)
    <3> QED
      BY <2>2, <2>4, <3>4
  <2> QED
    BY <2>3, <2>4
<1>5. ASSUME NEW s \in SUBSET T
      PROVE  body(s) = IF s = {} THEN 0 ELSE f[First(s)] + g[s \ {First(s)}]
  <2>1. CASE s = {}
    BY <2>1
  <2>2. CASE s # {}
    <3>1. s \ {First(s)} \in SUBSET T /\ s \ {First(s)} # T
      BY <2>2, FirstIsIn
    <3> QED
      BY <1>4, <2>2, <3>1
  <2> QED
    BY <2>1, <2>2
<1>6. g = [s \in SUBSET T |-> IF s = {} THEN 0 ELSE f[First(s)] + g[s \ {First(s)}]]
  <2>1. g = [s \in SUBSET T |-> body(s)]
    OBVIOUS
  <2> HIDE DEF g, body
  <2> QED
    BY <1>5, <2>1
<1>7. Adds(g, f, T)
  BY <1>6 DEF Adds
<1> QED
  BY <1>7

-----------------------------------------------------------------------------
(* Sums, one element at a time *)

\* The sum over no element is 0.
LEMMA SumEmpty ==
    ASSUME NEW f
    PROVE  SumOf(f, {}) = 0
<1>1. PICK g : Adds(g, f, {})
  BY AddsExists, FS_EmptySet
<1>2. Adds(CHOOSE h : Adds(h, f, {}), f, {})
  BY <1>1
<1> QED
  BY <1>2, SumUnfolds DEF Adds

\* What the recursion says of a sum: the first element, then the others.
LEMMA SumFirst ==
    ASSUME NEW f, NEW S, IsFiniteSet(S), S # {}
    PROVE  First(S) \in S /\ SumOf(f, S) = f[First(S)] + SumOf(f, S \ {First(S)})
<1> DEFINE R == S \ {First(S)}
           g == CHOOSE h : Adds(h, f, S)
           k == CHOOSE h : Adds(h, f, R)
<1>1. First(S) \in S
  BY FirstIsIn
<1>2. IsFiniteSet(R)
  BY FS_Subset
<1>3. Adds(g, f, S) /\ Adds(k, f, R)
  BY <1>2, AddsExists
<1>4. g[S] = SumOf(f, S) /\ k[R] = SumOf(f, R)
  BY SumUnfolds
<1> HIDE DEF g, k
<1>5. g[S] = f[First(S)] + g[R]
  BY <1>3 DEF Adds
<1>6. g[R] = k[R]
  <2>1. R \in SUBSET S /\ R \in SUBSET R
    OBVIOUS
  <2> HIDE DEF R
  <2> QED
    BY <1>3, <2>1, AddsUnique
<1> QED
  BY <1>1, <1>4, <1>5, <1>6

\* A sum of integers is an integer.
LEMMA SumType ==
    ASSUME NEW f, NEW S, IsFiniteSet(S), \A x \in S : f[x] \in Int
    PROVE  SumOf(f, S) \in Int
<1> DEFINE Bad == {T \in SUBSET S : SumOf(f, T) \notin Int}
<1> SUFFICES ASSUME Bad # {}
             PROVE  FALSE
  OBVIOUS
<1>1. Bad \subseteq SUBSET S
  OBVIOUS
<1>2. PICK T \in Bad : \A U \in Bad : U \subseteq T => U = T
  <2> HIDE DEF Bad
  <2> QED
    BY <1>1, SmallestSet
<1>3. IsFiniteSet(T) /\ T # {}
  <2>1. IsFiniteSet(T)
    BY FS_Subset
  <2>2. SumOf(f, {}) = 0
    BY SumEmpty
  <2> QED
    BY <2>1, <2>2
<1>4. First(T) \in T /\ SumOf(f, T) = f[First(T)] + SumOf(f, T \ {First(T)})
  BY <1>3, SumFirst
<1>5. SumOf(f, T \ {First(T)}) \in Int
  BY <1>2, <1>4
<1> QED
  BY <1>4, <1>5

\* The order does not matter: any element may be taken out first.
LEMMA SumRemove ==
    ASSUME NEW f, NEW S, IsFiniteSet(S), \A y \in S : f[y] \in Int, NEW x \in S
    PROVE  SumOf(f, S) = f[x] + SumOf(f, S \ {x})
<1> DEFINE Bad == {T \in SUBSET S : \E z \in T : SumOf(f, T) # f[z] + SumOf(f, T \ {z})}
<1> SUFFICES ASSUME Bad # {}
             PROVE  FALSE
  OBVIOUS
<1>1. Bad \subseteq SUBSET S
  OBVIOUS
<1>2. PICK T \in Bad : \A U \in Bad : U \subseteq T => U = T
  <2> HIDE DEF Bad
  <2> QED
    BY <1>1, SmallestSet
<1>3. PICK z \in T : SumOf(f, T) # f[z] + SumOf(f, T \ {z})
  OBVIOUS
<1> DEFINE c == First(T)
<1>4. IsFiniteSet(T)
  BY FS_Subset
<1>5. c \in T /\ SumOf(f, T) = f[c] + SumOf(f, T \ {c})
  BY <1>4, SumFirst
<1>6. c # z
  BY <1>3, <1>5
<1> HIDE DEF c
<1>7. SumOf(f, T \ {c}) = f[z] + SumOf(f, (T \ {c}) \ {z})
  <2>1. T \ {c} \in SUBSET S /\ T \ {c} # T /\ z \in T \ {c}
    BY <1>5, <1>6
  <2> QED
    BY <1>2, <2>1
<1>8. SumOf(f, T \ {z}) = f[c] + SumOf(f, (T \ {z}) \ {c})
  <2>1. T \ {z} \in SUBSET S /\ T \ {z} # T /\ c \in T \ {z}
    BY <1>5, <1>6
  <2> QED
    BY <1>2, <2>1
<1> DEFINE R == (T \ {c}) \ {z}
<1>9. (T \ {z}) \ {c} = R /\ IsFiniteSet(R) /\ \A y \in R : f[y] \in Int
  BY <1>4, FS_Subset
<1>10. SumOf(f, R) \in Int
  <2> HIDE DEF R
  <2> QED
    BY <1>9, SumType
<1>11. f[c] \in Int /\ f[z] \in Int
  BY <1>5
<1>12. SumOf(f, T) = f[c] + (f[z] + SumOf(f, R))
  BY <1>5, <1>7
<1>13. SumOf(f, T \ {z}) = f[c] + SumOf(f, R)
  BY <1>8, <1>9
<1> HIDE DEF R, Bad
<1> QED
  BY <1>3, <1>10, <1>11, <1>12, <1>13

\* An element more adds its value.
LEMMA SumInsert ==
    ASSUME NEW f, NEW S, IsFiniteSet(S), NEW x, x \notin S, \A y \in S \cup {x} : f[y] \in Int
    PROVE  SumOf(f, S \cup {x}) = f[x] + SumOf(f, S)
<1>1. IsFiniteSet(S \cup {x})
  BY FS_AddElement
<1>2. (S \cup {x}) \ {x} = S
  OBVIOUS
<1> QED
  BY <1>1, <1>2, SumRemove

-----------------------------------------------------------------------------
(* Sums that differ in little *)

\* A sum depends on the values of its elements only.
LEMMA SumSame ==
    ASSUME NEW f, NEW g, NEW S, IsFiniteSet(S), \A x \in S : f[x] = g[x]
    PROVE  SumOf(f, S) = SumOf(g, S)
<1> DEFINE Bad == {T \in SUBSET S : SumOf(f, T) # SumOf(g, T)}
<1> SUFFICES ASSUME Bad # {}
             PROVE  FALSE
  OBVIOUS
<1>1. Bad \subseteq SUBSET S
  OBVIOUS
<1>2. PICK T \in Bad : \A U \in Bad : U \subseteq T => U = T
  <2> HIDE DEF Bad
  <2> QED
    BY <1>1, SmallestSet
<1>3. IsFiniteSet(T) /\ T # {}
  <2>1. IsFiniteSet(T)
    BY FS_Subset
  <2>2. SumOf(f, {}) = 0 /\ SumOf(g, {}) = 0
    BY SumEmpty
  <2> QED
    BY <2>1, <2>2
<1>4. /\ First(T) \in T
      /\ SumOf(f, T) = f[First(T)] + SumOf(f, T \ {First(T)})
      /\ SumOf(g, T) = g[First(T)] + SumOf(g, T \ {First(T)})
  BY <1>3, SumFirst
<1>5. SumOf(f, T \ {First(T)}) = SumOf(g, T \ {First(T)})
  BY <1>2, <1>4
<1> QED
  BY <1>4, <1>5

\* Changing the value of one element changes the sum by as much.
LEMMA SumChange ==
    ASSUME NEW f, NEW g, NEW S, IsFiniteSet(S), NEW x \in S,
           \A y \in S : f[y] \in Int /\ g[y] \in Int,
           \A y \in S \ {x} : g[y] = f[y]
    PROVE  SumOf(g, S) = SumOf(f, S) + (g[x] - f[x])
<1>1. IsFiniteSet(S \ {x}) /\ \A y \in S \ {x} : f[y] \in Int
  BY FS_Subset
<1>2. SumOf(g, S \ {x}) = SumOf(f, S \ {x})
  BY <1>1, SumSame
<1>3. SumOf(f, S) = f[x] + SumOf(f, S \ {x}) /\ SumOf(g, S) = g[x] + SumOf(g, S \ {x})
  BY SumRemove
<1>4. SumOf(f, S \ {x}) \in Int /\ f[x] \in Int /\ g[x] \in Int
  BY <1>1, SumType
<1> QED
  BY <1>2, <1>3, <1>4

\* A sum of values that are not negative is none, and at least each of them.
LEMMA SumOfNats ==
    ASSUME NEW f, NEW S, IsFiniteSet(S), \A x \in S : f[x] \in Nat
    PROVE  SumOf(f, S) \in Nat /\ \A x \in S : f[x] <= SumOf(f, S)
<1> DEFINE Bad == {T \in SUBSET S : SumOf(f, T) \notin Nat}
<1>1. Bad = {}
  <2> SUFFICES ASSUME Bad # {}
               PROVE  FALSE
    OBVIOUS
  <2>1. Bad \subseteq SUBSET S
    OBVIOUS
  <2>2. PICK T \in Bad : \A U \in Bad : U \subseteq T => U = T
    <3> HIDE DEF Bad
    <3> QED
      BY <2>1, SmallestSet
  <2>3. IsFiniteSet(T) /\ T # {}
    <3>1. IsFiniteSet(T)
      BY FS_Subset
    <3>2. SumOf(f, {}) = 0
      BY SumEmpty
    <3> QED
      BY <3>1, <3>2
  <2>4. First(T) \in T /\ SumOf(f, T) = f[First(T)] + SumOf(f, T \ {First(T)})
    BY <2>3, SumFirst
  <2>5. SumOf(f, T \ {First(T)}) \in Nat
    BY <2>2, <2>4
  <2> QED
    BY <2>4, <2>5
<1>2. \A T \in SUBSET S : SumOf(f, T) \in Nat
  BY <1>1
<1>3. ASSUME NEW x \in S
      PROVE  f[x] <= SumOf(f, S)
  <2>1. SumOf(f, S) = f[x] + SumOf(f, S \ {x})
    BY SumRemove
  <2>2. SumOf(f, S \ {x}) \in Nat /\ f[x] \in Nat
    BY <1>2
  <2> QED
    BY <2>1, <2>2
<1> QED
  BY <1>2, <1>3

\* A sum of values none of which is more is not more.
LEMMA SumLess ==
    ASSUME NEW f, NEW g, NEW S, IsFiniteSet(S),
           \A x \in S : f[x] \in Int /\ g[x] \in Int /\ f[x] <= g[x]
    PROVE  SumOf(f, S) <= SumOf(g, S)
<1> DEFINE Bad == {T \in SUBSET S : ~(SumOf(f, T) <= SumOf(g, T))}
<1> SUFFICES ASSUME Bad # {}
             PROVE  FALSE
  OBVIOUS
<1>1. Bad \subseteq SUBSET S
  OBVIOUS
<1>2. PICK T \in Bad : \A U \in Bad : U \subseteq T => U = T
  <2> HIDE DEF Bad
  <2> QED
    BY <1>1, SmallestSet
<1>3. IsFiniteSet(T) /\ T # {}
  <2>1. IsFiniteSet(T)
    BY FS_Subset
  <2>2. SumOf(f, {}) = 0 /\ SumOf(g, {}) = 0
    BY SumEmpty
  <2> QED
    BY <2>1, <2>2
<1> DEFINE c == First(T)
           R == T \ {c}
<1>4. /\ c \in T /\ SumOf(f, T) = f[c] + SumOf(f, R)
      /\ SumOf(g, T) = g[c] + SumOf(g, R)
  BY <1>3, SumFirst
<1>5. /\ R \in SUBSET S /\ R # T /\ R \subseteq T /\ IsFiniteSet(R)
      /\ \A x \in R : f[x] \in Int /\ g[x] \in Int
  BY <1>3, <1>4, FS_Subset
<1>6. SumOf(f, R) <= SumOf(g, R)
  BY <1>2, <1>5
<1>7. SumOf(f, R) \in Int /\ SumOf(g, R) \in Int
  <2> HIDE DEF R
  <2> QED
    BY <1>5, SumType
<1>8. f[c] \in Int /\ g[c] \in Int /\ f[c] <= g[c]
  BY <1>4
<1>9. ~(SumOf(f, T) <= SumOf(g, T))
  BY <1>2
<1> HIDE DEF R, c, Bad
<1> QED
  BY <1>4, <1>6, <1>7, <1>8, <1>9

\* Element by element or sum by sum comes to the same.
LEMMA SumPlus ==
    ASSUME NEW f, NEW g, NEW h, NEW S, IsFiniteSet(S),
           \A x \in S : f[x] \in Int /\ g[x] \in Int /\ h[x] = f[x] + g[x]
    PROVE  SumOf(h, S) = SumOf(f, S) + SumOf(g, S)
<1> DEFINE Bad == {T \in SUBSET S : SumOf(h, T) # SumOf(f, T) + SumOf(g, T)}
<1> SUFFICES ASSUME Bad # {}
             PROVE  FALSE
  OBVIOUS
<1>1. Bad \subseteq SUBSET S
  OBVIOUS
<1>2. PICK T \in Bad : \A U \in Bad : U \subseteq T => U = T
  <2> HIDE DEF Bad
  <2> QED
    BY <1>1, SmallestSet
<1>3. IsFiniteSet(T) /\ T # {}
  <2>1. IsFiniteSet(T)
    BY FS_Subset
  <2>2. SumOf(f, {}) = 0 /\ SumOf(g, {}) = 0 /\ SumOf(h, {}) = 0
    BY SumEmpty
  <2>3. SumOf(h, {}) = SumOf(f, {}) + SumOf(g, {})
    BY ONLY <2>2
  <2>4. SumOf(h, T) # SumOf(f, T) + SumOf(g, T)
    BY <1>2
  <2>5. T # {}
    BY ONLY <2>3, <2>4, Zenon
  <2> QED
    BY <2>1, <2>5
<1> DEFINE c == First(T)
           R == T \ {c}
<1>4. /\ c \in T /\ SumOf(f, T) = f[c] + SumOf(f, R)
      /\ SumOf(g, T) = g[c] + SumOf(g, R) /\ SumOf(h, T) = h[c] + SumOf(h, R)
  BY <1>3, SumFirst
<1>5. /\ R \in SUBSET S /\ R # T /\ R \subseteq T /\ IsFiniteSet(R)
      /\ \A x \in R : f[x] \in Int /\ g[x] \in Int
  BY <1>3, <1>4, FS_Subset
<1>6. SumOf(h, R) = SumOf(f, R) + SumOf(g, R)
  BY <1>2, <1>5
<1>7. SumOf(f, R) \in Int /\ SumOf(g, R) \in Int
  <2> HIDE DEF R
  <2> QED
    BY <1>5, SumType
<1>8. f[c] \in Int /\ g[c] \in Int /\ h[c] = f[c] + g[c]
  BY <1>4
<1>9. SumOf(h, T) # SumOf(f, T) + SumOf(g, T)
  BY <1>2
<1> HIDE DEF R, c, Bad
<1> QED
  BY <1>4, <1>6, <1>7, <1>8, <1>9

\* A sum over two sets that share nothing is the sum of their sums.
LEMMA SumUnion ==
    ASSUME NEW f, NEW S, IsFiniteSet(S), NEW U, IsFiniteSet(U), S \cap U = {},
           \A x \in S \cup U : f[x] \in Int
    PROVE  SumOf(f, S \cup U) = SumOf(f, S) + SumOf(f, U)
<1> DEFINE Bad == {T \in SUBSET S : SumOf(f, T \cup U) # SumOf(f, T) + SumOf(f, U)}
<1> SUFFICES ASSUME Bad # {}
             PROVE  FALSE
  OBVIOUS
<1>1. Bad \subseteq SUBSET S
  OBVIOUS
<1>2. PICK T \in Bad : \A V \in Bad : V \subseteq T => V = T
  <2> HIDE DEF Bad
  <2> QED
    BY <1>1, SmallestSet
<1>3. SumOf(f, T \cup U) # SumOf(f, T) + SumOf(f, U) /\ T \subseteq S
  OBVIOUS
<1>4. IsFiniteSet(T) /\ T # {}
  <2>1. IsFiniteSet(T)
    BY FS_Subset
  <2>2. SumOf(f, U) \in Int
    BY SumType
  <2>3. ASSUME T = {}
        PROVE  FALSE
    <3>1. SumOf(f, T) = 0
      BY <2>3, SumEmpty
    <3>2. T \cup U = U
      BY <2>3
    <3>3. SumOf(f, T \cup U) = SumOf(f, U)
      BY ONLY <3>2, Zenon
    <3> HIDE DEF Bad
    <3> QED
      BY <1>3, <2>2, <3>1, <3>3
  <2> QED
    BY <2>1, <2>3
<1>5. PICK x \in T : TRUE
  BY <1>4
<1> DEFINE V == T \ {x}
<1>6. SumOf(f, V \cup U) = SumOf(f, V) + SumOf(f, U)
  <2>1. V \in SUBSET S /\ V \subseteq T /\ V # T
    BY <1>3, <1>5
  <2> QED
    BY <1>2, <2>1
<1>7. SumOf(f, T) = f[x] + SumOf(f, V)
  BY <1>3, <1>4, <1>5, SumRemove
<1>8. SumOf(f, T \cup U) = f[x] + SumOf(f, V \cup U)
  <2>1. IsFiniteSet(T \cup U) /\ x \in T \cup U /\ \A y \in T \cup U : f[y] \in Int
    BY <1>3, <1>4, <1>5, FS_Union
  <2>2. (T \cup U) \ {x} = V \cup U
    BY <1>3, <1>5
  <2> QED
    BY <2>1, <2>2, SumRemove
<1>9. SumOf(f, V) \in Int /\ SumOf(f, U) \in Int /\ f[x] \in Int
  <2>1. IsFiniteSet(V) /\ \A y \in V : f[y] \in Int
    BY <1>3, <1>4, FS_Subset
  <2> QED
    BY <1>3, <1>5, <2>1, SumType
<1> HIDE DEF Bad, V
<1> QED
  BY <1>3, <1>6, <1>7, <1>8, <1>9

\* More elements, none of them negative, add up to no less.
LEMMA SumMore ==
    ASSUME NEW f, NEW g, NEW S, NEW T, IsFiniteSet(T), S \subseteq T,
           \A x \in S : f[x] \in Int /\ g[x] = f[x], \A x \in T \ S : g[x] \in Nat
    PROVE  /\ SumOf(f, S) \in Int /\ SumOf(g, T) \in Int /\ SumOf(f, S) <= SumOf(g, T)
           /\ \A x \in T \ S : SumOf(f, S) + g[x] <= SumOf(g, T)
<1> DEFINE U == T \ S
<1>1. IsFiniteSet(S) /\ IsFiniteSet(U) /\ S \cap U = {} /\ S \cup U = T
  BY FS_Subset
<1>2. (\A x \in S \cup U : g[x] \in Int) /\ \A x \in U : g[x] \in Nat
  OBVIOUS
<1> HIDE DEF U
<1>3. SumOf(g, T) = SumOf(g, S) + SumOf(g, U)
  BY <1>1, <1>2, SumUnion
<1>4. SumOf(g, S) = SumOf(f, S) /\ SumOf(f, S) \in Int
  BY <1>1, SumSame, SumType
<1>5. SumOf(g, U) \in Nat /\ \A x \in U : g[x] <= SumOf(g, U)
  BY <1>1, <1>2, SumOfNats
<1> PICK m \in Int : m = SumOf(f, S)
  BY <1>4
<1> PICK n \in Nat : n = SumOf(g, U)
  BY <1>5
<1>6. SumOf(g, T) = m + n
  BY <1>3, <1>4
<1>7. \A x \in U : g[x] \in Nat /\ g[x] <= n
  BY <1>2, <1>5
<1>8. m + n \in Int /\ m <= m + n /\ \A x \in U : m + g[x] <= m + n
  BY <1>7
<1> QED
  BY <1>6, <1>8 DEF U

\* Elements whose value is 0 may be left out.
LEMMA SumZeros ==
    ASSUME NEW f, NEW S, IsFiniteSet(S), \A x \in S : f[x] = 0
    PROVE  SumOf(f, S) = 0
<1> DEFINE Bad == {T \in SUBSET S : SumOf(f, T) # 0}
<1> SUFFICES ASSUME Bad # {}
             PROVE  FALSE
  OBVIOUS
<1>1. Bad \subseteq SUBSET S
  OBVIOUS
<1>2. PICK T \in Bad : \A U \in Bad : U \subseteq T => U = T
  <2> HIDE DEF Bad
  <2> QED
    BY <1>1, SmallestSet
<1>3. IsFiniteSet(T) /\ T # {}
  <2>1. IsFiniteSet(T)
    BY FS_Subset
  <2>2. SumOf(f, {}) = 0
    BY SumEmpty
  <2> QED
    BY <2>1, <2>2
<1>4. First(T) \in T /\ SumOf(f, T) = f[First(T)] + SumOf(f, T \ {First(T)})
  BY <1>3, SumFirst
<1>5. SumOf(f, T \ {First(T)}) = 0 /\ f[First(T)] = 0
  BY <1>2, <1>4
<1> QED
  BY <1>4, <1>5

\* Elements counted under other names add up to the same.
LEMMA SumImage ==
    ASSUME NEW S, IsFiniteSet(S), NEW h, \A x, y \in S : h[x] = h[y] => x = y,
           NEW f, NEW g, \A x \in S : g[x] = f[h[x]] /\ g[x] \in Int
    PROVE  SumOf(f, {h[x] : x \in S}) = SumOf(g, S)
<1> DEFINE Image(T) == {h[x] : x \in T}
           Bad == {T \in SUBSET S : SumOf(f, Image(T)) # SumOf(g, T)}
<1> SUFFICES ASSUME Bad # {}
             PROVE  FALSE
  OBVIOUS
<1>1. Bad \subseteq SUBSET S
  OBVIOUS
<1>2. PICK T \in Bad : \A U \in Bad : U \subseteq T => U = T
  <2> HIDE DEF Bad
  <2> QED
    BY <1>1, SmallestSet
<1>3. IsFiniteSet(T) /\ T \subseteq S /\ SumOf(f, Image(T)) # SumOf(g, T)
  BY FS_Subset
<1>4. T # {}
  <2> SUFFICES ASSUME T = {}
               PROVE  FALSE
    OBVIOUS
  <2>1. Image(T) = {}
    OBVIOUS
  <2> HIDE DEF Image, Bad
  <2> QED
    BY <1>3, <2>1, SumEmpty
<1>5. PICK x \in T : TRUE
  BY <1>4
<1>6. SumOf(f, Image(T \ {x})) = SumOf(g, T \ {x})
  BY <1>2, <1>3, <1>5
<1>7. SumOf(g, T) = g[x] + SumOf(g, T \ {x})
  BY <1>3, <1>5, SumRemove
<1>8. SumOf(f, Image(T)) = f[h[x]] + SumOf(f, Image(T) \ {h[x]})
  <2>1. IsFiniteSet(Image(T))
    <3> DEFINE m == [y \in T |-> h[y]]
    <3>1. m \in Surjection(T, Image(T))
      BY DEF Surjection
    <3> HIDE DEF m, Image, Bad
    <3> QED
      BY <1>3, <3>1, FS_Surjection
  <2>2. h[x] \in Image(T) /\ \A y \in Image(T) : f[y] \in Int
    BY <1>3, <1>5
  <2> HIDE DEF Image, Bad
  <2> QED
    BY <2>1, <2>2, SumRemove
<1>9. Image(T) \ {h[x]} = Image(T \ {x})
  BY <1>3, <1>5
<1>10. g[x] = f[h[x]]
  BY <1>3, <1>5
<1> HIDE DEF Image, Bad
<1> QED
  BY <1>3, <1>6, <1>7, <1>8, <1>9, <1>10

\* The sum over part of a set is the sum over all of it, with 0 for the others.
LEMMA SumWhere ==
    ASSUME NEW S, IsFiniteSet(S), NEW T \in SUBSET S, NEW f, \A x \in T : f[x] \in Int,
           NEW g, \A x \in S : g[x] = IF x \in T THEN f[x] ELSE 0
    PROVE  SumOf(g, S) = SumOf(f, T)
<1> DEFINE U == S \ T
<1>1. IsFiniteSet(T) /\ IsFiniteSet(U) /\ T \cap U = {} /\ T \cup U = S
  BY FS_Subset
<1>2. \A x \in T \cup U : g[x] \in Int
  OBVIOUS
<1>3. \A x \in U : g[x] = 0
  OBVIOUS
<1> HIDE DEF U
<1>4. SumOf(g, T \cup U) = SumOf(g, T) + SumOf(g, U)
  BY <1>1, <1>2, SumUnion
<1>5. SumOf(g, U) = 0
  BY <1>1, <1>3, SumZeros
<1>6. SumOf(g, T) = SumOf(f, T) /\ SumOf(f, T) \in Int
  BY <1>1, SumSame, SumType
<1>7. SumOf(g, S) = SumOf(g, T \cup U)
  BY ONLY <1>1, Zenon
<1> QED
  BY <1>4, <1>5, <1>6, <1>7

-----------------------------------------------------------------------------
(* Sums of a column of some rows *)

SumOfColumn(rows, c, S) == MapThenSumSet(LAMBDA k : rows[k][c], S)

\* The sum of a column is the sum of a function.
LEMMA ColumnsAreSums ==
    ASSUME NEW rows, NEW c, NEW S, IsFiniteSet(S)
    PROVE  SumOfColumn(rows, c, S) = SumOf([k \in S |-> rows[k][c]], S)
<1> DEFINE f == [k \in S |-> rows[k][c]]
           iter(g) == g = [s \in SUBSET S |-> IF s = {} THEN 0
                             ELSE rows[First(s)][c] + g[s \ {First(s)}]]
<1>1. SumOfColumn(rows, c, S) = (CHOOSE g : iter(g))[S]
  BY DEF SumOfColumn, MapThenSumSet, MapThenFoldSet, First
<1>2. ASSUME NEW s \in SUBSET S, s # {}
      PROVE  f[First(s)] = rows[First(s)][c]
  BY <1>2, FirstIsIn
<1> HIDE DEF f
<1>3. ASSUME NEW g
      PROVE  iter(g) <=> Adds(g, f, S)
  <2>1. [s \in SUBSET S |-> IF s = {} THEN 0 ELSE rows[First(s)][c] + g[s \ {First(s)}]]
          = [s \in SUBSET S |-> IF s = {} THEN 0 ELSE f[First(s)] + g[s \ {First(s)}]]
    BY <1>2
  <2> QED
    BY <2>1 DEF Adds
<1>4. \E g : Adds(g, f, S)
  BY AddsExists
<1> HIDE DEF iter
<1>5. Adds(CHOOSE g : iter(g), f, S) /\ Adds(CHOOSE g : Adds(g, f, S), f, S)
  BY <1>3, <1>4
<1>6. (CHOOSE g : iter(g))[S] = (CHOOSE g : Adds(g, f, S))[S]
  BY <1>5, AddsUnique
<1> QED
  BY <1>1, <1>6, SumUnfolds DEF f

\* A function that gives the column of each row has the same sum.
LEMMA ColumnIsSum ==
    ASSUME NEW rows, NEW c, NEW S, IsFiniteSet(S), NEW f, \A k \in S : f[k] = rows[k][c]
    PROVE  SumOfColumn(rows, c, S) = SumOf(f, S)
<1> DEFINE g == [k \in S |-> rows[k][c]]
<1>1. \A k \in S : g[k] = f[k]
  OBVIOUS
<1>2. SumOfColumn(rows, c, S) = SumOf(g, S)
  BY ColumnsAreSums
<1> HIDE DEF g
<1>3. SumOf(g, S) = SumOf(f, S)
  BY <1>1, SumSame
<1> QED
  BY <1>2, <1>3

\* The sum of whole numbers is whole, and not negative if none of them is.
LEMMA ColumnType ==
    ASSUME NEW rows, NEW c, NEW S, IsFiniteSet(S), \A k \in S : rows[k][c] \in Int
    PROVE  /\ SumOfColumn(rows, c, S) \in Int
           /\ (\A k \in S : rows[k][c] >= 0) => SumOfColumn(rows, c, S) >= 0
<1> DEFINE f == [k \in S |-> rows[k][c]]
<1>1. \A k \in S : f[k] = rows[k][c]
  OBVIOUS
<1> HIDE DEF f
<1>2. SumOfColumn(rows, c, S) = SumOf(f, S)
  BY <1>1, ColumnIsSum
<1>3. SumOf(f, S) \in Int
  BY <1>1, SumType
<1>4. ASSUME \A k \in S : rows[k][c] >= 0
      PROVE  SumOf(f, S) >= 0
  <2>1. \A k \in S : f[k] \in Nat
    BY <1>1, <1>4
  <2>2. SumOf(f, S) \in Nat
    BY <2>1, SumOfNats
  <2> QED
    BY <2>2
<1> QED
  BY <1>2, <1>3, <1>4

\* Rows that agree on the column have the same sum.
LEMMA ColumnSame ==
    ASSUME NEW rows, NEW more, NEW c, NEW S, IsFiniteSet(S), \A k \in S : more[k][c] = rows[k][c]
    PROVE  SumOfColumn(more, c, S) = SumOfColumn(rows, c, S)
<1> DEFINE f == [k \in S |-> rows[k][c]]
<1>1. (\A k \in S : f[k] = rows[k][c]) /\ (\A k \in S : f[k] = more[k][c])
  OBVIOUS
<1> HIDE DEF f
<1>2. SumOfColumn(rows, c, S) = SumOf(f, S) /\ SumOfColumn(more, c, S) = SumOf(f, S)
  BY <1>1, ColumnIsSum
<1> QED
  BY <1>2

\* A row more adds its value.
LEMMA ColumnInsert ==
    ASSUME NEW rows, NEW c, NEW S, IsFiniteSet(S), NEW n, n \notin S,
           \A k \in S \cup {n} : rows[k][c] \in Int
    PROVE  SumOfColumn(rows, c, S \cup {n}) = rows[n][c] + SumOfColumn(rows, c, S)
<1> DEFINE f == [k \in S \cup {n} |-> rows[k][c]]
<1>1. IsFiniteSet(S \cup {n}) /\ \A k \in S \cup {n} : f[k] = rows[k][c]
  BY FS_AddElement
<1> HIDE DEF f
<1>2. SumOfColumn(rows, c, S \cup {n}) = SumOf(f, S \cup {n}) /\ SumOfColumn(rows, c, S) = SumOf(f, S)
  BY <1>1, ColumnIsSum
<1>3. SumOf(f, S \cup {n}) = f[n] + SumOf(f, S)
  BY <1>1, SumInsert
<1> QED
  BY <1>1, <1>2, <1>3

\* No row adds up to nothing.
LEMMA ColumnEmpty ==
    ASSUME NEW rows, NEW c
    PROVE  SumOfColumn(rows, c, {}) = 0
<1>1. SumOfColumn(rows, c, {}) = SumOf(rows, {})
  BY FS_EmptySet, ColumnIsSum
<1> QED
  BY <1>1, SumEmpty

-----------------------------------------------------------------------------
(* The largest of some integers *)

\* A finite set of integers that is not empty has a largest element, which Max returns.
LEMMA MaxIsLargest ==
    ASSUME NEW S, IsFiniteSet(S), S # {}, S \subseteq Int
    PROVE  Max(S) \in S /\ \A y \in S : y <= Max(S)
<1> DEFINE Bad == {T \in SUBSET S : T # {} /\ ~\E x \in T : \A y \in T : x >= y}
<1>1. Bad = {}
  <2> SUFFICES ASSUME Bad # {}
               PROVE  FALSE
    OBVIOUS
  <2>1. Bad \subseteq SUBSET S
    OBVIOUS
  <2>2. PICK T \in Bad : \A U \in Bad : U \subseteq T => U = T
    <3> HIDE DEF Bad
    <3> QED
      BY ONLY IsFiniteSet(S), Bad # {}, <2>1, SmallestSet
  <2>3. PICK z \in T : TRUE
    OBVIOUS
  <2>4. T \ {z} \notin Bad
    BY <2>2, <2>3
  <2>5. CASE T \ {z} = {}
    <3>1. T = {z} /\ z \in Int
      BY <2>3, <2>5
    <3> QED
      BY <3>1
  <2>6. CASE T \ {z} # {}
    <3>1. PICK x \in T \ {z} : \A y \in T \ {z} : x >= y
      BY <2>4, <2>6
    <3>2. x \in Int /\ z \in Int /\ T \subseteq Int
      BY <2>3
    <3>3. \E w \in T : \A y \in T : w >= y
      <4>1. CASE x >= z
        BY <3>1, <4>1
      <4>2. CASE ~(x >= z)
        <5>1. \A y \in T : z >= y
          BY <3>1, <3>2, <4>2
        <5> QED
          BY <5>1
      <4> QED
        BY <4>1, <4>2
    <3> QED
      BY <3>3
  <2> QED
    BY <2>5, <2>6
<1>2. \E x \in S : \A y \in S : x >= y
  BY <1>1
<1>3. Max(S) \in S /\ \A y \in S : Max(S) >= y
  <2> HIDE DEF Bad
  <2> QED
    BY <1>2 DEF Max
<1> QED
  BY <1>3
=============================================================================
