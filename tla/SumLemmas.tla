------------------------------ MODULE SumLemmas ------------------------------
(***************************************************************************)
(* What a sum over a finite set is (SumFunctionOnSet of the community      *)
(* modules), for the books kept in this project.  The sum is a fold, so    *)
(* these are inductions over data: each takes the smallest set for which   *)
(* the claim fails, which the well-foundedness of the strict subset order  *)
(* provides (WFMin), and shows that there is none.  At the end, what the   *)
(* first so many of a finite set are in an order, what a quotient is, and   *)
(* that something is the most of any finite set.                           *)
(***************************************************************************)
EXTENDS Integers, FiniteSets, Functions, FiniteSetTheorems, WellFoundedInduction, TLAPS

\* The smallest set of a family of finite sets.
LEMMA SmallestSet ==
  ASSUME NEW S, NEW F, F \subseteq FiniteSubsetsOf(S), F # {}
  PROVE  \E T \in F : \A U \in F : ~(U \subseteq T /\ U # T)
<1>1. \E T \in F : \A U \in F : <<U, T>> \notin StrictSubsetOrdering(S)
  BY FS_StrictSubsetOrderingWellFounded, WFMin
<1>2. QED
  BY <1>1 DEF StrictSubsetOrdering, FiniteSubsetsOf

-----------------------------------------------------------------------------
(* The fold. *)

Pick(T) == CHOOSE x \in T : TRUE

\* The equation the fold is chosen by.
IsFold(h, S, f) ==
  f = [T \in SUBSET S |-> IF T = {} THEN 0 ELSE h[Pick(T)] + f[T \ {Pick(T)}]]

\* The sum is what a function that solves the equation says of the whole set.
LEMMA SumIsFold ==
  ASSUME NEW h, NEW S
  PROVE  SumFunctionOnSet(h, S) = (CHOOSE f : IsFold(h, S, f))[S]
  BY DEF SumFunctionOnSet, FoldFunctionOnSet, MapThenFoldSet, IsFold, Pick

\* Two solutions agree wherever both are defined.
LEMMA FoldsAgree ==
  ASSUME NEW h, NEW A, NEW B, NEW f, NEW g, IsFold(h, A, f), IsFold(h, B, g),
         IsFiniteSet(A)
  PROVE  \A T \in SUBSET (A \cap B) : f[T] = g[T]
<1> DEFINE Differ == {T \in SUBSET (A \cap B) : f[T] # g[T]}
<1> SUFFICES ASSUME Differ # {} PROVE FALSE
  OBVIOUS
<1>1. Differ \subseteq FiniteSubsetsOf(A)
  BY FS_Subset DEF FiniteSubsetsOf
<1> HIDE DEF Differ
<1>2. PICK T \in Differ : \A U \in Differ : ~(U \subseteq T /\ U # T)
  BY <1>1, SmallestSet
<1> USE DEF Differ
<1>3. T \in SUBSET A /\ T \in SUBSET B
  OBVIOUS
<1>4. T # {}
  BY <1>3 DEF IsFold
<1>5. Pick(T) \in T
  BY <1>4 DEF Pick
<1>6. T \ {Pick(T)} \notin Differ /\ T \ {Pick(T)} \in SUBSET (A \cap B)
  BY <1>2, <1>5
<1>7. f[T] = h[Pick(T)] + f[T \ {Pick(T)}] /\ g[T] = h[Pick(T)] + g[T \ {Pick(T)}]
  BY <1>3, <1>4 DEF IsFold
<1>8. QED
  BY <1>6, <1>7

\* The equation has a solution on every finite set.
LEMMA FoldExists ==
  ASSUME NEW h, NEW S, IsFiniteSet(S)
  PROVE  \E f : IsFold(h, S, f)
<1> DEFINE F(T) == CHOOSE f : IsFold(h, T, f)
           Without == {T \in SUBSET S : ~\E f : IsFold(h, T, f)}
<1> SUFFICES ASSUME Without # {} PROVE FALSE
  BY S \in SUBSET S
<1>1. Without \subseteq FiniteSubsetsOf(S)
  BY FS_Subset DEF FiniteSubsetsOf
<1> HIDE DEF Without
<1>2. PICK T \in Without : \A U \in Without : ~(U \subseteq T /\ U # T)
  BY <1>1, SmallestSet
<1> USE DEF Without
<1>3. \A U \in SUBSET T : U # T => IsFold(h, U, F(U))
  <2> SUFFICES ASSUME NEW U \in SUBSET T, U # T PROVE IsFold(h, U, F(U))
    OBVIOUS
  <2>1. \E f : IsFold(h, U, f)
    BY <1>2
  <2>2. QED BY <2>1
<1> DEFINE g == [U \in SUBSET T |-> IF U = {} THEN 0 ELSE h[Pick(U)] + F(U \ {Pick(U)})[U \ {Pick(U)}]]
<1> HIDE DEF F
<1>4. \A U \in SUBSET T : U # T => g[U] = F(U)[U]
  <2> SUFFICES ASSUME NEW U \in SUBSET T, U # T PROVE g[U] = F(U)[U]
    OBVIOUS
  <2>1. IsFold(h, U, F(U))
    BY <1>3
  <2>2. CASE U = {}
    BY <2>1, <2>2 DEF IsFold
  <2>3. CASE U # {}
    <3>1. Pick(U) \in U
      BY <2>3 DEF Pick
    <3> DEFINE V == U \ {Pick(U)}
    <3>2. V \in SUBSET T /\ V # T /\ V \in SUBSET U
      BY <3>1
    <3>3. IsFold(h, V, F(V)) /\ IsFiniteSet(V)
      BY <1>3, <3>2, FS_Subset
    <3>4. F(V)[V] = F(U)[V]
      BY <2>1, <3>2, <3>3, FoldsAgree
    <3>5. F(U)[U] = h[Pick(U)] + F(U)[V]
      BY <2>1, <2>3 DEF IsFold
    <3>6. QED BY <2>3, <3>4, <3>5
  <2>4. QED BY <2>2, <2>3
<1>5. IsFold(h, T, g)
  <2>1. \A U \in SUBSET T : U # {} => g[U] = h[Pick(U)] + g[U \ {Pick(U)}]
    <3> SUFFICES ASSUME NEW U \in SUBSET T, U # {} PROVE g[U] = h[Pick(U)] + g[U \ {Pick(U)}]
      OBVIOUS
    <3>1. Pick(U) \in U
      BY DEF Pick
    <3>2. U \ {Pick(U)} \in SUBSET T /\ U \ {Pick(U)} # T
      BY <3>1
    <3>3. QED BY <1>4, <3>2
  <2>2. g[{}] = 0
    OBVIOUS
  <2>3. g = [U \in SUBSET T |-> g[U]]
    OBVIOUS
  <2>4. QED BY <2>1, <2>2, <2>3 DEF IsFold
<1>6. QED
  BY <1>2, <1>5

\* So the sum is taken element by element.
LEMMA SumUnfolds ==
  ASSUME NEW h, NEW S, IsFiniteSet(S)
  PROVE  SumFunctionOnSet(h, S) =
           IF S = {} THEN 0 ELSE h[Pick(S)] + SumFunctionOnSet(h, S \ {Pick(S)})
<1> DEFINE F(T) == CHOOSE f : IsFold(h, T, f)
<1>1. \A T \in SUBSET S : IsFold(h, T, F(T)) /\ SumFunctionOnSet(h, T) = F(T)[T] /\ IsFiniteSet(T)
  <2> SUFFICES ASSUME NEW T \in SUBSET S
               PROVE IsFold(h, T, F(T)) /\ SumFunctionOnSet(h, T) = F(T)[T] /\ IsFiniteSet(T)
    OBVIOUS
  <2>1. IsFiniteSet(T)
    BY FS_Subset
  <2>2. \E f : IsFold(h, T, f)
    BY <2>1, FoldExists
  <2>3. QED BY <2>1, <2>2, SumIsFold
<1> HIDE DEF F
<1>2. CASE S = {}
  BY <1>1, <1>2 DEF IsFold
<1>3. CASE S # {}
  <2> DEFINE T == S \ {Pick(S)}
  <2>1. T \in SUBSET S
    OBVIOUS
  <2>2. F(T)[T] = F(S)[T]
    BY <1>1, <2>1, FoldsAgree
  <2>3. F(S)[S] = h[Pick(S)] + F(S)[T]
    BY <1>1, <1>3 DEF IsFold
  <2>4. QED BY <1>1, <1>3, <2>1, <2>2, <2>3
<1>4. QED
  BY <1>2, <1>3

-----------------------------------------------------------------------------
(* What the models rest on. *)

\* The sum of nothing is nothing.
LEMMA SumEmpty == \A h : SumFunctionOnSet(h, {}) = 0
  BY SumUnfolds, FS_EmptySet

\* A sum of whole numbers is one.
LEMMA SumType ==
  ASSUME NEW S, IsFiniteSet(S), NEW h, \A x \in S : h[x] \in Int
  PROVE  SumFunctionOnSet(h, S) \in Int
<1> DEFINE Odd == {T \in SUBSET S : SumFunctionOnSet(h, T) \notin Int}
<1> SUFFICES ASSUME Odd # {} PROVE FALSE
  BY S \in SUBSET S
<1>1. Odd \subseteq FiniteSubsetsOf(S)
  BY FS_Subset DEF FiniteSubsetsOf
<1> HIDE DEF Odd
<1>2. PICK T \in Odd : \A U \in Odd : ~(U \subseteq T /\ U # T)
  BY <1>1, SmallestSet
<1> USE DEF Odd
<1>3. T # {}
  BY SumEmpty
<1>4. Pick(T) \in T /\ h[Pick(T)] \in Int
  BY <1>3 DEF Pick
<1>5. SumFunctionOnSet(h, T \ {Pick(T)}) \in Int
  BY <1>2, <1>4
<1>6. SumFunctionOnSet(h, T) = h[Pick(T)] + SumFunctionOnSet(h, T \ {Pick(T)})
  BY <1>3, SumUnfolds, FS_Subset
<1>7. QED
  BY <1>4, <1>5, <1>6

\* Any element may be taken out of a sum.
LEMMA SumWithout ==
  ASSUME NEW S, IsFiniteSet(S), NEW h, \A x \in S : h[x] \in Int, NEW x \in S
  PROVE  SumFunctionOnSet(h, S) = h[x] + SumFunctionOnSet(h, S \ {x})
<1> DEFINE Sum(T) == SumFunctionOnSet(h, T)
           Odd == {T \in SUBSET S : \E y \in T : Sum(T) # h[y] + Sum(T \ {y})}
<1> SUFFICES ASSUME Odd # {} PROVE FALSE
  BY S \in SUBSET S
<1>1. Odd \subseteq FiniteSubsetsOf(S)
  BY FS_Subset DEF FiniteSubsetsOf
<1> HIDE DEF Odd
<1>2. PICK T \in Odd : \A U \in Odd : ~(U \subseteq T /\ U # T)
  BY <1>1, SmallestSet
<1> USE DEF Odd
<1>3. \A U \in SUBSET T : Sum(U) \in Int /\ IsFiniteSet(U)
  BY FS_Subset, SumType
<1>4. PICK y \in T : Sum(T) # h[y] + Sum(T \ {y})
  OBVIOUS
<1> DEFINE p == Pick(T)
<1>5. p \in T
  BY <1>4 DEF Pick
<1>6. Sum(T) = h[p] + Sum(T \ {p})
  BY <1>3, <1>4, SumUnfolds
<1>7. y # p
  BY <1>4, <1>6
<1> HIDE DEF Sum, p
<1>a. \A U \in SUBSET T : U # T => \A z \in U : Sum(U) = h[z] + Sum(U \ {z})
  BY <1>2
<1>8. Sum(T \ {p}) = h[y] + Sum((T \ {p}) \ {y})
  <2>1. T \ {p} \in SUBSET T /\ T \ {p} # T /\ y \in T \ {p}
    BY <1>5, <1>7
  <2>2. QED BY <1>a, <2>1
<1>9. Sum(T \ {y}) = h[p] + Sum((T \ {y}) \ {p})
  <2>1. T \ {y} \in SUBSET T /\ T \ {y} # T /\ p \in T \ {y}
    BY <1>5, <1>7
  <2>2. QED BY <1>a, <2>1
<1>10. (T \ {p}) \ {y} = (T \ {y}) \ {p}
  OBVIOUS
<1>11. h[y] \in Int /\ h[p] \in Int /\ Sum((T \ {y}) \ {p}) \in Int
  BY <1>3, <1>4, <1>5
<1> DEFINE rest == Sum((T \ {y}) \ {p})
<1>b. /\ Sum(T) = h[p] + Sum(T \ {p}) /\ Sum(T \ {p}) = h[y] + rest
      /\ Sum(T \ {y}) = h[p] + rest
  BY <1>6, <1>8, <1>9, <1>10
<1> HIDE DEF rest
<1>c. rest \in Int /\ h[y] \in Int /\ h[p] \in Int
  BY <1>11 DEF rest
<1>d. h[p] + (h[y] + rest) = h[y] + (h[p] + rest)
  BY <1>c
<1>12. QED
  BY <1>4, <1>b, <1>d

\* An element may be added to a sum.
LEMMA SumWith ==
  ASSUME NEW S, IsFiniteSet(S), NEW x, x \notin S, NEW h, \A y \in S \cup {x} : h[y] \in Int
  PROVE  SumFunctionOnSet(h, S \cup {x}) = SumFunctionOnSet(h, S) + h[x]
<1>1. IsFiniteSet(S \cup {x}) /\ (S \cup {x}) \ {x} = S
  BY FS_AddElement
<1>2. SumFunctionOnSet(h, S) \in Int
  BY SumType
<1>3. QED
  BY <1>1, <1>2, SumWithout

\* A sum depends on nothing but what is summed.
LEMMA SumSame ==
  ASSUME NEW S, IsFiniteSet(S), NEW h, NEW g, \A x \in S : h[x] = g[x]
  PROVE  SumFunctionOnSet(h, S) = SumFunctionOnSet(g, S)
<1> DEFINE Odd == {T \in SUBSET S : SumFunctionOnSet(h, T) # SumFunctionOnSet(g, T)}
<1> SUFFICES ASSUME Odd # {} PROVE FALSE
  BY S \in SUBSET S
<1>1. Odd \subseteq FiniteSubsetsOf(S)
  BY FS_Subset DEF FiniteSubsetsOf
<1> HIDE DEF Odd
<1>2. PICK T \in Odd : \A U \in Odd : ~(U \subseteq T /\ U # T)
  BY <1>1, SmallestSet
<1> USE DEF Odd
<1>3. T # {}
  BY SumEmpty
<1>4. Pick(T) \in T
  BY <1>3 DEF Pick
<1>5. SumFunctionOnSet(h, T \ {Pick(T)}) = SumFunctionOnSet(g, T \ {Pick(T)}) /\ IsFiniteSet(T)
  BY <1>2, <1>4, FS_Subset
<1>6. QED
  BY <1>3, <1>4, <1>5, SumUnfolds

\* Where one element changes, the sum changes by as much.
THEOREM SumChanges ==
  ASSUME NEW S, IsFiniteSet(S), NEW x \in S, NEW h, NEW g,
         \A y \in S : h[y] \in Int /\ g[y] \in Int,
         \A y \in S \ {x} : g[y] = h[y]
  PROVE  SumFunctionOnSet(g, S) = SumFunctionOnSet(h, S) + (g[x] - h[x])
<1>1. SumFunctionOnSet(g, S) = g[x] + SumFunctionOnSet(g, S \ {x})
  BY SumWithout
<1>2. SumFunctionOnSet(h, S) = h[x] + SumFunctionOnSet(h, S \ {x})
  BY SumWithout
<1>3. IsFiniteSet(S \ {x})
  BY FS_Subset
<1>4. SumFunctionOnSet(g, S \ {x}) = SumFunctionOnSet(h, S \ {x})
  BY <1>3, SumSame
<1>5. SumFunctionOnSet(h, S \ {x}) \in Int
  BY <1>3, SumType
<1>6. QED
  BY <1>1, <1>2, <1>4, <1>5

\* The sum of two is the two sums.
LEMMA SumOfSums ==
  ASSUME NEW S, IsFiniteSet(S), NEW h, NEW g, NEW k,
         \A x \in S : h[x] \in Int /\ g[x] \in Int /\ k[x] = h[x] + g[x]
  PROVE  SumFunctionOnSet(k, S) = SumFunctionOnSet(h, S) + SumFunctionOnSet(g, S)
<1> DEFINE Odd == {T \in SUBSET S :
              SumFunctionOnSet(k, T) # SumFunctionOnSet(h, T) + SumFunctionOnSet(g, T)}
<1> SUFFICES ASSUME Odd # {} PROVE FALSE
  BY S \in SUBSET S
<1>1. Odd \subseteq FiniteSubsetsOf(S)
  BY FS_Subset DEF FiniteSubsetsOf
<1> HIDE DEF Odd
<1>2. PICK T \in Odd : \A U \in Odd : ~(U \subseteq T /\ U # T)
  BY <1>1, SmallestSet
<1> USE DEF Odd
<1>3. T # {}
  <2>1. SumFunctionOnSet(k, {}) = 0 /\ SumFunctionOnSet(h, {}) = 0 /\ SumFunctionOnSet(g, {}) = 0
    BY SumEmpty
  <2>2. SumFunctionOnSet(k, T) # SumFunctionOnSet(h, T) + SumFunctionOnSet(g, T)
    OBVIOUS
  <2> HIDE DEF Odd
  <2>3. ASSUME T = {} PROVE FALSE
    <3>1. 0 # 0 + 0
      BY <2>1, <2>2, <2>3, Zenon
    <3>2. QED BY <3>1
  <2>4. QED BY <2>3
<1>4. Pick(T) \in T
  BY <1>3 DEF Pick
<1>5. IsFiniteSet(T) /\ IsFiniteSet(T \ {Pick(T)})
  BY FS_Subset
<1>6. SumFunctionOnSet(h, T \ {Pick(T)}) \in Int /\ SumFunctionOnSet(g, T \ {Pick(T)}) \in Int
  BY <1>5, SumType
<1>7. SumFunctionOnSet(k, T \ {Pick(T)}) =
        SumFunctionOnSet(h, T \ {Pick(T)}) + SumFunctionOnSet(g, T \ {Pick(T)})
  BY <1>2, <1>4
<1>8. /\ SumFunctionOnSet(k, T) = k[Pick(T)] + SumFunctionOnSet(k, T \ {Pick(T)})
      /\ SumFunctionOnSet(h, T) = h[Pick(T)] + SumFunctionOnSet(h, T \ {Pick(T)})
      /\ SumFunctionOnSet(g, T) = g[Pick(T)] + SumFunctionOnSet(g, T \ {Pick(T)})
  BY <1>3, <1>5, SumUnfolds
<1>9. h[Pick(T)] \in Int /\ g[Pick(T)] \in Int /\ k[Pick(T)] = h[Pick(T)] + g[Pick(T)]
  BY <1>4
<1>10. SumFunctionOnSet(k, T) = SumFunctionOnSet(h, T) + SumFunctionOnSet(g, T)
  BY <1>6, <1>7, <1>8, <1>9
<1>11. QED
  BY <1>10

\* A sum of nothings is nothing.
LEMMA SumOfZeros ==
  ASSUME NEW S, IsFiniteSet(S), NEW h, \A x \in S : h[x] = 0
  PROVE  SumFunctionOnSet(h, S) = 0
<1>1. \A x \in S : h[x] \in Int /\ h[x] = h[x] + h[x]
  OBVIOUS
<1>2. SumFunctionOnSet(h, S) = SumFunctionOnSet(h, S) + SumFunctionOnSet(h, S)
  BY <1>1, SumOfSums
<1>3. SumFunctionOnSet(h, S) \in Int
  BY <1>1, SumType
<1>4. \A n \in Int : n = n + n => n = 0
  OBVIOUS
<1>5. QED
  BY <1>2, <1>3, <1>4

\* Where nothing is below zero, nothing exceeds the sum, and the sum is not below zero.
LEMMA SumIsMost ==
  ASSUME NEW S, IsFiniteSet(S), NEW h, \A x \in S : h[x] \in Nat
  PROVE  /\ SumFunctionOnSet(h, S) \in Nat
         /\ \A x \in S : h[x] <= SumFunctionOnSet(h, S)
<1> DEFINE Odd == {T \in SUBSET S : SumFunctionOnSet(h, T) \notin Nat}
<1>1. Odd = {}
  <2> SUFFICES ASSUME Odd # {} PROVE FALSE
    OBVIOUS
  <2>1. Odd \subseteq FiniteSubsetsOf(S)
    BY FS_Subset DEF FiniteSubsetsOf
  <2> HIDE DEF Odd
  <2>2. PICK T \in Odd : \A U \in Odd : ~(U \subseteq T /\ U # T)
    BY <2>1, SmallestSet
  <2> USE DEF Odd
  <2>3. T # {}
    BY SumEmpty
  <2>4. Pick(T) \in T /\ IsFiniteSet(T)
    BY <2>3, FS_Subset DEF Pick
  <2>5. SumFunctionOnSet(h, T \ {Pick(T)}) \in Nat
    BY <2>2, <2>4
  <2>6. QED
    BY <2>3, <2>4, <2>5, SumUnfolds
<1>2. ASSUME NEW x \in S PROVE h[x] <= SumFunctionOnSet(h, S)
  <2>1. SumFunctionOnSet(h, S \ {x}) \in Nat
    BY <1>1
  <2>2. QED
    BY <2>1, SumWithout
<1>3. QED
  BY <1>1, <1>2

\* What is not counted may be counted as nothing.
LEMMA SumOfSome ==
  ASSUME NEW S, IsFiniteSet(S), NEW T, T \subseteq S, NEW h, NEW g,
         \A x \in T : h[x] \in Int,
         \A x \in S : g[x] = IF x \in T THEN h[x] ELSE 0
  PROVE  SumFunctionOnSet(h, T) = SumFunctionOnSet(g, S)
<1> DEFINE Odd == {U \in SUBSET S : SumFunctionOnSet(g, U) # SumFunctionOnSet(h, T \cap U)}
<1>1. Odd = {}
  <2> SUFFICES ASSUME Odd # {} PROVE FALSE
    OBVIOUS
  <2>1. Odd \subseteq FiniteSubsetsOf(S)
    BY FS_Subset DEF FiniteSubsetsOf
  <2> HIDE DEF Odd
  <2>2. PICK U \in Odd : \A V \in Odd : ~(V \subseteq U /\ V # U)
    BY <2>1, SmallestSet
  <2> USE DEF Odd
  <2>3. U # {}
    <3>1. T \cap {} = {}
      OBVIOUS
    <3> QED
      BY <3>1, SumEmpty
  <2> DEFINE x == Pick(U)
             V == U \ {x}
  <2>4. x \in U /\ x \in S
    BY <2>3 DEF Pick
  <2>5. SumFunctionOnSet(g, V) = SumFunctionOnSet(h, T \cap V)
    BY <2>2, <2>4
  <2>6. IsFiniteSet(U) /\ IsFiniteSet(V) /\ IsFiniteSet(T \cap U) /\ IsFiniteSet(T \cap V)
    BY FS_Subset
  <2>7. SumFunctionOnSet(g, U) = g[x] + SumFunctionOnSet(g, V)
    BY <2>3, <2>6, SumUnfolds
  <2>8. SumFunctionOnSet(h, T \cap V) \in Int
    <3>1. \A y \in T \cap V : h[y] \in Int
      OBVIOUS
    <3> QED
      BY <2>6, <3>1, SumType
  <2>9. CASE x \in T
    <3>1. (T \cap U) \ {x} = T \cap V /\ x \in T \cap U /\ \A y \in T \cap U : h[y] \in Int
      BY <2>4, <2>9
    <3>2. SumFunctionOnSet(h, T \cap U) = h[x] + SumFunctionOnSet(h, (T \cap U) \ {x})
      BY <2>6, <3>1, SumWithout
    <3>3. g[x] = h[x]
      BY <2>4, <2>9
    <3> QED
      BY <2>5, <2>7, <3>1, <3>2, <3>3
  <2>10. CASE x \notin T
    <3>1. T \cap U = T \cap V /\ g[x] = 0
      BY <2>4, <2>10
    <3>2. SumFunctionOnSet(h, T \cap U) = SumFunctionOnSet(h, T \cap V)
      BY <3>1, Zenon
    <3>3. SumFunctionOnSet(g, V) \in Int
      BY <2>5, <2>8
    <3>4. SumFunctionOnSet(g, U) = SumFunctionOnSet(g, V)
      BY <2>7, <3>1, <3>3
    <3> QED
      BY <2>5, <3>2, <3>4
  <2> QED
    BY <2>9, <2>10
<1>2. T \cap S = T /\ S \in SUBSET S
  OBVIOUS
<1> QED
  BY <1>1, <1>2

\* Two sets that share nothing are summed one after the other.
LEMMA SumOfBoth ==
  ASSUME NEW S, IsFiniteSet(S), NEW T, IsFiniteSet(T), S \cap T = {},
         NEW h, \A x \in S \cup T : h[x] \in Int
  PROVE  SumFunctionOnSet(h, S \cup T) = SumFunctionOnSet(h, S) + SumFunctionOnSet(h, T)
<1> DEFINE U == S \cup T
           f == [x \in U |-> IF x \in S THEN h[x] ELSE 0]
           g == [x \in U |-> IF x \in T THEN h[x] ELSE 0]
<1>1. IsFiniteSet(U) /\ S \subseteq U /\ T \subseteq U
  BY FS_Union
<1>2. \A x \in U : f[x] \in Int /\ g[x] \in Int /\ h[x] = f[x] + g[x]
  OBVIOUS
<1>3. \A x \in S : h[x] \in Int
  OBVIOUS
<1>4. \A x \in T : h[x] \in Int
  OBVIOUS
<1>5. \A x \in U : f[x] = IF x \in S THEN h[x] ELSE 0
  OBVIOUS
<1>6. \A x \in U : g[x] = IF x \in T THEN h[x] ELSE 0
  OBVIOUS
<1> HIDE DEF U, f, g
<1>7. SumFunctionOnSet(h, S) = SumFunctionOnSet(f, U)
  BY <1>1, <1>3, <1>5, SumOfSome
<1>8. SumFunctionOnSet(h, T) = SumFunctionOnSet(g, U)
  BY <1>1, <1>4, <1>6, SumOfSome
<1>9. SumFunctionOnSet(h, U) = SumFunctionOnSet(f, U) + SumFunctionOnSet(g, U)
  BY <1>1, <1>2, SumOfSums
<1> QED
  BY <1>7, <1>8, <1>9 DEF U

\* The part of a set that a key says belongs to b.
Keyed(S, k, b) == {x \in S : k[x] = b}

\* A sum may be taken part by part.
LEMMA SumByParts ==
  ASSUME NEW S, IsFiniteSet(S), NEW B, IsFiniteSet(B), NEW h, NEW k, NEW g,
         \A x \in S : h[x] \in Int /\ k[x] \in B,
         \A b \in B : g[b] = SumFunctionOnSet(h, Keyed(S, k, b))
  PROVE  SumFunctionOnSet(h, S) = SumFunctionOnSet(g, B)
<1> DEFINE Part(U) == [b \in B |-> SumFunctionOnSet(h, {x \in U : k[x] = b})]
           Odd == {U \in SUBSET S : SumFunctionOnSet(h, U) # SumFunctionOnSet(Part(U), B)}
<1>1. \A U \in SUBSET S : /\ IsFiniteSet(U) /\ \A b \in B : Part(U)[b] \in Int
                          /\ \A b \in B : Part(U)[b] = SumFunctionOnSet(h, {x \in U : k[x] = b})
  <2> SUFFICES ASSUME NEW U \in SUBSET S, NEW b \in B
               PROVE  IsFiniteSet(U) /\ SumFunctionOnSet(h, {x \in U : k[x] = b}) \in Int
    BY FS_Subset
  <2>1. IsFiniteSet(U) /\ IsFiniteSet({x \in U : k[x] = b})
    BY FS_Subset
  <2>2. \A y \in {x \in U : k[x] = b} : h[y] \in Int
    OBVIOUS
  <2> QED
    BY <2>1, <2>2, SumType
<1>2. Odd = {}
  <2> SUFFICES ASSUME Odd # {} PROVE FALSE
    OBVIOUS
  <2>1. Odd \subseteq FiniteSubsetsOf(S)
    BY FS_Subset DEF FiniteSubsetsOf
  <2> HIDE DEF Odd
  <2>2. PICK U \in Odd : \A V \in Odd : ~(V \subseteq U /\ V # U)
    BY <2>1, SmallestSet
  <2> USE DEF Odd
  <2>3. U # {}
    <3> SUFFICES ASSUME U = {} PROVE FALSE
      OBVIOUS
    <3>1. \A b \in B : {x \in U : k[x] = b} = {}
      OBVIOUS
    <3>2. \A b \in B : Part(U)[b] = 0
      BY <3>1, SumEmpty
    <3> HIDE DEF Part
    <3>3. SumFunctionOnSet(Part(U), B) = 0 /\ SumFunctionOnSet(h, U) = 0
      BY <3>2, SumOfZeros, SumEmpty
    <3>4. SumFunctionOnSet(h, U) # SumFunctionOnSet(Part(U), B)
      BY <2>2
    <3> QED
      BY <3>3, <3>4
  <2> DEFINE x == Pick(U)
             V == U \ {x}
  <2>4. x \in U /\ x \in S /\ h[x] \in Int /\ k[x] \in B
    BY <2>3 DEF Pick
  <2>5. SumFunctionOnSet(h, V) = SumFunctionOnSet(Part(V), B) /\ V \in SUBSET S
    BY <2>2, <2>4
  <2>6. SumFunctionOnSet(h, U) = h[x] + SumFunctionOnSet(h, V)
    BY <1>1, <2>3, SumUnfolds
  <2>7. \A b \in B \ {k[x]} : Part(U)[b] = Part(V)[b]
    <3> SUFFICES ASSUME NEW b \in B, b # k[x] PROVE {y \in U : k[y] = b} = {y \in V : k[y] = b}
      BY <1>1, <2>5
    <3> QED
      OBVIOUS
  <2>8. Part(U)[k[x]] = h[x] + Part(V)[k[x]]
    <3> DEFINE Q == {y \in U : k[y] = k[x]}
    <3>1. Q \ {x} = {y \in V : k[y] = k[x]} /\ x \in Q /\ IsFiniteSet(Q) /\ \A y \in Q : h[y] \in Int
      BY <1>1, <2>4, FS_Subset
    <3>2. SumFunctionOnSet(h, Q) = h[x] + SumFunctionOnSet(h, Q \ {x})
      BY <3>1, SumWithout
    <3> QED
      BY <1>1, <2>4, <2>5, <3>1, <3>2
  <2>9. \A b \in B : Part(V)[b] \in Int /\ Part(U)[b] \in Int
    BY <1>1, <2>5
  <2> HIDE DEF Part, x, V
  <2>10. SumFunctionOnSet(Part(U), B) = SumFunctionOnSet(Part(V), B) + (Part(U)[k[x]] - Part(V)[k[x]])
    BY <2>4, <2>7, <2>9, SumChanges
  <2>11. SumFunctionOnSet(Part(V), B) \in Int
    BY <2>9, SumType
  <2>12. SumFunctionOnSet(h, U) = SumFunctionOnSet(Part(U), B)
    BY <2>4, <2>5, <2>6, <2>8, <2>9, <2>10, <2>11
  <2> QED
    BY <2>2, <2>12
<1>3. SumFunctionOnSet(h, S) = SumFunctionOnSet(Part(S), B)
  BY <1>2
<1>4. \A b \in B : Part(S)[b] = g[b]
  BY <1>1 DEF Keyed
<1> HIDE DEF Part
<1> QED
  BY <1>3, <1>4, SumSame

\* A sum of so many times as much is so many times the sum.
LEMMA SumScaled ==
  ASSUME NEW S, IsFiniteSet(S), NEW c \in Int, NEW h, NEW g,
         \A x \in S : h[x] \in Int /\ g[x] = c * h[x]
  PROVE  SumFunctionOnSet(g, S) = c * SumFunctionOnSet(h, S)
<1> DEFINE Odd == {T \in SUBSET S : SumFunctionOnSet(g, T) # c * SumFunctionOnSet(h, T)}
<1> SUFFICES ASSUME Odd # {} PROVE FALSE
  BY S \in SUBSET S
<1>1. Odd \subseteq FiniteSubsetsOf(S)
  BY FS_Subset DEF FiniteSubsetsOf
<1> HIDE DEF Odd
<1>2. PICK T \in Odd : \A U \in Odd : ~(U \subseteq T /\ U # T)
  BY <1>1, SmallestSet
<1> USE DEF Odd
<1>3. T # {}
  <2>1. c * 0 = 0
    OBVIOUS
  <2>2. QED BY <1>2, <2>1, SumEmpty
<1> DEFINE p == Pick(T)
           rest == SumFunctionOnSet(h, T \ {p})
<1>4. p \in T /\ IsFiniteSet(T) /\ T \subseteq S
  BY <1>3, FS_Subset DEF Pick
<1>5. SumFunctionOnSet(g, T \ {p}) = c * rest
  BY <1>2, <1>4
<1>6. SumFunctionOnSet(h, T) = h[p] + rest
  BY <1>3, <1>4, SumUnfolds
<1>7. SumFunctionOnSet(g, T) = g[p] + c * rest
  BY <1>3, <1>4, <1>5, SumUnfolds
<1>8. IsFiniteSet(T \ {p}) /\ \A x \in T \ {p} : h[x] \in Int
  BY <1>4, FS_Subset
<1>9. rest \in Int /\ h[p] \in Int /\ g[p] = c * h[p]
  BY <1>4, <1>8, SumType
<1>10. SumFunctionOnSet(g, T) # c * SumFunctionOnSet(h, T)
  BY <1>2
<1> HIDE DEF p, rest
<1>11. c * h[p] + c * rest = c * (h[p] + rest)
  BY <1>9
<1>12. QED
  BY <1>6, <1>7, <1>9, <1>10, <1>11

\* Ones summed count.
LEMMA SumOfOnes ==
  ASSUME NEW S, IsFiniteSet(S), NEW T, T \subseteq S, NEW g,
         \A x \in S : g[x] = IF x \in T THEN 1 ELSE 0
  PROVE  SumFunctionOnSet(g, S) = Cardinality(T)
<1> DEFINE Odd == {U \in SUBSET S : SumFunctionOnSet(g, U) # Cardinality(T \cap U)}
<1>1. SUFFICES ASSUME Odd # {} PROVE FALSE
  <2>1. T \cap S = T
    OBVIOUS
  <2>2. QED BY <2>1
<1>2. Odd \subseteq FiniteSubsetsOf(S)
  BY FS_Subset DEF FiniteSubsetsOf
<1> HIDE DEF Odd
<1>3. PICK U \in Odd : \A V \in Odd : ~(V \subseteq U /\ V # U)
  BY <1>1, <1>2, SmallestSet
<1> USE DEF Odd
<1>4. U # {}
  <2>1. T \cap {} = {}
    OBVIOUS
  <2>2. QED BY <1>3, <2>1, SumEmpty, FS_EmptySet
<1> DEFINE p == Pick(U)
           less == U \ {p}
<1>5. p \in U /\ IsFiniteSet(U) /\ U \subseteq S
  BY <1>4, FS_Subset DEF Pick
<1>6. SumFunctionOnSet(g, less) = Cardinality(T \cap less)
  BY <1>3, <1>5
<1>7. SumFunctionOnSet(g, U) = g[p] + Cardinality(T \cap less)
  BY <1>4, <1>5, <1>6, SumUnfolds
<1>8. IsFiniteSet(T \cap less) /\ Cardinality(T \cap less) \in Nat
  BY <1>5, FS_Subset, FS_CardinalityType
<1>9. Cardinality(T \cap U) = g[p] + Cardinality(T \cap less)
  <2>1. CASE p \in T
    <3>1. T \cap U = (T \cap less) \cup {p} /\ p \notin T \cap less /\ g[p] = 1
      BY <1>5, <2>1
    <3>2. Cardinality(T \cap U) = Cardinality(T \cap less) + 1
      <4> HIDE DEF less, p
      <4> QED BY <1>8, <3>1, FS_AddElement
    <3>3. QED
      <4> HIDE DEF less, p
      <4> QED BY <1>8, <3>1, <3>2
  <2>2. CASE p \notin T
    <3>1. T \cap U = T \cap less /\ g[p] = 0
      BY <1>5, <2>2
    <3>2. Cardinality(T \cap U) = Cardinality(T \cap less)
      BY <3>1
    <3>3. QED
      <4> HIDE DEF less, p
      <4> QED BY <1>8, <3>1, <3>2
  <2>3. QED BY <2>1, <2>2
<1>10. QED
  BY <1>3, <1>7, <1>9

\* What is no more anywhere comes to no more.
LEMMA SumNoMore ==
  ASSUME NEW S, IsFiniteSet(S), NEW h, NEW g,
         \A x \in S : h[x] \in Int /\ g[x] \in Int /\ h[x] <= g[x]
  PROVE  SumFunctionOnSet(h, S) <= SumFunctionOnSet(g, S)
<1> DEFINE k == [x \in S |-> g[x] - h[x]]
<1>1. \A x \in S : k[x] \in Nat /\ h[x] \in Int /\ g[x] = h[x] + k[x] /\ k[x] \in Int
  OBVIOUS
<1> HIDE DEF k
<1>2. SumFunctionOnSet(k, S) \in Nat
  BY <1>1, SumIsMost
<1>3. SumFunctionOnSet(g, S) = SumFunctionOnSet(h, S) + SumFunctionOnSet(k, S)
  BY <1>1, SumOfSums
<1>4. SumFunctionOnSet(h, S) \in Int
  BY <1>1, SumType
<1>5. QED
  BY <1>2, <1>3, <1>4

-----------------------------------------------------------------------------
(* What comes first of a finite set, in an order given as a set of pairs.  *)

TotalOrder(R, S) ==
  /\ \A i \in S : <<i, i>> \notin R
  /\ \A i, j \in S : i = j \/ <<i, j>> \in R \/ <<j, i>> \in R
  /\ \A i, j, k \in S : <<i, j>> \in R /\ <<j, k>> \in R => <<i, k>> \in R

Ahead(R, S, i) == {j \in S : <<j, i>> \in R}
FirstFew(R, S, n) == {i \in S : Cardinality(Ahead(R, S, i)) < n}

\* A finite set that is not empty has one that is first.
LEMMA FirstThere ==
  ASSUME NEW R, NEW S, IsFiniteSet(S), TotalOrder(R, S), NEW T \in SUBSET S, T # {}
  PROVE  \E i \in T : \A j \in T \ {i} : <<i, j>> \in R
<1> DEFINE F == {Ahead(R, S, i) : i \in T}
<1>1. F \subseteq FiniteSubsetsOf(S) /\ F # {}
  <2>1. \A i \in T : Ahead(R, S, i) \in SUBSET S /\ IsFiniteSet(Ahead(R, S, i))
    BY FS_Subset DEF Ahead
  <2>2. QED
    BY <2>1 DEF FiniteSubsetsOf
<1> HIDE DEF F
<1>2. PICK A \in F : \A U \in F : ~(U \subseteq A /\ U # A)
  BY <1>1, SmallestSet
<1> USE DEF F
<1>3. PICK i \in T : A = Ahead(R, S, i)
  BY <1>2
<1>4. ASSUME NEW j \in T, <<j, i>> \in R PROVE FALSE
  <2>1. Ahead(R, S, j) \subseteq A
    BY <1>3, <1>4 DEF Ahead, TotalOrder
  <2>2. j \in A /\ j \notin Ahead(R, S, j)
    BY <1>3, <1>4 DEF Ahead, TotalOrder
  <2>3. QED
    BY <1>2, <2>1, <2>2
<1>5. QED
  BY <1>4 DEF TotalOrder

\* And one that is last.
LEMMA LastThere ==
  ASSUME NEW R, NEW S, IsFiniteSet(S), TotalOrder(R, S), NEW T \in SUBSET S, T # {}
  PROVE  \E i \in T : \A j \in T \ {i} : <<j, i>> \in R
<1> DEFINE Q == {p \in S \X S : <<p[2], p[1]>> \in R}
<1>1. \A i, j \in S : <<i, j>> \in Q <=> <<j, i>> \in R
  OBVIOUS
<1> HIDE DEF Q
<1>2. TotalOrder(Q, S)
  BY <1>1 DEF TotalOrder
<1>3. QED
  BY <1>1, <1>2, FirstThere

\* Whoever is left out of a page comes after all of it, and the page is full.
LEMMA LeftOut ==
  ASSUME NEW R, NEW S, IsFiniteSet(S), TotalOrder(R, S), NEW n \in Nat \ {0},
         NEW i \in S, i \notin FirstFew(R, S, n)
  PROVE  /\ \A j \in FirstFew(R, S, n) : <<j, i>> \in R
         /\ Cardinality(FirstFew(R, S, n)) = n
<1> DEFINE few == FirstFew(R, S, n)
<1>1. \A j \in S : IsFiniteSet(Ahead(R, S, j)) /\ Cardinality(Ahead(R, S, j)) \in Nat
  BY FS_Subset, FS_CardinalityType DEF Ahead
<1>2. ASSUME NEW j \in few, NEW k \in S \ few PROVE <<j, k>> \in R
  <2>1. SUFFICES ASSUME <<k, j>> \in R PROVE FALSE
    BY <1>2 DEF TotalOrder, FirstFew
  <2>2. Ahead(R, S, k) \subseteq Ahead(R, S, j)
    BY <2>1, <1>2 DEF Ahead, TotalOrder, FirstFew
  <2>3. Cardinality(Ahead(R, S, k)) <= Cardinality(Ahead(R, S, j))
    BY <1>1, <1>2, <2>2, FS_Subset DEF FirstFew
  <2>4. Cardinality(Ahead(R, S, j)) < n /\ ~(Cardinality(Ahead(R, S, k)) < n)
    BY <1>2 DEF FirstFew
  <2>5. QED
    BY <1>1, <1>2, <2>3, <2>4 DEF FirstFew
<1>3. PICK m \in S \ few : \A k \in (S \ few) \ {m} : <<m, k>> \in R
  <2> DEFINE left == S \ few
  <2>1. left \in SUBSET S /\ left # {}
    OBVIOUS
  <2> HIDE DEF left
  <2>2. QED
    <3>1. \E m \in left : \A k \in left \ {m} : <<m, k>> \in R
      BY <2>1, FirstThere
    <3>2. QED
      BY <3>1 DEF left
<1>4. Ahead(R, S, m) = few
  <2>1. few \subseteq Ahead(R, S, m)
    BY <1>2 DEF Ahead, FirstFew
  <2>2. ASSUME NEW k \in Ahead(R, S, m), k \notin few PROVE FALSE
    BY <1>3, <2>2 DEF Ahead, TotalOrder
  <2>3. QED
    BY <2>1, <2>2
<1>5. few \in SUBSET S /\ IsFiniteSet(few) /\ Cardinality(few) \in Nat
  BY FS_Subset, FS_CardinalityType DEF FirstFew
<1>6. ~(Cardinality(few) < n)
  BY <1>3, <1>4 DEF FirstFew
<1>7. few # {}
  BY <1>6, FS_EmptySet
<1>8. PICK l \in few : \A k \in few \ {l} : <<k, l>> \in R
  BY <1>5, <1>7, LastThere
<1>9. few \ {l} \subseteq Ahead(R, S, l)
  BY <1>5, <1>8 DEF Ahead
<1>10. Cardinality(few \ {l}) = Cardinality(few) - 1
  BY <1>5, FS_RemoveElement
<1>11. Cardinality(few \ {l}) <= Cardinality(Ahead(R, S, l))
  BY <1>1, <1>5, <1>9, FS_Subset
<1>12. Cardinality(Ahead(R, S, l)) < n
  BY <1>8 DEF FirstFew
<1>13. Cardinality(few) = n
  BY <1>1, <1>5, <1>6, <1>10, <1>11, <1>12
<1>14. QED
  BY <1>2, <1>13

\* The first so many are that many, when there are.
LEMMA FirstFewAre ==
  ASSUME NEW R, NEW S, IsFiniteSet(S), TotalOrder(R, S), NEW n \in Nat, n <= Cardinality(S)
  PROVE  Cardinality(FirstFew(R, S, n)) = n
<1> DEFINE few == FirstFew(R, S, n)
<1>1. \A j \in S : IsFiniteSet(Ahead(R, S, j)) /\ Cardinality(Ahead(R, S, j)) \in Nat
  BY FS_Subset, FS_CardinalityType DEF Ahead
<1>2. CASE n = 0
  <2>1. few = {}
    BY <1>1, <1>2 DEF FirstFew
  <2>2. QED BY <1>2, <2>1, FS_EmptySet
<1>3. CASE n # 0 /\ \E i \in S : i \notin few
  BY <1>3, LeftOut
<1>4. CASE n # 0 /\ \A i \in S : i \in few
  <2>1. few = S
    BY <1>4 DEF FirstFew
  <2>2. S # {} /\ Cardinality(S) \in Nat
    BY <1>4, FS_EmptySet, FS_CardinalityType
  <2>3. PICK l \in S : \A k \in S \ {l} : <<k, l>> \in R
    <3>1. S \in SUBSET S
      OBVIOUS
    <3>2. QED BY <2>2, <3>1, LastThere
  <2>4. S \ {l} \subseteq Ahead(R, S, l)
    BY <2>3 DEF Ahead
  <2>5. Cardinality(S \ {l}) = Cardinality(S) - 1
    BY FS_RemoveElement
  <2>6. Cardinality(S \ {l}) <= Cardinality(Ahead(R, S, l))
    BY <1>1, <2>4, FS_Subset
  <2>7. Cardinality(Ahead(R, S, l)) < n
    BY <2>1 DEF FirstFew
  <2>8. QED
    BY <1>1, <2>1, <2>2, <2>5, <2>6, <2>7
<1>5. QED
  BY <1>2, <1>3, <1>4

\* A quotient and what is left over.
LEMMA QuotientAndRest ==
  ASSUME NEW n \in Int, NEW d \in Nat \ {0}
  PROVE  n \div d \in Int /\ n % d \in Nat /\ n % d < d /\ n = d * (n \div d) + (n % d)
OBVIOUS

\* The sum over one is that one.
LEMMA SumOfOne ==
  ASSUME NEW x, NEW h, h[x] \in Int
  PROVE  SumFunctionOnSet(h, {x}) = h[x]
<1>1. {x} \ {x} = {} /\ IsFiniteSet({x})
  BY FS_Singleton
<1>2. SumFunctionOnSet(h, {x}) = h[x] + SumFunctionOnSet(h, {x} \ {x})
  BY <1>1, SumWithout
<1>3. QED
  BY <1>1, <1>2, SumEmpty

\* What one summand loses and another gains leaves the sum as it was.
LEMMA SumStays ==
  ASSUME NEW S, IsFiniteSet(S), NEW a \in S, NEW b \in S, a # b, NEW x \in Int, NEW h, NEW g,
         \A y \in S : h[y] \in Int /\ g[y] \in Int,
         g[a] = h[a] - x, g[b] = h[b] + x, \A y \in S \ {a, b} : g[y] = h[y]
  PROVE  SumFunctionOnSet(g, S) = SumFunctionOnSet(h, S)
<1> DEFINE m == [y \in S |-> IF y = a THEN g[y] ELSE h[y]]
<1>1. /\ \A y \in S : m[y] \in Int
      /\ m[a] = g[a] /\ m[b] = h[b]
      /\ \A y \in S \ {a} : m[y] = h[y]
      /\ \A y \in S \ {b} : g[y] = m[y]
  OBVIOUS
<1> HIDE DEF m
<1>2. SumFunctionOnSet(m, S) = SumFunctionOnSet(h, S) + (m[a] - h[a])
  BY <1>1, SumChanges
<1>3. SumFunctionOnSet(g, S) = SumFunctionOnSet(m, S) + (g[b] - m[b])
  BY <1>1, SumChanges
<1>4. SumFunctionOnSet(h, S) \in Int
  BY SumType
<1>5. QED
  BY <1>1, <1>2, <1>3, <1>4

\* What stands in a table, column by column.
LEMMA SumByColumns ==
  ASSUME NEW A, IsFiniteSet(A), NEW B, IsFiniteSet(B), NEW K, K = A \X B, NEW h, \A k \in K : h[k] \in Int,
         NEW column, \A b \in B, a \in A : column[b][a] = h[<<a, b>>],
         NEW g, \A b \in B : g[b] = SumFunctionOnSet(column[b], A)
  PROVE  SumFunctionOnSet(h, K) = SumFunctionOnSet(g, B)
<1> DEFINE columnOf == [k \in K |-> k[2]]
           rowOf == [k \in K |-> k[1]]
<1>1. IsFiniteSet(K) /\ \A k \in K : h[k] \in Int /\ columnOf[k] \in B /\ rowOf[k] \in A
  BY FS_Product
<1>2. ASSUME NEW b \in B PROVE g[b] = SumFunctionOnSet(h, Keyed(K, columnOf, b))
  <2> DEFINE cells == Keyed(K, columnOf, b)
             summands == column[b]
  <2>0. cells \subseteq K
    BY DEF Keyed
  <2>1. IsFiniteSet(cells)
    BY <1>1, <2>0, FS_Subset
  <2>2. ASSUME NEW a \in A PROVE summands[a] = SumFunctionOnSet(h, Keyed(cells, rowOf, a))
    <3> DEFINE k == <<a, b>>
    <3>1. Keyed(cells, rowOf, a) = {k}
      BY DEF Keyed
    <3>2. h[k] \in Int /\ summands[a] = h[k]
      OBVIOUS
    <3> HIDE DEF k
    <3>3. SumFunctionOnSet(h, {k}) = h[k]
      BY <3>2, SumOfOne
    <3>4. QED
      BY <3>1, <3>2, <3>3
  <2>3. \A k \in cells : h[k] \in Int /\ rowOf[k] \in A
    BY <1>1, <2>0
  <2>4. \A a \in A : summands[a] = SumFunctionOnSet(h, Keyed(cells, rowOf, a))
    BY <2>2
  <2> HIDE DEF cells, rowOf, summands
  <2>5. SumFunctionOnSet(h, cells) = SumFunctionOnSet(summands, A)
    BY ONLY <2>1, <2>3, <2>4, SumByParts, IsFiniteSet(A)
  <2>6. QED
    BY <2>5 DEF cells, summands
<1>3. \A b \in B : g[b] = SumFunctionOnSet(h, Keyed(K, columnOf, b))
  BY <1>2
<1> HIDE DEF columnOf, rowOf
<1>4. QED
  BY ONLY <1>1, <1>3, SumByParts, IsFiniteSet(B)

\* Something is the most of a finite set.
LEMMA MostThere ==
  ASSUME NEW S, IsFiniteSet(S), S # {}, NEW f \in [S -> Int]
  PROVE  \E x \in S : \A y \in S : f[y] <= f[x]
<1> DEFINE F == {T \in SUBSET S : T # {} /\ ~\E x \in T : \A y \in T : f[y] <= f[x]}
<1>1. SUFFICES ASSUME F # {} PROVE FALSE
  BY S \in SUBSET S
<1>2. F \subseteq FiniteSubsetsOf(S)
  BY FS_Subset DEF FiniteSubsetsOf
<1> HIDE DEF F
<1>3. PICK T \in F : \A U \in F : ~(U \subseteq T /\ U # T)
  BY <1>1, <1>2, SmallestSet
<1> USE DEF F
<1>4. PICK a \in T : TRUE
  BY <1>3
<1> DEFINE U == T \ {a}
<1>5. U \in SUBSET S /\ U # T /\ U \subseteq T
  BY <1>4
<1>6. CASE U = {}
  BY <1>4, <1>6
<1>7. CASE U # {}
  <2>1. PICK b \in U : \A y \in U : f[y] <= f[b]
    BY <1>3, <1>5, <1>7
  <2>2. T \in SUBSET S /\ ~\E x \in T : \A y \in T : f[y] <= f[x]
    BY <1>3
  <2>3. CASE f[a] <= f[b]
    BY <2>1, <2>2, <2>3, <1>4
  <2>4. CASE ~(f[a] <= f[b])
    <3>1. \A y \in T : f[y] \in Int
      BY <2>2
    <3>2. \A y \in U : f[y] <= f[a]
      BY <2>1, <2>4, <3>1, <1>4
    <3>3. \A y \in T : f[y] <= f[a]
      BY <3>1, <3>2, <1>4
    <3>4. QED
      BY <2>2, <3>3, <1>4
  <2>5. QED
    BY <2>3, <2>4
<1>8. QED
  BY <1>6, <1>7

=============================================================================
