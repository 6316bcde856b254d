------------------------- MODULE DriverBudgetProofs -------------------------
(***************************************************************************)
(* The byte budgets and the queue bounds: BudgetInv of DriverFlow is       *)
(* inductive, for any number of senders and messages and every size.  A    *)
(* budget is a sum over the holders of permits, and what a sum is cannot   *)
(* be read off its definition, which folds in an order nobody chose: the   *)
(* first part shows, by induction on the size of sets, that a sum follows  *)
(* its elements.  The second part follows the permits.                     *)
(***************************************************************************)
EXTENDS DriverFlowProofs, WellFoundedInduction

-----------------------------------------------------------------------------
(* Induction                                                               *)

\* Every set of numbers has a least one.
LEMMA LeastNumber ==
    ASSUME NEW T \in SUBSET Nat, T # {}
    PROVE  \E n \in T : \A m \in T : ~(m < n)
<1>1. \E n \in T : \A m \in T : ~ (<<m, n>> \in OpToRel(<, Nat))
  BY NatLessThanWellFounded, WFMin, Zenon
<1>2. QED
  BY <1>1 DEF OpToRel

\* So what holds of 0 and passes from n to n + 1 holds of every number, if what
\* holds is written as a set.
LEMMA SetInduction ==
    ASSUME NEW T \in SUBSET Nat, 0 \in T, \A n \in T : n + 1 \in T
    PROVE  T = Nat
<1> SUFFICES ASSUME Nat \ T # {} PROVE FALSE
  OBVIOUS
<1>1. PICK n \in Nat \ T : \A m \in Nat \ T : ~(m < n)
  BY LeastNumber
<1>2. n # 0 /\ n - 1 \in Nat /\ n - 1 < n /\ (n - 1) + 1 = n
  BY <1>1
<1>3. QED
  BY <1>1, <1>2

\* And what holds of the empty set, and of a set if it holds of the set without
\* any one of its elements, holds of every finite set.
LEMMA FiniteInduction ==
    ASSUME NEW S, IsFiniteSet(S), NEW Good, {} \in Good,
           \A U \in SUBSET S : U # {} /\ (\A x \in U : U \ {x} \in Good) => U \in Good
    PROVE  S \in Good
<1> DEFINE T == {n \in Nat : \A U \in SUBSET S : Cardinality(U) = n => U \in Good}
<1>1. \A U \in SUBSET S : IsFiniteSet(U) /\ Cardinality(U) \in Nat
  BY FS_Subset, FS_CardinalityType
<1>2. 0 \in T
  BY <1>1, FS_EmptySet
<1>3. ASSUME NEW n \in T PROVE n + 1 \in T
  <2> SUFFICES ASSUME NEW U \in SUBSET S, Cardinality(U) = n + 1 PROVE U \in Good
    OBVIOUS
  <2>1. n \in Nat /\ (n + 1) - 1 = n /\ n + 1 # 0
    OBVIOUS
  <2>2. U # {} /\ IsFiniteSet(U)
    BY <1>1, <2>1, FS_EmptySet
  <2>3. ASSUME NEW x \in U PROVE U \ {x} \in Good
    <3>1. Cardinality(U \ {x}) = n
      BY <2>1, <2>2, FS_RemoveElement
    <3>2. QED
      BY <3>1
  <2>4. QED
    BY <2>2, <2>3
<1>4. T = Nat
  <2>1. T \in SUBSET Nat
    OBVIOUS
  <2> HIDE DEF T
  <2>2. QED
    BY <1>2, <1>3, <2>1, SetInduction
<1>5. QED
  BY <1>1, <1>4

-----------------------------------------------------------------------------
(* Sums                                                                    *)

Total(f, S) == SumFunctionOnSet(f, S)
Pick(S) == CHOOSE x \in S : TRUE

\* The equation by which the library defines the sum, on the sets in D: it is
\* chosen among the functions that satisfy it, if there are any.
Adds(f, D, g) == g = [S \in D |-> IF S = {} THEN 0 ELSE f[Pick(S)] + g[S \ {Pick(S)}]]

\* The library's definition, in these words.
LEMMA TotalIsChosen ==
    ASSUME NEW f, NEW S
    PROVE  Total(f, S) = (CHOOSE g : Adds(f, SUBSET S, g))[S]
BY DEF Total, SumFunctionOnSet, FoldFunctionOnSet, MapThenFoldSet, Adds, Pick

\* What is picked is an element, and leaves a smaller set.
LEMMA PickFacts ==
    ASSUME NEW S, IsFiniteSet(S), S # {}
    PROVE  /\ Pick(S) \in S
           /\ Cardinality(S) \in Nat \ {0}
           /\ Cardinality(S \ {Pick(S)}) = Cardinality(S) - 1
<1>1. Pick(S) \in S
  BY DEF Pick
<1>2. QED
  BY <1>1, FS_RemoveElement, FS_CardinalityType, FS_EmptySet

\* The equation has a solution on the subsets of a finite set.
LEMMA SolutionExists ==
    ASSUME NEW f, NEW S, IsFiniteSet(S)
    PROVE  \E g : Adds(f, SUBSET S, g)
<1> DEFINE Small(n) == {U \in SUBSET S : Cardinality(U) <= n}
           T == {n \in Nat : \E g : Adds(f, Small(n), g)}
<1>1. \A U \in SUBSET S : /\ IsFiniteSet(U) /\ Cardinality(U) \in Nat
                          /\ Cardinality(U) <= Cardinality(S)
  BY FS_Subset, FS_CardinalityType
<1>2. 0 \in T
  <2>1. \A U \in Small(0) : U = {}
    BY <1>1, FS_EmptySet
  <2>2. Adds(f, Small(0), [U \in Small(0) |-> 0])
    BY <2>1 DEF Adds
  <2>3. QED
    BY <2>2
<1>3. ASSUME NEW n \in T PROVE n + 1 \in T
  <2>1. PICK g : Adds(f, Small(n), g)
    OBVIOUS
  <2> DEFINE Sum(U) == IF U = {} THEN 0 ELSE f[Pick(U)] + g[U \ {Pick(U)}]
             h == [U \in Small(n + 1) |-> Sum(U)]
  <2>2. \A U \in Small(n) : g[U] = Sum(U)
    BY <2>1 DEF Adds
  <2>3. \A U \in Small(n + 1) : U # {} => U \ {Pick(U)} \in Small(n)
    BY <1>1, PickFacts
  <2>4. Small(n) \subseteq Small(n + 1)
    BY <1>1
  <2>5. \A U \in Small(n + 1) : U # {} => h[U \ {Pick(U)}] = g[U \ {Pick(U)}]
    BY <2>2, <2>3, <2>4
  <2>6. Adds(f, Small(n + 1), h)
    BY <2>5 DEF Adds
  <2>7. QED
    BY <2>6
<1>4. T = Nat
  <2>1. T \in SUBSET Nat
    OBVIOUS
  <2> HIDE DEF T
  <2>2. QED
    BY <1>2, <1>3, <2>1, SetInduction
<1>5. Cardinality(S) \in T /\ Small(Cardinality(S)) = SUBSET S
  BY <1>1, <1>4, FS_CardinalityType
<1>6. QED
  BY <1>5

\* Solutions for functions that agree, agree.
LEMMA SolutionsAgree ==
    ASSUME NEW R, NEW S \in SUBSET R, IsFiniteSet(S),
           NEW f, NEW g, \A x \in S : f[x] = g[x],
           NEW s, NEW t, Adds(f, SUBSET S, s), Adds(g, SUBSET R, t)
    PROVE  s[S] = t[S]
<1> DEFINE Good == {U \in SUBSET S : s[U] = t[U]}
<1>1. \A U \in SUBSET S : /\ s[U] = IF U = {} THEN 0 ELSE f[Pick(U)] + s[U \ {Pick(U)}]
                          /\ t[U] = IF U = {} THEN 0 ELSE g[Pick(U)] + t[U \ {Pick(U)}]
  BY DEF Adds
<1>2. {} \in Good
  BY <1>1
<1>3. ASSUME NEW U \in SUBSET S, U # {}, \A x \in U : U \ {x} \in Good PROVE U \in Good
  <2>1. Pick(U) \in U
    BY <1>3 DEF Pick
  <2>2. s[U \ {Pick(U)}] = t[U \ {Pick(U)}] /\ f[Pick(U)] = g[Pick(U)]
    BY <1>3, <2>1
  <2>3. QED
    BY <1>1, <1>3, <2>2
<1>4. S \in Good
  <2> HIDE DEF Good
  <2>1. QED
    BY <1>2, <1>3, FiniteInduction
<1>5. QED
  BY <1>4

\* The totals of the subsets of a finite set solve the equation.
LEMMA TotalSolves ==
    ASSUME NEW f, NEW S, IsFiniteSet(S)
    PROVE  \E g : Adds(f, SUBSET S, g) /\ \A U \in SUBSET S : Total(f, U) = g[U]
<1>1. PICK g : Adds(f, SUBSET S, g)
  BY SolutionExists
<1>2. ASSUME NEW U \in SUBSET S PROVE Total(f, U) = g[U]
  <2>1. IsFiniteSet(U)
    BY FS_Subset
  <2> DEFINE h == CHOOSE h : Adds(f, SUBSET U, h)
  <2>2. Adds(f, SUBSET U, h)
    <3>1. \E k : Adds(f, SUBSET U, k)
      BY <2>1, SolutionExists
    <3>2. QED
      BY <3>1, Zenon
  <2> HIDE DEF h
  <2>3. h[U] = g[U]
    <3>1. \A x \in U : f[x] = f[x]
      OBVIOUS
    <3>2. QED
      BY <1>1, <2>1, <2>2, <3>1, SolutionsAgree
  <2>4. QED
    BY <2>3, TotalIsChosen DEF h
<1>3. QED
  BY <1>1, <1>2

\* What the definition says of a finite set.
LEMMA TotalUnfolds ==
    ASSUME NEW f, NEW S, IsFiniteSet(S)
    PROVE  /\ Total(f, {}) = 0
           /\ S # {} => Total(f, S) = f[Pick(S)] + Total(f, S \ {Pick(S)})
<1>1. PICK g : Adds(f, SUBSET S, g) /\ \A U \in SUBSET S : Total(f, U) = g[U]
  BY TotalSolves
<1>2. \A U \in SUBSET S : g[U] = IF U = {} THEN 0 ELSE f[Pick(U)] + g[U \ {Pick(U)}]
  BY <1>1 DEF Adds
<1>3. S \ {Pick(S)} \in SUBSET S /\ {} \in SUBSET S /\ S \in SUBSET S
  OBVIOUS
<1>4. QED
  BY <1>1, <1>2, <1>3

\* A total of numbers is a number.
LEMMA TotalType ==
    ASSUME NEW S, IsFiniteSet(S), NEW f, \A x \in S : f[x] \in Nat
    PROVE  Total(f, S) \in Nat
<1> DEFINE Good == {U \in SUBSET S : Total(f, U) \in Nat}
<1>1. {} \in Good
  <2>1. Total(f, {}) = 0
    BY TotalUnfolds
  <2>2. QED
    BY <2>1
<1>2. ASSUME NEW U \in SUBSET S, U # {}, \A x \in U : U \ {x} \in Good PROVE U \in Good
  <2>1. Pick(U) \in U /\ IsFiniteSet(U)
    BY <1>2, FS_Subset DEF Pick
  <2>2. Total(f, U \ {Pick(U)}) \in Nat /\ f[Pick(U)] \in Nat
    BY <1>2, <2>1
  <2>3. QED
    BY <1>2, <2>1, <2>2, TotalUnfolds
<1>3. S \in Good
  <2> HIDE DEF Good
  <2>1. QED
    BY <1>1, <1>2, FiniteInduction
<1>4. QED
  BY <1>3

\* Any element may be taken out first.
LEMMA TotalSplits ==
    ASSUME NEW S, IsFiniteSet(S), NEW f, \A x \in S : f[x] \in Nat, NEW y \in S
    PROVE  Total(f, S) = f[y] + Total(f, S \ {y})
<1> DEFINE Good == {U \in SUBSET S : \A x \in U : Total(f, U) = f[x] + Total(f, U \ {x})}
<1>1. \A U \in SUBSET S : IsFiniteSet(U) /\ Total(f, U) \in Nat
  BY FS_Subset, TotalType
<1>2. {} \in Good
  OBVIOUS
<1>3. ASSUME NEW U \in SUBSET S, U # {}, \A x \in U : U \ {x} \in Good PROVE U \in Good
  <2> SUFFICES ASSUME NEW x \in U PROVE Total(f, U) = f[x] + Total(f, U \ {x})
    OBVIOUS
  <2> DEFINE p == Pick(U)
             V == U \ {p}
             W == U \ {x}
  <2>1. p \in U /\ Total(f, U) = f[p] + Total(f, V)
    BY <1>1, <1>3, TotalUnfolds DEF Pick
  <2>2. CASE x = p
    BY <2>1, <2>2
  <2>3. CASE x # p
    <3>1. Total(f, V) = f[x] + Total(f, V \ {x})
      BY <1>3, <2>1, <2>3
    <3>2. Total(f, W) = f[p] + Total(f, W \ {p})
      BY <1>3, <2>1, <2>3
    <3> DEFINE k == Total(f, V \ {x})
    <3>3. Total(f, W) = f[p] + k
      <4>1. V \ {x} = W \ {p}
        OBVIOUS
      <4>2. QED
        BY <3>2, <4>1
    <3>4. k \in Nat /\ f[p] \in Nat /\ f[x] \in Nat
      BY <1>1, <2>1
    <3> HIDE DEF p, V, W, k
    <3>5. f[p] + (f[x] + k) = f[x] + (f[p] + k)
      BY <3>4
    <3>6. QED
      BY <2>1, <3>1, <3>3, <3>5 DEF W, k
  <2>4. QED
    BY <2>2, <2>3
<1>4. S \in Good
  <2> HIDE DEF Good
  <2>1. QED
    BY <1>2, <1>3, FiniteInduction
<1>5. QED
  BY <1>4

\* The same, where the set that is left has a name of its own.
LEMMA TotalTakes ==
    ASSUME NEW S, IsFiniteSet(S), NEW f, \A x \in S : f[x] \in Nat, NEW y \in S,
           NEW R, R = S \ {y}
    PROVE  Total(f, S) = f[y] + Total(f, R)
BY TotalSplits

\* A total depends on the function at the elements of the set only.
LEMMA TotalsAgree ==
    ASSUME NEW S, IsFiniteSet(S), NEW f, NEW g, \A x \in S : f[x] = g[x]
    PROVE  Total(f, S) = Total(g, S)
<1>1. PICK s : Adds(f, SUBSET S, s) /\ \A U \in SUBSET S : Total(f, U) = s[U]
  BY TotalSolves, ZenonT(30)
<1>2. PICK t : Adds(g, SUBSET S, t) /\ \A U \in SUBSET S : Total(g, U) = t[U]
  BY TotalSolves, ZenonT(30)
<1>3. S \in SUBSET S
  OBVIOUS
<1>4. s[S] = t[S]
  BY <1>1, <1>2, <1>3, SolutionsAgree
<1>5. Total(f, S) = s[S] /\ Total(g, S) = t[S]
  BY <1>1, <1>2, <1>3, Zenon
<1>6. QED
  BY <1>4, <1>5

\* Moving every position down by one changes no total.
LEMMA TotalShifts ==
    ASSUME NEW f, NEW g, NEW m \in Nat, \A i \in 1..m : g[i] = f[i + 1] /\ g[i] \in Nat
    PROVE  Total(f, 2..(m + 1)) = Total(g, 1..m)
<1> DEFINE T == {n \in Nat : n <= m => Total(f, 2..(n + 1)) = Total(g, 1..n)}
<1>1. \A n \in Nat : IsFiniteSet(2..(n + 1)) /\ IsFiniteSet(1..n)
  BY FS_Interval
<1>2. 0 \in T
  <2>1. 2..(0 + 1) = {} /\ 1..0 = {}
    OBVIOUS
  <2>2. Total(f, {}) = 0 /\ Total(g, {}) = 0
    BY FS_EmptySet, TotalUnfolds
  <2> HIDE DEF T
  <2>3. QED
    BY <2>1, <2>2 DEF T
<1>3. ASSUME NEW n \in T PROVE n + 1 \in T
  <2> SUFFICES ASSUME n + 1 <= m PROVE Total(f, 2..((n + 1) + 1)) = Total(g, 1..(n + 1))
    OBVIOUS
  <2>1. n \in Nat /\ n + 1 \in Nat /\ n <= m
    OBVIOUS
  <2>2. Total(f, 2..(n + 1)) = Total(g, 1..n)
    BY <2>1
  <2>3. /\ 2..((n + 1) + 1) \ {(n + 1) + 1} = 2..(n + 1) /\ (n + 1) + 1 \in 2..((n + 1) + 1)
        /\ 1..(n + 1) \ {n + 1} = 1..n /\ n + 1 \in 1..(n + 1)
    BY <2>1
  <2>4. /\ \A i \in 1..(n + 1) : g[i] \in Nat
        /\ \A i \in 2..((n + 1) + 1) : f[i] \in Nat
        /\ f[(n + 1) + 1] = g[n + 1]
    <3>1. \A i \in 1..(n + 1) : i \in 1..m
      BY <2>1
    <3>2. \A i \in 2..((n + 1) + 1) : i - 1 \in 1..(n + 1) /\ (i - 1) + 1 = i
      BY <2>1
    <3>3. QED
      BY <2>3, <3>1, <3>2
  <2>5. Total(f, 2..((n + 1) + 1)) = f[(n + 1) + 1] + Total(f, 2..(n + 1))
    <3>1. IsFiniteSet(2..((n + 1) + 1))
      BY <1>1, <2>1
    <3>2. QED
      BY <2>3, <2>4, <3>1, TotalTakes
  <2>6. Total(g, 1..(n + 1)) = g[n + 1] + Total(g, 1..n)
    <3>1. IsFiniteSet(1..(n + 1))
      BY <1>1, <2>1
    <3>2. QED
      BY <2>3, <2>4, <3>1, TotalTakes
  <2>7. QED
    BY <2>2, <2>4, <2>5, <2>6
<1>4. T = Nat
  <2>1. T \in SUBSET Nat
    OBVIOUS
  <2> HIDE DEF T
  <2>2. QED
    BY <1>2, <1>3, <2>1, SetInduction
<1>5. QED
  BY <1>4

-----------------------------------------------------------------------------
(* The bytes of holders and of queues                                      *)

\* One holder more or less is its size more or less (driver.rs:253-269).
LEMMA BytesOfHolders ==
    ASSUME NEW H \in SUBSET Senders, IsFiniteSet(H), NEW s \in Senders
    PROVE  /\ BytesOf(H) \in Nat
           /\ IsFiniteSet(H \cup {s}) /\ IsFiniteSet(H \ {s})
           /\ s \notin H => BytesOf(H \cup {s}) = BytesOf(H) + Size[s]
           /\ s \in H => BytesOf(H) = BytesOf(H \ {s}) + Size[s]
<1>1. \A U \in SUBSET Senders : \A x \in U : Size[x] \in Nat
  BY SizeAssumption
<1>2. IsFiniteSet(H \cup {s}) /\ IsFiniteSet(H \ {s})
  BY FS_AddElement, FS_RemoveElement
<1>3. /\ Total(Size, H) \in Nat /\ Total(Size, H \ {s}) \in Nat /\ Size[s] \in Nat
  <2>1. /\ \A x \in H : Size[x] \in Nat
        /\ \A x \in H \ {s} : Size[x] \in Nat
        /\ Size[s] \in Nat
    BY SizeAssumption
  <2>2. QED
    BY <1>2, <2>1, TotalType
<1>4. ASSUME s \notin H PROVE Total(Size, H \cup {s}) = Total(Size, H) + Size[s]
  <2>1. (H \cup {s}) \ {s} = H /\ s \in H \cup {s} /\ \A x \in H \cup {s} : Size[x] \in Nat
    BY <1>4, SizeAssumption
  <2>2. Total(Size, H \cup {s}) = Size[s] + Total(Size, H)
    BY <1>2, <2>1, TotalSplits
  <2>3. QED
    BY <1>3, <2>2
<1>5. ASSUME s \in H PROVE Total(Size, H) = Total(Size, H \ {s}) + Size[s]
  <2>1. Total(Size, H) = Size[s] + Total(Size, H \ {s})
    BY <1>1, <1>5, TotalSplits
  <2>2. QED
    BY <1>3, <2>1
<1>6. QED
  BY <1>2, <1>3, <1>4, <1>5 DEF BytesOf, Total

\* A message more at the end of a queue, and one less at its head
\* (driver.rs:536-573, 314-321).
LEMMA BytesInQueue ==
    ASSUME NEW q \in Seq(Messages), NEW e \in Messages
    PROVE  /\ BytesIn(<< >>) = 0 /\ BytesIn(q) \in Nat
           /\ BytesIn(Append(q, e)) = BytesIn(q) + e.size
           /\ q # << >> => /\ BytesIn(q) = Head(q).size + BytesIn(Tail(q))
                           /\ Head(q).size \in Nat /\ BytesIn(Tail(q)) \in Nat
<1>1. \A p \in Seq(Messages) : \A i \in 1..Len(p) : Sizes(p)[i] = p[i].size /\ Sizes(p)[i] \in Nat
  <2> SUFFICES ASSUME NEW p \in Seq(Messages), NEW i \in 1..Len(p)
               PROVE  Sizes(p)[i] = p[i].size /\ Sizes(p)[i] \in Nat
    OBVIOUS
  <2>1. p[i] \in Messages
    OBVIOUS
  <2>2. QED
    BY <2>1 DEF Sizes, Messages
<1>2. \A p \in Seq(Messages) : IsFiniteSet(1..Len(p)) /\ Len(p) \in Nat
  BY FS_Interval
<1>3. \A p \in Seq(Messages) : Total(Sizes(p), 1..Len(p)) \in Nat
  BY <1>1, <1>2, TotalType
<1>4. Total(Sizes(<< >>), 1..Len(<< >>)) = 0
  <2>1. 1..Len(<< >>) = {}
    OBVIOUS
  <2>2. \A f : Total(f, {}) = 0
    BY FS_EmptySet, TotalUnfolds
  <2>3. QED
    BY <2>1, <2>2
<1>5. Total(Sizes(Append(q, e)), 1..Len(Append(q, e))) = Total(Sizes(q), 1..Len(q)) + e.size
  <2> DEFINE a == Append(q, e)
             n == Len(q)
  <2>1. /\ a \in Seq(Messages) /\ n \in Nat /\ Len(a) = n + 1 /\ a[n + 1] = e
        /\ \A i \in 1..n : a[i] = q[i]
        /\ 1..(n + 1) \ {n + 1} = 1..n /\ n + 1 \in 1..(n + 1)
    OBVIOUS
  <2> HIDE DEF a, n
  <2>2. Total(Sizes(a), 1..Len(a)) = Sizes(a)[n + 1] + Total(Sizes(a), 1..n)
    <3> DEFINE z == Sizes(a)
               P == 1..Len(a)
               R == 1..n
    <3>1. IsFiniteSet(P)
      BY <1>2, <2>1
    <3>2. \A i \in P : z[i] \in Nat
      BY <1>1, <2>1
    <3>3. n + 1 \in P /\ R = P \ {n + 1}
      BY <2>1
    <3> HIDE DEF z, P, R
    <3>4. Total(z, P) = z[n + 1] + Total(z, R)
      BY <3>1, <3>2, <3>3, TotalTakes
    <3>5. QED
      BY <3>4 DEF z, P, R
  <2>3. Sizes(a)[n + 1] = e.size /\ e.size \in Nat
    BY <1>1, <2>1
  <2>4. \A i \in 1..n : Sizes(a)[i] = Sizes(q)[i]
    <3>1. \A i \in 1..n : i \in 1..Len(a)
      BY <2>1
    <3>2. QED
      BY <1>1, <2>1, <3>1 DEF n
  <2>5. Total(Sizes(a), 1..n) = Total(Sizes(q), 1..n)
    BY <1>2, <2>4, TotalsAgree DEF n
  <2>6. QED
    BY <1>3, <2>2, <2>3, <2>5 DEF a, n
<1>6. ASSUME q # << >>
      PROVE  /\ Total(Sizes(q), 1..Len(q)) = Head(q).size + Total(Sizes(Tail(q)), 1..Len(Tail(q)))
             /\ Head(q).size \in Nat /\ Tail(q) \in Seq(Messages)
  <2> DEFINE t == Tail(q)
             n == Len(t)
  <2>1. /\ t \in Seq(Messages) /\ n \in Nat /\ Len(q) = n + 1 /\ Head(q) = q[1]
        /\ \A i \in 1..n : t[i] = q[i + 1]
        /\ 1..(n + 1) \ {1} = 2..(n + 1) /\ 1 \in 1..(n + 1)
    BY <1>6
  <2> HIDE DEF t, n
  <2>2. Total(Sizes(q), 1..Len(q)) = Sizes(q)[1] + Total(Sizes(q), 2..(n + 1))
    <3> DEFINE z == Sizes(q)
               P == 1..Len(q)
               R == 2..(n + 1)
    <3>1. IsFiniteSet(P)
      BY <1>2
    <3>2. \A i \in P : z[i] \in Nat
      BY <1>1
    <3>3. 1 \in P /\ R = P \ {1}
      BY <2>1
    <3> HIDE DEF z, P, R
    <3>4. Total(z, P) = z[1] + Total(z, R)
      BY <3>1, <3>2, <3>3, TotalTakes
    <3>5. QED
      BY <3>4 DEF z, P, R
  <2>3. Total(Sizes(q), 2..(n + 1)) = Total(Sizes(t), 1..n)
    <3>1. \A i \in 1..n : i + 1 \in 1..Len(q)
      BY <2>1
    <3>2. ASSUME NEW i \in 1..n PROVE Sizes(t)[i] = Sizes(q)[i + 1] /\ Sizes(t)[i] \in Nat
      <4>1. Sizes(t)[i] = t[i].size /\ Sizes(t)[i] \in Nat
        BY <1>1, <2>1 DEF n
      <4>2. Sizes(q)[i + 1] = q[i + 1].size
        BY <1>1, <3>1
      <4>3. QED
        BY <2>1, <4>1, <4>2
    <3>3. QED
      BY <2>1, <3>2, TotalShifts
  <2>4. Sizes(q)[1] = Head(q).size /\ Head(q).size \in Nat
    BY <1>1, <2>1
  <2>5. QED
    BY <2>1, <2>2, <2>3, <2>4 DEF t, n
<1>7. QED
  BY <1>3, <1>4, <1>5, <1>6 DEF BytesIn, Total

-----------------------------------------------------------------------------
(* Who holds a permit                                                      *)

Reserved == {s \in Senders : sendPc[s] \in {"reserve", "admitted"}}
Admitted == {s \in Senders : sendPc[s] = "admitted"}
InWriter == {writerCmd} \ {NoCommand}

OutboundPermits ==
    /\ IsFiniteSet(PermitHolders)
    /\ outboundBytes + BytesOf(PermitHolders) = MaxBufferedBytes

\* The three places a permit can be in, and that no sender is in two: what is
\* queued or in the writer's hand was pushed, and what was answered is with the
\* writer only (driver.rs:293-301, 626-645).
LEMMA HolderFacts ==
    ASSUME TypeOK, QueueInv
    PROVE  /\ PermitHolders = Reserved \cup Elements(outbound) \cup InWriter
           /\ PermitHolders \in SUBSET Senders
           /\ \A s \in Senders : sendPc[s] \in {"idle", "acquire", "reserve", "admitted"}
                 => s \notin Elements(outbound) /\ s \notin InWriter
           /\ \A s \in Elements(outbound) : s \in Senders /\ s \notin Reserved /\ s \notin InWriter
           /\ \A s \in InWriter : s \in Senders /\ s \notin Reserved /\ s \notin Elements(outbound)
<1>1. PermitHolders = Reserved \cup Elements(outbound) \cup InWriter
  BY DEF PermitHolders, Reserved, InWriter
<1>2. /\ Elements(outbound) \subseteq Senders /\ InWriter \subseteq Senders
      /\ writerCmd \notin Elements(outbound)
      /\ sendPc \in [Senders -> SendPcs]
  BY CommandFacts DEF TypeOK, WriterTypes, InWriter, QueueInv
<1>3. ASSUME NEW s \in Senders, sendPc[s] \in {"idle", "acquire", "reserve", "admitted"}
      PROVE  s \notin Elements(outbound) /\ s \notin InWriter
  <2>1. \A u \in Unanswered : sendPc[u] \in {"waiting", "cancelled"}
    BY DEF QueueInv
  <2>2. s \notin Unanswered
    BY <1>3, <2>1
  <2>3. response[s] = Pending
    BY <1>3 DEF QueueInv
  <2>4. writerPc = "release" => writerCmd # s
    BY <2>3 DEF QueueInv
  <2>5. QED
    BY <2>2, <2>4 DEF Unanswered, InWriter
<1>4. \A s \in Reserved : s \notin Elements(outbound) /\ s \notin InWriter
  BY <1>3 DEF Reserved
<1>5. QED
  BY <1>1, <1>2, <1>3, <1>4 DEF InWriter, Reserved

\* A permit is taken by one that holds none ...
LEMMA PermitTaken ==
    ASSUME TypeOK, QueueInv, OutboundPermits, NEW s \in Senders, s \notin PermitHolders,
           outboundBytes >= Size[s], outboundBytes' = outboundBytes - Size[s],
           PermitHolders' = PermitHolders \cup {s}
    PROVE  OutboundPermits'
<1>1. /\ BytesOf(PermitHolders) \in Nat /\ IsFiniteSet(PermitHolders \cup {s})
      /\ BytesOf(PermitHolders \cup {s}) = BytesOf(PermitHolders) + Size[s]
  BY HolderFacts, BytesOfHolders DEF OutboundPermits
<1>2. outboundBytes \in Nat /\ Size[s] \in Nat /\ MaxBufferedBytes \in Nat
  BY SizeAssumption, ConfigAssumption DEF TypeOK, OutboundTypes
<1>3. BytesOf(PermitHolders)' = BytesOf(PermitHolders')
  BY DEF BytesOf
<1>4. outboundBytes + BytesOf(PermitHolders) = MaxBufferedBytes
  BY DEF OutboundPermits
<1>5. outboundBytes' + BytesOf(PermitHolders') = MaxBufferedBytes
  BY <1>1, <1>2, <1>4
<1>6. QED
  BY <1>1, <1>3, <1>5 DEF OutboundPermits

\* ... comes back from one that holds it ...
LEMMA PermitReturned ==
    ASSUME TypeOK, QueueInv, OutboundPermits, NEW s \in PermitHolders,
           outboundBytes' = outboundBytes + Size[s], PermitHolders' = PermitHolders \ {s}
    PROVE  OutboundPermits'
<1>1. s \in Senders
  BY HolderFacts
<1>2. /\ IsFiniteSet(PermitHolders \ {s})
      /\ BytesOf(PermitHolders) = BytesOf(PermitHolders \ {s}) + Size[s]
  BY <1>1, HolderFacts, BytesOfHolders DEF OutboundPermits
<1>3. BytesOf(PermitHolders \ {s}) \in Nat
  <2>1. PermitHolders \ {s} \in SUBSET Senders
    BY HolderFacts
  <2>2. QED
    BY <1>1, <1>2, <2>1, BytesOfHolders
<1>4. outboundBytes \in Nat /\ Size[s] \in Nat /\ MaxBufferedBytes \in Nat
  BY <1>1, SizeAssumption, ConfigAssumption DEF TypeOK, OutboundTypes
<1>5. outboundBytes + BytesOf(PermitHolders) = MaxBufferedBytes
  BY DEF OutboundPermits
<1>6. outboundBytes' + BytesOf(PermitHolders') = MaxBufferedBytes
  BY <1>2, <1>3, <1>4, <1>5
<1>7. QED
  BY <1>2, <1>6 DEF OutboundPermits, BytesOf

\* ... and otherwise moves with its message.
LEMMA PermitsKept ==
    ASSUME OutboundPermits, UNCHANGED outboundBytes, PermitHolders' = PermitHolders
    PROVE  OutboundPermits'
BY DEF OutboundPermits, BytesOf

\* The items that are reserved or queued, when one is reserved, pushed, or taken
\* from the queue (driver.rs:270-280, 293-301).
LEMMA AdmittedFinite ==
    ASSUME TypeOK, QueueInv, OutboundPermits
    PROVE  /\ IsFiniteSet(Admitted) /\ Cardinality(Admitted) \in Nat
           /\ ItemsHeld = Len(outbound) + Cardinality(Admitted)
<1>1. Admitted \in SUBSET PermitHolders
  BY HolderFacts DEF Admitted, Reserved
<1>2. QED
  BY <1>1, FS_Subset, FS_CardinalityType DEF OutboundPermits, ItemsHeld, Admitted

-----------------------------------------------------------------------------
(* The outbound budget                                                     *)

\* Who moves no command moves no permit.
LEMMA StillKeepsPermits ==
    ASSUME OutboundPermits, ItemsHeld <= MaxQueue, OutboundStill
    PROVE  OutboundPermits' /\ (ItemsHeld <= MaxQueue)'
<1>1. UNCHANGED <<outbound, outboundBytes, sendPc, writerCmd>>
  BY DEF OutboundStill, outboundVars
<1>2. PermitHolders' = PermitHolders /\ ItemsHeld' = ItemsHeld
  BY <1>1 DEF PermitHolders, Elements, ItemsHeld
<1>3. QED
  BY <1>1, <1>2, PermitsKept

\* A send takes its permit once, gives it back if no slot is free, and otherwise
\* takes it with its command into the queue (driver.rs:246-301).
LEMMA SenderKeepsPermits ==
    ASSUME NEW s \in Senders, TypeOK, QueueInv, OutboundPermits, ItemsHeld <= MaxQueue,
           SenderNext(s)
    PROVE  OutboundPermits' /\ (ItemsHeld <= MaxQueue)'
<1>1. /\ outbound \in Seq(Senders) /\ Len(outbound) \in Nat
      /\ sendPc \in [Senders -> SendPcs] /\ MaxQueue \in Nat
      /\ outboundBytes \in Nat /\ Size[s] \in Nat
  BY CommandFacts, ConfigAssumption, SizeAssumption DEF TypeOK, OutboundTypes
<1>2. UNCHANGED writerCmd
  BY DEF SenderNext, SendStep, SendValidate, SendAcquire, SendReserve, SendPush, SendReturns,
         SendCancelled, sendOthers, writerVars
<1>3. InWriter' = InWriter
  BY <1>2 DEF InWriter
<1>4. /\ PermitHolders = Reserved \cup Elements(outbound) \cup InWriter
      /\ PermitHolders' = Reserved' \cup Elements(outbound)' \cup InWriter'
  BY DEF PermitHolders, Reserved, InWriter
<1>5. /\ IsFiniteSet(Admitted) /\ Cardinality(Admitted) \in Nat
      /\ ItemsHeld = Len(outbound) + Cardinality(Admitted)
      /\ ItemsHeld' = Len(outbound') + Cardinality(Admitted')
  <2>1. ItemsHeld' = Len(outbound') + Cardinality(Admitted')
    BY DEF ItemsHeld, Admitted
  <2>2. QED
    BY <2>1, AdmittedFinite
<1>6. ASSUME UNCHANGED <<outbound, outboundBytes>>, NEW to \in SendPcs,
             sendPc' = [sendPc EXCEPT ![s] = to],
             sendPc[s] \notin {"reserve", "admitted"}, to \notin {"reserve", "admitted"}
      PROVE  OutboundPermits' /\ (ItemsHeld <= MaxQueue)'
  <2>1. Reserved' = Reserved /\ Admitted' = Admitted
    BY <1>1, <1>6 DEF Reserved, Admitted
  <2>2. Elements(outbound)' = Elements(outbound)
    BY <1>6 DEF Elements
  <2>3. PermitHolders' = PermitHolders /\ ItemsHeld' = ItemsHeld
    BY <1>3, <1>4, <1>5, <1>6, <2>1, <2>2
  <2>4. QED
    BY <1>6, <2>3, PermitsKept
<1>7. CASE SendValidate(s) \/ SendReturns(s) \/ SendCancelled(s)
  <2>1. /\ UNCHANGED <<outbound, outboundBytes>>
        /\ \E to \in {"done", "acquire", "cancelled"} : sendPc' = [sendPc EXCEPT ![s] = to]
        /\ sendPc[s] \in {"idle", "waiting"}
    BY <1>7 DEF SendValidate, SendReturns, SendCancelled, Finish, At, outboundVars
  <2>2. {"done", "acquire", "cancelled"} \subseteq SendPcs \ {"reserve", "admitted"}
    BY DEF SendPcs
  <2>3. QED
    BY <1>6, <2>1, <2>2
<1>8. CASE SendAcquire(s) /\ ~(outboundBytes >= Size[s])
  <2>1. /\ UNCHANGED <<outbound, outboundBytes>> /\ sendPc[s] = "acquire"
        /\ sendPc' = [sendPc EXCEPT ![s] = "done"]
    BY <1>8 DEF SendAcquire, Finish
  <2>2. "done" \in SendPcs
    BY DEF SendPcs
  <2>3. QED
    BY <1>6, <2>1, <2>2
<1>9. CASE SendAcquire(s) /\ outboundBytes >= Size[s]
  <2>1. /\ UNCHANGED outbound /\ sendPc[s] = "acquire"
        /\ sendPc' = [sendPc EXCEPT ![s] = "reserve"]
        /\ outboundBytes' = outboundBytes - Size[s]
    BY <1>9 DEF SendAcquire
  <2>2. Reserved' = Reserved \cup {s} /\ s \notin Reserved /\ Admitted' = Admitted
    BY <1>1, <2>1 DEF Reserved, Admitted
  <2>3. Elements(outbound)' = Elements(outbound)
    BY <2>1 DEF Elements
  <2>4. s \notin PermitHolders
    BY <1>4, <2>1, <2>2, HolderFacts
  <2>5. PermitHolders' = PermitHolders \cup {s}
    BY <1>3, <1>4, <2>2, <2>3
  <2>6. OutboundPermits'
    BY <1>9, <2>1, <2>4, <2>5, PermitTaken
  <2>7. QED
    BY <1>5, <2>1, <2>2, <2>6
<1>10. CASE SendReserve(s) /\ ~WriterGone /\ ItemsHeld < MaxQueue
  <2>1. /\ UNCHANGED <<outbound, outboundBytes>> /\ sendPc[s] = "reserve"
        /\ sendPc' = [sendPc EXCEPT ![s] = "admitted"]
    BY <1>10 DEF SendReserve
  <2>2. Reserved' = Reserved /\ Admitted' = Admitted \cup {s} /\ s \notin Admitted
    BY <1>1, <2>1 DEF Reserved, Admitted
  <2>3. Elements(outbound)' = Elements(outbound)
    BY <2>1 DEF Elements
  <2>4. PermitHolders' = PermitHolders
    BY <1>3, <1>4, <2>2, <2>3
  <2>5. Cardinality(Admitted') = Cardinality(Admitted) + 1
    BY <1>5, <2>2, FS_AddElement
  <2>6. ItemsHeld' = ItemsHeld + 1
    BY <1>1, <1>5, <2>1, <2>5
  <2>7. ItemsHeld' <= MaxQueue
    BY <1>1, <1>5, <1>10, <2>6
  <2>8. QED
    BY <2>1, <2>4, <2>7, PermitsKept
<1>11. CASE SendReserve(s) /\ ~(~WriterGone /\ ItemsHeld < MaxQueue)
  <2>1. /\ UNCHANGED outbound /\ sendPc[s] = "reserve"
        /\ sendPc' = [sendPc EXCEPT ![s] = "done"]
        /\ outboundBytes' = outboundBytes + Size[s]
    BY <1>11 DEF SendReserve, Finish
  <2>2. Reserved' = Reserved \ {s} /\ s \in Reserved /\ Admitted' = Admitted
    BY <1>1, <2>1 DEF Reserved, Admitted
  <2>3. Elements(outbound)' = Elements(outbound)
    BY <2>1 DEF Elements
  <2>4. s \notin Elements(outbound) /\ s \notin InWriter
    BY <2>1, HolderFacts
  <2>5. s \in PermitHolders /\ PermitHolders' = PermitHolders \ {s}
    BY <1>3, <1>4, <2>2, <2>3, <2>4
  <2>6. OutboundPermits'
    BY <2>1, <2>5, PermitReturned
  <2>7. QED
    BY <1>5, <2>1, <2>2, <2>6
<1>12. CASE SendPush(s)
  <2>1. /\ UNCHANGED outboundBytes /\ sendPc[s] = "admitted"
        /\ sendPc' = [sendPc EXCEPT ![s] = "waiting"]
        /\ outbound' = Append(outbound, s)
    BY <1>12 DEF SendPush, At
  <2>2. /\ Reserved' = Reserved \ {s} /\ s \in Reserved
        /\ Admitted' = Admitted \ {s} /\ s \in Admitted
    BY <1>1, <2>1 DEF Reserved, Admitted
  <2>3. Elements(outbound)' = Elements(outbound) \cup {s} /\ Len(outbound') = Len(outbound) + 1
    <3>1. Elements(outbound)' = Elements(outbound')
      BY DEF Elements
    <3>2. QED
      BY <1>1, <2>1, <3>1, Appended
  <2>4. PermitHolders' = PermitHolders
    BY <1>3, <1>4, <2>2, <2>3
  <2>5. Cardinality(Admitted') = Cardinality(Admitted) - 1
    BY <1>5, <2>2, FS_RemoveElement
  <2>6. ItemsHeld' = ItemsHeld
    BY <1>1, <1>5, <2>3, <2>5
  <2>7. QED
    BY <2>1, <2>4, <2>6, PermitsKept
<1>13. QED
  BY <1>1, <1>7, <1>8, <1>9, <1>10, <1>11, <1>12 DEF SenderNext, SendStep

\* The writer takes a command with its permit, and gives the permit back when it
\* has answered, failed, was cancelled or drains the queue (driver.rs:580-586,
\* 626-645, 658-668).
LEMMA WriterKeepsPermits ==
    ASSUME TypeOK, Forward, QueueInv, HandInv, OutboundPermits, ItemsHeld <= MaxQueue, WriterNext
    PROVE  OutboundPermits' /\ (ItemsHeld <= MaxQueue)'
<1>1. /\ outbound \in Seq(Senders) /\ Len(outbound) \in Nat /\ MaxQueue \in Nat
      /\ writerCmd \in Senders \cup {NoCommand} /\ NoCommand \notin Senders
  BY CommandFacts, ConfigAssumption DEF TypeOK, WriterTypes
<1>2. UNCHANGED sendPc
  BY DEF WriterNext, WriterIO, WriterStep, WriterSeesSignal, WriterPollsEvents,
         WriterFindsNothing, TakeFlush,
         TakeControlClosed, TakeCommand, TakeOutboundClosed, WriteCommand, WriteClose,
         WriteRefused, Flush, WriteFails, Respond, ReleasePermit, AwaitPeer, PublishOutcome,
         PublishFailure, WriterSignalsAbort, RespondFailure, WriterCancelled,
         WriterClosesQueue, DrainCommand, WriterDropsQueue, WriterStops, writerOthers, sendVars
<1>3. Reserved' = Reserved /\ Admitted' = Admitted
  BY <1>2 DEF Reserved, Admitted
<1>4. /\ PermitHolders = Reserved \cup Elements(outbound) \cup InWriter
      /\ PermitHolders' = Reserved' \cup Elements(outbound)' \cup InWriter'
  BY DEF PermitHolders, Reserved, InWriter
<1>5. /\ Cardinality(Admitted) \in Nat
      /\ ItemsHeld = Len(outbound) + Cardinality(Admitted)
      /\ ItemsHeld' = Len(outbound') + Cardinality(Admitted)
  <2>1. ItemsHeld' = Len(outbound') + Cardinality(Admitted')
    BY DEF ItemsHeld, Admitted
  <2>2. QED
    BY <1>3, <2>1, AdmittedFinite
<1>6. ASSUME UNCHANGED <<outbound, outboundBytes, writerCmd>>
      PROVE  OutboundPermits' /\ (ItemsHeld <= MaxQueue)'
  <2>1. Elements(outbound)' = Elements(outbound) /\ InWriter' = InWriter
    BY <1>6 DEF Elements, InWriter
  <2>2. PermitHolders' = PermitHolders /\ ItemsHeld' = ItemsHeld
    BY <1>3, <1>4, <1>5, <1>6, <2>1
  <2>3. QED
    BY <1>6, <2>2, PermitsKept
<1>7. ASSUME UNCHANGED outbound, writerCmd \in Senders, writerCmd' = NoCommand, Release(writerCmd)
      PROVE  OutboundPermits' /\ (ItemsHeld <= MaxQueue)'
  <2>1. Elements(outbound)' = Elements(outbound)
    BY <1>7 DEF Elements
  <2>2. InWriter = {writerCmd} /\ InWriter' = {}
    BY <1>1, <1>7 DEF InWriter
  <2>3. writerCmd \notin Reserved /\ writerCmd \notin Elements(outbound)
    BY <2>2, HolderFacts
  <2>4. writerCmd \in PermitHolders /\ PermitHolders' = PermitHolders \ {writerCmd}
    BY <1>3, <1>4, <2>1, <2>2, <2>3
  <2>5. OutboundPermits'
    BY <1>7, <2>4, PermitReturned DEF Release
  <2>6. QED
    BY <1>5, <1>7, <2>5
<1>8. CASE WriteCommand \/ WriteClose \/ Flush \/ Respond
  <2>1. UNCHANGED <<outbound, outboundBytes, writerCmd>>
    BY <1>8 DEF WriteCommand, WriteClose, Flush, Respond, outboundVars
  <2>2. QED
    BY <1>6, <2>1
<1>9. CASE ReleasePermit \/ RespondFailure
  <2>1. /\ UNCHANGED outbound /\ writerCmd' = NoCommand /\ Release(writerCmd)
        /\ writerPc \in {"release", "fail respond"}
    BY <1>9 DEF ReleasePermit, RespondFailure
  <2>2. writerCmd \in Senders
    BY <2>1 DEF TypeOK, WriterTypes
  <2>3. QED
    BY <1>7, <2>1, <2>2
<1>10. CASE WriterCancelled
  <2>1. CASE writerCmd = NoCommand
    <3>1. UNCHANGED <<outbound, outboundBytes, writerCmd>>
      BY <1>10, <2>1 DEF WriterCancelled
    <3>2. QED
      BY <1>6, <3>1
  <2>2. CASE writerCmd # NoCommand
    <3>1. UNCHANGED outbound /\ writerCmd' = NoCommand /\ Release(writerCmd)
      BY <1>10, <2>2 DEF WriterCancelled
    <3>2. QED
      BY <1>1, <1>7, <2>2, <3>1
  <2>3. QED
    BY <2>1, <2>2
<1>11. CASE TakeCommand
  <2> DEFINE c == Head(outbound)
  <2>1. /\ writerPc = "events" /\ outbound # << >> /\ UNCHANGED outboundBytes
        /\ writerCmd' = c /\ outbound' = Tail(outbound)
    BY <1>11 DEF TakeCommand
  <2>2. /\ c \in Senders /\ c \in Elements(outbound)
        /\ Elements(outbound)' = Elements(outbound) \ {c}
    <3>1. Elements(outbound)' = Elements(Tail(outbound))
      BY <2>1 DEF Elements
    <3>2. QED
      BY <2>1, <3>1, HeadOfQueue
  <2>3. InWriter = {}
    BY <2>1 DEF HandInv, Carrying, InWriter
  <2>4. InWriter' = {c}
    BY <1>1, <2>1, <2>2 DEF InWriter
  <2>5. Len(outbound') = Len(outbound) - 1
    BY <1>1, <2>1
  <2> HIDE DEF c
  <2>6. PermitHolders' = PermitHolders
    BY <1>3, <1>4, <2>2, <2>3, <2>4
  <2>7. ItemsHeld' <= ItemsHeld /\ ItemsHeld' \in Int /\ ItemsHeld \in Int
    BY <1>1, <1>5, <2>5
  <2>8. QED
    BY <1>1, <2>1, <2>6, <2>7, PermitsKept
<1>12. CASE DrainCommand
  <2> DEFINE c == Head(outbound)
  <2>1. /\ outbound # << >> /\ outboundBytes' = outboundBytes + Size[c]
        /\ UNCHANGED writerCmd /\ outbound' = Tail(outbound)
    BY <1>12 DEF DrainCommand, Release
  <2>2. /\ c \in Senders /\ c \in Elements(outbound)
        /\ Elements(outbound)' = Elements(outbound) \ {c}
    <3>1. Elements(outbound)' = Elements(Tail(outbound))
      BY <2>1 DEF Elements
    <3>2. QED
      BY <2>1, <3>1, HeadOfQueue
  <2>3. InWriter' = InWriter
    BY <2>1 DEF InWriter
  <2>4. Len(outbound') = Len(outbound) - 1
    BY <1>1, <2>1
  <2> HIDE DEF c
  <2>5. c \notin Reserved /\ c \notin InWriter
    BY <2>2, HolderFacts
  <2>6. c \in PermitHolders /\ PermitHolders' = PermitHolders \ {c}
    BY <1>3, <1>4, <2>2, <2>3, <2>5
  <2>7. ItemsHeld' <= ItemsHeld /\ ItemsHeld' \in Int /\ ItemsHeld \in Int
    BY <1>1, <1>5, <2>4
  <2>8. OutboundPermits'
    BY <2>1, <2>6, PermitReturned
  <2>9. QED
    BY <1>1, <2>7, <2>8
<1>13. CASE /\ ~TakeCommand /\ ~WriteCommand /\ ~WriteClose /\ ~Flush /\ ~Respond
            /\ ~ReleasePermit /\ ~RespondFailure /\ ~WriterCancelled /\ ~DrainCommand
  BY <1>13, WriterMoves, StillKeepsPermits
<1>14. QED
  BY <1>8, <1>9, <1>10, <1>11, <1>12, <1>13

-----------------------------------------------------------------------------
(* The inbound budget                                                      *)

\* Bytes, messages and configuration are what the sums are about.
LEMMA InboundFacts ==
    ASSUME TypeOK, InboundBudget
    PROVE  /\ inbound \in Seq(Messages) /\ readerMsg \in Messages
           /\ inboundBytes \in Nat /\ readerMsg.size \in Nat /\ Len(inbound) \in Nat
           /\ BytesIn(inbound) \in Nat /\ MaxBufferedBytes \in Nat /\ MaxQueue \in Nat
           /\ inboundBytes + BytesIn(inbound) + ReaderPermit = MaxBufferedBytes
           /\ Len(inbound) <= MaxQueue
<1>1. inbound \in Seq(Messages) /\ readerMsg \in Messages /\ inboundBytes \in Nat
  BY DEF TypeOK, InboundTypes, ReaderTypes
<1>2. readerMsg.size \in Nat
  BY <1>1 DEF Messages
<1>3. BytesIn(inbound) \in Nat
  BY <1>1, BytesInQueue
<1>4. QED
  BY <1>1, <1>2, <1>3, ConfigAssumption DEF InboundBudget

\* Who moves no message moves no permit.
LEMMA StillKeepsBytes ==
    ASSUME InboundBudget, InboundStill
    PROVE  InboundBudget'
<1>1. UNCHANGED <<inbound, inboundBytes, readerPc, readerMsg>>
  BY DEF InboundStill, inboundVars, readerVars
<1>2. ReaderPermit' = ReaderPermit
  BY <1>1 DEF ReaderPermit
<1>3. QED
  BY <1>1, <1>2 DEF InboundBudget, BytesIn, Sizes

\* The reader takes the permit of a message before it waits for a slot, and hands
\* it over with the message or gives it back (driver.rs:536-573).
LEMMA ReaderKeepsBytes ==
    ASSUME TypeOK, InboundBudget, ReaderNext
    PROVE  InboundBudget'
<1>1. BytesIn(inbound)' = BytesIn(inbound')
  BY DEF BytesIn, Sizes
<1>2. ASSUME UNCHANGED inboundVars, readerPc # "enqueue", readerPc' # "enqueue"
      PROVE  InboundBudget'
  <2>1. ReaderPermit = 0 /\ ReaderPermit' = 0
    BY <1>2 DEF ReaderPermit
  <2>2. QED
    BY <1>1, <1>2, <2>1 DEF InboundBudget, inboundVars
<1>3. ASSUME UNCHANGED inbound, inboundBytes' = inboundBytes + ReaderPermit, ReaderPermit' = 0
      PROVE  InboundBudget'
  <2>1. ReaderPermit \in Nat
    BY InboundFacts DEF ReaderPermit
  <2>2. inboundBytes' + BytesIn(inbound) + ReaderPermit' = MaxBufferedBytes
    BY <1>3, <2>1, InboundFacts
  <2>3. QED
    BY <1>1, <1>3, <2>2 DEF InboundBudget
<1>4. CASE AcquireInbound
  <2>1. /\ ReaderPermit = 0 /\ ReaderPermit' = readerMsg.size /\ UNCHANGED inbound
        /\ inboundBytes' = inboundBytes - readerMsg.size
    BY <1>4 DEF AcquireInbound, ReaderPermit
  <2>2. inboundBytes' + BytesIn(inbound) + ReaderPermit' = MaxBufferedBytes
    BY <2>1, InboundFacts
  <2>3. QED
    BY <1>1, <2>1, <2>2 DEF InboundBudget
<1>5. CASE Enqueue
  <2>1. /\ ReaderPermit = readerMsg.size /\ ReaderPermit' = 0 /\ UNCHANGED inboundBytes
        /\ inbound' = Append(inbound, readerMsg) /\ Len(inbound) < MaxQueue
    BY <1>5 DEF Enqueue, ReaderPermit
  <2>2. BytesIn(inbound') = BytesIn(inbound) + readerMsg.size
    BY <2>1, InboundFacts, BytesInQueue
  <2>3. inboundBytes' + BytesIn(inbound') + ReaderPermit' = MaxBufferedBytes
    BY <2>1, <2>2, InboundFacts
  <2>4. Len(inbound') <= MaxQueue
    BY <2>1, InboundFacts
  <2>5. QED
    BY <1>1, <2>3, <2>4 DEF InboundBudget
<1>6. CASE AbandonMessage \/ EnqueueFails \/ ReaderCancelled
  <2>1. /\ UNCHANGED inbound /\ inboundBytes' = inboundBytes + ReaderPermit
        /\ readerPc' # "enqueue"
    BY <1>6 DEF AbandonMessage, EnqueueFails, ReaderCancelled
  <2>2. ReaderPermit' = 0
    BY <2>1 DEF ReaderPermit
  <2>3. QED
    BY <1>3, <2>1, <2>2
<1>7. CASE ReaderInput
  <2>1. UNCHANGED inboundVars /\ readerPc # "enqueue" /\ readerPc' # "enqueue"
    BY <1>7 DEF ReaderInput, ReadData, ReadPing, ReadEnd, ReadError, ReadClose
  <2>2. QED
    BY <1>2, <2>1
<1>8. CASE ReaderCheck \/ ReaderSeesSignal \/ QueueCheck
  <2>1. UNCHANGED inboundVars /\ readerPc # "enqueue" /\ readerPc' # "enqueue"
    BY <1>8 DEF ReaderCheck, ReaderSeesSignal, QueueCheck
  <2>2. QED
    BY <1>2, <2>1
<1>9. CASE \/ LoadClosing \/ StoreClosing \/ PublishPeerClosed \/ SignalPeerClose
           \/ ReaderSeesTerminal \/ ReaderTimesOut \/ ReaderPublishes \/ ReaderSignalsAbort
           \/ ReaderAbortsWriter \/ ReaderDropsContext \/ ReaderStops
  <2>1. UNCHANGED inboundVars /\ readerPc # "enqueue" /\ readerPc' # "enqueue"
    BY <1>9
       DEF LoadClosing, StoreClosing, PublishPeerClosed, SignalPeerClose, ReaderSeesTerminal,
           ReaderTimesOut, ReaderPublishes, ReaderSignalsAbort, ReaderAbortsWriter,
           ReaderDropsContext, ReaderStops
  <2>2. QED
    BY <1>2, <2>1
<1>10. QED
  BY <1>4, <1>5, <1>6, <1>7, <1>8, <1>9 DEF ReaderNext, ReaderStep

\* A message that leaves the queue, to a receive() or with the driver, gives its
\* permit back (driver.rs:314-321, 409-413).
LEMMA HeadGivesBack ==
    ASSUME TypeOK, InboundBudget, inbound # << >>, inbound' = Tail(inbound),
           inboundBytes' = inboundBytes + Head(inbound).size, UNCHANGED readerVars
    PROVE  InboundBudget'
<1>1. /\ BytesIn(inbound) = Head(inbound).size + BytesIn(Tail(inbound))
      /\ Head(inbound).size \in Nat /\ BytesIn(Tail(inbound)) \in Nat
  BY InboundFacts, BytesInQueue
<1>2. ReaderPermit' = ReaderPermit /\ ReaderPermit \in Nat
  BY InboundFacts DEF ReaderPermit, readerVars
<1>3. BytesIn(inbound)' = BytesIn(Tail(inbound))
  BY DEF BytesIn, Sizes
<1>4. inboundBytes' + BytesIn(Tail(inbound)) + ReaderPermit' = MaxBufferedBytes
  BY <1>1, <1>2, InboundFacts
<1>5. Len(inbound') <= MaxQueue
  BY InboundFacts
<1>6. QED
  BY <1>3, <1>4, <1>5 DEF InboundBudget

-----------------------------------------------------------------------------
(* Both                                                                    *)

\* At the start no permit is out (driver.rs:197-244).
LEMMA InitBudget == Init => BudgetInv
<1> SUFFICES ASSUME Init PROVE BudgetInv
  OBVIOUS
<1>1. /\ writerCmd = NoCommand /\ outbound = << >> /\ inbound = << >>
      /\ outboundBytes = MaxBufferedBytes /\ inboundBytes = MaxBufferedBytes
      /\ sendPc = [s \in Senders |-> "idle"] /\ readerPc = "check"
  BY DEF Init
<1>2. MaxBufferedBytes \in Nat /\ MaxQueue \in Nat /\ MaxQueue > 0
  BY ConfigAssumption
<1>3. PermitHolders = {}
  <2>1. Elements(outbound) = {}
    BY <1>1 DEF Elements
  <2>2. QED
    BY <1>1, <2>1 DEF PermitHolders
<1>4. IsFiniteSet({}) /\ Cardinality({}) = 0 /\ BytesOf({}) = 0
  BY FS_EmptySet, TotalUnfolds DEF BytesOf, Total
<1>5. ItemsHeld = 0
  <2>1. Admitted = {} /\ Len(outbound) = 0
    BY <1>1 DEF Admitted
  <2>2. ItemsHeld = Len(outbound) + Cardinality(Admitted)
    BY DEF ItemsHeld, Admitted
  <2>3. QED
    BY <1>4, <2>1, <2>2
<1>6. BytesIn(inbound) = 0 /\ Len(inbound) = 0 /\ ReaderPermit = 0
  <2>1. << >> \in Seq(Messages) /\ NoMessage \in Messages
    BY DEF NoMessage, Messages
  <2>2. BytesIn(<< >>) = 0
    BY <2>1, BytesInQueue
  <2>3. QED
    BY <1>1, <2>2 DEF ReaderPermit
<1>7. QED
  BY <1>1, <1>2, <1>3, <1>4, <1>5, <1>6 DEF BudgetInv, OutboundBudget, InboundBudget

\* Every step keeps both budgets (driver.rs:246-776).
LEMMA NextKeepsBudgets ==
    ASSUME TypeOK, OutcomeInv, FlowInv, BudgetInv, [Next]_vars
    PROVE  BudgetInv'
<1> DEFINE Inner == OutboundPermits /\ ItemsHeld <= MaxQueue /\ InboundBudget
<1>1. Forward /\ QueueInv /\ HandInv /\ Inner
  BY NextKeepsOutcome DEF FlowInv, BudgetInv, OutboundBudget, OutboundPermits
<1>2. Inner' => BudgetInv'
  BY DEF BudgetInv, OutboundBudget, OutboundPermits
<1>3. WriterNext \/ UNCHANGED <<writerPc, writerCmd>>
  BY OnlyWriterMovesHand
<1>4. CASE ReaderNext /\ ~WriterNext
  BY <1>1, <1>2, <1>3, <1>4, ReaderFrame, StillKeepsPermits, ReaderKeepsBytes
<1>5. CASE WriterNext
  BY <1>1, <1>2, <1>5, WriterKeepsPermits, WriterFrame, StillKeepsBytes
<1>6. CASE WatchdogStep /\ ~WriterNext
  BY <1>1, <1>2, <1>3, <1>6, WatchdogFrame, StillKeepsPermits, StillKeepsBytes
<1>7. CASE AbandonNext /\ ~DropInbound /\ ~WriterNext
  BY <1>1, <1>2, <1>3, <1>7, AbandonFrame, StillKeepsPermits, StillKeepsBytes
<1>8. CASE DropInbound
  <2>1. /\ UNCHANGED <<writerPc, writerCmd>> /\ UNCHANGED <<outbound, outboundBytes, sendPc>>
        /\ UNCHANGED readerVars
        /\ inbound # << >> /\ inbound' = Tail(inbound)
        /\ inboundBytes' = inboundBytes + Head(inbound).size
    BY <1>8 DEF DropInbound, recvOthers, writerVars, outboundVars, sendVars
  <2>2. PermitHolders' = PermitHolders /\ ItemsHeld' = ItemsHeld
    BY <2>1 DEF PermitHolders, Elements, ItemsHeld
  <2>3. QED
    BY <1>1, <1>2, <2>1, <2>2, PermitsKept, HeadGivesBack
<1>9. ASSUME NEW c \in Closers, CloserNext(c), ~WriterNext PROVE BudgetInv'
  BY <1>1, <1>2, <1>3, <1>9, CloserFrame, StillKeepsPermits, StillKeepsBytes
<1>10. ASSUME NEW s \in Senders, SenderNext(s), ~WriterNext PROVE BudgetInv'
  BY <1>1, <1>2, <1>3, <1>10, SenderFrame, SenderKeepsPermits, StillKeepsBytes
<1>11. ASSUME NEW r \in Receivers, ReceiverNext(r), ~WriterNext PROVE BudgetInv'
  <2>1. UNCHANGED <<writerPc, writerCmd>> /\ UNCHANGED readerVars
    BY <1>3, <1>11
       DEF ReceiverNext, ReceiveStep, ReceiveClaim, ReceiveMessage, ReceiveEnd,
           ReceiveCancelled, ReceiveUnclaims, recvOthers
  <2>2. InboundBudget'
    <3>1. CASE ReceiveMessage(r)
      <4>1. /\ inbound # << >> /\ inbound' = Tail(inbound)
            /\ inboundBytes' = inboundBytes + Head(inbound).size
        BY <3>1 DEF ReceiveMessage
      <4>2. QED
        BY <1>1, <2>1, <4>1, HeadGivesBack
    <3>2. CASE ~ReceiveMessage(r)
      BY <1>1, <1>11, <3>2, ReceiverMoves, StillKeepsBytes
    <3>3. QED
      BY <3>1, <3>2
  <2>3. QED
    BY <1>1, <1>2, <1>11, <2>1, <2>2, ReceiverFrame, StillKeepsPermits
<1>12. CASE UNCHANGED vars
  <2>1. /\ UNCHANGED <<writerPc, writerCmd, outbound, outboundBytes, sendPc>>
        /\ UNCHANGED <<inbound, inboundBytes, readerPc, readerMsg>>
    BY <1>12 DEF vars, writerVars, outboundVars, sendVars, inboundVars, readerVars
  <2>2. /\ PermitHolders' = PermitHolders /\ ItemsHeld' = ItemsHeld
        /\ ReaderPermit' = ReaderPermit
    BY <2>1 DEF PermitHolders, Elements, ItemsHeld, ReaderPermit
  <2>3. InboundBudget'
    BY <1>1, <2>1, <2>2 DEF InboundBudget, BytesIn, Sizes
  <2>4. QED
    BY <1>1, <1>2, <2>1, <2>2, <2>3, PermitsKept
<1>13. QED
  BY <1>4, <1>5, <1>6, <1>7, <1>8, <1>9, <1>10, <1>11, <1>12 DEF Next

\* Permits given and permits held add up in every reachable state
\* (driver.rs:246-321, 536-573, 626-691).
THEOREM BudgetInvHolds == Spec => []BudgetInv
<1>1. TypeOK /\ OutcomeInv /\ FlowInv /\ BudgetInv /\ [Next]_vars => BudgetInv'
  BY NextKeepsBudgets
<1>2. QED
  BY <1>1, InitBudget, TypeCorrect, OutcomeFirst, FlowInvHolds, PTL DEF Spec

\* Every outbound byte permit is held by exactly one unfinished send and comes
\* back once, and reserved and queued items never exceed max_queue
\* (driver.rs:246-301, 626-645).
THEOREM OutboundBudgetHolds == Spec => []OutboundBudget
<1>1. BudgetInv => OutboundBudget
  BY DEF BudgetInv
<1>2. QED
  BY <1>1, BudgetInvHolds, PTL

\* The same of the queued messages and the one the reader is about to queue
\* (driver.rs:536-573, 314-321).
THEOREM InboundBudgetHolds == Spec => []InboundBudget
<1>1. BudgetInv => InboundBudget
  BY DEF BudgetInv
<1>2. QED
  BY <1>1, BudgetInvHolds, PTL

=============================================================================
