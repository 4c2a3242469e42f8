----------------------------- MODULE FiniteSums ------------------------------
(* Facts about SumFunction and SumFunctionOnSet of the community modules, for *)
(* functions with integer values: what the stocks, rows and plans of          *)
(* Workspace are computed with.                                               *)
(*                                                                            *)
(* They are proved by induction on finite sets. As a set of sets that is      *)
(* closed under adding an element stands for the induction's hypothesis,      *)
(* the lemma FiniteSetInduction takes no operator, and can be instantiated.   *)
EXTENDS Integers, Functions, FiniteSets, FiniteSetTheorems, WellFoundedInduction, TLAPS

\* Of the subsets of a finite set that are of a kind, one has none below it.
LEMMA SmallestSubset ==
  ASSUME NEW D, IsFiniteSet(D), NEW G, G \subseteq SUBSET D, G # {}
  PROVE  \E S \in G : \A T \in G : T \subseteq S => T = S
<1>1. G \subseteq FiniteSubsetsOf(D)
  BY FS_Subset DEF FiniteSubsetsOf
<1>2. IsWellFoundedOn(StrictSubsetOrdering(D), FiniteSubsetsOf(D))
  BY FS_StrictSubsetOrderingWellFounded
<1>3. PICK S \in G : \A T \in G : ~(<<T, S>> \in StrictSubsetOrdering(D))
  BY <1>1, <1>2, WFMin
<1>4. \A T \in G : T \subseteq S => T = S
  BY <1>3 DEF StrictSubsetOrdering
<1> QED  BY <1>4

\* What holds of the empty set, and of a set with one more element if it holds of
\* the set, holds of every finite set.
LEMMA FiniteSetInduction ==
  ASSUME NEW D, IsFiniteSet(D), NEW G, {} \in G,
         \A S \in SUBSET D : \A x \in D \ S : S \in G => S \cup {x} \in G
  PROVE  D \in G
<1> SUFFICES ASSUME D \notin G PROVE FALSE
  OBVIOUS
<1> DEFINE Bad == (SUBSET D) \ G
<1>1. PICK S \in Bad : \A T \in Bad : T \subseteq S => T = S
  <2>1. Bad \subseteq SUBSET D /\ Bad # {}
    OBVIOUS
  <2> HIDE DEF Bad
  <2> QED  BY <2>1, SmallestSubset
<1>2. PICK x \in S : TRUE
  BY <1>1
<1>3. S \ {x} \in G
  BY <1>1, <1>2
<1>4. (S \ {x}) \cup {x} = S
  BY <1>2
<1> QED  BY <1>1, <1>2, <1>3, <1>4

\* A sum of f over the subsets of D, whatever the order of the summands.
IsSum(g, f, D) ==
  /\ g \in [SUBSET D -> Int]
  /\ g[{}] = 0
  /\ \A S \in SUBSET D : \A x \in D \ S : g[S \cup {x}] = f[x] + g[S]

LEMMA SumExists ==
  ASSUME NEW D, IsFiniteSet(D), NEW f, \A x \in D : f[x] \in Int
  PROVE  \E g : IsSum(g, f, D)
<1> DEFINE G == {S \in SUBSET D : \E g : IsSum(g, f, S)}
<1>1. {} \in G
  <2> DEFINE g == [S \in SUBSET {} |-> 0]
  <2>1. IsSum(g, f, {})
    BY DEF IsSum
  <2> QED  BY <2>1
<1>2. ASSUME NEW S \in SUBSET D, NEW a \in D \ S, S \in G
      PROVE  S \cup {a} \in G
  <2>1. PICK g : IsSum(g, f, S)
    BY <1>2
  <2> DEFINE h == [T \in SUBSET (S \cup {a}) |-> IF a \in T THEN f[a] + g[T \ {a}] ELSE g[T]]
  <2>2. ASSUME NEW T \in SUBSET (S \cup {a})  PROVE h[T] \in Int
    <3>1. T \ {a} \in SUBSET S /\ (a \notin T => T \in SUBSET S)
      OBVIOUS
    <3> QED  BY <2>1, <3>1 DEF IsSum
  <2>3. h[{}] = 0
    BY <2>1 DEF IsSum
  <2>4. ASSUME NEW T \in SUBSET (S \cup {a}), NEW x \in (S \cup {a}) \ T
        PROVE  h[T \cup {x}] = f[x] + h[T]
    <3>1. CASE x = a
      <4>1. (T \cup {x}) \ {a} = T /\ T \in SUBSET S /\ a \in T \cup {x}
        BY <3>1
      <4> QED  BY <3>1, <4>1
    <3>2. CASE x # a /\ a \in T
      <4>1. (T \cup {x}) \ {a} = (T \ {a}) \cup {x} /\ x \in S \ (T \ {a}) /\ T \ {a} \in SUBSET S
        BY <3>2
      <4>2. g[(T \ {a}) \cup {x}] = f[x] + g[T \ {a}] /\ g[T \ {a}] \in Int
        BY <2>1, <4>1 DEF IsSum
      <4>3. h[T \cup {x}] = f[a] + g[(T \ {a}) \cup {x}] /\ h[T] = f[a] + g[T \ {a}]
        BY <3>2, <4>1
      <4>4. f[a] \in Int /\ f[x] \in Int
        BY <4>1
      <4> HIDE DEF h
      <4> QED  BY <4>2, <4>3, <4>4
    <3>3. CASE x # a /\ a \notin T
      <4>1. T \in SUBSET S /\ x \in S \ T /\ a \notin T \cup {x} /\ T \cup {x} \in SUBSET (S \cup {a})
        BY <3>3
      <4> QED  BY <2>1, <3>3, <4>1 DEF IsSum
    <3> QED  BY <3>1, <3>2, <3>3
  <2>5. IsSum(h, f, S \cup {a})
    <3>1. h \in [SUBSET (S \cup {a}) -> Int]
      BY <2>2
    <3> HIDE DEF h
    <3> QED  BY <3>1, <2>3, <2>4 DEF IsSum
  <2> QED  BY <2>5
<1> HIDE DEF G
<1>3. D \in G
  BY <1>1, <1>2, FiniteSetInduction
<1> QED  BY <1>3 DEF G

\* The function that the fold recurs by.
Iterates(iter, f, S) ==
  iter = [T \in SUBSET S |-> IF T = {} THEN 0
                             ELSE f[CHOOSE x \in T : TRUE] + iter[T \ {CHOOSE x \in T : TRUE}]]

LEMMA SumIterates ==
  ASSUME NEW S, NEW f, NEW g, IsSum(g, f, S)
  PROVE  Iterates(g, f, S)
<1>1. ASSUME NEW T \in SUBSET S, T # {}
      PROVE  g[T] = f[CHOOSE x \in T : TRUE] + g[T \ {CHOOSE x \in T : TRUE}]
  <2> DEFINE a == CHOOSE x \in T : TRUE
  <2>1. a \in T
    BY <1>1
  <2> HIDE DEF a
  <2>2. T \ {a} \in SUBSET S /\ a \in S \ (T \ {a}) /\ (T \ {a}) \cup {a} = T
    BY <2>1
  <2>3. g[T] = f[a] + g[T \ {a}]
    BY <2>2 DEF IsSum
  <2> QED  BY <2>3 DEF a
<1>2. g[{}] = 0 /\ g = [T \in SUBSET S |-> g[T]]
  BY DEF IsSum
<1> DEFINE r == [T \in SUBSET S |-> IF T = {} THEN 0
                             ELSE f[CHOOSE x \in T : TRUE] + g[T \ {CHOOSE x \in T : TRUE}]]
<1>3. \A T \in SUBSET S : g[T] = r[T]
  BY <1>1, <1>2
<1>4. g = r
  BY <1>2, <1>3
<1> QED  BY <1>4 DEF Iterates

LEMMA IteratesOnce ==
  ASSUME NEW S, IsFiniteSet(S), NEW f, NEW g, NEW h, Iterates(g, f, S), Iterates(h, f, S)
  PROVE  g = h
<1>0. /\ g = [T \in SUBSET S |-> g[T]] /\ h = [T \in SUBSET S |-> h[T]]
      /\ \A T \in SUBSET S :
           /\ g[T] = IF T = {} THEN 0 ELSE f[CHOOSE x \in T : TRUE] + g[T \ {CHOOSE x \in T : TRUE}]
           /\ h[T] = IF T = {} THEN 0 ELSE f[CHOOSE x \in T : TRUE] + h[T \ {CHOOSE x \in T : TRUE}]
  BY DEF Iterates
<1> SUFFICES ASSUME g # h PROVE FALSE
  OBVIOUS
<1> DEFINE Bad == {T \in SUBSET S : g[T] # h[T]}
<1>1. PICK T \in Bad : \A U \in Bad : U \subseteq T => U = T
  <2>1. Bad # {} /\ Bad \subseteq SUBSET S
    BY <1>0
  <2> HIDE DEF Bad
  <2> QED  BY <2>1, SmallestSubset
<1>2. T # {}
  BY <1>0, <1>1
<1> DEFINE a == CHOOSE x \in T : TRUE
<1>3. a \in T
  BY <1>2
<1>4. g[T] = f[a] + g[T \ {a}] /\ h[T] = f[a] + h[T \ {a}]
  BY <1>0, <1>1, <1>2
<1> HIDE DEF a
<1>5. g[T \ {a}] = h[T \ {a}]
  BY <1>1, <1>3
<1> QED  BY <1>1, <1>4, <1>5

\* SumFunctionOnSet is the sum.
LEMMA SumOnSet ==
  ASSUME NEW D, IsFiniteSet(D), NEW f, NEW g, IsSum(g, f, D), NEW S \in SUBSET D
  PROVE  SumFunctionOnSet(f, S) = g[S]
<1> DEFINE r == [T \in SUBSET S |-> g[T]]
<1>1. IsSum(r, f, S)
  <2>1. r \in [SUBSET S -> Int] /\ r[{}] = 0
    BY DEF IsSum
  <2>2. ASSUME NEW T \in SUBSET S, NEW x \in S \ T  PROVE r[T \cup {x}] = f[x] + r[T]
    <3>1. T \in SUBSET D /\ x \in D \ T /\ T \cup {x} \in SUBSET S
      OBVIOUS
    <3>2. g[T \cup {x}] = f[x] + g[T]
      BY <3>1 DEF IsSum
    <3> QED  BY <3>1, <3>2
  <2> HIDE DEF r
  <2> QED  BY <2>1, <2>2 DEF IsSum
<1>2. r[S] = g[S]
  OBVIOUS
<1> HIDE DEF r
<1>3. Iterates(r, f, S)
  BY <1>1, SumIterates
<1>4. IsFiniteSet(S)
  BY FS_Subset
<1>5. \A h : Iterates(h, f, S) => h = r
  BY <1>3, <1>4, IteratesOnce
<1>6. SumFunctionOnSet(f, S) = r[S]
  BY <1>3, <1>5 DEF SumFunctionOnSet, FoldFunctionOnSet, MapThenFoldSet, Iterates
<1> QED  BY <1>2, <1>6

\* The sum over no element, and over one more, in any order.
LEMMA SumEmpty ==
  ASSUME NEW f
  PROVE  SumFunctionOnSet(f, {}) = 0
<1>1. IsFiniteSet({}) /\ \A x \in {} : f[x] \in Int
  BY FS_EmptySet
<1>2. PICK g : IsSum(g, f, {})
  BY <1>1, SumExists
<1>3. SumFunctionOnSet(f, {}) = g[{}]
  BY <1>1, <1>2, SumOnSet
<1> QED  BY <1>2, <1>3 DEF IsSum

LEMMA SumMore ==
  ASSUME NEW D, IsFiniteSet(D), NEW f, \A x \in D : f[x] \in Int, NEW S \in SUBSET D
  PROVE  /\ SumFunctionOnSet(f, S) \in Int
         /\ \A x \in D \ S : SumFunctionOnSet(f, S \cup {x}) = f[x] + SumFunctionOnSet(f, S)
<1>1. PICK g : IsSum(g, f, D)
  BY SumExists
<1>2. \A T \in SUBSET D : SumFunctionOnSet(f, T) = g[T]
  BY <1>1, SumOnSet
<1>3. \A x \in D \ S : S \cup {x} \in SUBSET D
  OBVIOUS
<1> QED  BY <1>1, <1>2, <1>3 DEF IsSum

\* Sums of equal, of smaller and of natural summands.
LEMMA SumLe ==
  ASSUME NEW D, IsFiniteSet(D), NEW f, NEW g,
         \A x \in D : f[x] \in Int /\ g[x] \in Int /\ f[x] <= g[x]
  PROVE  SumFunctionOnSet(f, D) <= SumFunctionOnSet(g, D)
<1> DEFINE G == {S \in SUBSET D : SumFunctionOnSet(f, S) <= SumFunctionOnSet(g, S)}
<1>1. {} \in G
  BY SumEmpty
<1>2. ASSUME NEW S \in SUBSET D, NEW x \in D \ S, S \in G  PROVE S \cup {x} \in G
  <2>1. /\ SumFunctionOnSet(f, S \cup {x}) = f[x] + SumFunctionOnSet(f, S)
        /\ SumFunctionOnSet(f, S) \in Int
    BY SumMore
  <2>2. /\ SumFunctionOnSet(g, S \cup {x}) = g[x] + SumFunctionOnSet(g, S)
        /\ SumFunctionOnSet(g, S) \in Int
    BY SumMore
  <2> QED  BY <1>2, <2>1, <2>2
<1> HIDE DEF G
<1>3. D \in G
  BY <1>1, <1>2, FiniteSetInduction
<1> QED  BY <1>3 DEF G

LEMMA SumEq ==
  ASSUME NEW D, IsFiniteSet(D), NEW f, NEW g, \A x \in D : f[x] \in Int /\ g[x] = f[x]
  PROVE  SumFunctionOnSet(f, D) = SumFunctionOnSet(g, D)
<1>1. SumFunctionOnSet(f, D) <= SumFunctionOnSet(g, D)
  BY SumLe
<1>2. SumFunctionOnSet(g, D) <= SumFunctionOnSet(f, D)
  BY SumLe
<1>3. SumFunctionOnSet(f, D) \in Int /\ SumFunctionOnSet(g, D) \in Int
  BY SumMore
<1> QED  BY <1>1, <1>2, <1>3

LEMMA SumNat ==
  ASSUME NEW D, IsFiniteSet(D), NEW f, \A x \in D : f[x] \in Nat
  PROVE  SumFunctionOnSet(f, D) \in Nat
<1> DEFINE G == {S \in SUBSET D : SumFunctionOnSet(f, S) \in Nat}
<1>1. {} \in G
  BY SumEmpty
<1>2. ASSUME NEW S \in SUBSET D, NEW x \in D \ S, S \in G  PROVE S \cup {x} \in G
  <2>1. SumFunctionOnSet(f, S \cup {x}) = f[x] + SumFunctionOnSet(f, S)
    BY SumMore
  <2> QED  BY <1>2, <2>1
<1> HIDE DEF G
<1>3. D \in G
  BY <1>1, <1>2, FiniteSetInduction
<1> QED  BY <1>3 DEF G

\* The sum of sums, and the multiple of a sum.
LEMMA SumAdd ==
  ASSUME NEW D, IsFiniteSet(D), NEW f, NEW g, NEW h,
         \A x \in D : f[x] \in Int /\ g[x] \in Int /\ h[x] = f[x] + g[x]
  PROVE  SumFunctionOnSet(h, D) = SumFunctionOnSet(f, D) + SumFunctionOnSet(g, D)
<1> DEFINE G == {S \in SUBSET D :
                   SumFunctionOnSet(h, S) = SumFunctionOnSet(f, S) + SumFunctionOnSet(g, S)}
<1>1. {} \in G
  BY SumEmpty
<1>2. ASSUME NEW S \in SUBSET D, NEW x \in D \ S, S \in G  PROVE S \cup {x} \in G
  <2>1. /\ SumFunctionOnSet(f, S \cup {x}) = f[x] + SumFunctionOnSet(f, S)
        /\ SumFunctionOnSet(f, S) \in Int
    BY SumMore
  <2>2. /\ SumFunctionOnSet(g, S \cup {x}) = g[x] + SumFunctionOnSet(g, S)
        /\ SumFunctionOnSet(g, S) \in Int
    BY SumMore
  <2>3. \A y \in D : h[y] \in Int
    OBVIOUS
  <2>4. SumFunctionOnSet(h, S \cup {x}) = h[x] + SumFunctionOnSet(h, S)
    BY <2>3, SumMore
  <2> QED  BY <1>2, <2>1, <2>2, <2>4
<1> HIDE DEF G
<1>3. D \in G
  BY <1>1, <1>2, FiniteSetInduction
<1> QED  BY <1>3 DEF G

LEMMA SumTimes ==
  ASSUME NEW D, IsFiniteSet(D), NEW f, NEW h, NEW c \in Int,
         \A x \in D : f[x] \in Int /\ h[x] = c * f[x]
  PROVE  SumFunctionOnSet(h, D) = c * SumFunctionOnSet(f, D)
<1> DEFINE G == {S \in SUBSET D : SumFunctionOnSet(h, S) = c * SumFunctionOnSet(f, S)}
<1>1. {} \in G
  BY SumEmpty
<1>2. ASSUME NEW S \in SUBSET D, NEW x \in D \ S, S \in G  PROVE S \cup {x} \in G
  <2>1. /\ SumFunctionOnSet(f, S \cup {x}) = f[x] + SumFunctionOnSet(f, S)
        /\ SumFunctionOnSet(f, S) \in Int
    BY SumMore
  <2>2. \A y \in D : h[y] \in Int
    OBVIOUS
  <2>3. SumFunctionOnSet(h, S \cup {x}) = h[x] + SumFunctionOnSet(h, S)
    BY <2>2, SumMore
  <2>4. h[x] = c * f[x] /\ SumFunctionOnSet(h, S) = c * SumFunctionOnSet(f, S) /\ f[x] \in Int
    BY <1>2
  <2>5. \A p, q \in Int : c * (p + q) = c * p + c * q
    OBVIOUS
  <2>6. c * (f[x] + SumFunctionOnSet(f, S)) = c * f[x] + c * SumFunctionOnSet(f, S)
    BY <2>1, <2>4, <2>5
  <2> QED  BY <2>1, <2>3, <2>4, <2>6
<1> HIDE DEF G
<1>3. D \in G
  BY <1>1, <1>2, FiniteSetInduction
<1> QED  BY <1>3 DEF G

\* A sum with one summand alone, and one of natural numbers with all and some.
LEMMA SumZero ==
  ASSUME NEW D, IsFiniteSet(D), NEW f, \A x \in D : f[x] = 0
  PROVE  SumFunctionOnSet(f, D) = 0
<1>1. \A x \in D : f[x] \in Int /\ f[x] = 0 * f[x]
  OBVIOUS
<1>2. SumFunctionOnSet(f, D) = 0 * SumFunctionOnSet(f, D)
  BY <1>1, SumTimes
<1>3. SumFunctionOnSet(f, D) \in Int
  BY <1>1, SumMore
<1> QED  BY <1>2, <1>3

LEMMA SumRest ==
  ASSUME NEW D, IsFiniteSet(D), NEW f, \A x \in D : f[x] \in Int, NEW a \in D
  PROVE  SumFunctionOnSet(f, D) = f[a] + SumFunctionOnSet(f, D \ {a})
<1> DEFINE S == D \ {a}
<1>1. S \in SUBSET D /\ a \in D \ S /\ S \cup {a} = D
  OBVIOUS
<1> HIDE DEF S
<1>2. SumFunctionOnSet(f, S \cup {a}) = f[a] + SumFunctionOnSet(f, S)
  BY <1>1, SumMore
<1>3. SumFunctionOnSet(f, D) = f[a] + SumFunctionOnSet(f, S)
  BY <1>1, <1>2
<1> QED  BY <1>3 DEF S

LEMMA SumSingle ==
  ASSUME NEW D, IsFiniteSet(D), NEW f, NEW a \in D, f[a] \in Int, \A x \in D \ {a} : f[x] = 0
  PROVE  SumFunctionOnSet(f, D) = f[a]
<1>1. \A x \in D : f[x] \in Int
  OBVIOUS
<1>2. IsFiniteSet(D \ {a})
  BY FS_RemoveElement
<1>3. SumFunctionOnSet(f, D \ {a}) = 0
  BY <1>2, SumZero
<1> QED  BY <1>1, <1>3, SumRest

LEMMA SumAtLeast ==
  ASSUME NEW D, IsFiniteSet(D), NEW f, \A x \in D : f[x] \in Nat, NEW a \in D
  PROVE  f[a] <= SumFunctionOnSet(f, D)
<1>1. SumFunctionOnSet(f, D) = f[a] + SumFunctionOnSet(f, D \ {a})
  BY SumRest
<1>2. IsFiniteSet(D \ {a})
  BY FS_RemoveElement
<1>3. SumFunctionOnSet(f, D \ {a}) \in Nat
  BY <1>2, SumNat
<1> QED  BY <1>1, <1>3

LEMMA SumOfSome ==
  ASSUME NEW D, IsFiniteSet(D), NEW f, \A x \in D : f[x] \in Nat, NEW S \in SUBSET D
  PROVE  SumFunctionOnSet(f, S) <= SumFunctionOnSet(f, D)
<1> DEFINE G == {T \in SUBSET D : SumFunctionOnSet(f, S \cap T) <= SumFunctionOnSet(f, T)}
<1>1. {} \in G
  <2>1. S \cap {} = {}
    OBVIOUS
  <2>2. SumFunctionOnSet(f, {}) = 0
    BY SumEmpty
  <2>3. SumFunctionOnSet(f, S \cap {}) <= SumFunctionOnSet(f, {})
    BY <2>1, <2>2
  <2> QED  BY <2>3
<1>2. ASSUME NEW T \in SUBSET D, NEW x \in D \ T, T \in G  PROVE T \cup {x} \in G
  <2>1. /\ SumFunctionOnSet(f, T \cup {x}) = f[x] + SumFunctionOnSet(f, T)
        /\ SumFunctionOnSet(f, T) \in Int
    BY SumMore
  <2>2. CASE x \in S
    <3> DEFINE U == S \cap T
    <3>1. U \in SUBSET D /\ x \in D \ U /\ S \cap (T \cup {x}) = U \cup {x}
      BY <2>2
    <3>0. SumFunctionOnSet(f, S \cap T) = SumFunctionOnSet(f, U)
      OBVIOUS
    <3> HIDE DEF U
    <3>2. /\ SumFunctionOnSet(f, U \cup {x}) = f[x] + SumFunctionOnSet(f, U)
          /\ SumFunctionOnSet(f, U) \in Int
      BY <3>1, SumMore
    <3>3. SumFunctionOnSet(f, U) <= SumFunctionOnSet(f, T) /\ f[x] \in Int
      BY <1>2, <3>0
    <3>4. SumFunctionOnSet(f, U \cup {x}) <= SumFunctionOnSet(f, T \cup {x})
      BY <2>1, <3>2, <3>3
    <3>5. SumFunctionOnSet(f, S \cap (T \cup {x})) <= SumFunctionOnSet(f, T \cup {x})
      BY <3>1, <3>4
    <3> QED  BY <3>5
  <2>3. CASE x \notin S
    <3>1. S \cap (T \cup {x}) = S \cap T /\ S \cap T \in SUBSET D
      BY <2>3
    <3>2. SumFunctionOnSet(f, S \cap T) \in Int
      BY <3>1, SumMore
    <3>3. SumFunctionOnSet(f, S \cap T) <= SumFunctionOnSet(f, T) /\ f[x] \in Nat
      BY <1>2
    <3>4. SumFunctionOnSet(f, S \cap (T \cup {x})) <= SumFunctionOnSet(f, T \cup {x})
      BY <2>1, <3>1, <3>2, <3>3
    <3> QED  BY <3>4
  <2> QED  BY <2>2, <2>3
<1> HIDE DEF G
<1>3. D \in G
  BY <1>1, <1>2, FiniteSetInduction
<1>4. S \cap D = S
  OBVIOUS
<1> QED  BY <1>3, <1>4 DEF G

\* Rows and columns of a table may be added up in either order.
LEMMA SumExchange ==
  ASSUME NEW I, IsFiniteSet(I), NEW J, IsFiniteSet(J), NEW h,
         \A i \in I, j \in J : h[i][j] \in Int
  PROVE  SumFunctionOnSet([i \in I |-> SumFunctionOnSet(h[i], J)], I)
           = SumFunctionOnSet([j \in J |-> SumFunctionOnSet([i \in I |-> h[i][j]], I)], J)
<1> DEFINE rows == [i \in I |-> SumFunctionOnSet(h[i], J)]
           column(j) == [i \in I |-> h[i][j]]
           columns(S) == [j \in J |-> SumFunctionOnSet(column(j), S)]
           G == {S \in SUBSET I : SumFunctionOnSet(rows, S) = SumFunctionOnSet(columns(S), J)}
<1>1. {} \in G
  <2>1. \A j \in J : columns({})[j] = 0
    BY SumEmpty
  <2>2. SumFunctionOnSet(columns({}), J) = 0
    <3> HIDE DEF columns
    <3> QED  BY <2>1, SumZero
  <2>3. SumFunctionOnSet(rows, {}) = 0
    BY SumEmpty
  <2> QED  BY <2>2, <2>3
<1>2. ASSUME NEW S \in SUBSET I, NEW x \in I \ S, S \in G  PROVE S \cup {x} \in G
  <2>1. \A i \in I : rows[i] \in Int
    BY SumMore
  <2>2. SumFunctionOnSet(rows, S \cup {x}) = rows[x] + SumFunctionOnSet(rows, S)
    <3> HIDE DEF rows
    <3> QED  BY <2>1, SumMore
  <2>3. ASSUME NEW j \in J
        PROVE  /\ columns(S)[j] \in Int
               /\ columns(S \cup {x})[j] = h[x][j] + columns(S)[j]
    <3>1. \A i \in I : column(j)[i] \in Int
      OBVIOUS
    <3>2. /\ SumFunctionOnSet(column(j), S) \in Int
          /\ SumFunctionOnSet(column(j), S \cup {x}) = column(j)[x] + SumFunctionOnSet(column(j), S)
      <4> HIDE DEF column
      <4> QED  BY <3>1, SumMore
    <3>3. column(j)[x] = h[x][j]
      OBVIOUS
    <3> HIDE DEF column
    <3> QED  BY <3>2, <3>3
  <2>4. SumFunctionOnSet(columns(S \cup {x}), J)
          = SumFunctionOnSet(h[x], J) + SumFunctionOnSet(columns(S), J)
    <3> HIDE DEF columns
    <3> QED  BY <2>3, SumAdd
  <2>5. rows[x] = SumFunctionOnSet(h[x], J)
    OBVIOUS
  <2>6. SumFunctionOnSet(rows, S) = SumFunctionOnSet(columns(S), J)
    BY <1>2
  <2> HIDE DEF rows, columns
  <2> QED  BY <2>2, <2>4, <2>5, <2>6 DEF G
<1> HIDE DEF G
<1>3. I \in G
  BY <1>1, <1>2, FiniteSetInduction
<1> QED  BY <1>3 DEF G
=============================================================================
