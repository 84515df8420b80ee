-------------------------------- MODULE Sums --------------------------------
(***************************************************************************)
(* The books of the payment handlers are sums over rows of a table.  The   *)
(* sum of a function over a finite set goes through the set in an order    *)
(* that is not specified, so what it computes has to be shown not to       *)
(* depend on it: each lemma takes a smallest set for which it would fail.  *)
(* So it is with the sources of an allocation, which goes through them     *)
(* from the richest to the poorest: the sets are those that hold, with     *)
(* each of their members, all that are richer.                             *)
(***************************************************************************)
EXTENDS UnifiedStablecoin, FiniteSetTheorems, WellFoundedInduction, TLAPS

\* The element that the sum takes first, and the iteration behind it on the sets in D.
Pick(s) == CHOOSE x \in s : TRUE
Iterates(f, g, D) ==
  f = [s \in D |-> IF s = {} THEN 0 ELSE g[Pick(s)] + f[s \ {Pick(s)}]]

\* SumFunctionOnSet is that iteration at the whole set.
LEMMA Unfolded ==
  ASSUME NEW g, NEW S
  PROVE  SumFunctionOnSet(g, S) = (CHOOSE f : Iterates(f, g, SUBSET S))[S]
BY DEF SumFunctionOnSet, FoldFunctionOnSet, MapThenFoldSet, Iterates, Pick

\* What is picked is in the set.
LEMMA PickIn == ASSUME NEW s, s # {} PROVE Pick(s) \in s
BY DEF Pick

\* Among finite sets there is always a smallest one.
LEMMA SmallestSet ==
  ASSUME NEW S, NEW Bad \in SUBSET FiniteSubsetsOf(S), Bad # {}
  PROVE  \E T \in Bad : \A U \in Bad : U \subseteq T => U = T
<1> DEFINE R == StrictSubsetOrdering(S)
<1>1. IsWellFoundedOn(R, FiniteSubsetsOf(S))
  BY FS_StrictSubsetOrderingWellFounded
<1>2. PICK T \in Bad : \A U \in Bad : <<U, T>> \notin R
  <2> HIDE DEF R
  <2> QED BY <1>1, WFMin
<1>3. T \in SUBSET S /\ \A U \in Bad : U \in SUBSET S
  BY DEF FiniteSubsetsOf
<1> QED BY <1>2, <1>3 DEF StrictSubsetOrdering

\* A nonempty set of naturals has a least element.
LEMMA Least ==
  ASSUME NEW T \in SUBSET Nat, T # {}
  PROVE  \E n \in T : \A m \in T : ~(m < n)
<1> DEFINE R == OpToRel(<, Nat)
<1>1. IsWellFoundedOn(R, Nat)
  BY NatLessThanWellFounded
<1>2. PICK n \in T : \A m \in T : <<m, n>> \notin R
  <2> HIDE DEF R
  <2> QED BY <1>1, WFMin
<1> QED BY <1>2 DEF OpToRel

\* There is an iteration on the subsets of n elements or less, by the least n for
\* which there were none.
Small(S, n) == {s \in SUBSET S : Cardinality(s) <= n}
LEMMA IterationsExist ==
  ASSUME NEW S, IsFiniteSet(S), NEW g
  PROVE  \A n \in Nat : \E f : Iterates(f, g, Small(S, n))
<1> DEFINE Bad == {n \in Nat : ~ \E f : Iterates(f, g, Small(S, n))}
<1> SUFFICES ASSUME Bad # {} PROVE FALSE
  OBVIOUS
<1>1. PICK n \in Bad : \A m \in Bad : ~(m < n)
  <2>1. Bad \in SUBSET Nat
    OBVIOUS
  <2> HIDE DEF Bad
  <2> QED BY <2>1, Least
<1> DEFINE D == Small(S, n)
<1>2. \A s \in SUBSET S : IsFiniteSet(s) /\ Cardinality(s) \in Nat
  BY FS_Subset, FS_CardinalityType
<1>3. CASE n = 0
  <2> DEFINE f == [s \in D |-> 0]
  <2>1. \A s \in D : s = {}
    BY <1>2, <1>3, FS_EmptySet DEF Small
  <2>2. Iterates(f, g, D)
    BY <2>1 DEF Iterates
  <2> QED BY <2>2
<1>4. CASE n # 0
  <2>1. n - 1 \in Nat /\ n - 1 \notin Bad
    BY <1>1, <1>4
  <2> DEFINE E == Small(S, n - 1)
  <2>2. PICK h : Iterates(h, g, E)
    BY <2>1
  <2> DEFINE f == [s \in D |-> IF s = {} THEN 0 ELSE g[Pick(s)] + h[s \ {Pick(s)}]]
  <2>3. \A s \in E : s \in D
    BY <1>2, <1>1 DEF Small
  <2>4. \A s \in E : f[s] = h[s]
    BY <2>2, <2>3 DEF Iterates
  <2>5. \A s \in D : s # {} => s \ {Pick(s)} \in E
    <3> SUFFICES ASSUME NEW s \in D, s # {} PROVE s \ {Pick(s)} \in E
      OBVIOUS
    <3>1. s \ {Pick(s)} \in SUBSET S /\ s \in SUBSET S /\ Cardinality(s) <= n
      BY DEF Small
    <3>2. Cardinality(s \ {Pick(s)}) = Cardinality(s) - 1
      BY <1>2, <3>1, PickIn, FS_RemoveElement
    <3> QED BY <1>2, <3>1, <3>2 DEF Small
  <2>6. Iterates(f, g, D)
    BY <2>4, <2>5 DEF Iterates
  <2> QED BY <2>6
<1> QED BY <1>3, <1>4

\* There is an iteration on all the subsets of a finite set.
LEMMA IterationExists ==
  ASSUME NEW S, IsFiniteSet(S), NEW g
  PROVE  \E f : Iterates(f, g, SUBSET S)
<1>1. Cardinality(S) \in Nat
  BY FS_CardinalityType
<1>2. Small(S, Cardinality(S)) = SUBSET S
  BY FS_Subset DEF Small
<1> QED BY <1>1, <1>2, IterationsExist

\* Two iterations agree where both are defined.
LEMMA IterationsAgree ==
  ASSUME NEW A, NEW B, IsFiniteSet(A), B \subseteq A, NEW g, NEW f, NEW h,
         Iterates(f, g, SUBSET A), Iterates(h, g, SUBSET B)
  PROVE  f[B] = h[B]
<1> DEFINE Bad == {T \in SUBSET B : f[T] # h[T]}
<1>1. \A T \in SUBSET B : IsFiniteSet(T)
  BY FS_Subset
<1>2. ASSUME Bad # {} PROVE FALSE
  <2>1. Bad \in SUBSET FiniteSubsetsOf(B)
    BY <1>1 DEF FiniteSubsetsOf
  <2>2. PICK T \in Bad : \A U \in Bad : U \subseteq T => U = T
    <3> HIDE DEF Bad
    <3> QED BY <1>2, <2>1, SmallestSet
  <2>3. T # {}
    BY DEF Iterates
  <2> DEFINE U == T \ {Pick(T)}
  <2>4. U \in SUBSET B /\ U \notin Bad
    BY <2>2, <2>3, PickIn
  <2>5. f[T] = g[Pick(T)] + f[U] /\ h[T] = g[Pick(T)] + h[U]
    BY <2>3 DEF Iterates
  <2> QED BY <2>4, <2>5
<1> QED BY <1>2

\* Nothing adds up to nothing.
LEMMA SumEmpty ==
  ASSUME NEW g PROVE SumFunctionOnSet(g, {}) = 0
<1>1. PICK f : Iterates(f, g, SUBSET {}) /\ f = CHOOSE h : Iterates(h, g, SUBSET {})
  BY IterationExists, FS_EmptySet
<1> QED BY <1>1, Unfolded DEF Iterates

\* The sum takes one element and goes on with the others.
LEMMA SumTakesFirst ==
  ASSUME NEW S, IsFiniteSet(S), S # {}, NEW g
  PROVE  SumFunctionOnSet(g, S) = g[Pick(S)] + SumFunctionOnSet(g, S \ {Pick(S)})
<1>1. PICK f : Iterates(f, g, SUBSET S) /\ f = CHOOSE h : Iterates(h, g, SUBSET S)
  BY IterationExists
<1>2. PICK U : U = S \ {Pick(S)} /\ IsFiniteSet(U) /\ U \subseteq S
  BY FS_RemoveElement
<1>3. PICK k : Iterates(k, g, SUBSET U) /\ k = CHOOSE h : Iterates(h, g, SUBSET U)
  BY <1>2, IterationExists
<1>4. f[U] = k[U]
  <2>1. U \subseteq S
    BY <1>2
  <2>2. \A x, y : Iterates(x, g, SUBSET S) /\ Iterates(y, g, SUBSET U) => x[U] = y[U]
    BY <2>1, IterationsAgree
  <2> QED BY <2>2, <1>1, <1>3
<1>5. SumFunctionOnSet(g, S) = f[S] /\ SumFunctionOnSet(g, U) = k[U]
  BY <1>1, <1>3, Unfolded
<1>6. f[S] = g[Pick(S)] + f[U]
  BY <1>1, <1>2 DEF Iterates
<1> QED BY <1>2, <1>4, <1>5, <1>6

\* A sum of integers is an integer.
LEMMA SumType ==
  ASSUME NEW S, IsFiniteSet(S), NEW g, \A x \in S : g[x] \in Int
  PROVE  SumFunctionOnSet(g, S) \in Int
<1> DEFINE Bad == {T \in SUBSET S : SumFunctionOnSet(g, T) \notin Int}
<1>1. \A T \in SUBSET S : IsFiniteSet(T)
  BY FS_Subset
<1>2. ASSUME Bad # {} PROVE FALSE
  <2>1. Bad \in SUBSET FiniteSubsetsOf(S)
    BY <1>1 DEF FiniteSubsetsOf
  <2>2. PICK T \in Bad : \A U \in Bad : U \subseteq T => U = T
    <3> HIDE DEF Bad
    <3> QED BY <1>2, <2>1, SmallestSet
  <2>3. T # {}
    BY SumEmpty
  <2> DEFINE U == T \ {Pick(T)}
  <2>4. Pick(T) \in T /\ U \in SUBSET S /\ U # T /\ U \subseteq T
    BY <2>2, <2>3, PickIn
  <2>5. SumFunctionOnSet(g, U) \in Int
    BY <2>2, <2>4
  <2>6. SumFunctionOnSet(g, T) = g[Pick(T)] + SumFunctionOnSet(g, U)
    BY <1>1, <2>3, SumTakesFirst
  <2> QED BY <2>2, <2>4, <2>5, <2>6
<1> QED BY <1>2

\* Any element can be taken first.
LEMMA SumRemove ==
  ASSUME NEW S, IsFiniteSet(S), NEW g, \A x \in S : g[x] \in Int
  PROVE  \A x \in S : SumFunctionOnSet(g, S) = g[x] + SumFunctionOnSet(g, S \ {x})
<1> DEFINE Split(T, x) ==
      SumFunctionOnSet(g, T) = g[x] + SumFunctionOnSet(g, T \ {x})
<1> DEFINE Bad == {T \in SUBSET S : \E x \in T : ~Split(T, x)}
<1>1. \A T \in SUBSET S : IsFiniteSet(T) /\ SumFunctionOnSet(g, T) \in Int
  BY FS_Subset, SumType
<1>2. ASSUME Bad # {} PROVE FALSE
  <2>1. Bad \in SUBSET FiniteSubsetsOf(S)
    BY <1>1 DEF FiniteSubsetsOf
  <2>2. PICK T \in Bad : \A U \in Bad : U \subseteq T => U = T
    <3> HIDE DEF Bad
    <3> QED BY <1>2, <2>1, SmallestSet
  <2>3. PICK x \in T : ~Split(T, x)
    OBVIOUS
  <2> DEFINE c == Pick(T)
  <2>4. c \in T /\ Split(T, c)
    BY <1>1, <2>3, PickIn, SumTakesFirst
  <2>5. x # c
    BY <2>3, <2>4
  <2> HIDE DEF c
  <2>6. T \ {c} \in SUBSET S /\ T \ {x} \in SUBSET S /\ T \ {c, x} \in SUBSET S
        /\ T \ {c} \notin Bad /\ T \ {x} \notin Bad
    BY <2>2, <2>3, <2>4
  <2>7. (T \ {c}) \ {x} = T \ {c, x} /\ (T \ {x}) \ {c} = T \ {c, x}
    OBVIOUS
  <2>8. x \in T \ {c} /\ c \in T \ {x}
    BY <2>4, <2>5
  <2>9. Split(T \ {c}, x) /\ Split(T \ {x}, c)
    BY <2>6, <2>8
  <2> DEFINE s == SumFunctionOnSet(g, T \ {c, x})
  <2>10. /\ SumFunctionOnSet(g, T \ {c}) = g[x] + s
         /\ SumFunctionOnSet(g, T \ {x}) = g[c] + s
    BY <2>7, <2>9
  <2>11. SumFunctionOnSet(g, T) = g[c] + SumFunctionOnSet(g, T \ {c})
    BY <2>4
  <2>12. g[c] \in Int /\ g[x] \in Int /\ s \in Int
    BY <1>1, <2>4, <2>6
  <2>13. SumFunctionOnSet(g, T) # g[x] + SumFunctionOnSet(g, T \ {x})
    BY <2>3
  <2> HIDE DEF s
  <2> QED BY <2>10, <2>11, <2>12, <2>13
<1> QED BY <1>2

\* The sum over a set with one element more.
LEMMA SumAdd ==
  ASSUME NEW S, IsFiniteSet(S), NEW g, NEW x, x \notin S, g[x] \in Int,
         \A y \in S : g[y] \in Int
  PROVE  SumFunctionOnSet(g, S \cup {x}) = SumFunctionOnSet(g, S) + g[x]
<1>1. IsFiniteSet(S \cup {x}) /\ (S \cup {x}) \ {x} = S
  BY FS_AddElement
<1>2. SumFunctionOnSet(g, S \cup {x}) = g[x] + SumFunctionOnSet(g, S)
  BY <1>1, SumRemove
<1> QED BY <1>2, SumType

\* The sum depends on the function at the elements of the set alone.
LEMMA SumSame ==
  ASSUME NEW S, IsFiniteSet(S), NEW g, NEW h, \A x \in S : g[x] = h[x]
  PROVE  SumFunctionOnSet(g, S) = SumFunctionOnSet(h, S)
<1> DEFINE Bad == {T \in SUBSET S : SumFunctionOnSet(g, T) # SumFunctionOnSet(h, T)}
<1>1. \A T \in SUBSET S : IsFiniteSet(T)
  BY FS_Subset
<1>2. ASSUME Bad # {} PROVE FALSE
  <2>1. Bad \in SUBSET FiniteSubsetsOf(S)
    BY <1>1 DEF FiniteSubsetsOf
  <2>2. PICK T \in Bad : \A U \in Bad : U \subseteq T => U = T
    <3> HIDE DEF Bad
    <3> QED BY <1>2, <2>1, SmallestSet
  <2>3. T # {}
    BY SumEmpty
  <2> DEFINE U == T \ {Pick(T)}
  <2>4. Pick(T) \in T /\ U \in SUBSET S /\ U # T /\ U \subseteq T
    BY <2>2, <2>3, PickIn
  <2>5. SumFunctionOnSet(g, U) = SumFunctionOnSet(h, U) /\ g[Pick(T)] = h[Pick(T)]
    BY <2>2, <2>4
  <2>6. /\ SumFunctionOnSet(g, T) = g[Pick(T)] + SumFunctionOnSet(g, U)
        /\ SumFunctionOnSet(h, T) = h[Pick(T)] + SumFunctionOnSet(h, U)
    BY <1>1, <2>3, SumTakesFirst
  <2> QED BY <2>2, <2>5, <2>6
<1> QED BY <1>2

\* The sum of a function that rises by n at one element of the set rises by n.
LEMMA SumRises ==
  ASSUME NEW S, IsFiniteSet(S), NEW g, NEW h, NEW x \in S, NEW n \in Int,
         \A y \in S : g[y] \in Int, h[x] = g[x] + n, \A y \in S \ {x} : h[y] = g[y]
  PROVE  SumFunctionOnSet(h, S) = SumFunctionOnSet(g, S) + n
<1> DEFINE U == S \ {x}
<1>1. IsFiniteSet(U) /\ \A y \in U : g[y] \in Int /\ h[y] = g[y]
  BY FS_RemoveElement
<1>2. SumFunctionOnSet(h, U) = SumFunctionOnSet(g, U)
  BY <1>1, SumSame
<1>3. \A y \in S : h[y] \in Int
  OBVIOUS
<1>4. /\ SumFunctionOnSet(g, S) = g[x] + SumFunctionOnSet(g, U)
      /\ SumFunctionOnSet(h, S) = h[x] + SumFunctionOnSet(h, U)
  BY <1>3, SumRemove
<1>5. SumFunctionOnSet(g, U) \in Int
  BY <1>1, SumType
<1> QED BY <1>2, <1>4, <1>5

\* Two sets that differ at x alone have sums that differ by what x adds to each.
LEMMA SumDiffers ==
  ASSUME NEW S, NEW T, IsFiniteSet(S), IsFiniteSet(T), NEW x, S \ {x} = T \ {x},
         NEW g, g[x] \in Int, \A y \in S \cup T : g[y] \in Int
  PROVE  /\ SumFunctionOnSet(g, S) \in Int
         /\ x \in T /\ x \notin S =>
              SumFunctionOnSet(g, T) = SumFunctionOnSet(g, S) + g[x]
         /\ x \in S /\ x \notin T =>
              SumFunctionOnSet(g, T) = SumFunctionOnSet(g, S) - g[x]
         /\ (x \in S <=> x \in T) => SumFunctionOnSet(g, T) = SumFunctionOnSet(g, S)
<1>1. SumFunctionOnSet(g, S) \in Int /\ SumFunctionOnSet(g, T) \in Int
  BY SumType
<1>2. ASSUME x \in T, x \notin S
      PROVE  SumFunctionOnSet(g, T) = SumFunctionOnSet(g, S) + g[x]
  <2>1. T = S \cup {x}
    BY <1>2
  <2> QED BY <1>2, <2>1, SumAdd
<1>3. ASSUME x \in S, x \notin T
      PROVE  SumFunctionOnSet(g, T) = SumFunctionOnSet(g, S) - g[x]
  <2>1. S = T \cup {x}
    BY <1>3
  <2>2. SumFunctionOnSet(g, S) = SumFunctionOnSet(g, T) + g[x]
    BY <1>3, <2>1, SumAdd
  <2> QED BY <1>1, <2>2
<1>4. (x \in S <=> x \in T) => S = T
  OBVIOUS
<1> QED BY <1>1, <1>2, <1>3, <1>4
-----------------------------------------------------------------------------
(* Sums of balances                                                        *)

\* A sum of balances that are not negative is not negative.
LEMMA SumNat ==
  ASSUME NEW S, IsFiniteSet(S), NEW a, \A x \in S : a[x] \in Nat
  PROVE  SumFunctionOnSet(a, S) \in Nat
<1> DEFINE Bad == {T \in SUBSET S : SumFunctionOnSet(a, T) \notin Nat}
<1>1. \A T \in SUBSET S : IsFiniteSet(T)
  BY FS_Subset
<1>2. ASSUME Bad # {} PROVE FALSE
  <2>1. Bad \in SUBSET FiniteSubsetsOf(S)
    BY <1>1 DEF FiniteSubsetsOf
  <2>2. PICK T \in Bad : \A U \in Bad : U \subseteq T => U = T
    <3> HIDE DEF Bad
    <3> QED BY <1>2, <2>1, SmallestSet
  <2>3. T # {}
    BY SumEmpty
  <2> DEFINE U == T \ {Pick(T)}
  <2>4. Pick(T) \in T /\ U \in SUBSET S /\ U # T /\ U \subseteq T
    BY <2>2, <2>3, PickIn
  <2>5. SumFunctionOnSet(a, U) \in Nat
    BY <2>2, <2>4
  <2>6. SumFunctionOnSet(a, T) = a[Pick(T)] + SumFunctionOnSet(a, U)
    BY <1>1, <2>3, SumTakesFirst
  <2> QED BY <2>2, <2>4, <2>5, <2>6
<1> QED BY <1>2

\* Empty accounts add nothing to a sum.
LEMMA SumSkipsZeros ==
  ASSUME NEW S, IsFiniteSet(S), NEW T \in SUBSET S, NEW a,
         \A x \in S : a[x] \in Int, \A x \in S \ T : a[x] = 0
  PROVE  SumFunctionOnSet(a, S) = SumFunctionOnSet(a, T)
<1> DEFINE Between == {U \in SUBSET S : T \subseteq U}
           Bad == {U \in Between : SumFunctionOnSet(a, U) # SumFunctionOnSet(a, T)}
<1>1. \A U \in SUBSET S : IsFiniteSet(U)
  BY FS_Subset
<1>2. ASSUME Bad # {} PROVE FALSE
  <2>1. Bad \in SUBSET FiniteSubsetsOf(S)
    BY <1>1 DEF FiniteSubsetsOf
  <2>2. PICK U \in Bad : \A V \in Bad : V \subseteq U => V = U
    <3> HIDE DEF Bad
    <3> QED BY <1>2, <2>1, SmallestSet
  <2>3. PICK x \in U : x \notin T
    BY <2>2
  <2>4. SumFunctionOnSet(a, U) = a[x] + SumFunctionOnSet(a, U \ {x})
    BY <1>1, <2>2, SumRemove
  <2>5. a[x] = 0 /\ SumFunctionOnSet(a, U \ {x}) = SumFunctionOnSet(a, T)
    BY <2>2, <2>3
  <2>6. SumFunctionOnSet(a, T) \in Int
    BY <1>1, SumType
  <2> QED BY <2>2, <2>4, <2>5, <2>6
<1>3. S \in Between
  OBVIOUS
<1> QED BY <1>2, <1>3

\* The sum of what is left is the sum less what was given.
LEMMA SumOfDifferences ==
  ASSUME NEW S, IsFiniteSet(S), NEW a, NEW g, NEW b,
         \A x \in S : a[x] \in Int /\ g[x] \in Int /\ b[x] = a[x] - g[x]
  PROVE  SumFunctionOnSet(b, S) = SumFunctionOnSet(a, S) - SumFunctionOnSet(g, S)
<1> DEFINE Bad == {T \in SUBSET S : SumFunctionOnSet(b, T)
                     # SumFunctionOnSet(a, T) - SumFunctionOnSet(g, T)}
<1>1. \A T \in SUBSET S : /\ IsFiniteSet(T)
                          /\ SumFunctionOnSet(a, T) \in Int
                          /\ SumFunctionOnSet(g, T) \in Int
  BY FS_Subset, SumType
<1>2. ASSUME Bad # {} PROVE FALSE
  <2>1. Bad \in SUBSET FiniteSubsetsOf(S)
    BY <1>1 DEF FiniteSubsetsOf
  <2>2. PICK T \in Bad : \A U \in Bad : U \subseteq T => U = T
    <3> HIDE DEF Bad
    <3> QED BY <1>2, <2>1, SmallestSet
  <2>3. T # {}
    <3>1. /\ SumFunctionOnSet(a, {}) = 0 /\ SumFunctionOnSet(g, {}) = 0
          /\ SumFunctionOnSet(b, {}) = 0
      BY SumEmpty
    <3>2. SumFunctionOnSet(b, T) # SumFunctionOnSet(a, T) - SumFunctionOnSet(g, T)
      BY <2>2
    <3>3. CASE T = {}
      <4>1. /\ SumFunctionOnSet(a, T) = 0 /\ SumFunctionOnSet(g, T) = 0
            /\ SumFunctionOnSet(b, T) = 0
        BY <3>1, <3>3
      <4> QED BY <3>2, <4>1
    <3> QED BY <3>3
  <2> DEFINE U == T \ {Pick(T)}
  <2>4. Pick(T) \in T /\ U \in SUBSET S /\ U # T /\ U \subseteq T
    BY <2>2, <2>3, PickIn
  <2>5. SumFunctionOnSet(b, U) = SumFunctionOnSet(a, U) - SumFunctionOnSet(g, U)
    BY <2>2, <2>4
  <2>6. /\ SumFunctionOnSet(a, T) = a[Pick(T)] + SumFunctionOnSet(a, U)
        /\ SumFunctionOnSet(g, T) = g[Pick(T)] + SumFunctionOnSet(g, U)
        /\ SumFunctionOnSet(b, T) = b[Pick(T)] + SumFunctionOnSet(b, U)
    <3>1. IsFiniteSet(T)
      BY <1>1, <2>2
    <3>2. \A f : SumFunctionOnSet(f, T) = f[Pick(T)] + SumFunctionOnSet(f, U)
      BY <2>3, <3>1, SumTakesFirst
    <3> QED BY <3>2
  <2>7. /\ SumFunctionOnSet(a, U) \in Int /\ SumFunctionOnSet(g, U) \in Int
        /\ a[Pick(T)] \in Int /\ g[Pick(T)] \in Int
        /\ b[Pick(T)] = a[Pick(T)] - g[Pick(T)]
    BY <1>1, <2>2, <2>4
  <2>8. SumFunctionOnSet(b, T) # SumFunctionOnSet(a, T) - SumFunctionOnSet(g, T)
    BY <2>2
  <2> QED BY <2>5, <2>6, <2>7, <2>8
<1> QED BY <1>2

\* The sum over a part of the set is that of the function which is zero elsewhere.
LEMMA SumOfPart ==
  ASSUME NEW S, IsFiniteSet(S), NEW T \in SUBSET S, NEW g, \A x \in T : g[x] \in Int
  PROVE  SumFunctionOnSet(g, T)
           = SumFunctionOnSet([x \in S |-> IF x \in T THEN g[x] ELSE 0], S)
<1> DEFINE h == [x \in S |-> IF x \in T THEN g[x] ELSE 0]
<1>1. (\A x \in S : h[x] \in Int) /\ \A x \in S \ T : h[x] = 0
  OBVIOUS
<1>2. \A x \in T : h[x] = g[x]
  OBVIOUS
<1> HIDE DEF h
<1>3. SumFunctionOnSet(h, S) = SumFunctionOnSet(h, T)
  BY <1>1, SumSkipsZeros
<1>4. IsFiniteSet(T)
  BY FS_Subset
<1>5. SumFunctionOnSet(h, T) = SumFunctionOnSet(g, T)
  BY <1>2, <1>4, SumSame
<1> QED BY <1>3, <1>5 DEF h

\* From g to h one number has risen, x's, by n.
Rises(S, g, h, x, n) ==
  /\ x \in S /\ n \in Int /\ \A y \in S : g[y] \in Int
  /\ h[x] = g[x] + n /\ \A y \in S \ {x} : h[y] = g[y]

LEMMA SumOfRise ==
  ASSUME NEW S, IsFiniteSet(S), NEW g, NEW h, NEW x, NEW n, Rises(S, g, h, x, n)
  PROVE  /\ SumFunctionOnSet(g, S) \in Int /\ n \in Int
         /\ SumFunctionOnSet(h, S) = SumFunctionOnSet(g, S) + n
<1>1. /\ x \in S /\ n \in Int /\ \A y \in S : g[y] \in Int
      /\ h[x] = g[x] + n /\ \A y \in S \ {x} : h[y] = g[y]
  BY DEF Rises
<1>2. SumFunctionOnSet(g, S) \in Int
  BY <1>1, SumType
<1> QED BY <1>1, <1>2, SumRises

LEMMA SumOfZeros ==
  ASSUME NEW S, IsFiniteSet(S), NEW g, \A x \in S : g[x] = 0
  PROVE  SumFunctionOnSet(g, S) = 0
<1>1. SumFunctionOnSet(g, S) = SumFunctionOnSet(g, {})
  BY SumSkipsZeros
<1> QED BY <1>1, SumEmpty

\* A sum over two kinds of elements, those of A adding f and those of B taking g away.
Splits(S, h, f, g, A, B) ==
  \A x \in S :
    /\ f[x] \in Int /\ g[x] \in Int
    /\ h[x] = (IF x \in A THEN f[x] ELSE 0) - (IF x \in B THEN g[x] ELSE 0)

LEMMA SumOfTwo ==
  ASSUME NEW S, IsFiniteSet(S), NEW A \in SUBSET S, NEW B \in SUBSET S, NEW f, NEW g, NEW h,
         Splits(S, h, f, g, A, B)
  PROVE  /\ SumFunctionOnSet(f, A) \in Int /\ SumFunctionOnSet(g, B) \in Int
         /\ SumFunctionOnSet(h, S) = SumFunctionOnSet(f, A) - SumFunctionOnSet(g, B)
<1> DEFINE a == [x \in S |-> IF x \in A THEN f[x] ELSE 0]
           b == [x \in S |-> IF x \in B THEN g[x] ELSE 0]
<1>0. \A x \in S : f[x] \in Int /\ g[x] \in Int
  BY DEF Splits
<1>1. IsFiniteSet(A) /\ IsFiniteSet(B)
  BY FS_Subset
<1>2. SumFunctionOnSet(f, A) = SumFunctionOnSet(a, S)
  BY <1>0, <1>1, SumOfPart
<1>3. SumFunctionOnSet(g, B) = SumFunctionOnSet(b, S)
  BY <1>0, <1>1, SumOfPart
<1>4. \A x \in S : a[x] \in Int /\ b[x] \in Int /\ h[x] = a[x] - b[x]
  BY DEF Splits
<1> HIDE DEF a, b
<1>5. SumFunctionOnSet(h, S) = SumFunctionOnSet(a, S) - SumFunctionOnSet(b, S)
  BY <1>1, <1>4, SumOfDifferences
<1>6. SumFunctionOnSet(f, A) \in Int /\ SumFunctionOnSet(g, B) \in Int
  BY <1>0, <1>1, SumType
<1> QED BY <1>2, <1>3, <1>5, <1>6

\* A balance that was what is posted to it, i being its first value, and n more.
Posted(S, b, b2, i, g, h, x, n) ==
  /\ i \in Int /\ Rises(S, g, h, x, n)
  /\ b = i + SumFunctionOnSet(g, S) /\ b2 = b + n

LEMMA BookMoves ==
  ASSUME NEW S, IsFiniteSet(S), NEW b, NEW b2, NEW i, NEW g, NEW h, NEW x, NEW n,
         Posted(S, b, b2, i, g, h, x, n)
  PROVE  b2 = i + SumFunctionOnSet(h, S)
<1> DEFINE G == SumFunctionOnSet(g, S)
           H == SumFunctionOnSet(h, S)
<1>1. G \in Int /\ n \in Int /\ H = G + n
  BY SumOfRise DEF Posted
<1>2. b = i + G /\ b2 = b + n /\ i \in Int
  BY DEF Posted
<1> HIDE DEF G, H
<1>3. b2 = i + H
  BY <1>1, <1>2
<1> QED BY <1>3 DEF H

\* No more accounts than those of B, each with no more than any of them, hold no more.
LEMMA SumDominated ==
  ASSUME NEW N, IsFiniteSet(N), NEW a, \A x \in N : a[x] \in Nat,
         NEW A \in SUBSET N, NEW B \in SUBSET N, Cardinality(A) <= Cardinality(B),
         \A x \in A \ B, y \in B \ A : a[x] <= a[y]
  PROVE  SumFunctionOnSet(a, A) <= SumFunctionOnSet(a, B)
<1> DEFINE Below(S, T) == /\ Cardinality(S) <= Cardinality(T)
                          /\ \A x \in S \ T, y \in T \ S : a[x] <= a[y]
           Bad == {S \in SUBSET N : \E T \in SUBSET N : Below(S, T)
                     /\ ~(SumFunctionOnSet(a, S) <= SumFunctionOnSet(a, T))}
<1>1. \A S \in SUBSET N : /\ IsFiniteSet(S) /\ Cardinality(S) \in Nat
                          /\ SumFunctionOnSet(a, S) \in Nat
  BY FS_Subset, FS_CardinalityType, SumNat
<1>2. ASSUME Bad # {} PROVE FALSE
  <2>1. Bad \in SUBSET FiniteSubsetsOf(N)
    BY <1>1 DEF FiniteSubsetsOf
  <2>2. PICK S \in Bad : \A U \in Bad : U \subseteq S => U = S
    <3> HIDE DEF Bad
    <3> QED BY <1>2, <2>1, SmallestSet
  <2>3. PICK T \in SUBSET N :
          Below(S, T) /\ ~(SumFunctionOnSet(a, S) <= SumFunctionOnSet(a, T))
    BY <2>2
  <2>4. S # {}
    BY <1>1, <2>3, SumEmpty
  <2>5. T # {}
    <3>1. Cardinality(S) # 0
      BY <1>1, <2>2, <2>4, FS_EmptySet
    <3> QED BY <1>1, <2>2, <2>3, <3>1, FS_EmptySet
  <2>6. PICK x \in S, y \in T : x = y \/ (x \in S \ T /\ y \in T \ S)
    <3>1. CASE S \cap T # {}
      BY <3>1
    <3>2. CASE S \cap T = {}
      BY <2>4, <2>5, <3>2
    <3> QED BY <3>1, <3>2
  <2>7. a[x] <= a[y] /\ a[x] \in Nat /\ a[y] \in Nat
    BY <2>2, <2>3, <2>6
  <2>8. Below(S \ {x}, T \ {y})
    <3>1. /\ Cardinality(S \ {x}) = Cardinality(S) - 1
          /\ Cardinality(T \ {y}) = Cardinality(T) - 1
      BY <1>1, <2>2, <2>6, FS_RemoveElement
    <3>2. Cardinality(S \ {x}) <= Cardinality(T \ {y})
      BY <1>1, <2>2, <2>3, <3>1
    <3>3. (S \ {x}) \ (T \ {y}) \subseteq S \ T /\ (T \ {y}) \ (S \ {x}) \subseteq T \ S
      BY <2>6
    <3> QED BY <2>3, <3>2, <3>3
  <2>9. S \ {x} \in SUBSET N /\ T \ {y} \in SUBSET N /\ S \ {x} \notin Bad
    BY <2>2, <2>6
  <2>10. SumFunctionOnSet(a, S \ {x}) <= SumFunctionOnSet(a, T \ {y})
    BY <2>8, <2>9
  <2>11. /\ SumFunctionOnSet(a, S) = a[x] + SumFunctionOnSet(a, S \ {x})
         /\ SumFunctionOnSet(a, T) = a[y] + SumFunctionOnSet(a, T \ {y})
    <3>1. \A z \in N : a[z] \in Int
      OBVIOUS
    <3> QED BY <1>1, <2>2, <2>6, <3>1, SumRemove
  <2>12. /\ SumFunctionOnSet(a, S \ {x}) \in Nat /\ SumFunctionOnSet(a, T \ {y}) \in Nat
         /\ ~(SumFunctionOnSet(a, S) <= SumFunctionOnSet(a, T))
    BY <1>1, <2>3, <2>9
  <2> QED BY <2>7, <2>10, <2>11, <2>12
<1>3. Below(A, B)
  OBVIOUS
<1> QED BY <1>2, <1>3

-----------------------------------------------------------------------------
(* The order in which sources are drained                                  *)

\* The order is total and strict.
LEMMA RicherOrders ==
  ASSUME NEW N \in SUBSET Nat, NEW a, \A x \in N : a[x] \in Nat
  PROVE  /\ \A x, y \in N : x # y => Richer(a, x, y) \/ Richer(a, y, x)
         /\ \A x, y \in N : Richer(a, x, y) => ~Richer(a, y, x) /\ a[y] <= a[x]
         /\ \A x, y, z \in N : Richer(a, x, y) /\ Richer(a, y, z) => Richer(a, x, z)
BY DEF Richer

\* Some account of a set is the poorest of it.
LEMMA PoorestExists ==
  ASSUME NEW N \in SUBSET Nat, NEW a, \A x \in N : a[x] \in Nat,
         NEW S \in SUBSET N, IsFiniteSet(S), S # {}
  PROVE  \E x \in S : \A y \in S \ {x} : Richer(a, y, x)
<1> DEFINE Poorest(T, x) == \A y \in T \ {x} : Richer(a, y, x)
           Bad == {T \in SUBSET S : T # {} /\ \A x \in T : ~Poorest(T, x)}
<1>1. ASSUME Bad # {} PROVE FALSE
  <2>1. Bad \in SUBSET FiniteSubsetsOf(S)
    BY FS_Subset DEF FiniteSubsetsOf
  <2>2. PICK T \in Bad : \A U \in Bad : U \subseteq T => U = T
    <3> HIDE DEF Bad
    <3> QED BY <1>1, <2>1, SmallestSet
  <2>3. PICK x \in T : TRUE
    BY <2>2
  <2>4. T \ {x} # {}
    <3>1. ~Poorest(T, x)
      BY <2>2, <2>3
    <3> QED BY <3>1
  <2>5. T \ {x} \in SUBSET S /\ T \ {x} \notin Bad
    BY <2>2, <2>3
  <2>6. PICK y \in T \ {x} : Poorest(T \ {x}, y)
    BY <2>4, <2>5
  <2>7. x \in N /\ y \in N /\ T \subseteq N
    BY <2>2, <2>3, <2>6
  <2>8. Poorest(T, y) \/ Poorest(T, x)
    <3>1. Richer(a, x, y) \/ Richer(a, y, x)
      BY <2>6, <2>7, RicherOrders
    <3>2. ASSUME Richer(a, y, x), NEW z \in T \ {x, y} PROVE Richer(a, z, x)
      <4>1. Richer(a, z, y)
        BY <2>6, <3>2
      <4> QED BY <2>7, <3>2, <4>1, RicherOrders
    <3> QED BY <2>6, <3>1, <3>2
  <2> QED BY <2>2, <2>3, <2>6, <2>8
<1> QED BY <1>1

-----------------------------------------------------------------------------
(* What is gathered                                                        *)

\* A pool of the accounts N, of which t has less than the order's n.
Short(N, a, t, n) ==
  /\ N \in SUBSET Nat /\ IsFiniteSet(N) /\ \A x \in N : a[x] \in Nat
  /\ t \in N /\ n \in Nat /\ a[t] < n

\* What each source gives, as in Plan.
Gives(N, a, t, n) == [va \in Sources(a, N, t) |-> Moved(a, N, t, n, va)]

\* The sources that are richer than s.
Before(N, a, t, s) == {x \in Sources(a, N, t) : Richer(a, x, s)}

\* What a source gives: nothing once enough is there, else what it can.
LEMMA MovedIs ==
  ASSUME NEW N, NEW a, NEW t, NEW n, Short(N, a, t, n), NEW s \in Sources(a, N, t),
         NEW sum, sum = SumFunctionOnSet(a, Before(N, a, t, s))
  PROVE  /\ sum \in Nat
         /\ Moved(a, N, t, n, s) = IF n - a[t] - sum <= 0 THEN 0
                                   ELSE IF a[s] <= n - a[t] - sum THEN a[s]
                                   ELSE n - a[t] - sum
         /\ Moved(a, N, t, n, s) \in Nat /\ Moved(a, N, t, n, s) <= a[s]
<1>1. Before(N, a, t, s) \in SUBSET N /\ s \in N /\ a[s] \in Nat /\ a[t] \in Nat /\ n \in Nat
  BY DEF Before, Sources, Short
<1>2. sum \in Nat
  <2>1. IsFiniteSet(Before(N, a, t, s)) /\ \A x \in Before(N, a, t, s) : a[x] \in Nat
    BY <1>1, FS_Subset DEF Short
  <2> QED BY <2>1, SumNat
<1> DEFINE left == n - a[t] - sum
<1>3. left \in Int /\ left = n - a[t] - sum
  BY <1>1, <1>2
<1>4. Moved(a, N, t, n, s) = IF left <= 0 THEN 0 ELSE Min({a[s], left})
  BY DEF Moved, TotalAvailable, Before
<1> HIDE DEF left
<1>5. Min({a[s], left}) = IF a[s] <= left THEN a[s] ELSE left
  <2>1. CASE a[s] <= left
    BY <1>1, <1>3, <2>1 DEF Min
  <2>2. CASE ~(a[s] <= left)
    BY <1>1, <1>3, <2>2 DEF Min
  <2> QED BY <2>1, <2>2
<1> QED BY <1>1, <1>2, <1>3, <1>4, <1>5

\* After the sources of a set that holds all that are richer than its members, either
\* the order's lack is met exactly or all of them have given all they had.
LEMMA Gathered ==
  ASSUME NEW N, NEW a, NEW t, NEW n, Short(N, a, t, n),
         NEW T \in SUBSET Sources(a, N, t),
         \A x \in T : Before(N, a, t, x) \subseteq T
  PROVE  SumFunctionOnSet(Gives(N, a, t, n), T)
           = IF n - a[t] <= SumFunctionOnSet(a, T) THEN n - a[t]
             ELSE SumFunctionOnSet(a, T)
<1> DEFINE S == Sources(a, N, t)
           g == Gives(N, a, t, n)
           Top(U) == \A x \in U : Before(N, a, t, x) \subseteq U
           Met(U) == SumFunctionOnSet(g, U)
                       = IF n - a[t] <= SumFunctionOnSet(a, U) THEN n - a[t]
                         ELSE SumFunctionOnSet(a, U)
           Bad == {U \in SUBSET S : Top(U) /\ ~Met(U)}
<1>1. /\ S \in SUBSET N /\ N \in SUBSET Nat /\ \A x \in N : a[x] \in Nat
      /\ IsFiniteSet(S) /\ a[t] \in Nat /\ n \in Nat /\ a[t] < n
  <2>1. S \in SUBSET N /\ IsFiniteSet(N)
    BY DEF Short, Sources
  <2> QED BY <2>1, FS_Subset DEF Short
<1>2. \A U \in SUBSET S : IsFiniteSet(U) /\ SumFunctionOnSet(a, U) \in Nat
  BY <1>1, FS_Subset, SumNat
<1>3. \A x \in S : g[x] = Moved(a, N, t, n, x) /\ g[x] \in Nat
  BY MovedIs DEF Gives
<1>4. ASSUME Bad # {} PROVE FALSE
  <2>1. Bad \in SUBSET FiniteSubsetsOf(S)
    <3> HIDE DEF S, Top, Met
    <3> QED BY <1>2 DEF FiniteSubsetsOf
  <2>2. PICK U \in Bad : \A V \in Bad : V \subseteq U => V = U
    <3> HIDE DEF Bad, S
    <3> QED BY <1>4, <2>1, SmallestSet
  <2>3. U \in SUBSET S /\ Top(U) /\ ~Met(U) /\ IsFiniteSet(U)
    BY <1>2, <2>2
  <2>4. U # {}
    <3>1. Met({})
      BY <1>1, SumEmpty
    <3> QED BY <2>3, <3>1
  <2>5. PICK x \in U : \A y \in U \ {x} : Richer(a, y, x)
    <3> HIDE DEF S
    <3> QED BY <1>1, <2>3, <2>4, PoorestExists
  <2> DEFINE V == U \ {x}
  <2>6. Before(N, a, t, x) = V
    <3>1. V \subseteq Before(N, a, t, x)
      BY <2>3, <2>5 DEF Before
    <3>2. Before(N, a, t, x) \subseteq U
      BY <2>3
    <3>3. x \notin Before(N, a, t, x)
      BY <1>1, <2>3, RicherOrders DEF Before
    <3> QED BY <3>1, <3>2, <3>3
  <2>7. Top(V)
    <3> SUFFICES ASSUME NEW y \in V, NEW z \in Before(N, a, t, y) PROVE z \in V
      OBVIOUS
    <3>1. z \in U /\ z \in S /\ Richer(a, z, y) /\ Richer(a, y, x)
      BY <2>3, <2>5 DEF Before
    <3>2. x \in N /\ y \in N /\ z \in N
      BY <1>1, <2>3, <3>1
    <3>3. z # x
      BY <1>1, <3>1, <3>2, RicherOrders
    <3> QED BY <3>1, <3>3
  <2>8. Met(V) /\ V \in SUBSET S
    <3> HIDE DEF Met, Top, S
    <3> QED BY <2>2, <2>3, <2>7
  <2> DEFINE sum == SumFunctionOnSet(a, V)
  <2>9. /\ sum \in Nat
        /\ g[x] = IF n - a[t] - sum <= 0 THEN 0
                  ELSE IF a[x] <= n - a[t] - sum THEN a[x] ELSE n - a[t] - sum
    <3>1. x \in S /\ sum = SumFunctionOnSet(a, Before(N, a, t, x))
      BY <2>3, <2>6
    <3> QED BY <1>3, <3>1, MovedIs
  <2>10. /\ SumFunctionOnSet(a, U) = a[x] + sum
         /\ SumFunctionOnSet(g, U) = g[x] + SumFunctionOnSet(g, V)
         /\ a[x] \in Nat
    <3>1. \A y \in U : a[y] \in Int /\ g[y] \in Int
      <4> HIDE DEF g, S
      <4> QED BY <1>1, <1>3, <2>3
    <3>2. SumFunctionOnSet(a, U) = a[x] + sum
      BY <2>3, <3>1, SumRemove
    <3>3. SumFunctionOnSet(g, U) = g[x] + SumFunctionOnSet(g, V)
      <4> HIDE DEF g
      <4> QED BY <2>3, <3>1, SumRemove
    <3> QED BY <1>1, <2>3, <3>2, <3>3
  <2>11. SumFunctionOnSet(g, V) = IF n - a[t] <= sum THEN n - a[t] ELSE sum
    BY <2>8
  <2>12. Met(U)
    <3> HIDE DEF g, sum, V
    <3> QED BY <1>1, <2>9, <2>10, <2>11
  <2> QED BY <2>3, <2>12
<1> QED BY <1>4

\* The balances after the rows of the plan are written.
LEMMA Applied ==
  ASSUME NEW N, NEW a, NEW t, NEW n, Short(N, a, t, n), N \subseteq DOMAIN a,
         NEW g, g = Gives(N, a, t, n),
         NEW b, b = Apply(Plan(a, N, t, n), a)
  PROVE  /\ \A s \in Sources(a, N, t) : b[s] = a[s] - g[s]
         /\ b[t] = a[t] + SumFunctionOnSet(g, Sources(a, N, t))
         /\ \A x \in DOMAIN a \ (Sources(a, N, t) \cup {t}) : b[x] = a[x]
         /\ DOMAIN b = DOMAIN a
<1> DEFINE S == Sources(a, N, t)
           Row(va, left) == [va |-> va, available |-> left]
           gave == {Row(s, a[s] - g[s]) : s \in {x \in S : g[x] > 0}}
           last == Row(t, a[t] + SumFunctionOnSet(g, S))
           plan == gave \cup {last}
           Of(va) == CHOOSE w \in plan : w.va = va
<1>1. DOMAIN g = S /\ t \notin S /\ t \in N /\ S \subseteq N
  BY DEF Gives, Sources, Short
<1>2. Plan(a, N, t, n) = plan
  <2>1. ~(a[t] >= n)
    BY DEF Short
  <2>2. SumFunction(g) = SumFunctionOnSet(g, S)
    BY <1>1 DEF SumFunction
  <2> QED BY <1>1, <2>1, <2>2 DEF Plan, Gives
<1>3. b = [va \in DOMAIN a |-> IF \E w \in plan : w.va = va THEN Of(va).available ELSE a[va]]
  BY <1>2 DEF Apply
<1>4. ASSUME NEW x \in DOMAIN a PROVE b[x] = IF \E w \in plan : w.va = x
                                      THEN Of(x).available ELSE a[x]
  BY <1>3
<1>5. b[t] = a[t] + SumFunctionOnSet(g, S)
  <2>1. last \in plan /\ last.va = t
    OBVIOUS
  <2>2. \A w \in plan : w.va = t => w = last
    BY <1>1
  <2>3. Of(t) = last
    <3> HIDE DEF last, plan
    <3> QED BY <2>1, <2>2
  <2>4. b[t] = Of(t).available
    <3> HIDE DEF last, Of, plan
    <3> QED BY <1>1, <1>4, <2>1
  <2>5. last.available = a[t] + SumFunctionOnSet(g, S)
    OBVIOUS
  <2> HIDE DEF last, Of
  <2> QED BY <2>3, <2>4, <2>5
<1>6. ASSUME NEW s \in S, g[s] > 0 PROVE b[s] = a[s] - g[s]
  <2> DEFINE mine == Row(s, a[s] - g[s])
  <2>1. mine \in plan /\ mine.va = s /\ mine.available = a[s] - g[s]
    BY <1>6
  <2>2. \A w \in plan : w.va = s => w = mine
    BY <1>1
  <2>3. Of(s) = mine
    <3> HIDE DEF mine, plan
    <3> QED BY <2>1, <2>2
  <2>4. b[s] = Of(s).available
    <3> HIDE DEF mine, Of, plan
    <3> QED BY <1>1, <1>4, <2>1
  <2> HIDE DEF mine, Of
  <2> QED BY <2>1, <2>3, <2>4
<1>7. ASSUME NEW x \in DOMAIN a, x # t, x \in S => ~(g[x] > 0) PROVE b[x] = a[x]
  <2>1. \A w \in plan : w.va # x
    BY <1>7
  <2> HIDE DEF plan
  <2> QED BY <1>4, <2>1
<1>8. ASSUME NEW s \in S PROVE b[s] = a[s] - g[s]
  <2>1. g[s] \in Nat /\ a[s] \in Nat
    BY MovedIs, <1>1 DEF Gives, Short
  <2>2. CASE g[s] > 0
    BY <1>6, <2>2
  <2>3. CASE ~(g[s] > 0)
    <3>1. b[s] = a[s]
      BY <1>1, <1>7, <2>3
    <3> QED BY <2>1, <2>3, <3>1
  <2> QED BY <2>2, <2>3
<1>9. \A x \in DOMAIN a \ (S \cup {t}) : b[x] = a[x]
  BY <1>7
<1> QED BY <1>3, <1>5, <1>8, <1>9

-----------------------------------------------------------------------------
(* What the pool is afterwards                                             *)

\* The order is covered where it is made, of the whole pool nothing is lost, and no
\* account is overdrawn.
LEMMA PoolKept ==
  ASSUME NEW N, NEW a, NEW t, NEW n, Short(N, a, t, n), N \subseteq DOMAIN a,
         n <= SumFunctionOnSet(a, N), NEW b, b = Apply(Plan(a, N, t, n), a)
  PROVE  /\ b[t] = n
         /\ SumFunctionOnSet(b, N) = SumFunctionOnSet(a, N)
         /\ \A x \in N : b[x] \in Nat
         /\ \A x \in DOMAIN a \ N : b[x] = a[x]
<1> DEFINE S == Sources(a, N, t)
           O == N \ {t}
<1>1. PICK g : g = Gives(N, a, t, n)
  OBVIOUS
<1>2. /\ S \in SUBSET O /\ IsFiniteSet(N) /\ IsFiniteSet(O) /\ IsFiniteSet(S)
      /\ a[t] \in Nat /\ n \in Nat /\ a[t] < n /\ t \in N
      /\ \A x \in N : a[x] \in Nat
  <2>1. S \in SUBSET O /\ IsFiniteSet(N) /\ S \in SUBSET N /\ O \in SUBSET N
    BY DEF Short, Sources
  <2> QED BY <2>1, FS_Subset DEF Short
<1>3. \A x \in O \ S : a[x] = 0
  BY <1>2 DEF Sources
<1>4. SumFunctionOnSet(a, N) = a[t] + SumFunctionOnSet(a, S)
  <2>1. \A x \in N : a[x] \in Int
    BY <1>2
  <2>2. SumFunctionOnSet(a, N) = a[t] + SumFunctionOnSet(a, O)
    BY <1>2, <2>1, SumRemove
  <2>3. SumFunctionOnSet(a, O) = SumFunctionOnSet(a, S)
    <3> HIDE DEF S
    <3> QED BY <1>2, <1>3, <2>1, SumSkipsZeros
  <2> QED BY <2>2, <2>3
<1>5. SumFunctionOnSet(a, S) \in Nat /\ SumFunctionOnSet(a, O) \in Nat
  BY <1>2, SumNat
<1>6. SumFunctionOnSet(g, S) = n - a[t]
  <2>1. \A x \in S : Before(N, a, t, x) \subseteq S
    BY DEF Before
  <2>2. SumFunctionOnSet(g, S) = IF n - a[t] <= SumFunctionOnSet(a, S) THEN n - a[t]
                                 ELSE SumFunctionOnSet(a, S)
    BY <1>1, <2>1, Gathered
  <2> HIDE DEF S
  <2> QED BY <1>2, <1>4, <1>5, <2>2
<1>7. \A x \in S : g[x] \in Nat /\ g[x] <= a[x]
  BY <1>1, MovedIs DEF Gives
<1>8. /\ \A x \in S : b[x] = a[x] - g[x]
      /\ b[t] = a[t] + SumFunctionOnSet(g, S)
      /\ \A x \in O \ S : b[x] = a[x]
  BY <1>1, Applied
<1> DEFINE given == [x \in O |-> IF x \in S THEN g[x] ELSE 0]
<1>9. SumFunctionOnSet(given, O) = n - a[t]
  <2>1. \A x \in O : given[x] \in Int
    BY <1>2, <1>7
  <2>2. \A x \in O \ S : given[x] = 0
    OBVIOUS
  <2>3. \A x \in S : given[x] = g[x]
    BY <1>2
  <2> HIDE DEF given, S, O
  <2>4. SumFunctionOnSet(given, O) = SumFunctionOnSet(given, S)
    BY <1>2, <2>1, <2>2, SumSkipsZeros
  <2>5. SumFunctionOnSet(given, S) = SumFunctionOnSet(g, S)
    BY <1>2, <2>3, SumSame
  <2> QED BY <1>6, <2>4, <2>5
<1>10. SumFunctionOnSet(b, O) = SumFunctionOnSet(a, O) - SumFunctionOnSet(given, O)
  <2>1. \A x \in O : a[x] \in Int /\ given[x] \in Int /\ b[x] = a[x] - given[x]
    BY <1>2, <1>7, <1>8
  <2> HIDE DEF given, O
  <2> QED BY <1>2, <2>1, SumOfDifferences
<1>11. b[t] = n /\ \A x \in N : b[x] \in Nat
  BY <1>2, <1>6, <1>7, <1>8
<1>12. SumFunctionOnSet(b, N) = b[t] + SumFunctionOnSet(b, O)
  <2>1. \A x \in N : b[x] \in Int
    BY <1>11
  <2> QED BY <1>2, <2>1, SumRemove
<1>13. SumFunctionOnSet(a, O) = SumFunctionOnSet(a, S)
  <2>1. \A x \in O : a[x] \in Int
    BY <1>2
  <2> HIDE DEF S, O
  <2> QED BY <1>2, <1>3, <2>1, SumSkipsZeros
<1>14. \A x \in DOMAIN a \ N : b[x] = a[x]
  BY <1>1, <1>2, Applied
<1> HIDE DEF S, O, given
<1> QED BY <1>2, <1>4, <1>5, <1>9, <1>10, <1>11, <1>12, <1>13, <1>14

\* No smaller set of accounts than those drawn on would have covered the order.
LEMMA FewestDrawn ==
  ASSUME NEW N, NEW a, NEW t, NEW n, Short(N, a, t, n), N \subseteq DOMAIN a,
         NEW b, b = Apply(Plan(a, N, t, n), a),
         NEW A \in SUBSET (N \ {t}),
         Cardinality(A) < Cardinality({x \in N \ {t} : b[x] # a[x]})
  PROVE  a[t] + SumFunctionOnSet(a, A) < n
<1> DEFINE S == Sources(a, N, t)
           O == N \ {t}
           D == {x \in O : b[x] # a[x]}
<1>1. PICK g : g = Gives(N, a, t, n)
  OBVIOUS
<1>2. /\ S \in SUBSET O /\ D \in SUBSET O /\ O \in SUBSET N /\ A \in SUBSET N
      /\ IsFiniteSet(N) /\ IsFiniteSet(D) /\ IsFiniteSet(A) /\ N \in SUBSET Nat
      /\ a[t] \in Nat /\ n \in Nat /\ a[t] < n /\ t \in N /\ \A x \in N : a[x] \in Nat
  <2>1. /\ S \in SUBSET O /\ D \in SUBSET N /\ A \in SUBSET N /\ IsFiniteSet(N)
        /\ O \in SUBSET N /\ D \in SUBSET O
    BY DEF Short, Sources
  <2> QED BY <2>1, FS_Subset DEF Short
<1>3. Cardinality(A) \in Nat /\ Cardinality(D) \in Nat /\ Cardinality(A) < Cardinality(D)
  BY <1>2, FS_CardinalityType
<1>4. D # {}
  BY <1>2, <1>3, FS_EmptySet
<1>5. PICK x \in D : \A y \in D \ {x} : Richer(a, y, x)
  <2>1. D \in SUBSET N
    BY <1>2
  <2> HIDE DEF D
  <2> QED BY <1>2, <1>4, <2>1, PoorestExists
<1>6. \A y \in D : y \in S /\ g[y] = Moved(a, N, t, n, y) /\ g[y] # 0
  <2> SUFFICES ASSUME NEW y \in D PROVE y \in S /\ g[y] = Moved(a, N, t, n, y) /\ g[y] # 0
    OBVIOUS
  <2>1. y \in S
    <3>1. \A z \in DOMAIN a \ (S \cup {t}) : b[z] = a[z]
      BY <1>1, Applied
    <3> QED BY <3>1
  <2>2. b[y] = a[y] - g[y] /\ b[y] # a[y] /\ a[y] \in Nat
    BY <1>1, <1>2, <2>1, Applied
  <2> QED BY <1>1, <2>1, <2>2 DEF Gives
<1> DEFINE U == Before(N, a, t, x)
<1>7. U \in SUBSET N /\ IsFiniteSet(U) /\ Cardinality(U) \in Nat
  <2>1. U \in SUBSET N
    BY <1>2 DEF Before
  <2> QED BY <1>2, <2>1, FS_Subset, FS_CardinalityType
<1>8. a[t] + SumFunctionOnSet(a, U) < n
  <2>1. x \in S /\ Moved(a, N, t, n, x) # 0
    BY <1>6
  <2>2. PICK sum : sum = SumFunctionOnSet(a, U)
    OBVIOUS
  <2>3. sum \in Nat /\ ~(n - a[t] - sum <= 0)
    BY <2>1, <2>2, MovedIs
  <2> QED BY <1>2, <2>2, <2>3
<1>9. Cardinality(A) <= Cardinality(U)
  <2>1. D \ {x} \in SUBSET U
    BY <1>5, <1>6 DEF Before
  <2>2. Cardinality(D \ {x}) = Cardinality(D) - 1
    <3>1. x \in D /\ IsFiniteSet(D)
      BY <1>2
    <3> HIDE DEF D
    <3> QED BY <3>1, FS_RemoveElement
  <2>3. Cardinality(D \ {x}) <= Cardinality(U)
    BY <1>7, <2>1, FS_Subset
  <2> QED BY <1>3, <1>7, <2>2, <2>3
<1>10. \A y \in A \ U, z \in U \ A : a[y] <= a[z]
  <2> SUFFICES ASSUME NEW y \in A \ U, NEW z \in U \ A PROVE a[y] <= a[z]
    OBVIOUS
  <2>1. x \in N /\ y \in N /\ z \in N /\ y # t /\ Richer(a, z, x)
    BY <1>2 DEF Before
  <2>2. a[x] <= a[z]
    BY <1>2, <2>1, RicherOrders
  <2>3. a[y] = 0 \/ ~Richer(a, y, x)
    BY <1>2, <2>1 DEF Before, Sources
  <2>4. a[y] <= a[x]
    BY <1>2, <2>1, <2>3 DEF Richer
  <2> QED BY <1>2, <2>1, <2>2, <2>4
<1>11. SumFunctionOnSet(a, A) <= SumFunctionOnSet(a, U)
  <2> HIDE DEF U
  <2> QED BY <1>2, <1>7, <1>9, <1>10, SumDominated
<1>12. SumFunctionOnSet(a, A) \in Nat /\ SumFunctionOnSet(a, U) \in Nat
  <2>1. (\A y \in A : a[y] \in Nat) /\ \A y \in U : a[y] \in Nat
    BY <1>2, <1>7
  <2> HIDE DEF U
  <2> QED BY <1>2, <1>7, <2>1, SumNat
<1> HIDE DEF U
<1> QED BY <1>2, <1>8, <1>11, <1>12
=============================================================================
