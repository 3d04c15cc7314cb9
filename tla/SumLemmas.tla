------------------------------ MODULE SumLemmas -----------------------------
(***************************************************************************)
(* Sums over finite sets, as the books of the services add them up:        *)
(* denominations of claims, amounts of entries, balances of accounts,      *)
(* lamports of relayers. Every lemma holds for all functions and all       *)
(* finite sets; what induction over the set would prove is proved by a     *)
(* smallest counterexample.  LeastExists, GreatestExists and UpTo serve    *)
(* proofs elsewhere: the last lien of a SKU, the layers of a tree.         *)
(***************************************************************************)
EXTENDS Integers, FiniteSets, Functions, FiniteSetTheorems, TLAPS

-----------------------------------------------------------------------------
(***************************************************************************)
(* Products and quotients of integers.                                     *)
(***************************************************************************)

\* Rounding down never exceeds.
LEMMA QuotientBelow ==
  ASSUME NEW a \in Int, NEW b \in Int, b > 0
  PROVE  (a \div b) \in Int /\ b * (a \div b) <= a /\ (a \div b) * b <= a
  BY SMT

\* A factor that is not negative keeps an order.
LEMMA ProductMonotone ==
  ASSUME NEW a \in Int, NEW b \in Int, NEW c \in Int, a <= b, c >= 0
  PROVE  a * c \in Int /\ b * c \in Int /\ a * c <= b * c
  BY SMT

\* Products distribute over a sum.
LEMMA SumTimes ==
  ASSUME NEW a \in Int, NEW b \in Int, NEW c \in Int
  PROVE  a * c \in Int /\ b * c \in Int /\ (a + b) * c = a * c + b * c
  BY SMT

\* A ratio rounded down that reaches the factor it is scaled by is at least
\* one: what is_solvent concludes from reserves, basis points and liabilities.
LEMMA RatioCovers ==
  ASSUME NEW r \in Int, NEW f \in Int, f > 0, NEW l \in Int, l > 0, (r * f) \div l >= f
  PROVE  r >= l
  <1> DEFINE q == (r * f) \div l
  <1>1. r * f \in Int
    BY SMT
  <1>2. q \in Int /\ l * q <= r * f
    BY <1>1, QuotientBelow
  <1> HIDE DEF q
  <1>3. f * l <= q * l
    BY <1>2, ProductMonotone DEF q
  <1>4. f * l <= r * f
    BY <1>2, <1>3
  <1> SUFFICES ASSUME r <= l - 1 PROVE FALSE
    OBVIOUS
  <1>5. r * f <= (l - 1) * f
    BY ProductMonotone
  <1>6. (l - 1) * f = f * l - f
    BY SMT
  <1> QED BY <1>1, <1>4, <1>5, <1>6

-----------------------------------------------------------------------------
(***************************************************************************)
(* Sums. SumFunctionOnSet folds + over a set in the order a CHOOSE picks;  *)
(* the first lemmas give it its recursive equation, the others what sums   *)
(* are used for.                                                           *)
(***************************************************************************)

\* Of a non-empty collection of subsets of a finite set one is minimal. The
\* argument by a smallest counterexample stands in for induction over sets.
LEMMA MinimalSubset ==
  ASSUME NEW S, IsFiniteSet(S), NEW Q, Q \subseteq SUBSET S, Q # {}
  PROVE  \E T \in Q : \A U \in Q : U \subseteq T => U = T
  <1>1. IsWellFoundedOn(StrictSubsetOrdering(S), SUBSET S)
    BY FS_StrictSubsetOrderingWellFounded, FS_FiniteSubsetsOfFinite
  <1>2. PICK T \in Q : \A U \in Q : <<U, T>> \notin StrictSubsetOrdering(S)
    BY <1>1, WFMin
  <1> QED
    BY <1>2 DEF StrictSubsetOrdering

\* Of a finite family of sets one contains no other of the family.
LEMMA SmallestOfFamily ==
  ASSUME NEW S, IsFiniteSet(S), S # {}, NEW up \in [S -> SUBSET S]
  PROVE  \E j \in S : \A i \in S : up[i] \subseteq up[j] => up[i] = up[j]
  <1> DEFINE Q == {up[j] : j \in S}
  <1>1. Q \subseteq SUBSET S /\ Q # {}
    OBVIOUS
  <1>2. \E T \in Q : \A U \in Q : U \subseteq T => U = T
    <2> HIDE DEF Q
    <2> QED BY <1>1, MinimalSubset
  <1> QED BY <1>2

\* A finite set of numbers has a least one.
LEMMA LeastExists ==
  ASSUME NEW S, IsFiniteSet(S), S # {}
  PROVE  (\A i \in S : i \in Int) => \E j \in S : \A i \in S : j <= i
  <1> DEFINE up == [j \in S |-> {k \in S : k <= j}]
  <1>1. up \in [S -> SUBSET S]
    OBVIOUS
  <1>2. PICK j \in S : \A i \in S : up[i] \subseteq up[j] => up[i] = up[j]
    <2> HIDE DEF up
    <2> QED BY <1>1, SmallestOfFamily
  <1> SUFFICES ASSUME \A i \in S : i \in Int PROVE \A i \in S : j <= i
    OBVIOUS
  <1>3. ASSUME NEW i \in S PROVE j <= i
    <2>0. i \in Int /\ j \in Int
      OBVIOUS
    <2>1. CASE i < j
      <3>1. \A k \in Int : k <= i => k <= j
        BY <2>0, <2>1
      <3>2. up[i] \subseteq up[j]
        BY <3>1
      <3>3. up[i] = up[j]
        BY <1>2, <3>2
      <3>4. j \in up[j] /\ j \notin up[i]
        BY <2>0, <2>1
      <3> QED BY <3>3, <3>4
    <2> QED BY <2>0, <2>1
  <1> QED BY <1>3

\* A finite set of numbers has a greatest one.
LEMMA GreatestExists ==
  ASSUME NEW S, IsFiniteSet(S), S # {}
  PROVE  (\A i \in S : i \in Int) => \E j \in S : \A i \in S : i <= j
  <1> DEFINE up == [j \in S |-> {k \in S : k >= j}]
  <1>1. up \in [S -> SUBSET S]
    OBVIOUS
  <1>2. PICK j \in S : \A i \in S : up[i] \subseteq up[j] => up[i] = up[j]
    <2> HIDE DEF up
    <2> QED BY <1>1, SmallestOfFamily
  <1> SUFFICES ASSUME \A i \in S : i \in Int PROVE \A i \in S : i <= j
    OBVIOUS
  <1>3. ASSUME NEW i \in S PROVE i <= j
    <2>0. i \in Int /\ j \in Int
      OBVIOUS
    <2>1. CASE i > j
      <3>1. \A k \in Int : k >= i => k >= j
        BY <2>0, <2>1
      <3>2. up[i] \subseteq up[j]
        BY <3>1
      <3>3. up[i] = up[j]
        BY <1>2, <3>2
      <3>4. j \in up[j] /\ j \notin up[i]
        BY <2>0, <2>1
      <3> QED BY <3>3, <3>4
    <2> QED BY <2>0, <2>1
  <1> QED BY <1>3

\* Induction up to h over a set of numbers.
LEMMA UpTo ==
  ASSUME NEW h \in Nat, NEW G, 0 \in G,
         \A n \in 1..h : n - 1 \in G => n \in G
  PROVE  \A n \in 0..h : n \in G
  <1> DEFINE bad == {n \in 0..h : n \notin G}
  <1> SUFFICES ASSUME bad # {} PROVE FALSE
    OBVIOUS
  <1>1. PICK n \in bad : \A m \in bad : n <= m
    <2>1. IsFiniteSet(bad)
      <3>1. IsFiniteSet(0..h)
        BY FS_Interval
      <3>2. bad \in SUBSET (0..h)
        OBVIOUS
      <3> QED BY <3>1, <3>2, FS_Subset
    <2>2. \A i \in bad : i \in Int
      OBVIOUS
    <2> HIDE DEF bad
    <2> QED BY <2>1, <2>2, LeastExists
  <1>2. n \in 1..h /\ n - 1 \in 0..h /\ n - 1 \notin bad
    BY <1>1
  <1> QED BY <1>2

\* The element with which a fold over s begins.
Chosen(s) == CHOOSE x \in s : TRUE

\* g tabulates the sums of f over all subsets of S, as a fold computes them.
IsSumTable(g, f, S) ==
  g = [s \in SUBSET S |-> IF s = {} THEN 0 ELSE f[Chosen(s)] + g[s \ {Chosen(s)}]]

\* A set that is not empty has its first element.
LEMMA ChosenIn == ASSUME NEW s, s # {} PROVE Chosen(s) \in s
  BY DEF Chosen

\* An entry of a table of sums.
LEMMA TableEntries ==
  ASSUME NEW S, NEW f, NEW g, IsSumTable(g, f, S), NEW s \in SUBSET S
  PROVE  g[s] = IF s = {} THEN 0 ELSE f[Chosen(s)] + g[s \ {Chosen(s)}]
  BY DEF IsSumTable

\* Tables over two sets agree where both are defined: the sum over a set is
\* the same in each.
LEMMA TablesAgree ==
  ASSUME NEW S, IsFiniteSet(S), NEW f, NEW T \in SUBSET S,
         NEW g, IsSumTable(g, f, S), NEW h, IsSumTable(h, f, T)
  PROVE  \A U \in SUBSET T : g[U] = h[U]
  <1> DEFINE Q == {U \in SUBSET T : g[U] # h[U]}
  <1> SUFFICES ASSUME Q # {} PROVE FALSE
    OBVIOUS
  <1>1. IsFiniteSet(T)
    BY FS_Subset
  <1>2. PICK U \in Q : \A V \in Q : V \subseteq U => V = U
    <2>1. Q \subseteq SUBSET T
      OBVIOUS
    <2> HIDE DEF Q
    <2> QED BY <2>1, <1>1, MinimalSubset
  <1>3. g[U] = IF U = {} THEN 0 ELSE f[Chosen(U)] + g[U \ {Chosen(U)}]
    BY TableEntries
  <1>4. h[U] = IF U = {} THEN 0 ELSE f[Chosen(U)] + h[U \ {Chosen(U)}]
    BY TableEntries
  <1>5. U # {}
    BY <1>3, <1>4
  <1>6. U \ {Chosen(U)} \notin Q
    BY <1>2, <1>5, ChosenIn
  <1> QED
    BY <1>3, <1>4, <1>5, <1>6

\* There is a table of sums over every finite set.
LEMMA TableExists ==
  ASSUME NEW S, IsFiniteSet(S), NEW f
  PROVE  \E g : IsSumTable(g, f, S)
  <1> DEFINE Q == {T \in SUBSET S : ~ \E g : IsSumTable(g, f, T)}
  <1> SUFFICES ASSUME Q # {} PROVE FALSE
    OBVIOUS
  <1>1. PICK T \in Q : \A U \in Q : U \subseteq T => U = T
    <2>1. Q \subseteq SUBSET S
      OBVIOUS
    <2> HIDE DEF Q
    <2> QED BY <2>1, MinimalSubset
  <1> DEFINE H(s) == CHOOSE h : IsSumTable(h, f, s)
             Less(s) == s \ {Chosen(s)}
             G == [s \in SUBSET T |-> IF s = {} THEN 0 ELSE f[Chosen(s)] + H(Less(s))[Less(s)]]
  <1>2. ASSUME NEW s \in SUBSET T, s # T PROVE IsSumTable(H(s), f, s)
    BY <1>1, <1>2
  <1>3. ASSUME NEW s \in SUBSET T, s # {} PROVE Less(s) \in SUBSET T /\ Less(s) # T /\ Less(s) # s
    BY <1>3, ChosenIn
  <1>4. ASSUME NEW s \in SUBSET T, s # T PROVE G[s] = H(s)[s]
    <2>1. CASE s = {}
      BY <1>2, <1>4, <2>1, TableEntries
    <2>2. CASE s # {}
      <3>1. H(s)[s] = f[Chosen(s)] + H(s)[Less(s)]
        BY <1>2, <1>4, <2>2, TableEntries
      <3>2. IsFiniteSet(s)
        BY FS_Subset
      <3>3. H(s)[Less(s)] = H(Less(s))[Less(s)]
        <4>1. IsSumTable(H(s), f, s) /\ IsSumTable(H(Less(s)), f, Less(s))
          BY <1>2, <1>3, <1>4, <2>2
        <4>2. Less(s) \in SUBSET s
          OBVIOUS
        <4> HIDE DEF H, Less
        <4> QED BY <4>1, <4>2, <3>2, TablesAgree
      <3> QED BY <3>1, <3>3, <2>2
    <2> QED BY <2>1, <2>2
  <1>5. G = [s \in SUBSET T |-> IF s = {} THEN 0 ELSE f[Chosen(s)] + G[Less(s)]]
    <2>1. \A s \in SUBSET T : s # {} => G[Less(s)] = H(Less(s))[Less(s)]
      BY <1>3, <1>4
    <2> HIDE DEF H, Less
    <2> QED BY <2>1
  <1>6. IsSumTable(G, f, T)
    BY <1>5 DEF IsSumTable
  <1> QED
    BY <1>6, <1>1

\* The community module's sum is an entry of a table.
LEMMA SumIsTable ==
  ASSUME NEW S, IsFiniteSet(S), NEW f
  PROVE  \E g : IsSumTable(g, f, S) /\ SumFunctionOnSet(f, S) = g[S]
  <1> DEFINE g == CHOOSE g : IsSumTable(g, f, S)
  <1>1. IsSumTable(g, f, S)
    BY TableExists
  <1>2. SumFunctionOnSet(f, S) = g[S]
    BY DEF SumFunctionOnSet, FoldFunctionOnSet, MapThenFoldSet, IsSumTable, Chosen
  <1> QED BY <1>1, <1>2

\* A sum is its first term and the sum of the others.
LEMMA SumChosen ==
  ASSUME NEW S, IsFiniteSet(S), NEW f
  PROVE  SumFunctionOnSet(f, S) =
           IF S = {} THEN 0 ELSE f[Chosen(S)] + SumFunctionOnSet(f, S \ {Chosen(S)})
  <1>1. PICK g : IsSumTable(g, f, S) /\ SumFunctionOnSet(f, S) = g[S]
    BY SumIsTable
  <1> DEFINE T == S \ {Chosen(S)}
  <1>2. IsFiniteSet(T)
    BY FS_Subset
  <1>3. PICK h : IsSumTable(h, f, T) /\ SumFunctionOnSet(f, T) = h[T]
    BY <1>2, SumIsTable
  <1>4. g[T] = h[T]
    BY <1>1, <1>3, TablesAgree
  <1>5. g[S] = IF S = {} THEN 0 ELSE f[Chosen(S)] + g[T]
    BY <1>1, TableEntries
  <1> QED
    BY <1>1, <1>3, <1>4, <1>5

\* The empty sum.
LEMMA SumOfNone == ASSUME NEW f PROVE SumFunctionOnSet(f, {}) = 0
  BY FS_EmptySet, SumChosen

\* Zeros sum to zero.
LEMMA SumOfZeros ==
  ASSUME NEW S, IsFiniteSet(S), NEW f, \A x \in S : f[x] = 0
  PROVE  SumFunctionOnSet(f, S) = 0
  <1> DEFINE Q == {T \in SUBSET S : SumFunctionOnSet(f, T) # 0}
  <1> SUFFICES ASSUME Q # {} PROVE FALSE
    OBVIOUS
  <1>1. PICK T \in Q : \A U \in Q : U \subseteq T => U = T
    <2>1. Q \subseteq SUBSET S
      OBVIOUS
    <2> HIDE DEF Q
    <2> QED BY <2>1, MinimalSubset
  <1>2. IsFiniteSet(T) /\ T # {}
    BY FS_Subset, SumOfNone
  <1>3. Chosen(T) \in T
    BY <1>2, ChosenIn
  <1>4. SumFunctionOnSet(f, T \ {Chosen(T)}) = 0
    BY <1>1, <1>3
  <1>5. SumFunctionOnSet(f, T) = f[Chosen(T)] + SumFunctionOnSet(f, T \ {Chosen(T)})
    BY <1>2, SumChosen
  <1> QED
    BY <1>3, <1>4, <1>5

\* Integers sum to an integer.
LEMMA SumIsInt ==
  ASSUME NEW S, IsFiniteSet(S), NEW f, \A x \in S : f[x] \in Int
  PROVE  SumFunctionOnSet(f, S) \in Int
  <1> DEFINE Q == {T \in SUBSET S : SumFunctionOnSet(f, T) \notin Int}
  <1> SUFFICES ASSUME Q # {} PROVE FALSE
    OBVIOUS
  <1>1. PICK T \in Q : \A U \in Q : U \subseteq T => U = T
    <2>1. Q \subseteq SUBSET S
      OBVIOUS
    <2> HIDE DEF Q
    <2> QED BY <2>1, MinimalSubset
  <1>2. IsFiniteSet(T)
    BY FS_Subset
  <1>3. T # {}
    BY SumOfNone
  <1>4. Chosen(T) \in T
    BY <1>3, ChosenIn
  <1>5. SumFunctionOnSet(f, T \ {Chosen(T)}) \in Int
    BY <1>1, <1>4
  <1>6. SumFunctionOnSet(f, T) = f[Chosen(T)] + SumFunctionOnSet(f, T \ {Chosen(T)})
    BY <1>2, <1>3, SumChosen
  <1>7. f[Chosen(T)] \in Int
    BY <1>4
  <1> QED
    BY <1>5, <1>6, <1>7

\* Any term can be taken out of a sum, not only the first one.
LEMMA SumWithout ==
  ASSUME NEW S, IsFiniteSet(S), NEW f, \A y \in S : f[y] \in Int, NEW x \in S
  PROVE  SumFunctionOnSet(f, S) = f[x] + SumFunctionOnSet(f, S \ {x})
  <1> DEFINE Q == {T \in SUBSET S : \E y \in T :
                     SumFunctionOnSet(f, T) # f[y] + SumFunctionOnSet(f, T \ {y})}
  <1> SUFFICES ASSUME Q # {} PROVE FALSE
    OBVIOUS
  <1>1. PICK T \in Q : \A U \in Q : U \subseteq T => U = T
    <2>1. Q \subseteq SUBSET S
      OBVIOUS
    <2> HIDE DEF Q
    <2> QED BY <2>1, MinimalSubset
  <1>2. PICK y \in T : SumFunctionOnSet(f, T) # f[y] + SumFunctionOnSet(f, T \ {y})
    OBVIOUS
  <1> DEFINE c == Chosen(T)
  <1>3. \A U \in SUBSET T : IsFiniteSet(U) /\ SumFunctionOnSet(f, U) \in Int
    BY FS_Subset, SumIsInt
  <1>4. c \in T /\ SumFunctionOnSet(f, T) = f[c] + SumFunctionOnSet(f, T \ {c})
    BY <1>2, <1>3, ChosenIn, SumChosen
  <1>5. c # y
    BY <1>2, <1>4
  <1>6. SumFunctionOnSet(f, T \ {c}) = f[y] + SumFunctionOnSet(f, (T \ {c}) \ {y})
    <2>1. T \ {c} \in SUBSET S /\ T \ {c} # T /\ y \in T \ {c}
      BY <1>4, <1>5
    <2> QED BY <2>1, <1>1
  <1>7. SumFunctionOnSet(f, T \ {y}) = f[c] + SumFunctionOnSet(f, (T \ {y}) \ {c})
    <2>1. T \ {y} \in SUBSET S /\ T \ {y} # T /\ c \in T \ {y}
      BY <1>4, <1>5
    <2> QED BY <2>1, <1>1
  <1>8. (T \ {y}) \ {c} = (T \ {c}) \ {y}
    OBVIOUS
  <1>9. f[c] \in Int /\ f[y] \in Int /\ SumFunctionOnSet(f, (T \ {c}) \ {y}) \in Int
    BY <1>3, <1>4
  <1>10. SumFunctionOnSet(f, T \ {y}) = f[c] + SumFunctionOnSet(f, (T \ {c}) \ {y})
    BY <1>7, <1>8
  <1>11. SumFunctionOnSet(f, T) = f[c] + (f[y] + SumFunctionOnSet(f, (T \ {c}) \ {y}))
    BY <1>4, <1>6
  <1> HIDE DEF c, Q
  <1> QED
    BY <1>2, <1>9, <1>10, <1>11

\* A new term adds its value.
LEMMA SumWith ==
  ASSUME NEW S, IsFiniteSet(S), NEW x, x \notin S, NEW f, \A y \in S \cup {x} : f[y] \in Int
  PROVE  SumFunctionOnSet(f, S \cup {x}) = f[x] + SumFunctionOnSet(f, S)
  <1>1. IsFiniteSet(S \cup {x}) /\ (S \cup {x}) \ {x} = S
    BY FS_AddElement
  <1>2. SumFunctionOnSet(f, S \cup {x}) = f[x] + SumFunctionOnSet(f, (S \cup {x}) \ {x})
    BY <1>1, SumWithout
  <1> QED BY <1>1, <1>2

\* Functions that agree on a set have the same sum over it.
LEMMA SumOfSame ==
  ASSUME NEW S, IsFiniteSet(S), NEW f, NEW g, \A x \in S : f[x] = g[x]
  PROVE  SumFunctionOnSet(f, S) = SumFunctionOnSet(g, S)
  <1> DEFINE Q == {T \in SUBSET S : SumFunctionOnSet(f, T) # SumFunctionOnSet(g, T)}
  <1> SUFFICES ASSUME Q # {} PROVE FALSE
    OBVIOUS
  <1>1. PICK T \in Q : \A U \in Q : U \subseteq T => U = T
    <2>1. Q \subseteq SUBSET S
      OBVIOUS
    <2> HIDE DEF Q
    <2> QED BY <2>1, MinimalSubset
  <1>2. IsFiniteSet(T) /\ T # {}
    BY FS_Subset, SumOfNone
  <1>3. Chosen(T) \in T
    BY <1>2, ChosenIn
  <1>4. SumFunctionOnSet(f, T \ {Chosen(T)}) = SumFunctionOnSet(g, T \ {Chosen(T)})
    BY <1>1, <1>3
  <1>5. /\ SumFunctionOnSet(f, T) = f[Chosen(T)] + SumFunctionOnSet(f, T \ {Chosen(T)})
        /\ SumFunctionOnSet(g, T) = g[Chosen(T)] + SumFunctionOnSet(g, T \ {Chosen(T)})
    BY <1>2, SumChosen
  <1> QED
    BY <1>3, <1>4, <1>5

\* The sum over disjoint sets is the sum of the sums.
LEMMA SumOfUnion ==
  ASSUME NEW S, IsFiniteSet(S), NEW T, IsFiniteSet(T), S \cap T = {},
         NEW f, \A x \in S \cup T : f[x] \in Int
  PROVE  SumFunctionOnSet(f, S \cup T) = SumFunctionOnSet(f, S) + SumFunctionOnSet(f, T)
  <1> DEFINE Q == {U \in SUBSET T : SumFunctionOnSet(f, S \cup U) #
                                      SumFunctionOnSet(f, S) + SumFunctionOnSet(f, U)}
  <1> SUFFICES ASSUME Q # {} PROVE FALSE
    OBVIOUS
  <1>1. PICK U \in Q : \A V \in Q : V \subseteq U => V = U
    <2>1. Q \subseteq SUBSET T
      OBVIOUS
    <2> HIDE DEF Q
    <2> QED BY <2>1, MinimalSubset
  <1>2. SumFunctionOnSet(f, S) \in Int
    BY SumIsInt
  <1>3. U # {}
    <2>1. S \cup {} = S
      OBVIOUS
    <2> QED BY <2>1, <1>2, SumOfNone
  <1> DEFINE c == Chosen(U)
             V == U \ {c}
  <1>4. c \in U
    BY <1>3, ChosenIn
  <1>5. V \notin Q
    BY <1>1, <1>4
  <1>6. IsFiniteSet(U) /\ IsFiniteSet(V) /\ IsFiniteSet(S \cup U)
    BY FS_Subset, FS_Union
  <1>7. SumFunctionOnSet(f, U) = f[c] + SumFunctionOnSet(f, V)
    BY <1>4, <1>6, SumWithout
  <1>8. SumFunctionOnSet(f, S \cup U) = f[c] + SumFunctionOnSet(f, S \cup V)
    <2>1. (S \cup U) \ {c} = S \cup V /\ c \in S \cup U
      BY <1>4
    <2> HIDE DEF c, V
    <2> QED BY <2>1, <1>6, SumWithout
  <1>9. SumFunctionOnSet(f, V) \in Int /\ f[c] \in Int
    BY <1>4, <1>6, SumIsInt
  <1>10. SumFunctionOnSet(f, S \cup V) = SumFunctionOnSet(f, S) + SumFunctionOnSet(f, V)
    BY <1>5
  <1>11. SumFunctionOnSet(f, S \cup U) # SumFunctionOnSet(f, S) + SumFunctionOnSet(f, U)
    OBVIOUS
  <1> HIDE DEF c, V, Q
  <1> QED
    BY <1>2, <1>7, <1>8, <1>9, <1>10, <1>11

\* Naturals sum to a natural.
LEMMA SumOfNaturals ==
  ASSUME NEW S, IsFiniteSet(S), NEW f, \A x \in S : f[x] \in Nat
  PROVE  SumFunctionOnSet(f, S) \in Nat
  <1> DEFINE Q == {T \in SUBSET S : SumFunctionOnSet(f, T) \notin Nat}
  <1> SUFFICES ASSUME Q # {} PROVE FALSE
    OBVIOUS
  <1>1. PICK T \in Q : \A U \in Q : U \subseteq T => U = T
    <2>1. Q \subseteq SUBSET S
      OBVIOUS
    <2> HIDE DEF Q
    <2> QED BY <2>1, MinimalSubset
  <1>2. IsFiniteSet(T) /\ T # {}
    <2>1. IsFiniteSet(T)
      BY FS_Subset
    <2>2. SumFunctionOnSet(f, {}) \in Nat
      BY SumOfNone
    <2> QED BY <2>1, <2>2
  <1>3. Chosen(T) \in T
    BY <1>2, ChosenIn
  <1>4. SumFunctionOnSet(f, T \ {Chosen(T)}) \in Nat
    BY <1>1, <1>3
  <1>5. SumFunctionOnSet(f, T) = f[Chosen(T)] + SumFunctionOnSet(f, T \ {Chosen(T)})
    BY <1>2, SumChosen
  <1>6. f[Chosen(T)] \in Nat
    BY <1>3
  <1> QED
    BY <1>4, <1>5, <1>6

\* Changing one term changes the sum by the difference.
LEMMA SumUpdated ==
  ASSUME NEW S, IsFiniteSet(S), NEW x \in S, NEW f, NEW g,
         \A y \in S : f[y] \in Int /\ g[y] \in Int,
         \A y \in S \ {x} : g[y] = f[y]
  PROVE  SumFunctionOnSet(g, S) = SumFunctionOnSet(f, S) + g[x] - f[x]
  <1>1. IsFiniteSet(S \ {x})
    BY FS_RemoveElement
  <1>2. SumFunctionOnSet(f, S) = f[x] + SumFunctionOnSet(f, S \ {x})
    BY SumWithout
  <1>3. SumFunctionOnSet(g, S) = g[x] + SumFunctionOnSet(g, S \ {x})
    BY SumWithout
  <1>4. SumFunctionOnSet(g, S \ {x}) = SumFunctionOnSet(f, S \ {x})
    BY <1>1, SumOfSame
  <1>5. SumFunctionOnSet(f, S \ {x}) \in Int
    BY <1>1, SumIsInt
  <1> QED
    BY <1>2, <1>3, <1>4, <1>5
=============================================================================
