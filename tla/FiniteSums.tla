----------------------------- MODULE FiniteSums -----------------------------
(***************************************************************************)
(* Sums over finite sets of rows: what SumFunctionOnSet of the community   *)
(* modules computes, for the proofs of invariants about money and points.  *)
(* Induction takes its predicate as a set here.                            *)
(***************************************************************************)
EXTENDS Functions, FiniteSets, FiniteSetTheorems, WellFoundedInduction, TLAPS

Below == {s \in Nat \X Nat : s[1] < s[2]}

LEMMA BelowWellFounded == IsWellFoundedOn(Below, Nat)
BY NatLessThanWellFounded DEF OpToRel, Below

(* A set of numbers has a least element.                                    *)
LEMMA LeastExists ==
  ASSUME NEW S \in SUBSET Nat, S # {}
  PROVE  \E m \in S : \A k \in S : m <= k
<1>1. PICK m \in S : \A k \in S : ~ (<<k, m>> \in Below)
  BY BelowWellFounded, WFMin
<1>2. ASSUME NEW k \in S PROVE m <= k
  <2>1. k \in Nat /\ m \in Nat OBVIOUS
  <2>2. ~ (k < m) BY <1>1, <2>1 DEF Below
  <2> QED BY <2>1, <2>2
<1> QED BY <1>2

(* Induction over the subsets of a finite set, by removing an element.      *)
LEMMA SubsetInduction ==
  ASSUME NEW S, IsFiniteSet(S), NEW G, {} \in G,
         \A T \in SUBSET S : T # {} /\ (\A x \in T : T \ {x} \in G) => T \in G
  PROVE  \A T \in SUBSET S : T \in G
<1> DEFINE Bad == {T \in SUBSET S : T \notin G}
           Sizes == {Cardinality(T) : T \in Bad}
<1>1. SUFFICES ASSUME Bad # {} PROVE FALSE
  OBVIOUS
<1>2. \A T \in SUBSET S : IsFiniteSet(T) /\ Cardinality(T) \in Nat
  BY FS_Subset, FS_CardinalityType
<1>3. Sizes \in SUBSET Nat /\ Sizes # {}
  BY <1>1, <1>2
<1>4. PICK m \in Sizes : \A k \in Sizes : m <= k
  <2> HIDE DEF Sizes
  <2> QED BY <1>3, LeastExists
<1>5. PICK T \in Bad : m = Cardinality(T)
  BY <1>4
<1>6. T \in SUBSET S /\ T \notin G /\ T # {}
  BY <1>5
<1>7. ASSUME NEW x \in T PROVE T \ {x} \in G
  <2>1. Cardinality(T \ {x}) = m - 1 /\ m \in Nat
    BY <1>2, <1>5, <1>6, FS_RemoveElement
  <2>2. SUFFICES ASSUME T \ {x} \notin G PROVE FALSE
    OBVIOUS
  <2>3. T \ {x} \in Bad
    BY <1>6, <2>2
  <2>4. m - 1 \in Sizes
    BY <2>1, <2>3
  <2> QED BY <1>4, <2>1, <2>4
<1> QED BY <1>6, <1>7

(* Induction over the natural numbers.                                      *)
LEMMA NatInductionSet ==
  ASSUME NEW G, 0 \in G, \A n \in Nat : n \in G => n + 1 \in G
  PROVE  \A n \in Nat : n \in G
<1> DEFINE Bad == {n \in Nat : n \notin G}
<1>1. SUFFICES ASSUME Bad # {} PROVE FALSE
  OBVIOUS
<1>2. PICK m \in Bad : \A k \in Bad : m <= k
  <2>1. Bad \in SUBSET Nat
    OBVIOUS
  <2> HIDE DEF Bad
  <2> QED BY <1>1, <2>1, LeastExists
<1>3. m \in Nat /\ m # 0 /\ m - 1 \in Nat
  OBVIOUS
<1>4. m - 1 \in Bad
  BY <1>3
<1> QED BY <1>2, <1>3, <1>4

-----------------------------------------------------------------------------
(* The recursive function behind the sum.                                   *)

Picked(s) == CHOOSE x \in s : TRUE
Sums(f, S, g) ==
  g = [s \in SUBSET S |-> IF s = {} THEN 0 ELSE f[Picked(s)] + g[s \ {Picked(s)}]]

LEMMA SumsExist ==
  ASSUME NEW f, NEW S, IsFiniteSet(S) PROVE \E g : Sums(f, S, g)
<1> DEFINE L(n) == {s \in SUBSET S : Cardinality(s) <= n}
           Step(g, s) == IF s = {} THEN 0 ELSE f[Picked(s)] + g[s \ {Picked(s)}]
           G == {n \in Nat : \E g : g = [s \in L(n) |-> Step(g, s)]}
<1>1. \A s \in SUBSET S : IsFiniteSet(s) /\ Cardinality(s) \in Nat
  BY FS_Subset, FS_CardinalityType
<1>2. \A s \in SUBSET S : s # {} => Picked(s) \in s
  BY DEF Picked
<1>3. \A s \in SUBSET S : s # {} => Cardinality(s \ {Picked(s)}) = Cardinality(s) - 1
  BY <1>1, <1>2, FS_RemoveElement
<1>4. 0 \in G
  <2>1. \A s \in L(0) : s = {}
    BY <1>1, FS_EmptySet
  <2> DEFINE g == [s \in L(0) |-> 0]
  <2>2. g = [s \in L(0) |-> Step(g, s)]
    BY <2>1
  <2> QED BY <2>2
<1>5. ASSUME NEW n \in Nat, n \in G PROVE n + 1 \in G
  <2>1. PICK g : g = [s \in L(n) |-> Step(g, s)]
    BY <1>5
  <2> DEFINE h == [s \in L(n+1) |-> Step(g, s)]
  <2>2. ASSUME NEW s \in L(n+1) PROVE h[s] = Step(h, s)
    <3>1. CASE s = {}
      BY <3>1
    <3>2. CASE s # {}
      <4> DEFINE r == s \ {Picked(s)}
      <4>1. r \in L(n) /\ r \in L(n+1)
        BY <1>1, <1>3, <3>2
      <4>2. g[r] = Step(g, r)
        BY <2>1, <4>1
      <4>3. h[r] = Step(g, r)
        BY <4>1
      <4> HIDE DEF r
      <4>4. h[s] = f[Picked(s)] + g[r]
        BY <3>2 DEF r
      <4>5. Step(h, s) = f[Picked(s)] + h[r]
        BY <3>2 DEF r
      <4> HIDE DEF h, Step
      <4> QED BY <4>2, <4>3, <4>4, <4>5
    <3> QED BY <3>1, <3>2
  <2>3. h = [s \in L(n+1) |-> Step(h, s)]
    <3> DEFINE k == [s \in L(n+1) |-> Step(h, s)]
    <3>1. \A s \in L(n+1) : h[s] = k[s]
      <4> HIDE DEF h, L, Step
      <4> QED BY <2>2
    <3>2. h = [s \in L(n+1) |-> h[s]] /\ k = [s \in L(n+1) |-> k[s]]
      <4> HIDE DEF L, Step
      <4> QED OBVIOUS
    <3> HIDE DEF h, k
    <3>3. h = k BY <3>1, <3>2
    <3> QED BY <3>3 DEF k
  <2> HIDE DEF h, Step, L
  <2>4. \E q : q = [s \in L(n+1) |-> Step(q, s)]
    BY <2>3
  <2> QED BY <2>4
<1>6. Cardinality(S) \in G
  <2> HIDE DEF G
  <2> QED BY <1>1, <1>4, <1>5, NatInductionSet
<1>7. L(Cardinality(S)) = SUBSET S
  BY <1>1, FS_Subset
<1> QED
  BY <1>6, <1>7 DEF Sums

LEMMA SumIs ==
  ASSUME NEW f, NEW S, IsFiniteSet(S)
  PROVE  \E g : Sums(f, S, g) /\ SumFunctionOnSet(f, S) = g[S]
<1>1. PICK g : Sums(f, S, g)
  BY SumsExist
<1> DEFINE it == CHOOSE it : it = [s \in SUBSET S |->
                   IF s = {} THEN 0 ELSE f[CHOOSE x \in s : TRUE] + it[s \ {CHOOSE x \in s : TRUE}]]
<1>2. it = [s \in SUBSET S |->
                   IF s = {} THEN 0 ELSE f[CHOOSE x \in s : TRUE] + it[s \ {CHOOSE x \in s : TRUE}]]
  BY <1>1 DEF Sums, Picked
<1>3. SumFunctionOnSet(f, S) = it[S]
  BY DEF SumFunctionOnSet, FoldFunctionOnSet, MapThenFoldSet
<1>4. Sums(f, S, it)
  BY <1>2 DEF Sums, Picked
<1> QED BY <1>3, <1>4

(* The function of a set is the restriction of the one of a larger set.     *)
LEMMA SumsAgree ==
  ASSUME NEW f, NEW S, IsFiniteSet(S), NEW R \in SUBSET S, NEW g, NEW h,
         Sums(f, S, g), Sums(f, R, h)
  PROVE  g[R] = h[R]
<1> DEFINE G == {T \in SUBSET R : g[T] = h[T]}
<1>1. IsFiniteSet(R)
  BY FS_Subset
<1>2. {} \in G
  BY DEF Sums
<1>3. ASSUME NEW T \in SUBSET R, T # {}, \A x \in T : T \ {x} \in G PROVE T \in G
  <2>1. Picked(T) \in T
    BY <1>3 DEF Picked
  <2>2. g[T \ {Picked(T)}] = h[T \ {Picked(T)}]
    BY <1>3, <2>1
  <2>3. g[T] = f[Picked(T)] + g[T \ {Picked(T)}] /\ h[T] = f[Picked(T)] + h[T \ {Picked(T)}]
    BY <1>3 DEF Sums
  <2> QED BY <2>2, <2>3
<1>4. R \in G
  <2> HIDE DEF G
  <2> QED BY <1>1, <1>2, <1>3, SubsetInduction
<1> QED BY <1>4

LEMMA SumEmpty == \A f : SumFunctionOnSet(f, {}) = 0
<1> TAKE f
<1>1. PICK g : Sums(f, {}, g) /\ SumFunctionOnSet(f, {}) = g[{}]
  BY SumIs, FS_EmptySet
<1> QED BY <1>1 DEF Sums

LEMMA SumPicked ==
  ASSUME NEW f, NEW S, IsFiniteSet(S), S # {}
  PROVE  /\ Picked(S) \in S
         /\ SumFunctionOnSet(f, S) = f[Picked(S)] + SumFunctionOnSet(f, S \ {Picked(S)})
<1> DEFINE R == S \ {Picked(S)}
<1>1. Picked(S) \in S
  BY DEF Picked
<1>2. IsFiniteSet(R) /\ R \in SUBSET S
  BY FS_RemoveElement
<1>3. PICK g : Sums(f, S, g) /\ SumFunctionOnSet(f, S) = g[S]
  BY SumIs
<1>4. PICK h : Sums(f, R, h) /\ SumFunctionOnSet(f, R) = h[R]
  BY <1>2, SumIs
<1>5. g[R] = h[R]
  <2> HIDE DEF R
  <2> QED BY <1>2, <1>3, <1>4, SumsAgree
<1>6. g[S] = f[Picked(S)] + g[R]
  BY <1>3 DEF Sums
<1> QED BY <1>1, <1>3, <1>4, <1>5, <1>6

-----------------------------------------------------------------------------
(* What the sum of integers does.                                           *)

LEMMA SumType ==
  ASSUME NEW S, IsFiniteSet(S), NEW f, \A x \in S : f[x] \in Int
  PROVE  SumFunctionOnSet(f, S) \in Int
<1> DEFINE G == {T \in SUBSET S : SumFunctionOnSet(f, T) \in Int}
<1>1. {} \in G
  BY SumEmpty
<1>2. ASSUME NEW T \in SUBSET S, T # {}, \A x \in T : T \ {x} \in G PROVE T \in G
  <2>1. IsFiniteSet(T)
    BY FS_Subset
  <2>2. Picked(T) \in T /\ SumFunctionOnSet(f, T) = f[Picked(T)] + SumFunctionOnSet(f, T \ {Picked(T)})
    BY <1>2, <2>1, SumPicked
  <2> QED BY <1>2, <2>2
<1>3. S \in G
  <2> HIDE DEF G
  <2>1. \A T \in SUBSET S : T # {} /\ (\A x \in T : T \ {x} \in G) => T \in G
    BY <1>2
  <2>2. \A T \in SUBSET S : T \in G
    BY ONLY IsFiniteSet(S), <1>1, <2>1, SubsetInduction
  <2> QED BY <2>2
<1> QED BY <1>3

(* The sum does not depend on the order: any element may be taken out.      *)
LEMMA SumRemove ==
  ASSUME NEW S, IsFiniteSet(S), NEW f, \A x \in S : f[x] \in Int, NEW y \in S
  PROVE  SumFunctionOnSet(f, S) = f[y] + SumFunctionOnSet(f, S \ {y})
<1> DEFINE G == {T \in SUBSET S : \A x \in T :
                   SumFunctionOnSet(f, T) = f[x] + SumFunctionOnSet(f, T \ {x})}
<1>1. {} \in G
  OBVIOUS
<1>2. ASSUME NEW T \in SUBSET S, T # {}, \A x \in T : T \ {x} \in G PROVE T \in G
  <2> SUFFICES ASSUME NEW x \in T
               PROVE  SumFunctionOnSet(f, T) = f[x] + SumFunctionOnSet(f, T \ {x})
    OBVIOUS
  <2>1. IsFiniteSet(T)
    BY FS_Subset
  <2>2. PICK c \in T : SumFunctionOnSet(f, T) = f[c] + SumFunctionOnSet(f, T \ {c})
    BY <1>2, <2>1, SumPicked
  <2>3. CASE c = x
    BY <2>2, <2>3
  <2>4. CASE c # x
    <3> DEFINE U == T \ {c, x}
    <3>1. T \ {c} \in G /\ T \ {x} \in G /\ x \in T \ {c} /\ c \in T \ {x}
      BY <1>2, <2>4
    <3>2. (T \ {c}) \ {x} = U /\ (T \ {x}) \ {c} = U
      OBVIOUS
    <3>3. /\ SumFunctionOnSet(f, T \ {c}) = f[x] + SumFunctionOnSet(f, U)
          /\ SumFunctionOnSet(f, T \ {x}) = f[c] + SumFunctionOnSet(f, U)
      BY <3>1, <3>2
    <3>4. SumFunctionOnSet(f, U) \in Int /\ f[x] \in Int /\ f[c] \in Int
      <4>1. IsFiniteSet(U) /\ \A z \in U : f[z] \in Int
        BY FS_Subset
      <4> HIDE DEF U
      <4> QED BY <4>1, SumType
    <3> HIDE DEF U, G
    <3> QED BY <2>2, <3>3, <3>4
  <2> QED BY <2>3, <2>4
<1>3. S \in G
  <2> HIDE DEF G
  <2>1. \A T \in SUBSET S : T # {} /\ (\A x \in T : T \ {x} \in G) => T \in G
    BY <1>2
  <2>2. \A T \in SUBSET S : T \in G
    BY ONLY IsFiniteSet(S), <1>1, <2>1, SubsetInduction
  <2> QED BY <2>2
<1> QED BY <1>3

LEMMA SumSame ==
  ASSUME NEW S, IsFiniteSet(S), NEW f, NEW g, \A x \in S : f[x] = g[x]
  PROVE  SumFunctionOnSet(f, S) = SumFunctionOnSet(g, S)
<1> DEFINE G == {T \in SUBSET S : SumFunctionOnSet(f, T) = SumFunctionOnSet(g, T)}
<1>1. {} \in G
  BY SumEmpty
<1>2. ASSUME NEW T \in SUBSET S, T # {}, \A x \in T : T \ {x} \in G PROVE T \in G
  <2>1. IsFiniteSet(T)
    BY FS_Subset
  <2>2. /\ Picked(T) \in T
        /\ SumFunctionOnSet(f, T) = f[Picked(T)] + SumFunctionOnSet(f, T \ {Picked(T)})
        /\ SumFunctionOnSet(g, T) = g[Picked(T)] + SumFunctionOnSet(g, T \ {Picked(T)})
    BY <1>2, <2>1, SumPicked
  <2>3. SumFunctionOnSet(f, T \ {Picked(T)}) = SumFunctionOnSet(g, T \ {Picked(T)})
    BY <1>2, <2>2
  <2> QED BY <2>2, <2>3
<1>3. S \in G
  <2> HIDE DEF G
  <2>1. \A T \in SUBSET S : T # {} /\ (\A x \in T : T \ {x} \in G) => T \in G
    BY <1>2
  <2>2. \A T \in SUBSET S : T \in G
    BY ONLY IsFiniteSet(S), <1>1, <2>1, SubsetInduction
  <2> QED BY <2>2
<1> QED BY <1>3

(* A change of one row moves the sum by the change of that row.             *)
LEMMA SumUpdate ==
  ASSUME NEW S, IsFiniteSet(S), NEW f, NEW g, NEW y \in S,
         \A x \in S : f[x] \in Int /\ g[x] \in Int, \A x \in S \ {y} : f[x] = g[x]
  PROVE  SumFunctionOnSet(g, S) = SumFunctionOnSet(f, S) - f[y] + g[y]
<1> DEFINE R == S \ {y}
<1>1. IsFiniteSet(R) /\ \A x \in R : f[x] = g[x] /\ f[x] \in Int
  BY FS_RemoveElement
<1>2. SumFunctionOnSet(f, S) = f[y] + SumFunctionOnSet(f, R)
  BY SumRemove
<1>3. SumFunctionOnSet(g, S) = g[y] + SumFunctionOnSet(g, R)
  BY SumRemove
<1> HIDE DEF R
<1>4. SumFunctionOnSet(f, R) = SumFunctionOnSet(g, R) /\ SumFunctionOnSet(f, R) \in Int
  BY <1>1, SumSame, SumType
<1> QED BY <1>2, <1>3, <1>4

(* A larger row set counts what it adds.                                    *)
LEMMA SumAdd ==
  ASSUME NEW S, IsFiniteSet(S), NEW f, NEW y, y \notin S, \A x \in S \cup {y} : f[x] \in Int
  PROVE  SumFunctionOnSet(f, S \cup {y}) = f[y] + SumFunctionOnSet(f, S)
<1>1. IsFiniteSet(S \cup {y}) /\ (S \cup {y}) \ {y} = S
  BY FS_AddElement
<1> DEFINE R == S \cup {y}
<1>2. y \in R
  OBVIOUS
<1>3. SumFunctionOnSet(f, R) = f[y] + SumFunctionOnSet(f, R \ {y})
  <2>1. \A x \in R : f[x] \in Int OBVIOUS
  <2> HIDE DEF R
  <2> QED BY <1>1, <1>2, <2>1, SumRemove DEF R
<1> QED BY <1>1, <1>3

LEMMA SumMonotone ==
  ASSUME NEW S, IsFiniteSet(S), NEW f, NEW g,
         \A x \in S : f[x] \in Int /\ g[x] \in Int /\ f[x] <= g[x]
  PROVE  SumFunctionOnSet(f, S) <= SumFunctionOnSet(g, S)
<1> DEFINE G == {T \in SUBSET S : SumFunctionOnSet(f, T) <= SumFunctionOnSet(g, T)}
<1>1. {} \in G
  BY SumEmpty
<1>2. ASSUME NEW T \in SUBSET S, T # {}, \A x \in T : T \ {x} \in G PROVE T \in G
  <2>1. PICK c \in T : c = Picked(T)
    BY <1>2 DEF Picked
  <2> DEFINE R == T \ {c}
  <2>2. IsFiniteSet(T) /\ IsFiniteSet(R) /\ R \in G
    BY <1>2, FS_Subset
  <2>3. /\ SumFunctionOnSet(f, T) = f[c] + SumFunctionOnSet(f, R)
        /\ SumFunctionOnSet(g, T) = g[c] + SumFunctionOnSet(g, R)
    BY <1>2, <2>1, <2>2, SumPicked
  <2>4. \A x \in R : f[x] \in Int /\ g[x] \in Int
    OBVIOUS
  <2>5. SumFunctionOnSet(f, R) <= SumFunctionOnSet(g, R) /\ f[c] <= g[c] /\ f[c] \in Int /\ g[c] \in Int
    BY <2>2
  <2> HIDE DEF R, G
  <2>6. SumFunctionOnSet(f, R) \in Int /\ SumFunctionOnSet(g, R) \in Int
    BY <2>2, <2>4, SumType
  <2>7. SumFunctionOnSet(f, T) <= SumFunctionOnSet(g, T)
    BY <2>3, <2>5, <2>6
  <2> QED BY <2>7 DEF G
<1>3. S \in G
  <2> HIDE DEF G
  <2>1. \A T \in SUBSET S : T # {} /\ (\A x \in T : T \ {x} \in G) => T \in G
    BY <1>2
  <2>2. \A T \in SUBSET S : T \in G
    BY ONLY IsFiniteSet(S), <1>1, <2>1, SubsetInduction
  <2> QED BY <2>2
<1> QED BY <1>3

LEMMA SumZero ==
  ASSUME NEW S, IsFiniteSet(S), NEW f, \A x \in S : f[x] = 0
  PROVE  SumFunctionOnSet(f, S) = 0
<1> DEFINE G == {T \in SUBSET S : SumFunctionOnSet(f, T) = 0}
<1>1. {} \in G
  BY SumEmpty
<1>2. ASSUME NEW T \in SUBSET S, T # {}, \A x \in T : T \ {x} \in G PROVE T \in G
  <2>1. IsFiniteSet(T)
    BY FS_Subset
  <2>2. Picked(T) \in T /\ SumFunctionOnSet(f, T) = f[Picked(T)] + SumFunctionOnSet(f, T \ {Picked(T)})
    BY <1>2, <2>1, SumPicked
  <2> QED BY <1>2, <2>2
<1>3. S \in G
  <2> HIDE DEF G
  <2>1. \A T \in SUBSET S : T # {} /\ (\A x \in T : T \ {x} \in G) => T \in G
    BY <1>2
  <2>2. \A T \in SUBSET S : T \in G
    BY ONLY IsFiniteSet(S), <1>1, <2>1, SubsetInduction
  <2> QED BY <2>2
<1> QED BY <1>3

(* A sum of amounts is at least any of its parts.                           *)
LEMMA SumOfNats ==
  ASSUME NEW S, IsFiniteSet(S), NEW f, \A x \in S : f[x] \in Nat
  PROVE  /\ SumFunctionOnSet(f, S) \in Nat
         /\ \A x \in S : f[x] <= SumFunctionOnSet(f, S)
<1>1. ASSUME NEW T \in SUBSET S PROVE SumFunctionOnSet(f, T) \in Nat
  <2> DEFINE z == [x \in T |-> 0]
  <2>1. IsFiniteSet(T) /\ (\A x \in T : z[x] = 0 /\ f[x] \in Int /\ z[x] \in Int /\ z[x] <= f[x])
    BY FS_Subset
  <2> HIDE DEF z
  <2>2. SumFunctionOnSet(f, T) \in Int
    BY <2>1, SumType
  <2>3. SumFunctionOnSet(z, T) = 0
    BY <2>1, SumZero
  <2>4. SumFunctionOnSet(z, T) <= SumFunctionOnSet(f, T)
    BY <2>1, SumMonotone
  <2> QED BY <2>2, <2>3, <2>4
<1>2. ASSUME NEW x \in S PROVE f[x] <= SumFunctionOnSet(f, S)
  <2>1. SumFunctionOnSet(f, S) = f[x] + SumFunctionOnSet(f, S \ {x})
    BY SumRemove
  <2>2. SumFunctionOnSet(f, S \ {x}) \in Nat /\ f[x] \in Nat
    BY <1>1
  <2> QED BY <2>1, <2>2
<1> QED BY <1>1, <1>2

(* Rows left out count as zero.                                             *)
LEMMA SumFilter ==
  ASSUME NEW S, IsFiniteSet(S), NEW R \in SUBSET S, NEW f, \A x \in S : f[x] \in Int
  PROVE  SumFunctionOnSet(f, R) = SumFunctionOnSet([x \in S |-> IF x \in R THEN f[x] ELSE 0], S)
<1> DEFINE g == [x \in S |-> IF x \in R THEN f[x] ELSE 0]
           G == {T \in SUBSET S : SumFunctionOnSet(f, T \cap R) = SumFunctionOnSet(g, T)}
<1>1. {} \in G
  <2>1. {} \cap R = {}
    OBVIOUS
  <2>2. SumFunctionOnSet(f, {} \cap R) = 0 /\ SumFunctionOnSet(g, {}) = 0
    BY <2>1, SumEmpty
  <2> HIDE DEF g
  <2> QED BY <2>2
<1>2. \A x \in S : g[x] \in Int /\ g[x] = IF x \in R THEN f[x] ELSE 0
  OBVIOUS
<1> HIDE DEF g
<1>3. ASSUME NEW T \in SUBSET S, T # {}, \A x \in T : T \ {x} \in G PROVE T \in G
  <2>1. PICK c \in T : TRUE
    BY <1>3
  <2> DEFINE Q == T \ {c}
  <2>2. SumFunctionOnSet(f, Q \cap R) = SumFunctionOnSet(g, Q)
    BY <1>3
  <2>3. IsFiniteSet(T) /\ IsFiniteSet(T \cap R) /\ IsFiniteSet(Q) /\ IsFiniteSet(Q \cap R)
    BY FS_Subset
  <2>4. SumFunctionOnSet(g, T) = g[c] + SumFunctionOnSet(g, Q)
    BY <1>2, <2>3, SumRemove
  <2>5. SumFunctionOnSet(g, Q) \in Int
    BY <1>2, <2>3, SumType
  <2>6. CASE c \in R
    <3>1. (T \cap R) \ {c} = Q \cap R /\ c \in T \cap R /\ \A x \in T \cap R : f[x] \in Int
      BY <2>6
    <3>2. SumFunctionOnSet(f, T \cap R) = f[c] + SumFunctionOnSet(f, Q \cap R)
      <4> DEFINE V == T \cap R
      <4>1. IsFiniteSet(V) /\ c \in V /\ \A x \in V : f[x] \in Int
        BY <2>3, <3>1
      <4> HIDE DEF V
      <4>2. SumFunctionOnSet(f, V) = f[c] + SumFunctionOnSet(f, V \ {c})
        BY <4>1, SumRemove
      <4> QED BY <3>1, <4>2 DEF V
    <3>3. g[c] = f[c]
      BY <1>2, <2>6
    <3> QED BY <2>2, <2>4, <3>2, <3>3
  <2>7. CASE c \notin R
    <3>1. T \cap R = Q \cap R /\ g[c] = 0
      BY <1>2, <2>7
    <3> QED BY <2>2, <2>4, <2>5, <3>1
  <2> QED BY <2>6, <2>7
<1>4. \A T \in SUBSET S : T # {} /\ (\A x \in T : T \ {x} \in G) => T \in G
  BY <1>3
<1>5. S \in G
  <2> HIDE DEF G
  <2>1. \A T \in SUBSET S : T \in G
    BY ONLY IsFiniteSet(S), <1>1, <1>4, SubsetInduction
  <2> QED BY <2>1
<1>6. S \cap R = R
  OBVIOUS
<1> QED BY <1>5, <1>6 DEF g

(* The image of a finite set is finite, and a sum over it is the sum of the *)
(* function and the map, when the map is one to one.                        *)
LEMMA FiniteImage ==
  ASSUME NEW S, IsFiniteSet(S), NEW m PROVE IsFiniteSet({m[x] : x \in S})
<1> DEFINE I(T) == {m[x] : x \in T}
           G == {T \in SUBSET S : IsFiniteSet(I(T))}
<1>1. {} \in G
  <2>1. I({}) = {}
    OBVIOUS
  <2> QED BY <2>1, FS_EmptySet
<1>2. ASSUME NEW T \in SUBSET S, T # {}, \A x \in T : T \ {x} \in G PROVE T \in G
  <2>1. PICK c \in T : TRUE
    BY <1>2
  <2>2. IsFiniteSet(I(T \ {c}))
    BY <1>2
  <2>3. I(T) = I(T \ {c}) \cup {m[c]}
    OBVIOUS
  <2>4. IsFiniteSet(I(T))
    <3> DEFINE J == I(T \ {c})
    <3>1. IsFiniteSet(J) /\ I(T) = J \cup {m[c]}
      BY <2>2, <2>3
    <3> HIDE DEF J, I
    <3>2. IsFiniteSet(J \cup {m[c]})
      BY ONLY <3>1, FS_AddElement
    <3> QED BY <3>1, <3>2
  <2> QED BY <2>4
<1>3. \A T \in SUBSET S : T # {} /\ (\A x \in T : T \ {x} \in G) => T \in G
  BY <1>2
<1>4. S \in G
  <2> HIDE DEF G
  <2>1. \A T \in SUBSET S : T \in G
    BY ONLY IsFiniteSet(S), <1>1, <1>3, SubsetInduction
  <2> QED BY <2>1
<1> QED BY <1>4

LEMMA SumImage ==
  ASSUME NEW S, IsFiniteSet(S), NEW m, \A x, y \in S : m[x] = m[y] => x = y,
         NEW f, NEW g, \A x \in S : f[x] \in Int /\ g[m[x]] = f[x]
  PROVE  SumFunctionOnSet(g, {m[x] : x \in S}) = SumFunctionOnSet(f, S)
<1> DEFINE I(T) == {m[x] : x \in T}
           G == {T \in SUBSET S : SumFunctionOnSet(g, I(T)) = SumFunctionOnSet(f, T)}
<1>1. {} \in G
  <2>1. I({}) = {}
    OBVIOUS
  <2> HIDE DEF I
  <2> QED BY <2>1, SumEmpty
<1>2. ASSUME NEW T \in SUBSET S, T # {}, \A x \in T : T \ {x} \in G PROVE T \in G
  <2>1. PICK c \in T : TRUE
    BY <1>2
  <2> DEFINE R == T \ {c}
  <2>2. SumFunctionOnSet(g, I(R)) = SumFunctionOnSet(f, R)
    BY <1>2
  <2>3. IsFiniteSet(T) /\ IsFiniteSet(R)
    BY FS_Subset
  <2>4. IsFiniteSet(I(R))
    <3> HIDE DEF R
    <3>1. IsFiniteSet({m[x] : x \in R})
      BY ONLY <2>3, FiniteImage
    <3> QED BY <3>1
  <2>5. I(T) = I(R) \cup {m[c]} /\ m[c] \notin I(R)
    OBVIOUS
  <2>6. \A y \in I(R) \cup {m[c]} : g[y] \in Int
    OBVIOUS
  <2>7. g[m[c]] = f[c] /\ \A x \in T : f[x] \in Int
    OBVIOUS
  <2>8. SumFunctionOnSet(f, T) = f[c] + SumFunctionOnSet(f, R)
    BY <2>3, <2>7, SumRemove
  <2> HIDE DEF I, R
  <2>9. SumFunctionOnSet(g, I(R) \cup {m[c]}) = g[m[c]] + SumFunctionOnSet(g, I(R))
    BY ONLY <2>4, <2>5, <2>6, SumAdd
  <2>10. SumFunctionOnSet(g, I(T)) = SumFunctionOnSet(f, T)
    BY <2>2, <2>5, <2>7, <2>8, <2>9
  <2> QED BY <2>10
<1>3. \A T \in SUBSET S : T # {} /\ (\A x \in T : T \ {x} \in G) => T \in G
  BY <1>2
<1>4. S \in G
  <2> HIDE DEF G
  <2>1. \A T \in SUBSET S : T \in G
    BY ONLY IsFiniteSet(S), <1>1, <1>3, SubsetInduction
  <2> QED BY <2>1
<1> QED BY <1>4
=============================================================================
