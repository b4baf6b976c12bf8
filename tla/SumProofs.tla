----------------------------- MODULE SumProofs -----------------------------
(***************************************************************************)
(* Facts about totals over finite sets.  The library's MapThenSumSet adds  *)
(* the values up in an order CHOOSE picks, by recursion over the subsets;  *)
(* proved here is that the recursion has a solution, that the order does   *)
(* not matter, and how a total changes when one value does.  Induction is  *)
(* by a least counterexample, in a set of numbers or of subsets.           *)
(***************************************************************************)
EXTENDS Sums, Integers, FiniteSetTheorems, WellFoundedInduction, TLAPS

-----------------------------------------------------------------------------
(* Least counterexamples.                                                  *)

NatOrder == {p \in Nat \X Nat : p[1] < p[2]}

LEMMA NatOrderWellFounded == IsWellFoundedOn(NatOrder, Nat)
BY NatLessThanWellFounded DEF OpToRel, NatOrder

\* A nonempty set of natural numbers has a least element.
LEMMA LeastNumber ==
    ASSUME NEW T, T \subseteq Nat, T # {}
    PROVE  \E n \in T : \A m \in T : n <= m
<1>1. \E n \in T : \A m \in T : ~ (<<m, n>> \in NatOrder)
  BY NatOrderWellFounded, WFMin
<1>2. \A m, n \in Nat : m < n => <<m, n>> \in NatOrder
  BY DEF NatOrder
<1>3. PICK n \in T : \A m \in T : ~ (<<m, n>> \in NatOrder)
  BY <1>1
<1>4. \A m \in T : ~ (m < n)
  BY <1>2, <1>3
<1> QED BY <1>3, <1>4

\* A nonempty set of subsets of a finite set has one that is no longer in it
\* when any of its elements is taken away.
LEMMA LeastSubset ==
    ASSUME NEW S, IsFiniteSet(S), NEW B, B \subseteq SUBSET S, B # {}
    PROVE  \E T \in B : \A x \in T : T \ {x} \notin B
<1> DEFINE Sizes == {Cardinality(T) : T \in B}
<1>1. \A T \in B : IsFiniteSet(T) /\ Cardinality(T) \in Nat
  BY FS_Subset, FS_CardinalityType
<1>2. Sizes \subseteq Nat /\ Sizes # {}
  BY <1>1
<1>3. PICK n \in Sizes : \A m \in Sizes : n <= m
  <2> HIDE DEF Sizes
  <2> QED BY <1>2, LeastNumber
<1>4. PICK T \in B : Cardinality(T) = n
  BY <1>3
<1>5. ASSUME NEW x \in T, T \ {x} \in B PROVE FALSE
  <2>1. Cardinality(T \ {x}) = Cardinality(T) - 1
    BY <1>1, FS_RemoveElement
  <2>2. Cardinality(T \ {x}) \in Sizes
    BY <1>5
  <2>3. n <= Cardinality(T \ {x})
    <3> HIDE DEF Sizes
    <3> QED BY <1>3, <2>2
  <2>4. n \in Nat
    BY <1>1, <1>4
  <2> QED BY <1>4, <2>1, <2>3, <2>4
<1> QED BY <1>5

-----------------------------------------------------------------------------
(* The recursion behind a total.                                           *)

Pick(s) == CHOOSE x \in s : TRUE

Totals(h, f, S) ==
    h = [s \in SUBSET S |-> IF s = {} THEN 0 ELSE f[Pick(s)] + h[s \ {Pick(s)}]]

\* The same, for subsets of at most n elements.
TotalsUpTo(h, f, S, n) ==
    h = [s \in SUBSET S |->
            IF s = {} THEN 0
            ELSE IF Cardinality(s) <= n THEN f[Pick(s)] + h[s \ {Pick(s)}] ELSE 0]

LEMMA PickIn == \A s : s # {} => Pick(s) \in s
BY DEF Pick

LEMMA TotalsUpToExist ==
    ASSUME NEW f, NEW S, IsFiniteSet(S), NEW k \in Nat
    PROVE  \E h : TotalsUpTo(h, f, S, k)
<1> DEFINE Bad == {n \in Nat : ~ \E h : TotalsUpTo(h, f, S, n)}
<1>0. \A s \in SUBSET S : IsFiniteSet(s) /\ Cardinality(s) \in Nat
  BY FS_Subset, FS_CardinalityType
<1>1. ASSUME Bad # {} PROVE FALSE
  <2>1. PICK n \in Bad : \A m \in Bad : n <= m
    <3>1. Bad \subseteq Nat
      OBVIOUS
    <3> HIDE DEF Bad
    <3> QED BY <1>1, <3>1, LeastNumber
  <2>2. n # 0
    <3>1. TotalsUpTo([s \in SUBSET S |-> 0], f, S, 0)
      <4>1. \A s \in SUBSET S : s # {} => ~ (Cardinality(s) <= 0)
        BY <1>0, FS_EmptySet
      <4> QED BY <4>1 DEF TotalsUpTo
    <3> QED BY <3>1
  <2>3. n - 1 \in Nat /\ n - 1 \notin Bad
    BY <2>1, <2>2
  <2>4. PICK g : TotalsUpTo(g, f, S, n - 1)
    BY <2>3
  <2> DEFINE h == [s \in SUBSET S |->
                     IF s = {} THEN 0
                     ELSE IF Cardinality(s) <= n THEN f[Pick(s)] + g[s \ {Pick(s)}] ELSE 0]
  <2>5. ASSUME NEW s \in SUBSET S, s # {}, Cardinality(s) <= n
        PROVE  h[s \ {Pick(s)}] = g[s \ {Pick(s)}]
    <3>1. Pick(s) \in s
      BY <2>5, PickIn
    <3> DEFINE u == s \ {Pick(s)}
    <3>2. u \in SUBSET S /\ Cardinality(u) = Cardinality(s) - 1
      BY <1>0, <3>1, FS_RemoveElement
    <3>3. Cardinality(u) <= n - 1 /\ Cardinality(u) <= n
      BY <1>0, <2>3, <2>5, <3>2
    <3>4. g[u] = IF u = {} THEN 0
                 ELSE IF Cardinality(u) <= n - 1 THEN f[Pick(u)] + g[u \ {Pick(u)}] ELSE 0
      <4> HIDE DEF u
      <4> QED BY <2>4, <3>2 DEF TotalsUpTo
    <3>5. h[u] = IF u = {} THEN 0
                 ELSE IF Cardinality(u) <= n THEN f[Pick(u)] + g[u \ {Pick(u)}] ELSE 0
      <4> HIDE DEF u
      <4> QED BY <3>2
    <3> HIDE DEF u, h
    <3>6. h[u] = g[u]
      BY <3>3, <3>4, <3>5
    <3> QED BY <3>6 DEF u
  <2>6. h = [s \in SUBSET S |->
               IF s = {} THEN 0
               ELSE IF Cardinality(s) <= n THEN f[Pick(s)] + h[s \ {Pick(s)}] ELSE 0]
    BY <2>5
  <2>7. TotalsUpTo(h, f, S, n)
    <3> HIDE DEF h
    <3> QED BY <2>6 DEF TotalsUpTo
  <2> QED BY <2>1, <2>7
<1> QED BY <1>1

LEMMA TotalsExist ==
    ASSUME NEW f, NEW S, IsFiniteSet(S)
    PROVE  \E h : Totals(h, f, S)
<1>1. \A s \in SUBSET S : Cardinality(s) <= Cardinality(S)
  BY FS_Subset
<1>2. PICK h : TotalsUpTo(h, f, S, Cardinality(S))
  BY FS_CardinalityType, TotalsUpToExist
<1>3. Totals(h, f, S)
  <2>1. h = [s \in SUBSET S |->
              IF s = {} THEN 0
              ELSE IF Cardinality(s) <= Cardinality(S) THEN f[Pick(s)] + h[s \ {Pick(s)}] ELSE 0]
    BY <1>2 DEF TotalsUpTo
  <2> QED BY <1>1, <2>1 DEF Totals
<1> QED BY <1>3

\* Only one function satisfies the recursion: solutions over two sets agree on
\* what the sets share.
LEMMA TotalsAgree ==
    ASSUME NEW f, NEW S, IsFiniteSet(S), NEW T \in SUBSET S,
           NEW h, Totals(h, f, S), NEW g, Totals(g, f, T)
    PROVE  h[T] = g[T]
<1> DEFINE Bad == {u \in SUBSET T : h[u] # g[u]}
<1>1. ASSUME Bad # {} PROVE FALSE
  <2>1. PICK u \in Bad : \A x \in u : u \ {x} \notin Bad
    <3>1. Bad \subseteq SUBSET T /\ IsFiniteSet(T)
      BY FS_Subset
    <3> HIDE DEF Bad
    <3> QED BY <1>1, <3>1, LeastSubset
  <2>2. u \in SUBSET T /\ u \in SUBSET S
    BY <2>1
  <2>3. /\ h[u] = IF u = {} THEN 0 ELSE f[Pick(u)] + h[u \ {Pick(u)}]
        /\ g[u] = IF u = {} THEN 0 ELSE f[Pick(u)] + g[u \ {Pick(u)}]
    BY <2>2 DEF Totals
  <2>4. u # {} => h[u \ {Pick(u)}] = g[u \ {Pick(u)}]
    BY <2>1, <2>2, PickIn
  <2> QED BY <2>1, <2>3, <2>4
<1> QED BY <1>1

\* What SumOver adds up, one element at a time.
LEMMA SumPick ==
    ASSUME NEW f, NEW S, IsFiniteSet(S)
    PROVE  SumOver(f, S) = IF S = {} THEN 0 ELSE f[Pick(S)] + SumOver(f, S \ {Pick(S)})
<1> DEFINE Solution(T) == CHOOSE h : Totals(h, f, T)
<1>1. \A T : SumOver(f, T) = Solution(T)[T]
  BY DEF SumOver, MapThenSumSet, MapThenFoldSet, Totals, Pick
<1>2. ASSUME NEW T \in SUBSET S PROVE Totals(Solution(T), f, T)
  <2>1. \E h : Totals(h, f, T)
    BY FS_Subset, TotalsExist
  <2> QED BY <2>1
<1> HIDE DEF Solution
<1>3. CASE S = {}
  BY <1>1, <1>2, <1>3 DEF Totals
<1>4. CASE S # {}
  <2>1. S \ {Pick(S)} \in SUBSET S
    OBVIOUS
  <2>2. Solution(S)[S] = f[Pick(S)] + Solution(S)[S \ {Pick(S)}]
    BY <1>2, <1>4 DEF Totals
  <2>3. Solution(S)[S \ {Pick(S)}] = Solution(S \ {Pick(S)})[S \ {Pick(S)}]
    BY <1>2, <2>1, TotalsAgree
  <2> QED BY <1>1, <1>4, <2>2, <2>3
<1> QED BY <1>3, <1>4

-----------------------------------------------------------------------------
(* What the proofs about the model use.                                    *)

LEMMA SumEmpty == ASSUME NEW f PROVE SumOver(f, {}) = 0
BY SumPick, FS_EmptySet

\* Functions that agree on a set have the same total over it.
LEMMA SumEqual ==
    ASSUME NEW S, IsFiniteSet(S), NEW f, NEW g, \A x \in S : f[x] = g[x]
    PROVE  SumOver(f, S) = SumOver(g, S)
<1> DEFINE Bad == {T \in SUBSET S : SumOver(f, T) # SumOver(g, T)}
<1>1. ASSUME Bad # {} PROVE FALSE
  <2>1. PICK T \in Bad : \A x \in T : T \ {x} \notin Bad
    <3>1. Bad \subseteq SUBSET S
      OBVIOUS
    <3> HIDE DEF Bad
    <3> QED BY <1>1, <3>1, LeastSubset
  <2>2. T \in SUBSET S /\ IsFiniteSet(T)
    BY <2>1, FS_Subset
  <2>3. CASE T = {}
    BY <2>1, <2>3, SumEmpty
  <2>4. CASE T # {}
    <3>1. Pick(T) \in T
      BY <2>4, PickIn
    <3>2. SumOver(f, T \ {Pick(T)}) = SumOver(g, T \ {Pick(T)})
      BY <2>1, <2>2, <3>1
    <3>3. /\ SumOver(f, T) = f[Pick(T)] + SumOver(f, T \ {Pick(T)})
          /\ SumOver(g, T) = g[Pick(T)] + SumOver(g, T \ {Pick(T)})
      BY <2>2, <2>4, SumPick
    <3> QED BY <2>1, <2>2, <3>1, <3>2, <3>3
  <2> QED BY <2>3, <2>4
<1> QED BY <1>1

\* A total of integers is an integer.
LEMMA SumType ==
    ASSUME NEW S, IsFiniteSet(S), NEW f, \A x \in S : f[x] \in Int
    PROVE  SumOver(f, S) \in Int
<1> DEFINE Bad == {T \in SUBSET S : SumOver(f, T) \notin Int}
<1>1. ASSUME Bad # {} PROVE FALSE
  <2>1. PICK T \in Bad : \A x \in T : T \ {x} \notin Bad
    <3>1. Bad \subseteq SUBSET S
      OBVIOUS
    <3> HIDE DEF Bad
    <3> QED BY <1>1, <3>1, LeastSubset
  <2>2. T \in SUBSET S /\ IsFiniteSet(T)
    BY <2>1, FS_Subset
  <2>3. CASE T = {}
    BY <2>1, <2>3, SumEmpty
  <2>4. CASE T # {}
    <3>1. Pick(T) \in T
      BY <2>4, PickIn
    <3>2. SumOver(f, T \ {Pick(T)}) \in Int
      BY <2>1, <2>2, <3>1
    <3>3. SumOver(f, T) = f[Pick(T)] + SumOver(f, T \ {Pick(T)})
      BY <2>2, <2>4, SumPick
    <3> QED BY <2>1, <2>2, <3>1, <3>2, <3>3
  <2> QED BY <2>3, <2>4
<1> QED BY <1>1

\* The order of adding up does not matter: any element can be set apart.
LEMMA SumSplit ==
    ASSUME NEW S, IsFiniteSet(S), NEW f, \A x \in S : f[x] \in Int, NEW e \in S
    PROVE  SumOver(f, S) = f[e] + SumOver(f, S \ {e})
<1> DEFINE Bad == {T \in SUBSET S : \E x \in T : SumOver(f, T) # f[x] + SumOver(f, T \ {x})}
<1>1. ASSUME Bad # {} PROVE FALSE
  <2>1. PICK T \in Bad : \A x \in T : T \ {x} \notin Bad
    <3>1. Bad \subseteq SUBSET S
      OBVIOUS
    <3> HIDE DEF Bad
    <3> QED BY <1>1, <3>1, LeastSubset
  <2>2. T \in SUBSET S /\ IsFiniteSet(T)
    BY <2>1, FS_Subset
  <2>3. PICK x \in T : SumOver(f, T) # f[x] + SumOver(f, T \ {x})
    BY <2>1
  <2> DEFINE c == Pick(T)
  <2>4. c \in T /\ SumOver(f, T) = f[c] + SumOver(f, T \ {c})
    BY <2>2, <2>3, PickIn, SumPick
  <2> HIDE DEF c
  <2>5. c # x
    BY <2>3, <2>4
  <2>6. T \ {c} \in SUBSET S /\ T \ {x} \in SUBSET S /\ x \in T \ {c} /\ c \in T \ {x}
    BY <2>2, <2>4, <2>5
  <2>7. T \ {c} \notin Bad /\ T \ {x} \notin Bad
    BY <2>1, <2>4
  <2>8. /\ SumOver(f, T \ {c}) = f[x] + SumOver(f, (T \ {c}) \ {x})
        /\ SumOver(f, T \ {x}) = f[c] + SumOver(f, (T \ {x}) \ {c})
    BY <2>6, <2>7
  <2>9. (T \ {c}) \ {x} = (T \ {x}) \ {c}
    OBVIOUS
  <2>10. SumOver(f, (T \ {x}) \ {c}) \in Int
    <3>1. (T \ {x}) \ {c} \subseteq S
      BY <2>2
    <3>2. IsFiniteSet((T \ {x}) \ {c})
      BY <3>1, FS_Subset
    <3> QED BY <3>1, <3>2, SumType
  <2>11. f[x] \in Int /\ f[c] \in Int
    BY <2>2, <2>4
  <2>12. /\ SumOver(f, T) = f[c] + (f[x] + SumOver(f, (T \ {x}) \ {c}))
         /\ SumOver(f, T) # f[x] + (f[c] + SumOver(f, (T \ {x}) \ {c}))
    BY <2>3, <2>4, <2>8, <2>9, Zenon
  <2> DEFINE rest == SumOver(f, (T \ {x}) \ {c})
  <2> HIDE DEF rest
  <2>13. rest \in Int /\ f[c] + (f[x] + rest) = f[x] + (f[c] + rest)
    BY <2>10, <2>11 DEF rest
  <2> QED BY <2>12, <2>13 DEF rest
<1>2. S \notin Bad
  BY <1>1
<1> QED BY <1>2

\* When a function changes at one element, its total changes by as much.
LEMMA SumChange ==
    ASSUME NEW S, IsFiniteSet(S), NEW f, NEW g, NEW e \in S,
           \A x \in S : f[x] \in Int, g[e] \in Int, \A x \in S \ {e} : g[x] = f[x]
    PROVE  SumOver(g, S) = SumOver(f, S) + (g[e] - f[e])
<1>1. IsFiniteSet(S \ {e})
  BY FS_Subset
<1>2. SumOver(f, S \ {e}) = SumOver(g, S \ {e})
  BY <1>1, SumEqual
<1>3. SumOver(f, S \ {e}) \in Int
  BY <1>1, SumType
<1>4. \A x \in S : g[x] \in Int
  OBVIOUS
<1>5. /\ SumOver(f, S) = f[e] + SumOver(f, S \ {e})
      /\ SumOver(g, S) = g[e] + SumOver(g, S \ {e})
  BY <1>4, SumSplit
<1> QED BY <1>2, <1>3, <1>5

\* A total of zeros is zero.
LEMMA SumZero ==
    ASSUME NEW S, IsFiniteSet(S), NEW f, \A x \in S : f[x] = 0
    PROVE  SumOver(f, S) = 0
<1> DEFINE Bad == {T \in SUBSET S : SumOver(f, T) # 0}
<1>1. ASSUME Bad # {} PROVE FALSE
  <2>1. PICK T \in Bad : \A x \in T : T \ {x} \notin Bad
    <3>1. Bad \subseteq SUBSET S
      OBVIOUS
    <3> HIDE DEF Bad
    <3> QED BY <1>1, <3>1, LeastSubset
  <2>2. T \in SUBSET S /\ IsFiniteSet(T)
    BY <2>1, FS_Subset
  <2>3. T # {}
    BY <2>1, SumEmpty
  <2>4. Pick(T) \in T
    BY <2>3, PickIn
  <2>5. SumOver(f, T \ {Pick(T)}) = 0
    BY <2>1, <2>2, <2>4
  <2>6. SumOver(f, T) = f[Pick(T)] + SumOver(f, T \ {Pick(T)})
    BY <2>2, <2>3, SumPick
  <2> QED BY <2>1, <2>2, <2>4, <2>5, <2>6
<1> QED BY <1>1

\* Natural numbers have a natural total, at least each of them.
LEMMA SumNat ==
    ASSUME NEW S, IsFiniteSet(S), NEW f, \A x \in S : f[x] \in Nat
    PROVE  /\ SumOver(f, S) \in Nat
           /\ \A x \in S : f[x] <= SumOver(f, S)
<1> DEFINE Bad == {T \in SUBSET S : SumOver(f, T) \notin Nat}
<1>1. ASSUME Bad # {} PROVE FALSE
  <2>1. PICK T \in Bad : \A x \in T : T \ {x} \notin Bad
    <3>1. Bad \subseteq SUBSET S
      OBVIOUS
    <3> HIDE DEF Bad
    <3> QED BY <1>1, <3>1, LeastSubset
  <2>2. IsFiniteSet(T) /\ T \in SUBSET S /\ \A x \in T : f[x] \in Nat /\ f[x] \in Int
    BY FS_Subset
  <2>3. CASE T = {}
    BY <2>1, <2>3, SumEmpty
  <2>4. ASSUME NEW x \in T PROVE FALSE
    <3>1. T \ {x} \in SUBSET S /\ SumOver(f, T \ {x}) \in Nat
      BY <2>1, <2>2
    <3>2. SumOver(f, T) = f[x] + SumOver(f, T \ {x})
      BY <2>2, SumSplit
    <3> QED BY <2>1, <2>2, <3>1, <3>2
  <2> QED BY <2>3, <2>4
<1>2. \A T \in SUBSET S : SumOver(f, T) \in Nat
  BY <1>1
<1>3. ASSUME NEW x \in S PROVE f[x] <= SumOver(f, S)
  <2>1. \A y \in S : f[y] \in Int
    OBVIOUS
  <2>2. SumOver(f, S) = f[x] + SumOver(f, S \ {x})
    BY <2>1, SumSplit
  <2>3. SumOver(f, S \ {x}) \in Nat
    BY <1>2
  <2> QED BY <2>2, <2>3
<1> QED BY <1>2, <1>3

\* Moving an amount from one element to another conserves the total.
LEMMA SumMoved ==
    ASSUME NEW S, IsFiniteSet(S), NEW f, NEW g, NEW from \in S, NEW to \in S, NEW amount \in Int,
           from # to, \A x \in S : f[x] \in Int,
           g[from] = f[from] - amount, g[to] = f[to] + amount,
           \A x \in S \ {from, to} : g[x] = f[x]
    PROVE  SumOver(g, S) = SumOver(f, S)
<1> DEFINE mid == [x \in S |-> IF x = from THEN g[x] ELSE f[x]]
<1>1. /\ mid[from] = f[from] - amount /\ mid[to] = f[to]
      /\ \A x \in S : f[x] \in Int /\ mid[x] \in Int /\ g[x] \in Int
      /\ \A x \in S \ {from} : mid[x] = f[x]
      /\ \A x \in S \ {to} : g[x] = mid[x]
  OBVIOUS
<1>2. SumOver(f, S) \in Int
  BY SumType
<1> HIDE DEF mid
<1>3. SumOver(mid, S) = SumOver(f, S) + (mid[from] - f[from])
  BY <1>1, SumChange
<1>4. SumOver(g, S) = SumOver(mid, S) + (g[to] - mid[to])
  BY <1>1, SumChange
<1>5. SumOver(g, S) = SumOver(f, S) + ((f[from] - amount) - f[from]) + ((f[to] + amount) - f[to])
  BY <1>1, <1>3, <1>4
<1> QED BY <1>1, <1>2, <1>5
=============================================================================
