------------------------------ MODULE SumLemmas ------------------------------
(***************************************************************************)
(* What MapThenSumSet of the community modules computes, for every finite  *)
(* set of summands: the facts the proofs about counters and scores need.   *)
(*                                                                         *)
(* The fold takes its elements in the order CHOOSE gives; that the result  *)
(* does not depend on it is SumRemove.  Induction over finite sets is by   *)
(* a smallest counterexample (MinimalSubset).                              *)
(***************************************************************************)
EXTENDS Naturals, FiniteSetsExt, FiniteSetTheorems, WellFoundedInduction, TLAPS

SumOver(f, S) == MapThenSumSet(LAMBDA x : f[x], S)

Pick(s) == CHOOSE x \in s : TRUE

\* g is the table of partial sums of f that the fold over S goes through.
IsSum(g, f, S) ==
    g = [s \in SUBSET S |-> IF s = {} THEN 0 ELSE f[Pick(s)] + g[s \ {Pick(s)}]]

SumFn(f, S) == CHOOSE g : IsSum(g, f, S)

\* A nonempty set of subsets of a finite set has a smallest member.
LEMMA MinimalSubset ==
    ASSUME NEW S, IsFiniteSet(S), NEW T, T \subseteq SUBSET S, T # {}
    PROVE  \E x \in T : \A y \in T : y \subseteq x => y = x
<1>1. IsWellFoundedOn(StrictSubsetOrdering(S), SUBSET S)
  BY FS_StrictSubsetOrderingWellFounded, FS_FiniteSubsetsOfFinite
<1>2. PICK x \in T : \A y \in T : ~(<<y, x>> \in StrictSubsetOrdering(S))
  BY <1>1, WFMin
<1>3. QED
  BY <1>2 DEF StrictSubsetOrdering

LEMMA PickIn == ASSUME NEW s, s # {} PROVE Pick(s) \in s
  BY DEF Pick

\* The fold of the library goes through such a table.
LEMMA FoldIsSum == ASSUME NEW f, NEW S PROVE SumOver(f, S) = SumFn(f, S)[S]
  BY DEF SumOver, SumFn, IsSum, Pick, MapThenSumSet, MapThenFoldSet

\* One entry of a table.
LEMMA SumEntry ==
    ASSUME NEW f, NEW S, NEW g, IsSum(g, f, S), NEW s \in SUBSET S
    PROVE  g[s] = IF s = {} THEN 0 ELSE f[Pick(s)] + g[s \ {Pick(s)}]
<1>1. g = [t \in SUBSET S |-> IF t = {} THEN 0 ELSE f[Pick(t)] + g[t \ {Pick(t)}]]
  BY DEF IsSum
<1>2. DEFINE F(t) == IF t = {} THEN 0 ELSE f[Pick(t)] + g[t \ {Pick(t)}]
<1>3. g = [t \in SUBSET S |-> F(t)]
  BY <1>1
<1>4. HIDE DEF F
<1>5. g[s] = F(s)
  BY <1>3
<1>6. QED
  BY <1>5 DEF F

\* Two tables of the same summands agree where both are defined.
LEMMA SumUnique ==
    ASSUME NEW f, NEW S, NEW R, IsFiniteSet(S), R \subseteq S,
           NEW g, IsSum(g, f, S), NEW h, IsSum(h, f, R)
    PROVE  \A s \in SUBSET R : g[s] = h[s]
<1>1. PICK T : T = {s \in SUBSET R : g[s] # h[s]}
  OBVIOUS
<1>2. SUFFICES ASSUME T # {} PROVE FALSE
  BY <1>1
<1>3. T \subseteq SUBSET S
  BY <1>1
<1>4. PICK s \in T : \A y \in T : y \subseteq s => y = s
  BY <1>2, <1>3, MinimalSubset
<1>5. s \in SUBSET R /\ s \in SUBSET S /\ g[s] # h[s]
  BY <1>1, <1>4
<1>6. CASE s = {}
  BY <1>5, <1>6, SumEntry
<1>7. CASE s # {}
  <2>1. Pick(s) \in s
    BY <1>7, PickIn
  <2>2. s \ {Pick(s)} \notin T /\ s \ {Pick(s)} \in SUBSET R
    BY <1>4, <1>5, <2>1
  <2>3. g[s \ {Pick(s)}] = h[s \ {Pick(s)}]
    BY <1>1, <2>2
  <2>4. QED
    BY <1>5, <1>7, <2>3, SumEntry
<1>8. QED
  BY <1>6, <1>7

\* Such a table exists, of numbers, for every finite set of numbers.
LEMMA SumExists ==
    ASSUME NEW f, NEW S, IsFiniteSet(S), \A x \in S : f[x] \in Nat
    PROVE  \E g \in [SUBSET S -> Nat] : IsSum(g, f, S)
<1>1. PICK T : T = {s \in SUBSET S : ~ \E g \in [SUBSET s -> Nat] : IsSum(g, f, s)}
  OBVIOUS
<1>2. SUFFICES ASSUME T # {} PROVE FALSE
  BY <1>1
<1>3. T \subseteq SUBSET S
  BY <1>1
<1>4. PICK s \in T : \A y \in T : y \subseteq s => y = s
  BY <1>2, <1>3, MinimalSubset
<1>5. s \in SUBSET S /\ ~ \E g \in [SUBSET s -> Nat] : IsSum(g, f, s)
  BY <1>1, <1>4
<1>6. DEFINE H(t) == CHOOSE g \in [SUBSET t -> Nat] : IsSum(g, f, t)
<1>7. \A t \in SUBSET s : t # s => H(t) \in [SUBSET t -> Nat] /\ IsSum(H(t), f, t)
  <2>1. SUFFICES ASSUME NEW t \in SUBSET s, t # s
                 PROVE  \E g \in [SUBSET t -> Nat] : IsSum(g, f, t)
    OBVIOUS
  <2>2. t \notin T /\ t \in SUBSET S
    BY <1>4, <1>5, <2>1
  <2>3. QED
    BY <1>1, <2>2
<1>8. DEFINE V(t) == IF t = {} THEN 0 ELSE f[Pick(t)] + H(t \ {Pick(t)})[t \ {Pick(t)}]
             h == [t \in SUBSET s |-> V(t)]
<1> HIDE DEF H
<1>9. \A t \in SUBSET s : t # {} => /\ Pick(t) \in t /\ t \ {Pick(t)} # s
                                  /\ t \ {Pick(t)} \in SUBSET s /\ f[Pick(t)] \in Nat
  BY <1>5, PickIn
<1>10. \A t \in SUBSET s : V(t) \in Nat
  <2>1. SUFFICES ASSUME NEW t \in SUBSET s, t # {} PROVE V(t) \in Nat
    OBVIOUS
  <2>2. PICK u : u = t \ {Pick(t)}
    OBVIOUS
  <2>3. H(u) \in [SUBSET u -> Nat] /\ u \in SUBSET u
    BY <1>7, <1>9, <2>1, <2>2
  <2>4. H(u)[u] \in Nat /\ f[Pick(t)] \in Nat
    BY <1>9, <2>1, <2>3
  <2>5. QED
    BY <2>1, <2>2, <2>4
<1>11. h \in [SUBSET s -> Nat]
  BY <1>10
<1>12. \A u \in SUBSET s : u # s => H(u)[u] = h[u]
  <2>1. SUFFICES ASSUME NEW u \in SUBSET s, u # s PROVE H(u)[u] = V(u)
    OBVIOUS
  <2>2. IsSum(H(u), f, u) /\ u \in SUBSET u
    BY <1>7, <2>1
  <2>3. CASE u = {}
    BY <2>2, <2>3, SumEntry
  <2>4. CASE u # {}
    <3>1. PICK v : v = u \ {Pick(u)}
      OBVIOUS
    <3>2. v \in SUBSET s /\ v # s /\ v \subseteq u /\ v \in SUBSET v
      BY <1>9, <2>1, <2>4, <3>1
    <3>3. IsSum(H(v), f, v)
      BY <1>7, <3>2
    <3>4. IsFiniteSet(u)
      BY <1>5, FS_Subset
    <3>5. H(u)[v] = H(v)[v]
      BY <2>2, <3>2, <3>3, <3>4, SumUnique
    <3>6. H(u)[u] = f[Pick(u)] + H(u)[v]
      BY <2>2, <2>4, <3>1, SumEntry
    <3>7. QED
      BY <2>4, <3>1, <3>5, <3>6
  <2>5. QED
    BY <2>3, <2>4
<1>13. \A t \in SUBSET s : V(t) = IF t = {} THEN 0 ELSE f[Pick(t)] + h[t \ {Pick(t)}]
  BY <1>9, <1>12
<1>14. IsSum(h, f, s)
  BY <1>13 DEF IsSum
<1>15. QED
  BY <1>5, <1>11, <1>14

\* The table the fold goes through is one of numbers.
LEMMA SumTable ==
    ASSUME NEW f, NEW S, IsFiniteSet(S), \A x \in S : f[x] \in Nat
    PROVE  IsSum(SumFn(f, S), f, S) /\ SumFn(f, S) \in [SUBSET S -> Nat]
<1>1. PICK g \in [SUBSET S -> Nat] : IsSum(g, f, S)
  BY SumExists
<1>2. IsSum(SumFn(f, S), f, S)
  BY <1>1 DEF SumFn
<1>3. \A s \in SUBSET S : SumFn(f, S)[s] = g[s]
  BY <1>1, <1>2, SumUnique
<1>4. PICK h : h = SumFn(f, S)
  OBVIOUS
<1>5. h = [s \in SUBSET S |-> IF s = {} THEN 0 ELSE f[Pick(s)] + h[s \ {Pick(s)}]]
  BY <1>2, <1>4 DEF IsSum
<1>6. h = [s \in SUBSET S |-> h[s]]
  BY <1>5
<1>7. h \in [SUBSET S -> Nat]
  BY <1>1, <1>3, <1>4, <1>6
<1>8. QED
  BY <1>2, <1>4, <1>7

\* The partial sums are sums of their own.
LEMMA SumPart ==
    ASSUME NEW f, NEW S, IsFiniteSet(S), \A x \in S : f[x] \in Nat, NEW s \in SUBSET S
    PROVE  SumFn(f, S)[s] = SumOver(f, s)
<1>1. IsFiniteSet(s)
  BY FS_Subset
<1>2. IsSum(SumFn(f, S), f, S) /\ IsSum(SumFn(f, s), f, s)
  BY <1>1, SumTable
<1>3. SumFn(f, S)[s] = SumFn(f, s)[s]
  BY <1>2, SumUnique
<1>4. QED
  BY <1>3, FoldIsSum

\* A sum of numbers is a number, that of nothing is 0.
LEMMA SumType ==
    ASSUME NEW f, NEW S, IsFiniteSet(S), \A x \in S : f[x] \in Nat
    PROVE  SumOver(f, S) \in Nat
<1>1. SumFn(f, S) \in [SUBSET S -> Nat]
  BY SumTable
<1>2. QED
  BY <1>1, FoldIsSum

LEMMA SumEmpty == ASSUME NEW f PROVE SumOver(f, {}) = 0
<1>1. IsFiniteSet({})
  BY FS_EmptySet
<1>2. IsSum(SumFn(f, {}), f, {})
  BY <1>1, SumTable
<1>3. SumFn(f, {})[{}] = 0
  BY <1>2, SumEntry
<1>4. QED
  BY <1>3, FoldIsSum

\* The fold takes the element CHOOSE gives first.
LEMMA SumPick ==
    ASSUME NEW f, NEW S, IsFiniteSet(S), \A x \in S : f[x] \in Nat, S # {}
    PROVE  SumOver(f, S) = f[Pick(S)] + SumOver(f, S \ {Pick(S)})
<1>1. IsSum(SumFn(f, S), f, S) /\ S \in SUBSET S /\ S \ {Pick(S)} \in SUBSET S
  BY SumTable
<1>2. SumFn(f, S)[S] = f[Pick(S)] + SumFn(f, S)[S \ {Pick(S)}]
  BY <1>1, SumEntry
<1>3. QED
  BY <1>1, <1>2, SumPart

\* Any element may be taken first: the order of the fold does not matter.
LEMMA SumRemove ==
    ASSUME NEW f, NEW S, IsFiniteSet(S), \A x \in S : f[x] \in Nat, NEW y \in S
    PROVE  SumOver(f, S) = f[y] + SumOver(f, S \ {y})
<1>1. DEFINE P(s) == \A z \in s : SumOver(f, s) = f[z] + SumOver(f, s \ {z})
<1>2. PICK T : T = {s \in SUBSET S : ~P(s)}
  OBVIOUS
<1>3. SUFFICES ASSUME T # {} PROVE FALSE
  BY <1>2
<1>4. T \subseteq SUBSET S
  BY <1>2
<1>5. PICK s \in T : \A t \in T : t \subseteq s => t = s
  BY <1>3, <1>4, MinimalSubset
<1>6. s \in SUBSET S /\ ~P(s)
  BY <1>2, <1>5
<1>7. PICK z \in s : SumOver(f, s) # f[z] + SumOver(f, s \ {z})
  BY <1>6
<1>8. PICK x : x = Pick(s)
  OBVIOUS
<1>9. \A t \in SUBSET S : IsFiniteSet(t) /\ (\A u \in t : f[u] \in Nat) /\ SumOver(f, t) \in Nat
  BY FS_Subset, SumType
<1>10. x \in s /\ SumOver(f, s) = f[x] + SumOver(f, s \ {x})
  BY <1>6, <1>7, <1>8, <1>9, PickIn, SumPick
<1>11. x # z
  BY <1>7, <1>10
<1>12. P(s \ {x}) /\ P(s \ {z})
  <2>1. s \ {x} \in SUBSET S /\ s \ {z} \in SUBSET S
    BY <1>6
  <2>2. s \ {x} \notin T /\ s \ {z} \notin T
    BY <1>5, <1>7, <1>10
  <2>3. QED
    BY <1>2, <2>1, <2>2
<1>13. SumOver(f, s \ {x}) = f[z] + SumOver(f, (s \ {x}) \ {z})
  BY <1>7, <1>11, <1>12
<1>14. SumOver(f, s \ {z}) = f[x] + SumOver(f, (s \ {z}) \ {x})
  BY <1>10, <1>11, <1>12
<1>15. (s \ {x}) \ {z} = (s \ {z}) \ {x}
  OBVIOUS
<1>16. f[x] \in Nat /\ f[z] \in Nat /\ SumOver(f, (s \ {x}) \ {z}) \in Nat
  BY <1>6, <1>9, <1>7, <1>10
<1>17. QED
  BY <1>7, <1>10, <1>13, <1>14, <1>15, <1>16

\* One more element adds its value.
LEMMA SumAdd ==
    ASSUME NEW f, NEW S, IsFiniteSet(S), NEW y, y \notin S,
           \A x \in S \cup {y} : f[x] \in Nat
    PROVE  SumOver(f, S \cup {y}) = SumOver(f, S) + f[y]
<1>1. IsFiniteSet(S \cup {y}) /\ y \in S \cup {y} /\ (S \cup {y}) \ {y} = S
  BY FS_AddElement
<1>2. SumOver(f, S \cup {y}) = f[y] + SumOver(f, S)
  BY <1>1, SumRemove
<1>3. SumOver(f, S) \in Nat /\ f[y] \in Nat
  BY SumType
<1>4. QED
  BY <1>2, <1>3

\* Larger summands have a larger sum.
LEMMA SumMonotone ==
    ASSUME NEW f, NEW g, NEW S, IsFiniteSet(S),
           \A x \in S : f[x] \in Nat /\ g[x] \in Nat /\ f[x] <= g[x]
    PROVE  SumOver(f, S) <= SumOver(g, S)
<1>1. PICK T : T = {s \in SUBSET S : ~(SumOver(f, s) <= SumOver(g, s))}
  OBVIOUS
<1>2. SUFFICES ASSUME T # {} PROVE FALSE
  BY <1>1
<1>3. T \subseteq SUBSET S
  BY <1>1
<1>4. PICK s \in T : \A t \in T : t \subseteq s => t = s
  BY <1>2, <1>3, MinimalSubset
<1>5. s \in SUBSET S /\ ~(SumOver(f, s) <= SumOver(g, s))
  BY <1>1, <1>4
<1>6. \A t \in SUBSET S : /\ IsFiniteSet(t)
                          /\ \A x \in t : f[x] \in Nat /\ g[x] \in Nat /\ f[x] <= g[x]
                          /\ SumOver(f, t) \in Nat /\ SumOver(g, t) \in Nat
  BY FS_Subset, SumType
<1>7. s # {}
  BY <1>5, SumEmpty
<1>8. PICK x : x = Pick(s)
  OBVIOUS
<1>9. x \in s
  BY <1>7, <1>8, PickIn
<1>10. SumOver(f, s) = f[x] + SumOver(f, s \ {x}) /\ SumOver(g, s) = g[x] + SumOver(g, s \ {x})
  BY <1>5, <1>6, <1>9, SumRemove
<1>11. SumOver(f, s \ {x}) <= SumOver(g, s \ {x}) /\ s \ {x} \in SUBSET S
  BY <1>1, <1>4, <1>5, <1>9
<1>12. QED
  BY <1>5, <1>6, <1>9, <1>10, <1>11

\* A summand that grows by d makes the sum grow by as much, if none shrinks.
LEMMA SumGrows ==
    ASSUME NEW f, NEW g, NEW S, IsFiniteSet(S), NEW y \in S, NEW d \in Nat,
           \A x \in S : f[x] \in Nat /\ g[x] \in Nat /\ f[x] <= g[x],
           g[y] = f[y] + d
    PROVE  SumOver(f, S) + d <= SumOver(g, S)
<1>1. IsFiniteSet(S \ {y})
  BY FS_Subset
<1>2. SumOver(f, S \ {y}) <= SumOver(g, S \ {y})
  BY <1>1, SumMonotone
<1>3. SumOver(f, S) = f[y] + SumOver(f, S \ {y}) /\ SumOver(g, S) = g[y] + SumOver(g, S \ {y})
  BY SumRemove
<1>4. SumOver(f, S \ {y}) \in Nat /\ SumOver(g, S \ {y}) \in Nat
  BY <1>1, SumType
<1>5. QED
  BY <1>2, <1>3, <1>4

\* A larger set has a larger sum.
LEMMA SumSubset ==
    ASSUME NEW f, NEW S, IsFiniteSet(S), \A x \in S : f[x] \in Nat, NEW R \in SUBSET S
    PROVE  SumOver(f, R) <= SumOver(f, S)
<1>1. PICK T : T = {s \in SUBSET S : R \subseteq s /\ ~(SumOver(f, R) <= SumOver(f, s))}
  OBVIOUS
<1>2. SUFFICES ASSUME T # {} PROVE FALSE
  BY <1>1
<1>3. T \subseteq SUBSET S
  BY <1>1
<1>4. PICK s \in T : \A t \in T : t \subseteq s => t = s
  BY <1>2, <1>3, MinimalSubset
<1>5. s \in SUBSET S /\ R \subseteq s /\ ~(SumOver(f, R) <= SumOver(f, s))
  BY <1>1, <1>4
<1>6. \A t \in SUBSET S : /\ IsFiniteSet(t) /\ \A x \in t : f[x] \in Nat
                          /\ SumOver(f, t) \in Nat
  BY FS_Subset, SumType
<1>7. R # s
  BY <1>5, <1>6
<1>8. PICK x \in s : x \notin R
  BY <1>5, <1>7
<1>9. SumOver(f, s) = f[x] + SumOver(f, s \ {x})
  BY <1>5, <1>6, <1>8, SumRemove
<1>10. SumOver(f, R) <= SumOver(f, s \ {x}) /\ s \ {x} \in SUBSET S
  BY <1>1, <1>4, <1>5, <1>8
<1>11. QED
  BY <1>5, <1>6, <1>8, <1>9, <1>10

\* Nothing to add up.
LEMMA SumZero ==
    ASSUME NEW f, NEW S, IsFiniteSet(S), \A x \in S : f[x] = 0 PROVE SumOver(f, S) = 0
<1>1. PICK T : T = {s \in SUBSET S : SumOver(f, s) # 0}
  OBVIOUS
<1>2. SUFFICES ASSUME T # {} PROVE FALSE
  BY <1>1
<1>3. T \subseteq SUBSET S
  BY <1>1
<1>4. PICK s \in T : \A t \in T : t \subseteq s => t = s
  BY <1>2, <1>3, MinimalSubset
<1>5. s \in SUBSET S /\ SumOver(f, s) # 0 /\ IsFiniteSet(s) /\ \A x \in s : f[x] = 0
  BY <1>1, <1>4, FS_Subset
<1>6. PICK x \in s : TRUE
  BY <1>5, SumEmpty
<1>7. SumOver(f, s \ {x}) = 0
  BY <1>1, <1>4, <1>5, <1>6
<1>8. SumOver(f, s) = f[x] + SumOver(f, s \ {x})
  BY <1>5, <1>6, SumRemove
<1>9. QED
  BY <1>5, <1>6, <1>7, <1>8

\* One summand of a sum changes.
LEMMA SumSwap ==
    ASSUME NEW f, NEW g, NEW S, IsFiniteSet(S), NEW y \in S,
           \A x \in S : f[x] \in Nat /\ g[x] \in Nat, \A x \in S : x # y => f[x] = g[x]
    PROVE  SumOver(g, S) + f[y] = SumOver(f, S) + g[y]
<1>1. IsFiniteSet(S \ {y}) /\ \A x \in S \ {y} : f[x] \in Nat /\ g[x] \in Nat /\ f[x] <= g[x] /\ g[x] <= f[x]
  BY FS_Subset
<1>2. /\ SumOver(f, S \ {y}) <= SumOver(g, S \ {y}) /\ SumOver(g, S \ {y}) <= SumOver(f, S \ {y})
      /\ SumOver(f, S \ {y}) \in Nat /\ SumOver(g, S \ {y}) \in Nat
  BY <1>1, SumMonotone, SumType
<1>3. SumOver(f, S) = f[y] + SumOver(f, S \ {y}) /\ SumOver(g, S) = g[y] + SumOver(g, S \ {y})
  BY SumRemove
<1>4. f[y] \in Nat /\ g[y] \in Nat
  OBVIOUS
<1>5. QED
  BY <1>2, <1>3, <1>4

\* A nonempty set of numbers has a least one.
LEMMA LeastNat == ASSUME NEW T, T \subseteq Nat, T # {} PROVE \E i \in T : \A j \in T : i <= j
<1>1. PICK i \in T : \A j \in T : ~(<<j, i>> \in OpToRel(<, Nat))
  BY NatLessThanWellFounded, WFMin
<1>2. ASSUME NEW j \in T PROVE i <= j
  <2>1. i \in Nat /\ j \in Nat
    OBVIOUS
  <2>2. ~(<<j, i>> \in OpToRel(<, Nat))
    BY <1>1
  <2>3. ~(j < i)
    BY <2>1, <2>2 DEF OpToRel
  <2>4. QED
    BY <2>1, <2>3
<1>3. QED
  BY <1>2
=============================================================================
