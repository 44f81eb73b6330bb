------------------------------ MODULE SumProofs ------------------------------
(***************************************************************************)
(* Facts about SumFunction of the community module Functions, for the      *)
(* ledgers of Bounty and SubscriptionBilling: what changing one entry does *)
(* to a sum, and when a sum is zero or bounds its entries.  Induction is   *)
(* over the subsets of a finite set, by the minimal counterexample that a  *)
(* well-founded order provides.                                            *)
(***************************************************************************)
EXTENDS Integers, FiniteSets, Functions, FiniteSetTheorems, TLAPS

\* The element a fold takes next.
First(s) == CHOOSE x \in s : TRUE

\* The recursion of MapThenFoldSet, for a sum.
PartialSums(g, f, S) ==
  g = [s \in SUBSET S |-> IF s = {} THEN 0 ELSE f[First(s)] + g[s \ {First(s)}]]

\* A sum is the last of its partial sums.
LEMMA SumUnfold ==
  ASSUME NEW f, NEW S
  PROVE  SumFunctionOnSet(f, S) = (CHOOSE g : PartialSums(g, f, S))[S]
  BY DEF SumFunctionOnSet, FoldFunctionOnSet, MapThenFoldSet, PartialSums, First

\* A set of subsets of a finite set has a minimal element.
LEMMA MinimalSubset ==
  ASSUME NEW S, IsFiniteSet(S), NEW B \in SUBSET SUBSET S, B # {}
  PROVE  \E s \in B : \A t \in B : t \subseteq s => t = s
<1>1. IsWellFoundedOn(StrictSubsetOrdering(S), SUBSET S)
  BY FS_StrictSubsetOrderingWellFounded, FS_FiniteSubsetsOfFinite
<1>2. \E s \in B : \A t \in B : ~(<<t, s>> \in StrictSubsetOrdering(S))
  BY <1>1, WFMin
<1> QED BY <1>2 DEF StrictSubsetOrdering

\* Taking the next element out of a set leaves a smaller one.
LEMMA FirstElement ==
  ASSUME NEW s, s # {}
  PROVE  First(s) \in s /\ s \ {First(s)} \subseteq s /\ s \ {First(s)} # s
<1>1. First(s) \in s
  BY DEF First
<1> QED BY <1>1

\* One step of the recursion.
LEMMA PartialSumsAt ==
  ASSUME NEW g, NEW f, NEW S, PartialSums(g, f, S), NEW s \in SUBSET S
  PROVE  /\ s = {} => g[s] = 0
         /\ s # {} => g[s] = f[First(s)] + g[s \ {First(s)}]
<1> DEFINE e(t) == IF t = {} THEN 0 ELSE f[First(t)] + g[t \ {First(t)}]
<1>1. g = [t \in SUBSET S |-> e(t)]
  BY DEF PartialSums
<1>2. g[s] = e(s)
  <2> HIDE DEF e
  <2> QED BY <1>1
<1> QED BY <1>2

\* Partial sums depend on the summed values only.
LEMMA PartialSumsAgree ==
  ASSUME NEW S, IsFiniteSet(S), NEW R, S \subseteq R, NEW f, NEW h,
         \A x \in S : f[x] = h[x],
         NEW g, PartialSums(g, f, S), NEW k, PartialSums(k, h, R)
  PROVE  \A s \in SUBSET S : g[s] = k[s]
<1> DEFINE B == {s \in SUBSET S : g[s] # k[s]}
<1>1. SUFFICES ASSUME B # {} PROVE FALSE
  OBVIOUS
<1>2. PICK s \in B : \A t \in B : t \subseteq s => t = s
  <2>1. B \in SUBSET SUBSET S
    OBVIOUS
  <2> HIDE DEF B
  <2> QED BY <1>1, <2>1, MinimalSubset
<1>3. s \in SUBSET S /\ s \in SUBSET R /\ g[s] # k[s]
  OBVIOUS
<1>4. s # {}
  BY <1>3, PartialSumsAt
<1> DEFINE x == First(s)
           t == s \ {x}
<1>5. x \in S /\ t \in SUBSET S /\ t \notin B
  BY <1>2, <1>3, <1>4, FirstElement
<1>6. g[s] = f[x] + g[t] /\ k[s] = h[x] + k[t]
  <2> HIDE DEF B
  <2>1. g[s] = f[x] + g[t]
    BY <1>3, <1>4, PartialSumsAt
  <2>2. k[s] = h[x] + k[t]
    BY <1>3, <1>4, PartialSumsAt
  <2> QED BY <2>1, <2>2
<1> QED BY <1>3, <1>5, <1>6

\* Partial sums over a larger set agree on a smaller one.
LEMMA PartialSumsRestrict ==
  ASSUME NEW S, IsFiniteSet(S), NEW R, S \subseteq R, NEW f,
         NEW g, PartialSums(g, f, S), NEW k, PartialSums(k, f, R)
  PROVE  g[S] = k[S]
<1>1. \A s \in SUBSET S : g[s] = k[s]
  BY PartialSumsAgree
<1> QED BY <1>1

\* The recursion is well defined on a finite set.
LEMMA PartialSumsExist ==
  ASSUME NEW S, IsFiniteSet(S), NEW f
  PROVE  \E g : PartialSums(g, f, S)
<1> DEFINE B == {T \in SUBSET S : ~ \E g : PartialSums(g, f, T)}
<1>1. SUFFICES ASSUME B # {} PROVE FALSE
  OBVIOUS
<1>2. PICK T \in B : \A t \in B : t \subseteq T => t = T
  <2>1. B \in SUBSET SUBSET S
    OBVIOUS
  <2> HIDE DEF B
  <2> QED BY <1>1, <2>1, MinimalSubset
<1> DEFINE G(u) == CHOOSE g : PartialSums(g, f, u)
           e(s) == IF s = {} THEN 0 ELSE f[First(s)] + G(s \ {First(s)})[s \ {First(s)}]
           k == [s \in SUBSET T |-> e(s)]
<1>3. \A u \in SUBSET T : u # T => PartialSums(G(u), f, u) /\ IsFiniteSet(u)
  <2> TAKE u \in SUBSET T
  <2> HAVE u # T
  <2>1. u \notin B /\ u \in SUBSET S
    BY <1>2
  <2>2. \E g : PartialSums(g, f, u)
    BY <2>1
  <2>3. IsFiniteSet(u)
    BY <2>1, FS_Subset
  <2> QED BY <2>2, <2>3
<1>4. \A s \in SUBSET T : k[s] = e(s)
  <2> HIDE DEF e
  <2> QED OBVIOUS
<1>5. \A u \in SUBSET T : u # T => k[u] = G(u)[u]
  <2> SUFFICES ASSUME NEW u \in SUBSET T, u # T PROVE k[u] = G(u)[u]
    OBVIOUS
  <2>1. PartialSums(G(u), f, u) /\ IsFiniteSet(u)
    BY <1>3
  <2>2. CASE u = {}
    <3>1. k[u] = 0
      BY <1>4, <2>2
    <3>2. G(u)[u] = 0
      <4> HIDE DEF G
      <4> QED BY <2>1, <2>2, PartialSumsAt
    <3> QED BY <3>1, <3>2
  <2>3. CASE u # {}
    <3> DEFINE v == u \ {First(u)}
    <3>1. v \in SUBSET u /\ v \in SUBSET T /\ v # T
      BY <2>3, FirstElement
    <3>2. PartialSums(G(v), f, v) /\ IsFiniteSet(v)
      BY <1>3, <3>1
    <3>3. k[u] = f[First(u)] + G(v)[v]
      BY <1>4, <2>3
    <3> HIDE DEF G
    <3>4. G(u)[u] = f[First(u)] + G(u)[v]
      BY <2>1, <2>3, PartialSumsAt
    <3>5. G(v)[v] = G(u)[v]
      <4>1. v \in SUBSET v
        OBVIOUS
      <4> HIDE DEF v
      <4> QED BY <2>1, <3>1, <3>2, <4>1, PartialSumsAgree
    <3> QED BY <3>3, <3>4, <3>5
  <2> QED BY <2>2, <2>3
<1>6. \A s \in SUBSET T : e(s) = IF s = {} THEN 0 ELSE f[First(s)] + k[s \ {First(s)}]
  <2> TAKE s \in SUBSET T
  <2>1. CASE s = {}
    BY <2>1
  <2>2. CASE s # {}
    <3>1. s \ {First(s)} \in SUBSET T /\ s \ {First(s)} # T
      BY <2>2, FirstElement
    <3>2. k[s \ {First(s)}] = G(s \ {First(s)})[s \ {First(s)}]
      BY <1>5, <3>1
    <3> QED BY <2>2, <3>2
  <2> QED BY <2>1, <2>2
<1>7. PartialSums(k, f, T)
  <2>1. k = [s \in SUBSET T |-> e(s)]
    OBVIOUS
  <2> HIDE DEF k, e
  <2> QED BY <1>6, <2>1 DEF PartialSums
<1> QED BY <1>2, <1>7

\* What SumFunctionOnSet computes, one element at a time.
LEMMA SumDef ==
  ASSUME NEW S, IsFiniteSet(S), NEW f
  PROVE  /\ S = {} => SumFunctionOnSet(f, S) = 0
         /\ S # {} => SumFunctionOnSet(f, S)
                        = f[First(S)] + SumFunctionOnSet(f, S \ {First(S)})
<1> DEFINE G(u) == CHOOSE g : PartialSums(g, f, u)
           t == S \ {First(S)}
<1>1. PartialSums(G(S), f, S) /\ SumFunctionOnSet(f, S) = G(S)[S]
  BY PartialSumsExist, SumUnfold
<1>2. CASE S = {}
  <2> HIDE DEF G
  <2> QED BY <1>1, <1>2, PartialSumsAt
<1>3. CASE S # {}
  <2>1. IsFiniteSet(t) /\ t \subseteq S
    BY FS_RemoveElement
  <2>2. PartialSums(G(t), f, t) /\ SumFunctionOnSet(f, t) = G(t)[t]
    BY <2>1, PartialSumsExist, SumUnfold
  <2> HIDE DEF G
  <2>3. G(S)[S] = f[First(S)] + G(S)[t]
    BY <1>1, <1>3, PartialSumsAt
  <2>4. G(t)[t] = G(S)[t]
    <3> HIDE DEF t
    <3> QED BY <1>1, <2>1, <2>2, PartialSumsRestrict
  <2> QED BY <1>1, <1>3, <2>2, <2>3, <2>4
<1> QED BY <1>2, <1>3

\* A sum over a finite set depends on the values it adds up only.
LEMMA SumAgree ==
  ASSUME NEW S, IsFiniteSet(S), NEW f, NEW h, \A x \in S : f[x] = h[x]
  PROVE  SumFunctionOnSet(f, S) = SumFunctionOnSet(h, S)
<1> DEFINE G(k) == CHOOSE g : PartialSums(g, k, S)
<1>1. PartialSums(G(f), f, S) /\ SumFunctionOnSet(f, S) = G(f)[S]
  BY PartialSumsExist, SumUnfold
<1>2. PartialSums(G(h), h, S) /\ SumFunctionOnSet(h, S) = G(h)[S]
  BY PartialSumsExist, SumUnfold
<1> HIDE DEF G
<1> QED BY <1>1, <1>2, PartialSumsAgree

\* A sum of integers is an integer, and a sum of naturals is a natural.
LEMMA SumInt ==
  ASSUME NEW S, IsFiniteSet(S), NEW f, \A x \in S : f[x] \in Int
  PROVE  SumFunctionOnSet(f, S) \in Int
<1> DEFINE B == {s \in SUBSET S : SumFunctionOnSet(f, s) \notin Int}
<1>1. SUFFICES ASSUME B # {} PROVE FALSE
  OBVIOUS
<1>2. PICK s \in B : \A t \in B : t \subseteq s => t = s
  <2>1. B \in SUBSET SUBSET S
    OBVIOUS
  <2> HIDE DEF B
  <2> QED BY <1>1, <2>1, MinimalSubset
<1>3. s \in SUBSET S /\ IsFiniteSet(s)
  BY FS_Subset
<1>4. /\ s = {} => SumFunctionOnSet(f, s) = 0
      /\ s # {} => SumFunctionOnSet(f, s) = f[First(s)] + SumFunctionOnSet(f, s \ {First(s)})
  <2> HIDE DEF B
  <2> QED BY <1>3, SumDef
<1>5. s # {}
  BY <1>4
<1>6. First(s) \in S /\ s \ {First(s)} \notin B /\ s \ {First(s)} \in SUBSET S
  BY <1>2, <1>3, <1>5, FirstElement
<1> QED BY <1>4, <1>5, <1>6

\* A sum of naturals is a natural.
LEMMA SumNat ==
  ASSUME NEW S, IsFiniteSet(S), NEW f, \A x \in S : f[x] \in Nat
  PROVE  SumFunctionOnSet(f, S) \in Nat
<1> DEFINE B == {s \in SUBSET S : SumFunctionOnSet(f, s) \notin Nat}
<1>1. SUFFICES ASSUME B # {} PROVE FALSE
  OBVIOUS
<1>2. PICK s \in B : \A t \in B : t \subseteq s => t = s
  <2>1. B \in SUBSET SUBSET S
    OBVIOUS
  <2> HIDE DEF B
  <2> QED BY <1>1, <2>1, MinimalSubset
<1>3. s \in SUBSET S /\ IsFiniteSet(s)
  BY FS_Subset
<1>4. /\ s = {} => SumFunctionOnSet(f, s) = 0
      /\ s # {} => SumFunctionOnSet(f, s) = f[First(s)] + SumFunctionOnSet(f, s \ {First(s)})
  <2> HIDE DEF B
  <2> QED BY <1>3, SumDef
<1>5. s # {}
  BY <1>4
<1>6. First(s) \in S /\ s \ {First(s)} \notin B /\ s \ {First(s)} \in SUBSET S
  BY <1>2, <1>3, <1>5, FirstElement
<1> QED BY <1>4, <1>5, <1>6

\* Any element may be taken out first: the order of a sum does not matter.
LEMMA SumTakeOut ==
  ASSUME NEW S, IsFiniteSet(S), NEW f, \A x \in S : f[x] \in Int, NEW x \in S
  PROVE  SumFunctionOnSet(f, S) = f[x] + SumFunctionOnSet(f, S \ {x})
<1> DEFINE Sum(s) == SumFunctionOnSet(f, s)
           B == {s \in SUBSET S : \E y \in s : Sum(s) # f[y] + Sum(s \ {y})}
<1>1. SUFFICES ASSUME B # {} PROVE FALSE
  OBVIOUS
<1>2. PICK s \in B : \A t \in B : t \subseteq s => t = s
  <2>1. B \in SUBSET SUBSET S
    OBVIOUS
  <2> HIDE DEF B
  <2> QED BY <1>1, <2>1, MinimalSubset
<1>3. PICK y \in s : Sum(s) # f[y] + Sum(s \ {y})
  OBVIOUS
<1>4. s \in SUBSET S /\ s # {}
  OBVIOUS
<1>5. \A t \in SUBSET S : IsFiniteSet(t) /\ Sum(t) \in Int
  BY FS_Subset, SumInt
<1> DEFINE z == First(s)
<1>6. z \in s /\ Sum(s) = f[z] + Sum(s \ {z})
  BY <1>4, <1>5, SumDef, FirstElement
<1>7. y # z
  BY <1>3, <1>6
<1> DEFINE r == (s \ {y}) \ {z}
<1>8. Sum(s \ {z}) = f[y] + Sum(r)
  <2>1. s \ {z} \notin B /\ s \ {z} \in SUBSET S /\ y \in s \ {z}
    BY <1>2, <1>4, <1>6, <1>7
  <2>2. (s \ {z}) \ {y} = r
    OBVIOUS
  <2> QED BY <2>1, <2>2
<1>9. Sum(s \ {y}) = f[z] + Sum(r)
  <2>1. s \ {y} \notin B /\ s \ {y} \in SUBSET S /\ z \in s \ {y}
    BY <1>2, <1>4, <1>6, <1>7
  <2> QED BY <2>1
<1>10. f[y] \in Int /\ f[z] \in Int /\ Sum(r) \in Int
  BY <1>4, <1>5, <1>6
<1> HIDE DEF z, r, Sum
<1> QED BY <1>3, <1>6, <1>8, <1>9, <1>10

\* Changing one entry changes the sum by the difference.
LEMMA SumChange ==
  ASSUME NEW S, IsFiniteSet(S), NEW f \in [S -> Int], NEW h \in [S -> Int],
         NEW x \in S, \A y \in S \ {x} : h[y] = f[y]
  PROVE  SumFunction(h) = SumFunction(f) + h[x] - f[x]
<1>1. SumFunction(f) = SumFunctionOnSet(f, S) /\ SumFunction(h) = SumFunctionOnSet(h, S)
  BY DEF SumFunction
<1>2. IsFiniteSet(S \ {x})
  BY FS_RemoveElement
<1>3. SumFunctionOnSet(h, S \ {x}) = SumFunctionOnSet(f, S \ {x})
  BY <1>2, SumAgree
<1>4. SumFunctionOnSet(f, S \ {x}) \in Int
  BY <1>2, SumInt
<1>5. /\ SumFunctionOnSet(f, S) = f[x] + SumFunctionOnSet(f, S \ {x})
      /\ SumFunctionOnSet(h, S) = h[x] + SumFunctionOnSet(h, S \ {x})
  BY SumTakeOut
<1> QED BY <1>1, <1>3, <1>4, <1>5

\* No entry of a ledger of naturals exceeds the sum.
LEMMA SumBoundsEntries ==
  ASSUME NEW S, IsFiniteSet(S), NEW f \in [S -> Nat], NEW x \in S
  PROVE  SumFunction(f) \in Nat /\ f[x] <= SumFunction(f)
<1>1. SumFunction(f) = SumFunctionOnSet(f, S)
  BY DEF SumFunction
<1>2. IsFiniteSet(S \ {x})
  BY FS_RemoveElement
<1>3. SumFunctionOnSet(f, S \ {x}) \in Nat /\ SumFunctionOnSet(f, S) \in Nat
  BY <1>2, SumNat
<1>4. SumFunctionOnSet(f, S) = f[x] + SumFunctionOnSet(f, S \ {x})
  BY SumTakeOut
<1> QED BY <1>1, <1>3, <1>4

\* A ledger of zeros adds up to zero.
LEMMA SumOfZeros ==
  ASSUME NEW S, IsFiniteSet(S), NEW f, DOMAIN f = S, \A x \in S : f[x] = 0
  PROVE  SumFunction(f) = 0
<1> DEFINE B == {s \in SUBSET S : SumFunctionOnSet(f, s) # 0}
<1>1. SUFFICES ASSUME B # {} PROVE FALSE
  <2>1. S \in SUBSET S
    OBVIOUS
  <2> QED BY <2>1 DEF SumFunction
<1>2. PICK s \in B : \A t \in B : t \subseteq s => t = s
  <2>1. B \in SUBSET SUBSET S
    OBVIOUS
  <2> HIDE DEF B
  <2> QED BY <1>1, <2>1, MinimalSubset
<1>3. s \in SUBSET S /\ IsFiniteSet(s)
  BY FS_Subset
<1>4. /\ s = {} => SumFunctionOnSet(f, s) = 0
      /\ s # {} => SumFunctionOnSet(f, s) = f[First(s)] + SumFunctionOnSet(f, s \ {First(s)})
  <2> HIDE DEF B
  <2> QED BY <1>3, SumDef
<1>5. s # {}
  BY <1>4
<1>6. First(s) \in S /\ s \ {First(s)} \notin B /\ s \ {First(s)} \in SUBSET S
  BY <1>2, <1>3, <1>5, FirstElement
<1> QED BY <1>4, <1>5, <1>6

=============================================================================
