---------------------------- MODULE BridgeLemmas ----------------------------
(***************************************************************************)
(* What the proofs of several modules rest on: what the fee and slash       *)
(* arithmetic guarantees for every amount, bond and configuration;          *)
(* induction over the natural numbers; and how a sum over a finite set      *)
(* changes when one of its terms does.                                      *)
(*                                                                          *)
(* The library states induction for an operator P(_).  Here the induction   *)
(* is over a set instead (the n for which the claim holds is all of Nat),   *)
(* which needs no operator as a parameter.                                  *)
(***************************************************************************)
EXTENDS BridgeFee, FiniteSets, Functions, FiniteSetTheorems,
        WellFoundedInduction, TLAPS

FeeConfig(cfg) ==
  /\ cfg.feePercentage \in Nat
  /\ cfg.minFee \in Nat
  /\ cfg.maxFee \in Nat

\* Dividing a natural number by the basis-point denominator rounds down.
LEMMA BpsDivision ==
  ASSUME NEW a \in Nat
  PROVE  /\ a \div BpsDenominator \in Nat
         /\ BpsDenominator * (a \div BpsDenominator) <= a
         /\ a < BpsDenominator * (a \div BpsDenominator) + BpsDenominator
  BY DEF BpsDenominator

\* The product of two naturals is a natural (the provers need to be told).
LEMMA ProductType ==
  ASSUME NEW a \in Nat, NEW b \in Nat
  PROVE  a * b \in Nat
  OBVIOUS

\* The fee before the small-amount rule never exceeds maxFee, and is at least
\* minFee when the limits are ordered.
LEMMA ClampedFeeBounds ==
  ASSUME NEW cfg, NEW amount \in Nat, FeeConfig(cfg)
  PROVE  /\ ClampedFee(cfg, amount) \in Nat
         /\ ClampedFee(cfg, amount) <= cfg.maxFee
         /\ cfg.minFee <= cfg.maxFee => cfg.minFee <= ClampedFee(cfg, amount)
  <1>1. amount * cfg.feePercentage \in Nat
    BY ProductType DEF FeeConfig
  <1>2. (amount * cfg.feePercentage) \div BpsDenominator \in Nat
    BY <1>1, BpsDivision
  <1>3. QED
    BY <1>2 DEF ClampedFee, FeeConfig

\* A deposit is never eaten by its fee: what is left is positive, and fee and
\* remainder make up the deposit (NewRelayer.sol:449-459).  The fee respects
\* maxFee always, and minFee whenever the deposit is larger than the clamped fee.
THEOREM FeeLeavesRemainder ==
  ASSUME NEW cfg, NEW amount \in Nat \ {0}, FeeConfig(cfg)
  PROVE  /\ CalculateFee(cfg, amount) \in Nat
         /\ CalculateFee(cfg, amount) < amount
         /\ amount - CalculateFee(cfg, amount) \in Nat \ {0}
         /\ CalculateFee(cfg, amount) <= cfg.maxFee
         /\ cfg.minFee <= cfg.maxFee /\ ClampedFee(cfg, amount) < amount
              => cfg.minFee <= CalculateFee(cfg, amount)
  <1>1. /\ ClampedFee(cfg, amount) \in Nat
        /\ ClampedFee(cfg, amount) <= cfg.maxFee
        /\ cfg.minFee <= cfg.maxFee => cfg.minFee <= ClampedFee(cfg, amount)
    BY ClampedFeeBounds
  <1>2. amount \div 2 \in Nat /\ amount \div 2 < amount
    OBVIOUS
  <1>3. QED
    BY <1>1, <1>2 DEF CalculateFee, FeeConfig

\* A part in basis points of a product is within its first factor, once the
\* product is.  (The product is one variable here, to keep the goal linear.)
LEMMA BpsPart ==
  ASSUME NEW product \in Nat, NEW whole \in Nat,
         product <= whole * BpsDenominator
  PROVE  /\ product \div BpsDenominator \in Nat
         /\ product \div BpsDenominator <= whole
  BY BpsDivision DEF BpsDenominator

\* The slash is never more than the bond, so what is left of a forfeited bond is
\* never negative (NewRelayer.sol:289-290, 389-390).
LEMMA SlashWithinBond ==
  ASSUME NEW bond \in Nat, NEW slashBps \in 0..BpsDenominator
  PROVE  /\ SlashAmount(bond, slashBps) \in Nat
         /\ SlashAmount(bond, slashBps) <= bond
  <1>1. bond * slashBps \in Nat
    BY ProductType DEF BpsDenominator
  <1>2. bond * slashBps <= bond * BpsDenominator
    BY DEF BpsDenominator
  <1>3. QED
    BY <1>1, <1>2, BpsPart DEF SlashAmount
-----------------------------------------------------------------------------
(***************************************************************************)
(* Induction over the natural numbers.                                      *)
(***************************************************************************)

\* A set of natural numbers that is not empty has a least element.
LEMMA LeastElement ==
  ASSUME NEW X \in SUBSET Nat, X # {}
  PROVE  \E m \in X : \A k \in X : m <= k
  <1> DEFINE R == OpToRel(<, Nat)
  <1>1. IsWellFoundedOn(R, Nat) BY NatLessThanWellFounded
  <1>2. \A k, m \in Nat : k < m => <<k, m>> \in R BY DEF OpToRel
  <1> HIDE DEF R
  <1>3. PICK m \in X : \A k \in X : <<k, m>> \notin R BY <1>1, WFMin
  <1>4. \A k \in X : ~(k < m)
    BY <1>2, <1>3
  <1> QED BY <1>4

\* A set that has 0, and n + 1 with every n, is Nat.
LEMMA NatInd ==
  ASSUME NEW X \in SUBSET Nat, 0 \in X, \A n \in X : n + 1 \in X
  PROVE  X = Nat
  <1> SUFFICES ASSUME Nat \ X # {} PROVE FALSE OBVIOUS
  <1>1. PICK m \in Nat \ X : \A k \in Nat \ X : m <= k
    BY LeastElement
  <1>2. m # 0 /\ m - 1 \in Nat OBVIOUS
  <1>3. m - 1 \in X BY <1>1, <1>2
  <1> QED BY <1>3, <1>1

Recurs(f, base, next) ==
  f[0] = base /\ \A n \in Nat : f[n + 1] = next[<<n, f[n]>>]

\* A function on Nat may be defined by its first value and by how each value
\* follows from the one before it.
LEMMA PrimitiveRecursion ==
  ASSUME NEW V, NEW base \in V, NEW next \in [Nat \X V -> V]
  PROVE  \E f \in [Nat -> V] : Recurs(f, base, next)
  <1>. DEFINE Upto(n) == {g \in [0..n -> V] :
                /\ g[0] = base
                /\ \A k \in 0..n : k # n => g[k + 1] = next[<<k, g[k]>>]}
              X == {n \in Nat : Upto(n) # {}}
  <1>1. X = Nat
    <2>1. 0 \in X
      <3>1. [k \in 0..0 |-> base] \in Upto(0)
        OBVIOUS
      <3>. QED BY <3>1
    <2>2. ASSUME NEW n \in X PROVE n + 1 \in X
      <3>1. PICK g \in [0..n -> V] :
              g[0] = base /\ \A k \in 0..n : k # n => g[k + 1] = next[<<k, g[k]>>]
        BY <2>2
      <3>. DEFINE h == [k \in 0..(n + 1) |-> IF k = n + 1 THEN next[<<n, g[n]>>] ELSE g[k]]
      <3>2. n \in 0..n /\ g[n] \in V /\ next[<<n, g[n]>>] \in V
        BY <3>1
      <3>3. h \in [0..(n + 1) -> V]
        BY <3>1, <3>2
      <3>4. h[0] = base
        BY <3>1
      <3>5. ASSUME NEW k \in 0..(n + 1), k # n + 1 PROVE h[k + 1] = next[<<k, h[k]>>]
        <4>1. k \in 0..n /\ h[k] = g[k]
          BY <3>5
        <4>2. CASE k = n
          <5>1. h[k + 1] = next[<<n, g[n]>>]
            BY <4>2
          <5>. QED BY <4>1, <4>2, <5>1
        <4>3. CASE k # n
          <5>1. h[k + 1] = g[k + 1]
            BY <4>1, <4>3
          <5>. QED BY <3>1, <4>1, <4>3, <5>1
        <4>. QED BY <4>2, <4>3
      <3>. HIDE DEF h
      <3>6. h \in Upto(n + 1)
        BY <3>3, <3>4, <3>5
      <3>. QED BY <3>6
    <2>. HIDE DEF X
    <2>3. X \in SUBSET Nat
      BY DEF X
    <2>. QED BY <2>1, <2>2, <2>3, NatInd
  <1>2. ASSUME NEW m \in Nat, NEW n \in Nat, NEW g \in Upto(m), NEW h \in Upto(n)
        PROVE  \A k \in Nat : k <= m /\ k <= n => g[k] = h[k]
    <2>. DEFINE Y == {k \in Nat : k <= m /\ k <= n => g[k] = h[k]}
    <2>1. 0 \in Y
      OBVIOUS
    <2>2. ASSUME NEW k \in Y PROVE k + 1 \in Y
      <3>. SUFFICES ASSUME k + 1 <= m, k + 1 <= n PROVE g[k + 1] = h[k + 1]
        OBVIOUS
      <3>1. k \in 0..m /\ k # m /\ k \in 0..n /\ k # n /\ g[k] = h[k]
        BY <2>2
      <3>2. g[k + 1] = next[<<k, g[k]>>] /\ h[k + 1] = next[<<k, h[k]>>]
        BY <3>1
      <3>. QED BY <3>1, <3>2
    <2>3. Y = Nat
      <3>. HIDE DEF Y
      <3>1. Y \in SUBSET Nat
        BY DEF Y
      <3>. QED BY <2>1, <2>2, <3>1, NatInd
    <2>. QED BY <2>3
  <1>. DEFINE Pick(n) == CHOOSE g : g \in Upto(n)
              f == [n \in Nat |-> Pick(n)[n]]
  <1>3. \A n \in Nat : Pick(n) \in Upto(n)
    BY <1>1
  <1>. HIDE DEF Pick
  <1>4. f \in [Nat -> V]
    <2>1. \A n \in Nat : Pick(n)[n] \in V
      BY <1>3
    <2>. QED BY <2>1
  <1>5. f[0] = base
    BY <1>3
  <1>6. ASSUME NEW n \in Nat PROVE f[n + 1] = next[<<n, f[n]>>]
    <2>1. Pick(n + 1) \in Upto(n + 1) /\ Pick(n) \in Upto(n)
      BY <1>3
    <2>2. Pick(n + 1)[n] = Pick(n)[n]
      <3>. HIDE DEF Upto
      <3>. QED BY <1>2, <2>1
    <2>3. Pick(n + 1)[n + 1] = next[<<n, Pick(n + 1)[n]>>]
      <3>1. n \in 0..(n + 1) /\ n # n + 1
        OBVIOUS
      <3>. QED BY <2>1, <3>1
    <2>. QED BY <2>2, <2>3
  <1>. HIDE DEF f
  <1>. QED BY <1>4, <1>5, <1>6 DEF Recurs
-----------------------------------------------------------------------------
(***************************************************************************)
(* SumFunction, the sum of a function's values over its finite domain.  The *)
(* community module folds over the set with CHOOSE; these lemmas say that   *)
(* the order does not matter.                                               *)
(***************************************************************************)

\* A sum exists.  (A predicate of its own, so that it can be cited unexpanded.)
Summable(f, S) == IsFiniteSet(S) /\ f \in [S -> Int]

\* The element the fold takes first, and what the fold computes of a subset.
First(s) == CHOOSE x \in s : TRUE
SumEq(g, f, s) == g[s] = IF s = {} THEN 0 ELSE f[First(s)] + g[s \ {First(s)}]
IsSum(g, f, S) ==
  g = [s \in SUBSET S |-> IF s = {} THEN 0 ELSE f[First(s)] + g[s \ {First(s)}]]

\* Any element may be taken first.
SumsUp(g, f, S) ==
  \A s \in SUBSET S : g[s] \in Int /\ \A x \in s : g[s] = f[x] + g[s \ {x}]

\* The recursive function SumFunction is defined by exists.
LEMMA SumExists ==
  ASSUME NEW S, NEW f, Summable(f, S)
  PROVE  \E g : IsSum(g, f, S)
  <1> DEFINE UpTo(k) == {g \in [SUBSET S -> Int] :
                \A s \in SUBSET S : Cardinality(s) <= k => SumEq(g, f, s)}
             X == {k \in Nat : UpTo(k) # {}}
  <1> USE DEF Summable
  <1>0. \A s \in SUBSET S : /\ IsFiniteSet(s) /\ Cardinality(s) \in Nat
                            /\ Cardinality(s) = 0 <=> s = {}
    BY FS_Subset, FS_CardinalityType, FS_EmptySet
  <1>1. 0 \in X
    <2> DEFINE g == [s \in SUBSET S |-> 0]
    <2>1. g \in UpTo(0) BY <1>0 DEF SumEq
    <2> QED BY <2>1
  <1>2. ASSUME NEW k \in X PROVE k + 1 \in X
    <2>1. PICK g \in [SUBSET S -> Int] :
            \A s \in SUBSET S : Cardinality(s) <= k => SumEq(g, f, s)
      BY <1>2
    <2> DEFINE h == [s \in SUBSET S |-> IF Cardinality(s) <= k THEN g[s] ELSE
                       f[First(s)] + g[s \ {First(s)}]]
    <2>2. ASSUME NEW s \in SUBSET S, s # {}
          PROVE  /\ First(s) \in s /\ s \ {First(s)} \in SUBSET S
                 /\ Cardinality(s \ {First(s)}) = Cardinality(s) - 1
      <3>1. First(s) \in s BY <2>2 DEF First
      <3> QED BY <3>1, <1>0, FS_RemoveElement
    <2>3. h \in [SUBSET S -> Int]
      <3> SUFFICES ASSUME NEW s \in SUBSET S, ~(Cardinality(s) <= k)
                   PROVE  f[First(s)] + g[s \ {First(s)}] \in Int
        BY <2>1
      <3>1. s # {} BY <1>0, <1>2
      <3> QED BY <3>1, <2>1, <2>2
    <2>4. ASSUME NEW s \in SUBSET S, Cardinality(s) <= k + 1 PROVE SumEq(h, f, s)
      <3>1. CASE s = {}
        <4>1. Cardinality(s) <= k BY <3>1, <1>0, <1>2
        <4> QED BY <3>1, <4>1, <2>1 DEF SumEq
      <3>2. CASE s # {}
        <4>1. Cardinality(s \ {First(s)}) <= k BY <3>2, <2>2, <2>4, <1>0, <1>2
        <4>2. h[s \ {First(s)}] = g[s \ {First(s)}] BY <4>1, <3>2, <2>2
        <4>3. h[s] = f[First(s)] + g[s \ {First(s)}]
          <5>1. CASE Cardinality(s) <= k BY <5>1, <2>1, <3>2 DEF SumEq
          <5>2. CASE ~(Cardinality(s) <= k) BY <5>2
          <5> QED BY <5>1, <5>2
        <4> QED BY <3>2, <4>2, <4>3 DEF SumEq
      <3> QED BY <3>1, <3>2
    <2>5. h \in UpTo(k + 1) BY <2>3, <2>4
    <2> HIDE DEF UpTo
    <2> QED BY <2>5
  <1>3. X = Nat
    <2> HIDE DEF X
    <2>1. X \in SUBSET Nat BY DEF X
    <2> QED BY <1>1, <1>2, <2>1, NatInd
  <1>4. Cardinality(S) \in X BY <1>3, <1>0
  <1>5. PICK g \in [SUBSET S -> Int] :
          \A s \in SUBSET S : Cardinality(s) <= Cardinality(S) => SumEq(g, f, s)
    BY <1>4
  <1>6. \A s \in SUBSET S : SumEq(g, f, s) BY <1>5, FS_Subset
  <1>7. IsSum(g, f, S) BY <1>5, <1>6 DEF SumEq, IsSum
  <1> QED BY <1>7

\* A subset's sum is an integer, and any of its elements may be taken first: by
\* induction on the size of the subset, taking two elements in either order.
LEMMA SumRemove ==
  ASSUME NEW S, NEW f, Summable(f, S), NEW g, IsSum(g, f, S)
  PROVE  \A s \in SUBSET S : g[s] \in Int /\ \A x \in s : g[s] = f[x] + g[s \ {x}]
  <1> DEFINE Good(s) == g[s] \in Int /\ \A x \in s : g[s] = f[x] + g[s \ {x}]
             X == {k \in Nat : \A s \in SUBSET S : Cardinality(s) <= k => Good(s)}
  <1> USE DEF Summable
  <1>0. \A s \in SUBSET S : /\ IsFiniteSet(s) /\ Cardinality(s) \in Nat
                            /\ Cardinality(s) = 0 <=> s = {}
    BY FS_Subset, FS_CardinalityType, FS_EmptySet
  <1>a. \A s \in SUBSET S : g[s] = IF s = {} THEN 0 ELSE f[First(s)] + g[s \ {First(s)}]
    BY DEF IsSum
  <1>1. 0 \in X BY <1>0, <1>a
  <1>2. ASSUME NEW k \in X PROVE k + 1 \in X
    <2> SUFFICES ASSUME NEW s \in SUBSET S, Cardinality(s) <= k + 1 PROVE Good(s)
      OBVIOUS
    <2>1. CASE s = {}
      <3>1. g[s] = 0 BY <2>1, <1>a
      <3> QED BY <2>1, <3>1
    <2>2. CASE s # {}
      <3> DEFINE y == First(s)
      <3>1. y \in s BY <2>2 DEF First
      <3>2. ASSUME NEW t \in SUBSET s, NEW z \in s, z \notin t PROVE Good(t)
        <4>1. Cardinality(t) <= k
          <5>1. t \in SUBSET (s \ {z}) BY <3>2
          <5>2. Cardinality(s \ {z}) = Cardinality(s) - 1 BY <1>0, FS_RemoveElement
          <5>3. Cardinality(t) <= Cardinality(s \ {z})
            BY <5>1, <1>0, FS_Subset
          <5> QED BY <5>2, <5>3, <1>0, <1>2
        <4> QED BY <4>1, <1>2
      <3>3. g[s] = f[y] + g[s \ {y}] BY <1>a, <2>2
      <3> HIDE DEF y
      <3>4. ASSUME NEW x \in s, x # y PROVE g[s] = f[x] + g[s \ {x}]
        <4> DEFINE r == g[(s \ {x}) \ {y}]
        <4>1. (s \ {y}) \ {x} = (s \ {x}) \ {y} OBVIOUS
        <4>2. g[s \ {y}] = f[x] + r BY <3>1, <3>2, <3>4, <4>1
        <4>3. g[s \ {x}] = f[y] + r BY <3>1, <3>2, <3>4
        <4>4. r \in Int BY <3>2
        <4>5. f[x] \in Int /\ f[y] \in Int BY <3>1
        <4> HIDE DEF r
        <4> QED BY <3>3, <4>2, <4>3, <4>4, <4>5
      <3>5. g[s] \in Int
        <4>1. g[s \ {y}] \in Int BY <3>1, <3>2
        <4> QED BY <3>1, <3>3, <4>1
      <3>6. \A x \in s : g[s] = f[x] + g[s \ {x}] BY <3>3, <3>4
      <3> QED BY <3>5, <3>6
    <2> QED BY <2>1, <2>2
  <1>3. X = Nat
    <2> HIDE DEF X
    <2>1. X \in SUBSET Nat BY DEF X
    <2> QED BY <1>1, <1>2, <2>1, NatInd
  <1>4. ASSUME NEW s \in SUBSET S PROVE Good(s)
    BY <1>3, <1>0
  <1> QED BY <1>4

\* Functions that agree on a subset have the same sum over it.
LEMMA SumAgree ==
  ASSUME NEW S, NEW f, NEW h, Summable(f, S), Summable(h, S),
         NEW g, IsSum(g, f, S), NEW i, IsSum(i, h, S),
         NEW D \in SUBSET S, \A x \in D : f[x] = h[x]
  PROVE  g[D] = i[D]
  <1> DEFINE X == {k \in Nat : \A s \in SUBSET D : Cardinality(s) <= k => g[s] = i[s]}
  <1>0. \A s \in SUBSET S : /\ IsFiniteSet(s) /\ Cardinality(s) \in Nat
                            /\ Cardinality(s) = 0 <=> s = {}
    BY FS_Subset, FS_CardinalityType, FS_EmptySet DEF Summable
  <1>1. 0 \in X
    <2>1. g[{}] = 0 /\ i[{}] = 0 BY DEF IsSum
    <2>2. \A s \in SUBSET D : Cardinality(s) <= 0 => s = {} BY <1>0
    <2> QED BY <2>1, <2>2
  <1>2. ASSUME NEW k \in X PROVE k + 1 \in X
    <2> SUFFICES ASSUME NEW s \in SUBSET D, Cardinality(s) <= k + 1 PROVE g[s] = i[s]
      OBVIOUS
    <2>0. CASE s = {} BY <2>0, <1>1, <1>0
    <2> SUFFICES ASSUME s # {} PROVE g[s] = i[s] BY <2>0
    <2>1. PICK x \in s : TRUE OBVIOUS
    <2>2. g[s] = f[x] + g[s \ {x}] /\ i[s] = h[x] + i[s \ {x}]
      BY <2>1, SumRemove
    <2>3. Cardinality(s \ {x}) <= k BY <1>0, <1>2, <2>1, FS_RemoveElement
    <2>4. g[s \ {x}] = i[s \ {x}] BY <2>3, <1>2
    <2>5. f[x] = h[x] BY <2>1
    <2> QED BY <2>2, <2>4, <2>5
  <1>3. X = Nat
    <2> HIDE DEF X
    <2>1. X \in SUBSET Nat BY DEF X
    <2> QED BY <1>1, <1>2, <2>1, NatInd
  <1> QED BY <1>3, <1>0

\* SumFunction(f) is the sum over the whole domain.
LEMMA SumIsSum ==
  ASSUME NEW S, NEW f, Summable(f, S)
  PROVE  \E g : IsSum(g, f, S) /\ SumsUp(g, f, S) /\ SumFunction(f) = g[S]
  <1>1. SumFunction(f) = (CHOOSE g : IsSum(g, f, S))[S]
    BY DEF Summable, SumFunction, SumFunctionOnSet, FoldFunctionOnSet, MapThenFoldSet,
           IsSum, First
  <1>2. IsSum(CHOOSE g : IsSum(g, f, S), f, S) BY SumExists
  <1> DEFINE g == CHOOSE g : IsSum(g, f, S)
  <1> HIDE DEF g
  <1>3. SumsUp(g, f, S)
    <2>1. IsSum(g, f, S) BY <1>2 DEF g
    <2> QED BY <2>1, SumRemove DEF SumsUp
  <1> QED BY <1>1, <1>2, <1>3 DEF g

\* A sum of integers is an integer.
LEMMA SumType ==
  ASSUME NEW S, NEW f, Summable(f, S)
  PROVE  SumFunction(f) \in Int
  <1>1. PICK g : IsSum(g, f, S) /\ SumsUp(g, f, S) /\ SumFunction(f) = g[S]
    BY SumIsSum
  <1>2. S \in SUBSET S OBVIOUS
  <1> QED BY <1>1, <1>2 DEF SumsUp

\* When one term changes, the sum changes by as much.
LEMMA SumUpdate ==
  ASSUME NEW S, NEW f, NEW h, Summable(f, S), Summable(h, S),
         NEW x \in S, \A y \in S \ {x} : f[y] = h[y]
  PROVE  SumFunction(h) = SumFunction(f) - f[x] + h[x]
  <1>1. PICK g : IsSum(g, f, S) /\ SumsUp(g, f, S) /\ SumFunction(f) = g[S]
    BY SumIsSum
  <1>2. PICK i : IsSum(i, h, S) /\ SumsUp(i, h, S) /\ SumFunction(h) = i[S]
    BY SumIsSum
  <1>3. g[S] = f[x] + g[S \ {x}] /\ g[S \ {x}] \in Int BY <1>1 DEF SumsUp
  <1>4. i[S] = h[x] + i[S \ {x}] BY <1>2 DEF SumsUp
  <1>5. g[S \ {x}] = i[S \ {x}] BY <1>1, <1>2, SumAgree
  <1>6. f[x] \in Int /\ h[x] \in Int BY DEF Summable
  <1> QED BY <1>1, <1>2, <1>3, <1>4, <1>5, <1>6

\* A sum of zeros is zero.
LEMMA SumZero ==
  ASSUME NEW S, NEW f, Summable(f, S), \A x \in S : f[x] = 0
  PROVE  SumFunction(f) = 0
  <1>1. PICK g : IsSum(g, f, S) /\ SumFunction(f) = g[S] BY SumIsSum
  <1> DEFINE z == [s \in SUBSET S |-> 0]
  <1>2. IsSum(z, f, S)
    <2>1. \A s \in SUBSET S : s # {} => First(s) \in s BY DEF First
    <2>2. \A s \in SUBSET S : z[s] = IF s = {} THEN 0 ELSE f[First(s)] + z[s \ {First(s)}]
      BY <2>1
    <2> QED BY <2>2 DEF IsSum
  <1>3. g[S] = z[S] BY <1>1, <1>2, SumAgree
  <1> QED BY <1>1, <1>3

\* No term exceeds the sum of natural numbers it is part of.
LEMMA TermWithinSum ==
  ASSUME NEW S, NEW f, IsFiniteSet(S), f \in [S -> Nat], NEW x \in S
  PROVE  f[x] <= SumFunction(f)
  <1>0. Summable(f, S) BY DEF Summable
  <1>1. PICK g : IsSum(g, f, S) /\ SumsUp(g, f, S) /\ SumFunction(f) = g[S]
    BY <1>0, SumIsSum
  <1> DEFINE X == {k \in Nat : \A s \in SUBSET S : Cardinality(s) <= k => g[s] >= 0}
  <1>2. \A s \in SUBSET S : /\ IsFiniteSet(s) /\ Cardinality(s) \in Nat
                            /\ Cardinality(s) = 0 <=> s = {}
    BY FS_Subset, FS_CardinalityType, FS_EmptySet
  <1>3. 0 \in X
    <2>1. g[{}] = 0 BY <1>1 DEF IsSum
    <2>2. \A s \in SUBSET S : Cardinality(s) <= 0 => s = {} BY <1>2
    <2> QED BY <2>1, <2>2
  <1>4. ASSUME NEW k \in X PROVE k + 1 \in X
    <2> SUFFICES ASSUME NEW s \in SUBSET S, Cardinality(s) <= k + 1 PROVE g[s] >= 0
      OBVIOUS
    <2>1. CASE s = {} BY <2>1, <1>2, <1>3
    <2>2. ASSUME NEW y \in s PROVE g[s] >= 0
      <3>1. Cardinality(s \ {y}) <= k BY <1>2, <1>4, <2>2, FS_RemoveElement
      <3>2. g[s \ {y}] >= 0 /\ g[s \ {y}] \in Int BY <3>1, <1>1, <1>4 DEF SumsUp
      <3>3. g[s] = f[y] + g[s \ {y}] BY <1>1, <2>2 DEF SumsUp
      <3>4. f[y] \in Nat BY <2>2
      <3> QED BY <3>2, <3>3, <3>4
    <2> QED BY <2>1, <2>2
  <1>5. X = Nat
    <2> HIDE DEF X
    <2>1. X \in SUBSET Nat BY DEF X
    <2> QED BY <1>3, <1>4, <2>1, NatInd
  <1>6. g[S \ {x}] >= 0 /\ g[S \ {x}] \in Int BY <1>1, <1>2, <1>5 DEF SumsUp
  <1>7. g[S] = f[x] + g[S \ {x}] /\ f[x] \in Nat BY <1>1 DEF SumsUp
  <1> QED BY <1>1, <1>6, <1>7
=============================================================================
