------------------------- MODULE TradingDay_proofs -------------------------
(***************************************************************************)
(* Proofs about TradingDay, and the score and the choice of a contract it  *)
(* is built on, for every set of underlyings, leads and hours.             *)
(***************************************************************************)
EXTENDS TradingDay, FiniteSetTheorems, SequenceTheorems, WellFoundedInduction, TLAPS

-----------------------------------------------------------------------------
(* Numbers *)

LEMMA MaxOfTwo ==
    ASSUME NEW a \in Int, NEW b \in Int
    PROVE  Max({a, b}) = IF a >= b THEN a ELSE b
<1> DEFINE m == IF a >= b THEN a ELSE b
<1>1. m \in {a, b} /\ \A y \in {a, b} : m >= y
  OBVIOUS
<1>2. \A x \in {a, b} : (\A y \in {a, b} : x >= y) => x = m
  OBVIOUS
<1> HIDE DEF m
<1>3. Max({a, b}) = m
  BY <1>1, <1>2 DEF Max
<1> QED
  BY <1>3 DEF m

LEMMA MinOfTwo ==
    ASSUME NEW a \in Int, NEW b \in Int
    PROVE  Min({a, b}) = IF a <= b THEN a ELSE b
<1> DEFINE m == IF a <= b THEN a ELSE b
<1>1. m \in {a, b} /\ \A y \in {a, b} : m <= y
  OBVIOUS
<1>2. \A x \in {a, b} : (\A y \in {a, b} : x <= y) => x = m
  OBVIOUS
<1> HIDE DEF m
<1>3. Min({a, b}) = m
  BY <1>1, <1>2 DEF Min
<1> QED
  BY <1>3 DEF m

LEMMA ClampIs ==
    ASSUME NEW x \in Int, NEW low \in Int, NEW high \in Int, low <= high
    PROVE  /\ Clamp(x, low, high) = IF x < low THEN low ELSE IF x > high THEN high ELSE x
           /\ Clamp(x, low, high) \in low..high
<1>1. Min({high, x}) = (IF high <= x THEN high ELSE x) /\ Min({high, x}) \in Int
  BY MinOfTwo
<1>2. Max({low, Min({high, x})}) = IF low >= Min({high, x}) THEN low ELSE Min({high, x})
  BY <1>1, MaxOfTwo
<1> QED
  BY <1>1, <1>2 DEF Clamp

LEMMA ClampIn ==
    ASSUME NEW low \in Int, NEW high \in Int, NEW x \in low..high
    PROVE  Clamp(x, low, high) = x
<1>1. x \in Int /\ low <= x /\ x <= high /\ low <= high
  OBVIOUS
<1>2. Clamp(x, low, high) = IF x < low THEN low ELSE IF x > high THEN high ELSE x
  BY <1>1, ClampIs
<1> QED
  BY <1>1, <1>2

LEMMA ClampPercent == ASSUME NEW x \in 0..100 PROVE Clamp(x, 0, 100) = x
<1>1. \A low, high \in Int : x \in low..high => Clamp(x, low, high) = x
  BY ClampIn
<1>2. 0 \in Int /\ 100 \in Int /\ x \in 0..100
  OBVIOUS
<1> QED
  BY <1>1, <1>2, Zenon

\* A set of naturals has a least element.
LEMMA LeastOf ==
    ASSUME NEW S \in SUBSET Nat, S # {}
    PROVE  Min(S) \in S /\ \A y \in S : Min(S) <= y
<1> DEFINE R == OpToRel(<, Nat)
<1>1. \A x, y \in Nat : <<y, x>> \in R <=> y < x
  BY DEF OpToRel
<1>2. IsWellFoundedOn(R, Nat)
  BY NatLessThanWellFounded
<1> HIDE DEF R
<1>3. PICK x \in S : \A y \in S : ~ (<<y, x>> \in R)
  BY <1>2, WFMin
<1>4. ASSUME NEW y \in S PROVE x <= y
  <2>1. x \in Nat /\ y \in Nat
    OBVIOUS
  <2>2. ~ (<<y, x>> \in R)
    BY <1>3
  <2>3. <<y, x>> \in R <=> y < x
    BY <1>1, <2>1
  <2>4. ~ (y < x)
    BY <2>2, <2>3
  <2> QED
    BY <2>1, <2>4
<1> QED
  BY <1>4 DEF Min

LEMMA ProductMonotone ==
    ASSUME NEW k \in Nat, NEW x \in Nat, NEW y \in Nat
    PROVE  /\ k * x \in Nat
           /\ x <= y => k * x <= k * y
           /\ x < y => k * x + k <= k * y
OBVIOUS

LEMMA QuotientMonotone ==
    ASSUME NEW d \in Nat \ {0}, NEW x \in Nat, NEW y \in Nat, x <= y
    PROVE  /\ x \div d \in Nat /\ y \div d \in Nat
           /\ x \div d <= y \div d
OBVIOUS

-----------------------------------------------------------------------------
(* The composite of the evidence *)

Base == {"pattern_fit", "volume", "trend_alignment", "proximity", "structure"}
Extras == {"iv", "oi", "time_of_day"}

\* Evidence the score is made for: the base components at least, as percentages.
Scored(e) == Base \subseteq DOMAIN e /\ \A k \in DOMAIN e : e[k] \in 0..100

\* What the features in on take of the weight of the base components.
Share(on) == (IF "iv" \in on THEN 4 ELSE 0) + (IF "oi" \in on THEN 5 ELSE 0)
                 + (IF "time_of_day" \in on THEN 6 ELSE 0)
Left(on) == 100 - Share(on)

LEMMA ShareBounds == ASSUME NEW on PROVE Left(on) \in 85..100 /\ Left(on) \in Nat
BY DEF Share, Left

LEMMA ValueBounds ==
    ASSUME NEW e, Scored(e), NEW k
    PROVE  /\ Value(e, k) \in 0..100
           /\ k \in DOMAIN e => Value(e, k) = e[k]
<1>1. CASE k \in DOMAIN e
  <2>1. e[k] \in Int /\ e[k] \in 0..100
    BY <1>1 DEF Scored
  <2>2. Clamp(e[k], 0, 100) = e[k]
    BY <2>1, ClampPercent
  <2> QED
    BY <1>1, <2>1, <2>2 DEF Value
<1>2. CASE k \notin DOMAIN e
  BY <1>2 DEF Value
<1> QED
  BY <1>1, <1>2

LEMMA WeightMapIs ==
    ASSUME NEW on \in SUBSET Extras
    PROVE  /\ DOMAIN WeightMap(on) = Base \cup on
           /\ WeightMap(on)["pattern_fit"] = 40 * Left(on)
           /\ WeightMap(on)["volume"] = 25 * Left(on)
           /\ WeightMap(on)["trend_alignment"] = 15 * Left(on)
           /\ WeightMap(on)["proximity"] = 10 * Left(on)
           /\ WeightMap(on)["structure"] = 10 * Left(on)
           /\ \A k \in on : WeightMap(on)[k] = ExtraWeight[k] * 100
<1> DEFINE r == Restrict(ExtraWeight, on)
<1>1. /\ DOMAIN r = on
      /\ "iv" \in on => r["iv"] = 4
      /\ "oi" \in on => r["oi"] = 5
      /\ "time_of_day" \in on => r["time_of_day"] = 6
  BY DEF Restrict, ExtraWeight
<1> HIDE DEF r
<1>2. Total(r) = Share(on)
  BY <1>1 DEF Total, Share, Extras
<1>3. WeightMap(on) = [k \in DOMAIN BaseWeight \cup on |->
                          IF k \in on THEN ExtraWeight[k] * 100 ELSE BaseWeight[k] * Left(on)]
  BY <1>2 DEF WeightMap, Left, r
<1>4. DOMAIN BaseWeight = Base
  BY DEF BaseWeight, Base
<1> QED
  BY <1>3, <1>4 DEF Base, Extras, BaseWeight, ExtraWeight

\* The weighed evidence, term by term.
LEMMA WeighedIs ==
    ASSUME NEW on \in SUBSET Extras, NEW e, Scored(e)
    PROVE  Weighed(e, WeightMap(on)) =
               (40 * Left(on)) * Value(e, "pattern_fit")
                   + (25 * Left(on)) * Value(e, "volume")
                   + (15 * Left(on)) * Value(e, "trend_alignment")
                   + (10 * Left(on)) * Value(e, "proximity")
                   + (10 * Left(on)) * Value(e, "structure")
                   + (IF "iv" \in on THEN 400 * Value(e, "iv") ELSE 0)
                   + (IF "oi" \in on THEN 500 * Value(e, "oi") ELSE 0)
                   + (IF "time_of_day" \in on THEN 600 * Value(e, "time_of_day") ELSE 0)
<1> DEFINE f == [k \in DOMAIN WeightMap(on) |-> WeightMap(on)[k] * Value(e, k)]
<1>1. DOMAIN WeightMap(on) = Base \cup on /\ DOMAIN f = DOMAIN WeightMap(on)
  BY WeightMapIs
<1>2. \A k \in Base \cup on : f[k] = WeightMap(on)[k] * Value(e, k)
  BY <1>1
<1> HIDE DEF f
<1>3. /\ Base \subseteq DOMAIN f
      /\ \A k \in Extras : k \in DOMAIN f <=> k \in on
  BY <1>1 DEF Base, Extras
<1>4. /\ f["pattern_fit"] = (40 * Left(on)) * Value(e, "pattern_fit")
      /\ f["volume"] = (25 * Left(on)) * Value(e, "volume")
      /\ f["trend_alignment"] = (15 * Left(on)) * Value(e, "trend_alignment")
      /\ f["proximity"] = (10 * Left(on)) * Value(e, "proximity")
      /\ f["structure"] = (10 * Left(on)) * Value(e, "structure")
  <2>1. /\ WeightMap(on)["pattern_fit"] = 40 * Left(on)
        /\ WeightMap(on)["volume"] = 25 * Left(on)
        /\ WeightMap(on)["trend_alignment"] = 15 * Left(on)
        /\ WeightMap(on)["proximity"] = 10 * Left(on)
        /\ WeightMap(on)["structure"] = 10 * Left(on)
    BY WeightMapIs
  <2> QED
    BY <1>2, <2>1, Zenon DEF Base
<1>5. /\ "iv" \in on => f["iv"] = 400 * Value(e, "iv")
      /\ "oi" \in on => f["oi"] = 500 * Value(e, "oi")
      /\ "time_of_day" \in on => f["time_of_day"] = 600 * Value(e, "time_of_day")
  <2>1. \A k \in on : f[k] = (ExtraWeight[k] * 100) * Value(e, k)
    BY <1>2, WeightMapIs
  <2>2. /\ ExtraWeight["iv"] * 100 = 400 /\ ExtraWeight["oi"] * 100 = 500
        /\ ExtraWeight["time_of_day"] * 100 = 600
    BY DEF ExtraWeight
  <2> QED
    BY <2>1, <2>2
<1>6. Weighed(e, WeightMap(on)) = Total(f)
  BY DEF Weighed, f
<1>7. Total(f) = f["pattern_fit"] + f["volume"] + f["trend_alignment"] + f["proximity"]
                     + f["structure"]
                     + (IF "iv" \in on THEN f["iv"] ELSE 0)
                     + (IF "oi" \in on THEN f["oi"] ELSE 0)
                     + (IF "time_of_day" \in on THEN f["time_of_day"] ELSE 0)
  BY <1>3 DEF Total, Base, Extras
<1> QED
  BY <1>4, <1>5, <1>6, <1>7

\* It is a fraction of 100 percent of 100 percent of 100.
LEMMA WeighedBounds ==
    ASSUME NEW on \in SUBSET Extras, NEW e, Scored(e)
    PROVE  Weighed(e, WeightMap(on)) \in Nat /\ Weighed(e, WeightMap(on)) <= 1000000
<1>1. ASSUME NEW k, NEW c \in {10, 15, 25, 40}
      PROVE  /\ (c * Left(on)) * Value(e, k) \in Nat
             /\ (c * Left(on)) * Value(e, k) <= (c * Left(on)) * 100
  <2>1. c * Left(on) \in Nat /\ Value(e, k) \in Nat /\ Value(e, k) <= 100
    BY ShareBounds, ValueBounds
  <2> QED
    BY <2>1, ProductMonotone
<1> DEFINE t1 == (40 * Left(on)) * Value(e, "pattern_fit")
           t2 == (25 * Left(on)) * Value(e, "volume")
           t3 == (15 * Left(on)) * Value(e, "trend_alignment")
           t4 == (10 * Left(on)) * Value(e, "proximity")
           t5 == (10 * Left(on)) * Value(e, "structure")
<1>2. /\ t1 \in Nat /\ t1 <= (40 * Left(on)) * 100
      /\ t2 \in Nat /\ t2 <= (25 * Left(on)) * 100
      /\ t3 \in Nat /\ t3 <= (15 * Left(on)) * 100
      /\ t4 \in Nat /\ t4 <= (10 * Left(on)) * 100
      /\ t5 \in Nat /\ t5 <= (10 * Left(on)) * 100
  BY <1>1
<1>3. /\ Value(e, "iv") \in 0..100 /\ Value(e, "oi") \in 0..100
      /\ Value(e, "time_of_day") \in 0..100
  BY ValueBounds
<1>4. Weighed(e, WeightMap(on)) =
          t1 + t2 + t3 + t4 + t5
              + (IF "iv" \in on THEN 400 * Value(e, "iv") ELSE 0)
              + (IF "oi" \in on THEN 500 * Value(e, "oi") ELSE 0)
              + (IF "time_of_day" \in on THEN 600 * Value(e, "time_of_day") ELSE 0)
  BY WeighedIs
<1> DEFINE t6 == IF "iv" \in on THEN 400 * Value(e, "iv") ELSE 0
           t7 == IF "oi" \in on THEN 500 * Value(e, "oi") ELSE 0
           t8 == IF "time_of_day" \in on THEN 600 * Value(e, "time_of_day") ELSE 0
<1>5. /\ t6 \in Nat /\ t6 <= (IF "iv" \in on THEN 4 ELSE 0) * 10000
      /\ t7 \in Nat /\ t7 <= (IF "oi" \in on THEN 5 ELSE 0) * 10000
      /\ t8 \in Nat /\ t8 <= (IF "time_of_day" \in on THEN 6 ELSE 0) * 10000
  BY <1>3, SMT
<1> HIDE DEF t1, t2, t3, t4, t5, t6, t7, t8
<1> DEFINE base == t1 + t2 + t3 + t4 + t5
           more == t6 + t7 + t8
<1>6. more <= Share(on) * 10000 /\ more \in Nat
  BY <1>5, SMT DEF Share
<1>7. base <= Left(on) * 10000 /\ base \in Nat
  BY <1>2, ShareBounds, SMT
<1>8. Weighed(e, WeightMap(on)) = base + more
  BY <1>2, <1>4, <1>5, SMT DEF t6, t7, t8
<1>9. Share(on) \in Nat /\ Left(on) = 100 - Share(on)
  BY DEF Share, Left
<1> HIDE DEF base, more
<1>10. base + more \in Nat /\ base + more <= 1000000
  BY <1>6, <1>7, <1>9, SMT
<1> QED
  BY <1>8, <1>10, SMT

\* e shows no more than f of anything.
NoBetter(e, f) == \A k \in Base \cup Extras : Value(e, k) <= Value(f, k)

\* The part of a base component that weighs c percent.
Term(on, e, k, c) == (c * Left(on)) * Value(e, k)

\* A percent of any base component weighs 850 at least.
LEMMA WeighedMonotone ==
    ASSUME NEW on \in SUBSET Extras, NEW e, Scored(e), NEW f, Scored(f), NoBetter(e, f)
    PROVE  /\ Weighed(e, WeightMap(on)) <= Weighed(f, WeightMap(on))
           /\ (\E k \in Base : Value(e, k) < Value(f, k))
                  => Weighed(e, WeightMap(on)) + 850 <= Weighed(f, WeightMap(on))
<1>1. ASSUME NEW k \in Base, NEW c \in {10, 15, 25, 40}
      PROVE  /\ Term(on, e, k, c) \in Nat /\ Term(on, f, k, c) \in Nat
             /\ Term(on, e, k, c) <= Term(on, f, k, c)
             /\ Value(e, k) < Value(f, k) => Term(on, e, k, c) + 850 <= Term(on, f, k, c)
  <2>1. /\ c * Left(on) \in Nat /\ c * Left(on) >= 850
        /\ Value(e, k) \in Nat /\ Value(f, k) \in Nat
    BY ShareBounds, ValueBounds
  <2>2. Value(e, k) <= Value(f, k)
    BY DEF NoBetter
  <2> DEFINE w == c * Left(on)
  <2>3. w \in Nat /\ w >= 850
    BY <2>1
  <2> HIDE DEF w
  <2>4. /\ w * Value(e, k) \in Nat /\ w * Value(f, k) \in Nat
        /\ w * Value(e, k) <= w * Value(f, k)
        /\ Value(e, k) < Value(f, k) => w * Value(e, k) + w <= w * Value(f, k)
    BY <2>1, <2>2, <2>3, ProductMonotone
  <2>5. Value(e, k) < Value(f, k) => w * Value(e, k) + 850 <= w * Value(f, k)
    BY <2>3, <2>4
  <2> QED
    BY <2>4, <2>5 DEF w, Term
<1>2. ASSUME NEW g, Scored(g)
      PROVE  Weighed(g, WeightMap(on)) =
                 Term(on, g, "pattern_fit", 40) + Term(on, g, "volume", 25)
                     + Term(on, g, "trend_alignment", 15) + Term(on, g, "proximity", 10)
                     + Term(on, g, "structure", 10)
                     + (IF "iv" \in on THEN 400 * Value(g, "iv") ELSE 0)
                     + (IF "oi" \in on THEN 500 * Value(g, "oi") ELSE 0)
                     + (IF "time_of_day" \in on THEN 600 * Value(g, "time_of_day") ELSE 0)
  BY <1>2, WeighedIs DEF Term
<1>3. \A k \in Extras : Value(e, k) \in Nat /\ Value(f, k) \in Nat /\ Value(e, k) <= Value(f, k)
  BY ValueBounds DEF NoBetter
<1>4. /\ Term(on, e, "pattern_fit", 40) \in Nat /\ Term(on, f, "pattern_fit", 40) \in Nat
      /\ Term(on, e, "volume", 25) \in Nat /\ Term(on, f, "volume", 25) \in Nat
      /\ Term(on, e, "trend_alignment", 15) \in Nat /\ Term(on, f, "trend_alignment", 15) \in Nat
      /\ Term(on, e, "proximity", 10) \in Nat /\ Term(on, f, "proximity", 10) \in Nat
      /\ Term(on, e, "structure", 10) \in Nat /\ Term(on, f, "structure", 10) \in Nat
  BY <1>1 DEF Base
<1>5. /\ Term(on, e, "pattern_fit", 40) <= Term(on, f, "pattern_fit", 40)
      /\ Term(on, e, "volume", 25) <= Term(on, f, "volume", 25)
      /\ Term(on, e, "trend_alignment", 15) <= Term(on, f, "trend_alignment", 15)
      /\ Term(on, e, "proximity", 10) <= Term(on, f, "proximity", 10)
      /\ Term(on, e, "structure", 10) <= Term(on, f, "structure", 10)
  BY <1>1 DEF Base
<1>6. (\E k \in Base : Value(e, k) < Value(f, k)) =>
          \/ Term(on, e, "pattern_fit", 40) + 850 <= Term(on, f, "pattern_fit", 40)
          \/ Term(on, e, "volume", 25) + 850 <= Term(on, f, "volume", 25)
          \/ Term(on, e, "trend_alignment", 15) + 850 <= Term(on, f, "trend_alignment", 15)
          \/ Term(on, e, "proximity", 10) + 850 <= Term(on, f, "proximity", 10)
          \/ Term(on, e, "structure", 10) + 850 <= Term(on, f, "structure", 10)
  BY <1>1 DEF Base
<1>7. /\ Value(e, "iv") \in Nat /\ Value(f, "iv") \in Nat /\ Value(e, "iv") <= Value(f, "iv")
      /\ Value(e, "oi") \in Nat /\ Value(f, "oi") \in Nat /\ Value(e, "oi") <= Value(f, "oi")
      /\ Value(e, "time_of_day") \in Nat /\ Value(f, "time_of_day") \in Nat /\ Value(e, "time_of_day") <= Value(f, "time_of_day")
  BY <1>3 DEF Extras
<1>8. /\ Weighed(e, WeightMap(on)) =
             Term(on, e, "pattern_fit", 40) + Term(on, e, "volume", 25)
                 + Term(on, e, "trend_alignment", 15) + Term(on, e, "proximity", 10)
                 + Term(on, e, "structure", 10)
                 + (IF "iv" \in on THEN 400 * Value(e, "iv") ELSE 0)
                 + (IF "oi" \in on THEN 500 * Value(e, "oi") ELSE 0)
                 + (IF "time_of_day" \in on THEN 600 * Value(e, "time_of_day") ELSE 0)
      /\ Weighed(f, WeightMap(on)) =
             Term(on, f, "pattern_fit", 40) + Term(on, f, "volume", 25)
                 + Term(on, f, "trend_alignment", 15) + Term(on, f, "proximity", 10)
                 + Term(on, f, "structure", 10)
                 + (IF "iv" \in on THEN 400 * Value(f, "iv") ELSE 0)
                 + (IF "oi" \in on THEN 500 * Value(f, "oi") ELSE 0)
                 + (IF "time_of_day" \in on THEN 600 * Value(f, "time_of_day") ELSE 0)
  BY <1>2
<1> QED
  BY <1>4, <1>5, <1>6, <1>7, <1>8

LEMMA NoBetterSelf == ASSUME NEW e, Scored(e) PROVE NoBetter(e, e)
<1>1. \A k \in Base \cup Extras : Value(e, k) \in Int
  BY ValueBounds
<1> QED
  BY <1>1 DEF NoBetter

\* Rounded, a score is a whole number of ten-thousandths.
Scores == 0..10000
Graded(sum, weak) == ((IF weak THEN (sum * 85) \div 100 ELSE sum) + 50) \div 100

LEMMA CompositeIs ==
    ASSUME NEW e, NEW w PROVE Composite(e, w) = Graded(Weighed(e, w), Weak(e))
BY DEF Composite, Graded

LEMMA GradedMonotone ==
    ASSUME NEW x \in Nat, NEW y \in Nat, NEW v \in BOOLEAN, NEW w \in BOOLEAN, x <= y, w => v
    PROVE  /\ Graded(x, v) \in Nat
           /\ Graded(x, v) <= Graded(y, w)
           /\ x + 850 <= y => Graded(x, v) < Graded(y, w)
           /\ x <= 1000000 => Graded(x, v) <= 10000
<1> DEFINE cut(z) == (z * 85) \div 100
<1>1. /\ cut(x) \in Nat /\ cut(y) \in Nat
      /\ cut(x) <= cut(y) /\ cut(x) <= x
      /\ x + 850 <= y => cut(x) + 700 <= cut(y)
  BY SMT
<1> DEFINE a == IF v THEN cut(x) ELSE x
           b == IF w THEN cut(y) ELSE y
<1>2. /\ a \in Nat /\ b \in Nat /\ a <= b /\ a <= x
      /\ x + 850 <= y => a + 700 <= b
  BY <1>1, SMT
<1>3. Graded(x, v) = (a + 50) \div 100 /\ Graded(y, w) = (b + 50) \div 100
  BY DEF Graded
<1> HIDE DEF a, b
<1>4. /\ (a + 50) \div 100 \in Nat /\ (b + 50) \div 100 \in Nat
      /\ (a + 50) \div 100 <= (b + 50) \div 100
      /\ a + 700 <= b => (a + 50) \div 100 < (b + 50) \div 100
      /\ a <= 1000000 => (a + 50) \div 100 <= 10000
  BY <1>2, SMT
<1> QED
  BY <1>2, <1>3, <1>4, SMT

LEMMA WeakMonotone ==
    ASSUME NEW e, Scored(e), NEW f, Scored(f), NoBetter(e, f)
    PROVE  Weak(f) => Weak(e)
<1>1. \A k \in Base : e[k] \in Int /\ f[k] \in Int /\ e[k] <= f[k]
  <2> SUFFICES ASSUME NEW k \in Base PROVE e[k] \in Int /\ f[k] \in Int /\ e[k] <= f[k]
    OBVIOUS
  <2>1. k \in DOMAIN e /\ k \in DOMAIN f
    BY DEF Scored
  <2>2. Value(e, k) = e[k] /\ Value(f, k) = f[k] /\ Value(e, k) <= Value(f, k)
    BY <2>1, ValueBounds DEF NoBetter
  <2> QED
    BY <2>2, ValueBounds
<1> QED
  BY <1>1 DEF Weak, Base

(* The score is a number of ten-thousandths, and more evidence of a base   *)
(* component makes it greater, whatever features are weighed: the rounding *)
(* and the penalty for weak evidence hide no percent of it.                *)
THEOREM CompositeStrict ==
    ASSUME NEW on \in SUBSET Extras, NEW e, Scored(e), NEW f, Scored(f), NoBetter(e, f)
    PROVE  /\ Composite(e, WeightMap(on)) \in Scores
           /\ Composite(e, WeightMap(on)) <= Composite(f, WeightMap(on))
           /\ (\E k \in Base : Value(e, k) < Value(f, k))
                  => Composite(e, WeightMap(on)) < Composite(f, WeightMap(on))
<1> DEFINE x == Weighed(e, WeightMap(on))
           y == Weighed(f, WeightMap(on))
<1>1. /\ x \in Nat /\ x <= 1000000 /\ y \in Nat /\ x <= y
      /\ (\E k \in Base : Value(e, k) < Value(f, k)) => x + 850 <= y
  BY WeighedBounds, WeighedMonotone
<1>2. Weak(e) \in BOOLEAN /\ Weak(f) \in BOOLEAN /\ (Weak(f) => Weak(e))
  BY WeakMonotone DEF Weak
<1>3. /\ Composite(e, WeightMap(on)) = Graded(x, Weak(e))
      /\ Composite(f, WeightMap(on)) = Graded(y, Weak(f))
  BY CompositeIs
<1> HIDE DEF x, y
<1>4. /\ Graded(x, Weak(e)) \in Nat /\ Graded(x, Weak(e)) <= 10000
      /\ Graded(x, Weak(e)) <= Graded(y, Weak(f))
      /\ x + 850 <= y => Graded(x, Weak(e)) < Graded(y, Weak(f))
  BY <1>1, <1>2, GradedMonotone
<1> DEFINE c == Composite(e, WeightMap(on))
           d == Composite(f, WeightMap(on))
<1>5. /\ c \in Nat /\ c <= 10000 /\ c <= d
      /\ (\E k \in Base : Value(e, k) < Value(f, k)) => c < d
  BY <1>1, <1>3, <1>4
<1> HIDE DEF c, d
<1>6. c \in Scores
  BY <1>5, SMT DEF Scores
<1> QED
  BY <1>5, <1>6, SMT DEF c, d

-----------------------------------------------------------------------------
(* The fresh score *)

LEMMA KeysAre == DOMAIN BaseWeight = Base /\ DOMAIN ExtraWeight = Extras /\ Features \in SUBSET Extras
BY ScoreAssumption DEF BaseWeight, ExtraWeight, Base, Extras

LEMMA EvidenceIs ==
    ASSUME NEW e \in Evidence
    PROVE  /\ DOMAIN e = Base /\ e # <<>> /\ Scored(e)
           /\ \A k \in Base : e[k] \in 0..100 /\ e[k] \in Nat /\ Value(e, k) = e[k]
<1>1. DOMAIN e = Base /\ \A k \in Base : e[k] \in 0..100
  BY KeysAre DEF Evidence
<1>2. Scored(e)
  BY <1>1 DEF Scored
<1>3. e # <<>>
  BY <1>1 DEF Base
<1>4. \A k \in Base : Value(e, k) = e[k]
  BY <1>1, <1>2, ValueBounds, Zenon
<1>5. \A k \in Base : e[k] \in Nat
  BY <1>1
<1> QED
  BY <1>1, <1>2, <1>3, <1>4, <1>5

LEMMA TimeOfDayBounds == ASSUME NEW now \in Int PROVE TimeOfDay(now) \in 0..100
BY DEF TimeOfDay

LEMMA ChainIs ==
    /\ DOMAIN ChainEvidence = Features \cap {"iv", "oi"}
    /\ \A k \in DOMAIN ChainEvidence : ChainEvidence[k] \in 0..100
BY DEF ChainEvidence, IvScore, OiScore

LEMMA FreshIs ==
    ASSUME NEW e \in Evidence, NEW now \in Int
    PROVE  /\ DOMAIN FreshEvidence(e, now) = Base \cup Features
           /\ \A k \in Base : FreshEvidence(e, now)[k] = e[k]
           /\ \A k \in Features : FreshEvidence(e, now)[k] =
                  IF k = "time_of_day" THEN TimeOfDay(now) ELSE ChainEvidence[k]
<1> DEFINE kept == Restrict(e, DOMAIN e \ DOMAIN ExtraWeight)
           timed == [k \in Features \cap {"time_of_day"} |-> TimeOfDay(now)]
<1>1. DOMAIN kept = Base /\ \A k \in Base : kept[k] = e[k]
  BY KeysAre, EvidenceIs DEF Restrict, Base, Extras
<1>2. /\ DOMAIN timed = Features \cap {"time_of_day"}
      /\ "time_of_day" \in Features => timed["time_of_day"] = TimeOfDay(now)
  OBVIOUS
<1>3. FreshEvidence(e, now) = WithExtra(WithExtra(kept, timed), ChainEvidence)
  BY DEF FreshEvidence
<1> HIDE DEF kept, timed
<1> DEFINE dated == WithExtra(kept, timed)
<1>4. /\ DOMAIN dated = Base \cup (Features \cap {"time_of_day"})
      /\ \A k \in Base : dated[k] = e[k]
      /\ "time_of_day" \in Features => dated["time_of_day"] = TimeOfDay(now)
  BY <1>1, <1>2 DEF WithExtra, Base
<1> HIDE DEF dated
<1>5. /\ DOMAIN WithExtra(dated, ChainEvidence) = DOMAIN dated \cup DOMAIN ChainEvidence
      /\ \A k \in DOMAIN dated \cup DOMAIN ChainEvidence :
            WithExtra(dated, ChainEvidence)[k] =
                IF k \in DOMAIN ChainEvidence THEN ChainEvidence[k] ELSE dated[k]
  BY DEF WithExtra
<1>6. Features \subseteq {"iv", "oi", "time_of_day"}
  BY KeysAre DEF Extras
<1>7. DOMAIN dated \cup DOMAIN ChainEvidence = Base \cup Features
  BY <1>4, <1>6, ChainIs
<1> QED
  BY <1>3, <1>4, <1>5, <1>6, <1>7, ChainIs DEF dated, Base

LEMMA FreshScored ==
    ASSUME NEW e \in Evidence, NEW now \in Int
    PROVE  /\ Scored(FreshEvidence(e, now))
           /\ \A k \in Base : Value(FreshEvidence(e, now), k) = e[k]
<1> DEFINE g == FreshEvidence(e, now)
<1>1. DOMAIN g = Base \cup Features /\ \A k \in Base : g[k] = e[k]
  BY FreshIs
<1>2. \A k \in Features : g[k] \in 0..100
  <2> SUFFICES ASSUME NEW k \in Features PROVE g[k] \in 0..100
    OBVIOUS
  <2>1. k \in {"iv", "oi", "time_of_day"}
    BY KeysAre DEF Extras
  <2>2. g[k] = IF k = "time_of_day" THEN TimeOfDay(now) ELSE ChainEvidence[k]
    BY FreshIs
  <2> QED
    BY <2>1, <2>2, TimeOfDayBounds, ChainIs
<1> HIDE DEF g
<1>3. Scored(g)
  BY <1>1, <1>2, EvidenceIs DEF Scored
<1> QED
  BY <1>1, <1>3, ValueBounds DEF g

\* The extras of two leads at one tick are the same: they come from the clock
\* and from a chain that says nothing.
LEMMA FreshExtras ==
    ASSUME NEW e \in Evidence, NEW f \in Evidence, NEW now \in Int
    PROVE  \A k \in Extras : Value(FreshEvidence(e, now), k) = Value(FreshEvidence(f, now), k)
<1> SUFFICES ASSUME NEW k \in Extras
             PROVE  Value(FreshEvidence(e, now), k) = Value(FreshEvidence(f, now), k)
  OBVIOUS
<1>1. k \notin Base
  BY DEF Base, Extras
<1>2. CASE k \in Features
  BY <1>2, FreshIs DEF Value
<1>3. CASE k \notin Features
  BY <1>1, <1>3, FreshIs DEF Value
<1> QED
  BY <1>2, <1>3

\* More evidence is a better score, whatever was stored with the lead.
ScoredAs(e, stored) == stored \in {Composite(e, WeightMap({})), Reblend(e)}

LEMMA ReblendScored ==
    ASSUME NEW e \in Evidence
    PROVE  /\ Scored(WithExtra(e, ChainEvidence))
           /\ Features = {} => Reblend(e) = Composite(e, WeightMap({}))
<1> DEFINE g == WithExtra(e, ChainEvidence)
<1>1. /\ DOMAIN g = Base \cup DOMAIN ChainEvidence
      /\ \A k \in DOMAIN g : g[k] = IF k \in DOMAIN ChainEvidence THEN ChainEvidence[k] ELSE e[k]
  BY EvidenceIs DEF WithExtra
<1>2. \A k \in DOMAIN g : g[k] \in 0..100
  BY <1>1, EvidenceIs, ChainIs
<1>3. ASSUME Features = {} PROVE g = e
  <2>1. DOMAIN ChainEvidence = {}
    BY <1>3, ChainIs
  <2>2. g = [k \in Base |-> e[k]]
    BY <2>1, EvidenceIs DEF WithExtra
  <2>3. e = [k \in Base |-> e[k]]
    BY KeysAre DEF Evidence
  <2> QED
    BY <2>2, <2>3
<1> HIDE DEF g
<1> QED
  BY <1>1, <1>2, <1>3 DEF g, Scored, Reblend

LEMMA StoredBounds ==
    ASSUME NEW e \in Evidence, NEW stored, ScoredAs(e, stored)
    PROVE  stored \in Scores
<1>1. {} \in SUBSET Extras /\ Scored(e) /\ NoBetter(e, e)
  BY EvidenceIs, NoBetterSelf
<1>2. Composite(e, WeightMap({})) \in Scores
  BY <1>1, CompositeStrict
<1> DEFINE g == WithExtra(e, ChainEvidence)
<1>3. Scored(g) /\ NoBetter(g, g)
  BY ReblendScored, NoBetterSelf
<1>4. Composite(g, WeightMap(Features)) \in Scores
  BY <1>3, KeysAre, CompositeStrict
<1> QED
  BY <1>2, <1>4, Zenon DEF ScoredAs, Reblend

\* The score of a lead whose chain was read.
LEMMA FreshStrict ==
    ASSUME NEW e \in Evidence, NEW f \in Evidence, NEW se, NEW sf, ScoredAs(e, se), ScoredAs(f, sf),
           NEW now \in Int, \A k \in Base : e[k] <= f[k], e # f
    PROVE  /\ FreshReblend(e, se, now) \in Scores /\ FreshReblend(f, sf, now) \in Scores
           /\ FreshReblend(e, se, now) < FreshReblend(f, sf, now)
<1>1. PICK k \in Base : e[k] # f[k]
  <2>1. e = [k \in Base |-> e[k]] /\ f = [k \in Base |-> f[k]]
    BY KeysAre DEF Evidence
  <2> QED
    BY <2>1
<1>2. e[k] < f[k]
  BY <1>1, EvidenceIs
<1>3. CASE Features = {}
  <2>1. FreshReblend(e, se, now) = se /\ FreshReblend(f, sf, now) = sf
    BY <1>3 DEF FreshReblend
  <2>2. se = Composite(e, WeightMap({})) /\ sf = Composite(f, WeightMap({}))
    BY <1>3, ReblendScored DEF ScoredAs
  <2>3. Scored(e) /\ Scored(f) /\ {} \in SUBSET Extras
    BY EvidenceIs
  <2>4. NoBetter(e, f)
    <3>1. \A j \in Base : Value(e, j) <= Value(f, j)
      BY EvidenceIs
    <3>2. ASSUME NEW j \in Extras PROVE Value(e, j) <= Value(f, j)
      <4>1. j \notin DOMAIN e /\ j \notin DOMAIN f
        BY EvidenceIs DEF Base, Extras
      <4> QED
        BY <4>1 DEF Value
    <3> QED
      BY <3>1, <3>2 DEF NoBetter
  <2>5. Value(e, k) < Value(f, k)
    BY <1>2, EvidenceIs
  <2>6. se < sf
    BY <2>2, <2>3, <2>4, <2>5, CompositeStrict
  <2> QED
    BY <2>1, <2>6, StoredBounds
<1>4. CASE Features # {}
  <2> DEFINE g == FreshEvidence(e, now)
             h == FreshEvidence(f, now)
  <2>1. /\ FreshReblend(e, se, now) = Composite(g, WeightMap(Features))
        /\ FreshReblend(f, sf, now) = Composite(h, WeightMap(Features))
    BY <1>4, EvidenceIs DEF FreshReblend
  <2>2. Scored(g) /\ Scored(h)
    BY FreshScored
  <2>3. /\ \A j \in Base : Value(g, j) = e[j] /\ Value(h, j) = f[j]
        /\ \A j \in Extras : Value(g, j) = Value(h, j)
    BY FreshScored, FreshExtras
  <2> HIDE DEF g, h
  <2>4. NoBetter(g, h)
    <3>1. \A j \in Base : Value(g, j) <= Value(h, j)
      BY <2>3
    <3>2. ASSUME NEW j \in Extras PROVE Value(g, j) <= Value(h, j)
      <4>1. Value(g, j) \in 0..100
        BY <2>2, ValueBounds
      <4> QED
        BY <2>3, <4>1
    <3> QED
      BY <3>1, <3>2 DEF NoBetter
  <2>5. Value(g, k) < Value(h, k)
    BY <1>2, <2>3
  <2>6. Features \in SUBSET Extras /\ NoBetter(h, h)
    BY <2>2, KeysAre, NoBetterSelf
  <2>7. /\ Composite(g, WeightMap(Features)) \in Scores
        /\ Composite(h, WeightMap(Features)) \in Scores
        /\ Composite(g, WeightMap(Features)) < Composite(h, WeightMap(Features))
    BY <2>2, <2>4, <2>5, <2>6, CompositeStrict
  <2> QED
    BY <2>1, <2>7
<1> QED
  BY <1>3, <1>4

-----------------------------------------------------------------------------
(* Age and record *)

Factors == {x \in Nat : x >= 50}

LEMMA DecayMonotone ==
    ASSUME NEW a \in Int, NEW b \in Int, a <= b
    PROVE  /\ DecayFactor(a) \in Factors /\ DecayFactor(b) \in Factors
           /\ DecayFactor(a) >= DecayFactor(b)
<1>1. CASE HalfLife = 0
  BY <1>1 DEF DecayFactor, Factors
<1>2. CASE HalfLife # 0
  <2> DEFINE x == Clamp(a, 0, MaxDecayWindow)
             y == Clamp(b, 0, MaxDecayWindow)
             lost(z) == (50 * z) \div HalfLife
  <2>1. x \in Nat /\ y \in Nat /\ x <= y
    <3>1. MaxDecayWindow \in Int /\ 0 <= MaxDecayWindow
      BY DEF MaxDecayWindow
    <3>2. /\ x = (IF a < 0 THEN 0 ELSE IF a > MaxDecayWindow THEN MaxDecayWindow ELSE a)
          /\ y = (IF b < 0 THEN 0 ELSE IF b > MaxDecayWindow THEN MaxDecayWindow ELSE b)
      BY <3>1, ClampIs
    <3> HIDE DEF x, y
    <3> QED
      BY <3>1, <3>2
  <2> HIDE DEF x, y
  <2>2. 50 * x \in Nat /\ 50 * y \in Nat /\ 50 * x <= 50 * y /\ HalfLife \in Nat \ {0}
    BY <1>2, <2>1, ScoreAssumption
  <2>3. lost(x) \in Nat /\ lost(y) \in Nat /\ lost(x) <= lost(y)
    BY <2>2, QuotientMonotone
  <2>4. DecayFactor(a) = Max({50, 100 - lost(x)}) /\ DecayFactor(b) = Max({50, 100 - lost(y)})
    BY <1>2 DEF DecayFactor, x, y
  <2>5. ASSUME NEW z \in Nat
        PROVE  Max({50, 100 - z}) = IF 50 >= 100 - z THEN 50 ELSE 100 - z
    BY MaxOfTwo
  <2> DEFINE p == lost(x)
             q == lost(y)
  <2>6. p \in Nat /\ q \in Nat /\ p <= q
    BY <2>3
  <2>7. DecayFactor(a) = Max({50, 100 - p}) /\ DecayFactor(b) = Max({50, 100 - q})
    BY <2>4
  <2> HIDE DEF p, q
  <2>8. /\ DecayFactor(a) = IF 50 >= 100 - p THEN 50 ELSE 100 - p
        /\ DecayFactor(b) = IF 50 >= 100 - q THEN 50 ELSE 100 - q
    BY <2>5, <2>6, <2>7
  <2> QED
    BY <2>6, <2>8 DEF Factors
<1> QED
  BY <1>1, <1>2

Stat == [trades: Nat, wins: Nat]

LEMMA WinRateType == ASSUME NEW s \in Stat PROVE WinRate(s) \in Nat
<1>1. s.trades \in Nat /\ 100 * s.wins \in Nat /\ MinTrades \in Nat \ {0}
  BY ScoreAssumption DEF Stat
<1>2. CASE s.trades < MinTrades
  BY <1>2 DEF WinRate
<1>3. CASE ~(s.trades < MinTrades)
  <2>1. s.trades \in Nat \ {0}
    BY <1>1, <1>3
  <2>2. (100 * s.wins) \div s.trades \in Nat
    BY <1>1, <2>1, QuotientMonotone
  <2> QED
    BY <1>3, <2>2 DEF WinRate
<1> QED
  BY <1>2, <1>3

LEMMA CalibrationMonotone ==
    ASSUME NEW r \in Stat, NEW s \in Stat, WinRate(r) <= WinRate(s)
    PROVE  /\ CalibrationMultiplier(r) \in Factors /\ CalibrationMultiplier(s) \in Factors
           /\ CalibrationMultiplier(r) <= CalibrationMultiplier(s)
<1>1. CASE Alpha = 0
  BY <1>1 DEF CalibrationMultiplier, Factors
<1>2. CASE Alpha # 0
  <2> DEFINE p == Alpha * (WinRate(r) - 50)
             q == Alpha * (WinRate(s) - 50)
  <2>1. WinRate(r) \in Nat /\ WinRate(s) \in Nat /\ Alpha \in Nat
    BY WinRateType, ScoreAssumption
  <2>2. p \in Int /\ q \in Int /\ p <= q
    <3>1. Alpha * WinRate(r) \in Nat /\ Alpha * WinRate(r) <= Alpha * WinRate(s)
          /\ Alpha * WinRate(s) \in Nat
      BY <2>1, ProductMonotone
    <3>2. p = Alpha * WinRate(r) - Alpha * 50 /\ q = Alpha * WinRate(s) - Alpha * 50
      BY <2>1
    <3> QED
      BY <2>1, <3>1, <3>2
  <2>3. /\ CalibrationMultiplier(r) = Clamp(100 + p \div 100, 50, 150)
        /\ CalibrationMultiplier(s) = Clamp(100 + q \div 100, 50, 150)
    BY <1>2 DEF CalibrationMultiplier
  <2> HIDE DEF p, q
  <2> DEFINE x == 100 + p \div 100
             y == 100 + q \div 100
  <2>4. x \in Int /\ y \in Int /\ x <= y
    BY <2>2
  <2>5. CalibrationMultiplier(r) = Clamp(x, 50, 150) /\ CalibrationMultiplier(s) = Clamp(y, 50, 150)
    BY <2>3
  <2> HIDE DEF x, y
  <2>6. \A z \in Int : Clamp(z, 50, 150) = IF z < 50 THEN 50 ELSE IF z > 150 THEN 150 ELSE z
    BY ClampIs
  <2> QED
    BY <2>4, <2>5, <2>6 DEF Factors
<1> QED
  BY <1>1, <1>2

\* A greater score, a younger lead and a better record make a greater rank.
LEMMA RankProduct ==
    ASSUME NEW s \in Nat, NEW t \in Nat, s < t,
           NEW d \in Factors, NEW c \in Factors, d <= c,
           NEW m \in Factors, NEW n \in Factors, m <= n
    PROVE  (s * d) * m < (t * c) * n
<1>1. d \in Nat /\ c \in Nat /\ m \in Nat /\ n \in Nat /\ d >= 50 /\ m >= 50
  BY DEF Factors
<1>2. s * d \in Nat /\ t * d \in Nat /\ s * d < t * d
  <2>1. d * s \in Nat /\ d * t \in Nat /\ d * s + d <= d * t
    BY <1>1, ProductMonotone
  <2>2. d * s = s * d /\ d * t = t * d
    BY <1>1
  <2> QED
    BY <1>1, <2>1, <2>2
<1>3. t * c \in Nat /\ t * d <= t * c
  BY <1>1, ProductMonotone
<1> DEFINE x == s * d
           y == t * c
<1>4. x \in Nat /\ y \in Nat /\ x < y
  BY <1>2, <1>3
<1> HIDE DEF x, y
<1>5. x * m \in Nat /\ y * m \in Nat /\ x * m < y * m
  <2>1. m * x \in Nat /\ m * y \in Nat /\ m * x + m <= m * y
    BY <1>1, <1>4, ProductMonotone
  <2>2. m * x = x * m /\ m * y = y * m
    BY <1>1, <1>4
  <2> QED
    BY <1>1, <2>1, <2>2
<1>6. y * n \in Nat /\ y * m <= y * n
  BY <1>1, <1>4, ProductMonotone
<1>7. x * m < y * n
  BY <1>5, <1>6
<1> QED
  BY <1>7 DEF x, y

LEMMA ClampScore == ASSUME NEW x \in Scores PROVE Clamp(x, 0, 10000) = x
<1> DEFINE low == 0
           high == 10000
<1>1. low \in Int /\ high \in Int /\ x \in low..high
  BY SMT DEF Scores
<1> HIDE DEF low, high
<1>2. Clamp(x, low, high) = x
  BY <1>1, ClampIn
<1> QED
  BY <1>2, SMT DEF low, high

(* A row whose score is what it should be: the strategy's, or the blend    *)
(* that attach_lead_plans stored.                                          *)
Honest(row) ==
    /\ row.made \in Nat /\ row.confidence \in Scores
    /\ row.evidence \in Evidence \cup {<<>>}
    /\ row.evidence # <<>> => ScoredAs(row.evidence, row.confidence)

\* y shows more than x: the same kind of evidence, no less of any and more of some.
ShowsMore(x, y) ==
    \/ x.evidence = <<>> /\ y.evidence = <<>> /\ x.confidence < y.confidence
    \/ /\ x.evidence # <<>> /\ y.evidence # <<>> /\ x.evidence # y.evidence
       /\ \A k \in Base : x.evidence[k] <= y.evidence[k]

(* The rank of a lead that shows more, is no older and whose pattern has   *)
(* done no worse is greater, whatever score was stored with either.        *)
THEOREM RankStrict ==
    ASSUME NEW x, NEW y, Honest(x), Honest(y), ShowsMore(x, y), x.made <= y.made,
           NEW r \in Stat, NEW s \in Stat, WinRate(r) <= WinRate(s), NEW now \in Int
    PROVE  /\ RankKey(x, TRUE, r, now) \in Nat /\ RankKey(y, TRUE, s, now) \in Nat
           /\ RankKey(x, TRUE, r, now) < RankKey(y, TRUE, s, now)
<1> DEFINE sx == FreshReblend(x.evidence, x.confidence, now)
           sy == FreshReblend(y.evidence, y.confidence, now)
<1>1. sx \in Scores /\ sy \in Scores /\ sx < sy
  <2>1. CASE x.evidence = <<>> /\ y.evidence = <<>> /\ x.confidence < y.confidence
    <3>1. sx = x.confidence /\ sy = y.confidence
      BY <2>1 DEF FreshReblend
    <3> QED
      BY <2>1, <3>1 DEF Honest
  <2>2. CASE /\ x.evidence # <<>> /\ y.evidence # <<>> /\ x.evidence # y.evidence
             /\ \A k \in Base : x.evidence[k] <= y.evidence[k]
    <3>1. /\ x.evidence \in Evidence /\ y.evidence \in Evidence
          /\ ScoredAs(x.evidence, x.confidence) /\ ScoredAs(y.evidence, y.confidence)
      BY <2>2 DEF Honest
    <3> QED
      BY <2>2, <3>1, FreshStrict
  <2> QED
    BY <2>1, <2>2 DEF ShowsMore
<1> DEFINE dx == DecayFactor(now - x.made)
           dy == DecayFactor(now - y.made)
           cx == CalibrationMultiplier(r)
           cy == CalibrationMultiplier(s)
<1>2. dx \in Factors /\ dy \in Factors /\ dx <= dy
  <2>1. now - y.made \in Int /\ now - x.made \in Int /\ now - y.made <= now - x.made
    BY DEF Honest
  <2> QED
    BY <2>1, DecayMonotone
<1>3. cx \in Factors /\ cy \in Factors /\ cx <= cy
  BY CalibrationMonotone
<1>4. RankKey(x, TRUE, r, now) = (sx * dx) * cx /\ RankKey(y, TRUE, s, now) = (sy * dy) * cy
  BY <1>1, ClampScore DEF RankKey
<1> HIDE DEF sx, sy, dx, dy, cx, cy
<1>5. sx \in Nat /\ sy \in Nat /\ dx \in Nat /\ dy \in Nat /\ cx \in Nat /\ cy \in Nat
  <2>1. \A n \in Scores \cup Factors : n \in Nat
    BY SMT DEF Scores, Factors
  <2> QED
    BY <1>1, <1>2, <1>3, <2>1, Zenon
<1>6. (sx * dx) * cx < (sy * dy) * cy
  BY <1>1, <1>2, <1>3, <1>5, RankProduct
<1>7. (sx * dx) * cx \in Nat /\ (sy * dy) * cy \in Nat
  BY <1>5, ProductMonotone
<1> QED
  BY <1>4, <1>6, <1>7

-----------------------------------------------------------------------------
(* The contract of a plan *)

Walk(u, atm) == WalkCandidates(Strikes, atm, Direction[u])
Far(c, atm) == Max({c - atm, atm - c})

LEMMA FarIs ==
    ASSUME NEW c \in Int, NEW atm \in Int
    PROVE  /\ Far(c, atm) = IF c >= atm THEN c - atm ELSE atm - c
           /\ Far(c, atm) \in Nat
<1> DEFINE up == c - atm
           down == atm - c
<1>1. up \in Int /\ down \in Int /\ (up >= down <=> c >= atm) /\ down = -up
  OBVIOUS
<1>2. Far(c, atm) = Max({up, down})
  BY DEF Far
<1> HIDE DEF up, down
<1>3. Far(c, atm) = IF up >= down THEN up ELSE down
  BY <1>1, <1>2, MaxOfTwo
<1> QED
  BY <1>1, <1>3 DEF up, down

\* The walk goes through the contracts in reach, one step further at a time.
LEMMA WalkIs ==
    ASSUME NEW u, NEW atm \in 1..Strikes
    PROVE  /\ DOMAIN Walk(u, atm) \subseteq Nat /\ 1 \in DOMAIN Walk(u, atm)
           /\ Walk(u, atm)[1] = atm
           /\ \A d \in DOMAIN Walk(u, atm) :
                 Walk(u, atm)[d] \in Reach(u, atm) /\ Far(Walk(u, atm)[d], atm) = d - 1
           /\ \A c \in Reach(u, atm) :
                 Far(c, atm) + 1 \in DOMAIN Walk(u, atm) /\ Walk(u, atm)[Far(c, atm) + 1] = c
<1>1. /\ atm \in Nat /\ Strikes \in Nat /\ 1 <= atm /\ atm <= Strikes
      /\ MaxDepth \in Nat
  BY ChoiceAssumption, MarketAssumption
<1>2. CASE Direction[u] = "PUT"
  <2> DEFINE n == IF MaxDepth + 1 <= atm THEN MaxDepth + 1 ELSE atm
  <2>1. Min({MaxDepth + 1, atm}) = n
    BY <1>1, MinOfTwo
  <2>2. n \in Nat /\ 1 <= n /\ n <= atm /\ n <= MaxDepth + 1 /\ (n = MaxDepth + 1 \/ n = atm)
    BY <1>1
  <2> HIDE DEF n
  <2>3. Walk(u, atm) = [d \in 1..n |-> atm - (d - 1)]
    BY <1>2, <2>1 DEF Walk, WalkCandidates
  <2>4. \A c : c \in Reach(u, atm) <=> c \in 1..Strikes /\ c \in atm - MaxDepth..atm
    BY <1>2 DEF Reach
  <2>5. ASSUME NEW d \in 1..n
        PROVE  Walk(u, atm)[d] \in Reach(u, atm) /\ Far(Walk(u, atm)[d], atm) = d - 1
    <3>1. Walk(u, atm)[d] = atm - (d - 1) /\ d \in Nat /\ 1 <= d /\ d <= n
      BY <2>2, <2>3
    <3> DEFINE c == atm - (d - 1)
    <3>2. c \in 1..Strikes /\ c \in atm - MaxDepth..atm /\ c \in Int /\ c <= atm /\ atm - c = d - 1
      BY <1>1, <2>2, <3>1
    <3> HIDE DEF c
    <3>3. Far(c, atm) = d - 1
      <4>1. Far(c, atm) = IF c >= atm THEN c - atm ELSE atm - c
        BY <1>1, <3>2, FarIs
      <4>2. d \in Nat
        BY <3>1
      <4> QED
        BY <1>1, <3>2, <4>1, <4>2
    <3>4. c \in Reach(u, atm)
      BY <2>4, <3>2, Zenon
    <3>5. Walk(u, atm)[d] = c
      BY <3>1 DEF c
    <3> QED
      BY <3>3, <3>4, <3>5, Zenon
  <2>6. ASSUME NEW c \in Reach(u, atm)
        PROVE  Far(c, atm) + 1 \in DOMAIN Walk(u, atm) /\ Walk(u, atm)[Far(c, atm) + 1] = c
    <3>1. c \in Int /\ 1 <= c /\ c <= atm /\ atm - MaxDepth <= c
      BY <1>1, <2>4
    <3>2. Far(c, atm) = atm - c
      BY <1>1, <3>1, FarIs
    <3>3. (atm - c) + 1 \in 1..n /\ atm - (((atm - c) + 1) - 1) = c
      BY <1>1, <2>2, <3>1
    <3> QED
      BY <2>3, <3>2, <3>3
  <2>7. 1 \in 1..n /\ atm - (1 - 1) = atm /\ 1..n \subseteq Nat
    BY <1>1, <2>2
  <2> QED
    BY <2>3, <2>5, <2>6, <2>7
<1>3. CASE Direction[u] # "PUT"
  <2> DEFINE m == Strikes - atm + 1
             n == IF MaxDepth + 1 <= m THEN MaxDepth + 1 ELSE m
  <2>1. Min({MaxDepth + 1, m}) = n
    BY <1>1, MinOfTwo
  <2>2. n \in Nat /\ 1 <= n /\ n <= m /\ n <= MaxDepth + 1 /\ (n = MaxDepth + 1 \/ n = m)
    BY <1>1
  <2> HIDE DEF n
  <2>3. Walk(u, atm) = [d \in 1..n |-> atm + (d - 1)]
    BY <1>3, <2>1 DEF Walk, WalkCandidates
  <2>4. \A c : c \in Reach(u, atm) <=> c \in 1..Strikes /\ c \in atm..atm + MaxDepth
    BY <1>3 DEF Reach
  <2>5. ASSUME NEW d \in 1..n
        PROVE  Walk(u, atm)[d] \in Reach(u, atm) /\ Far(Walk(u, atm)[d], atm) = d - 1
    <3>1. Walk(u, atm)[d] = atm + (d - 1) /\ d \in Nat /\ 1 <= d /\ d <= n
      BY <2>2, <2>3
    <3> DEFINE c == atm + (d - 1)
    <3>2. c \in 1..Strikes /\ c \in atm..atm + MaxDepth /\ c \in Int /\ atm <= c /\ c - atm = d - 1
      BY <1>1, <2>2, <3>1
    <3> HIDE DEF c
    <3>3. Far(c, atm) = d - 1
      <4>1. Far(c, atm) = IF c >= atm THEN c - atm ELSE atm - c
        BY <1>1, <3>2, FarIs
      <4>2. d \in Nat
        BY <3>1
      <4> QED
        BY <1>1, <3>2, <4>1, <4>2
    <3>4. c \in Reach(u, atm)
      BY <2>4, <3>2, Zenon
    <3>5. Walk(u, atm)[d] = c
      BY <3>1 DEF c
    <3> QED
      BY <3>3, <3>4, <3>5, Zenon
  <2>6. ASSUME NEW c \in Reach(u, atm)
        PROVE  Far(c, atm) + 1 \in DOMAIN Walk(u, atm) /\ Walk(u, atm)[Far(c, atm) + 1] = c
    <3>1. c \in Int /\ c <= Strikes /\ atm <= c /\ c <= atm + MaxDepth
      BY <1>1, <2>4
    <3>2. Far(c, atm) = c - atm
      BY <1>1, <3>1, FarIs
    <3>3. (c - atm) + 1 \in 1..n /\ atm + (((c - atm) + 1) - 1) = c
      BY <1>1, <2>2, <3>1
    <3> QED
      BY <2>3, <3>2, <3>3
  <2>7. 1 \in 1..n /\ atm + (1 - 1) = atm /\ 1..n \subseteq Nat
    BY <1>1, <2>2
  <2> QED
    BY <2>3, <2>5, <2>6, <2>7
<1> QED
  BY <1>2, <1>3

Priced(u, atm, cost) == {c \in Reach(u, atm) : cost[c] # NoQuote}
Paid(u, atm, cost, margin) ==
    {c \in Priced(u, atm, cost) : margin # Unknown /\ cost[c] <= margin}

\* The contract chosen, told without the walk.
LEMMA Chosen ==
    ASSUME NEW u, NEW atm \in 1..Strikes, NEW cost, NEW margin
    PROVE  IF margin = Unknown \/ Priced(u, atm, cost) = {}
           THEN Contract(u, atm, cost, margin) = atm
           ELSE IF Paid(u, atm, cost, margin) = {} THEN Contract(u, atm, cost, margin) = Skip
           ELSE /\ Contract(u, atm, cost, margin) \in Paid(u, atm, cost, margin)
                /\ \A c \in Paid(u, atm, cost, margin) :
                      Far(Contract(u, atm, cost, margin), atm) <= Far(c, atm)
<1> DEFINE w == Walk(u, atm)
           quoted == {d \in DOMAIN w : cost[w[d]] # NoQuote}
           paid == {d \in quoted : cost[w[d]] <= margin}
           contract == Contract(u, atm, cost, margin)
<1>1. contract = IF margin = Unknown \/ quoted = {} THEN w[1]
                 ELSE IF paid = {} THEN Skip ELSE w[Min(paid)]
  BY DEF Contract, SelectAffordable, Walk
<1>2. /\ DOMAIN w \subseteq Nat /\ w[1] = atm
      /\ \A d \in DOMAIN w : w[d] \in Reach(u, atm) /\ Far(w[d], atm) = d - 1
      /\ \A c \in Reach(u, atm) : Far(c, atm) + 1 \in DOMAIN w /\ w[Far(c, atm) + 1] = c
  BY WalkIs
<1> HIDE DEF w, contract
<1>3. /\ \A c \in Priced(u, atm, cost) : Far(c, atm) + 1 \in quoted
      /\ \A d \in quoted : w[d] \in Priced(u, atm, cost)
  BY <1>2, Zenon DEF Priced
<1>4. quoted = {} <=> Priced(u, atm, cost) = {}
  BY <1>3, Zenon
<1>5. ASSUME margin # Unknown
      PROVE  /\ \A c \in Paid(u, atm, cost, margin) : Far(c, atm) + 1 \in paid
             /\ \A d \in paid : w[d] \in Paid(u, atm, cost, margin)
  BY <1>2, <1>5, Zenon DEF Paid, Priced
<1>6. CASE margin = Unknown \/ quoted = {}
  BY <1>1, <1>2, <1>4, <1>6 DEF contract
<1>7. CASE margin # Unknown /\ quoted # {} /\ paid = {}
  BY <1>1, <1>4, <1>5, <1>7, Zenon DEF contract
<1>8. CASE margin # Unknown /\ quoted # {} /\ paid # {}
  <2>1. paid \in SUBSET Nat /\ paid \subseteq DOMAIN w
    BY <1>2
  <2> HIDE DEF paid
  <2>2. Min(paid) \in paid /\ \A d \in paid : Min(paid) <= d
    BY <1>8, <2>1, LeastOf
  <2>3. contract = w[Min(paid)] /\ contract \in Paid(u, atm, cost, margin)
    BY <1>1, <1>5, <1>8, <2>2, Zenon
  <2>4. Far(contract, atm) = Min(paid) - 1
    BY <1>2, <2>1, <2>2, <2>3, Zenon
  <2>5. ASSUME NEW c \in Paid(u, atm, cost, margin) PROVE Far(contract, atm) <= Far(c, atm)
    <3>1. Far(c, atm) + 1 \in paid
      BY <1>5, <1>8
    <3>2. c \in Int /\ atm \in Int
      BY MarketAssumption DEF Paid, Priced, Reach
    <3>3. Far(c, atm) \in Nat
      BY <3>2, FarIs
    <3>4. Min(paid) <= Far(c, atm) + 1 /\ Min(paid) \in Nat
      BY <2>1, <2>2, <3>1
    <3> QED
      BY <2>4, <3>3, <3>4
  <2> QED
    BY <1>4, <1>8, <2>3, <2>5, Zenon DEF contract
<1> QED
  BY <1>6, <1>7, <1>8

\* A plan's contract fits whatever the chain, the quotes and the margin.
LEMMA FitsAll == ASSUME NEW margin \in Margins \cup {Unknown} PROVE Fits[margin]
<1> SUFFICES ASSUME NEW u \in Underlyings, NEW atm \in 1..Strikes, NEW cost \in Quotes
             PROVE  IF margin = Unknown \/ Priced(u, atm, cost) = {}
                    THEN Contract(u, atm, cost, margin) = atm
                    ELSE IF Paid(u, atm, cost, margin) = {}
                    THEN Contract(u, atm, cost, margin) = Skip
                    ELSE /\ Contract(u, atm, cost, margin) \in Paid(u, atm, cost, margin)
                         /\ \A c \in Paid(u, atm, cost, margin) :
                               Far(Contract(u, atm, cost, margin), atm) <= Far(c, atm)
  BY Zenon DEF Fits, Priced, Paid, Far
<1> QED
  BY Chosen, Zenon

-----------------------------------------------------------------------------
(* The inductive invariant.  A closing session that has flushed holds the  *)
(* write lock until it commits, so what it counted stays the count; a      *)
(* queued lead has the score of its evidence; an edit writes hours that    *)
(* were chosen.                                                            *)

HoursOK ==
    /\ hours \in Hours
    /\ edit \in [left: SUBSET {"start", "cutoff", "sqoff"}, new: HoursChoices \cup {None}]
    /\ edit.left # {} => edit.new \in HoursChoices
ClockOK ==
    /\ clock \in Times
    /\ day \in [special: Sessions, holiday: BOOLEAN, synced: BOOLEAN]
BoundsOK == runs \in 0..MaxRuns /\ upkeep \in 0..MaxUpkeep
RunOK == run \in [on: BOOLEAN, margin: Margins \cup {Unknown}]
LeadsOK == lead \in [Leads -> Row] /\ \A l \in Leads : Honest(lead[l])
BooksOK ==
    /\ trade \in [Leads -> {"none", "open"} \cup Closed]
    /\ past \in [Underlyings -> {"none"} \cup Closed]
    /\ stat \in [Underlyings -> Stat]
Ticking == [pc: {"off", "begun", "placing"}, now: Times \cup {0}, order: Seq(Leads),
            answered: SUBSET Underlyings, skipped: SUBSET Leads]
TickOK ==
    /\ tick \in Ticking
    /\ tick.skipped \subseteq Queued
    /\ tick.pc # "placing" => tick.order = <<>>
    /\ tick.order = <<>> => tick.skipped = {}
    /\ lock = Placer <=> tick.skipped # {}
    /\ lock \in Closers \cup {None, Placer}
Closing == [pc: {"idle", "loaded", "flushed"}, of: Leads \cup {0},
            result: {"open"} \cup Closed, stat: Stat]
Counted(c) ==
    /\ lock = c
    /\ closer[c].result \in Closed
    /\ closer[c].stat = Recount(closer[c].of, closer[c].result)
CloseOK ==
    /\ closer \in [Closers -> Closing]
    /\ \A c \in Closers : /\ closer[c].pc # "idle" => closer[c].of \in Leads
                          /\ closer[c].pc = "flushed" => Counted(c)

DayInv ==
    HoursOK /\ ClockOK /\ BoundsOK /\ RunOK /\ LeadsOK /\ BooksOK /\ TickOK /\ CloseOK
LEMMA BoolOne == \A b : One(b) \in 0..1
BY DEF One

\* A pattern has a natural number of trades and wins, the leads being finite.
LEMMA StatOfType == ASSUME NEW book, NEW u PROVE StatOf(book, u) \in Stat
<1> DEFINE counted(results) == {l \in Leads : Und[l] = u /\ lead[l].status = "placed"
                                                        /\ book[l] \in results}
<1>1. ASSUME NEW results
      PROVE  Cardinality(counted(results)) + One(past[u] \in results) \in Nat
  <2>1. counted(results) \subseteq Leads /\ IsFiniteSet(Leads)
    BY DayAssumption
  <2> HIDE DEF counted
  <2>2. IsFiniteSet(counted(results))
    BY <2>1, FS_Subset
  <2>3. Cardinality(counted(results)) \in Nat
    BY <2>2, FS_CardinalityType
  <2> QED
    BY <2>3, BoolOne
<1>2. StatOf(book, u) =
          [trades |-> Cardinality(counted(Closed)) + One(past[u] \in Closed),
           wins |-> Cardinality(counted({"won"})) + One(past[u] \in {"won"})]
  BY DEF StatOf
<1> HIDE DEF counted
<1> QED
  BY <1>1, <1>2 DEF Stat

LEMMA RecountType ==
    ASSUME BooksOK, NEW l \in Leads, NEW result
    PROVE  Recount(l, result) \in Stat
<1>1. stat[Und[l]] \in Stat
  BY DayAssumption DEF BooksOK
<1> QED
  BY <1>1, StatOfType DEF Recount

\* The count looks at the leads, the books and the record, at nothing else.
LEMMA RecountSame ==
    ASSUME UNCHANGED <<lead, trade, past, stat>>, NEW l, NEW result
    PROVE  Recount(l, result)' = Recount(l, result)
<1>1. \A book, u : StatOf(book, u)' = StatOf(book, u)
  BY DEF StatOf
<1> QED
  BY <1>1 DEF Recount

LEMMA QueuedFinite == Queued \subseteq Leads /\ IsFiniteSet(Queued) /\ Cardinality(Queued) \in Nat
<1>1. Queued \subseteq Leads /\ IsFiniteSet(Leads)
  BY DayAssumption DEF Queued
<1>2. IsFiniteSet(Queued)
  BY <1>1, FS_Subset
<1> QED
  BY <1>1, <1>2, FS_CardinalityType

LEMMA RankedType == ASSUME NEW answered PROVE Ranked(answered) \subseteq Seq(Leads)
<1>1. Ranked(answered) \subseteq [1..Cardinality(Queued) -> Leads] /\ Cardinality(Queued) \in Nat
  BY QueuedFinite DEF Ranked
<1> QED
  BY <1>1

-----------------------------------------------------------------------------
(* What an action leaves alone stays as it was. *)

LEMMA HoursSame == ASSUME HoursOK, UNCHANGED <<hours, edit>> PROVE HoursOK'
BY DEF HoursOK
LEMMA ClockSame == ASSUME ClockOK, UNCHANGED <<clock, day>> PROVE ClockOK'
BY DEF ClockOK
LEMMA BoundsSame == ASSUME BoundsOK, UNCHANGED <<runs, upkeep>> PROVE BoundsOK'
BY DEF BoundsOK
LEMMA RunSame == ASSUME RunOK, UNCHANGED run PROVE RunOK'
BY DEF RunOK
LEMMA LeadsSame == ASSUME LeadsOK, UNCHANGED lead PROVE LeadsOK'
BY DEF LeadsOK
LEMMA BooksSame == ASSUME BooksOK, UNCHANGED <<trade, past, stat>> PROVE BooksOK'
BY DEF BooksOK
LEMMA TickSame == ASSUME TickOK, UNCHANGED <<tick, lead, lock>> PROVE TickOK'
BY DEF TickOK, Queued
LEMMA CloseSame ==
    ASSUME CloseOK, UNCHANGED <<lead, trade, past, stat, closer, lock>>
    PROVE  CloseOK'
<1>1. ASSUME NEW c \in Closers, closer[c].pc = "flushed" PROVE Counted(c)'
  BY <1>1, RecountSame DEF CloseOK, Counted
<1> QED
  BY <1>1 DEF CloseOK

\* While the lock is the placer's or nobody's, no closing session has flushed.
LEMMA NoneFlushed ==
    ASSUME CloseOK, lock \in {None, Placer}
    PROVE  \A c \in Closers : closer[c].pc # "flushed"
BY DayAssumption DEF CloseOK, Counted
LEMMA CloseUnlocked ==
    ASSUME CloseOK, lock \in {None, Placer}, UNCHANGED closer
    PROVE  CloseOK'
BY NoneFlushed DEF CloseOK
\* While it is nobody's, no lead is skipped and not committed.
LEMMA TickUnlocked ==
    ASSUME TickOK, lock = None, UNCHANGED <<tick, lock>>
    PROVE  TickOK'
<1>1. tick.skipped = {}
  BY DayAssumption DEF TickOK
<1> QED
  BY <1>1 DEF TickOK
LEMMA BlankHonest ==
    ASSUME NEW s
    PROVE  Honest([NoLead EXCEPT !.status = s])
BY SMT DEF Honest, NoLead, Scores
LEMMA RowIs == Row = [status: {"none", "queued", "skipped", "placed", "gone"}, made: Times \cup {0},
                      evidence: Evidence \cup {<<>>}, confidence: Scores]
BY SMT DEF Row, Scores

LEMMA BlankRow ==
    ASSUME NEW s \in {"none", "queued", "skipped", "placed", "gone"}
    PROVE  [NoLead EXCEPT !.status = s] \in Row /\ Honest([NoLead EXCEPT !.status = s])
<1>1. 0 \in Times \cup {0} /\ 0 \in Scores /\ <<>> \in Evidence \cup {<<>>}
  BY SMT DEF Scores
<1> DEFINE none == <<>>
<1>2. [NoLead EXCEPT !.status = s] =
          [status |-> s, made |-> 0, evidence |-> none, confidence |-> 0]
  BY DEF NoLead
<1>3. none \in Evidence \cup {<<>>}
  OBVIOUS
<1> HIDE DEF none
<1>4. [status |-> s, made |-> 0, evidence |-> none, confidence |-> 0] \in
          [status: {"none", "queued", "skipped", "placed", "gone"}, made: Times \cup {0},
           evidence: Evidence \cup {<<>>}, confidence: Scores]
  BY <1>1, <1>3
<1> QED
  BY <1>2, <1>4, RowIs, BlankHonest

-----------------------------------------------------------------------------
(* It holds at first and every action keeps it. *)

LEMMA TimesAre == Times \in SUBSET Nat /\ Times # {}
BY DayAssumption, SMT

LEMMA DayInit == Init => DayInv
<1> SUFFICES ASSUME Init PROVE DayInv
  OBVIOUS
<1> USE DEF Init
<1>1. HoursOK
  BY SettingsAssumption DEF HoursOK, NoEdit
<1>2. ClockOK
  <2>1. Min(Times) \in Times
    BY TimesAre, LeastOf
  <2> QED
    BY <2>1 DEF ClockOK
<1>3. BoundsOK
  BY DayAssumption DEF BoundsOK
<1>4. RunOK
  BY DEF RunOK, Off
<1>5. LeadsOK
  <2>1. NoLead = [NoLead EXCEPT !.status = "none"]
    BY DEF NoLead
  <2> QED
    BY <2>1, BlankRow DEF LeadsOK
<1>6. BooksOK
  BY BoolOne, SettingsAssumption DEF BooksOK, Stat, Closed
<1>7. TickOK
  BY DayAssumption, EmptySeq DEF TickOK, Ticking, NoTick
<1>8. CloseOK
  BY DEF CloseOK, Closing, NoClose, NoStat, Stat
<1> QED
  BY <1>1, <1>2, <1>3, <1>4, <1>5, <1>6, <1>7, <1>8 DEF DayInv

LEMMA AdvanceKeeps == ASSUME DayInv, Advance PROVE DayInv'
<1>1. /\ HoursOK' /\ BoundsOK' /\ RunOK' /\ LeadsOK' /\ BooksOK' /\ TickOK' /\ CloseOK'
  BY HoursSame, BoundsSame, RunSame, LeadsSame, BooksSame, TickSame, CloseSame DEF DayInv, Advance
<1>2. clock' \in Times
  <2> DEFINE later == {t \in Times : t > clock}
  <2>1. later \in SUBSET Nat /\ later # {}
    BY TimesAre, Zenon DEF Advance
  <2> HIDE DEF later
  <2>2. Min(later) \in later
    BY <2>1, LeastOf
  <2> QED
    BY <2>2 DEF Advance, later
<1>3. ClockOK'
  BY <1>2 DEF ClockOK, DayInv, Advance
<1> QED
  BY <1>1, <1>3 DEF DayInv

LEMMA EditKeeps == ASSUME DayInv, EditBegin \/ EditKey \/ EditFails PROVE DayInv'
<1> USE DEF DayInv, EditBegin, EditKey, EditFails
<1>1. ClockOK' /\ RunOK' /\ LeadsOK' /\ BooksOK' /\ TickOK' /\ CloseOK'
  BY ClockSame, RunSame, LeadsSame, BooksSame, TickSame, CloseSame
<1>2. BoundsOK'
  BY DayAssumption DEF BoundsOK
<1>3. HoursOK'
  <2>1. CASE EditBegin
    BY <2>1 DEF HoursOK
  <2>2. CASE EditKey
    <3>1. PICK k \in edit.left :
             /\ hours' = [hours EXCEPT ![k] = edit.new[k]]
             /\ edit' = IF edit.left = {k} THEN NoEdit ELSE [edit EXCEPT !.left = @ \ {k}]
      BY <2>2
    <3>2. edit.new \in Hours /\ hours \in Hours /\ k \in {"start", "cutoff", "sqoff"}
      BY SettingsAssumption DEF HoursOK
    <3>3. hours' \in Hours
      BY <3>1, <3>2 DEF Hours
    <3>4. edit' \in [left: SUBSET {"start", "cutoff", "sqoff"}, new: HoursChoices \cup {None}]
      BY <3>1 DEF HoursOK, NoEdit
    <3>5. edit'.left # {} => edit'.new \in HoursChoices
      BY <3>1 DEF HoursOK, NoEdit
    <3> QED
      BY <3>3, <3>4, <3>5 DEF HoursOK
  <2>3. CASE EditFails
    BY <2>3 DEF HoursOK, NoEdit
  <2> QED
    BY <2>1, <2>2, <2>3
<1> QED
  BY <1>1, <1>2, <1>3

LEMMA RunBeginKeeps == ASSUME DayInv, NEW manual \in BOOLEAN, RunBegin(manual) PROVE DayInv'
<1> USE DEF DayInv, RunBegin
<1>1. HoursOK' /\ BooksOK'
  BY HoursSame, BooksSame
<1>2. ClockOK'
  BY DEF ClockOK, MaybeSynced
<1>3. BoundsOK'
  BY DayAssumption, BoolOne DEF BoundsOK
<1>4. RunOK'
  <2>1. run' = run \/ \E margin \in Margins \cup {Unknown} : run' = [on |-> TRUE, margin |-> margin]
    BY Zenon
  <2>2. \A margin \in Margins \cup {Unknown} :
           [on |-> TRUE, margin |-> margin] \in [on: BOOLEAN, margin: Margins \cup {Unknown}]
    OBVIOUS
  <2>3. run \in [on: BOOLEAN, margin: Margins \cup {Unknown}]
    BY DEF RunOK
  <2>4. run' \in [on: BOOLEAN, margin: Margins \cup {Unknown}]
    BY <2>1, <2>2, <2>3, Zenon
  <2> QED
    BY <2>4 DEF RunOK
<1>5. CASE lead' = lead
  <2>1. LeadsOK' /\ TickOK' /\ CloseOK'
    BY <1>5, LeadsSame, TickSame, CloseSame
  <2> QED
    BY <1>1, <1>2, <1>3, <1>4, <2>1
<1>6. CASE lead' # lead
  <2>1. lock = None /\ lead' = [l \in Leads |-> IF l \in Queued THEN Gone ELSE lead[l]]
    BY <1>6 DEF Cleared
  <2>2. LeadsOK'
    <3>1. Gone \in Row /\ Honest(Gone)
      BY BlankRow DEF Gone
    <3> QED
      BY <2>1, <3>1 DEF LeadsOK
  <2>3. TickOK' /\ CloseOK'
    BY <2>1, TickUnlocked, CloseUnlocked
  <2> QED
    BY <1>1, <1>2, <1>3, <1>4, <2>2, <2>3
<1> QED
  BY <1>5, <1>6

\* A new lead has the score of its evidence, however its plan came out.
LEMMA NewLeadRow ==
    ASSUME ClockOK, NEW u \in Underlyings, NEW c \in Candidates[u], NEW plan
    PROVE  NewLead(c, plan) \in Row /\ Honest(NewLead(c, plan))
<1> DEFINE row == [status |-> "queued", made |-> clock, evidence |-> c.evidence,
                   confidence |-> c.confidence]
           planned == [row EXCEPT !.confidence = IF c.evidence = <<>> THEN @ ELSE Reblend(c.evidence)]
<1>1. /\ c \in [evidence: Evidence \cup {<<>>}, confidence: Scores]
      /\ c.evidence # <<>> => c.confidence = Composite(c.evidence, WeightMap({}))
  BY CandidatesAssumption, SMT DEF Scores
<1>2. clock \in Times /\ clock \in Nat
  BY DayAssumption DEF ClockOK
<1>3. c.evidence # <<>> => Reblend(c.evidence) \in Scores
  BY <1>1, StoredBounds DEF ScoredAs
<1>4. row \in Row /\ Honest(row)
  BY <1>1, <1>2, RowIs DEF Honest, ScoredAs
<1>5. planned \in Row /\ Honest(planned)
  BY <1>1, <1>2, <1>3, RowIs DEF Honest, ScoredAs
<1>6. \/ NewLead(c, plan) = row
      \/ NewLead(c, plan) = [NoLead EXCEPT !.status = "skipped"]
      \/ NewLead(c, plan) = planned
  BY DEF NewLead, Reblended
<1> HIDE DEF row, planned
<1> QED
  BY <1>4, <1>5, <1>6, BlankRow

LEMMA RunPersistKeeps == ASSUME DayInv, NEW u \in Underlyings, RunPersist(u) PROVE DayInv'
<1> USE DEF DayInv, RunPersist
<1>1. HoursOK' /\ ClockOK' /\ BoundsOK' /\ RunOK' /\ BooksOK' /\ TickOK' /\ CloseOK'
  BY HoursSame, ClockSame, BoundsSame, RunSame, BooksSame, TickUnlocked, CloseUnlocked
<1>2. PICK c \in Candidates[u], plan \in Plans(u) :
         lead' = [lead EXCEPT ![Min(Fresh(u))] = NewLead(c, plan)]
  OBVIOUS
<1>3. NewLead(c, plan) \in Row /\ Honest(NewLead(c, plan))
  BY NewLeadRow
<1>4. LeadsOK'
  BY <1>2, <1>3 DEF LeadsOK
<1> QED
  BY <1>1, <1>4

LEMMA RunEndKeeps == ASSUME DayInv, RunEnd PROVE DayInv'
<1> USE DEF DayInv, RunEnd
<1>1. /\ HoursOK' /\ ClockOK' /\ BoundsOK' /\ LeadsOK' /\ BooksOK' /\ TickOK' /\ CloseOK'
  BY HoursSame, ClockSame, BoundsSame, LeadsSame, BooksSame, TickSame, CloseSame
<1>2. RunOK'
  BY DEF RunOK, Off
<1> QED
  BY <1>1, <1>2

LEMMA NowIs == TickOK => tick.now \in Nat
<1>1. TickOK => tick \in Ticking
  BY DEF TickOK
<1>2. \A t \in Ticking : t.now \in Times \cup {0}
  BY DEF Ticking
<1>3. \A n \in Times \cup {0} : n \in Nat
  BY TimesAre
<1> QED
  BY <1>1, <1>2, <1>3

LEMMA TickBeginKeeps == ASSUME DayInv, TickBegin PROVE DayInv'
<1> USE DEF DayInv, TickBegin
<1>1. /\ HoursOK' /\ ClockOK' /\ BoundsOK' /\ RunOK' /\ LeadsOK' /\ BooksOK' /\ CloseOK'
  BY HoursSame, ClockSame, BoundsSame, RunSame, LeadsSame, BooksSame, CloseSame
<1>2. lock # Placer /\ lock' = lock
  BY DEF TickOK
<1>3. tick' = [pc |-> "begun", now |-> clock, order |-> <<>>, answered |-> {}, skipped |-> {}]
  BY DEF Begun
<1>4. TickOK'
  BY <1>2, <1>3, EmptySeq DEF TickOK, Ticking, ClockOK
<1> QED
  BY <1>1, <1>4

LEMMA TickRankKeeps == ASSUME DayInv, TickRank PROVE DayInv'
<1> USE DEF DayInv, TickRank
<1>1. /\ HoursOK' /\ ClockOK' /\ BoundsOK' /\ RunOK' /\ LeadsOK' /\ BooksOK' /\ CloseOK'
  BY HoursSame, ClockSame, BoundsSame, RunSame, LeadsSame, BooksSame, CloseSame
<1>2. lock # Placer /\ lock' = lock
  BY DEF TickOK
<1>3. CASE tick' = NoTick
  BY <1>1, <1>2, <1>3, EmptySeq DEF TickOK, Ticking, NoTick
<1>4. CASE Queued # {}
  <2>1. PICK answered \in Answers : \E order \in Ranked(answered) : tick' = Placing(order, answered, {})
    BY <1>4, Zenon
  <2>2. PICK order \in Ranked(answered) : tick' = Placing(order, answered, {})
    BY <2>1, Zenon
  <2>3. order \in Seq(Leads)
    BY RankedType
  <2>4. answered \in SUBSET Underlyings
    BY DayAssumption, QueuedFinite DEF Answers
  <2>5. TickOK'
    BY <1>2, <2>2, <2>3, <2>4 DEF TickOK, Ticking, Placing
  <2> QED
    BY <1>1, <2>5
<1> QED
  BY <1>3, <1>4

\* The leads that are left for a tick.
LEMMA RestType ==
    ASSUME TickOK, tick.order # <<>>, NEW skipped \in SUBSET Leads, Rest(skipped)
    PROVE  /\ Head(tick.order) \in Leads
           /\ tick' \in Ticking /\ (tick'.pc # "placing" => tick'.order = <<>>)
           /\ Len(tick.order) = 1 => tick'.order = <<>> /\ tick'.skipped = {}
           /\ Len(tick.order) # 1 => tick'.order # <<>> /\ tick'.skipped = skipped
<1>1. tick.order \in Seq(Leads)
  BY DEF TickOK, Ticking
<1>2. /\ Head(tick.order) \in Leads /\ Tail(tick.order) \in Seq(Leads)
      /\ Len(tick.order) # 1 => Tail(tick.order) # <<>>
  <2> DEFINE order == tick.order
  <2>1. order \in Seq(Leads) /\ order # <<>>
    BY <1>1
  <2> HIDE DEF order
  <2>2. /\ Head(order) \in Leads /\ Tail(order) \in Seq(Leads)
        /\ Len(order) \in Nat /\ Len(order) # 0 /\ Len(Tail(order)) = Len(order) - 1
    BY <2>1, HeadTailProperties, LenProperties, EmptySeq
  <2>3. Len(order) # 1 => Len(Tail(order)) # 0
    BY <2>2
  <2>4. Len(<<>>) = 0
    BY EmptySeq
  <2> QED
    BY <2>2, <2>3, <2>4 DEF order
<1>3. <<>> \in Seq(Leads)
  BY EmptySeq
<1> QED
  BY <1>1, <1>2, <1>3 DEF Rest, NoTick, Placing, TickOK, Ticking

LEMMA DecideKeeps ==
    ASSUME LeadsOK, NEW skipped, NEW placed, Decide(skipped, placed)
    PROVE  LeadsOK'
<1>1. \A l \in Leads : \/ lead'[l] = [NoLead EXCEPT !.status = "skipped"]
                       \/ lead'[l] = [NoLead EXCEPT !.status = "placed"]
                       \/ lead'[l] = lead[l]
  BY DEF Decide
<1>2. lead' = [l \in Leads |-> lead'[l]]
  BY DEF Decide
<1>3. /\ [NoLead EXCEPT !.status = "skipped"] \in Row /\ Honest([NoLead EXCEPT !.status = "skipped"])
      /\ [NoLead EXCEPT !.status = "placed"] \in Row /\ Honest([NoLead EXCEPT !.status = "placed"])
  BY BlankRow
<1>4. \A l \in Leads : lead'[l] \in Row /\ Honest(lead'[l])
  BY <1>1, <1>3, Zenon DEF LeadsOK
<1> QED
  BY <1>2, <1>4, Zenon DEF LeadsOK

LEMMA GiveUpKeeps ==
    ASSUME DayInv, lock \in {None, Placer}, GiveUp, UNCHANGED closer
    PROVE  LeadsOK' /\ TickOK' /\ CloseOK' /\ UNCHANGED trade
<1> USE DEF DayInv, GiveUp
<1>1. LeadsOK'
  BY LeadsSame
<1>2. TickOK'
  BY DayAssumption, EmptySeq DEF TickOK, Ticking, NoTick
<1>3. CloseOK'
  BY CloseUnlocked
<1> QED
  BY <1>1, <1>2, <1>3

LEMMA TickNextKeeps == ASSUME DayInv, TickNext PROVE DayInv'
<1> USE DEF DayInv
<1>1. /\ UNCHANGED <<clock, hours, edit, day, past, stat, run, closer, runs, upkeep>>
      /\ tick.order # <<>> /\ lock \in {None, Placer}
      /\ TickSkip(Head(tick.order)) \/ TickPlace(Head(tick.order)) \/ TickStale(Head(tick.order))
  BY DEF TickNext
<1>2. HoursOK' /\ ClockOK' /\ BoundsOK' /\ RunOK' /\ CloseOK'
  BY <1>1, HoursSame, ClockSame, BoundsSame, RunSame, CloseUnlocked
<1> DEFINE l == Head(tick.order)
<1>3. l \in Leads
  BY <1>1, HeadTailProperties DEF TickOK, Ticking
<1>4. CASE TickSkip(l)
  <2>1. l \in Queued /\ Rest(tick.skipped \cup {l}) /\ trade' = trade
    BY <1>4 DEF TickSkip
  <2>2. tick.skipped \cup {l} \in SUBSET Leads
    BY <1>3 DEF TickOK, Ticking
  <2>3. /\ tick' \in Ticking /\ (tick'.pc # "placing" => tick'.order = <<>>)
        /\ Len(tick.order) = 1 => tick'.order = <<>> /\ tick'.skipped = {}
        /\ Len(tick.order) # 1 => tick'.order # <<>> /\ tick'.skipped = tick.skipped \cup {l}
    BY <1>1, <2>1, <2>2, RestType
  <2>4. CASE Len(tick.order) = 1
    <3>1. lock' = None /\ Decide(tick.skipped \cup {l}, {})
      BY <1>4, <2>4 DEF TickSkip
    <3>2. LeadsOK'
      BY <3>1, DecideKeeps
    <3>3. TickOK'
      BY <2>3, <2>4, <3>1, DayAssumption DEF TickOK
    <3> QED
      BY <1>1, <1>2, <2>1, <3>2, <3>3, BooksSame
  <2>5. CASE Len(tick.order) # 1
    <3>1. lock' = Placer /\ lead' = lead
      BY <1>4, <2>5 DEF TickSkip
    <3>2. Queued' = Queued
      BY <3>1 DEF Queued
    <3>3. TickOK'
      BY <2>1, <2>3, <2>5, <3>1, <3>2 DEF TickOK
    <3> QED
      BY <1>1, <1>2, <2>1, <3>1, <3>3, BooksSame, LeadsSame
  <2> QED
    BY <2>4, <2>5
<1>5. CASE TickPlace(l)
  <2>1. /\ Rest({}) /\ Decide(tick.skipped, {l}) /\ lock' = None
        /\ trade' = [trade EXCEPT ![l] = "open"]
    BY <1>5 DEF TickPlace
  <2>2. /\ tick' \in Ticking /\ (tick'.pc # "placing" => tick'.order = <<>>)
        /\ tick'.skipped = {}
    BY <1>1, <2>1, RestType
  <2>3. TickOK'
    BY <2>1, <2>2, DayAssumption DEF TickOK
  <2>4. LeadsOK'
    BY <2>1, DecideKeeps
  <2>5. BooksOK'
    BY <1>1, <2>1 DEF BooksOK
  <2> QED
    BY <1>2, <2>3, <2>4, <2>5
<1>6. CASE TickStale(l)
  <2>1. LeadsOK' /\ TickOK' /\ UNCHANGED trade
    BY <1>1, <1>6, GiveUpKeeps DEF TickStale
  <2> QED
    BY <1>1, <1>2, <2>1, BooksSame
<1> QED
  BY <1>1, <1>4, <1>5, <1>6

LEMMA TickFailsKeeps == ASSUME DayInv, TickFails PROVE DayInv'
<1> USE DEF DayInv, TickFails
<1>1. HoursOK' /\ ClockOK' /\ BoundsOK' /\ RunOK'
  BY HoursSame, ClockSame, BoundsSame, RunSame
<1>2. /\ tick' = NoTick /\ lock' = (IF lock = Placer THEN None ELSE lock)
      /\ UNCHANGED <<lead, trade, past, stat, closer>>
  BY DEF GiveUp
<1>3. LeadsOK' /\ BooksOK'
  BY <1>2, LeadsSame, BooksSame
<1>4. TickOK'
  BY <1>2, DayAssumption, EmptySeq DEF TickOK, Ticking, NoTick
<1>5. CloseOK'
  <2>1. CASE lock = Placer
    BY <1>2, <2>1, CloseUnlocked
  <2>2. CASE lock # Placer
    BY <1>2, <2>2, CloseSame
  <2> QED
    BY <2>1, <2>2
<1> QED
  BY <1>1, <1>3, <1>4, <1>5

LEMMA CloseKeeps ==
    ASSUME DayInv, NEW c \in Closers,
           CloseFlush(c) \/ CloseCommit(c) \/ CloseFails(c) \/ (\E l \in Leads : CloseLoad(c, l))
    PROVE  DayInv'
<1> USE DEF DayInv
<1>1. UNCHANGED <<clock, hours, edit, day, lead, past, run, tick, runs, upkeep>>
  BY DEF CloseFlush, CloseCommit, CloseFails, CloseLoad
<1>2. HoursOK' /\ ClockOK' /\ BoundsOK' /\ RunOK' /\ LeadsOK'
  BY <1>1, HoursSame, ClockSame, BoundsSame, RunSame, LeadsSame
<1>3. c # None /\ c # Placer
  BY DayAssumption
<1>4. Queued' = Queued
  BY <1>1 DEF Queued
<1>5. ASSUME NEW l \in Leads, CloseLoad(c, l) PROVE DayInv'
  <2>1. /\ UNCHANGED <<trade, stat, lock>>
        /\ closer[c].pc = "idle"
        /\ closer' = [closer EXCEPT ![c] = [NoClose EXCEPT !.pc = "loaded", !.of = l]]
    BY <1>5 DEF CloseLoad
  <2>2. closer' \in [Closers -> Closing] /\ closer'[c].pc = "loaded" /\ closer'[c].of = l
        /\ \A d \in Closers \ {c} : closer'[d] = closer[d]
    BY <2>1 DEF CloseOK, Closing, NoClose, NoStat, Stat
  <2>3. ASSUME NEW d \in Closers, closer'[d].pc = "flushed" PROVE Counted(d)'
    <3>1. d # c /\ closer'[d] = closer[d]
      BY <2>2, <2>3
    <3>2. Counted(d)
      BY <2>3, <3>1 DEF CloseOK
    <3> QED
      BY <1>1, <2>1, <3>1, <3>2, RecountSame DEF Counted
  <2>4. CloseOK'
    BY <2>2, <2>3 DEF CloseOK
  <2> QED
    BY <1>1, <1>2, <2>1, <2>4, BooksSame, TickSame
<1>6. CASE CloseFlush(c)
  <2>1. UNCHANGED <<trade, stat>> /\ closer[c].pc = "loaded" /\ lock = None /\ lock' = c
    BY <1>6 DEF CloseFlush
  <2>2. PICK result \in Closed :
           closer' = [closer EXCEPT ![c].pc = "flushed", ![c].result = result,
                                    ![c].stat = Recount(closer[c].of, result)]
    BY <1>6 DEF CloseFlush
  <2>3. closer[c].of \in Leads /\ closer \in [Closers -> Closing]
    BY <2>1 DEF CloseOK
  <2>4. Recount(closer[c].of, result) \in Stat
    BY <2>3, RecountType
  <2>5. /\ closer' \in [Closers -> Closing]
        /\ closer'[c].of = closer[c].of /\ closer'[c].result = result
        /\ closer'[c].stat = Recount(closer[c].of, result)
        /\ \A d \in Closers \ {c} : closer'[d] = closer[d]
    BY <2>2, <2>3, <2>4 DEF Closing
  <2>6. PICK l \in Leads : l = closer[c].of
    BY <2>3
  <2>7. Counted(c)'
    <3>1. closer'[c].of = l /\ closer'[c].result = result /\ closer'[c].stat = Recount(l, result)
      BY <2>5, <2>6
    <3>2. Recount(l, result)' = Recount(l, result)
      BY <1>1, <2>1, RecountSame
    <3>3. (closer[c].stat = Recount(closer[c].of, closer[c].result))'
      BY <3>1, <3>2 DEF Recount, StatOf
    <3> QED
      BY <2>1, <3>1, <3>3 DEF Counted
  <2>8. \A d \in Closers \ {c} : closer'[d].pc # "flushed"
    BY <2>1, <2>5, NoneFlushed
  <2>9. CloseOK'
    BY <2>3, <2>5, <2>7, <2>8 DEF CloseOK
  <2>10. TickOK'
    BY <1>1, <1>3, <1>4, <2>1, DayAssumption DEF TickOK
  <2> QED
    BY <1>1, <1>2, <2>1, <2>9, <2>10, BooksSame
<1>7. CASE CloseCommit(c)
  <2>1. /\ closer[c].pc = "flushed" /\ lock' = None
        /\ trade' = [trade EXCEPT ![closer[c].of] = closer[c].result]
        /\ stat' = [stat EXCEPT ![Und[closer[c].of]] = closer[c].stat]
        /\ closer' = [closer EXCEPT ![c] = NoClose]
    BY <1>7 DEF CloseCommit
  <2>2. /\ closer[c].of \in Leads /\ closer[c].result \in Closed /\ lock = c
        /\ closer[c].stat \in Stat
    BY <2>1 DEF CloseOK, Counted, Closing
  <2>3. BooksOK'
    BY <1>1, <2>1, <2>2 DEF BooksOK
  <2>4. TickOK'
    BY <1>1, <1>3, <1>4, <2>1, <2>2, DayAssumption DEF TickOK
  <2>5. closer' \in [Closers -> Closing] /\ closer'[c].pc = "idle"
        /\ \A d \in Closers \ {c} : closer'[d] = closer[d]
    BY <2>1 DEF CloseOK, Closing, NoClose, NoStat, Stat
  <2>6. \A d \in Closers \ {c} : closer[d].pc # "flushed"
    BY <2>2 DEF CloseOK, Counted
  <2>7. CloseOK'
    BY <2>5, <2>6 DEF CloseOK
  <2> QED
    BY <1>2, <2>3, <2>4, <2>7
<1>8. CASE CloseFails(c)
  <2>1. /\ closer' = [closer EXCEPT ![c] = NoClose]
        /\ lock' = IF lock = c THEN None ELSE lock
        /\ UNCHANGED <<trade, stat>>
    BY <1>8 DEF CloseFails
  <2>2. closer' \in [Closers -> Closing] /\ closer'[c].pc = "idle"
        /\ \A d \in Closers \ {c} : closer'[d] = closer[d]
    BY <2>1 DEF CloseOK, Closing, NoClose, NoStat, Stat
  <2>3. ASSUME NEW d \in Closers, closer'[d].pc = "flushed" PROVE Counted(d)'
    <3>1. d # c /\ closer'[d] = closer[d]
      BY <2>2, <2>3
    <3>2. Counted(d)
      BY <2>3, <3>1 DEF CloseOK
    <3>3. lock = d /\ lock' = d
      BY <2>1, <3>1, <3>2 DEF Counted
    <3> QED
      BY <1>1, <2>1, <3>1, <3>2, <3>3, RecountSame DEF Counted
  <2>4. CloseOK'
    BY <2>2, <2>3 DEF CloseOK
  <2>5. TickOK'
    BY <1>1, <1>3, <1>4, <2>1, DayAssumption DEF TickOK
  <2> QED
    BY <1>1, <1>2, <2>1, <2>4, <2>5, BooksSame
<1> QED
  BY <1>5, <1>6, <1>7, <1>8

LEMMA CleanupKeeps == ASSUME DayInv, NEW u \in Underlyings, Cleanup(u) PROVE DayInv'
<1> USE DEF DayInv, Cleanup
<1>1. /\ HoursOK' /\ ClockOK' /\ RunOK' /\ LeadsOK' /\ TickOK' /\ CloseOK'
  BY HoursSame, ClockSame, RunSame, LeadsSame, TickSame, CloseUnlocked
<1>2. BoundsOK'
  BY DayAssumption DEF BoundsOK
<1>3. BooksOK'
  BY DEF BooksOK
<1> QED
  BY <1>1, <1>2, <1>3

LEMMA DeleteKeeps == ASSUME DayInv, DeleteAllLeads PROVE DayInv'
<1> USE DEF DayInv, DeleteAllLeads
<1>1. /\ HoursOK' /\ ClockOK' /\ RunOK' /\ TickOK' /\ CloseOK'
  BY HoursSame, ClockSame, RunSame, TickUnlocked, CloseUnlocked
<1>2. BoundsOK'
  BY DayAssumption DEF BoundsOK
<1>3. BooksOK'
  BY DEF BooksOK
<1>4. LeadsOK'
  <2>1. Gone \in Row /\ Honest(Gone)
    BY BlankRow DEF Gone
  <2>2. NoLead = [NoLead EXCEPT !.status = "none"]
    BY DEF NoLead
  <2>3. NoLead \in Row /\ Honest(NoLead)
    BY <2>2, BlankRow
  <2> QED
    BY <2>1, <2>3 DEF LeadsOK
<1> QED
  BY <1>1, <1>2, <1>3, <1>4

LEMMA DayStep == DayInv /\ [Next]_vars => DayInv'
<1> SUFFICES ASSUME DayInv, [Next]_vars PROVE DayInv'
  OBVIOUS
<1>1. CASE UNCHANGED vars
  BY <1>1, HoursSame, ClockSame, BoundsSame, RunSame, LeadsSame, BooksSame, TickSame, CloseSame
  DEF vars, DayInv
<1>2. ASSUME NEW u \in Underlyings, RunPersist(u) \/ Cleanup(u) PROVE DayInv'
  BY <1>2, RunPersistKeeps, CleanupKeeps
<1>3. ASSUME NEW c \in Closers,
             CloseFlush(c) \/ CloseCommit(c) \/ CloseFails(c) \/ (\E l \in Leads : CloseLoad(c, l))
      PROVE  DayInv'
  BY <1>3, CloseKeeps
<1> QED
  BY <1>1, <1>2, <1>3, AdvanceKeeps, EditKeeps, RunBeginKeeps, RunEndKeeps, TickBeginKeeps,
     TickRankKeeps, TickNextKeeps, TickFailsKeeps, DeleteKeeps DEF Next

THEOREM DayInvariant == Spec => []DayInv
BY DayInit, DayStep, PTL DEF Spec

(* Every variable has its type: each lead its score in the range, whether  *)
(* the strategy's or blended anew with the chain's evidence                *)
(* (scoring.composite), and a lead that is skipped and not yet committed   *)
(* stays queued while the placer has the lock (session_scope).             *)
THEOREM DayTypeCorrect == Spec => []DayTypeOK
<1>1. DayInv => DayTypeOK
  BY DEF DayInv, HoursOK, ClockOK, BoundsOK, RunOK, LeadsOK, BooksOK, TickOK, Ticking, CloseOK,
         Closing, Stat, Hours, DayTypeOK
<1> QED
  BY <1>1, DayInvariant, PTL

(* The contract of a plan is the nearest to the money that the margin pays *)
(* for (contract_service.select_affordable), for every chain, every quote  *)
(* and every margin.                                                       *)
THEOREM PlansCorrect == Spec => []PlansFit
<1>1. DayInv => PlansFit
  <2> SUFFICES ASSUME DayInv, NEW margin \in MarginsSeen PROVE Fits[margin]
    BY DEF PlansFit
  <2>1. run.margin \in Margins \cup {Unknown}
    BY DEF DayInv, RunOK
  <2>2. margin \in Margins \cup {Unknown}
    BY <2>1 DEF MarginsSeen
  <2> QED
    BY <2>2, FitsAll
<1> QED
  BY <1>1, DayInvariant, PTL

-----------------------------------------------------------------------------
(* What the steps of the placer do *)

\* Nothing but the placer changes its tick.
LEMMA TickChanges ==
    ASSUME [Next]_vars, tick' # tick
    PROVE  TickBegin \/ TickRank \/ TickNext \/ TickFails
<1>1. /\ ~Advance /\ ~EditBegin /\ ~EditKey /\ ~EditFails /\ ~RunEnd /\ ~DeleteAllLeads
                      /\ vars' # vars
  BY DEF Advance, EditBegin, EditKey, EditFails, RunEnd, DeleteAllLeads, vars
<1>2. \A manual \in BOOLEAN : ~RunBegin(manual)
  BY DEF RunBegin
<1>3. \A u \in Underlyings : ~RunPersist(u) /\ ~Cleanup(u)
  BY DEF RunPersist, Cleanup
<1>4. \A c \in Closers : /\ ~CloseFlush(c) /\ ~CloseCommit(c) /\ ~CloseFails(c)
                         /\ \A l \in Leads : ~CloseLoad(c, l)
  BY DEF CloseFlush, CloseCommit, CloseFails, CloseLoad
<1> QED
  BY <1>1, <1>2, <1>3, <1>4 DEF Next

\* A tick begins in TickBegin only, and ranks in TickRank only.
LEMMA BeginsAt == ASSUME [Next]_vars, Begins, TickOK PROVE TickBegin
<1>1. tick.pc = "off" /\ tick.order = <<>> /\ tick' # tick
  BY DEF Begins, TickOK
<1>2. ~TickNext /\ ~TickFails /\ ~TickRank
  BY <1>1 DEF TickNext, TickFails, TickRank
<1> QED
  BY <1>1, <1>2, TickChanges

LEMMA RanksAt == ASSUME [Next]_vars, Ranks PROVE TickRank
<1>1. tick.order = <<>> /\ tick' # tick /\ tick' # NoTick
  BY DEF Ranks, NoTick
<1>2. ~TickNext /\ ~TickFails /\ ~TickBegin
  BY <1>1 DEF TickNext, TickFails, GiveUp, TickBegin, Begun, Ranks
<1> QED
  BY <1>1, <1>2, TickChanges

(* No tick starts at a minute at which the tracker squares its trades off  *)
(* (market_calendar._default_trade_end against is_market_open).            *)
THEOREM EntriesCorrect == Spec => EntriesInSession
<1>1. ASSUME DayInv, [Next]_vars, Begins, hours.start <= hours.sqoff,
             day.special # None => DefaultTradeEnd <= day.special.end
      PROVE  IsMarketOpen(day)
  <2>1. ~day.holiday /\ SessionStart <= clock /\ clock < DefaultTradeEnd
    BY <1>1, BeginsAt DEF TickBegin, IsTradePlacingWindow, DayInv
  <2>2. /\ clock \in Nat /\ hours.start \in Nat /\ hours.sqoff \in Nat
        /\ hours.cutoff \in Nat \cup {Unset}
        /\ day.special # None => day.special.end \in Nat
    BY <1>1, TimesAre, SettingsAssumption DEF DayInv, HoursOK, ClockOK, Hours
  <2>3. DefaultTradeEnd \in Nat /\ DefaultTradeEnd <= hours.sqoff
    BY <1>1, <2>2, SettingsAssumption DEF DefaultTradeEnd
  <2>4. clock < SessionEnd
    <3>1. CASE day.special = None
      BY <2>1, <2>2, <2>3, <3>1 DEF SessionEnd
    <3>2. CASE day.special # None
      BY <1>1, <2>1, <2>2, <2>3, <3>2 DEF SessionEnd
    <3> QED
      BY <3>1, <3>2
  <2> QED
    BY <2>1, <2>4 DEF IsMarketOpen
<1>2. DayInv /\ [Next]_vars =>
          [Begins /\ hours.start <= hours.sqoff
                 /\ (day.special # None => DefaultTradeEnd <= day.special.end)
           => IsMarketOpen(day)]_tick
  BY <1>1
<1> QED
  BY <1>2, DayInvariant, PTL DEF Spec, EntriesInSession

\* A better lead shows more than the other.
LEMMA BetterShows ==
    ASSUME LeadsOK, NEW a \in Leads, NEW b \in Leads, Better(b, a)
    PROVE  ShowsMore(lead[a], lead[b]) /\ lead[a].made <= lead[b].made
<1> DEFINE x == lead[a]
           y == lead[b]
           seen(row) == IF row.evidence = <<>> THEN [score |-> row.confidence] ELSE row.evidence
<1>1. Shown(a) = seen(x) /\ Shown(b) = seen(y)
  BY DEF Shown
<1>2. /\ DOMAIN seen(x) = DOMAIN seen(y) /\ seen(x) # seen(y)
      /\ \A k \in DOMAIN seen(x) : seen(y)[k] >= seen(x)[k]
      /\ y.made >= x.made
  <2>1. /\ DOMAIN Shown(a) = DOMAIN Shown(b) /\ Shown(a) # Shown(b)
        /\ \A k \in DOMAIN Shown(a) : Shown(b)[k] >= Shown(a)[k]
        /\ y.made >= x.made
    BY Zenon DEF Better
  <2> HIDE DEF seen, x, y
  <2> QED
    BY <1>1, <2>1, Zenon
<1>3. Honest(x) /\ Honest(y)
  BY DEF LeadsOK
<1> HIDE DEF x, y
<1>4. x.made <= y.made
  BY <1>2, <1>3 DEF Honest
<1>5. /\ x.evidence # <<>> => x.evidence \in Evidence
      /\ y.evidence # <<>> => y.evidence \in Evidence
  BY <1>3 DEF Honest
<1>6. /\ x.evidence # <<>> => DOMAIN x.evidence = Base /\ \A k \in Base : x.evidence[k] \in Nat
      /\ y.evidence # <<>> => DOMAIN y.evidence = Base /\ \A k \in Base : y.evidence[k] \in Nat
  BY <1>5, EvidenceIs
<1>7. \A s : DOMAIN [score |-> s] = {"score"} /\ [score |-> s].score = s
  OBVIOUS
<1>8. {"score"} # Base
  BY DEF Base
<1>9. CASE x.evidence = <<>> /\ y.evidence = <<>>
  <2>1. seen(x) = [score |-> x.confidence] /\ seen(y) = [score |-> y.confidence]
    BY <1>9
  <2>2. x.confidence # y.confidence /\ y.confidence >= x.confidence
    BY <1>2, <1>7, <2>1
  <2>3. x.confidence \in Nat /\ y.confidence \in Nat
    <3>1. \A n \in Scores : n \in Nat
      BY SMT DEF Scores
    <3> QED
      BY <1>3, <3>1, Zenon DEF Honest
  <2> QED
    BY <1>4, <1>9, <2>2, <2>3 DEF ShowsMore, x, y
<1>10. CASE x.evidence # <<>> /\ y.evidence # <<>>
  <2>1. seen(x) = x.evidence /\ seen(y) = y.evidence
    BY <1>10
  <2>2. x.evidence # y.evidence /\ \A k \in Base : y.evidence[k] >= x.evidence[k]
    BY <1>2, <1>6, <1>10, <2>1, Zenon
  <2>3. \A k \in Base : x.evidence[k] <= y.evidence[k]
    BY <1>6, <1>10, <2>2
  <2> QED
    BY <1>4, <1>10, <2>2, <2>3, Zenon DEF ShowsMore, x, y
<1>11. CASE x.evidence = <<>> /\ y.evidence # <<>>
  BY <1>2, <1>6, <1>7, <1>8, <1>11, Zenon
<1>12. CASE x.evidence # <<>> /\ y.evidence = <<>>
  BY <1>2, <1>6, <1>7, <1>8, <1>12, Zenon
<1> QED
  BY <1>9, <1>10, <1>11, <1>12

(* No lead is ranked behind one that is better without any doubt, whatever *)
(* the score stored with either (run_order_placer._rank_key).              *)
THEOREM BestFirstCorrect == Spec => BestFirst
<1>1. ASSUME DayInv, [Next]_vars, Ranks, NEW i \in DOMAIN tick'.order, NEW j \in DOMAIN tick'.order,
             i < j, Better(tick'.order[j], tick'.order[i]),
             {Und[tick'.order[i]], Und[tick'.order[j]]} \subseteq tick'.answered
      PROVE  FALSE
  <2>1. \E answered \in Answers : \E order \in Ranked(answered) : tick' = Placing(order, answered, {})
    <3>1. TickRank /\ tick' # NoTick
      BY <1>1, RanksAt DEF Ranks, NoTick
    <3> QED
      BY <3>1, Zenon DEF TickRank
  <2>2. PICK answered, order :
           /\ order \in Ranked(answered)
           /\ tick'.order = order /\ tick'.answered = answered
    BY <2>1 DEF Placing
  <2> DEFINE a == order[i]
             b == order[j]
  <2>3. order \in [1..Cardinality(Queued) -> Queued] /\ Before(a, b, answered)
    BY <1>1, <2>2, Zenon DEF Ranked
  <2>4. a \in Leads /\ b \in Leads
    BY <1>1, <2>2, <2>3, QueuedFinite
  <2>5. Better(b, a) /\ Und[a] \in answered /\ Und[b] \in answered
    BY <1>1, <2>2
  <2> HIDE DEF a, b
  <2>6. ShowsMore(lead[a], lead[b]) /\ lead[a].made <= lead[b].made
    BY <1>1, <2>4, <2>5, BetterShows DEF DayInv
  <2>7. Honest(lead[a]) /\ Honest(lead[b])
    BY <1>1, <2>4 DEF DayInv, LeadsOK
  <2>8. stat[Und[a]] \in Stat /\ stat[Und[b]] \in Stat
    BY <1>1, <2>4, DayAssumption DEF DayInv, BooksOK
  <2>9. WinRate(stat[Und[a]]) <= WinRate(stat[Und[b]])
    <3>1. WinRate(stat[Und[b]]) >= WinRate(stat[Und[a]])
      BY <2>5, Zenon DEF Better
    <3> QED
      BY <2>8, <3>1, WinRateType
  <2>10. tick.now \in Int
    BY <1>1, NowIs DEF DayInv
  <2> DEFINE p == RankKey(lead[a], TRUE, stat[Und[a]], tick.now)
             q == RankKey(lead[b], TRUE, stat[Und[b]], tick.now)
  <2>11. p \in Nat /\ q \in Nat /\ p < q
    BY <2>6, <2>7, <2>8, <2>9, <2>10, RankStrict
  <2>12. (Und[a] \in answered) = TRUE /\ (Und[b] \in answered) = TRUE
    BY <2>5
  <2>13. p > q \/ p = q
    BY <2>3, <2>12, Zenon DEF Before
  <2> HIDE DEF p, q
  <2> QED
    BY <2>11, <2>13
<1>2. DayInv /\ [Next]_vars =>
          [Ranks => \A i, j \in DOMAIN tick'.order :
              i < j => LET a == tick'.order[i]
                           b == tick'.order[j]
                       IN  ~(/\ Better(b, a)
                             /\ {Und[a], Und[b]} \subseteq tick'.answered)]_tick
  BY <1>1
<1> QED
  BY <1>2, DayInvariant, PTL DEF Spec, BestFirst

-----------------------------------------------------------------------------
(* The record of a pattern *)

\* Only a commit changes a record, and only a commit makes a trade closed.
LEMMA CommitsClose ==
    ASSUME DayInv, [Next]_vars, \A c \in Closers : ~CloseCommit(c)
    PROVE  stat' = stat /\ \A l \in Leads : trade'[l] # trade[l] => trade'[l] \notin Closed
<1>1. ASSUME TickNext
      PROVE  stat' = stat /\ (trade' = trade \/ \E l \in Leads : trade' = [trade EXCEPT ![l] = "open"])
  <2>1. tick.order \in Seq(Leads) /\ tick.order # <<>>
    BY <1>1 DEF TickNext, DayInv, TickOK, Ticking
  <2>2. Head(tick.order) \in Leads
    BY <2>1, HeadTailProperties
  <2> QED
    BY <1>1, <2>2, Zenon DEF TickNext, TickSkip, TickPlace, TickStale, GiveUp
<1>2. stat' = stat /\ (trade' = trade \/ \E l \in Leads : trade' = [trade EXCEPT ![l] = "open"])
  <2>1. CASE UNCHANGED vars
    BY <2>1 DEF vars
  <2>2. ASSUME NEW manual \in BOOLEAN, RunBegin(manual) PROVE UNCHANGED <<trade, stat>>
    BY <2>2 DEF RunBegin
  <2>3. ASSUME NEW u \in Underlyings, RunPersist(u) \/ Cleanup(u) PROVE UNCHANGED <<trade, stat>>
    BY <2>3 DEF RunPersist, Cleanup
  <2>4. ASSUME NEW c \in Closers, CloseFlush(c) \/ CloseFails(c) \/ (\E l \in Leads : CloseLoad(c, l))
        PROVE  UNCHANGED <<trade, stat>>
    BY <2>4 DEF CloseFlush, CloseFails, CloseLoad
  <2>5. CASE Advance \/ EditBegin \/ EditKey \/ EditFails \/ RunEnd \/ TickBegin \/ TickRank \/ TickFails \/ DeleteAllLeads
    BY <2>5 DEF Advance, EditBegin, EditKey, EditFails, RunEnd, TickBegin, TickRank, TickFails, GiveUp, DeleteAllLeads
  <2> QED
    BY <1>1, <2>1, <2>2, <2>3, <2>4, <2>5 DEF Next
<1>3. trade \in [Leads -> {"none", "open"} \cup Closed]
  BY DEF DayInv, BooksOK
<1> QED
  BY <1>2, <1>3 DEF Closed

(* A commit leaves the record of the pattern as the count of its closed    *)
(* trades (close_trade, upsert_pattern_stat): the session has held the     *)
(* write lock since it counted.                                            *)
THEOREM TallyCorrect == Spec => TallyTrue
<1>1. ASSUME DayInv, [Next]_vars, NEW u \in Underlyings, stat'[u] # stat[u] \/ CloseSeen(u)
      PROVE  stat'[u] = StatOf(trade, u)'
  <2>1. PICK c \in Closers : CloseCommit(c)
    BY <1>1, CommitsClose DEF CloseSeen
  <2>2. PICK l \in Leads : l = closer[c].of
    BY <1>1, <2>1 DEF CloseCommit, DayInv, CloseOK
  <2>3. PICK result \in Closed : result = closer[c].result
    BY <1>1, <2>1 DEF CloseCommit, DayInv, CloseOK, Counted
  <2>4. /\ trade' = [trade EXCEPT ![l] = result]
        /\ stat' = [stat EXCEPT ![Und[l]] = Recount(l, result)]
        /\ UNCHANGED <<lead, past>>
    BY <1>1, <2>1, <2>2, <2>3 DEF CloseCommit, DayInv, CloseOK, Counted
  <2>5. /\ trade \in [Leads -> {"none", "open"} \cup Closed]
        /\ stat \in [Underlyings -> Stat]
    BY <1>1 DEF DayInv, BooksOK
  <2>6. u = Und[l]
    <3>1. ASSUME NEW k \in Leads, trade'[k] # trade[k] PROVE k = l
      BY <2>4, <2>5, <3>1
    <3> QED
      BY <1>1, <2>4, <2>5, <3>1 DEF CloseSeen
  <2>7. lead[l].status = "placed"
    <3>1. CASE stat'[u] # stat[u]
      BY <2>4, <2>5, <2>6, <3>1 DEF Recount
    <3>2. CASE CloseSeen(u)
      <4>1. PICK k \in Leads : trade'[k] # trade[k] /\ lead'[k].status = "placed"
        BY <3>2 DEF CloseSeen
      <4>2. k = l
        BY <2>4, <2>5, <4>1
      <4> QED
        BY <2>4, <4>1, <4>2
    <3> QED
      BY <1>1, <3>1, <3>2
  <2>8. stat'[u] = StatOf([trade EXCEPT ![l] = result], u)
    BY <2>4, <2>5, <2>6, <2>7 DEF Recount
  <2>9. StatOf(trade, u)' = StatOf([trade EXCEPT ![l] = result], u)
    BY <2>4 DEF StatOf
  <2> QED
    BY <2>8, <2>9
<1>2. DayInv /\ [Next]_vars =>
          [\A u \in Underlyings :
              stat'[u] # stat[u] \/ CloseSeen(u) => stat'[u] = StatOf(trade, u)']_<<trade, stat>>
  BY <1>1
<1> QED
  BY <1>2, DayInvariant, PTL DEF Spec, TallyTrue

-----------------------------------------------------------------------------
(* TradingDay implements LeadDesk: to the tables a lead is decided once,   *)
(* and the trade of an accepted lead is opened by the same commit.         *)

ShownStatus(s) == CASE s = "placed" -> "accepted" [] s = "gone" -> "deleted" [] OTHER -> s
ShownTrade(t) == IF t \in Closed THEN "closed" ELSE t
DeskStatus == [l \in Leads |-> ShownStatus(lead[l].status)]
DeskTrade == [l \in Leads |-> ShownTrade(trade[l])]
Desk == INSTANCE LeadDesk WITH status <- DeskStatus, trade <- DeskTrade, Underlying <- Und

\* A tick comes to each lead once, and to none it has skipped.
OrderOK ==
    /\ \A i, j \in DOMAIN tick.order : i # j => tick.order[i] # tick.order[j]
    /\ \A i \in DOMAIN tick.order : tick.order[i] \notin tick.skipped
\* A lead has no trade before its acceptance, and what a session is closing is one.
NoneYetOK ==
    /\ \A l \in Leads : lead[l].status \in {"none", "queued"} => trade[l] = "none"
    /\ \A c \in Closers : closer[c].pc # "idle" => trade[closer[c].of] # "none"
DeskInv == DayInv /\ OrderOK /\ NoneYetOK

LEMMA FreshBounds ==
    ASSUME NEW e \in Evidence, NEW stored, ScoredAs(e, stored), NEW now \in Int
    PROVE  FreshReblend(e, stored, now) \in Scores
<1>1. CASE Features = {}
  BY <1>1, StoredBounds DEF FreshReblend
<1>2. CASE Features # {}
  <2> DEFINE g == FreshEvidence(e, now)
  <2>1. FreshReblend(e, stored, now) = Composite(g, WeightMap(Features))
    BY <1>2, EvidenceIs DEF FreshReblend
  <2>2. Scored(g) /\ NoBetter(g, g) /\ Features \in SUBSET Extras
    BY FreshScored, NoBetterSelf, KeysAre
  <2> HIDE DEF g
  <2>3. Composite(g, WeightMap(Features)) \in Scores
    BY <2>2, CompositeStrict
  <2> QED
    BY <2>1, <2>3
<1> QED
  BY <1>1, <1>2

\* A rank is a number, whether the chain was read or not, so that no lead is
\* ranked before itself.
LEMMA RankType ==
    ASSUME NEW x, Honest(x), NEW answered, NEW s \in Stat, NEW now \in Int
    PROVE  RankKey(x, answered, s, now) \in Nat
<1> DEFINE base == IF answered THEN FreshReblend(x.evidence, x.confidence, now) ELSE x.confidence
           d == DecayFactor(now - x.made)
           m == CalibrationMultiplier(s)
<1>1. x.confidence \in Scores
  BY DEF Honest
<1>2. FreshReblend(x.evidence, x.confidence, now) \in Scores
  <2>1. CASE x.evidence = <<>>
    BY <1>1, <2>1 DEF FreshReblend
  <2>2. CASE x.evidence # <<>>
    BY <2>2, FreshBounds DEF Honest
  <2> QED
    BY <2>1, <2>2
<1>3. base \in Scores
  BY <1>1, <1>2, Zenon
<1>4. d \in Factors
  <2>1. now - x.made \in Int
    BY DEF Honest
  <2> QED
    BY <2>1, DecayMonotone
<1>5. WinRate(s) <= WinRate(s)
  BY WinRateType
<1>6. m \in Factors
  BY <1>5, CalibrationMonotone
<1>7. RankKey(x, answered, s, now) = (base * d) * m
  BY <1>3, ClampScore DEF RankKey
<1> HIDE DEF base, d, m
<1>8. base \in Nat /\ d \in Nat /\ m \in Nat
  <2>1. \A n \in Scores \cup Factors : n \in Nat
    BY SMT DEF Scores, Factors
  <2> QED
    BY <1>3, <1>4, <1>6, <2>1, Zenon
<1>9. (base * d) * m \in Nat
  BY <1>8, ProductMonotone
<1> QED
  BY <1>7, <1>9

LEMMA BeforeItself ==
    ASSUME DayInv, NEW a \in Leads, NEW answered
    PROVE  ~Before(a, a, answered)
<1>1. Honest(lead[a]) /\ stat[Und[a]] \in Stat /\ tick.now \in Int
  BY DayAssumption, NowIs DEF DayInv, LeadsOK, BooksOK
<1> DEFINE key == RankKey(lead[a], Und[a] \in answered, stat[Und[a]], tick.now)
<1>2. key \in Nat
  BY <1>1, RankType
<1>3. lead[a].made \in Nat /\ a \in Nat
  BY <1>1, DayAssumption DEF Honest
<1>4. Before(a, a, answered) <=> \/ key > key
                                 \/ key = key /\ lead[a].made < lead[a].made
                                 \/ key = key /\ lead[a].made = lead[a].made /\ a < a
  BY DEF Before
<1> HIDE DEF key
<1>5. \A n \in Nat : ~(n < n) /\ ~(n > n)
  OBVIOUS
<1> QED
  BY <1>2, <1>3, <1>4, <1>5, Zenon

LEMMA OrderOnce ==
    ASSUME DayInv, NEW answered, NEW order \in Ranked(answered)
    PROVE  \A i, j \in DOMAIN order : i # j => order[i] # order[j]
<1>1. order \in [1..Cardinality(Queued) -> Queued] /\ Cardinality(Queued) \in Nat
  BY QueuedFinite DEF Ranked
<1>2. \A i, j \in DOMAIN order : i < j => Before(order[i], order[j], answered)
  BY DEF Ranked
<1>3. ASSUME NEW i \in DOMAIN order, NEW j \in DOMAIN order, i < j PROVE order[i] # order[j]
  <2>1. order[i] \in Leads
    BY <1>1, QueuedFinite
  <2> QED
    BY <1>2, <1>3, <2>1, BeforeItself
<1>4. \A i, j \in DOMAIN order : i # j => i < j \/ j < i
  BY <1>1
<1> QED
  BY <1>3, <1>4

LEMMA OrderSame == ASSUME OrderOK, UNCHANGED tick PROVE OrderOK'
BY DEF OrderOK
LEMMA OrderDone == ASSUME tick' = NoTick PROVE OrderOK'
<1>1. tick'.order = <<>> /\ DOMAIN <<>> = {}
  BY DEF NoTick
<1> QED
  BY <1>1 DEF OrderOK

\* The rest of the order, when its head is skipped or decided.
LEMMA OrderRest ==
    ASSUME TickOK, OrderOK, tick.order # <<>>, NEW skipped,
           skipped \subseteq tick.skipped \cup {Head(tick.order)}, Rest(skipped)
    PROVE  OrderOK'
<1>1. CASE Len(tick.order) = 1
  BY <1>1, OrderDone DEF Rest
<1>2. CASE Len(tick.order) # 1
  <2> DEFINE order == tick.order
  <2>1. tick'.order = Tail(order) /\ tick'.skipped = skipped
    BY <1>2 DEF Rest, Placing
  <2>2. order \in Seq(Leads) /\ order # <<>>
    BY DEF TickOK, Ticking
  <2>3. /\ \A i, j \in DOMAIN order : i # j => order[i] # order[j]
        /\ \A i \in DOMAIN order : order[i] \notin tick.skipped
        /\ skipped \subseteq tick.skipped \cup {Head(order)}
    BY DEF OrderOK
  <2> HIDE DEF order
  <2>4. /\ Head(order) = order[1] /\ 1 \in DOMAIN order
        /\ \A i \in DOMAIN Tail(order) : /\ i + 1 \in DOMAIN order /\ i \in Nat /\ i + 1 # 1
                                         /\ Tail(order)[i] = order[i + 1]
    <3>1. Len(order) \in Nat /\ Len(order) # 0 /\ DOMAIN order = 1..Len(order)
      BY <2>2, LenProperties, EmptySeq
    <3>2. /\ Tail(order) \in Seq(Leads) /\ Len(Tail(order)) = Len(order) - 1
          /\ \A i \in 1..Len(Tail(order)) : Tail(order)[i] = order[i + 1]
          /\ Head(order) = order[1]
      BY <2>2, HeadTailProperties
    <3>3. DOMAIN Tail(order) = 1..Len(Tail(order))
      BY <3>2, LenProperties
    <3> QED
      BY <3>1, <3>2, <3>3
  <2>5. \A i \in DOMAIN Tail(order) : Tail(order)[i] \notin skipped
    BY <2>3, <2>4
  <2>6. ASSUME NEW i \in DOMAIN Tail(order), NEW j \in DOMAIN Tail(order), i # j
        PROVE  Tail(order)[i] # Tail(order)[j]
    <3>1. i + 1 # j + 1
      BY <2>4, <2>6
    <3> QED
      BY <2>3, <2>4, <3>1
  <2> QED
    BY <2>1, <2>5, <2>6 DEF OrderOK
<1> QED
  BY <1>1, <1>2

LEMMA NoneSame == ASSUME NoneYetOK, UNCHANGED <<lead, trade, closer>> PROVE NoneYetOK'
BY DEF NoneYetOK

\* No lead is put back on the queue.
LEMMA NoneKept ==
    ASSUME NoneYetOK, UNCHANGED <<trade, closer>>,
           \A l \in Leads : lead'[l].status \in {"none", "queued"} =>
                               lead[l].status \in {"none", "queued"}
    PROVE  NoneYetOK'
BY DEF NoneYetOK

LEMMA FreshLead ==
    ASSUME DayInv, NEW u \in Underlyings, RunPersist(u)
    PROVE  \E l \in Leads, row \in {r \in Row : r.status \in {"queued", "skipped"}} :
              lead[l].status = "none" /\ lead' = [lead EXCEPT ![l] = row]
<1>1. PICK c \in Candidates[u], plan \in Plans(u) :
         lead' = [lead EXCEPT ![Min(Fresh(u))] = NewLead(c, plan)]
  BY DEF RunPersist
<1>2. Fresh(u) \in SUBSET Nat /\ Fresh(u) # {}
  <2>1. Leads \subseteq Nat
    BY DayAssumption, SMT
  <2>2. Fresh(u) \subseteq Leads
    BY DEF Fresh
  <2>3. Fresh(u) # {}
    BY Zenon DEF RunPersist
  <2> QED
    BY <2>1, <2>2, <2>3
<1>3. PICK l \in Fresh(u) : l = Min(Fresh(u))
  BY <1>2, LeastOf
<1>4. l \in Leads /\ lead[l].status = "none"
  BY DEF Fresh
<1>5. NewLead(c, plan) \in Row
  BY NewLeadRow DEF DayInv
<1>6. NewLead(c, plan).status \in {"queued", "skipped"}
  BY DEF NewLead, Reblended, NoLead
<1> QED
  BY <1>1, <1>3, <1>4, <1>5, <1>6

LEMMA ClearedIs ==
    ASSUME NEW manual \in BOOLEAN, RunBegin(manual)
    PROVE  lead' = lead \/ lead' = [l \in Leads |-> IF l \in Queued THEN Gone ELSE lead[l]]
BY Zenon DEF RunBegin, Cleared

LEMMA GoneIs == Gone.status = "gone" /\ NoLead.status = "none"
BY DEF Gone, NoLead

\* What a commit of the placer makes of the leads.
LEMMA DecideIs ==
    ASSUME NEW skipped, NEW placed, Decide(skipped, placed), skipped \cap placed = {}, NEW l \in Leads
    PROVE  lead'[l] = IF l \in skipped THEN [NoLead EXCEPT !.status = "skipped"]
                      ELSE IF l \in placed THEN [NoLead EXCEPT !.status = "placed"] ELSE lead[l]
BY DEF Decide

LEMMA DecidedStatus ==
    ASSUME NEW skipped, NEW placed, Decide(skipped, placed), skipped \cap placed = {}, NEW l \in Leads
    PROVE  lead'[l].status = IF l \in skipped THEN "skipped"
                             ELSE IF l \in placed THEN "placed" ELSE lead[l].status
BY DecideIs DEF NoLead

LEMMA HeadNew == ASSUME TickOK, OrderOK, tick.order # <<>> PROVE Head(tick.order) \notin tick.skipped
<1> DEFINE order == tick.order
<1>1. order \in Seq(Leads) /\ order # <<>> /\ \A i \in DOMAIN order : order[i] \notin tick.skipped
  BY DEF TickOK, Ticking, OrderOK
<1> HIDE DEF order
<1>2. Len(order) \in Nat /\ Len(order) # 0 /\ DOMAIN order = 1..Len(order) /\ Head(order) = order[1]
  BY <1>1, LenProperties, EmptySeq, HeadTailProperties
<1>3. 1 \in DOMAIN order
  BY <1>2
<1> QED
  BY <1>1, <1>2, <1>3 DEF order

LEMMA TickNextLead ==
    ASSUME DayInv, TickNext
    PROVE  /\ tick.order # <<>> /\ UNCHANGED closer
           /\ \E l \in Leads : l = Head(tick.order) /\ (TickSkip(l) \/ TickPlace(l) \/ TickStale(l))
<1>1. tick.order \in Seq(Leads) /\ tick.order # <<>> /\ UNCHANGED closer
  BY DEF TickNext, DayInv, TickOK, Ticking
<1>2. Head(tick.order) \in Leads
  BY <1>1, HeadTailProperties
<1> QED
  BY <1>1, <1>2 DEF TickNext

LEMMA TickNextKeepsDesk == ASSUME DeskInv, TickNext PROVE OrderOK' /\ NoneYetOK'
<1> USE DEF DeskInv
<1>1. PICK l \in Leads : l = Head(tick.order) /\ (TickSkip(l) \/ TickPlace(l) \/ TickStale(l))
  BY TickNextLead
<1>2. tick.order # <<>> /\ TickOK /\ UNCHANGED closer
  BY TickNextLead DEF DayInv
<1>3. CASE TickSkip(l)
  <2>1. OrderOK'
    BY <1>1, <1>2, <1>3, OrderRest DEF TickSkip
  <2>2. UNCHANGED trade /\ (lead' = lead \/ Decide(tick.skipped \cup {l}, {}))
    BY <1>3 DEF TickSkip
  <2>3. NoneYetOK'
    BY <1>2, <2>2, NoneKept, DecidedStatus
  <2> QED
    BY <2>1, <2>3
<1>4. CASE TickPlace(l)
  <2>1. Rest({}) /\ Decide(tick.skipped, {l}) /\ trade' = [trade EXCEPT ![l] = "open"]
    BY <1>4 DEF TickPlace
  <2>2. OrderOK'
    BY <1>2, <2>1, OrderRest
  <2>3. \A k \in Leads : trade'[k] = IF k = l THEN "open" ELSE trade[k]
    BY <2>1 DEF DayInv, BooksOK
  <2>4. \A k \in Leads : lead'[k].status \in {"none", "queued"} => k # l /\ lead'[k].status = lead[k].status
    <3>1. tick.skipped \cap {l} = {}
      BY <1>1, <1>2, HeadNew
    <3> QED
      BY <2>1, <3>1, DecidedStatus
  <2>5. \A c \in Closers : closer[c].pc # "idle" => closer[c].of \in Leads
    BY DEF DayInv, CloseOK
  <2>6. NoneYetOK'
    BY <1>2, <2>3, <2>4, <2>5 DEF NoneYetOK
  <2> QED
    BY <2>2, <2>6
<1>5. CASE TickStale(l)
  BY <1>2, <1>5, OrderDone, NoneSame DEF TickStale, GiveUp
<1> QED
  BY <1>1, <1>3, <1>4, <1>5

LEMMA CloseKeepsDesk ==
    ASSUME DeskInv, NEW c \in Closers,
           CloseFlush(c) \/ CloseCommit(c) \/ CloseFails(c) \/ (\E l \in Leads : CloseLoad(c, l))
    PROVE  NoneYetOK'
<1> USE DEF DeskInv
<1>1. closer \in [Closers -> Closing] /\ \A d \in Closers : closer[d].pc # "idle" => closer[d].of \in Leads
  BY DEF DayInv, CloseOK
<1>2. UNCHANGED lead
  BY DEF CloseFlush, CloseCommit, CloseFails, CloseLoad
<1>3. ASSUME NEW l \in Leads, CloseLoad(c, l) PROVE NoneYetOK'
  <2>1. UNCHANGED trade /\ trade[l] # "none"
    BY <1>3 DEF CloseLoad
  <2>2. closer' = [closer EXCEPT ![c] = [NoClose EXCEPT !.pc = "loaded", !.of = l]]
    BY <1>3 DEF CloseLoad
  <2>3. closer'[c].of = l /\ \A d \in Closers : d # c => closer'[d] = closer[d]
    BY <1>1, <2>2 DEF NoClose
  <2> QED
    BY <1>2, <2>1, <2>3 DEF NoneYetOK
<1>4. CASE CloseFlush(c)
  <2>1. /\ UNCHANGED trade /\ closer[c].pc = "loaded"
        /\ \A d \in Closers : closer'[d].of = closer[d].of /\ (d # c => closer'[d].pc = closer[d].pc)
    <3>1. PICK result \in Closed :
             closer' = [closer EXCEPT ![c].pc = "flushed", ![c].result = result,
                                      ![c].stat = Recount(closer[c].of, result)]
      BY <1>4 DEF CloseFlush
    <3>2. UNCHANGED trade /\ closer[c].pc = "loaded"
      BY <1>4 DEF CloseFlush
    <3> QED
      BY <1>1, <3>1, <3>2 DEF Closing
  <2> QED
    BY <1>2, <2>1 DEF NoneYetOK
<1>5. CASE CloseFails(c)
  <2>1. UNCHANGED trade /\ \A d \in Closers : closer'[d] = IF d = c THEN NoClose ELSE closer[d]
    BY <1>1, <1>5 DEF CloseFails
  <2> QED
    BY <1>2, <2>1 DEF NoneYetOK, NoClose
<1>6. CASE CloseCommit(c)
  <2>1. PICK l \in Leads : l = closer[c].of
    BY <1>1, <1>6 DEF CloseCommit
  <2>2. PICK result \in Closed : result = closer[c].result
    BY <1>6 DEF CloseCommit, DayInv, CloseOK, Counted
  <2>3. trade' = [trade EXCEPT ![l] = result] /\ trade[l] # "none"
    BY <1>6, <2>1, <2>2 DEF CloseCommit, NoneYetOK
  <2>4. \A k \in Leads : trade'[k] = IF k = l THEN result ELSE trade[k]
    BY <2>3 DEF DayInv, BooksOK
  <2>5. \A d \in Closers : closer'[d] = IF d = c THEN NoClose ELSE closer[d]
    BY <1>1, <1>6 DEF CloseCommit
  <2>6. result # "none" /\ NoClose.pc = "idle"
    BY DEF Closed, NoClose
  <2> QED
    BY <1>1, <1>2, <2>3, <2>4, <2>5, <2>6 DEF NoneYetOK
<1> QED
  BY <1>3, <1>4, <1>5, <1>6

LEMMA DeskStart == Init => OrderOK /\ NoneYetOK
<1> SUFFICES ASSUME Init PROVE OrderOK /\ NoneYetOK
  OBVIOUS
<1>1. tick.order = <<>> /\ DOMAIN <<>> = {}
  BY DEF Init, NoTick
<1>2. OrderOK
  BY <1>1 DEF OrderOK
<1>3. NoneYetOK
  BY DEF Init, NoneYetOK, NoClose
<1> QED
  BY <1>2, <1>3

LEMMA DeskKeeps == DeskInv /\ [Next]_vars => DeskInv'
<1> SUFFICES ASSUME DeskInv, [Next]_vars PROVE OrderOK' /\ NoneYetOK'
  BY DayStep DEF DeskInv
<1> USE DEF DeskInv
<1>1. CASE UNCHANGED vars
  BY <1>1, OrderSame, NoneSame DEF vars
<1>2. CASE Advance \/ EditBegin \/ EditKey \/ EditFails \/ RunEnd
  BY <1>2, OrderSame, NoneSame DEF Advance, EditBegin, EditKey, EditFails, RunEnd
<1>3. ASSUME NEW manual \in BOOLEAN, RunBegin(manual) PROVE OrderOK' /\ NoneYetOK'
  <2>1. UNCHANGED <<tick, trade, closer>>
    BY <1>3 DEF RunBegin
  <2> QED
    BY <1>3, <2>1, ClearedIs, GoneIs, OrderSame, NoneKept
<1>4. ASSUME NEW u \in Underlyings, RunPersist(u) PROVE OrderOK' /\ NoneYetOK'
  <2>1. UNCHANGED <<tick, trade, closer>>
    BY <1>4 DEF RunPersist
  <2>2. PICK l \in Leads, row \in Row : lead[l].status = "none" /\ lead' = [lead EXCEPT ![l] = row]
    BY <1>4, FreshLead
  <2>3. \A k \in Leads : k # l => lead'[k] = lead[k]
    BY <2>2 DEF DayInv, LeadsOK
  <2> QED
    BY <2>1, <2>2, <2>3, OrderSame, NoneKept
<1>5. ASSUME NEW u \in Underlyings, Cleanup(u) PROVE OrderOK' /\ NoneYetOK'
  BY <1>5, OrderSame, NoneSame DEF Cleanup
<1>6. CASE TickBegin \/ TickRank
  <2>1. CASE tick'.order = <<>>
    <3>1. OrderOK'
      BY <2>1 DEF OrderOK
    <3> QED
      BY <1>6, <3>1, NoneSame DEF TickBegin, TickRank
  <2>2. CASE TickRank /\ tick' # NoTick
    <3>1. PICK answered \in Answers : \E order \in Ranked(answered) :
             tick' = Placing(order, answered, {})
      BY <2>2, Zenon DEF TickRank
    <3>2. PICK order \in Ranked(answered) : tick' = Placing(order, answered, {})
      BY <3>1, Zenon
    <3>3. OrderOK'
      BY <3>2, OrderOnce DEF OrderOK, Placing
    <3> QED
      BY <2>2, <3>3, NoneSame DEF TickRank
  <2>3. TickBegin \/ tick' = NoTick => tick'.order = <<>>
    BY DEF TickBegin, Begun, NoTick
  <2> QED
    BY <1>6, <2>1, <2>2, <2>3
<1>7. CASE TickFails
  BY <1>7, OrderDone, NoneSame DEF TickFails, GiveUp
<1>8. ASSUME NEW c \in Closers,
             CloseFlush(c) \/ CloseCommit(c) \/ CloseFails(c) \/ (\E l \in Leads : CloseLoad(c, l))
      PROVE  OrderOK' /\ NoneYetOK'
  <2>1. UNCHANGED tick
    BY <1>8 DEF CloseFlush, CloseCommit, CloseFails, CloseLoad
  <2> QED
    BY <1>8, <2>1, OrderSame, CloseKeepsDesk
<1>9. CASE DeleteAllLeads
  <2>1. /\ UNCHANGED <<tick, trade, closer>>
        /\ lead' = [l \in Leads |-> IF lead[l].status = "none" THEN NoLead ELSE Gone]
    BY <1>9 DEF DeleteAllLeads
  <2> QED
    BY <2>1, GoneIs, OrderSame, NoneKept
<1> QED
  BY <1>1, <1>2, <1>3, <1>4, <1>5, <1>6, <1>7, <1>8, <1>9, TickNextKeepsDesk DEF Next

\* Neither the ranks, nor the hours, nor a session that has not committed shows.
LEMMA NothingShows ==
    ASSUME \A l \in Leads : lead'[l].status = lead[l].status /\ ShownTrade(trade'[l]) = ShownTrade(trade[l])
    PROVE  UNCHANGED Desk!deskVars
<1>1. DeskStatus' = DeskStatus /\ DeskTrade' = DeskTrade
  BY DEF DeskStatus, DeskTrade, ShownTrade, Closed
<1> QED
  BY <1>1 DEF Desk!deskVars

LEMMA DeskInitial == Init => Desk!DeskInit
<1> SUFFICES ASSUME Init PROVE Desk!DeskInit
  OBVIOUS
<1>1. \A l \in Leads : DeskStatus[l] = "none" /\ DeskTrade[l] = "none"
  BY DEF Init, NoLead, DeskStatus, DeskTrade, ShownStatus, ShownTrade, Closed
<1>2. DeskStatus = [l \in Leads |-> DeskStatus[l]] /\ DeskTrade = [l \in Leads |-> DeskTrade[l]]
  BY DEF DeskStatus, DeskTrade
<1>3. DeskStatus \in [Leads -> {"none", "queued"}] /\ DeskTrade = [l \in Leads |-> "none"]
  BY <1>1, <1>2
<1> QED
  BY <1>3 DEF Desk!DeskInit

LEMMA PersistArrives ==
    ASSUME DeskInv, NEW u \in Underlyings, RunPersist(u)
    PROVE  \E l \in Leads : Desk!Arrive(l)
<1> USE DEF DeskInv
<1>1. PICK l \in Leads, row \in {r \in Row : r.status \in {"queued", "skipped"}} :
         lead[l].status = "none" /\ lead' = [lead EXCEPT ![l] = row]
  BY FreshLead
<1>2. \A k \in Leads : lead'[k] = IF k = l THEN row ELSE lead[k]
  BY <1>1 DEF DayInv, LeadsOK
<1>3. DeskStatus[l] = "none"
  BY <1>1 DEF DeskStatus, ShownStatus
<1>4. DeskStatus' = [DeskStatus EXCEPT ![l] = row.status]
  BY <1>2 DEF DeskStatus, ShownStatus
<1>5. DeskTrade' = DeskTrade
  BY DEF RunPersist, DeskTrade, ShownTrade, Closed
<1> QED
  BY <1>1, <1>3, <1>4, <1>5 DEF Desk!Arrive

LEMMA GoneDeletes ==
    ASSUME NEW gone \in SUBSET Leads, \A l \in gone : lead[l].status # "none",
           \A l \in Leads : lead'[l].status = IF l \in gone THEN "gone" ELSE lead[l].status,
           UNCHANGED trade
    PROVE  Desk!Delete(gone)
<1>1. DeskStatus' = [l \in Leads |-> IF l \in gone THEN "deleted" ELSE DeskStatus[l]]
  BY DEF DeskStatus, ShownStatus
<1>2. \A l \in gone : DeskStatus[l] # "none"
  BY DEF DeskStatus, ShownStatus
<1>3. DeskTrade' = DeskTrade
  BY DEF DeskTrade, ShownTrade, Closed
<1> QED
  BY <1>1, <1>2, <1>3 DEF Desk!Delete

LEMMA PlacerDecides ==
    ASSUME DeskInv, NEW skipped \in SUBSET Queued, NEW placed \in SUBSET Queued,
           skipped \cap placed = {}, \A l, m \in placed : l = m,
           \A l \in placed : ~HasOpenTrade(Und[l]),
           Decide(skipped, placed),
           \A l \in Leads : trade'[l] = IF l \in placed THEN "open" ELSE trade[l]
    PROVE  Desk!Decide(skipped, placed)
<1>1. \A l \in Leads : lead'[l].status = IF l \in skipped THEN "skipped"
                                         ELSE IF l \in placed THEN "placed" ELSE lead[l].status
  BY DecidedStatus
<1>2. DeskStatus' = [l \in Leads |-> IF l \in skipped THEN "skipped"
                                    ELSE IF l \in placed THEN "accepted" ELSE DeskStatus[l]]
  BY <1>1 DEF DeskStatus, ShownStatus
<1>3. DeskTrade' = [l \in Leads |-> IF l \in placed THEN "open" ELSE DeskTrade[l]]
  BY DEF DeskTrade, ShownTrade, Closed
<1>4. \A l \in skipped \cup placed : DeskStatus[l] = "queued"
  BY DEF DeskStatus, ShownStatus, Queued
<1>5. \A l \in placed, m \in Leads : Und[m] = Und[l] => DeskTrade[m] # "open"
  <2> SUFFICES ASSUME NEW l \in placed, NEW m \in Leads, Und[m] = Und[l] PROVE DeskTrade[m] # "open"
    OBVIOUS
  <2>1. trade[m] # "open"
    BY DEF HasOpenTrade
  <2> QED
    BY <2>1 DEF DeskTrade, ShownTrade
<1> QED
  BY <1>2, <1>3, <1>4, <1>5 DEF Desk!Decide

LEMMA TickDecides ==
    ASSUME DeskInv, TickNext
    PROVE  \/ UNCHANGED Desk!deskVars
           \/ \E skipped, placed \in SUBSET Leads : Desk!Decide(skipped, placed)
<1> USE DEF DeskInv
<1>1. PICK l \in Leads : l = Head(tick.order) /\ (TickSkip(l) \/ TickPlace(l) \/ TickStale(l))
  BY TickNextLead
<1>2. /\ tick.order # <<>> /\ tick.skipped \subseteq Queued /\ Queued \subseteq Leads
      /\ l \notin tick.skipped
  BY <1>1, TickNextLead, HeadNew DEF DayInv, TickOK, Queued
<1>3. CASE UNCHANGED <<lead, trade>>
  BY <1>3, NothingShows
<1>4. CASE l \in Queued /\ Decide(tick.skipped \cup {l}, {}) /\ UNCHANGED trade
  <2>1. tick.skipped \cup {l} \in SUBSET Queued /\ {} \in SUBSET Queued
    BY <1>2, <1>4
  <2>2. Desk!Decide(tick.skipped \cup {l}, {})
    BY <1>4, <2>1, PlacerDecides
  <2>3. tick.skipped \cup {l} \in SUBSET Leads /\ {} \in SUBSET Leads
    BY <1>2, <2>1
  <2> QED
    BY <2>2, <2>3, Zenon
<1>5. CASE TickPlace(l)
  <2>1. /\ l \in Queued /\ ~HasOpenTrade(Und[l]) /\ Decide(tick.skipped, {l})
        /\ trade' = [trade EXCEPT ![l] = "open"]
    BY <1>5 DEF TickPlace
  <2>2. tick.skipped \in SUBSET Queued /\ {l} \in SUBSET Queued /\ tick.skipped \cap {l} = {}
    BY <1>2, <2>1
  <2>3. \A k \in Leads : trade'[k] = IF k \in {l} THEN "open" ELSE trade[k]
    BY <2>1 DEF DayInv, BooksOK
  <2>4. Desk!Decide(tick.skipped, {l})
    BY <2>1, <2>2, <2>3, PlacerDecides
  <2>5. tick.skipped \in SUBSET Leads /\ {l} \in SUBSET Leads
    BY <1>2
  <2> QED
    BY <2>4, <2>5, Zenon
<1> QED
  BY <1>1, <1>3, <1>4, <1>5 DEF TickSkip, TickStale, GiveUp

\* A session may close again what another has closed; that does not show.
LEMMA CommitCloses ==
    ASSUME DeskInv, NEW c \in Closers, CloseCommit(c)
    PROVE  UNCHANGED Desk!deskVars \/ \E l \in Leads : Desk!Close(l)
<1> USE DEF DeskInv
<1>1. PICK l \in Leads : l = closer[c].of
  BY DEF CloseCommit, DayInv, CloseOK
<1>2. PICK result \in Closed : result = closer[c].result
  BY DEF CloseCommit, DayInv, CloseOK, Counted
<1>3. trade' = [trade EXCEPT ![l] = result] /\ UNCHANGED lead /\ trade[l] # "none"
  BY <1>1, <1>2 DEF CloseCommit, NoneYetOK
<1>4. /\ trade[l] \in {"open"} \cup Closed
      /\ \A k \in Leads : trade'[k] = IF k = l THEN result ELSE trade[k]
  BY <1>3 DEF DayInv, BooksOK
<1>5. CASE trade[l] \in Closed
  <2>1. \A k \in Leads : ShownTrade(trade'[k]) = ShownTrade(trade[k])
    BY <1>4, <1>5 DEF ShownTrade
  <2> QED
    BY <1>3, <2>1, NothingShows
<1>6. CASE trade[l] = "open"
  <2>1. DeskTrade[l] = "open" /\ DeskTrade' = [DeskTrade EXCEPT ![l] = "closed"]
    BY <1>4, <1>6 DEF DeskTrade, ShownTrade, Closed
  <2>2. DeskStatus' = DeskStatus
    BY <1>3 DEF DeskStatus, ShownStatus
  <2> QED
    BY <2>1, <2>2 DEF Desk!Close
<1> QED
  BY <1>4, <1>5, <1>6

LEMMA DeskStep == DeskInv /\ [Next]_vars => [Desk!DeskNext]_(Desk!deskVars)
<1> SUFFICES ASSUME DeskInv, [Next]_vars PROVE Desk!DeskNext \/ UNCHANGED Desk!deskVars
  OBVIOUS
<1>1. ASSUME UNCHANGED <<lead, trade>> PROVE UNCHANGED Desk!deskVars
  BY <1>1, NothingShows
<1>2. CASE UNCHANGED vars \/ Advance \/ EditBegin \/ EditKey \/ EditFails \/ RunEnd \/ TickBegin \/ TickRank \/ TickFails
  BY <1>1, <1>2 DEF vars, Advance, EditBegin, EditKey, EditFails, RunEnd, TickBegin, TickRank, TickFails, GiveUp
<1>3. ASSUME NEW manual \in BOOLEAN, RunBegin(manual) PROVE Desk!DeskNext \/ UNCHANGED Desk!deskVars
  <2>1. UNCHANGED trade
    BY <1>3 DEF RunBegin
  <2>2. CASE lead' = [l \in Leads |-> IF l \in Queued THEN Gone ELSE lead[l]]
    <3>1. Queued \in SUBSET Leads /\ \A l \in Queued : lead[l].status # "none"
      BY DEF Queued
    <3>2. \A l \in Leads : lead'[l].status = IF l \in Queued THEN "gone" ELSE lead[l].status
      BY <2>2, GoneIs
    <3>3. Desk!Delete(Queued)
      BY <2>1, <3>1, <3>2, GoneDeletes
    <3> QED
      BY <3>1, <3>3, Zenon DEF Desk!DeskNext
  <2> QED
    BY <1>1, <1>3, <2>1, <2>2, ClearedIs
<1>4. ASSUME NEW u \in Underlyings, RunPersist(u) \/ Cleanup(u)
      PROVE  Desk!DeskNext \/ UNCHANGED Desk!deskVars
  <2>1. CASE RunPersist(u)
    BY <2>1, PersistArrives, Zenon DEF Desk!DeskNext
  <2>2. CASE Cleanup(u)
    BY <1>1, <2>2 DEF Cleanup
  <2> QED
    BY <1>4, <2>1, <2>2
<1>5. CASE TickNext
  BY <1>5, TickDecides, Zenon DEF Desk!DeskNext
<1>6. ASSUME NEW c \in Closers,
             CloseFlush(c) \/ CloseCommit(c) \/ CloseFails(c) \/ (\E l \in Leads : CloseLoad(c, l))
      PROVE  Desk!DeskNext \/ UNCHANGED Desk!deskVars
  <2>1. CASE CloseCommit(c)
    BY <2>1, CommitCloses, Zenon DEF Desk!DeskNext
  <2>2. CASE CloseFlush(c) \/ CloseFails(c) \/ (\E l \in Leads : CloseLoad(c, l))
    BY <1>1, <2>2 DEF CloseFlush, CloseFails, CloseLoad
  <2> QED
    BY <1>6, <2>1, <2>2
<1>7. CASE DeleteAllLeads
  <2> DEFINE there == {l \in Leads : lead[l].status # "none"}
  <2>1. UNCHANGED trade /\ lead' = [l \in Leads |-> IF lead[l].status = "none" THEN NoLead ELSE Gone]
    BY <1>7 DEF DeleteAllLeads
  <2>2. \A l \in Leads : lead'[l].status = IF l \in there THEN "gone" ELSE lead[l].status
    BY <2>1, GoneIs
  <2>3. there \in SUBSET Leads /\ \A l \in there : lead[l].status # "none"
    OBVIOUS
  <2> HIDE DEF there
  <2>4. Desk!Delete(there)
    BY <2>1, <2>2, <2>3, GoneDeletes
  <2> QED
    BY <2>3, <2>4, Zenon DEF Desk!DeskNext
<1> QED
  BY <1>2, <1>3, <1>4, <1>5, <1>6, <1>7 DEF Next

(* The day of the desk, with its edits of the hours, its runs, ranks and   *)
(* sessions that close, is to the tables the one LeadDesk describes, the   *)
(* same that the placement of a lead implements step by step               *)
(* (EntryPlacement): what is one step here is several there, and neither   *)
(* shows more than that.                                                   *)
THEOREM DayRefined == Spec => Desk!DeskSpec
<1>1. Init => DeskInv /\ Desk!DeskInit
  BY DayInit, DeskStart, DeskInitial DEF DeskInv
<1>2. DeskInv /\ [Next]_vars => [Desk!DeskNext]_(Desk!deskVars)
  BY DeskStep
<1>3. Spec => Desk!DeskInit /\ [][Desk!DeskNext]_(Desk!deskVars)
  BY <1>1, <1>2, DeskKeeps, PTL DEF Spec
<1> QED
  BY <1>3 DEF Desk!DeskSpec
============================================================================
