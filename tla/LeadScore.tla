----------------------------- MODULE LeadScore -----------------------------
(***************************************************************************)
(* The score of a lead: the composite of its evidence                      *)
(* (app/strategy/scoring.py), the market context of tier 3                 *)
(* (app/strategy/tier3.py, app/services/lead_service.py), the decay of a   *)
(* lead that waits (app/services/score_decay.py), the record of its        *)
(* pattern (app/services/calibration.py) and the placer's ranking of it    *)
(* (app/scheduler/order_placer.py).                                        *)
(*                                                                         *)
(* Evidence, weights and factors are percentages, a score is in            *)
(* ten-thousandths, as the code rounds it; the clock is in minutes of the  *)
(* day.  Pure definitions: nothing here has a state.                       *)
(***************************************************************************)
EXTENDS Integers, FiniteSetsExt, Functions

CONSTANTS Features,    \* tier-3 features switched on: \subseteq DOMAIN ExtraWeight
          HalfLife,    \* breakout.staleness_half_life_min, 0 disables
          Alpha,       \* scoring.calibration_alpha as a percentage, 0 disables
          MinTrades    \* MIN_TRADES_DEFAULT

BaseWeight == [pattern_fit |-> 40, volume |-> 25, trend_alignment |-> 15,
               proximity |-> 10, structure |-> 10]
ExtraWeight == [iv |-> 4, oi |-> 5, time_of_day |-> 6]

ASSUME ScoreAssumption ==
    /\ Features \subseteq DOMAIN ExtraWeight
    /\ HalfLife \in Nat /\ Alpha \in 0..100 /\ MinTrades \in Nat \ {0}

Clamp(x, low, high) == Max({low, Min({high, x})})

\* The sum of f over the keys it has, of the eight there are.
Total(f) ==
    LET at(k) == IF k \in DOMAIN f THEN f[k] ELSE 0
    IN  at("pattern_fit") + at("volume") + at("trend_alignment") + at("proximity")
            + at("structure") + at("iv") + at("oi") + at("time_of_day")

-----------------------------------------------------------------------------
(* The composite *)

\* The weights for the features in on, in ten-thousandths: the extras take
\* theirs and the base shrinks in proportion.
WeightMap(on) ==
    LET shrunk == 100 - Total(Restrict(ExtraWeight, on))
    IN  [k \in DOMAIN BaseWeight \cup on |->
            IF k \in on THEN ExtraWeight[k] * 100 ELSE BaseWeight[k] * shrunk]

\* with_extra: components added, or put in the place of older ones.
WithExtra(evidence, extra) ==
    [k \in DOMAIN evidence \cup DOMAIN extra |->
        IF k \in DOMAIN extra THEN extra[k] ELSE evidence[k]]

\* A feature that is weighed but was never observed counts as 0.
Value(evidence, k) == IF k \in DOMAIN evidence THEN Clamp(evidence[k], 0, 100) ELSE 0

\* Core evidence below 40 costs 15 percent of the score.
Weak(evidence) ==
    \E k \in {"pattern_fit", "volume", "trend_alignment"} : evidence[k] < 40
Weighed(evidence, weights) == Total([k \in DOMAIN weights |-> weights[k] * Value(evidence, k)])
Composite(evidence, weights) ==
    LET sum == Weighed(evidence, weights)
        score == IF Weak(evidence) THEN (sum * 85) \div 100 ELSE sum
    IN  (score + 50) \div 100

-----------------------------------------------------------------------------
(* Tier 3 *)

TimeOfDay(now) ==
    CASE now < 555 \/ now >= 930 -> 50
      [] now \in 555..599 -> 55
      [] now \in 600..689 -> 90
      [] now \in 690..779 -> 60
      [] now \in 780..869 -> 85
      [] now \in 870..929 -> 55

\* What the chain says about the contract.  InstrumentView has neither an iv nor
\* an oi attribute, so both scores are the default of a chain that says nothing.
IvScore == 70
OiScore == 70
ChainEvidence == [k \in Features \cap {"iv", "oi"} |-> IF k = "iv" THEN IvScore ELSE OiScore]

ReblendUnscaled(evidence) ==    \* weights taken for fractions
    Weighed(WithExtra(evidence, ChainEvidence), WeightMap(Features))
\* The score stored with the plan: the chain's evidence beside what the
\* strategy observed.
Reblend(evidence) == Composite(WithExtra(evidence, ChainEvidence), WeightMap(Features))

\* The score at rank time: the tier-3 evidence is thrown away and taken afresh
\* from the clock and the chain of the tick.
FreshEvidence(evidence, now) ==
    LET kept == Restrict(evidence, DOMAIN evidence \ DOMAIN ExtraWeight)
        timed == [k \in Features \cap {"time_of_day"} |-> TimeOfDay(now)]
    IN  WithExtra(WithExtra(kept, timed), ChainEvidence)
StoredScore(evidence, stored, now) == stored    \* no blending at rank time
FreshReblend(evidence, stored, now) ==
    IF evidence = <<>> \/ Features = {}
    THEN stored
    ELSE Composite(FreshEvidence(evidence, now), WeightMap(Features))

-----------------------------------------------------------------------------
(* Decay, calibration and rank *)

\* The factor for a lead made age minutes ago: halved per half-life but never
\* below 50 percent, so it is at the floor from the first half-life on.  Before,
\* the exponential is replaced by its chord.  After eight hours a lead gets no older.
MaxDecayWindow == 480
DecayFactor(age) ==
    IF HalfLife = 0 THEN 100
    ELSE Max({50, 100 - (50 * Clamp(age, 0, MaxDecayWindow)) \div HalfLife})

\* stat: how many trades of the pattern have closed, how many of them won.
NoStat == [trades |-> 0, wins |-> 0]
WinRate(stat) == IF stat.trades < MinTrades THEN 50 ELSE (100 * stat.wins) \div stat.trades
CalibrationMultiplier(stat) ==
    IF Alpha = 0 THEN 100 ELSE Clamp(100 + (Alpha * (WinRate(stat) - 50)) \div 100, 50, 150)

\* A lead whose chain could not be read is ranked by its stored score.
RankKey(lead, answered, stat, now) ==
    LET base == IF answered THEN FreshReblend(lead.evidence, lead.confidence, now)
                            ELSE lead.confidence
    IN  Clamp(base, 0, 10000) * DecayFactor(now - lead.made) * CalibrationMultiplier(stat)

=============================================================================
