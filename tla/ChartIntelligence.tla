------------------------- MODULE ChartIntelligence -------------------------
(***************************************************************************)
(* Chart intelligence (extensions/aille_chart_intelligence.cpp and .hpp):   *)
(* the registry of indicators, the regimes with hysteresis, the structural  *)
(* stress payloads and the pattern hint a cycle of a host draws from them.  *)
(* Ratios and correlations are hundredths; a score is a hundredth of a      *)
(* point.  The texts that the JSON helpers print are left out.              *)
(***************************************************************************)
EXTENDS Integers, Sequences, FiniteSetsExt

CONSTANTS Readings,       \* what a cycle may see
          MaxIndicators,  \* slots of the registry
          MaxReadings     \* bound: cycles

Indicators == {"VolatilityExpansionBands", "LiquidityDisplacementZones",
               "CorrelationDivergenceIndex", "BaselineStrengthMeter"}
Nothing == "none"

\* AnomalyState, VolumeState and BaselineState as the indicators use them:
\* short and medium volatility against the baseline of thirty days, a baseline
\* that may be missing (zero) and a depth whose baseline may not be a number.
ReadingType ==
  [ratio : Nat, short : Nat, medium : Nat, based : BOOLEAN,
   depth : Nat, depthKnown : BOOLEAN, volume : Nat,
   roll : -100 .. 100, expected : -100 .. 100,
   wave : {Nothing, "steady", "energetic", "degraded"}, waveFirst : BOOLEAN]

ASSUME ChartAssumption ==
    /\ \A r \in Readings : r \in ReadingType
    /\ MaxIndicators \in Nat \ {0} /\ MaxReadings \in Nat

VARIABLES
    fns, active,   \* ChartIndicatorRegistry
    modifier,      \* the regimes of the cycle before
    readings,      \* what the cycles saw, oldest first
    payloads,      \* ChartConditionPayloads of the last cycle
    stressScore,   \* StressRegimePayload
    hint           \* PatternConditionPayload

chartVars == <<fns, active, modifier, readings, payloads, stressScore, hint>>

Between(x, lo, hi) == Max({lo, Min({x, hi})})
Score(x) == Between(x, 0, 10000)
Distance(x, y) == IF x >= y THEN x - y ELSE y - x
Huge == 1000000   \* a ratio to the floor of 1e-6

\* What falls through the thresholds of a condition, worst first.
Grade(worst, bad, names) ==
  IF worst THEN names[1] ELSE IF bad THEN names[2] ELSE names[3]

Payload(type, score, metric, state) ==
  [type |-> type, score |-> Score(score), metric |-> metric, state |-> state]

-----------------------------------------------------------------------------
(* The regimes                                                              *)

\* Mutant: a regime is left where it is entered.
RegimeFlickers(before, enterHigh, leaveHigh, enterLow, leaveLow) ==
  IF enterHigh THEN "high" ELSE IF enterLow THEN "low" ELSE "middle"

\* An extreme is kept until its own threshold of leaving is crossed, and is
\* then left for what the reading enters.
Regime(before, enterHigh, leaveHigh, enterLow, leaveLow) ==
  CASE before = "high" /\ ~leaveHigh -> "high"
    [] before = "low" /\ ~leaveLow -> "low"
    [] OTHER -> IF enterHigh THEN "high" ELSE IF enterLow THEN "low" ELSE "middle"

Drop(r) == Max({0, r.expected - r.roll})
RegimeRatio(r) == IF r.based THEN r.ratio ELSE 100

VolatilityRegime(before, r) ==
  LET v == RegimeRatio(r) IN Regime(before, v >= 185, v <= 170, v <= 65, v >= 75)

\* A baseline that is not a number is taken for a thousand lots: thin.
RegimeDepth(r) == IF r.depthKnown THEN r.depth ELSE 0
LiquidityRegime(before, r) ==
  LET d == RegimeDepth(r) IN Regime(before, d >= 155, d <= 140, d <= 45, d >= 55)

\* "high" is Unstable, "middle" Transitional, "low" Stable.
CorrelationRegime(before, r) ==
  Regime(before, Drop(r) >= 53 \/ r.roll <= 0, Drop(r) <= 47 /\ r.roll > 0,
         Drop(r) <= 22 /\ r.roll > 0, Drop(r) >= 28 \/ r.roll <= 0)

NoModifier == [volatility |-> "middle", liquidity |-> "middle", correlation |-> "low"]

compute_regime_modifier(before, r) ==
  [volatility  |-> VolatilityRegime(before.volatility, r),
   liquidity   |-> LiquidityRegime(before.liquidity, r),
   correlation |-> CorrelationRegime(before.correlation, r)]

VolatilityFactor(m) == [high |-> 130, middle |-> 100, low |-> 85][m.volatility]
LiquidityFactor(m) == [high |-> 85, middle |-> 100, low |-> 125][m.liquidity]
CorrelationFactor(m) == [high |-> 130, middle |-> 115, low |-> 100][m.correlation]

-----------------------------------------------------------------------------
(* The indicators of the registry                                           *)

ExpansionBands(r) ==
  LET ratio == IF r.based THEN r.ratio ELSE Min({r.ratio * 10000, Huge})
  IN  Payload("VolatilityExpansionBands", 5000 + (ratio - 100) * 50, ratio,
              Grade(ratio >= 200, ratio <= 60, <<"Expansion", "Compression", "Neutral">>))

\* Without a number for its baseline the book is not thin for this indicator.
Thinning(r) == IF r.depthKnown THEN Max({0, 100 - r.depth}) ELSE 0
DisplacementZones(r) ==
  LET score == Thinning(r) * 70 + Max({0, r.volume - 200}) * 15
  IN  Payload("LiquidityDisplacementZones", score, Thinning(r),
              Grade(Thinning(r) >= 50 \/ Score(score) >= 6000,
                    Thinning(r) >= 25 \/ Score(score) >= 3500,
                    <<"Displaced", "Stressed", "Neutral">>))

DivergenceIndex(r) ==
  Payload("CorrelationDivergenceIndex", Drop(r) * 50, Drop(r),
          Grade(Drop(r) >= 70 \/ r.roll <= 0, Drop(r) >= 35, <<"Broken", "Diverging", "Neutral">>))

\* Without a baseline both horizons count as equal to it.
StrengthMeter(r) ==
  LET unrest == IF r.based THEN Distance(r.short, 100) + Distance(r.medium, 100) ELSE 0
      score  == Score(10000 - unrest * 50)
  IN  Payload("BaselineStrengthMeter", score, unrest,
              IF score >= 7000 THEN "Strong" ELSE IF score >= 4000 THEN "Average" ELSE "Weak")

Indicate(fn, r) ==
  CASE fn = "VolatilityExpansionBands" -> ExpansionBands(r)
    [] fn = "LiquidityDisplacementZones" -> DisplacementZones(r)
    [] fn = "CorrelationDivergenceIndex" -> DivergenceIndex(r)
    [] OTHER -> StrengthMeter(r)

-----------------------------------------------------------------------------
(* Structural stress                                                        *)

Instability(r, m) ==
  LET spike == IF r.based THEN Min({Distance(r.ratio, 100), 1000}) ELSE 0
      score == Score((spike * 40 * VolatilityFactor(m)) \div 100)
  IN  Payload("VolatilityInstability", score, spike,
              Grade(score >= 7000, score >= 3500, <<"Chaotic", "Unstable", "Stable">>))

ErosionThinning(r) == IF r.depthKnown THEN Thinning(r) ELSE 100
Erosion(r, m) ==
  LET thinning == ErosionThinning(r)
      score    == Score((thinning * 80 * LiquidityFactor(m)) \div 100)
  IN  Payload("LiquidityErosion", score, thinning,
              Grade(score >= 6000 \/ thinning >= 60, score >= 3000 \/ thinning >= 25,
                    <<"Depleted", "Eroding", "Preserved">>))

Breakdown(r, m) ==
  LET score == Score((Drop(r) * 60 * CorrelationFactor(m)) \div 100)
  IN  Payload("CorrelationBreakdown", score, Drop(r),
              Grade(score >= 6500 \/ Drop(r) >= 60, score >= 3000 \/ Drop(r) >= 25,
                    <<"Deteriorating", "Weakening", "Stable">>))

\* Without a baseline its floor of 1e-6 is drifted from by all of itself or more.
Deterioration(r, m) ==
  LET drift(x) == IF r.based THEN Distance(x, 100) ELSE IF x = 0 THEN 100 ELSE Huge
      sum   == Min({drift(r.short) * 40 + drift(r.medium) * 30, Huge})
      score == Score((sum * VolatilityFactor(m)) \div 100)
  IN  Payload("BaselineDeterioration", score, sum,
              Grade(score >= 6000, score >= 3000, <<"Deteriorating", "Weakening", "Strong">>))

Fatigue(vol, liq, base, m) ==
  LET score == Score(((vol.score * 35 + liq.score * 40 + base.score * 25)
                       * VolatilityFactor(m)) \div 10000)
  IN  Payload("StructuralFatigue", score, 0, Grade(score >= 6500, score >= 3500, <<"High", "Medium", "Low">>))

\* evaluate_wnfs_stream_indicator
WaveIndicator(r) ==
  Payload("WaveNativeFinanceStream", 5000, 0,
          Grade(r.wave = "degraded", r.wave = "energetic", <<"Chaotic", "Expansion", "Stable">>))

-----------------------------------------------------------------------------
(* What is read out of a list of payloads                                   *)

PayloadsOf(list, type) == {i \in DOMAIN list : list[i].type = type}
\* The last of a type is the one that counts.
LastScore(list, type, default) ==
  IF PayloadsOf(list, type) = {} THEN default ELSE list[Max(PayloadsOf(list, type))].score
LastMetric(list, type, default) ==
  IF PayloadsOf(list, type) = {} THEN default ELSE list[Max(PayloadsOf(list, type))].metric

\* A chaotic wave raises the instability read so far to 85: an instability
\* payload that follows in the list replaces it.
StreamInstability(list) ==
  LET own   == PayloadsOf(list, "VolatilityInstability")
      waves == {i \in PayloadsOf(list, "WaveNativeFinanceStream") :
                  /\ list[i].state = "Chaotic"
                  /\ \A j \in own : j < i}
  IN  Max({LastScore(list, "VolatilityInstability", 0)} \cup {8500 : i \in waves})

\* Mutant: the wave is not asked.
StressOfCharts(list) ==
  Max({LastScore(list, t, 0) : t \in {"VolatilityInstability", "LiquidityErosion",
                                      "BaselineDeterioration", "StructuralFatigue"}})

evaluate_stress_regime_payload(list) ==
  Max({StreamInstability(list)} \cup
      {LastScore(list, t, 0) : t \in {"LiquidityErosion", "BaselineDeterioration", "StructuralFatigue"}})

Pattern(name, group) == [hint |-> name, group |-> group]

evaluate_pattern_diagnostics(list) ==
  LET expansion == LastMetric(list, "VolatilityExpansionBands", 0)
      thinning  == LastMetric(list, "LiquidityDisplacementZones", 0)
      drop      == LastMetric(list, "CorrelationDivergenceIndex", 0)
      strength  == LastScore(list, "BaselineStrengthMeter", 5000)
      of(type)  == LastScore(list, type, 0)
      prior     == Score(Max({0, expansion - 100}) * 60)
      consolidation == Score(Max({0, 100 - expansion}) * 50 + (100 - thinning) * 50)
      support   == Score((strength * 7) \div 10 + (100 - drop) * 30)
      symmetry  == Score(10000 - Min({Distance(expansion, 100) * 30, Huge}) - thinning * 40)
  IN  IF drop >= 50 /\ of("LiquidityErosion") >= 4000 /\ of("VolatilityInstability") >= 4000
        THEN Pattern("BreakdownLike", "StressGroup")
      ELSE IF of("BaselineDeterioration") >= 5000 /\ of("StructuralFatigue") >= 5000
        THEN Pattern("ExhaustionLike", "StressGroup")
      ELSE IF consolidation >= 4500 /\ strength <= 4500 /\ thinning >= 30
        THEN Pattern("StressConsolidationLike", "StressGroup")
      ELSE IF support >= 6500 /\ consolidation >= 5000 /\ thinning < 30
        THEN Pattern("CupHandleLike", "ExpansionGroup")
      ELSE IF prior >= 4000 /\ consolidation >= 6000 /\ symmetry >= 6000
        THEN Pattern("PennantLike", "ExpansionGroup")
      ELSE IF prior >= 3500 /\ consolidation >= 4000 /\ support >= 4500
        THEN Pattern("FlagLike", "ExpansionGroup")
      ELSE Pattern(Nothing, "ExpansionGroup")

-----------------------------------------------------------------------------
(* A host                                                                   *)

IndicatorSlots == 1 .. MaxIndicators

ChartInit ==
  /\ fns = [i \in IndicatorSlots |-> Nothing]
  /\ active = [i \in IndicatorSlots |-> FALSE]
  /\ modifier = NoModifier
  /\ readings = <<>> /\ payloads = <<>> /\ stressScore = 0
  /\ hint = Pattern(Nothing, "ExpansionGroup")

\* register_indicator; a slot can be given another indicator.
RegisterIndicator(i, fn, on) ==
  /\ readings = <<>>   \* bound: the registry is filled before the first cycle
  /\ fns' = [fns EXCEPT ![i] = fn]
  /\ active' = [active EXCEPT ![i] = on]
  /\ UNCHANGED <<modifier, readings, payloads, stressScore, hint>>

\* set_active, also of a slot that is still empty
SetActive(i, on) ==
  /\ readings = <<>>
  /\ active' = [active EXCEPT ![i] = on]
  /\ UNCHANGED <<fns, modifier, readings, payloads, stressScore, hint>>

\* execute_active: in the order of the slots
ExecuteActive(r) ==
  LET list[i \in 0 .. MaxIndicators] ==
        IF i = 0 THEN <<>>
        ELSE IF active[i] /\ fns[i] # Nothing THEN Append(list[i - 1], Indicate(fns[i], r))
        ELSE list[i - 1]
  IN  list[MaxIndicators]

StressPayloads(r, m) ==
  LET vol == Instability(r, m)  liq == Erosion(r, m)  base == Deterioration(r, m)
  IN  <<vol, liq, Breakdown(r, m), base, Fatigue(vol, liq, base, m)>>

\* The payloads of one cycle: the host puts that of the stream first or last.
AllPayloads(r, m) ==
  LET stream == IF r.wave = Nothing THEN <<>> ELSE <<WaveIndicator(r)>>
      own    == ExecuteActive(r) \o StressPayloads(r, m)
  IN  IF r.waveFirst THEN stream \o own ELSE own \o stream

\* One cycle: regimes from those of the cycle before, then all that uses them.
Observe(r) ==
  /\ Len(readings) < MaxReadings
  /\ readings' = Append(readings, r)
  /\ modifier' = compute_regime_modifier(modifier, r)
  /\ payloads' = AllPayloads(r, modifier')
  /\ stressScore' = evaluate_stress_regime_payload(payloads')
  /\ hint' = evaluate_pattern_diagnostics(payloads')
  /\ UNCHANGED <<fns, active>>

ChartNext ==
  \/ \E i \in IndicatorSlots, fn \in Indicators, on \in BOOLEAN : RegisterIndicator(i, fn, on)
  \/ \E i \in IndicatorSlots, on \in BOOLEAN : SetActive(i, on)
  \/ \E r \in Readings : Observe(r)

ChartSpec == ChartInit /\ [][ChartNext]_chartVars

-----------------------------------------------------------------------------
(* What is promised                                                         *)

\* Some reading entered, and none since has left.
Latched(Enters(_), Leaves(_)) ==
  \E i \in DOMAIN readings :
    /\ Enters(readings[i])
    /\ \A j \in i .. Len(readings) : ~Leaves(readings[j])

\* The anti-flicker promise of the regimes, over all that was ever seen: an
\* extreme regime holds exactly if its entry threshold was crossed once and its
\* own exit threshold has not been crossed since, and one far jump may take it
\* to the other extreme.  compute_regime_modifier keeps only the regimes of the
\* cycle before and repeats its thresholds in three hand-written branches each.
RegimesFollowCrossings ==
  LET highVol(r) == RegimeRatio(r) >= 185   calmer(r) == RegimeRatio(r) <= 170
      lowVol(r)  == RegimeRatio(r) <= 65    livelier(r) == RegimeRatio(r) >= 75
      deep(r)    == RegimeDepth(r) >= 155   shallower(r) == RegimeDepth(r) <= 140
      thin(r)    == RegimeDepth(r) <= 45    fuller(r) == RegimeDepth(r) >= 55
      torn(r)    == Drop(r) >= 53 \/ r.roll <= 0
      mending(r) == Drop(r) <= 47 /\ r.roll > 0
      loose(r)   == Drop(r) >= 28 \/ r.roll <= 0
      tied(r)    == Drop(r) <= 22 /\ r.roll > 0
  IN  /\ modifier.volatility = "high"   <=> Latched(highVol, calmer)
      /\ modifier.volatility = "low"    <=> Latched(lowVol, livelier)
      /\ modifier.liquidity = "high"    <=> Latched(deep, shallower)
      /\ modifier.liquidity = "low"     <=> Latched(thin, fuller)
      /\ modifier.correlation = "high"  <=> Latched(torn, mending)
      /\ modifier.correlation # "low"   <=> Latched(loose, tied)

StateOf(type) == {payloads[i].state : i \in PayloadsOf(payloads, type)}
Ran(type) == PayloadsOf(payloads, type) # {}
Seen == readings[Len(readings)]

\* A hint of the expansion group never contradicts the erosion payload of the same
\* cycle, although the two are scored with different weights, floors and regime
\* factors and the engine takes a missing indicator for a quiet one: with the
\* indicator of the book active and its baseline a number, no cup and handle is
\* drawn over a depleted book and no flag over an eroding one.  The thresholds of
\* a pennant cannot all be met by one reading.
HintsHaveEvidence ==
  /\ Ran("LiquidityDisplacementZones") /\ Seen.depthKnown =>
       /\ hint.hint = "CupHandleLike" => StateOf("LiquidityErosion") # {"Depleted"}
       /\ hint.hint = "FlagLike" => StateOf("LiquidityErosion") = {"Preserved"}
  /\ hint.hint # "PennantLike"

\* Nor do two payloads of the same cycle contradict each other when there is a
\* baseline of thirty days: a strong one is not deteriorating.
StrengthAgrees ==
  payloads # <<>> /\ Seen.based =>
    ~("Strong" \in StateOf("BaselineStrengthMeter")
        /\ "Deteriorating" \in StateOf("BaselineDeterioration"))

\* A degraded stream that is listed last raises the reported stress to 85 or more.
StreamRaisesStress ==
  payloads # <<>> /\ Seen.wave = "degraded" /\ ~Seen.waveFirst => stressScore >= 8500

\* The readings of one cycle tell one story (evaluate_pattern_diagnostics and
\* evaluate_stress_regime_payload against the payloads they were given).
ChartsAgree == HintsHaveEvidence /\ StrengthAgrees /\ StreamRaisesStress
=============================================================================
