---------------------------- MODULE AdvisoryCycle ----------------------------
(***************************************************************************)
(* The advisories that AILLEEngine::makeDecision evaluates on the caller's  *)
(* thread before it takes engine_mtx_ (evaluate_unified_advisories in       *)
(* aille.hpp): one advisory per asset, then volume, anomalies, the macro    *)
(* layer and the market stabilizer, which scale the weights of all assets   *)
(* in place.  The wave stream and the unified runtime of the same cycle are *)
(* in WaveStream and UnifiedRuntime.  Weights are ten-thousandths, other    *)
(* fractions hundredths.                                                    *)
(***************************************************************************)
EXTENDS VolumeAdvisory, Sequences

CONSTANTS Callers,       \* threads that call makeDecision
          Markets,       \* what a cycle may see
          Quotes,        \* what compute_fib_advisory may be asked
          WithoutState,  \* sets of assets given an advisory but no state
          MaxCycles,     \* bound: cycles of all the callers
          MaxFlips       \* bound: changes of the kill switch

\* The order of evaluate_unified_advisories.
AssetOrder == <<"btc", "eth", "oil", "gold", "silver", "copper", "natgas", "platinum", "forex_usd">>
AdvisedAssets == {AssetOrder[i] : i \in DOMAIN AssetOrder}
CycleOrder == AssetOrder \o <<"volume", "anomaly", "macro", "stabilizer">>

AssetStateType == [vol : Nat, drawdown : 0 .. 100, trend : -100 .. 100, smoothed : Nat]
MacroType == [attached : BOOLEAN, base : Int, dampening : 0 .. 100]
StabilizerType ==
  [attached : BOOLEAN, vol : 0 .. 100, spread : 0 .. 100, depth : 0 .. 100, crashes : 0 .. 100,
   regime : 0 .. 100]
AnomalyType == [valid : BOOLEAN, ratio : Nat, thinning : 0 .. 100, drop : -200 .. 200,
                debounced : SUBSET {"volatility", "liquidity", "correlation"}]

MarketType ==
  [asset : AssetStateType, volume : VolumeType, anomaly : AnomalyType, macro : MacroType,
   stabilizer : StabilizerType, contrarian : BOOLEAN]
QuoteType == [price : Int, high : Int, low : Int, volume : Nat, average : Nat]

ASSUME AdvisoryAssumption ==
    /\ \A m \in Markets : m \in MarketType
    /\ \A q \in Quotes : q \in QuoteType
    /\ \A set \in WithoutState : set \subseteq AdvisedAssets
    /\ MaxCycles \in Nat /\ MaxFlips \in Nat

VARIABLES
    market,       \* the states the engine points to
    killed,       \* SafetyState: kill_switch or hardware_fault
    stateless,    \* assets whose state was never attached
    advisories,   \* asset -> its advisory
    volume, anomaly, macro, stabilizer,   \* the other advisories
    flips,        \* changes of killed
    at,           \* caller -> how many steps of its cycle are done
    cycles,
    seen,         \* values of killed during the cycle; none since the states changed
    fib, advised  \* a Fibonacci advisory, and the volume advisory with and without it

advisoryVars == <<market, killed, stateless, advisories, volume, anomaly, macro, stabilizer,
                  flips, at, cycles, seen, fib, advised>>

-----------------------------------------------------------------------------
(* Advisories of assets                                                     *)

Advice(risk, elevated, growth) ==
  [weight |-> FullWeight - risk, risk |-> risk, elevated |-> elevated, growth |-> growth]
Stopped == [weight |-> 0, risk |-> 10000, elevated |-> TRUE, growth |-> FALSE]

\* fibonacci_weighted_average of four values, and of three: newest last
Average4(a, b, c, d) == (3 * a + 2 * b + c + d) \div 7
Fall(s) == 50 * Max({0, -s.trend})

evaluate_btc_state(s, stop) ==
  LET risk == Bound((2000 * s.vol + 1000 * s.drawdown + 8 * Fall(s)) \div 38, 0, 10000)
      elevated == risk > 6000 \/ s.drawdown > 15
  IN  IF stop THEN Stopped ELSE Advice(risk, elevated, ~elevated /\ s.trend > 10)

evaluate_eth_state(s, stop) ==
  LET risk == Bound((3000 * s.vol + 2000 * s.drawdown + 8 * Fall(s) + 1000 * s.smoothed) \div 68, 0, 10000)
      elevated == risk > 7000 \/ s.drawdown > 20
  IN  IF stop THEN Stopped ELSE Advice(risk, elevated, ~elevated /\ s.trend > 5)

\* A rising trend counts as risk here, a falling one against it.
SignedRisk(s) == Bound(100 * Average4(s.vol, s.drawdown, s.trend, s.smoothed), 0, 10000)
Commodity(s, stop) ==
  LET elevated == SignedRisk(s) > 6000 \/ s.drawdown > 15
  IN  IF stop THEN Stopped ELSE Advice(SignedRisk(s), elevated, ~elevated /\ s.trend > 10)

\* Six copies of the same code.
evaluate_oil_state(s, stop) == Commodity(s, stop)
evaluate_gold_state(s, stop) == Commodity(s, stop)
evaluate_silver_state(s, stop) == Commodity(s, stop)
evaluate_copper_state(s, stop) == Commodity(s, stop)
evaluate_natgas_state(s, stop) == Commodity(s, stop)
evaluate_platinum_state(s, stop) == Commodity(s, stop)

evaluate_forex_usd_state(s, stop) ==
  IF stop THEN Stopped
  ELSE Advice(SignedRisk(s), SignedRisk(s) > 7500, SignedRisk(s) < 4000 /\ s.trend > 0)

AdviceFor(a, s, stop) ==
  CASE a = "btc" -> evaluate_btc_state(s, stop)      [] a = "eth" -> evaluate_eth_state(s, stop)
    [] a = "oil" -> evaluate_oil_state(s, stop)      [] a = "gold" -> evaluate_gold_state(s, stop)
    [] a = "silver" -> evaluate_silver_state(s, stop) [] a = "copper" -> evaluate_copper_state(s, stop)
    [] a = "natgas" -> evaluate_natgas_state(s, stop) [] a = "platinum" -> evaluate_platinum_state(s, stop)
    [] a = "forex_usd" -> evaluate_forex_usd_state(s, stop)

-----------------------------------------------------------------------------
(* The layers over them                                                     *)

\* evaluate_macro_advisory: the historical base is zero unless the host sets it.
MacroWeight(m, stop) == IF stop THEN 0 ELSE Bound((m.base * m.dampening) \div 100, 0, 100)

NoStabilizer == [factor |-> 100, risk |-> 0, elevated |-> FALSE]

StabilizerStress(s) ==
  Bound((30 * s.vol + 20 * s.spread + 9 * s.depth + 4 * (s.crashes + s.regime)) \div 67, 0, 100)

evaluate_market_stabilizer_advisory(s, stop) ==
  LET stress == StabilizerStress(s)
      factor == IF stress > 75 THEN 15 ELSE IF stress > 40 THEN 50 ELSE 100
  IN  IF stop THEN [factor |-> 0, risk |-> 10000, elevated |-> TRUE]
      ELSE [factor |-> IF s.spread > 60 THEN (factor * 8) \div 10 ELSE factor,
            risk |-> stress * 100, elevated |-> stress > 75]

Quiet16 == [found |-> {}, severity |-> 0, active |-> FALSE]
\* The anomalies found, of those the host has counted often enough.
evaluate_anomaly_advisory(s, stop) ==
  LET raw == {k \in {"volatility", "liquidity", "correlation"} :
                CASE k = "volatility" -> s.ratio >= 250
                  [] k = "liquidity" -> s.thinning >= 50
                  [] k = "correlation" -> s.drop >= 40}
      severity == Bound((s.ratio - 100) * 20, 0, 4000) + s.thinning * 30 + Bound(s.drop * 30, 0, 3000)
  IN  IF stop THEN [Quiet16 EXCEPT !.severity = 10000]
      ELSE IF ~s.valid THEN Quiet16
      ELSE [found |-> raw \cap s.debounced, severity |-> severity,
            active |-> raw \cap s.debounced # {}]

\* Mutant: the advisories of the cycle before are scaled again.
EvaluatedOnce(list, a, m, stop) ==
  [list EXCEPT ![a] = [AdviceFor(a, m.asset, stop) EXCEPT !.weight = Min({@, list[a].weight})]]

\* evaluate_<asset>_advisory: nothing without a state
Evaluated(list, a, m, stop) == [list EXCEPT ![a] = AdviceFor(a, m.asset, stop)]

\* Both layers scale whatever advisories are attached, in place.
ScaleAll(list, percent) ==
  [a \in AdvisedAssets |-> [list[a] EXCEPT !.weight = Scaled(@, percent)]]

-----------------------------------------------------------------------------
(* The cycle                                                                *)

Fresh == [weight |-> FullWeight, risk |-> 0, elevated |-> FALSE, growth |-> TRUE]
FreshVolume == [weight |-> FullWeight, risk |-> 0, elevated |-> FALSE, growth |-> TRUE,
                score |-> 0, oversold |-> FALSE, buy |-> FALSE, hft |-> FALSE]

AdvisoryInit ==
  /\ market \in Markets /\ killed \in BOOLEAN /\ stateless \in WithoutState
  /\ advisories = [a \in AdvisedAssets |-> Fresh]
  /\ volume = FreshVolume /\ anomaly = Quiet16 /\ macro = 100 /\ stabilizer = NoStabilizer
  /\ at = [c \in Callers |-> Len(CycleOrder)]
  /\ cycles = 0 /\ seen = {} /\ flips = 0
  /\ fib = NoFib /\ advised = <<>>

Finished(c) == at[c] = Len(CycleOrder)
Idle == \A c \in Callers : Finished(c)

\* makeDecision is called: its cycle starts from the first advisory.
StartCycle(c) ==
  /\ Finished(c) /\ cycles < MaxCycles
  /\ at' = [at EXCEPT ![c] = 0]
  /\ cycles' = cycles + 1
  /\ seen' = {killed}
  /\ UNCHANGED <<market, killed, stateless, advisories, volume, anomaly, macro, stabilizer, flips, fib, advised>>

Reached(c, step) ==
  /\ ~Finished(c) /\ CycleOrder[at[c] + 1] = step
  /\ at' = [at EXCEPT ![c] = @ + 1]
  /\ UNCHANGED <<market, killed, stateless, flips, cycles, seen, fib, advised>>

EvaluateAsset(c, a) ==
  /\ Reached(c, a)
  /\ advisories' = IF a \in stateless THEN advisories ELSE Evaluated(advisories, a, market, killed)
  /\ UNCHANGED <<volume, anomaly, macro, stabilizer>>

\* With the stabilizer advisory of the cycle before, in STANDARD mode and without
\* any Fibonacci advisory.
EvaluateVolume(c) ==
  /\ Reached(c, "volume")
  /\ volume' = evaluate_volume_state(market.volume, killed, stabilizer, market.contrarian, "STANDARD", NoFib)
  /\ UNCHANGED <<advisories, anomaly, macro, stabilizer>>

EvaluateAnomaly(c) ==
  /\ Reached(c, "anomaly")
  /\ anomaly' = evaluate_anomaly_advisory(market.anomaly, killed)
  /\ UNCHANGED <<advisories, volume, macro, stabilizer>>

EvaluateMacro(c) ==
  /\ Reached(c, "macro")
  /\ IF ~market.macro.attached THEN UNCHANGED <<macro, advisories>>
     ELSE /\ macro' = MacroWeight(market.macro, killed)
          /\ advisories' = ScaleAll(advisories, macro')
  /\ UNCHANGED <<volume, anomaly, stabilizer>>

EvaluateStabilizer(c) ==
  /\ Reached(c, "stabilizer")
  /\ IF ~market.stabilizer.attached THEN UNCHANGED <<stabilizer, advisories>>
     ELSE /\ stabilizer' = evaluate_market_stabilizer_advisory(market.stabilizer, killed)
          /\ advisories' = ScaleAll(advisories, stabilizer'.factor)
  /\ UNCHANGED <<volume, anomaly, macro>>

-----------------------------------------------------------------------------
(* The host                                                                 *)

\* Between cycles: new states, the weight before fed back to the volume layer.
Sense(m) ==
  /\ Idle /\ cycles < MaxCycles
  /\ market' = [m EXCEPT !.volume.prev = volume.weight]
  /\ seen' = {}
  /\ UNCHANGED <<killed, stateless, advisories, volume, anomaly, macro, stabilizer, flips, at, cycles, fib, advised>>

\* A monitor writes the flags at any time.
SetKillSwitch(on) ==
  /\ killed # on /\ flips < MaxFlips
  /\ killed' = on /\ flips' = flips + 1
  /\ seen' = IF Idle THEN seen ELSE seen \cup {on}
  /\ UNCHANGED <<market, stateless, advisories, volume, anomaly, macro, stabilizer, at, cycles, fib, advised>>

\* A host that asks for the volume advisory itself may pass a Fibonacci advisory.
Consult(mode, q) ==
  /\ Idle /\ cycles = MaxCycles /\ advised = <<>>   \* bound: once, after the last cycle
  /\ fib' = compute_fib_advisory(mode, q)
  /\ LET with(f) == evaluate_volume_state(market.volume, killed, stabilizer, market.contrarian, mode, f)
     IN  advised' = <<with(NoFib), with(fib')>>
  /\ UNCHANGED <<market, killed, stateless, advisories, volume, anomaly, macro, stabilizer, flips, at, cycles, seen>>

AdvisoryNext ==
  \/ \E c \in Callers :
       \/ StartCycle(c) \/ EvaluateVolume(c) \/ EvaluateAnomaly(c)
       \/ EvaluateMacro(c) \/ EvaluateStabilizer(c)
       \/ \E a \in AdvisedAssets : EvaluateAsset(c, a)
  \/ \E m \in Markets : Sense(m)
  \/ \E on \in BOOLEAN : SetKillSwitch(on)
  \/ \E mode \in Modes, q \in Quotes : Consult(mode, q)

AdvisorySpec == AdvisoryInit /\ [][AdvisoryNext]_advisoryVars

-----------------------------------------------------------------------------
(* What is promised                                                         *)

\* The weight an asset has when every layer has scaled its own advice once.
FinalWeight(a) ==
  LET own == AdviceFor(a, market.asset, FALSE).weight
      kept == IF ~market.macro.attached THEN own ELSE Scaled(own, MacroWeight(market.macro, FALSE))
  IN  IF ~market.stabilizer.attached THEN kept
      ELSE Scaled(kept, evaluate_market_stabilizer_advisory(market.stabilizer, FALSE).factor)

\* After a cycle of makeDecision each weight is the asset's own, scaled once by
\* the macro layer and once by the stabilizer, whatever earlier cycles left in the
\* advisory; or zero, if a kill switch was seen on the way, and nothing but zero if
\* it was on throughout.
WeightsScaledOnce ==
  Idle /\ seen # {} =>
    \A a \in AdvisedAssets \ stateless :
      /\ advisories[a].weight \in {FinalWeight(a), 0}
      /\ seen = {TRUE} => advisories[a].weight = 0
      /\ seen = {FALSE} => advisories[a].weight = FinalWeight(a)

\* A volume advisory x that a stop, or a state v that cannot be used, took to zero.
VolumeStopped(x, v, during) ==
  /\ x.weight = 0 /\ x.elevated /\ ~x.buy
  /\ TRUE \in during \/ v.malformed \/ (v.hft.on /\ ~v.hft.valid)

\* From one cycle to the next the volume weight moves by 0.15 at most, the way back
\* from a stop included; only a stop or a state that cannot be used takes it to zero
\* at once.
VolumeSteps ==
  Idle /\ seen # {} /\ market.volume.prev >= 0 =>
    \/ Apart(volume.weight, market.volume.prev) <= MaxDriftOfWeight
    \/ VolumeStopped(volume, market.volume, seen)

\* A Fibonacci advisory that wants to buy never wants to sell, and where the volume
\* advisory recommends nothing without it, stopped or at full risk, it recommends
\* nothing with it but what rounding leaves.
FibSignalsAgree ==
  /\ ~(fib.sell /\ (fib.buy \/ fib.contrarian))
  /\ advised # <<>> /\ advised[1].weight = 0 => advised[2].weight <= 1

\* The advisories after a cycle (evaluate_unified_advisories and what it calls).
AdvisoriesSettle == WeightsScaledOnce /\ VolumeSteps /\ FibSignalsAgree
=============================================================================
