--------------------------- MODULE VolumeAdvisory ---------------------------
(***************************************************************************)
(* The advisory of intraday volume (extensions/aille_volume_advisory.hpp)   *)
(* and the Fibonacci signals it takes (compute_fib_advisory and             *)
(* extensions/fibonacci.hpp), as functions of what they read.               *)
(* Units: prices and deviations in thousandths, ratios and thresholds in    *)
(* hundredths, scores in thousandths, risks and weights in ten-thousandths. *)
(***************************************************************************)
EXTENDS Integers, FiniteSetsExt

Modes == {"STANDARD", "CONSERVATIVE", "HYPER", "CONTRARIAN"}

\* VolumeState: "smooth" is the ratio before, or zero; "prev" the weight before,
\* or -1; "hft" the impulse of the micro-tick, or a record that is off.
ImpulseType == [on : BOOLEAN, valid : BOOLEAN, delta : -100 .. 100, bullish : BOOLEAN]
VolumeType ==
  [malformed : BOOLEAN, ratio : Nat, before : Nat, change : Int, vwap : Int,
   prev : -1 .. 10000, override : -1 .. 1, etf : BOOLEAN, hft : ImpulseType]

FullWeight == 10000
Bound(x, lo, hi) == Max({lo, Min({x, hi})})
Apart(x, y) == IF x >= y THEN x - y ELSE y - x
SizeOf(x) == Apart(x, 0)

-----------------------------------------------------------------------------
(* Fibonacci signals                                                        *)

NoFib == [zone |-> FALSE, buy |-> FALSE, contrarian |-> FALSE, breakout |-> FALSE, sell |-> FALSE]

\* Levels in thousandths of the price.
Retracements(q) == {q.high * 1000 - (q.high - q.low) * k : k \in {236, 382, 618, 786}}
Extensions(q) == {q.high * 1000 + (q.high - q.low) * k : k \in {1272, 1618, 2618}}
Retraced(q, k) == q.high * 1000 - (q.high - q.low) * k
NearOne(q, levels) == \E l \in levels : Apart(q.price * 1000, l) <= 2 * q.high

Busy(q, tenths) == q.average > 0 /\ q.volume * 10 >= tenths * q.average
Exhausted(q) == q.average > 0 /\ q.volume * 10 <= 8 * q.average

compute_fib_advisory(mode, q) ==
  IF q.high <= q.low \/ q.price <= 0 THEN NoFib
  ELSE
    LET extension == NearOne(q, Extensions(q))
        zone == NearOne(q, Retracements(q)) \/ extension
        high == q.price * 1000 >= Retraced(q, 382)
        deep == \/ q.price * 1000 <= Retraced(q, 618)
                \/ q.price * 1000 <= q.low * 1000 + 236 * (q.high - q.low)
    IN  [zone |-> zone,
         buy |-> mode = "CONSERVATIVE" /\ Busy(q, 12) /\ NearOne(q, Retracements(q)),
         breakout |-> mode = "HYPER" /\ zone /\ Busy(q, 13) /\ (high \/ extension),
         contrarian |-> mode = "CONTRARIAN" /\ zone /\ Busy(q, 13) /\ deep,
         sell |-> \/ mode = "HYPER" /\ extension
                  \/ mode \in {"CONSERVATIVE", "CONTRARIAN"} /\ extension /\ Exhausted(q)]

-----------------------------------------------------------------------------
(* evaluate_volume_state                                                    *)

\* Malformed inputs, a kill switch or an impulse that is not a number.
Refused(score) ==
  [weight |-> 0, risk |-> 10000, elevated |-> TRUE, growth |-> FALSE,
   score |-> score, oversold |-> FALSE, buy |-> FALSE, hft |-> FALSE]

Smoothed(v) == IF v.before > 0 THEN (2 * v.ratio + 8 * v.before) \div 10 ELSE v.ratio

OversoldScore(v) ==
  (400 * Max({0, -v.change - 7})) \div 15 + (300 * Max({0, -v.vwap - 5})) \div 15
    + (300 * Max({0, Smoothed(v) - 150})) \div 200
FallsHard(v) == v.change <= -12 /\ v.vwap <= -8 /\ Smoothed(v) >= 250
Falls(v) == v.change <= -7 /\ v.vwap <= -5 /\ Smoothed(v) >= 180

ContrarianMode(mode) == mode \in {"CONTRARIAN", "HYPER"}

\* The weight a Fibonacci signal scales before this is computed anew later: only
\* the threshold and the state that the signal forces come through.
OversoldThreshold(v, mode, fib) ==
  (IF ContrarianMode(mode) THEN 650 ELSE IF v.etf THEN 600 ELSE 1000)
    - (IF fib.zone /\ fib.buy THEN 20 ELSE 0)
    - (IF fib.contrarian /\ ContrarianMode(mode) THEN 30 ELSE 0)
Oversold(v, mode, fib) ==
  \/ OversoldScore(v) >= OversoldThreshold(v, mode, fib)
  \/ FallsHard(v)
  \/ v.etf /\ Falls(v)
  \/ fib.buy \/ fib.contrarian

ContrarianBuy(v, enabled, mode, fib) ==
  /\ CASE v.override = 1 -> TRUE
       [] v.override = -1 -> FALSE
       [] OTHER -> enabled \/ ContrarianMode(mode)
  /\ Oversold(v, mode, fib)

OwnRisk(v) ==
  Bound(Smoothed(v) * 15 + 20 * Max({0, -v.change}) + 15 * SizeOf(v.vwap), 0, 10000)

\* In hundredths.
Multiplier(v, mode) ==
  (IF ContrarianMode(mode) THEN 125 ELSE 115)
    + (IF OversoldScore(v) >= 900 \/ FallsHard(v) THEN 5 ELSE 0)

Scaled(weight, percent) == (weight * percent) \div 100

\* The weight before the impulse of the micro-tick.
BaseWeight(v, buy, mode, stabilizer) ==
  LET own == FullWeight - OwnRisk(v)
      bought == IF buy THEN Scaled(own, Multiplier(v, mode)) ELSE own
  IN  Bound(Scaled(bought, stabilizer.factor), 0, FullWeight)

\* The impulse moves the weight by half at most, a bullish bias by a tenth more.
Impelled(weight, v) ==
  LET trend == v.change > 0 \/ v.hft.delta > 0
      moved == Scaled(weight, 100 + Bound(v.hft.delta, -50, 50))
  IN  IF ~v.hft.on THEN weight
      ELSE Bound(IF v.hft.bullish /\ trend /\ Smoothed(v) >= 100 THEN Scaled(moved, 110) ELSE moved,
                 0, FullWeight)

MaxDriftOfWeight == 1500

\* Temporal step clamping
Drifted(weight, v) ==
  IF v.prev \in 0 .. FullWeight
  THEN Bound(Bound(weight, v.prev - MaxDriftOfWeight, v.prev + MaxDriftOfWeight), 0, FullWeight)
  ELSE weight

evaluate_volume_state(v, killed, stabilizer, enabled, mode, fib) ==
  IF v.malformed \/ killed THEN Refused(0)
  ELSE IF v.hft.on /\ ~v.hft.valid
    THEN [Refused(OversoldScore(v)) EXCEPT !.oversold = Oversold(v, mode, fib)]
  ELSE
    LET buy == ContrarianBuy(v, enabled, mode, fib)
        elevated == OwnRisk(v) > 6000 \/ (Smoothed(v) > 400 /\ v.change < -10)
    IN  [weight |-> Drifted(Impelled(BaseWeight(v, buy, mode, stabilizer), v), v),
         risk |-> IF stabilizer.elevated THEN Max({stabilizer.risk, OwnRisk(v)}) ELSE OwnRisk(v),
         elevated |-> elevated \/ stabilizer.elevated,
         growth |-> ~(elevated \/ stabilizer.elevated) /\ Smoothed(v) > 120 /\ v.change > 0,
         score |-> OversoldScore(v),
         oversold |-> Oversold(v, mode, fib), buy |-> buy, hft |-> v.hft.on]
=============================================================================
