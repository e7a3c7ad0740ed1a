--------------------------- MODULE DecisionEngine ---------------------------
(***************************************************************************)
(* AILLEEngine of aille.hpp: makeDecision with its gates, its admission of *)
(* model signals and their consensus, the ring of accepted samples that a  *)
(* rejected decision falls back on, setConfig, which changes the window of *)
(* the ring while it is in use, and reset.                                 *)
(*                                                                         *)
(* engine_mtx_ makes each of the three atomic.  Positions and confidences  *)
(* are integers: Unit stands for 1.0.  A signal is worth -1, 0 or 1: the   *)
(* hundredfold consensus of such values is 0 or far into the saturation of *)
(* tanh, so that a position is Unit, -Unit or 0 before it is clamped.      *)
(***************************************************************************)
EXTENDS Integers, Sequences, FiniteSets, Functions

CONSTANTS
  Unit,        \* 1.0
  MaxWindow,   \* AILLE_MAX_FALLBACK_WINDOW
  MaxModels,   \* AILLE_MAX_MODELS
  Configs,     \* the configurations a host may choose, valid or not
  Inputs,      \* the sequences of model signals a host may pass
  Stresses     \* the stabilizer's advisory, see StressType

Positions == -Unit..Unit
Shares == 0..Unit

ConfigType ==
  [minConfidence : Int, graceConfidence : Int, minModels : Int, agreement : Int,
   window : Int, maxModels : Int, maxPosition : Int,
   scale : Int, dynamic : BOOLEAN, alpha : Int, beta : Int]

\* fault: not a number, out of range, stale, or from the future.
SignalType == [model : Int, value : {-1, 0, 1}, confidence : Shares, fault : BOOLEAN]

\* stressed: stabilization_risk_score is above 75; ok: the advisory's fields
\* are numbers in their ranges.
StressType == [stressed : BOOLEAN, limit : Shares, ok : BOOLEAN]

ASSUME EngineAssumption ==
  /\ Unit \in Nat \ {0} /\ MaxWindow \in Nat \ {0} /\ MaxModels \in Nat \ {0}
  /\ Configs \subseteq ConfigType
  /\ Inputs \subseteq Seq(SignalType)
  /\ Stresses \subseteq StressType

VARIABLES
  config,       \* the configuration in force
  values,       \* fallback_buffer
  confidences,  \* confidence_buffer
  head,         \* fallback_head_
  count,        \* fallback_count_
  last          \* the decision returned last, with the votes it was taken on

ring == <<values, confidences, head, count>>
vars == <<config, ring, last>>

Slots == 0..(MaxWindow - 1)

Statuses == {"none", "VALID", "REJECTED", "FALLBACK", "NO_MODELS"}

\* cap is the position limit that was in force; up and down count the
\* admitted signals of either sign.
DecisionType ==
  [status : Statuses, value : Positions, cap : Int, strict : BOOLEAN,
   up : Nat, down : Nat]

\* The configurations of which validateConfig approves.
Valid(c) ==
  /\ c.minConfidence \in 1..Unit
  /\ c.graceConfidence \in 0..c.minConfidence
  /\ c.minModels >= 1 /\ c.minModels <= c.maxModels /\ c.minModels <= MaxModels
  /\ c.window >= 1
  /\ c.agreement \in 1..100
  /\ c.maxPosition \in 1..Unit
  /\ c.scale \in 0..Unit /\ c.alpha >= 0 /\ c.beta >= 0

Least(a, b) == IF a < b THEN a ELSE b

\* The modulus of the ring.
WindowOf(c) == Least(IF c.window < 1 THEN 1 ELSE c.window, MaxWindow)

NoVotes == [up |-> 0, down |-> 0]

Init ==
  /\ config \in Configs
  /\ values = [n \in Slots |-> 0]
  /\ confidences = [n \in Slots |-> 0]
  /\ head = 0 /\ count = 0
  /\ last = [status |-> "none", value |-> 0, cap |-> Unit, strict |-> FALSE, up |-> 0, down |-> 0]

Clamp(x, low, high) == IF x < low THEN low ELSE IF x > high THEN high ELSE x

-----------------------------------------------------------------------------
(* Signals and consensus. *)

\* The signals that are looked at, by their places.
Processed(c, signals) == 1..Least(Len(signals), Least(c.maxModels, MaxModels))

\* One fault or one model that speaks twice rejects the whole call.
Malformed(signals, places) ==
  \E i \in places :
    signals[i].fault \/ \E j \in places : j < i /\ signals[j].model = signals[i].model

\* applySafetyLayerFast: signals above the threshold weigh in fully, those
\* within the grace range with four fifths of their confidence.  Weights are
\* in tenths of the confidence unit.
Weight(c, s) ==
  IF s.confidence >= c.minConfidence THEN 10 * s.confidence ELSE 8 * s.confidence
Admitted(c, signals) ==
  {i \in Processed(c, signals) : signals[i].confidence >= c.graceConfidence}

Up(s) == s.value >= 0

\* Mutant: the middle of the unsorted values.
MedianUnsorted(signals, admitted) ==
  CHOOSE i \in admitted : Cardinality({j \in admitted : j < i}) = Cardinality(admitted) \div 2

\* Whose value nth_element puts at position n \div 2 of n values, counted from 0.
Median(signals, admitted) ==
  LET n == Cardinality(admitted)
      Below(v) == Cardinality({i \in admitted : signals[i].value < v})
      UpTo(v) == Cardinality({i \in admitted : signals[i].value <= v})
  IN  CHOOSE i \in admitted :
        Below(signals[i].value) <= n \div 2 /\ n \div 2 < UpTo(signals[i].value)

Agreeing(signals, admitted) ==
  {i \in admitted : Up(signals[i]) = Up(signals[Median(signals, admitted)])}

TotalWeight(c, signals, places) ==
  SumFunctionOnSet([i \in DOMAIN signals |-> Weight(c, signals[i])], places)

\* checkConsensusFast, for the admitted signals.
Consensus(c, signals, admitted) ==
  /\ Cardinality(admitted) >= c.minModels
  /\ LET agreeing == Agreeing(signals, admitted)
     IN  /\ 100 * Cardinality(agreeing) >= c.agreement * Cardinality(admitted)
         /\ Cardinality(agreeing) >= c.minModels
         /\ TotalWeight(c, signals, agreeing) > 0

\* The sign of the weighted mean of the agreeing signals.
Direction(c, signals, admitted) ==
  LET mean == SumFunctionOnSet([i \in DOMAIN signals |-> Weight(c, signals[i]) * signals[i].value],
                               Agreeing(signals, admitted))
  IN  IF mean > 0 THEN 1 ELSE IF mean < 0 THEN -1 ELSE 0

\* smoothPosition.
SmoothPosition(c, stress, direction) ==
  LET limit == IF stress.stressed THEN Least(c.maxPosition, stress.limit) ELSE c.maxPosition
  IN  Clamp(direction * Unit, -limit, limit)

\* The mean confidence of the admitted signals.
MeanConfidence(c, signals, admitted) ==
  TotalWeight(c, signals, admitted) \div (10 * Cardinality(admitted))

\* The mean confidences a decision can have here, and that of an empty slot.
MeanConfidences ==
  {0} \union
  {MeanConfidence(x[1], x[2], Admitted(x[1], x[2])) :
     x \in {y \in Configs \X Inputs : Consensus(y[1], y[2], Admitted(y[1], y[2]))}}

-----------------------------------------------------------------------------
(* The ring. *)

Sample == [value : Positions, confidence : MeanConfidences]
SampleAt(n) == [value |-> values[n], confidence |-> confidences[n]]

RingOK ==
  /\ config \in Configs
  /\ values \in [Slots -> Positions]
  /\ confidences \in [Slots -> MeanConfidences]
  /\ head \in 0..(WindowOf(config) - 1)
  /\ count \in 0..WindowOf(config)

TypeOK == RingOK /\ MeanConfidences \subseteq Shares /\ last \in DecisionType

\* getFallbackValue: the sign of the samples' sum, a scale, and the hard cap.
Used == 0..(count - 1)
SumOver(f) == SumFunctionOnSet(f, Used)

\* Mutant: the hard cap is left to the configuration.
FallbackUncapped ==
  IF count = 0 THEN 0
  ELSE LET sign == IF SumOver(values) >= 0 THEN 1 ELSE -1
           scale == IF config.dynamic
                    THEN Clamp((config.alpha * SumOver(confidences)) \div count + config.beta,
                               Unit \div 10, Unit \div 2)
                    ELSE config.scale
       IN  sign * scale

FallbackValue ==
  IF count = 0 THEN 0
  ELSE LET sign == IF SumOver(values) >= 0 THEN 1 ELSE -1
           scale == IF config.dynamic
                    THEN Clamp((config.alpha * SumOver(confidences)) \div count + config.beta,
                               Unit \div 10, Unit \div 2)
                    ELSE config.scale
       IN  Clamp(sign * scale, -config.maxPosition, config.maxPosition)

\* updateFallbackBuffer.
UpdateRing(value, confidence) ==
  /\ values' = [values EXCEPT ![head] = value]
  /\ confidences' = [confidences EXCEPT ![head] = confidence]
  /\ head' = (head + 1) % WindowOf(config)
  /\ count' = Least(count + 1, WindowOf(config))

\* The slot of the i-th of the newest n samples, counted from 0.
SlotOf(i, n, w) == (head + w - n + i) % w

\* Mutants: the oldest samples are the ones retained; the ring is not repacked
\* when the window grows.
RepackFromZero(w) ==
  LET retained == Least(count, w)
  IN  /\ values' = [n \in Slots |-> IF n < retained THEN values[n] ELSE 0]
      /\ confidences' = [n \in Slots |-> IF n < retained THEN confidences[n] ELSE 0]
      /\ count' = retained
      /\ head' = retained % w
RepackHeadOnly(w) ==
  /\ count' = Least(count, w)
  /\ head' = head % w
  /\ UNCHANGED <<values, confidences>>

\* setConfig moves the newest samples to the front of the buffers.
Repack(w) ==
  LET old == WindowOf(config)
      retained == Least(count, w)
  IN  /\ values' = [n \in Slots |-> IF n < retained THEN values[SlotOf(n, retained, old)] ELSE 0]
      /\ confidences' =
           [n \in Slots |-> IF n < retained THEN confidences[SlotOf(n, retained, old)] ELSE 0]
      /\ count' = retained
      /\ head' = retained % w

-----------------------------------------------------------------------------
(* The operations. *)

Return(status, value, votes) ==
  last' = [status |-> status, value |-> value, cap |-> config.maxPosition,
           strict |-> config.agreement > 50, up |-> votes.up, down |-> votes.down]

\* A call that leaves before the signals are looked at: a kill switch, a
\* hardware fault or a unified runtime that denies execution, an invalid
\* configuration, an invalid stabilizer advisory, or no signals at all.
Denied(status) ==
  /\ last' = [status |-> status, value |-> 0, cap |-> Unit, strict |-> FALSE, up |-> 0, down |-> 0]
  /\ UNCHANGED <<config, ring>>

GateShut == Denied("FALLBACK")

InvalidConfig == ~Valid(config) /\ Denied("NO_MODELS")

InvalidStress == Valid(config) /\ (\E s \in Stresses : ~s.ok) /\ Denied("FALLBACK")

NoModels == Valid(config) /\ <<>> \in Inputs /\ Denied("NO_MODELS")

\* A malformed call, or one without admitted signals or consensus.
Reject(signals) ==
  /\ Valid(config) /\ signals # <<>>
  /\ \/ Malformed(signals, Processed(config, signals))
     \/ ~Consensus(config, signals, Admitted(config, signals))
  /\ Return("REJECTED", FallbackValue, NoVotes)
  /\ UNCHANGED <<config, ring>>

Votes(signals, admitted) ==
  [up |-> Cardinality({i \in admitted : Up(signals[i])}),
   down |-> Cardinality({i \in admitted : ~Up(signals[i])})]

Decide(signals, stress) ==
  LET admitted == Admitted(config, signals)
      value == SmoothPosition(config, stress, Direction(config, signals, admitted))
  IN  /\ Valid(config) /\ stress.ok /\ signals # <<>>
      /\ ~Malformed(signals, Processed(config, signals)) /\ Consensus(config, signals, admitted)
      /\ Return("VALID", value, Votes(signals, admitted))
      /\ UpdateRing(value, MeanConfidence(config, signals, admitted))
      /\ UNCHANGED config

\* setConfig throws for an invalid configuration and changes nothing.
SetConfig(c) ==
  /\ Valid(c)
  /\ config' = c
  /\ IF WindowOf(c) = WindowOf(config) THEN UNCHANGED ring ELSE Repack(WindowOf(c))
  /\ UNCHANGED last

Reset ==
  /\ values' = [n \in Slots |-> 0]
  /\ confidences' = [n \in Slots |-> 0]
  /\ head' = 0 /\ count' = 0
  /\ UNCHANGED <<config, last>>

MakeDecision ==
  \/ GateShut \/ InvalidConfig \/ InvalidStress \/ NoModels
  \/ \E signals \in Inputs :
       Reject(signals) \/ \E stress \in Stresses : Decide(signals, stress)

Next == MakeDecision \/ (\E c \in Configs : SetConfig(c)) \/ Reset

Spec == Init /\ [][Next]_vars

-----------------------------------------------------------------------------
(* Properties. *)

\* The samples of the ring, oldest first.
Retained == [i \in 1..count |-> SampleAt(SlotOf(i - 1, count, WindowOf(config)))]

\* The ring is the bounded history, through every change of the window and
\* with a configuration that was invalid at first (updateFallbackBuffer,
\* setConfig "retain the newest accepted samples").
History == INSTANCE BoundedHistory WITH
  Samples <- Sample, window <- WindowOf(config), history <- Retained
ImplementsHistory == History!Spec

\* The fallback sums over the first count slots wherever the head stands: they
\* are the samples of the ring, each once.
FallbackReadsHistory == {SlotOf(i, count, WindowOf(config)) : i \in Used} = Used

\* Every position returned is within the cap in force when it was decided,
\* fallbacks included ("the hard envelope is authoritative on every rejection
\* path too").
EnvelopeHolds == last.value \in (-last.cap)..last.cap

\* A valid decision goes with the majority of the admitted models, and against
\* an equal number only if the agreement threshold admits one half.
MajorityDecides ==
  last.status = "VALID" =>
    /\ last.value > 0 => last.up >= last.down
    /\ last.value < 0 => last.down >= last.up
    /\ last.strict => last.up # last.down
=============================================================================
