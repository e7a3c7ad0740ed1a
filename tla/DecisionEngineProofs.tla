------------------------ MODULE DecisionEngineProofs ------------------------
(***************************************************************************)
(* Proofs about the decision engine, the advisories it evaluates and the    *)
(* parts beside it.                                                         *)
(*  - The engine's ring: for every buffer size, window and sequence of      *)
(*    configuration changes it is well formed, a fallback sums over just    *)
(*    the retained samples, and it implements the bounded history.  The     *)
(*    inductive invariant adds to the types that a ring that is not full    *)
(*    starts in slot 0: setConfig and reset pack it so.                     *)
(*  - The engine's decisions: whatever is signalled, each lies in the       *)
(*    envelope in force and goes with the majority of the admitted models.  *)
(*  - The ring of one producer and one consumer implements a queue.         *)
(*  - The regimes of the charts are latches over all readings.              *)
(*  - The first factory registered under a name stays.                      *)
(*  - What the charts list, read and draw from one cycle agrees: payloads   *)
(*    name active indicators, the score and the hint follow from them.  The *)
(*    invariant says what the last cycle has read.                          *)
(*  - The advisories settle: for any number of callers the volume weight    *)
(*    moves in steps and a stop reaches every asset, and for one caller     *)
(*    each weight is scaled once by each layer.  The invariants follow a    *)
(*    weight through the thirteen steps of a cycle.                         *)
(***************************************************************************)
EXTENDS DecisionEngine, SpscRing, ChartIntelligence, AdvisoryCycle,
        PluginRegistry, FoldTheorems, FiniteSetTheorems, SequenceTheorems, TLAPS

\* A ring that is not full starts in slot 0.
Packed == count < WindowOf(config) => head = count

IInv == RingOK /\ Packed

-----------------------------------------------------------------------------
(* Windows and slots. *)

\* Every configuration, valid or not, gives the ring a modulus that fits it.
LEMMA WindowRange ==
  ASSUME NEW c \in Configs
  PROVE  WindowOf(c) \in Nat /\ WindowOf(c) >= 1 /\ WindowOf(c) <= MaxWindow
BY EngineAssumption DEF WindowOf, Least, ConfigType

\* One step around a ring of w slots.
LEMMA Wrap ==
  ASSUME NEW w \in Nat, w >= 1, NEW a \in Nat, a < 2 * w
  PROVE  a % w = IF a < w THEN a ELSE a - w
<1>1. CASE a < w
  BY <1>1, SMT
<1>2. CASE a >= w
  <2>1. a = w + (a - w) /\ a - w \in 0..(w - 1)
    BY <1>2, SMT
  <2>2. (w + (a - w)) % w = (a - w) % w
    BY <2>1, SMT
  <2>. QED BY <1>2, <2>1, <2>2, SMT
<1>. QED BY <1>1, <1>2, SMT

\* The head after one more sample.
LEMMA Advance ==
  ASSUME NEW w \in Nat, w >= 1, NEW h \in 0..(w - 1)
  PROVE  (h + 1) % w = IF h + 1 < w THEN h + 1 ELSE 0
<1>. DEFINE place == h + 1
<1>1. place \in Nat /\ place < 2 * w /\ (~(place < w) => place - w = 0)
  BY SMT
<1>2. place % w = IF place < w THEN place ELSE place - w
  <2>. HIDE DEF place
  <2>. QED BY <1>1, Wrap
<1>. QED BY <1>1, <1>2

\* Where the samples of a ring are whose head is h.
LEMMA PlaceValue ==
  ASSUME NEW w \in Nat, w >= 1, NEW h \in 0..(w - 1), NEW n \in 0..w, NEW i \in 0..(n - 1)
  PROVE  (h + w - n + i) % w = IF h - n + i < 0 THEN h - n + i + w ELSE h - n + i
<1>. DEFINE place == h + w - n + i
<1>1. place \in Nat /\ place < 2 * w
  BY SMT
<1>2. place % w = IF place < w THEN place ELSE place - w
  <2>. HIDE DEF place
  <2>. QED BY <1>1, Wrap
<1>. QED BY <1>1, <1>2

\* The slot of the i-th oldest of n samples.
LEMMA SlotValue ==
  ASSUME NEW w \in Nat, w >= 1, NEW n \in 0..w, NEW i \in 0..(n - 1), head \in 0..(w - 1)
  PROVE  /\ SlotOf(i, n, w) \in 0..(w - 1)
         /\ SlotOf(i, n, w) = IF head - n + i < 0 THEN head - n + i + w ELSE head - n + i
<1>1. SlotOf(i, n, w) = IF head - n + i < 0 THEN head - n + i + w ELSE head - n + i
  BY PlaceValue, Zenon DEF SlotOf
<1>. QED BY <1>1

-----------------------------------------------------------------------------
(* The steps. *)

\* What a valid decision stores is a sample.
LEMMA StoresSample ==
  ASSUME NEW signals \in Inputs, NEW stress \in Stresses, config \in Configs,
         Decide(signals, stress)
  PROVE  \E v \in Positions, k \in MeanConfidences :
           UpdateRing(v, k) /\ config' = config
<1>. DEFINE admitted == Admitted(config, signals)
            v == SmoothPosition(config, stress, Direction(config, signals, admitted))
            k == MeanConfidence(config, signals, admitted)
<1>1. UpdateRing(v, k) /\ config' = config /\ Consensus(config, signals, admitted) /\ Valid(config)
  BY DEF Decide
<1>2. k \in MeanConfidences
  <2>. DEFINE x == <<config, signals>>
  <2>1. x \in Configs \X Inputs /\ x[1] = config /\ x[2] = signals
    OBVIOUS
  <2>2. x \in {y \in Configs \X Inputs : Consensus(y[1], y[2], Admitted(y[1], y[2]))}
    BY <1>1, <2>1
  <2>. QED BY <2>1, <2>2 DEF MeanConfidences
<1>3. v \in Positions
  <2>1. Direction(config, signals, admitted) \in {-1, 0, 1}
    BY DEF Direction
  <2>2. config.maxPosition \in 1..Unit /\ stress.limit \in Shares
    BY <1>1, EngineAssumption DEF Valid, StressType
  <2>3. ASSUME NEW d \in {-1, 0, 1}
        PROVE  SmoothPosition(config, stress, d) \in Positions
    <3>. DEFINE limit == IF stress.stressed THEN Least(config.maxPosition, stress.limit)
                         ELSE config.maxPosition
    <3>1. limit \in 0..Unit
      BY <2>2, EngineAssumption DEF Least, Shares
    <3>2. d * Unit \in Int
      BY EngineAssumption
    <3>3. SmoothPosition(config, stress, d) = Clamp(d * Unit, -limit, limit)
      BY DEF SmoothPosition
    <3>. HIDE DEF limit
    <3>. QED BY <3>1, <3>2, <3>3, EngineAssumption DEF Clamp, Positions
  <2>. QED BY <2>1, <2>3
<1>. QED BY <1>1, <1>2, <1>3

\* One more sample keeps the ring well formed.
LEMMA UpdateKeeps ==
  ASSUME IInv, NEW v \in Positions, NEW k \in MeanConfidences,
         UpdateRing(v, k), config' = config
  PROVE  IInv'
<1>. DEFINE w == WindowOf(config)
<1>1. w \in Nat /\ w >= 1 /\ w <= MaxWindow
  BY WindowRange DEF IInv, RingOK
<1>2. WindowOf(config') = w
  OBVIOUS
<1>3. head \in 0..(w - 1) /\ count \in 0..w /\ (count < w => head = count)
  BY DEF IInv, RingOK, Packed
<1>4. head' = (head + 1) % w /\ count' = Least(count + 1, w)
  BY DEF UpdateRing
<1>. HIDE DEF w
<1>5. head' = IF head + 1 < w THEN head + 1 ELSE 0
  BY <1>1, <1>3, <1>4, Advance, Zenon
<1>6. head' \in 0..(w - 1) /\ count' \in 0..w /\ (count' < w => head' = count')
  BY <1>1, <1>3, <1>4, <1>5 DEF Least
<1>7. values' \in [Slots -> Positions] /\ confidences' \in [Slots -> MeanConfidences]
  BY DEF IInv, RingOK, UpdateRing
<1>. QED BY <1>2, <1>6, <1>7 DEF IInv, RingOK, Packed, w

\* So does packing it into the window of another configuration.
LEMMA RepackKeeps ==
  ASSUME IInv, NEW c \in Configs, Repack(WindowOf(c)), config' = c
  PROVE  IInv'
<1>. DEFINE old == WindowOf(config)
            w == WindowOf(c)
            retained == Least(count, w)
<1>1. /\ old \in Nat /\ old >= 1 /\ old <= MaxWindow
      /\ w \in Nat /\ w >= 1 /\ w <= MaxWindow
  BY WindowRange DEF IInv, RingOK
<1>2. head \in 0..(old - 1) /\ count \in 0..old
  BY DEF IInv, RingOK
<1>3. /\ values' = [n \in Slots |-> IF n < retained THEN values[SlotOf(n, retained, old)] ELSE 0]
      /\ confidences' =
           [n \in Slots |-> IF n < retained THEN confidences[SlotOf(n, retained, old)] ELSE 0]
      /\ count' = retained /\ head' = retained % w
  BY DEF Repack
<1>4. retained \in 0..w /\ retained \in 0..old
  BY <1>1, <1>2 DEF Least
<1>. HIDE DEF old, w, retained
<1>5. head' = IF retained < w THEN retained ELSE retained - w
  <2>1. retained \in Nat /\ retained < 2 * w
    BY <1>1, <1>4
  <2>2. retained % w = IF retained < w THEN retained ELSE retained - w
    BY <1>1, <2>1, Wrap, Zenon
  <2>. QED BY <1>3, <2>2, Zenon
<1>6. head' \in 0..(w - 1) /\ count' \in 0..w /\ (count' < w => head' = count')
  BY <1>1, <1>3, <1>4, <1>5
<1>7. ASSUME NEW n \in Slots, n < retained
      PROVE  SlotOf(n, retained, old) \in Slots
  <2>1. n \in 0..(retained - 1) /\ SlotOf(n, retained, old) \in 0..(old - 1)
    BY <1>1, <1>2, <1>4, <1>7, SlotValue, EngineAssumption DEF Slots
  <2>. QED BY <1>1, <2>1, EngineAssumption DEF Slots
<1>8. values' \in [Slots -> Positions]
  <2>1. 0 \in Positions
    BY EngineAssumption DEF Positions
  <2>. QED BY <1>3, <1>7, <2>1 DEF IInv, RingOK
<1>9. confidences' \in [Slots -> MeanConfidences]
  <2>1. 0 \in MeanConfidences
    BY DEF MeanConfidences
  <2>. QED BY <1>3, <1>7, <2>1 DEF IInv, RingOK
<1>. QED BY <1>6, <1>8, <1>9 DEF IInv, RingOK, Packed, w

\* The invariant holds of every behaviour.
THEOREM RingInvariant == Spec => []IInv
<1>1. Init => IInv
  <2>. SUFFICES ASSUME Init PROVE IInv
    OBVIOUS
  <2>1. 0 \in Positions /\ 0 \in MeanConfidences
    BY EngineAssumption DEF Positions, MeanConfidences
  <2>2. WindowOf(config) \in Nat /\ WindowOf(config) >= 1
    BY WindowRange DEF Init
  <2>. QED BY <2>1, <2>2 DEF Init, IInv, RingOK, Packed
<1>2. IInv /\ [Next]_vars => IInv'
  <2>. SUFFICES ASSUME IInv, [Next]_vars PROVE IInv'
    OBVIOUS
  <2>1. CASE UNCHANGED <<config, ring>>
    BY <2>1 DEF IInv, RingOK, Packed, ring
  <2>2. CASE \E signals \in Inputs, stress \in Stresses : Decide(signals, stress)
    <3>1. config \in Configs
      BY DEF IInv, RingOK
    <3>. QED BY <2>2, <3>1, StoresSample, UpdateKeeps
  <2>3. ASSUME NEW c \in Configs, SetConfig(c) PROVE IInv'
    <3>1. CASE WindowOf(c) = WindowOf(config)
      BY <2>3, <3>1 DEF SetConfig, IInv, RingOK, Packed, ring
    <3>2. CASE WindowOf(c) # WindowOf(config)
      BY <2>3, <3>2, RepackKeeps DEF SetConfig
    <3>. QED BY <3>1, <3>2
  <2>4. CASE Reset
    <3>1. 0 \in Positions /\ 0 \in MeanConfidences
      BY EngineAssumption DEF Positions, MeanConfidences
    <3>2. WindowOf(config) \in Nat /\ WindowOf(config) >= 1
      BY WindowRange DEF IInv, RingOK
    <3>. QED BY <2>4, <3>1, <3>2 DEF Reset, IInv, RingOK, Packed
  <2>. QED
    BY <2>1, <2>2, <2>3, <2>4
    DEF Next, MakeDecision, GateShut, InvalidConfig, InvalidStress, NoModels, Denied, Reject, vars
<1>. QED BY <1>1, <1>2, PTL DEF Spec

-----------------------------------------------------------------------------
(* The fallback. *)

\* A fallback reads just the samples of the retained history.
LEMMA ReadsHistory ==
  ASSUME IInv
  PROVE  FallbackReadsHistory
<1>. DEFINE w == WindowOf(config)
<1>1. w \in Nat /\ w >= 1
  BY WindowRange DEF IInv, RingOK
<1>2. head \in 0..(w - 1) /\ count \in 0..w /\ (count < w => head = count)
  BY DEF IInv, RingOK, Packed
<1>3. SUFFICES {SlotOf(i, count, w) : i \in Used} = Used
  BY DEF FallbackReadsHistory
<1>. HIDE DEF w
<1>4. \A i \in Used :
        SlotOf(i, count, w) = IF head - count + i < 0 THEN head - count + i + w ELSE head - count + i
  BY <1>1, <1>2, SlotValue DEF Used
<1>5. ASSUME NEW i \in Used PROVE SlotOf(i, count, w) \in Used
  BY <1>1, <1>2, <1>4 DEF Used
<1>6. ASSUME NEW j \in Used PROVE \E i \in Used : SlotOf(i, count, w) = j
  <2>1. CASE count < w
    <3>1. SlotOf(j, count, w) = j
      BY <1>1, <1>2, <1>4, <2>1 DEF Used
    <3>. QED BY <3>1
  <2>2. CASE count = w
    <3>. DEFINE i == IF j >= head THEN j - head ELSE j - head + w
    <3>1. i \in Used /\ (IF head - count + i < 0 THEN head - count + i + w ELSE head - count + i) = j
      BY <1>1, <1>2, <2>2 DEF Used
    <3>. HIDE DEF i
    <3>. QED BY <1>4, <3>1
  <2>. QED BY <1>1, <1>2, <2>1, <2>2
<1>. QED BY <1>5, <1>6

\* Through every change of the window, a rejected decision falls back on the
\* samples that were retained, each counted once.
THEOREM FallbackSound == Spec => []FallbackReadsHistory
<1>1. IInv => FallbackReadsHistory
  BY ReadsHistory
<1>. QED BY <1>1, RingInvariant, PTL

-----------------------------------------------------------------------------
(* What is decided. *)

\* The admitted signals are finitely many, and each has a weight of at most ten
\* full confidences.
LEMMA AdmittedSignals ==
  ASSUME NEW c \in Configs, NEW signals \in Inputs
  PROVE  /\ Admitted(c, signals) \in SUBSET DOMAIN signals /\ IsFiniteSet(Admitted(c, signals))
         /\ \A i \in DOMAIN signals :
              /\ signals[i] \in SignalType
              /\ Weight(c, signals[i]) \in 0..(10 * Unit)
<1>1. signals \in Seq(SignalType)
  BY EngineAssumption
<1>2. Len(signals) \in Nat /\ DOMAIN signals = 1..Len(signals)
      /\ \A i \in DOMAIN signals : signals[i] \in SignalType
  BY <1>1
<1>3. IsFiniteSet(DOMAIN signals)
  BY <1>2, FS_Interval
<1>4. Admitted(c, signals) \in SUBSET DOMAIN signals
  <2>1. Processed(c, signals) \in SUBSET (1..Len(signals))
    <3>1. c.maxModels \in Int /\ MaxModels \in Int
      BY EngineAssumption DEF ConfigType
    <3> QED BY <1>2, <3>1 DEF Processed, Least
  <2> QED BY <1>2, <2>1 DEF Admitted
<1>5. ASSUME NEW i \in DOMAIN signals PROVE Weight(c, signals[i]) \in 0..(10 * Unit)
  <2>1. signals[i].confidence \in 0..Unit
    BY <1>2 DEF SignalType, Shares
  <2>2. Unit \in Nat
    BY EngineAssumption
  <2> QED BY <2>1, <2>2 DEF Weight
<1> QED BY <1>2, <1>3, <1>4, <1>5, FS_Subset

\* The mean of n values of at most ten full confidences.
LEMMA MeanInRange ==
  ASSUME NEW u \in Nat, NEW n \in Nat, n >= 1, NEW t \in Nat, t <= (10 * u) * n
  PROVE  t \div (10 * n) \in 0..u
<1>1. 10 * n \in Nat /\ 10 * n > 0
  OBVIOUS
<1>2. (10 * u) * n = u * (10 * n)
  OBVIOUS
<1> DEFINE m == 10 * n
           q == t \div m
<1>3. q \in Int /\ m * q <= t /\ t < m * (q + 1)
  BY <1>1
<1>4. t <= u * m /\ m \in Nat /\ m > 0
  BY <1>1, <1>2
<1> HIDE DEF m, q
<1>5. q >= 0
  <2> SUFFICES ASSUME q + 1 <= 0 PROVE FALSE
    BY <1>3
  <2>1. m * (q + 1) <= 0 /\ m * (q + 1) \in Int
    BY <1>3, <1>4
  <2>2. t < m * (q + 1) /\ 0 <= t /\ t \in Int
    BY <1>3
  <2> QED BY ONLY <2>1, <2>2
<1>6. q <= u
  <2> SUFFICES ASSUME q >= u + 1 PROVE FALSE
    BY <1>3
  <2>1. m * q >= m * (u + 1)
    BY <1>3, <1>4
  <2>2. m * (u + 1) = u * m + m /\ u * m \in Int
    BY <1>4
  <2>3. m * q \in Int
    BY <1>3, <1>4
  <2> QED BY <1>3, <1>4, <2>1, <2>2, <2>3
<1> QED BY <1>3, <1>5, <1>6 DEF q, m

\* Confidences of decisions are fractions of full confidence.
LEMMA MeansAreShares == MeanConfidences \subseteq Shares
<1>1. ASSUME NEW c \in Configs, NEW signals \in Inputs,
             Consensus(c, signals, Admitted(c, signals))
      PROVE  MeanConfidence(c, signals, Admitted(c, signals)) \in Shares
  <2> DEFINE A == Admitted(c, signals)
             B == Agreeing(signals, A)
             w == [i \in DOMAIN signals |-> Weight(c, signals[i])]
  <2>1. A \in SUBSET DOMAIN signals /\ IsFiniteSet(A) /\ \A i \in A : w[i] \in 0..(10 * Unit)
    BY AdmittedSignals
  <2>2. A # {}
    <3> SUFFICES ASSUME A = {} PROVE FALSE
      OBVIOUS
    <3>1. B = {}
      BY DEF Agreeing
    <3>2. SumFunctionOnSet(w, {}) = 0
      BY SumNone
    <3> QED BY <1>1, <3>1, <3>2 DEF Consensus, TotalWeight
  <2>3. MeanConfidence(c, signals, A) = SumFunctionOnSet(w, A) \div (10 * Cardinality(A))
    BY DEF MeanConfidence, TotalWeight
  <2> HIDE DEF w, A
  <2>4. Cardinality(A) \in Nat /\ Cardinality(A) >= 1
    BY <2>1, <2>2, FS_CardinalityType, FS_EmptySet
  <2>5. Unit \in Nat /\ 10 * Unit \in Int
    BY EngineAssumption
  <2>6. SumFunctionOnSet(w, A) \in Nat
    <3>1. \A i \in A : w[i] \in Nat
      BY <2>1, <2>5
    <3> QED BY <2>1, <3>1, SumGrows
  <2>7. SumFunctionOnSet(w, A) <= (10 * Unit) * Cardinality(A)
    <3>1. \A i \in A : w[i] \in Int /\ w[i] <= 10 * Unit
      BY <2>1, <2>5
    <3> QED BY <2>1, <2>5, <3>1, SumLimit
  <2>8. SumFunctionOnSet(w, A) \div (10 * Cardinality(A)) \in 0..Unit
    BY <2>4, <2>5, <2>6, <2>7, MeanInRange
  <2> QED BY <2>3, <2>8 DEF A, Shares
<1>2. 0 \in Shares
  BY EngineAssumption DEF Shares
<1> QED BY <1>1, <1>2 DEF MeanConfidences

\* The signals above and below.
Above(signals, A) == {i \in A : Up(signals[i])}
Under(signals, A) == {i \in A : ~Up(signals[i])}

\* Of -1, 0 and 1, one is in the middle.
LEMMA MedianSplits ==
  ASSUME NEW A, IsFiniteSet(A), A # {}, NEW v, \A i \in A : v[i] \in {-1, 0, 1}
  PROVE  \E m \in A :
           /\ Cardinality({i \in A : v[i] < v[m]}) <= Cardinality(A) \div 2
           /\ Cardinality(A) \div 2 < Cardinality({i \in A : v[i] <= v[m]})
<1> DEFINE lo == {i \in A : v[i] = -1}
           mid == {i \in A : v[i] \in {-1, 0}}
           n == Cardinality(A)
           B(m) == {i \in A : v[i] < v[m]}
           U(m) == {i \in A : v[i] <= v[m]}
<1>1. /\ IsFiniteSet(lo) /\ IsFiniteSet(mid)
      /\ Cardinality(lo) \in Nat /\ Cardinality(mid) \in Nat
      /\ n \in Nat /\ n >= 1 /\ n \div 2 \in Nat /\ n \div 2 < n
  <2>1. lo \in SUBSET A /\ mid \in SUBSET A
    OBVIOUS
  <2> HIDE DEF lo, mid
  <2>2. n \in Nat /\ n >= 1
    BY FS_CardinalityType, FS_EmptySet
  <2> QED BY <2>1, <2>2, FS_Subset, FS_CardinalityType
<1>2. \A m \in A : v[m] = -1 => B(m) = {} /\ U(m) = lo
  OBVIOUS
<1>3. \A m \in A : v[m] = 0 => B(m) = lo /\ U(m) = mid
  OBVIOUS
<1>4. \A m \in A : v[m] = 1 => B(m) = mid /\ U(m) = A
  OBVIOUS
<1>5. Cardinality({}) = 0
  BY FS_EmptySet
<1> SUFFICES \E m \in A : Cardinality(B(m)) <= n \div 2 /\ n \div 2 < Cardinality(U(m))
  OBVIOUS
<1>6. CASE n \div 2 < Cardinality(lo)
  <2>1. lo # {}
    BY <1>1, <1>5, <1>6
  <2>2. PICK m \in A : v[m] = -1
    BY <2>1
  <2> HIDE DEF lo, n, B, U
  <2> QED BY <1>1, <1>2, <1>5, <1>6, <2>2
<1>7. CASE Cardinality(lo) <= n \div 2 /\ n \div 2 < Cardinality(mid)
  <2>1. lo # mid
    BY <1>1, <1>7
  <2>2. PICK m \in A : v[m] = 0
    BY <2>1
  <2> HIDE DEF lo, mid, n, B, U
  <2> QED BY <1>1, <1>3, <1>7, <2>2
<1>8. CASE Cardinality(mid) <= n \div 2
  <2>1. mid # A
    BY <1>1, <1>8
  <2>2. PICK m \in A : v[m] = 1
    BY <2>1
  <2> HIDE DEF mid, B, U
  <2> QED BY <1>1, <1>4, <1>8, <2>2
<1>9. /\ Cardinality(lo) \in Int /\ Cardinality(mid) \in Int /\ n \div 2 \in Int
  BY <1>1
<1> HIDE DEF lo, mid, n, B, U
<1> QED BY <1>6, <1>7, <1>8, <1>9

\* The median of the admitted values has at most half of them below it and more
\* than half up to it.
LEMMA MedianInTheMiddle ==
  ASSUME NEW signals, NEW A, IsFiniteSet(A), A # {}, \A i \in A : signals[i].value \in {-1, 0, 1},
         NEW m, m = Median(signals, A)
  PROVE  /\ m \in A
         /\ Cardinality({i \in A : signals[i].value < signals[m].value}) <= Cardinality(A) \div 2
         /\ Cardinality(A) \div 2 < Cardinality({i \in A : signals[i].value <= signals[m].value})
<1> DEFINE v == [i \in A |-> signals[i].value]
           B(x) == Cardinality({i \in A : signals[i].value < x})
           U(x) == Cardinality({i \in A : signals[i].value <= x})
           OK(k) == B(signals[k].value) <= Cardinality(A) \div 2
                    /\ Cardinality(A) \div 2 < U(signals[k].value)
<1>1. \A i \in A : v[i] = signals[i].value
  OBVIOUS
<1>2. PICK k \in A : /\ Cardinality({i \in A : v[i] < v[k]}) <= Cardinality(A) \div 2
                     /\ Cardinality(A) \div 2 < Cardinality({i \in A : v[i] <= v[k]})
  <2>1. \A i \in A : v[i] \in {-1, 0, 1}
    OBVIOUS
  <2> HIDE DEF v
  <2> QED BY <2>1, MedianSplits
<1>3. {i \in A : v[i] < v[k]} = {i \in A : signals[i].value < signals[k].value}
      /\ {i \in A : v[i] <= v[k]} = {i \in A : signals[i].value <= signals[k].value}
  BY <1>1
<1>4. OK(k)
  BY <1>2, <1>3
<1>5. m = CHOOSE i \in A : OK(i)
  BY DEF Median
<1> HIDE DEF OK
<1>6. m \in A /\ OK(m)
  BY <1>4, <1>5
<1> QED BY <1>6 DEF OK

\* The signals that agree with the median are one of the two sides, and not the
\* smaller one.
LEMMA AgreeingIsTheLargerSide ==
  ASSUME NEW signals, NEW A, IsFiniteSet(A), A # {}, \A i \in A : signals[i].value \in {-1, 0, 1}
  PROVE  /\ Cardinality(Above(signals, A)) \in Nat /\ Cardinality(Under(signals, A)) \in Nat
         /\ Cardinality(Above(signals, A)) + Cardinality(Under(signals, A)) = Cardinality(A)
         /\ \/ /\ Agreeing(signals, A) = Above(signals, A)
               /\ Cardinality(Above(signals, A)) >= Cardinality(Under(signals, A))
            \/ /\ Agreeing(signals, A) = Under(signals, A)
               /\ Cardinality(Under(signals, A)) >= Cardinality(Above(signals, A))
<1> DEFINE m == Median(signals, A)
           X == Above(signals, A)
           Y == Under(signals, A)
           Bm == {i \in A : signals[i].value < signals[m].value}
           Um == {i \in A : signals[i].value <= signals[m].value}
           n == Cardinality(A)
<1>1. m \in A /\ Cardinality(Bm) <= n \div 2 /\ n \div 2 < Cardinality(Um)
  BY MedianInTheMiddle
<1>2. X \in SUBSET A /\ Y \in SUBSET A /\ X \cup Y = A /\ X \cap Y = {}
  BY DEF Above, Under
<1>3. Bm \in SUBSET A /\ Um \in SUBSET A
  OBVIOUS
<1>4. signals[m].value \in Int /\ \A i \in A : signals[i].value \in Int
  BY <1>1
<1>5. Up(signals[m]) => Y \in SUBSET Bm /\ Agreeing(signals, A) = X
  BY <1>4 DEF Up, Under, Above, Agreeing
<1>6. ~Up(signals[m]) => Um \in SUBSET Y /\ Agreeing(signals, A) = Y
  BY <1>4 DEF Up, Under, Above, Agreeing
<1> HIDE DEF Bm, Um, X, Y, m
<1>7. IsFiniteSet(X) /\ IsFiniteSet(Y) /\ IsFiniteSet(Bm) /\ IsFiniteSet(Um)
  BY <1>2, <1>3, FS_Subset
<1>8. /\ Cardinality(X) \in Nat /\ Cardinality(Y) \in Nat /\ Cardinality(A) \in Nat
      /\ Cardinality(Bm) \in Nat /\ Cardinality(Um) \in Nat
  BY <1>7, FS_CardinalityType
<1>9. Cardinality(X) + Cardinality(Y) = Cardinality(A)
  <2>1. Cardinality(X \cup Y) = Cardinality(X) + Cardinality(Y) - Cardinality(X \cap Y)
    BY <1>7, FS_Union
  <2>2. Cardinality(X \cup Y) = n /\ Cardinality(X \cap Y) = 0
    BY <1>2, FS_EmptySet
  <2> HIDE DEF n
  <2> QED BY ONLY <1>8, <2>1, <2>2 DEF n
<1>10. CASE Up(signals[m])
  <2>1. Cardinality(Y) <= Cardinality(Bm)
    BY <1>5, <1>7, <1>10, FS_Subset
  <2>2. Cardinality(Y) <= n \div 2
    BY <1>1, <1>8, <2>1
  <2>3. Cardinality(X) >= Cardinality(Y)
    BY <1>8, <1>9, <2>2
  <2> QED BY <1>5, <1>8, <1>9, <1>10, <2>3 DEF X, Y
<1>11. CASE ~Up(signals[m])
  <2>1. Cardinality(Um) <= Cardinality(Y)
    BY <1>6, <1>7, <1>11, FS_Subset
  <2>2. n \div 2 < Cardinality(Y)
    BY <1>1, <1>8, <2>1
  <2>3. Cardinality(Y) >= Cardinality(X)
    BY <1>8, <1>9, <2>2
  <2> QED BY <1>6, <1>8, <1>9, <1>11, <2>3 DEF X, Y
<1> QED BY <1>10, <1>11

\* The weighted mean points to the side that agrees.
LEMMA DirectionOfTheLargerSide ==
  ASSUME NEW c \in Configs, NEW signals \in Inputs,
         Consensus(c, signals, Admitted(c, signals)), Valid(c)
  PROVE  LET A == Admitted(c, signals)
             up == Cardinality(Above(signals, A))
             down == Cardinality(Under(signals, A))
         IN  /\ up \in Nat /\ down \in Nat
             /\ Direction(c, signals, A) \in {-1, 0, 1}
             /\ Direction(c, signals, A) = 1 => up >= down
             /\ Direction(c, signals, A) = -1 => down >= up
             /\ c.agreement > 50 => up # down
<1> DEFINE A == Admitted(c, signals)
           B == Agreeing(signals, A)
           X == Above(signals, A)
           Y == Under(signals, A)
           g == [i \in DOMAIN signals |-> Weight(c, signals[i]) * signals[i].value]
           up == Cardinality(X)
           down == Cardinality(Y)
<1>1. /\ A \in SUBSET DOMAIN signals /\ IsFiniteSet(A)
      /\ \A i \in A : /\ signals[i].value \in {-1, 0, 1} /\ Weight(c, signals[i]) \in 0..(10 * Unit)
                      /\ g[i] = Weight(c, signals[i]) * signals[i].value
  BY AdmittedSignals DEF SignalType
<1>2. c.minModels >= 1 /\ c.minModels \in Int /\ c.agreement \in 1..100
  BY EngineAssumption DEF Valid, ConfigType
<1>3. /\ Cardinality(A) >= c.minModels
      /\ 100 * Cardinality(B) >= c.agreement * Cardinality(A)
  BY DEF Consensus
<1>4. A # {}
  BY <1>2, <1>3, FS_EmptySet
<1>5. Cardinality(A) \in Nat /\ Cardinality(A) >= 1
  BY <1>1, <1>2, <1>3, FS_CardinalityType
<1>6. /\ up \in Nat /\ down \in Nat /\ up + down = Cardinality(A)
      /\ (B = X /\ up >= down) \/ (B = Y /\ down >= up)
  <2> HIDE DEF A
  <2> QED BY <1>1, <1>4, AgreeingIsTheLargerSide
<1>7. B \in SUBSET A
  BY DEF Agreeing
<1>8. Direction(c, signals, A) = IF SumFunctionOnSet(g, B) > 0 THEN 1
                                 ELSE IF SumFunctionOnSet(g, B) < 0 THEN -1 ELSE 0
  BY DEF Direction
<1>9. \A i \in A : (i \in X => signals[i].value \in {0, 1}) /\ (i \in Y => signals[i].value = -1)
  <2>1. ASSUME NEW i \in A
        PROVE  (i \in X => signals[i].value \in {0, 1}) /\ (i \in Y => signals[i].value = -1)
    <3>1. (i \in X => signals[i].value >= 0) /\ (i \in Y => ~(signals[i].value >= 0))
      BY DEF Above, Under, Up
    <3>2. signals[i].value \in {-1, 0, 1}
      BY <1>1
    <3> HIDE DEF X, Y, A
    <3> QED BY <3>1, <3>2
  <2> QED BY <2>1
<1> HIDE DEF A, B, X, Y, g
<1>10. IsFiniteSet(B)
  BY <1>1, <1>7, FS_Subset
<1>11. Unit \in Nat
  BY EngineAssumption
<1>12. \A i \in A : Weight(c, signals[i]) \in Nat
  BY <1>1, <1>11
<1>13. \A i \in A : g[i] \in Int
  BY <1>1, <1>12
<1>14. B = X => SumFunctionOnSet(g, B) >= 0
  <2> SUFFICES ASSUME B = X PROVE SumFunctionOnSet(g, B) >= 0
    OBVIOUS
  <2>1. \A i \in B : g[i] \in Nat
    BY <1>1, <1>7, <1>9, <1>12
  <2>2. SumFunctionOnSet(g, B) \in Nat
    BY <1>10, <2>1, SumGrows
  <2> QED BY <2>2
<1>15. B = Y => SumFunctionOnSet(g, B) <= 0
  <2> SUFFICES ASSUME B = Y PROVE SumFunctionOnSet(g, B) <= 0
    OBVIOUS
  <2>1. \A i \in B : g[i] \in Int /\ g[i] <= 0
    BY <1>1, <1>7, <1>9, <1>12
  <2>2. SumFunctionOnSet(g, B) <= 0 * Cardinality(B)
    BY <1>10, <2>1, SumLimit
  <2> QED BY <1>10, <2>2, FS_CardinalityType
<1>16. SumFunctionOnSet(g, B) \in Int
  BY <1>7, <1>10, <1>13, SumInt
<1>17. c.agreement > 50 => up # down
  <2> SUFFICES ASSUME c.agreement > 50, up = down PROVE FALSE
    OBVIOUS
  <2>1. Cardinality(B) = up /\ Cardinality(A) = 2 * up
    BY <1>6
  <2>2. up >= 1
    BY <1>5, <1>6
  <2>3. c.agreement * Cardinality(A) >= 51 * (2 * up)
    BY <1>2, <1>6, <2>1
  <2>4. c.agreement * Cardinality(A) \in Int
    BY <1>2, <1>5
  <2> QED BY <1>3, <1>6, <2>1, <2>2, <2>3, <2>4
<1>18. /\ Direction(c, signals, A) \in {-1, 0, 1}
       /\ Direction(c, signals, A) = 1 => up >= down
       /\ Direction(c, signals, A) = -1 => down >= up
  BY <1>6, <1>8, <1>14, <1>15, <1>16
<1> QED BY <1>6, <1>17, <1>18 DEF A, X, Y

-----------------------------------------------------------------------------
(* What is returned. *)

\* The types, the envelope and the majority, of the decision returned last.
DecisionOK == last \in DecisionType /\ EnvelopeHolds /\ MajorityDecides

\* A value that is clamped between a limit and its negation.
LEMMA Clamped ==
  ASSUME NEW x \in Int, NEW limit \in Nat
  PROVE  Clamp(x, -limit, limit) \in (-limit)..limit
BY DEF Clamp

\* A fallback is within the limit of the configuration.
LEMMA FallbackInEnvelope ==
  ASSUME RingOK, Valid(config)
  PROVE  FallbackValue \in (-config.maxPosition)..config.maxPosition
<1>1. /\ config.maxPosition \in Nat /\ config.scale \in Int /\ config.dynamic \in BOOLEAN
      /\ config.alpha \in Int /\ config.beta \in Int /\ Unit \in Nat
  BY EngineAssumption DEF RingOK, ConfigType, Valid
<1>2. CASE count = 0
  <2>1. 0 \in (-config.maxPosition)..config.maxPosition
    BY <1>1
  <2> QED BY <1>2, <2>1 DEF FallbackValue
<1>3. CASE count # 0
  <2> DEFINE s == SumOver(confidences)
             sign == IF SumOver(values) >= 0 THEN 1 ELSE -1
             scale == IF config.dynamic
                      THEN Clamp((config.alpha * s) \div count + config.beta,
                                 Unit \div 10, Unit \div 2)
                      ELSE config.scale
  <2>1. count \in Nat /\ count > 0 /\ WindowOf(config) \in Nat /\ WindowOf(config) <= MaxWindow
        /\ count <= WindowOf(config)
    BY <1>3, WindowRange DEF RingOK
  <2>2. s \in Int
    <3>1. IsFiniteSet(Used)
      BY <2>1, FS_Interval DEF Used
    <3>2. \A n \in Used : confidences[n] \in Int
      <4>1. Used \in SUBSET Slots
        BY <2>1, EngineAssumption DEF Used, Slots
      <4>2. MeanConfidences \in SUBSET Int
        BY <1>1, MeansAreShares DEF Shares
      <4> QED BY <4>1, <4>2 DEF RingOK
    <3> QED BY <3>1, <3>2, SumInt DEF SumOver
  <2> HIDE DEF s
  <2>3. (config.alpha * s) \div count \in Int
    <3>1. config.alpha * s \in Int
      BY <1>1, <2>2
    <3> DEFINE x == config.alpha * s
    <3> HIDE DEF x
    <3>2. x \div count \in Int
      BY <2>1, <3>1 DEF x
    <3> QED BY <3>2 DEF x
  <2>4. scale \in Int
    <3> DEFINE q == (config.alpha * s) \div count
    <3> HIDE DEF q
    <3>1. q \in Int
      BY <2>3 DEF q
    <3>2. Clamp(q + config.beta, Unit \div 10, Unit \div 2) \in Int
      BY <1>1, <3>1 DEF Clamp
    <3> QED BY <1>1, <3>2 DEF q
  <2>5. sign \in {-1, 1}
    OBVIOUS
  <2>6. FallbackValue = Clamp(sign * scale, -config.maxPosition, config.maxPosition)
    BY <1>3 DEF FallbackValue, s
  <2> HIDE DEF sign, scale
  <2>7. sign * scale \in Int
    BY <2>4, <2>5
  <2> QED BY <1>1, <2>6, <2>7, Clamped
<1> QED BY <1>2, <1>3

\* A decision's position is within the limit and on the side of its direction.
LEMMA PositionFollowsDirection ==
  ASSUME NEW c \in Configs, Valid(c), NEW stress \in Stresses, NEW d \in {-1, 0, 1}
  PROVE  /\ SmoothPosition(c, stress, d) \in (-c.maxPosition)..c.maxPosition
         /\ SmoothPosition(c, stress, d) > 0 => d = 1
         /\ SmoothPosition(c, stress, d) < 0 => d = -1
<1> DEFINE limit == IF stress.stressed THEN Least(c.maxPosition, stress.limit) ELSE c.maxPosition
<1>1. c.maxPosition \in 1..Unit /\ stress.limit \in 0..Unit /\ Unit \in Nat
  BY EngineAssumption DEF Valid, StressType, Shares
<1>2. limit \in Nat /\ limit <= c.maxPosition
  BY <1>1 DEF Least
<1>3. SmoothPosition(c, stress, d) = Clamp(d * Unit, -limit, limit)
  BY DEF SmoothPosition
<1> HIDE DEF limit
<1>4. d * Unit \in Int /\ (d * Unit > 0 => d = 1) /\ (d * Unit < 0 => d = -1)
  BY <1>1
<1> DEFINE x == d * Unit
<1> HIDE DEF x
<1>5. Clamp(x, -limit, limit) \in (-limit)..limit
      /\ (Clamp(x, -limit, limit) > 0 => x > 0) /\ (Clamp(x, -limit, limit) < 0 => x < 0)
  BY <1>2, <1>4 DEF Clamp, x
<1>6. (-limit)..limit \in SUBSET ((-c.maxPosition)..c.maxPosition)
  BY <1>1, <1>2
<1> QED BY <1>3, <1>4, <1>5, <1>6 DEF x

\* Calls that are denied return zero.
LEMMA DeniedKeeps ==
  ASSUME NEW status \in {"FALLBACK", "NO_MODELS"}, Denied(status)
  PROVE  DecisionOK'
<1>1. last' = [status |-> status, value |-> 0, cap |-> Unit, strict |-> FALSE, up |-> 0, down |-> 0]
  BY DEF Denied
<1>2. 0 \in (-Unit)..Unit /\ Unit \in Int
  BY EngineAssumption
<1> QED BY <1>1, <1>2
        DEF DecisionOK, DecisionType, Statuses, Positions, EnvelopeHolds, MajorityDecides

\* Rejections return the fallback.
LEMMA RejectKeeps ==
  ASSUME RingOK, NEW signals \in Inputs, Reject(signals)
  PROVE  DecisionOK'
<1>1. last' = [status |-> "REJECTED", value |-> FallbackValue, cap |-> config.maxPosition,
               strict |-> config.agreement > 50, up |-> 0, down |-> 0]
  BY DEF Reject, Return, NoVotes
<1>2. FallbackValue \in (-config.maxPosition)..config.maxPosition
  BY FallbackInEnvelope DEF Reject
<1>3. config.maxPosition \in 1..Unit /\ Unit \in Nat
  BY EngineAssumption DEF Reject, Valid
<1>4. FallbackValue \in Positions
  BY <1>2, <1>3 DEF Positions
<1> QED BY <1>1, <1>2, <1>3, <1>4
        DEF DecisionOK, DecisionType, Statuses, EnvelopeHolds, MajorityDecides

\* Valid decisions go with the larger side.
LEMMA DecideKeeps ==
  ASSUME RingOK, NEW signals \in Inputs, NEW stress \in Stresses, Decide(signals, stress)
  PROVE  DecisionOK'
<1> DEFINE A == Admitted(config, signals)
           d == Direction(config, signals, A)
           v == SmoothPosition(config, stress, d)
           up == Cardinality(Above(signals, A))
           down == Cardinality(Under(signals, A))
<1>1. /\ last' = [status |-> "VALID", value |-> v, cap |-> config.maxPosition,
                  strict |-> config.agreement > 50, up |-> up, down |-> down]
      /\ Valid(config) /\ Consensus(config, signals, A) /\ config \in Configs
  BY DEF Decide, Return, Votes, Above, Under, RingOK
<1>2. /\ up \in Nat /\ down \in Nat /\ d \in {-1, 0, 1}
      /\ d = 1 => up >= down
      /\ d = -1 => down >= up
      /\ config.agreement > 50 => up # down
  BY <1>1, DirectionOfTheLargerSide
<1>3. v \in (-config.maxPosition)..config.maxPosition /\ (v > 0 => d = 1) /\ (v < 0 => d = -1)
  <2> HIDE DEF d
  <2> QED BY <1>1, <1>2, PositionFollowsDirection
<1>4. config.maxPosition \in 1..Unit /\ Unit \in Nat
  BY <1>1, EngineAssumption DEF Valid
<1> HIDE DEF up, down, d, v
<1>5. v \in Positions
  BY <1>3, <1>4 DEF Positions
<1>6. last' \in DecisionType
  BY <1>1, <1>2, <1>4, <1>5 DEF DecisionType, Statuses
<1> QED BY <1>1, <1>2, <1>3, <1>6 DEF DecisionOK, EnvelopeHolds, MajorityDecides

\* Every decision returned has its type, lies in its envelope and goes with the
\* majority.
THEOREM DecisionsAreSound == Spec => []DecisionOK
<1>1. Init => DecisionOK
  <2> SUFFICES ASSUME Init PROVE DecisionOK
    OBVIOUS
  <2>1. Unit \in Nat
    BY EngineAssumption
  <2> QED BY <2>1 DEF Init, DecisionOK, DecisionType, Statuses, Positions, EnvelopeHolds, MajorityDecides
<1>2. IInv /\ DecisionOK /\ [Next]_vars => DecisionOK'
  <2> SUFFICES ASSUME IInv, DecisionOK, [Next]_vars PROVE DecisionOK'
    OBVIOUS
  <2>1. CASE UNCHANGED last
    BY <2>1 DEF DecisionOK, EnvelopeHolds, MajorityDecides
  <2>2. CASE GateShut \/ InvalidConfig \/ InvalidStress \/ NoModels
    BY <2>2, DeniedKeeps DEF GateShut, InvalidConfig, InvalidStress, NoModels
  <2>3. ASSUME NEW signals \in Inputs, Reject(signals) PROVE DecisionOK'
    BY <2>3, RejectKeeps DEF IInv
  <2>4. ASSUME NEW signals \in Inputs, NEW stress \in Stresses, Decide(signals, stress)
        PROVE  DecisionOK'
    BY <2>4, DecideKeeps DEF IInv
  <2>5. CASE (\E c \in Configs : SetConfig(c)) \/ Reset
    BY <2>1, <2>5 DEF SetConfig, Reset
  <2> QED BY <2>1, <2>2, <2>3, <2>4, <2>5 DEF Next, MakeDecision, vars
<1> QED BY <1>1, <1>2, RingInvariant, PTL DEF Spec

\* Whatever is configured, signalled, denied or fallen back on, no position
\* leaves the cap that was in force when it was decided.
THEOREM EnvelopeAlwaysHolds == Spec => []EnvelopeHolds
<1>1. DecisionOK => EnvelopeHolds
  BY DEF DecisionOK
<1> QED BY <1>1, DecisionsAreSound, PTL

\* For every number of models and every mixture of their signals, a valid
\* decision goes with the majority of those admitted.
THEOREM MajorityAlwaysDecides == Spec => []MajorityDecides
<1>1. DecisionOK => MajorityDecides
  BY DEF DecisionOK
<1> QED BY <1>1, DecisionsAreSound, PTL

\* The engine's variables have their types, and mean confidences are shares.
THEOREM EngineTypes == Spec => []TypeOK
<1>1. IInv /\ DecisionOK => TypeOK
  BY MeansAreShares DEF IInv, DecisionOK, TypeOK
<1> QED BY <1>1, RingInvariant, DecisionsAreSound, PTL

-----------------------------------------------------------------------------
(* The refinement of the bounded history. *)

\* How many of m elements are not among the newest n.
Skipped(m, n) == IF m > n THEN m - n ELSE 0

\* The newest elements of a sequence.
LEMMA NewestElements ==
  ASSUME NEW S, NEW s \in Seq(S), NEW n \in Nat
  PROVE  /\ History!Newest(s, n) \in Seq(S)
         /\ Len(History!Newest(s, n)) = Len(s) - Skipped(Len(s), n)
         /\ \A i \in 1..Len(History!Newest(s, n)) :
              History!Newest(s, n)[i] = s[i + Skipped(Len(s), n)]
<1>. DEFINE t == History!Newest(s, n)
            skipped == Skipped(Len(s), n)
            first == IF Len(s) > n THEN Len(s) - n + 1 ELSE 1
<1>1. Len(s) \in Nat
  OBVIOUS
<1>2. first = skipped + 1 /\ skipped \in 0..Len(s)
  BY <1>1 DEF Skipped
<1>3. t = SubSeq(s, first, Len(s))
  BY DEF History!Newest
<1>. HIDE DEF first, skipped, t
<1>4. /\ t \in Seq(S)
      /\ Len(t) = Len(s) - first + 1
      /\ \A i \in 1..(Len(s) - first + 1) : t[i] = s[first + i - 1]
  BY <1>1, <1>2, <1>3, SubSeqProperties
<1>5. Len(t) = Len(s) - skipped
  BY <1>1, <1>2, <1>4
<1>6. ASSUME NEW i \in 1..Len(t) PROVE t[i] = s[i + skipped]
  <2>1. i \in 1..(Len(s) - first + 1) /\ first + i - 1 = i + skipped
    BY <1>1, <1>2, <1>4, <1>5
  <2>. QED BY <1>4, <2>1
<1>. QED BY <1>4, <1>5, <1>6 DEF t, skipped

\* The retained samples are those of the slots, oldest first.
LEMMA RetainedElements ==
  ASSUME IInv
  PROVE  /\ Retained \in Seq(Sample)
         /\ Len(Retained) = count
         /\ \A i \in 1..count :
              /\ SlotOf(i - 1, count, WindowOf(config)) \in Slots
              /\ Retained[i] = SampleAt(SlotOf(i - 1, count, WindowOf(config)))
<1>. DEFINE w == WindowOf(config)
<1>1. w \in Nat /\ w >= 1 /\ w <= MaxWindow
  BY WindowRange DEF IInv, RingOK
<1>2. head \in 0..(w - 1) /\ count \in 0..w
  BY DEF IInv, RingOK
<1>3. ASSUME NEW i \in 1..count
      PROVE  SlotOf(i - 1, count, w) \in Slots /\ SampleAt(SlotOf(i - 1, count, w)) \in Sample
  <2>. HIDE DEF w
  <2>1. i - 1 \in 0..(count - 1)
    BY <1>2
  <2>2. SlotOf(i - 1, count, w) \in 0..(w - 1)
    BY <1>1, <1>2, <2>1, SlotValue
  <2>3. SlotOf(i - 1, count, w) \in Slots
    BY <1>1, <2>2, EngineAssumption DEF Slots
  <2>. QED BY <2>3 DEF IInv, RingOK, SampleAt, Sample
<1>. QED BY <1>2, <1>3 DEF Retained

\* An accepted decision appends its sample and drops the oldest one of a full
\* window.
LEMMA AcceptRefines ==
  ASSUME IInv, NEW v \in Positions, NEW k \in MeanConfidences,
         UpdateRing(v, k), config' = config
  PROVE  History!Accept
<1>. DEFINE w == WindowOf(config)
            new == [value |-> v, confidence |-> k]
            longer == Append(Retained, new)
            t == History!Newest(longer, w)
            skipped == Skipped(Len(longer), w)
            slot(i) == (head' + w - count' + i) % w
<1>1. w \in Nat /\ w >= 1 /\ w <= MaxWindow
  BY WindowRange DEF IInv, RingOK
<1>2. head \in 0..(w - 1) /\ count \in 0..w /\ (count < w => head = count)
  BY DEF IInv, RingOK, Packed
<1>3. /\ Retained \in Seq(Sample) /\ Len(Retained) = count
      /\ \A i \in 1..count : SlotOf(i - 1, count, w) \in Slots
                            /\ Retained[i] = SampleAt(SlotOf(i - 1, count, w))
  BY RetainedElements
<1>4. new \in Sample
  BY DEF Sample
<1>5. /\ longer \in Seq(Sample) /\ Len(longer) = count + 1 /\ longer[count + 1] = new
      /\ \A i \in 1..count : longer[i] = Retained[i]
  <2>. HIDE DEF new
  <2>. QED BY <1>3, <1>4, AppendProperties
<1>6. /\ head' = (head + 1) % w /\ count' = Least(count + 1, w)
      /\ values' = [values EXCEPT ![head] = v]
      /\ confidences' = [confidences EXCEPT ![head] = k]
  BY DEF UpdateRing
<1>7. values \in [Slots -> Positions] /\ confidences \in [Slots -> MeanConfidences]
  BY DEF IInv, RingOK
<1>8. Retained' = [i \in 1..count' |->
                     [value |-> values'[slot(i - 1)], confidence |-> confidences'[slot(i - 1)]]]
  BY DEF Retained, SampleAt, SlotOf
<1>9. /\ t \in Seq(Sample) /\ Len(t) = Len(longer) - skipped
      /\ \A i \in 1..Len(t) : t[i] = longer[i + skipped]
  BY <1>1, <1>5, NewestElements, Zenon
<1>. HIDE DEF w, longer, t, skipped
<1>10. head' = IF head + 1 < w THEN head + 1 ELSE 0
  BY <1>1, <1>2, <1>6, Advance, Zenon
<1>11. count' = count + 1 - skipped /\ count' \in 1..w /\ skipped \in {0, 1}
       /\ head' \in 0..(w - 1)
  BY <1>1, <1>2, <1>6, <1>5, <1>10 DEF Least, skipped, Skipped
<1>12. Len(t) = count'
  BY <1>2, <1>5, <1>9, <1>11
<1>13. ASSUME NEW i \in 1..count'
       PROVE  [value |-> values'[slot(i - 1)], confidence |-> confidences'[slot(i - 1)]] = t[i]
  <2>1. i - 1 \in 0..(count' - 1) /\ count' \in 0..w
    BY <1>1, <1>11
  <2>2. slot(i - 1) = IF head' - count' + (i - 1) < 0 THEN head' - count' + (i - 1) + w
                      ELSE head' - count' + (i - 1)
    BY <1>1, <1>11, <2>1, PlaceValue, Zenon
  <2>3. t[i] = longer[i + skipped]
    BY <1>9, <1>12, Zenon
  <2>4. CASE i = count'
    <3>1. slot(i - 1) = head
      BY <1>1, <1>2, <1>10, <1>11, <2>2, <2>4
    <3>2. head \in Slots
      BY <1>1, <1>2, EngineAssumption DEF Slots
    <3>3. t[i] = new
      BY <1>2, <1>5, <1>11, <2>3, <2>4
    <3>. QED BY <1>6, <1>7, <3>1, <3>2, <3>3
  <2>5. CASE i # count'
    <3>. DEFINE j == i + skipped
    <3>1. j \in 1..count /\ j - 1 \in 0..(count - 1)
      BY <1>2, <1>11, <2>5
    <3>. HIDE DEF j
    <3>2. SlotOf(j - 1, count, w) = IF head - count + (j - 1) < 0 THEN head - count + (j - 1) + w
                                    ELSE head - count + (j - 1)
      BY <1>1, <1>2, <3>1, SlotValue
    <3>3. slot(i - 1) = SlotOf(j - 1, count, w) /\ slot(i - 1) # head
      BY <1>1, <1>2, <1>10, <1>11, <2>2, <2>5, <3>2 DEF j
    <3>4. t[i] = SampleAt(SlotOf(j - 1, count, w)) /\ SlotOf(j - 1, count, w) \in Slots
      BY <1>3, <1>5, <2>3, <3>1 DEF j
    <3>. QED BY <1>6, <1>7, <3>3, <3>4 DEF SampleAt
  <2>. QED BY <2>4, <2>5
<1>14. Retained' = t
  <2>1. t = [i \in 1..count' |-> t[i]]
    BY <1>9, <1>12, LenProperties
  <2>. HIDE DEF slot
  <2>. QED BY <1>8, <1>13, <2>1
<1>15. Retained' # <<>> /\ Retained'[Len(Retained')] = new
  <2>1. Len(t) = count' /\ count' + skipped = count + 1 /\ count' \in 1..count'
    BY <1>5, <1>2, <1>9, <1>11
  <2>2. t[count'] = new
    BY <1>5, <1>9, <2>1
  <2>. QED BY <1>9, <1>11, <1>14, <1>5, <2>1, <2>2
<1>. QED BY <1>4, <1>14, <1>15 DEF History!Accept, t, longer, w

\* Where the i-th sample is, once repacking has put it into slot i.
LEMMA PackedSlot ==
  ASSUME NEW w \in Nat, w >= 1, NEW n \in 0..w, NEW i \in 0..(n - 1)
  PROVE  ((n % w) + w - n + i) % w = i
<1>1. n \in Nat /\ n < 2 * w
  OBVIOUS
<1>2. n % w = IF n < w THEN n ELSE n - w
  BY <1>1, Wrap, Zenon
<1>. DEFINE h == n % w
<1>3. h \in 0..(w - 1) /\ h = IF n < w THEN n ELSE n - w
  BY <1>2
<1>. HIDE DEF h
<1>4. (h + w - n + i) % w = IF h - n + i < 0 THEN h - n + i + w ELSE h - n + i
  BY <1>3, PlaceValue
<1>5. (h + w - n + i) % w = i
  BY <1>3, <1>4
<1>. QED BY <1>5 DEF h

\* A change of the window that repacks the ring keeps the newest samples.
LEMMA RepackRefines ==
  ASSUME IInv, NEW c \in Configs, Repack(WindowOf(c)), config' = c
  PROVE  History!Resize
<1>. DEFINE old == WindowOf(config)
            w == WindowOf(c)
            n == Least(count, w)
            t == History!Newest(Retained, w)
            skipped == Skipped(Len(Retained), w)
<1>1. /\ old \in Nat /\ old >= 1 /\ old <= MaxWindow
      /\ w \in Nat /\ w >= 1 /\ w <= MaxWindow
  BY WindowRange DEF IInv, RingOK
<1>2. head \in 0..(old - 1) /\ count \in 0..old
  BY DEF IInv, RingOK
<1>3. /\ Retained \in Seq(Sample) /\ Len(Retained) = count
      /\ \A i \in 1..count : SlotOf(i - 1, count, old) \in Slots
                            /\ Retained[i] = SampleAt(SlotOf(i - 1, count, old))
  BY RetainedElements
<1>4. /\ values' = [j \in Slots |-> IF j < n THEN values[SlotOf(j, n, old)] ELSE 0]
      /\ confidences' = [j \in Slots |-> IF j < n THEN confidences[SlotOf(j, n, old)] ELSE 0]
      /\ count' = n /\ head' = n % w
  BY DEF Repack
<1>5. Retained' =
        [i \in 1..count' |-> [value |-> values'[(head' + w - count' + (i - 1)) % w],
                              confidence |-> confidences'[(head' + w - count' + (i - 1)) % w]]]
  BY DEF Retained, SampleAt, SlotOf
<1>6. /\ t \in Seq(Sample) /\ Len(t) = Len(Retained) - skipped
      /\ \A i \in 1..Len(t) : t[i] = Retained[i + skipped]
  BY <1>1, <1>3, NewestElements, Zenon
<1>7. n \in 0..w /\ n \in 0..old /\ n = count - skipped /\ skipped \in 0..count
  BY <1>1, <1>2, <1>3 DEF Least, Skipped
<1>. HIDE DEF old, w, n, t, skipped
<1>8. Len(t) = n
  BY <1>2, <1>3, <1>6, <1>7
<1>9. ASSUME NEW i \in 1..n
      PROVE  [value |-> values'[(head' + w - count' + (i - 1)) % w],
              confidence |-> confidences'[(head' + w - count' + (i - 1)) % w]] = t[i]
  <2>. DEFINE j == i - 1
  <2>1. j \in 0..(n - 1) /\ j \in Slots
    BY <1>1, <1>7, EngineAssumption DEF Slots
  <2>2. i + skipped \in 1..count /\ (i + skipped) - 1 \in 0..(count - 1)
        /\ (i + skipped) - 1 = j + skipped
    BY <1>2, <1>7
  <2>3. t[i] = SampleAt(SlotOf((i + skipped) - 1, count, old))
    BY <1>3, <1>6, <1>8, <2>2, Zenon
  <2>4. SlotOf(j + skipped, count, old) = SlotOf(j, n, old)
    <3>. HIDE DEF j
    <3>1. head + old - count + (j + skipped) = head + old - n + j
      BY <1>1, <1>2, <1>7, <2>1
    <3>. QED BY <3>1, Zenon DEF SlotOf
  <2>5. (head' + w - count' + j) % w = j
    <3>. HIDE DEF j
    <3>. QED BY <1>1, <1>4, <1>7, <2>1, PackedSlot, Zenon
  <2>. HIDE DEF j
  <2>6. values'[j] = values[SlotOf(j, n, old)] /\ confidences'[j] = confidences[SlotOf(j, n, old)]
    BY <1>4, <1>7, <2>1
  <2>7. t[i] = SampleAt(SlotOf(j, n, old))
    BY <2>2, <2>3, <2>4, Zenon
  <2>8. [value |-> values'[(head' + w - count' + j) % w],
         confidence |-> confidences'[(head' + w - count' + j) % w]] = t[i]
    BY <2>5, <2>6, <2>7, Zenon DEF SampleAt
  <2>. QED BY <2>8 DEF j
<1>10. Retained' = t
  <2>1. t = [i \in 1..n |-> t[i]]
    BY <1>6, <1>8, LenProperties
  <2>. QED BY <1>4, <1>5, <1>9, <2>1
<1>. QED BY <1>1, <1>10 DEF History!Resize, t, w

\* A step that leaves the configuration and the ring alone is a stutter.
LEMMA RingUnchanged ==
  ASSUME UNCHANGED <<config, ring>>
  PROVE  UNCHANGED <<WindowOf(config), Retained>>
BY DEF ring, Retained, SampleAt, SlotOf

\* The ring implements the bounded history: what a rejected decision falls
\* back on is the newest samples of accepted decisions, in their order,
\* whatever windows setConfig chose in between and however often.
THEOREM RefinesHistory == Spec => ImplementsHistory
<1>1. Init => History!Init
  <2>. SUFFICES ASSUME Init PROVE History!Init
    OBVIOUS
  <2>1. WindowOf(config) \in Nat \ {0}
    BY WindowRange DEF Init
  <2>2. Retained = <<>>
    BY DEF Init, Retained
  <2>. QED BY <2>1, <2>2 DEF History!Init
<1>2. IInv /\ [Next]_vars => [History!Next]_<<WindowOf(config), Retained>>
  <2>. SUFFICES ASSUME IInv, [Next]_vars
                PROVE  History!Next \/ UNCHANGED <<WindowOf(config), Retained>>
    OBVIOUS
  <2>0. config \in Configs
    BY DEF IInv, RingOK
  <2>1. CASE UNCHANGED <<config, ring>>
    BY <2>1, RingUnchanged
  <2>2. CASE \E signals \in Inputs, stress \in Stresses : Decide(signals, stress)
    BY <2>0, <2>2, StoresSample, AcceptRefines DEF History!Next
  <2>3. ASSUME NEW c \in Configs, SetConfig(c)
        PROVE  History!Next \/ UNCHANGED <<WindowOf(config), Retained>>
    <3>1. CASE WindowOf(c) = WindowOf(config)
      BY <2>3, <3>1 DEF SetConfig, ring, Retained, SampleAt, SlotOf
    <3>2. CASE WindowOf(c) # WindowOf(config)
      BY <2>3, <3>2, RepackRefines DEF SetConfig, History!Next
    <3>. QED BY <3>1, <3>2
  <2>4. CASE Reset
    <3>1. Retained' = <<>> /\ WindowOf(config') = WindowOf(config)
      BY <2>4 DEF Reset, Retained
    <3>. QED BY <3>1 DEF History!Next, History!Forget
  <2>. QED
    BY <2>1, <2>2, <2>3, <2>4
    DEF Next, MakeDecision, GateShut, InvalidConfig, InvalidStress, NoModels, Denied, Reject, vars
<1>. QED BY <1>1, <1>2, RingInvariant, PTL DEF Spec, ImplementsHistory, History!Spec

-----------------------------------------------------------------------------
(* The rings between one producer and one consumer (SpscRing). First, what   *)
(* % does to indices that run in circles.                                    *)

\* Division with remainder.
LEMMA Division ==
  ASSUME NEW c \in Nat, c >= 1, NEW a \in Int
  PROVE  a = c * (a \div c) + (a % c) /\ a % c \in 0..(c - 1) /\ a \div c \in Int
  OBVIOUS

\* The remainder is the only one.
LEMMA Remainder ==
  ASSUME NEW c \in Nat, c >= 1, NEW p \in Int, NEW s \in 0..(c - 1)
  PROVE  (c * p + s) % c = s
  OBVIOUS

\* Products of a sum.
LEMMA Distribute ==
  ASSUME NEW c \in Int, NEW p \in Int, NEW q \in Int
  PROVE  c * (p - q) = c * p - c * q /\ c * (p + q) = c * p + c * q /\ c * p \in Int
  OBVIOUS

\* A whole number of turns more or less is the same place.
LEMMA Turns ==
  ASSUME NEW c \in Nat, c >= 1, NEW l \in Nat, l % c = 0, NEW a \in Int
  PROVE  (a + l) % c = a % c /\ (a - l) % c = a % c
<1> DEFINE q == l \div c
           p == a \div c
           s == a % c
<1>1. /\ l = c * q + (l % c) /\ q \in Int
      /\ a = c * p + s /\ p \in Int /\ s \in 0..(c - 1)
  BY Division
<1> HIDE DEF q, p, s
<1>2. /\ c * (p - q) = c * p - c * q /\ c * (p + q) = c * p + c * q
      /\ c * p \in Int /\ c * q \in Int /\ p + q \in Int /\ p - q \in Int
  BY <1>1, Distribute
<1>3. l = c * q
  BY <1>1, <1>2
<1>4. (c * (p + q) + s) % c = s /\ (c * (p - q) + s) % c = s
  BY <1>1, <1>2, Remainder
<1>5. a + l = c * (p + q) + s /\ a - l = c * (p - q) + s
  <2> DEFINE x == c * p
             y == c * q
             u == c * (p + q)
             v == c * (p - q)
  <2>1. x \in Int /\ y \in Int /\ u = x + y /\ v = x - y /\ a = x + s /\ l = y
    BY <1>1, <1>2, <1>3
  <2> HIDE DEF x, y, u, v
  <2>2. a + l = u + s /\ a - l = v + s
    BY <1>1, <2>1
  <2> QED BY <2>2 DEF u, v
<1>6. (a + l) % c = s /\ (a - l) % c = s
  BY <1>4, <1>5, Zenon
<1> QED BY <1>6 DEF s

\* Less than a turn apart are different places.
LEMMA SlotsApart ==
  ASSUME NEW c \in Nat, c >= 1, NEW a \in Int, NEW d \in 1..(c - 1)
  PROVE  (a + d) % c # a % c
<1> DEFINE p == a \div c
           q == (a + d) \div c
           s == a % c
           t == (a + d) % c
<1>1. /\ a = c * p + s /\ p \in Int /\ s \in 0..(c - 1)
      /\ a + d = c * q + t /\ q \in Int /\ t \in 0..(c - 1)
  BY Division
<1> HIDE DEF q, p, s, t
<1>2. s # t
  <2> SUFFICES ASSUME s = t PROVE FALSE
    OBVIOUS
  <2> DEFINE x == c * p
             y == c * q
             z == c * (q - p)
  <2>1. x \in Int /\ y \in Int /\ z = y - x /\ a = x + s /\ a + d = y + s
    BY <1>1, Distribute
  <2>2. q - p \in Int /\ (q - p >= 1 => z >= c) /\ (q - p <= 0 => z <= 0)
    <3> DEFINE k == q - p
    <3>1. k \in Int /\ z = c * k
      BY <1>1
    <3> HIDE DEF k, z
    <3>2. (k >= 1 => c * k >= c) /\ (k <= 0 => c * k <= 0)
      BY <3>1
    <3> QED BY <3>1, <3>2 DEF k
  <2> HIDE DEF x, y, z
  <2>3. z = d
    BY <1>1, <2>1
  <2> QED BY <1>1, <2>2, <2>3
<1> QED BY <1>2 DEF s, t
-----------------------------------------------------------------------------
(* The ring's invariant: counts, and a producer that has room. *)

\* Indices of a lap of l, and how far the writer is ahead of the reader.
LEMMA Ahead ==
  ASSUME NEW l \in Nat, l >= 2, NEW w \in 0..(l - 1), NEW r \in 0..(l - 1)
  PROVE  /\ (w - r) % l = IF w >= r THEN w - r ELSE w - r + l
         /\ (w + 1) % l = IF w + 1 < l THEN w + 1 ELSE 0
<1>1. l % l = 0
  <2>1. (l * 1 + 0) % l = 0
    BY Remainder
  <2> QED BY <2>1
<1>2. \A s \in 0..(l - 1) : s % l = s
  BY Remainder
<1>3. CASE w >= r
  <2>1. w - r \in 0..(l - 1)
    BY <1>3
  <2> QED BY <1>1, <1>2, <1>3, <2>1
<1>4. CASE w < r
  <2>1. (w - r + l) % l = (w - r) % l
    <3> DEFINE a == w - r
    <3>1. a \in Int /\ l >= 1
      OBVIOUS
    <3> HIDE DEF a
    <3>2. (a + l) % l = a % l
      BY <1>1, <3>1, Turns, Zenon
    <3> QED BY <3>2 DEF a
  <2>2. w - r + l \in 0..(l - 1)
    BY <1>4
  <2> QED BY <1>1, <1>2, <1>4, <2>1, <2>2
<1> QED BY <1>1, <1>2, <1>3, <1>4

\* Both kinds of index run over whole turns of the slots.
LEMMA LapTurns ==
  ASSUME counted \in BOOLEAN
  PROVE  /\ Lap \in Nat /\ Lap >= Capacity /\ Lap >= 2 /\ Lap % Capacity = 0
         /\ Capacity \in Nat /\ Capacity >= 2
         /\ counted => Lap >= 2 * Capacity
         /\ ~counted => Lap = Capacity
<1>1. Capacity % Capacity = 0
  <2>1. (Capacity * 1 + 0) % Capacity = 0
    BY RingAssumption, Remainder
  <2> QED BY <2>1, RingAssumption
<1> QED BY <1>1, RingAssumption DEF Lap

\* How much the producer may leave in the ring.
Depth == IF counted THEN Capacity ELSE Capacity - 1

\* A producer that has passed the check has room, a consumer that has found an
\* item has it, and what is to be published is in its slot.
RingInv ==
  /\ counted \in BOOLEAN
  /\ slots \in [0 .. Capacity - 1 -> Items \cup {NoItem}]
  /\ writeIdx \in 0 .. Lap - 1 /\ readIdx \in 0 .. Lap - 1
  /\ producer \in {"idle", "check", "store", "publish"}
  /\ producer # "idle" => item \in Items
  /\ consumer \in {"idle", "load", "release"}
  /\ Held(writeIdx, readIdx) <= Depth
  /\ producer \in {"store", "publish"} => Held(writeIdx, readIdx) < Depth
  /\ consumer # "idle" => Held(writeIdx, readIdx) >= 1
  /\ producer = "publish" => slots[Slot(writeIdx)] = item

\* One more or one less in the ring, and where the writer's slot is.
LEMMA HeldSteps ==
  ASSUME counted \in BOOLEAN, NEW w \in 0 .. Lap - 1, NEW r \in 0 .. Lap - 1
  PROVE  /\ Held(w, r) \in 0 .. Lap - 1
         /\ After(w) \in 0 .. Lap - 1 /\ After(r) \in 0 .. Lap - 1
         /\ Held(w, r) + 1 < Lap => Held(After(w), r) = Held(w, r) + 1
         /\ Held(w, r) >= 1 => Held(w, After(r)) = Held(w, r) - 1
         /\ w # r => Held(w, r) >= 1
         /\ Held(w, r) <= Depth => (Full(w, r) <=> Held(w, r) = Depth)
         /\ Slot(w) = Slot(r + Held(w, r))
         /\ \A j \in Int : Slot(After(r) + j) = Slot(r + 1 + j)
<1> DEFINE l == Lap
<1>1. /\ l \in Nat /\ l >= Capacity /\ l >= 2 /\ l % Capacity = 0
      /\ Capacity \in Nat /\ Capacity >= 2
      /\ counted => l >= 2 * Capacity
      /\ ~counted => l = Capacity
      /\ w \in 0..(l - 1) /\ r \in 0..(l - 1)
  BY LapTurns
<1>d. /\ \A v, s : Held(v, s) = (v - s) % l
      /\ \A v : After(v) = (v + 1) % l
      /\ \A v : Slot(v) = v % Capacity
      /\ \A v, s : Full(v, s) <=> IF counted THEN Held(v, s) >= Capacity ELSE After(v) = s
  BY DEF Held, After, Slot, Full
<1> HIDE DEF l
<1>2. \A v, s \in 0..(l - 1) :
        /\ Held(v, s) = IF v >= s THEN v - s ELSE v - s + l
        /\ After(v) = IF v + 1 < l THEN v + 1 ELSE 0
  <2> TAKE v, s \in 0..(l - 1)
  <2>1. /\ (v - s) % l = IF v >= s THEN v - s ELSE v - s + l
        /\ (v + 1) % l = IF v + 1 < l THEN v + 1 ELSE 0
    BY <1>1, Ahead
  <2> QED BY <1>d, <2>1, Zenon
<1>3. \A a \in Int : Slot(a + l) = Slot(a) /\ Slot(a - l) = Slot(a)
  <2> TAKE a \in Int
  <2>1. Capacity >= 1
    BY <1>1
  <2>2. (a + l) % Capacity = a % Capacity /\ (a - l) % Capacity = a % Capacity
    BY <1>1, <2>1, Turns, Zenon
  <2> QED BY <1>d, <2>2, Zenon
<1> DEFINE n == Held(w, r)
           wn == After(w)
           rn == After(r)
<1>n. /\ n = IF w >= r THEN w - r ELSE w - r + l
      /\ wn = IF w + 1 < l THEN w + 1 ELSE 0
      /\ rn = IF r + 1 < l THEN r + 1 ELSE 0
  BY <1>1, <1>2, Zenon
<1>m. n \in 0..(l - 1) /\ wn \in 0..(l - 1) /\ rn \in 0..(l - 1)
  <2> HIDE DEF n, wn, rn
  <2> QED BY <1>1, <1>n
<1>k. /\ Held(wn, r) = IF wn >= r THEN wn - r ELSE wn - r + l
      /\ Held(w, rn) = IF w >= rn THEN w - rn ELSE w - rn + l
  <2> HIDE DEF n, wn, rn
  <2> QED BY <1>1, <1>2, <1>m, Zenon
<1>4. Held(w, r) \in 0..(l - 1) /\ After(w) \in 0..(l - 1) /\ After(r) \in 0..(l - 1)
  BY <1>m
<1>5. n + 1 < l => Held(wn, r) = n + 1
  <2> HIDE DEF n, wn, rn
  <2> QED BY <1>1, <1>n, <1>k
<1>6. n >= 1 => Held(w, rn) = n - 1
  <2> HIDE DEF n, wn, rn
  <2> QED BY <1>1, <1>n, <1>k
<1>7. w # r => Held(w, r) >= 1
  BY <1>1, <1>2, <1>4
<1>8. wn = r <=> n = l - 1
  <2> HIDE DEF n, wn, rn
  <2> QED BY <1>1, <1>n
<1>9. Held(w, r) <= Depth => (Full(w, r) <=> Held(w, r) = Depth)
  <2>1. CASE counted
    BY <1>1, <1>4, <1>d, <2>1 DEF Depth
  <2>2. CASE ~counted
    BY <1>1, <1>4, <1>8, <1>d, <2>2 DEF Depth
  <2> QED BY <2>1, <2>2
<1>10. Slot(w) = Slot(r + Held(w, r))
  <2>1. CASE w >= r
    <3>1. r + Held(w, r) = w
      BY <1>1, <1>2, <2>1
    <3> QED BY <3>1
  <2>2. CASE w < r
    <3>1. r + Held(w, r) = w + l /\ w \in Int
      BY <1>1, <1>2, <2>2
    <3> QED BY <1>3, <3>1
  <2> QED BY <1>1, <2>1, <2>2
<1>11. ASSUME NEW j \in Int PROVE Slot(After(r) + j) = Slot(r + 1 + j)
  <2>1. CASE r + 1 < l
    <3>1. After(r) + j = r + 1 + j
      BY <1>1, <1>2, <2>1
    <3> QED BY <3>1
  <2>2. CASE ~(r + 1 < l)
    <3>1. After(r) + j = j /\ r + 1 + j = j + l
      BY <1>1, <1>2, <2>2
    <3> QED BY <1>3, <3>1
  <2> QED BY <2>1, <2>2
<1> QED BY <1>4, <1>5, <1>6, <1>7, <1>9, <1>10, <1>11 DEF l

\* The writer's slot is none of those that are held.
LEMMA WriterApart ==
  ASSUME RingInv, Held(writeIdx, readIdx) < Capacity,
         NEW k \in 1 .. Held(writeIdx, readIdx)
  PROVE  Slot(writeIdx) # Slot(readIdx + k - 1)
<1> DEFINE n == Held(writeIdx, readIdx)
<1>1. /\ n \in 0 .. Lap - 1 /\ Slot(writeIdx) = Slot(readIdx + n)
      /\ Lap \in Nat /\ Capacity \in Nat /\ Capacity >= 2 /\ readIdx \in Int
  BY HeldSteps, LapTurns DEF RingInv
<1>2. n < Capacity /\ k \in 1..n
  OBVIOUS
<1> HIDE DEF n
<1> DEFINE a == readIdx + k - 1
           d == n - k + 1
<1>3. a \in Int /\ d \in 1..(Capacity - 1) /\ readIdx + n = a + d
  BY <1>1, <1>2
<1> HIDE DEF a, d
<1>4. Slot(a + d) # Slot(a)
  <2>1. Capacity >= 1
    BY <1>1
  <2> QED BY <1>1, <1>3, <2>1, SlotsApart, Zenon DEF Slot
<1> QED BY <1>1, <1>3, <1>4 DEF a
\* Every step of the two ends keeps the ring's invariant.
LEMMA RingStep ==
  ASSUME RingInv, [RingNext]_ringVars
  PROVE  RingInv'
<1> DEFINE n == Held(writeIdx, readIdx)
<1>1. /\ n \in 0 .. Lap - 1
      /\ After(writeIdx) \in 0 .. Lap - 1 /\ After(readIdx) \in 0 .. Lap - 1
      /\ n + 1 < Lap => Held(After(writeIdx), readIdx) = n + 1
      /\ n >= 1 => Held(writeIdx, After(readIdx)) = n - 1
      /\ writeIdx # readIdx => n >= 1
      /\ Full(writeIdx, readIdx) <=> n = Depth
  BY HeldSteps DEF RingInv
<1>2. /\ Lap \in Nat /\ Capacity \in Nat /\ Capacity >= 2 /\ Depth \in Nat /\ Depth <= Capacity
      /\ Depth < Lap
  BY LapTurns DEF RingInv, Depth
<1>3. /\ n <= Depth
      /\ producer \in {"store", "publish"} => n < Depth
      /\ consumer # "idle" => n >= 1
  BY DEF RingInv
<1>4. \A x \in Int : Slot(x) \in 0 .. Capacity - 1
  BY <1>2 DEF Slot
<1> HIDE DEF n
<1>5. CASE UNCHANGED ringVars
  BY <1>5 DEF ringVars, RingInv, Held, After, Slot, Lap, Depth
<1>6. ASSUME NEW i \in Items, Push(i) PROVE RingInv'
  BY <1>6 DEF Push, RingInv, Held, Lap, Depth, Slot
<1>7. CASE PushCheck
  <2>1. producer' \in {"store", "publish"} => n < Depth
    BY <1>1, <1>2, <1>3, <1>7 DEF PushCheck
  <2>2. UNCHANGED <<counted, slots, writeIdx, readIdx, item, consumer>>
        /\ producer' \in {"idle", "store"} /\ producer = "check"
    BY <1>7 DEF PushCheck
  <2> QED BY <2>1, <2>2 DEF RingInv, Held, Lap, Depth, Slot, n
<1>8. CASE PushStore
  <2>1. UNCHANGED <<counted, writeIdx, readIdx, item, consumer>>
        /\ producer' = "publish" /\ producer = "store" /\ item \in Items
        /\ slots' = [slots EXCEPT ![Slot(writeIdx)] = item]
    BY <1>8 DEF PushStore, RingInv
  <2>2. Slot(writeIdx) \in 0 .. Capacity - 1
    BY <1>4 DEF RingInv
  <2>3. slots' \in [0 .. Capacity - 1 -> Items \cup {NoItem}] /\ slots'[Slot(writeIdx)] = item
    BY <2>1, <2>2 DEF RingInv
  <2>4. Slot(writeIdx)' = Slot(writeIdx)
    BY <2>1 DEF Slot
  <2> QED BY <2>1, <2>3, <2>4 DEF RingInv, Held, Lap, Depth
<1>9. CASE PushPublish
  <2>1. UNCHANGED <<counted, slots, readIdx, item, consumer>>
        /\ producer' = "idle" /\ producer = "publish" /\ writeIdx' = After(writeIdx)
    BY <1>9 DEF PushPublish
  <2>2. Held(After(writeIdx), readIdx) = n + 1 /\ n + 1 <= Depth /\ (consumer # "idle" => n + 1 >= 1)
    BY <1>1, <1>2, <1>3, <2>1
  <2>3. Held(writeIdx', readIdx') = n + 1
    BY <2>1, <2>2
  <2>4. Lap' = Lap /\ Depth' = Depth /\ Held(writeIdx, readIdx)' = n + 1
    BY <2>1, <2>3 DEF Lap, Depth, Held
  <2> QED BY <1>1, <2>1, <2>2, <2>4 DEF RingInv
<1>10. CASE Pop
  <2>1. UNCHANGED <<counted, slots, writeIdx, readIdx, producer, item>>
        /\ consumer' = "load" /\ readIdx # writeIdx
    BY <1>10 DEF Pop
  <2>2. n >= 1
    BY <1>1, <2>1
  <2> QED BY <2>1, <2>2 DEF RingInv, Held, Lap, Depth, Slot, n
<1>11. CASE PopLoad
  <2>1. CASE consumer = "load" /\ consumer' = "release"
             /\ UNCHANGED <<counted, slots, writeIdx, readIdx, producer, item>>
    BY <2>1 DEF RingInv, Held, Lap, Depth, Slot
  <2>2. CASE consumer = "release" /\ readIdx' = After(readIdx) /\ consumer' = "idle"
             /\ UNCHANGED <<counted, slots, writeIdx, producer, item>>
    <3>1. Held(writeIdx, After(readIdx)) = n - 1 /\ n - 1 <= Depth
          /\ (producer \in {"store", "publish"} => n - 1 < Depth)
      BY <1>1, <1>2, <1>3, <2>2
    <3>2. Lap' = Lap /\ Depth' = Depth /\ Held(writeIdx, readIdx)' = n - 1
          /\ Slot(writeIdx)' = Slot(writeIdx)
      BY <2>2, <3>1 DEF Lap, Depth, Held, Slot
    <3> QED BY <1>1, <2>2, <3>1, <3>2 DEF RingInv
  <2> QED BY <1>11, <2>1, <2>2 DEF PopLoad
<1>12. CASE ResetRing
  <2>1. UNCHANGED <<counted, slots, producer, item, consumer>>
        /\ writeIdx' = 0 /\ readIdx' = 0 /\ producer = "idle" /\ consumer = "idle"
    BY <1>12 DEF ResetRing
  <2>2. 0 \in 0 .. Lap - 1 /\ Held(0, 0) = 0
    <3>1. 0 \in 0 .. Lap - 1
      BY LapTurns DEF RingInv
    <3>2. (0 - 0) % Lap = 0
      BY <3>1, LapTurns, Ahead DEF RingInv
    <3> QED BY <3>1, <3>2 DEF Held
  <2>3. Lap' = Lap /\ Depth' = Depth /\ Held(writeIdx, readIdx)' = 0
    BY <2>1, <2>2 DEF Lap, Depth, Held
  <2> QED BY <1>2, <2>1, <2>2, <2>3 DEF RingInv
<1> QED BY <1>5, <1>6, <1>7, <1>8, <1>9, <1>10, <1>11, <1>12 DEF RingNext

\* The ring at rest.
LEMMA RingStarts ==
  ASSUME RingInit
  PROVE  RingInv /\ Held(writeIdx, readIdx) = 0
<1>1. /\ counted \in BOOLEAN /\ writeIdx = 0 /\ readIdx = 0 /\ producer = "idle" /\ consumer = "idle"
      /\ slots \in [0 .. Capacity - 1 -> Items \cup {NoItem}]
  BY DEF RingInit
<1>2. 0 \in 0 .. Lap - 1 /\ Depth \in Nat /\ Lap \in Nat /\ Lap >= 2
  BY <1>1, LapTurns DEF Depth
<1>3. (0 - 0) % Lap = 0
  BY <1>2, Ahead
<1>4. Held(writeIdx, readIdx) = 0
  BY <1>1, <1>3 DEF Held
<1> QED BY <1>1, <1>2, <1>4 DEF RingInv

-----------------------------------------------------------------------------
(* The rings as queues. *)

\* n slots from index a on, as a sequence.
Filled(f, a, n) == [k \in 1 .. n |-> f[Slot(a + k - 1)]]

Contents == Items \cup {NoItem}

\* Its length and its elements.
LEMMA FilledElements ==
  ASSUME NEW f \in [0 .. Capacity - 1 -> Contents], NEW a \in Int, NEW n \in Nat
  PROVE  /\ Filled(f, a, n) \in Seq(Contents)
         /\ Len(Filled(f, a, n)) = n
         /\ \A k \in 1 .. n : Filled(f, a, n)[k] = f[Slot(a + k - 1)]
<1>1. \A k \in 1 .. n : f[Slot(a + k - 1)] \in Contents
  <2> TAKE k \in 1 .. n
  <2>1. Slot(a + k - 1) \in 0 .. Capacity - 1
    BY RingAssumption DEF Slot
  <2> QED BY <2>1
<1> HIDE DEF Contents
<1> QED BY <1>1 DEF Filled

\* Is the first item copied and not yet given back?
Gone == IF consumer = "release" THEN 1 ELSE 0

\* What is in the ring, as so many slots.
LEMMA OccupiedFilled ==
  ASSUME RingInv
  PROVE  /\ Occupied = Filled(slots, readIdx + Gone, Held(writeIdx, readIdx) - Gone)
         /\ Held(writeIdx, readIdx) - Gone \in Nat /\ readIdx + Gone \in Int /\ Gone \in {0, 1}
         /\ Occupied \in Seq(Contents)
         /\ Len(Occupied) = Held(writeIdx, readIdx) - Gone
         /\ \A k \in 1 .. Len(Occupied) : Occupied[k] = slots[Slot(readIdx + Gone + k - 1)]
<1>1. Occupied = Filled(slots, readIdx + Gone, Held(writeIdx, readIdx) - Gone)
  BY DEF Occupied, Filled, Gone
<1>2. Held(writeIdx, readIdx) - Gone \in Nat /\ readIdx + Gone \in Int /\ Gone \in {0, 1}
  <2>1. Held(writeIdx, readIdx) \in 0 .. Lap - 1 /\ Lap \in Nat /\ readIdx \in Int
    BY HeldSteps, LapTurns DEF RingInv
  <2>2. consumer # "idle" => Held(writeIdx, readIdx) >= 1
    BY DEF RingInv
  <2> QED BY <2>1, <2>2 DEF Gone
<1>3. slots \in [0 .. Capacity - 1 -> Contents]
  BY DEF RingInv, Contents
<1> DEFINE a == readIdx + Gone
           n == Held(writeIdx, readIdx) - Gone
<1>4. Occupied = Filled(slots, a, n) /\ a \in Int /\ n \in Nat
  BY <1>1, <1>2
<1> HIDE DEF a, n
<1>5. /\ Occupied \in Seq(Contents) /\ Len(Occupied) = n
      /\ \A k \in 1 .. n : Occupied[k] = slots[Slot(a + k - 1)]
  BY <1>3, <1>4, FilledElements
<1> QED BY <1>1, <1>2, <1>5 DEF a, n
\* The same after a step, once it is known how many items that leaves.
LEMMA OccupiedNext ==
  ASSUME RingInv', NEW m \in Nat, Held(writeIdx, readIdx)' - Gone' = m,
         NEW a \in Int, readIdx' + Gone' = a
  PROVE  /\ Occupied' \in Seq(Contents)
         /\ Len(Occupied') = m
         /\ \A k \in 1 .. m : Occupied'[k] = slots'[Slot(a + k - 1)]
<1>1. Occupied' = Filled(slots', a, m)
  <2>1. Occupied' = [k \in 1 .. Held(writeIdx, readIdx)' - Gone' |-> slots'[Slot(readIdx' + Gone' + k - 1)]]
    BY DEF Occupied, Gone, Slot
  <2> QED BY <2>1 DEF Filled
<1>2. slots' \in [0 .. Capacity - 1 -> Contents]
  BY DEF RingInv, Contents
<1> QED BY <1>1, <1>2, FilledElements

\* A step that leaves the same items in the same places leaves the queue alone.
LEMMA SameOccupied ==
  ASSUME RingInv, RingInv', Held(writeIdx, readIdx)' - Gone' = Held(writeIdx, readIdx) - Gone,
         \A k \in 1 .. Held(writeIdx, readIdx) - Gone :
           slots'[Slot(readIdx' + Gone' + k - 1)] = slots[Slot(readIdx + Gone + k - 1)],
         readIdx' + Gone' \in Int
  PROVE  Occupied' = Occupied
<1>1. /\ Held(writeIdx, readIdx) - Gone \in Nat
      /\ Occupied \in Seq(Contents)
      /\ Len(Occupied) = Held(writeIdx, readIdx) - Gone
      /\ \A k \in 1 .. Len(Occupied) : Occupied[k] = slots[Slot(readIdx + Gone + k - 1)]
  BY OccupiedFilled
<1> DEFINE m == Held(writeIdx, readIdx) - Gone
           a == readIdx' + Gone'
<1>2. m \in Nat /\ Held(writeIdx, readIdx)' - Gone' = m /\ a \in Int /\ readIdx' + Gone' = a
  BY <1>1
<1> HIDE DEF m, a
<1>3. /\ Occupied' \in Seq(Contents) /\ Len(Occupied') = m
      /\ \A k \in 1 .. m : Occupied'[k] = slots'[Slot(a + k - 1)]
  BY <1>2, OccupiedNext
<1>4. \A k \in 1 .. Len(Occupied) : Occupied'[k] = Occupied[k]
  BY <1>1, <1>3 DEF m, a
<1> QED BY <1>1, <1>3, <1>4, SeqEqual DEF m

\* publish puts the stored item at the end of the queue.
LEMMA PublishRefines ==
  ASSUME RingInv, RingInv', PushPublish
  PROVE  Queue!Put
<1> DEFINE n == Held(writeIdx, readIdx)
           m == n - Gone
           a == readIdx + Gone
           longer == Append(Occupied, item)
<1>1. /\ m \in Nat /\ Gone \in {0, 1} /\ a \in Int
      /\ Occupied \in Seq(Contents)
      /\ Len(Occupied) = m
      /\ \A k \in 1 .. Len(Occupied) : Occupied[k] = slots[Slot(readIdx + Gone + k - 1)]
  BY OccupiedFilled
<1>2. UNCHANGED <<counted, slots, readIdx, item, consumer, popped>>
      /\ producer = "publish" /\ writeIdx' = After(writeIdx)
  BY DEF PushPublish
<1>3. /\ n \in 0 .. Lap - 1 /\ Lap \in Nat /\ n < Depth /\ Depth <= Capacity /\ Depth < Lap
      /\ Depth \in Nat /\ Capacity \in Nat
      /\ n + 1 < Lap => Held(After(writeIdx), readIdx) = n + 1
      /\ Slot(writeIdx) = Slot(readIdx + n)
      /\ slots[Slot(writeIdx)] = item /\ item \in Items
  <2>1. /\ counted \in BOOLEAN /\ writeIdx \in 0 .. Lap - 1 /\ readIdx \in 0 .. Lap - 1
        /\ n < Depth /\ slots[Slot(writeIdx)] = item /\ item \in Items
    BY <1>2 DEF RingInv
  <2>2. /\ n \in 0 .. Lap - 1 /\ Slot(writeIdx) = Slot(readIdx + n)
        /\ n + 1 < Lap => Held(After(writeIdx), readIdx) = n + 1
    BY <2>1, HeldSteps
  <2>3. /\ Lap \in Nat /\ Depth <= Capacity /\ Depth < Lap /\ Depth \in Nat /\ Capacity \in Nat
    BY <2>1, LapTurns DEF Depth
  <2> QED BY <2>1, <2>2, <2>3
<1> HIDE DEF n
<1>4. Held(writeIdx, readIdx)' = n + 1 /\ Gone' = Gone
  <2>1. Held(After(writeIdx), readIdx) = n + 1
    BY <1>3
  <2> QED BY <1>2, <2>1 DEF Held, Lap, Gone
<1>5. /\ Held(writeIdx, readIdx)' - Gone' = m + 1 /\ m + 1 \in Nat /\ readIdx' + Gone' = a
  BY <1>1, <1>2, <1>3, <1>4
<1> HIDE DEF m, a
<1>6. /\ Occupied' \in Seq(Contents) /\ Len(Occupied') = m + 1
      /\ \A k \in 1 .. m + 1 : Occupied'[k] = slots'[Slot(a + k - 1)]
  <2> DEFINE mm == m + 1
  <2>1. Held(writeIdx, readIdx)' - Gone' = mm /\ mm \in Nat
    BY <1>5
  <2> HIDE DEF mm
  <2>2. /\ Occupied' \in Seq(Contents) /\ Len(Occupied') = mm
        /\ \A k \in 1 .. mm : Occupied'[k] = slots'[Slot(a + k - 1)]
    BY <1>1, <1>5, <2>1, OccupiedNext
  <2> QED BY <2>2 DEF mm
<1>7. item \in Contents
  BY <1>3 DEF Contents
<1>8. /\ longer \in Seq(Contents) /\ Len(longer) = m + 1 /\ longer[m + 1] = item
      /\ \A k \in 1 .. m : longer[k] = Occupied[k]
  BY <1>1, <1>7, AppendProperties
<1> HIDE DEF longer
<1>9. ASSUME NEW k \in 1 .. m + 1 PROVE Occupied'[k] = longer[k]
  <2>1. Occupied'[k] = slots[Slot(a + k - 1)]
    BY <1>2, <1>6
  <2>2. CASE k = m + 1
    <3>1. a + k - 1 = readIdx + n
      <4>1. readIdx \in Int
        BY LapTurns DEF RingInv
      <4> QED BY <1>1, <1>3, <2>2, <4>1 DEF m, a
    <3> QED BY <1>3, <1>8, <2>1, <2>2, <3>1
  <2>3. CASE k # m + 1
    <3>1. k \in 1 .. m
      BY <1>1, <2>3
    <3>2. Occupied[k] = slots[Slot(a + k - 1)]
      BY <1>1, <3>1 DEF a
    <3> QED BY <1>8, <2>1, <3>1, <3>2
  <2> QED BY <2>2, <2>3
<1>10. Occupied' = longer
  BY <1>6, <1>8, <1>9, SeqEqual
<1>11. Len(Occupied) < Capacity
  BY <1>1, <1>3 DEF m
<1> QED BY <1>2, <1>3, <1>10, <1>11 DEF Queue!Put, longer

\* The copy out takes the first item.
LEMMA LoadRefines ==
  ASSUME RingInv, RingInv', consumer = "load", consumer' = "release",
         popped' = slots[Slot(readIdx)],
         UNCHANGED <<counted, slots, writeIdx, readIdx>>
  PROVE  Queue!Take
<1> DEFINE n == Held(writeIdx, readIdx)
           rest == Tail(Occupied)
<1>1. /\ n \in Nat /\ n >= 1 /\ readIdx \in Int
  BY HeldSteps, LapTurns DEF RingInv
<1>2. Gone = 0 /\ Gone' = 1 /\ Held(writeIdx, readIdx)' = n
  BY DEF Gone, Held, Lap
<1> HIDE DEF n
<1>3. /\ Occupied \in Seq(Contents) /\ Len(Occupied) = n
      /\ \A k \in 1 .. n : Occupied[k] = slots[Slot(readIdx + k - 1)]
  <2>1. Held(writeIdx, readIdx) - Gone = n
    BY <1>1, <1>2 DEF n
  <2>2. \A k \in 1 .. n : readIdx + Gone + k - 1 = readIdx + k - 1
    BY <1>1, <1>2
  <2> QED BY <2>1, <2>2, OccupiedFilled
<1>4. /\ Occupied' \in Seq(Contents) /\ Len(Occupied') = n - 1
      /\ \A k \in 1 .. n - 1 : Occupied'[k] = slots'[Slot(readIdx + 1 + k - 1)]
  <2> DEFINE m == n - 1
             a == readIdx + 1
  <2>1. m \in Nat /\ a \in Int /\ Held(writeIdx, readIdx)' - Gone' = m /\ readIdx' + Gone' = a
    BY <1>1, <1>2
  <2> HIDE DEF m, a
  <2>2. /\ Occupied' \in Seq(Contents) /\ Len(Occupied') = m
        /\ \A k \in 1 .. m : Occupied'[k] = slots'[Slot(a + k - 1)]
    BY <2>1, OccupiedNext
  <2> QED BY <2>2 DEF m, a
<1>5. Occupied # <<>>
  BY <1>1, <1>3
<1>6. /\ Head(Occupied) = Occupied[1]
      /\ rest \in Seq(Contents) /\ Len(rest) = n - 1
      /\ \A k \in 1 .. n - 1 : rest[k] = Occupied[k + 1]
  BY <1>1, <1>3, <1>5, HeadTailProperties
<1> HIDE DEF rest
<1>7. ASSUME NEW k \in 1 .. n - 1 PROVE Occupied'[k] = rest[k]
  <2>1. k + 1 \in 1 .. n /\ readIdx + 1 + k - 1 = readIdx + (k + 1) - 1
    BY <1>1
  <2> QED BY <1>3, <1>4, <1>6, <2>1
<1>8. Occupied' = rest
  BY <1>4, <1>6, <1>7, SeqEqual
<1>9. popped' = Head(Occupied)
  <2>1. 1 \in 1 .. n /\ readIdx + 1 - 1 = readIdx
    BY <1>1
  <2> QED BY <1>3, <1>6, <2>1
<1> QED BY <1>5, <1>8, <1>9 DEF Queue!Take, rest

\* Every step of the two ends is a step of the queue, or none.
LEMMA RingRefines ==
  ASSUME RingInv, RingInv', [RingNext]_ringVars
  PROVE  [Queue!Put \/ Queue!Take \/ Queue!Drop]_<<Occupied, popped>>
<1>i. readIdx \in Int /\ writeIdx \in Int /\ Capacity \in Nat
  BY LapTurns DEF RingInv
<1>1. CASE \/ UNCHANGED ringVars \/ (\E i \in Items : Push(i)) \/ PushCheck \/ Pop
  <2>1. /\ UNCHANGED <<counted, slots, writeIdx, readIdx, popped>>
        /\ Gone' = Gone
    BY <1>1 DEF ringVars, Push, PushCheck, Pop, Gone
  <2>2. Occupied' = Occupied
    BY <2>1 DEF Occupied, Gone, Held, Lap, Slot
  <2> QED BY <2>1, <2>2
<1>2. CASE PushStore
  <2>1. /\ UNCHANGED <<counted, writeIdx, readIdx, popped>> /\ Gone' = Gone /\ producer = "store"
        /\ slots' = [slots EXCEPT ![Slot(writeIdx)] = item]
    BY <1>2 DEF PushStore, Gone
  <2>2. Held(writeIdx, readIdx)' = Held(writeIdx, readIdx)
    BY <2>1 DEF Held, Lap
  <2>3. Held(writeIdx, readIdx) < Capacity /\ Held(writeIdx, readIdx) \in Nat
    <3>1. /\ counted \in BOOLEAN /\ writeIdx \in 0 .. Lap - 1 /\ readIdx \in 0 .. Lap - 1
          /\ Held(writeIdx, readIdx) < Depth
      BY <2>1 DEF RingInv
    <3>2. Held(writeIdx, readIdx) \in 0 .. Lap - 1
      BY <3>1, HeldSteps
    <3>3. Lap \in Nat /\ Depth <= Capacity /\ Depth \in Nat /\ Capacity \in Nat
      BY <3>1, LapTurns DEF Depth
    <3> QED BY <3>1, <3>2, <3>3
  <2>4. /\ Held(writeIdx, readIdx) - Gone \in Nat /\ Gone \in {0, 1} /\ readIdx + Gone \in Int
    BY OccupiedFilled
  <2>5. ASSUME NEW k \in 1 .. Held(writeIdx, readIdx) - Gone
        PROVE  slots'[Slot(readIdx' + Gone' + k - 1)] = slots[Slot(readIdx + Gone + k - 1)]
    <3> DEFINE j == k + Gone
               place == Slot(readIdx + j - 1)
    <3>1. j \in 1 .. Held(writeIdx, readIdx) /\ readIdx + Gone + k - 1 = readIdx + j - 1
          /\ readIdx + j - 1 \in Int
      BY <1>i, <2>3, <2>4
    <3> HIDE DEF j
    <3>2. Slot(writeIdx) # place
      BY <2>3, <3>1, WriterApart
    <3>3. place \in 0 .. Capacity - 1
      BY <3>1, RingAssumption DEF Slot
    <3>4. slots \in [0 .. Capacity - 1 -> Items \cup {NoItem}]
      BY DEF RingInv
    <3> HIDE DEF place
    <3>5. slots'[place] = slots[place]
      BY <2>1, <3>2, <3>3, <3>4
    <3>6. readIdx' + Gone' + k - 1 = readIdx + Gone + k - 1
      BY <2>1
    <3> QED BY <3>1, <3>5, <3>6 DEF place
  <2>6. Occupied' = Occupied
    BY <2>1, <2>2, <2>4, <2>5, SameOccupied
  <2> QED BY <2>1, <2>6
<1>3. CASE PushPublish
  BY <1>3, PublishRefines
<1>4. CASE PopLoad
  <2>1. CASE /\ consumer = "load" /\ consumer' = "release" /\ popped' = slots[Slot(readIdx)]
             /\ UNCHANGED <<counted, slots, writeIdx, readIdx>>
    BY <2>1, LoadRefines
  <2>2. CASE /\ consumer = "release" /\ consumer' = "idle" /\ readIdx' = After(readIdx)
             /\ UNCHANGED <<counted, slots, writeIdx, popped>>
    <3> DEFINE n == Held(writeIdx, readIdx)
    <3>1. /\ n \in Nat /\ n >= 1 /\ Held(writeIdx, After(readIdx)) = n - 1
          /\ After(readIdx) \in Int
          /\ \A j \in Int : Slot(After(readIdx) + j) = Slot(readIdx + 1 + j)
      BY <2>2, HeldSteps, LapTurns DEF RingInv
    <3>2. Held(writeIdx, readIdx)' = n - 1 /\ Gone = 1 /\ Gone' = 0
      <4>1. Held(writeIdx, After(readIdx)) = n - 1
        BY <3>1
      <4> HIDE DEF n
      <4> QED BY <2>2, <4>1 DEF Held, Lap, Gone
    <3>3. Held(writeIdx, readIdx)' - Gone' = Held(writeIdx, readIdx) - Gone
          /\ readIdx' + Gone' = After(readIdx) /\ readIdx' + Gone' \in Int
      BY <2>2, <3>1, <3>2
    <3>4. ASSUME NEW k \in 1 .. Held(writeIdx, readIdx) - Gone
          PROVE  slots'[Slot(readIdx' + Gone' + k - 1)] = slots[Slot(readIdx + Gone + k - 1)]
      <4>1. /\ readIdx' + Gone' + k - 1 = After(readIdx) + (k - 1)
            /\ readIdx + Gone + k - 1 = readIdx + 1 + (k - 1)
            /\ k - 1 \in Int
        BY <1>i, <3>1, <3>2, <3>3
      <4>2. Slot(After(readIdx) + (k - 1)) = Slot(readIdx + 1 + (k - 1))
        BY <3>1, <4>1
      <4> QED BY <2>2, <4>1, <4>2
    <3>5. Occupied' = Occupied
      BY <3>3, <3>4, SameOccupied
    <3> QED BY <2>2, <3>5
  <2> QED BY <1>4, <2>1, <2>2 DEF PopLoad
<1>5. CASE ResetRing
  <2>1. /\ writeIdx' = 0 /\ readIdx' = 0 /\ UNCHANGED <<counted, popped>> /\ Gone' = 0
    BY <1>5 DEF ResetRing, Gone
  <2>2. Held(writeIdx, readIdx)' = 0
    <3>1. (0 - 0) % Lap = 0
      BY LapTurns, Ahead DEF RingInv
    <3> QED BY <2>1, <3>1 DEF Held, Lap
  <2>3. Occupied' = <<>>
    <3> DEFINE m == 0
    <3>1. Occupied' \in Seq(Contents) /\ Len(Occupied') = m
      BY <2>1, <2>2, OccupiedNext
    <3> QED BY <3>1, EmptySeq
  <2> QED BY <2>1, <2>3 DEF Queue!Drop
<1> QED BY <1>1, <1>2, <1>3, <1>4, <1>5 DEF RingNext

\* Whatever the steps of producer and consumer interleave to, for rings of any
\* size, of either kind, and wherever the indices wrap: each ring is a bounded
\* first-in first-out queue, in which no item is lost, doubled, overtaken or
\* overwritten before it is read.
THEOREM RingsAreQueues == RingSpec => ImplementsQueue
<1>1. RingInit => RingInv
  BY RingStarts
<1>2. RingInv /\ [RingNext]_ringVars => RingInv'
  BY RingStep
<1>3. RingInit => Queue!QueueInit
  <2> SUFFICES ASSUME RingInit PROVE Queue!QueueInit
    OBVIOUS
  <2>1. RingInv /\ Held(writeIdx, readIdx) = 0 /\ Gone = 0 /\ popped = NoItem
    BY RingStarts DEF RingInit, Gone
  <2>2. Occupied \in Seq(Contents) /\ Len(Occupied) = 0
    BY <2>1, OccupiedFilled
  <2> QED BY <2>1, <2>2, EmptySeq DEF Queue!QueueInit
<1>4. RingInv /\ RingInv' /\ [RingNext]_ringVars
        => [Queue!Put \/ Queue!Take \/ Queue!Drop]_<<Occupied, popped>>
  BY RingRefines
<1> QED BY <1>1, <1>2, <1>3, <1>4, PTL DEF RingSpec, ImplementsQueue, Queue!QueueSpec

-----------------------------------------------------------------------------
(* The regimes of chart intelligence (ChartIntelligence). *)

\* Some reading of s is among those that enter, and none since is among those that leave.
LatchedOver(s, enter, leave) ==
  \E i \in DOMAIN s : s[i] \in enter /\ \A j \in i .. Len(s) : s[j] \notin leave

\* What one more reading does to a latch.
LEMMA LatchStep ==
  ASSUME NEW s \in Seq(Readings), NEW r \in Readings, NEW enter, NEW leave
  PROVE  LatchedOver(Append(s, r), enter, leave) <=>
           (r \in enter \/ LatchedOver(s, enter, leave)) /\ r \notin leave
<1> DEFINE t == Append(s, r)
           n == Len(s)
<1>1. /\ n \in Nat /\ DOMAIN s = 1 .. n /\ Len(t) = n + 1 /\ DOMAIN t = 1 .. n + 1
      /\ t[n + 1] = r /\ \A i \in 1 .. n : t[i] = s[i]
  OBVIOUS
<1> HIDE DEF t
<1>2. ASSUME LatchedOver(t, enter, leave)
      PROVE  (r \in enter \/ LatchedOver(s, enter, leave)) /\ r \notin leave
  <2>1. PICK i \in 1 .. n + 1 : t[i] \in enter /\ \A j \in i .. n + 1 : t[j] \notin leave
    BY <1>1, <1>2 DEF LatchedOver
  <2>2. r \notin leave
    BY <1>1, <2>1
  <2>3. CASE i = n + 1
    BY <1>1, <2>1, <2>2, <2>3
  <2>4. CASE i # n + 1
    <3>1. i \in 1 .. n /\ \A j \in i .. n : j \in i .. n + 1 /\ j \in 1 .. n
      BY <1>1, <2>4
    <3>2. s[i] \in enter /\ \A j \in i .. n : s[j] \notin leave
      BY <1>1, <2>1, <3>1
    <3> QED BY <1>1, <2>2, <3>1, <3>2 DEF LatchedOver
  <2> QED BY <2>3, <2>4
<1>3. ASSUME r \in enter, r \notin leave
      PROVE  LatchedOver(t, enter, leave)
  <2>1. n + 1 \in DOMAIN t /\ t[n + 1] \in enter /\ \A j \in n + 1 .. Len(t) : t[j] \notin leave
    BY <1>1, <1>3
  <2> QED BY <2>1 DEF LatchedOver
<1>4. ASSUME LatchedOver(s, enter, leave), r \notin leave
      PROVE  LatchedOver(t, enter, leave)
  <2>1. PICK i \in 1 .. n : s[i] \in enter /\ \A j \in i .. n : s[j] \notin leave
    BY <1>1, <1>4 DEF LatchedOver
  <2>2. i \in DOMAIN t /\ t[i] \in enter
    BY <1>1, <2>1
  <2>3. ASSUME NEW j \in i .. Len(t) PROVE t[j] \notin leave
    <3>1. j = n + 1 \/ (j \in i .. n /\ j \in 1 .. n)
      BY <1>1
    <3> QED BY <1>1, <1>4, <2>1, <3>1
  <2> QED BY <2>2, <2>3 DEF LatchedOver
<1> QED BY <1>2, <1>3, <1>4 DEF t

\* The readings that cross the thresholds of the regimes.
HighVol == {r \in Readings : RegimeRatio(r) >= 185}
Calmer == {r \in Readings : RegimeRatio(r) <= 170}
LowVol == {r \in Readings : RegimeRatio(r) <= 65}
Livelier == {r \in Readings : RegimeRatio(r) >= 75}
Deep == {r \in Readings : RegimeDepth(r) >= 155}
Shallower == {r \in Readings : RegimeDepth(r) <= 140}
Thin == {r \in Readings : RegimeDepth(r) <= 45}
Fuller == {r \in Readings : RegimeDepth(r) >= 55}
Torn == {r \in Readings : Drop(r) >= 53 \/ r.roll <= 0}
Mending == {r \in Readings : Drop(r) <= 47 /\ r.roll > 0}
Loose == {r \in Readings : Drop(r) >= 28 \/ r.roll <= 0}
Tied == {r \in Readings : Drop(r) <= 22 /\ r.roll > 0}

\* RegimesFollowCrossings with the crossings as sets of readings.
RegimesLatched ==
  /\ readings \in Seq(Readings)
  /\ modifier.volatility = "high" <=> LatchedOver(readings, HighVol, Calmer)
  /\ modifier.volatility = "low" <=> LatchedOver(readings, LowVol, Livelier)
  /\ modifier.liquidity = "high" <=> LatchedOver(readings, Deep, Shallower)
  /\ modifier.liquidity = "low" <=> LatchedOver(readings, Thin, Fuller)
  /\ modifier.correlation = "high" <=> LatchedOver(readings, Torn, Mending)
  /\ modifier.correlation # "low" <=> LatchedOver(readings, Loose, Tied)

\* Latches that are set by what the last crossing was are what the property says.
LEMMA LatchedMeansCrossed ==
  ASSUME RegimesLatched
  PROVE  RegimesFollowCrossings
<1>1. /\ Len(readings) \in Nat /\ DOMAIN readings = 1 .. Len(readings)
      /\ \A i \in DOMAIN readings : readings[i] \in Readings
      /\ \A i \in DOMAIN readings : \A j \in i .. Len(readings) : j \in DOMAIN readings
  BY DEF RegimesLatched
<1>3. LatchedOver(readings, HighVol, Calmer) <=>
        \E i \in DOMAIN readings :
          /\ RegimeRatio(readings[i]) >= 185
          /\ \A j \in i .. Len(readings) : ~(RegimeRatio(readings[j]) <= 170)
  BY <1>1 DEF LatchedOver, HighVol, Calmer
<1>4. LatchedOver(readings, LowVol, Livelier) <=>
        \E i \in DOMAIN readings :
          /\ RegimeRatio(readings[i]) <= 65
          /\ \A j \in i .. Len(readings) : ~(RegimeRatio(readings[j]) >= 75)
  BY <1>1 DEF LatchedOver, LowVol, Livelier
<1>5. LatchedOver(readings, Deep, Shallower) <=>
        \E i \in DOMAIN readings :
          /\ RegimeDepth(readings[i]) >= 155
          /\ \A j \in i .. Len(readings) : ~(RegimeDepth(readings[j]) <= 140)
  BY <1>1 DEF LatchedOver, Deep, Shallower
<1>6. LatchedOver(readings, Thin, Fuller) <=>
        \E i \in DOMAIN readings :
          /\ RegimeDepth(readings[i]) <= 45
          /\ \A j \in i .. Len(readings) : ~(RegimeDepth(readings[j]) >= 55)
  BY <1>1 DEF LatchedOver, Thin, Fuller
<1>7. LatchedOver(readings, Torn, Mending) <=>
        \E i \in DOMAIN readings :
          /\ Drop(readings[i]) >= 53 \/ readings[i].roll <= 0
          /\ \A j \in i .. Len(readings) : ~(Drop(readings[j]) <= 47 /\ readings[j].roll > 0)
  BY <1>1 DEF LatchedOver, Torn, Mending
<1>8. LatchedOver(readings, Loose, Tied) <=>
        \E i \in DOMAIN readings :
          /\ Drop(readings[i]) >= 28 \/ readings[i].roll <= 0
          /\ \A j \in i .. Len(readings) : ~(Drop(readings[j]) <= 22 /\ readings[j].roll > 0)
  BY <1>1 DEF LatchedOver, Loose, Tied
<1> QED BY <1>3, <1>4, <1>5, <1>6, <1>7, <1>8, Zenon
        DEF RegimesLatched, RegimesFollowCrossings, Latched

\* What a reading is worth.
LEMMA ReadingValues ==
  ASSUME NEW r \in Readings
  PROVE  RegimeRatio(r) \in Nat /\ RegimeDepth(r) \in Nat /\ Drop(r) \in Int /\ r.roll \in Int
<1>1. r \in ReadingType
  BY ChartAssumption
<1>2. /\ r.ratio \in Nat /\ r.depth \in Nat /\ r.roll \in -100 .. 100 /\ r.expected \in -100 .. 100
  BY <1>1 DEF ReadingType
<1>3. RegimeRatio(r) \in Nat /\ RegimeDepth(r) \in Nat
  BY <1>2 DEF RegimeRatio, RegimeDepth
<1>4. Drop(r) \in Int
  <2> DEFINE x == r.expected - r.roll
             S == {0, x}
  <2>1. x \in Int
    <3>1. r.expected \in Int /\ r.roll \in Int
      BY <1>2
    <3> QED BY <3>1
  <2> HIDE DEF x
  <2>2. \E m \in S : \A y \in S : m >= y
    <3>1. CASE x >= 0
      BY <2>1, <3>1
    <3>2. CASE x <= 0
      BY <2>1, <3>2
    <3> QED BY <2>1, <3>1, <3>2
  <2>3. Max(S) \in S
    BY <2>2 DEF Max
  <2> QED BY <2>1, <2>3 DEF Drop, x
<1> QED BY <1>2, <1>3, <1>4

\* One cycle moves each regime as it moves its latch.
LEMMA ObserveKeepsLatches ==
  ASSUME RegimesLatched, NEW r \in Readings, Observe(r)
  PROVE  RegimesLatched'
<1>1. /\ readings \in Seq(Readings) /\ readings' = Append(readings, r)
      /\ readings' \in Seq(Readings)
  BY DEF RegimesLatched, Observe
<1>2. /\ modifier'.volatility = VolatilityRegime(modifier.volatility, r)
      /\ modifier'.liquidity = LiquidityRegime(modifier.liquidity, r)
      /\ modifier'.correlation = CorrelationRegime(modifier.correlation, r)
  BY DEF Observe, compute_regime_modifier
<1>3. RegimeRatio(r) \in Nat /\ RegimeDepth(r) \in Nat /\ Drop(r) \in Int /\ r.roll \in Int
  BY ReadingValues
<1>4. \A enter, leave :
        LatchedOver(readings', enter, leave) <=>
          (r \in enter \/ LatchedOver(readings, enter, leave)) /\ r \notin leave
  BY <1>1, LatchStep, Zenon
<1>5. /\ modifier.volatility = "high" <=> LatchedOver(readings, HighVol, Calmer)
      /\ modifier.volatility = "low" <=> LatchedOver(readings, LowVol, Livelier)
      /\ modifier.liquidity = "high" <=> LatchedOver(readings, Deep, Shallower)
      /\ modifier.liquidity = "low" <=> LatchedOver(readings, Thin, Fuller)
      /\ modifier.correlation = "high" <=> LatchedOver(readings, Torn, Mending)
      /\ modifier.correlation # "low" <=> LatchedOver(readings, Loose, Tied)
  BY DEF RegimesLatched
<1>6. /\ modifier'.volatility = "high" <=> LatchedOver(readings', HighVol, Calmer)
      /\ modifier'.volatility = "low" <=> LatchedOver(readings', LowVol, Livelier)
  BY <1>2, <1>3, <1>4, <1>5 DEF VolatilityRegime, Regime, HighVol, Calmer, LowVol, Livelier
<1>7. /\ modifier'.liquidity = "high" <=> LatchedOver(readings', Deep, Shallower)
      /\ modifier'.liquidity = "low" <=> LatchedOver(readings', Thin, Fuller)
  BY <1>2, <1>3, <1>4, <1>5 DEF LiquidityRegime, Regime, Deep, Shallower, Thin, Fuller
<1>8. /\ modifier'.correlation = "high" <=> LatchedOver(readings', Torn, Mending)
      /\ modifier'.correlation # "low" <=> LatchedOver(readings', Loose, Tied)
  BY <1>2, <1>3, <1>4, <1>5 DEF CorrelationRegime, Regime, Torn, Mending, Loose, Tied
<1>9. /\ UNCHANGED <<HighVol, Calmer, LowVol, Livelier, Deep, Shallower, Thin, Fuller>>
      /\ UNCHANGED <<Torn, Mending, Loose, Tied>>
  BY DEF HighVol, Calmer, LowVol, Livelier, Deep, Shallower, Thin, Fuller, Torn, Mending, Loose,
         Tied
<1> QED BY <1>1, <1>6, <1>7, <1>8 DEF RegimesLatched, LatchedOver

\* The anti-flicker promise of compute_regime_modifier, for any sequence of
\* readings: an extreme regime holds exactly from a crossing of its threshold of
\* entry to one of its own threshold of exit, although only the regimes of the
\* cycle before are kept.
THEOREM RegimesAreLatched == ChartSpec => []RegimesFollowCrossings
<1>1. ChartInit => RegimesLatched
  <2> SUFFICES ASSUME ChartInit PROVE RegimesLatched
    OBVIOUS
  <2>1. readings = <<>> /\ modifier = NoModifier
    BY DEF ChartInit
  <2>2. readings \in Seq(Readings) /\ DOMAIN readings = {}
    BY <2>1
  <2>3. \A enter, leave : ~LatchedOver(readings, enter, leave)
    BY <2>2 DEF LatchedOver
  <2> QED BY <2>1, <2>2, <2>3 DEF RegimesLatched, NoModifier
<1>2. RegimesLatched /\ [ChartNext]_chartVars => RegimesLatched'
  <2> SUFFICES ASSUME RegimesLatched, [ChartNext]_chartVars PROVE RegimesLatched'
    OBVIOUS
  <2>1. CASE UNCHANGED <<readings, modifier>>
    BY <2>1 DEF RegimesLatched, LatchedOver
  <2>2. ASSUME NEW r \in Readings, Observe(r) PROVE RegimesLatched'
    BY <2>2, ObserveKeepsLatches
  <2> QED BY <2>1, <2>2 DEF ChartNext, RegisterIndicator, SetActive, chartVars
<1>3. RegimesLatched => RegimesFollowCrossings
  BY LatchedMeansCrossed
<1> QED BY <1>1, <1>2, <1>3, PTL DEF ChartSpec

-----------------------------------------------------------------------------
(* The registry of plugins (PluginRegistry). *)

\* The mutex has one holder, who is in a call, and the maps hold factories.
RegistryOK ==
  /\ factories \in [Plugins -> Factories \cup {Unset}]
  /\ DOMAIN calling = Users
  /\ \A u \in Users : calling[u].what = "register" =>
       calling[u].plugin \in Plugins /\ calling[u].factory \in Factories

\* No step of the registry forgets the first factory of a name or replaces it.
LEMMA RegistryStepKeeps ==
  ASSUME RegistryOK, [RegistryNext]_registryVars
  PROVE  /\ RegistryOK'
         /\ \A p \in Plugins : factories[p] # Unset => factories'[p] = factories[p]
<1>0. CASE UNCHANGED registryVars
  BY <1>0 DEF registryVars, RegistryOK
<1>1. ASSUME NEW u \in Users, Request(u)
      PROVE  RegistryOK' /\ factories' = factories
  <2>1. factories' = factories
    BY <1>1 DEF Request
  <2>2. PICK c : /\ calling' = [calling EXCEPT ![u] = c]
                 /\ c.what = "register" => c.plugin \in Plugins /\ c.factory \in Factories
    <3>1. CASE \E p \in Plugins, f \in Factories :
                 calling' = [calling EXCEPT ![u] = [what |-> "register", plugin |-> p, factory |-> f]]
      <4>1. PICK p \in Plugins, f \in Factories :
              calling' = [calling EXCEPT ![u] = [what |-> "register", plugin |-> p, factory |-> f]]
        BY <3>1
      <4> DEFINE c == [what |-> "register", plugin |-> p, factory |-> f]
      <4>2. c.plugin \in Plugins /\ c.factory \in Factories /\ calling' = [calling EXCEPT ![u] = c]
        BY <4>1
      <4> HIDE DEF c
      <4> QED BY <4>2
    <3>2. CASE \E p \in Plugins, what \in {"create", "has"} :
                 calling' = [calling EXCEPT ![u] = [what |-> what, plugin |-> p]]
      <4>1. PICK p \in Plugins, what \in {"create", "has"} :
              calling' = [calling EXCEPT ![u] = [what |-> what, plugin |-> p]]
        BY <3>2
      <4> DEFINE c == [what |-> what, plugin |-> p]
      <4>2. c.what # "register" /\ calling' = [calling EXCEPT ![u] = c]
        BY <4>1
      <4> HIDE DEF c
      <4> QED BY <4>2
    <3> QED BY <1>1, <3>1, <3>2 DEF Request
  <2> QED BY <2>1, <2>2 DEF RegistryOK
<1>2. ASSUME NEW u \in Users, NEW how, Answer(u, how), RegistryOK
      PROVE  /\ DOMAIN calling' = Users
             /\ \A q \in Users : calling'[q].what = "register" =>
                  calling'[q].plugin \in Plugins /\ calling'[q].factory \in Factories
  <2>1. Returned(how).what = "idle"
    BY DEF Returned
  <2> QED BY <1>2, <2>1 DEF Answer, RegistryOK
<1>3. ASSUME NEW u \in Users, LockRegistry(u) \/ Has(u) \/ Construct(u)
      PROVE  RegistryOK' /\ factories' = factories
  BY <1>2, <1>3 DEF LockRegistry, Has, Construct, RegistryOK
<1>4. ASSUME NEW u \in Users, Register(u)
      PROVE  /\ RegistryOK'
             /\ \A p \in Plugins : factories[p] # Unset => factories'[p] = factories[p]
  <2>1. calling[u].plugin \in Plugins /\ calling[u].factory \in Factories
    BY <1>4 DEF Register, RegistryOK
  <2>2. CASE factories[calling[u].plugin] # Unset
    BY <1>2, <1>4, <2>2 DEF Register, RegistryOK
  <2>3. CASE factories[calling[u].plugin] = Unset
    BY <1>2, <1>4, <2>1, <2>3 DEF Register, RegistryOK
  <2> QED BY <2>2, <2>3
<1> QED BY <1>0, <1>1, <1>3, <1>4 DEF RegistryNext, RegistryStep, registryVars

\* Whatever threads register, look up and create at once, and whatever factories
\* throw or never return: the first factory of a name stays.
THEOREM FirstFactoryStays == RegistrySpec => FirstRegistrationStays
<1>1. RegistryInit => RegistryOK
  BY DEF RegistryInit, RegistryOK, Returned
<1>2. RegistryOK /\ [RegistryNext]_registryVars => RegistryOK'
  BY RegistryStepKeeps
<1>3. RegistryOK /\ [RegistryNext]_registryVars
        => [\A p \in Plugins : factories[p] # Unset => factories'[p] = factories[p]]_registryVars
  BY RegistryStepKeeps
<1> QED BY <1>1, <1>2, <1>3, PTL DEF RegistrySpec, FirstRegistrationStays

-----------------------------------------------------------------------------
(* What the charts list and read (ChartIntelligence). *)

\* What a score comes to.
LEMMA ScoreValue ==
  ASSUME NEW x \in Int
  PROVE  Score(x) = IF x < 0 THEN 0 ELSE IF x > 10000 THEN 10000 ELSE x
<1>1. Min({x, 10000}) = IF x <= 10000 THEN x ELSE 10000
  BY SmallerOfTwo
<1>2. Min({x, 10000}) \in Int
  BY <1>1
<1>3. Max({0, Min({x, 10000})}) = IF 0 >= Min({x, 10000}) THEN 0 ELSE Min({x, 10000})
  BY <1>2, GreaterOfTwo
<1> QED BY <1>1, <1>3 DEF Score, Between

\* The payloads that structural stress is read from.
StressTypes == {"VolatilityInstability", "LiquidityErosion", "BaselineDeterioration", "StructuralFatigue"}

\* What the indicators may say of a reading.
Indications(r) == {Indicate(fn, r) : fn \in Indicators}

\* The registry holds indicators.
RegistryHolds ==
  fns \in [IndicatorSlots -> Indicators \cup {Nothing}] /\ active \in [IndicatorSlots -> BOOLEAN]

\* execute_active lists indications, whatever the slots hold.
LEMMA ExecutedIndications ==
  ASSUME RegistryHolds, NEW r
  PROVE  ExecuteActive(r) \in Seq(Indications(r))
<1> DEFINE n == MaxIndicators
           B == Seq(Indications(r))
           Step(i, s) == IF active[i] /\ fns[i] # Nothing THEN Append(s, Indicate(fns[i], r)) ELSE s
           J == [i \in 1 .. n |-> [s \in B |-> Step(i, s)]]
           Is(list) == list = [i \in 0 .. n |-> IF i = 0 THEN <<>> ELSE Step(i, list[i - 1])]
           list == CHOOSE f : Is(f)
<1>1. n \in Nat /\ n # 0 /\ <<>> \in B
  BY ChartAssumption
<1>2. ASSUME NEW i \in 1 .. n, NEW s \in B PROVE Step(i, s) \in B
  <2>1. fns[i] # Nothing => Indicate(fns[i], r) \in Indications(r)
    BY DEF RegistryHolds, IndicatorSlots, Indications
  <2> HIDE DEF Indications
  <2> QED BY <2>1
<1>3. J \in [1 .. n -> [B -> B]]
  <2> HIDE DEF Step, B
  <2> QED BY <1>2
<1>4. \E f \in [0 .. n -> B] : Is(f)
  <2> HIDE DEF B, Step
  <2>1. PICK f \in [0 .. n -> B] : StepByStep(f, n, <<>>, J)
    <3> HIDE DEF J, n
    <3> QED BY <1>1, <1>3, StepsExist
  <2>2. ASSUME NEW i \in 1 .. n PROVE f[i] = Step(i, f[i - 1])
    <3>1. i - 1 \in 0 .. n
      BY <1>1
    <3>2. f[i - 1] \in B
      BY <3>1
    <3> QED BY <2>1, <3>2 DEF StepByStep
  <2>3. ASSUME NEW i \in 0 .. n PROVE f[i] = IF i = 0 THEN <<>> ELSE Step(i, f[i - 1])
    <3>1. i = 0 \/ (i # 0 /\ i \in 1 .. n)
      BY <1>1
    <3> QED BY <2>1, <2>2, <3>1 DEF StepByStep
  <2>4. Is(f)
    BY <2>3
  <2> QED BY <2>4
<1>5. Is(list)
  <2> HIDE DEF Is
  <2> QED BY <1>4
<1> DEFINE P == {m \in Nat : m <= n => list[m] \in B}
<1>6. 0 \in P
  <2> HIDE DEF Step, list
  <2>1. list[0] = <<>>
    BY <1>1, <1>5
  <2> QED BY <1>1, <2>1
<1>7. ASSUME NEW m \in Nat, m \in P PROVE m + 1 \in P
  <2> SUFFICES ASSUME m + 1 <= n PROVE list[m + 1] \in B
    OBVIOUS
  <2>1. list[m] \in B
    BY <1>1, <1>7
  <2> HIDE DEF Step, list, B
  <2>2. m + 1 \in 0 .. n /\ m + 1 # 0 /\ (m + 1) - 1 = m /\ m + 1 \in 1 .. n
    BY <1>1
  <2>3. list[m + 1] = Step(m + 1, list[m])
    BY <1>5, <2>2
  <2> QED BY <1>2, <2>1, <2>2, <2>3
<1> HIDE DEF P
<1>8. Nat \subseteq P
  BY <1>6, <1>7, NatSetInduction
<1> USE DEF P
<1>9. list[n] \in B
  <2> HIDE DEF list, B
  <2> QED BY <1>1, <1>8
<1>10. ExecuteActive(r) = list[n]
  BY Zenon DEF ExecuteActive
<1> HIDE DEF list
<1> QED BY <1>9, <1>10

\* All that the payloads of a cycle may be.
Told(r, m) ==
  Indications(r) \cup {WaveIndicator(r), Instability(r, m), Erosion(r, m), Breakdown(r, m), Deterioration(r, m)}
    \cup {Fatigue(Instability(r, m), Erosion(r, m), Deterioration(r, m), m)}

\* An indication bears the name of its indicator.
LEMMA IndicationNamed ==
  ASSUME NEW r, NEW p \in Indications(r)
  PROVE  p.type \in Indicators /\ p = Indicate(p.type, r)
<1>1. PICK fn \in Indicators : p = Indicate(fn, r)
  BY DEF Indications
<1>2. Indicate(fn, r).type = fn
  BY DEF Indicate, Indicators, ExpansionBands, DisplacementZones, DivergenceIndex, StrengthMeter, Payload
<1> QED BY <1>1, <1>2

\* The type of a payload says which it is.
LEMMA TypeSaysWhich ==
  ASSUME NEW r, NEW m, NEW p \in Told(r, m)
  PROVE  /\ p.type = "VolatilityExpansionBands" => p = ExpansionBands(r)
         /\ p.type = "LiquidityDisplacementZones" => p = DisplacementZones(r)
         /\ p.type = "BaselineStrengthMeter" => p = StrengthMeter(r)
         /\ p.type = "LiquidityErosion" => p = Erosion(r, m)
         /\ p.type = "BaselineDeterioration" => p = Deterioration(r, m)
         /\ p.type = "WaveNativeFinanceStream" => p = WaveIndicator(r)
<1>1. /\ WaveIndicator(r).type = "WaveNativeFinanceStream"
      /\ Instability(r, m).type = "VolatilityInstability"
      /\ Erosion(r, m).type = "LiquidityErosion"
      /\ Breakdown(r, m).type = "CorrelationBreakdown"
      /\ Deterioration(r, m).type = "BaselineDeterioration"
      /\ Fatigue(Instability(r, m), Erosion(r, m), Deterioration(r, m), m).type = "StructuralFatigue"
  BY DEF WaveIndicator, Instability, Erosion, Breakdown, Deterioration, Fatigue, Payload
<1>2. CASE p \in Indications(r)
  <2>1. p.type \in Indicators /\ p = Indicate(p.type, r)
    BY <1>2, IndicationNamed
  <2> QED BY <2>1 DEF Indicate, Indicators
<1>3. CASE p \notin Indications(r)
  BY <1>1, <1>3 DEF Told
<1> QED BY <1>2, <1>3

\* What a cycle lists: nothing but what it may, the erosion among it, and a wave
\* that does not come first at the end.
LEMMA ListTold ==
  ASSUME RegistryHolds, NEW r, NEW m
  PROVE  LET list == AllPayloads(r, m)
         IN  /\ list \in Seq(Told(r, m))
             /\ \E i \in DOMAIN list : list[i] = Erosion(r, m)
             /\ r.wave # Nothing /\ ~r.waveFirst => list # <<>> /\ list[Len(list)] = WaveIndicator(r)
<1> DEFINE T == Told(r, m)
           run == ExecuteActive(r)
           vol == Instability(r, m)
           liq == Erosion(r, m)
           base == Deterioration(r, m)
           own == run \o StressPayloads(r, m)
           wave == WaveIndicator(r)
           stream == IF r.wave = Nothing THEN <<>> ELSE <<wave>>
           list == IF r.waveFirst THEN stream \o own ELSE own \o stream
<1>1. run \in Seq(Indications(r))
  BY ExecutedIndications
<1>2. Indications(r) \subseteq T /\ wave \in T /\ vol \in T /\ liq \in T /\ Breakdown(r, m) \in T
      /\ base \in T /\ Fatigue(vol, liq, base, m) \in T
  BY DEF Told
<1>3. AllPayloads(r, m) = list
  BY DEF AllPayloads
<1>4. StressPayloads(r, m) = <<vol, liq, Breakdown(r, m), base, Fatigue(vol, liq, base, m)>>
  BY DEF StressPayloads
<1> HIDE DEF T, run, wave, vol, liq, base
<1>5. run \in Seq(T)
  BY <1>1, <1>2
<1>6. own \in Seq(T) /\ Len(own) = Len(run) + 5 /\ own[Len(run) + 2] = liq
  BY <1>2, <1>4, <1>5
<1> HIDE DEF own
<1>7. stream \in Seq(T) /\ (r.wave # Nothing => stream = <<wave>>)
  BY <1>2
<1> HIDE DEF stream
<1>8. Len(run) \in Nat
  BY <1>5
<1>9. CASE r.waveFirst
  <2>1. list \in Seq(T)
    BY <1>6, <1>7, <1>9
  <2>2. Len(stream) + Len(run) + 2 \in DOMAIN list /\ list[Len(stream) + Len(run) + 2] = liq
    BY <1>6, <1>7, <1>8, <1>9
  <2> QED BY <1>3, <1>9, <2>1, <2>2 DEF T, liq
<1>10. CASE ~r.waveFirst
  <2>1. list \in Seq(T)
    BY <1>6, <1>7, <1>10
  <2>2. Len(run) + 2 \in DOMAIN list /\ list[Len(run) + 2] = liq
    BY <1>6, <1>7, <1>8, <1>10
  <2>3. r.wave # Nothing => list # <<>> /\ list[Len(list)] = wave
    <3> SUFFICES ASSUME r.wave # Nothing PROVE list # <<>> /\ list[Len(list)] = wave
      OBVIOUS
    <3>1. list = own \o <<wave>> /\ Len(own) \in Nat
      <4>1. stream = <<wave>>
        BY <1>7
      <4>2. list = own \o stream
        BY <1>10
      <4> QED BY <1>6, <4>1, <4>2
    <3>2. Len(<<wave>>) = 1 /\ <<wave>>[1] = wave
      OBVIOUS
    <3>3. Len(list) = Len(own) + 1 /\ list[Len(own) + 1] = wave
      BY <1>2, <1>6, <3>1, <3>2
    <3>4. Len(<<>>) = 0
      OBVIOUS
    <3> QED BY <3>1, <3>3, <3>4
  <2> QED BY <1>3, <1>10, <2>1, <2>2, <2>3 DEF T, liq, wave
<1> QED BY <1>9, <1>10

\* The last payload of a type is one of it.
LEMMA LastIsOne ==
  ASSUME NEW T, NEW list \in Seq(T), NEW type, PayloadsOf(list, type) # {}
  PROVE  \E i \in PayloadsOf(list, type) :
           LastMetric(list, type, 0) = list[i].metric /\ \A j \in PayloadsOf(list, type) : j <= i
<1> DEFINE S == PayloadsOf(list, type)
<1>1. Len(list) \in Nat /\ S \in SUBSET (1 .. Len(list))
  BY DEF PayloadsOf
<1>2. Max(S) \in S /\ \A x \in S : Max(S) >= x
  <2> HIDE DEF S
  <2> DEFINE n == Len(list)
  <2>1. n \in Nat /\ S \in SUBSET (1 .. n) /\ S # {}
    BY <1>1 DEF S
  <2> HIDE DEF n
  <2> QED BY <2>1, GreatestMember
<1>3. \A x \in S : x <= Max(S)
  BY <1>1, <1>2
<1> QED BY <1>2, <1>3 DEF LastMetric

-----------------------------------------------------------------------------
(* What is drawn from them. *)

\* The regimes of a cycle.
ModifierHolds(m) ==
  m.volatility \in {"high", "middle", "low"} /\ m.liquidity \in {"high", "middle", "low"}

\* The parts of a reading.
LEMMA ReadingParts ==
  ASSUME NEW r \in Readings
  PROVE  /\ r.ratio \in Nat /\ r.short \in Nat /\ r.medium \in Nat /\ r.depth \in Nat
         /\ r.depthKnown \in BOOLEAN /\ r.based \in BOOLEAN /\ r.waveFirst \in BOOLEAN
BY ChartAssumption DEF ReadingType

\* How thin the book is.
LEMMA ThinningValue ==
  ASSUME NEW r \in Readings
  PROVE  Thinning(r) = IF r.depthKnown /\ r.depth < 100 THEN 100 - r.depth ELSE 0
<1>1. Max({0, 100 - r.depth}) = IF 0 >= 100 - r.depth THEN 0 ELSE 100 - r.depth
  BY ReadingParts, GreaterOfTwo
<1> QED BY <1>1, ReadingParts DEF Thinning

\* What a thin book means for the erosion payload.
LEMMA ErosionOfThinning ==
  ASSUME NEW r \in Readings, NEW m, ModifierHolds(m), r.depthKnown
  PROVE  /\ Thinning(r) < 30 => Erosion(r, m).state # "Depleted"
         /\ Thinning(r) <= 20 => Erosion(r, m).state = "Preserved"
<1> DEFINE t == Thinning(r)
           x == (t * 80 * LiquidityFactor(m)) \div 100
<1>1. t \in Nat /\ ErosionThinning(r) = t
  BY ThinningValue, ReadingParts DEF ErosionThinning
<1>2. LiquidityFactor(m) \in {85, 100, 125}
  BY DEF LiquidityFactor, ModifierHolds
<1> HIDE DEF t
<1>3. x \in Int /\ (t < 30 => x < 6000) /\ (t <= 20 => x < 3000)
  <2>1. CASE LiquidityFactor(m) = 85
    BY <1>1, <2>1
  <2>2. CASE LiquidityFactor(m) = 100
    BY <1>1, <2>2
  <2>3. CASE LiquidityFactor(m) = 125
    BY <1>1, <2>3
  <2> QED BY <1>2, <2>1, <2>2, <2>3
<1> HIDE DEF x
<1>4. Score(x) = IF x < 0 THEN 0 ELSE IF x > 10000 THEN 10000 ELSE x
  BY <1>3, ScoreValue
<1>5. Erosion(r, m).state =
        Grade(Score(x) >= 6000 \/ t >= 60, Score(x) >= 3000 \/ t >= 25, <<"Depleted", "Eroding", "Preserved">>)
  BY <1>1 DEF Erosion, Payload, x
<1>6. (t < 30 => ~(Score(x) >= 6000 \/ t >= 60)) /\ (t <= 20 => ~(Score(x) >= 3000 \/ t >= 25))
  BY <1>1, <1>3, <1>4
<1>7. (t < 30 => Erosion(r, m).state # "Depleted") /\ (t <= 20 => Erosion(r, m).state = "Preserved")
  <2>1. t <= 20 => t < 30
    BY <1>1
  <2> QED BY <1>5, <1>6, <2>1 DEF Grade
<1> QED BY <1>7 DEF t

\* A strong baseline is not a deteriorating one.
LEMMA StrongIsSteady ==
  ASSUME NEW r \in Readings, NEW m, ModifierHolds(m), r.based
  PROVE  ~(StrengthMeter(r).state = "Strong" /\ Deterioration(r, m).state = "Deteriorating")
<1> DEFINE a == Distance(r.short, 100)
           b == Distance(r.medium, 100)
           sum == Min({a * 40 + b * 30, Huge})
           x == (sum * VolatilityFactor(m)) \div 100
<1>1. a \in Nat /\ b \in Nat
  BY ReadingParts DEF Distance
<1>2. StrengthMeter(r).state = (IF Score(10000 - (a + b) * 50) >= 7000 THEN "Strong"
                                ELSE IF Score(10000 - (a + b) * 50) >= 4000 THEN "Average" ELSE "Weak")
  BY DEF StrengthMeter, Payload
<1>3. Deterioration(r, m).state =
        Grade(Score(x) >= 6000, Score(x) >= 3000, <<"Deteriorating", "Weakening", "Strong">>)
  BY DEF Deterioration, Payload
<1> HIDE DEF a, b
<1>4. sum = IF a * 40 + b * 30 <= Huge THEN a * 40 + b * 30 ELSE Huge
  BY <1>1, SmallerOfTwo DEF Huge
<1> HIDE DEF sum
<1>5. sum \in Nat /\ sum <= 40 * (a + b)
  BY <1>1, <1>4 DEF Huge
<1>6. VolatilityFactor(m) \in {130, 100, 85}
  BY DEF VolatilityFactor, ModifierHolds
<1>7. x \in Int /\ (a + b <= 60 => x < 6000)
  <2>1. CASE VolatilityFactor(m) = 130
    BY <1>1, <1>5, <2>1
  <2>2. CASE VolatilityFactor(m) = 100
    BY <1>1, <1>5, <2>2
  <2>3. CASE VolatilityFactor(m) = 85
    BY <1>1, <1>5, <2>3
  <2> QED BY <1>6, <2>1, <2>2, <2>3
<1> HIDE DEF x
<1>8. Score(x) = IF x < 0 THEN 0 ELSE IF x > 10000 THEN 10000 ELSE x
  BY <1>7, ScoreValue
<1> DEFINE y == 10000 - (a + b) * 50
<1>9. y \in Int /\ (y >= 7000 => a + b <= 60)
  BY <1>1
<1>10. Score(y) = IF y < 0 THEN 0 ELSE IF y > 10000 THEN 10000 ELSE y
  <2> HIDE DEF y
  <2> QED BY <1>9, ScoreValue
<1>11. StrengthMeter(r).state = "Strong" => Score(y) >= 7000
  BY <1>2
<1> HIDE DEF y
<1>12. StrengthMeter(r).state = "Strong" => a + b <= 60
  BY <1>9, <1>10, <1>11
<1>13. a + b <= 60 => ~(Score(x) >= 6000)
  BY <1>7, <1>8
<1> QED BY <1>3, <1>12, <1>13 DEF Grade

-----------------------------------------------------------------------------
(* The figures of structural stress. *)

\* The volatility and the thinning that a list tells, and what they come to.
ToldVolatility(list) == LastMetric(list, "VolatilityExpansionBands", 0)
ToldThinning(list) == LastMetric(list, "LiquidityDisplacementZones", 0)
Rise(list) == Score(Max({0, ToldVolatility(list) - 100}) * 60)
Consolidation(list) == Score(Max({0, 100 - ToldVolatility(list)}) * 50 + (100 - ToldThinning(list)) * 50)

\* What it takes to draw one of the three figures of the expansion group.
LEMMA FiguresNeed ==
  ASSUME NEW list, NEW name, name = evaluate_pattern_diagnostics(list).hint
  PROVE  /\ name = "CupHandleLike" => ToldThinning(list) < 30
         /\ name = "FlagLike" => Rise(list) >= 3500 /\ Consolidation(list) >= 4000
         /\ name = "PennantLike" => Rise(list) >= 4000 /\ Consolidation(list) >= 6000
<1> DEFINE drop == LastMetric(list, "CorrelationDivergenceIndex", 0)
           strength == LastScore(list, "BaselineStrengthMeter", 5000)
           support == Score((strength * 7) \div 10 + (100 - drop) * 30)
           symmetry == Score(10000 - Min({Distance(ToldVolatility(list), 100) * 30, Huge})
                               - ToldThinning(list) * 40)
           broken == /\ drop >= 50 /\ LastScore(list, "LiquidityErosion", 0) >= 4000
                     /\ LastScore(list, "VolatilityInstability", 0) >= 4000
           tired == /\ LastScore(list, "BaselineDeterioration", 0) >= 5000
                    /\ LastScore(list, "StructuralFatigue", 0) >= 5000
           weak == Consolidation(list) >= 4500 /\ strength <= 4500 /\ ToldThinning(list) >= 30
           cup == support >= 6500 /\ Consolidation(list) >= 5000 /\ ToldThinning(list) < 30
           pennant == Rise(list) >= 4000 /\ Consolidation(list) >= 6000 /\ symmetry >= 6000
           flag == Rise(list) >= 3500 /\ Consolidation(list) >= 4000 /\ support >= 4500
<1>1. evaluate_pattern_diagnostics(list) =
        IF broken THEN Pattern("BreakdownLike", "StressGroup")
        ELSE IF tired THEN Pattern("ExhaustionLike", "StressGroup")
        ELSE IF weak THEN Pattern("StressConsolidationLike", "StressGroup")
        ELSE IF cup THEN Pattern("CupHandleLike", "ExpansionGroup")
        ELSE IF pennant THEN Pattern("PennantLike", "ExpansionGroup")
        ELSE IF flag THEN Pattern("FlagLike", "ExpansionGroup")
        ELSE Pattern(Nothing, "ExpansionGroup")
  BY SMT DEF evaluate_pattern_diagnostics, Rise, Consolidation, ToldThinning, ToldVolatility
<1>2. \A x, g : Pattern(x, g).hint = x
  BY DEF Pattern
<1>3. /\ cup => ToldThinning(list) < 30
      /\ flag => Rise(list) >= 3500 /\ Consolidation(list) >= 4000
      /\ pennant => Rise(list) >= 4000 /\ Consolidation(list) >= 6000
  OBVIOUS
<1> HIDE DEF broken, tired, weak, cup, pennant, flag
<1>4. /\ name = "CupHandleLike" => cup
      /\ name = "FlagLike" => flag
      /\ name = "PennantLike" => pennant
  BY <1>1, <1>2 DEF Nothing
<1> QED BY <1>3, <1>4

\* The metrics those figures go by.
LEMMA MetricsRead ==
  ASSUME NEW r \in Readings, NEW m, NEW list \in Seq(Told(r, m))
  PROVE  /\ ToldVolatility(list) \in Int
         /\ ToldThinning(list) \in {0, Thinning(r)}
         /\ PayloadsOf(list, "LiquidityDisplacementZones") # {} =>
              ToldThinning(list) = Thinning(r)
<1>1. \A i \in DOMAIN list : list[i] \in Told(r, m)
  OBVIOUS
<1>2. ASSUME PayloadsOf(list, "LiquidityDisplacementZones") # {}
      PROVE  LastMetric(list, "LiquidityDisplacementZones", 0) = Thinning(r)
  <2>1. PICK i \in PayloadsOf(list, "LiquidityDisplacementZones") :
          LastMetric(list, "LiquidityDisplacementZones", 0) = list[i].metric
    BY <1>2, LastIsOne
  <2>2. list[i] = DisplacementZones(r)
    BY <1>1, TypeSaysWhich DEF PayloadsOf
  <2> QED BY <2>1, <2>2 DEF DisplacementZones, Payload
<1>3. ASSUME PayloadsOf(list, "VolatilityExpansionBands") # {}
      PROVE  LastMetric(list, "VolatilityExpansionBands", 0) \in Int
  <2>1. PICK i \in PayloadsOf(list, "VolatilityExpansionBands") :
          LastMetric(list, "VolatilityExpansionBands", 0) = list[i].metric
    BY <1>3, LastIsOne
  <2>2. list[i] = ExpansionBands(r)
    BY <1>1, TypeSaysWhich DEF PayloadsOf
  <2>3. r.ratio * 10000 \in Int /\ Huge \in Int
    BY ReadingParts DEF Huge
  <2>4. Min({r.ratio * 10000, Huge}) \in Int
    BY <2>3, SmallerOfTwo
  <2>5. ExpansionBands(r).metric = IF r.based THEN r.ratio ELSE Min({r.ratio * 10000, Huge})
    BY DEF ExpansionBands, Payload
  <2> QED BY <2>1, <2>2, <2>4, <2>5, ReadingParts
<1> QED BY <1>2, <1>3 DEF LastMetric, ToldVolatility, ToldThinning

\* The promises of the hints, of the list of a cycle.
LEMMA FiguresHaveEvidence ==
  ASSUME NEW r \in Readings, NEW m, ModifierHolds(m), NEW list \in Seq(Told(r, m))
  PROVE  LET name == evaluate_pattern_diagnostics(list).hint
             Told16 == PayloadsOf(list, "LiquidityDisplacementZones") # {} /\ r.depthKnown
         IN  /\ Told16 /\ name = "CupHandleLike" => Erosion(r, m).state # "Depleted"
             /\ Told16 /\ name = "FlagLike" => Erosion(r, m).state = "Preserved"
             /\ name # "PennantLike"
<1> DEFINE e == ToldVolatility(list)
           t == ToldThinning(list)
           up == Max({0, e - 100})
           down == Max({0, 100 - e})
           level == down * 50 + (100 - t) * 50
           name == evaluate_pattern_diagnostics(list).hint
<1>1. e \in Int /\ t \in {0, Thinning(r)}
  BY MetricsRead
<1>2. Thinning(r) \in Nat
  BY ThinningValue, ReadingParts
<1>3. /\ name = "CupHandleLike" => t < 30
      /\ name = "FlagLike" => Score(up * 60) >= 3500 /\ Score(level) >= 4000
      /\ name = "PennantLike" => Score(up * 60) >= 4000 /\ Score(level) >= 6000
  <2> HIDE DEF name
  <2>1. /\ name = "CupHandleLike" => t < 30
        /\ name = "FlagLike" => Rise(list) >= 3500 /\ Consolidation(list) >= 4000
        /\ name = "PennantLike" => Rise(list) >= 4000 /\ Consolidation(list) >= 6000
    BY FiguresNeed DEF name
  <2>2. Rise(list) = Score(up * 60) /\ Consolidation(list) = Score(level)
    BY DEF Rise, Consolidation
  <2> QED BY <2>1, <2>2
<1>4. PayloadsOf(list, "LiquidityDisplacementZones") # {} => t = Thinning(r)
  BY MetricsRead
<1> HIDE DEF e, t, name
<1>5. up = (IF 0 >= e - 100 THEN 0 ELSE e - 100) /\ down = (IF 0 >= 100 - e THEN 0 ELSE 100 - e)
  <2>1. e - 100 \in Int /\ 100 - e \in Int
    BY <1>1
  <2> QED BY <2>1, GreaterOfTwo
<1> HIDE DEF up, down
<1>6. up \in Nat /\ down \in Nat /\ t \in Nat
  BY <1>1, <1>2, <1>5
<1>7. level \in Int /\ up * 60 \in Int
  BY <1>6
<1>8. /\ Score(level) = IF level < 0 THEN 0 ELSE IF level > 10000 THEN 10000 ELSE level
      /\ Score(up * 60) = IF up * 60 < 0 THEN 0 ELSE IF up * 60 > 10000 THEN 10000 ELSE up * 60
  <2> HIDE DEF level
  <2> QED BY <1>7, ScoreValue
<1>9. Score(up * 60) >= 3500 => down = 0
  BY <1>1, <1>5, <1>6, <1>8
<1>10. down = 0 => level = (100 - t) * 50
  BY <1>6
<1>11. name = "FlagLike" => t <= 20
  <2> HIDE DEF level
  <2> QED BY <1>3, <1>6, <1>7, <1>8, <1>9, <1>10
<1>12. name # "PennantLike"
  <2> SUFFICES ASSUME name = "PennantLike" PROVE FALSE
    OBVIOUS
  <2>1. Score(up * 60) >= 4000 /\ Score(level) >= 6000
    BY <1>3
  <2>2. down = 0
    BY <1>6, <1>8, <1>9, <2>1
  <2> HIDE DEF level
  <2> QED BY <1>6, <1>7, <1>8, <1>10, <2>1, <2>2
<1>13. ASSUME PayloadsOf(list, "LiquidityDisplacementZones") # {}, r.depthKnown
       PROVE  /\ name = "CupHandleLike" => Erosion(r, m).state # "Depleted"
              /\ name = "FlagLike" => Erosion(r, m).state = "Preserved"
  BY <1>3, <1>4, <1>11, <1>13, ErosionOfThinning
<1> QED BY <1>12, <1>13 DEF name

-----------------------------------------------------------------------------
(* The score. *)

\* A degraded wave at the end of the list counts for 85 points.
LEMMA WaveAtTheEnd ==
  ASSUME NEW r \in Readings, NEW m, NEW list \in Seq(Told(r, m)), r.wave = "degraded",
         list # <<>>, list[Len(list)] = WaveIndicator(r),
         \A t \in StressTypes : LastScore(list, t, 0) \in Int
  PROVE  evaluate_stress_regime_payload(list) >= 8500
<1> DEFINE n == Len(list)
           own == PayloadsOf(list, "VolatilityInstability")
           waves == {i \in PayloadsOf(list, "WaveNativeFinanceStream") :
                       list[i].state = "Chaotic" /\ \A j \in own : j < i}
           raised == {LastScore(list, "VolatilityInstability", 0)} \cup {8500 : i \in waves}
           others == {LastScore(list, t, 0) : t \in {"LiquidityErosion", "BaselineDeterioration", "StructuralFatigue"}}
           all == {StreamInstability(list)} \cup others
<1>1. n \in Nat /\ n # 0 /\ DOMAIN list = 1 .. n /\ n \in DOMAIN list
  BY EmptySeq
<1>2. list[n].type = "WaveNativeFinanceStream" /\ list[n].state = "Chaotic"
  BY DEF WaveIndicator, Payload, Grade
<1>3. \A j \in own : j < n
  <2> SUFFICES ASSUME NEW j \in own PROVE j < n
    OBVIOUS
  <2>1. j \in 1 .. n /\ list[j].type = "VolatilityInstability"
    BY <1>1 DEF PayloadsOf
  <2>2. j # n
    <3> HIDE DEF n
    <3> QED BY <1>2, <2>1
  <2> HIDE DEF n
  <2> QED BY <1>1, <2>1, <2>2
<1>4. n \in waves
  BY <1>1, <1>2, <1>3 DEF PayloadsOf
<1>5. raised = {LastScore(list, "VolatilityInstability", 0), 8500}
  BY <1>4
<1>6. LastScore(list, "VolatilityInstability", 0) \in Int
  BY DEF StressTypes
<1>7. StreamInstability(list) = Max(raised)
  BY DEF StreamInstability
<1>8. Max(raised) \in Int /\ Max(raised) >= 8500
  BY <1>5, <1>6, GreaterOfTwo
<1>9. others = {LastScore(list, "LiquidityErosion", 0), LastScore(list, "BaselineDeterioration", 0),
                LastScore(list, "StructuralFatigue", 0)}
  OBVIOUS
<1>10. others \in SUBSET Int /\ IsFiniteSet(others)
  <2>1. others \in SUBSET Int
    BY <1>9 DEF StressTypes
  <2>2. IsFiniteSet(others)
    <3>1. IsFiniteSet({LastScore(list, "LiquidityErosion", 0), LastScore(list, "BaselineDeterioration", 0),
                       LastScore(list, "StructuralFatigue", 0)})
      BY FiniteTriple
    <3> HIDE DEF others
    <3> QED BY <1>9, <3>1
  <2> QED BY <2>1, <2>2
<1>11. all \in SUBSET Int /\ IsFiniteSet(all) /\ all # {} /\ StreamInstability(list) \in all
  <2>1. StreamInstability(list) \in Int
    BY <1>7, <1>8
  <2>2. all = others \cup {StreamInstability(list)}
    OBVIOUS
  <2> HIDE DEF others
  <2>3. IsFiniteSet(others \cup {StreamInstability(list)})
    BY <1>10, FS_AddElement
  <2> QED BY <1>10, <2>1, <2>2, <2>3
<1>12. \A x \in all : Max(all) >= x
  <2> HIDE DEF all
  <2> QED BY <1>11, GreatestOfFinite
<1>13. Max(all) \in Int
  <2> HIDE DEF all
  <2> QED BY <1>11, GreatestOfFinite
<1>14. evaluate_stress_regime_payload(list) = Max(all)
  BY DEF evaluate_stress_regime_payload
<1> HIDE DEF all, raised
<1> QED BY <1>7, <1>8, <1>11, <1>12, <1>13, <1>14

\* The scores that structural stress is read from are scores.
LEMMA ScoresAreNumbers ==
  ASSUME NEW r \in Readings, NEW m, ModifierHolds(m), NEW p \in Told(r, m), p.type \in StressTypes
  PROVE  p.score \in Int
<1> DEFINE vol == Instability(r, m)
           liq == Erosion(r, m)
           base == Deterioration(r, m)
           tired == Fatigue(vol, liq, base, m)
<1>1. \A x \in Int : Score(x) \in Int
  BY ScoreValue
<1>2. /\ VolatilityFactor(m) \in Int /\ LiquidityFactor(m) \in Int
  BY DEF VolatilityFactor, LiquidityFactor, ModifierHolds
<1>3. \A x, y \in Int : (x * y) \div 100 \in Int /\ (x * y) \div 10000 \in Int
  OBVIOUS
<1>4. vol.score \in Int
  <2> DEFINE spike == IF r.based THEN Min({Distance(r.ratio, 100), 1000}) ELSE 0
  <2>1. Distance(r.ratio, 100) \in Int
    BY ReadingParts DEF Distance
  <2>2. spike * 40 \in Int
    <3>1. Min({Distance(r.ratio, 100), 1000}) \in Int
      BY <2>1, SmallerOfTwo
    <3> QED BY <3>1
  <2> HIDE DEF spike
  <2> DEFINE x == (spike * 40 * VolatilityFactor(m)) \div 100
  <2>3. x \in Int
    BY <1>2, <1>3, <2>2
  <2>4. vol.score = Score(Score(x))
    BY DEF Instability, Payload, spike
  <2> HIDE DEF x
  <2> QED BY <1>1, <2>3, <2>4
<1>5. liq.score \in Int
  <2> DEFINE x == (ErosionThinning(r) * 80 * LiquidityFactor(m)) \div 100
  <2>1. ErosionThinning(r) * 80 \in Int
    BY ThinningValue, ReadingParts DEF ErosionThinning
  <2>2. x \in Int
    BY <1>2, <1>3, <2>1
  <2>3. liq.score = Score(Score(x))
    BY DEF Erosion, Payload
  <2> HIDE DEF x
  <2> QED BY <1>1, <2>2, <2>3
<1>6. base.score \in Int
  <2> DEFINE drift(x) == IF r.based THEN Distance(x, 100) ELSE IF x = 0 THEN 100 ELSE Huge
             sum == Min({drift(r.short) * 40 + drift(r.medium) * 30, Huge})
             x == (sum * VolatilityFactor(m)) \div 100
  <2>1. drift(r.short) \in Int /\ drift(r.medium) \in Int
    BY ReadingParts DEF Distance, Huge
  <2>2. base.score = Score(Score(x))
    BY DEF Deterioration, Payload
  <2> HIDE DEF drift
  <2>3. drift(r.short) * 40 + drift(r.medium) * 30 \in Int /\ Huge \in Int
    BY <2>1 DEF Huge
  <2>4. sum \in Int
    BY <2>3, SmallerOfTwo
  <2> HIDE DEF sum
  <2>5. x \in Int
    BY <1>2, <1>3, <2>4
  <2> HIDE DEF x
  <2> QED BY <1>1, <2>2, <2>5
<1>7. tired.score \in Int
  <2> DEFINE sum == vol.score * 35 + liq.score * 40 + base.score * 25
             x == (sum * VolatilityFactor(m)) \div 10000
  <2>1. tired.score = Score(Score(x))
    BY DEF Fatigue, Payload
  <2>2. sum \in Int
    <3> HIDE DEF vol, liq, base
    <3> QED BY <1>4, <1>5, <1>6
  <2> HIDE DEF sum
  <2>3. x \in Int
    BY <1>2, <1>3, <2>2
  <2> HIDE DEF x
  <2> QED BY <1>1, <2>1, <2>3
<1>8. p \in {vol, liq, base, tired}
  <2>1. \A q \in Indications(r) : q.type \in Indicators
    BY IndicationNamed
  <2>2. WaveIndicator(r).type = "WaveNativeFinanceStream" /\ Breakdown(r, m).type = "CorrelationBreakdown"
    BY DEF WaveIndicator, Breakdown, Payload
  <2>3. p \notin Indications(r) /\ p # WaveIndicator(r) /\ p # Breakdown(r, m)
    BY <2>1, <2>2 DEF Indicators, StressTypes
  <2> HIDE DEF vol, liq, base, tired
  <2>4. Told(r, m) = Indications(r) \cup {WaveIndicator(r), vol, liq, Breakdown(r, m), base} \cup {tired}
    BY Zenon DEF Told, vol, liq, base, tired
  <2> QED BY <2>3, <2>4
<1> HIDE DEF vol, liq, base, tired
<1> QED BY <1>4, <1>5, <1>6, <1>7, <1>8

\* So is what a list says of them.
LEMMA LastScoresAreNumbers ==
  ASSUME NEW r \in Readings, NEW m, ModifierHolds(m), NEW list \in Seq(Told(r, m)),
         NEW type \in StressTypes
  PROVE  LastScore(list, type, 0) \in Int
<1>1. CASE PayloadsOf(list, type) = {}
  BY <1>1 DEF LastScore
<1>2. CASE PayloadsOf(list, type) # {}
  <2> DEFINE S == PayloadsOf(list, type)
             n == Len(list)
  <2>1. n \in Nat /\ S \in SUBSET (1 .. n) /\ S # {}
    BY <1>2 DEF PayloadsOf
  <2>2. Max(S) \in S
    <3> HIDE DEF S, n
    <3> QED BY <2>1, GreatestMember
  <2>3. list[Max(S)] \in Told(r, m) /\ list[Max(S)].type = type
    BY <2>2 DEF PayloadsOf
  <2>4. list[Max(S)].score \in Int
    BY <2>3, ScoresAreNumbers
  <2> QED BY <1>2, <2>4 DEF LastScore
<1> QED BY <1>1, <1>2

-----------------------------------------------------------------------------
(* Charts from cycle to cycle. *)

\* The last cycle has read, listed and drawn what it should; before the first
\* there is nothing.  The registry does not change between them.
ChartsTold ==
  /\ RegistryHolds /\ ModifierHolds(modifier)
  /\ readings \in Seq(Readings)
  /\ readings = <<>> => payloads = <<>> /\ hint = Pattern(Nothing, "ExpansionGroup")
  /\ readings # <<>> =>
       /\ payloads = AllPayloads(Seen, modifier)
       /\ stressScore = evaluate_stress_regime_payload(payloads)
       /\ hint = evaluate_pattern_diagnostics(payloads)

\* The regimes stay regimes.
LEMMA RegimesHold ==
  ASSUME NEW m, NEW r
  PROVE  ModifierHolds(compute_regime_modifier(m, r))
BY DEF ModifierHolds, compute_regime_modifier, VolatilityRegime, LiquidityRegime, Regime

\* A cycle leaves behind what the invariant says.
LEMMA ObserveTells ==
  ASSUME ChartsTold, NEW r \in Readings, Observe(r)
  PROVE  ChartsTold'
<1>1. readings' = Append(readings, r) /\ readings' \in Seq(Readings)
  BY DEF ChartsTold, Observe
<1>2. readings' # <<>> /\ readings'[Len(readings')] = r
  BY <1>1 DEF ChartsTold
<1>3. ModifierHolds(modifier')
  BY RegimesHold DEF Observe
<1>4. RegistryHolds'
  BY DEF ChartsTold, Observe, RegistryHolds
<1>5. payloads' = AllPayloads(r, modifier')
  BY DEF Observe
<1>6. AllPayloads(r, modifier') = AllPayloads(Seen, modifier)'
  <2>1. fns' = fns /\ active' = active
    BY DEF Observe
  <2>2. \A x : ExecuteActive(x)' = ExecuteActive(x)
    BY <2>1 DEF ExecuteActive
  <2> QED BY <1>2, <2>1 DEF AllPayloads, ExecuteActive, Seen
<1> QED BY <1>1, <1>2, <1>3, <1>4, <1>5, <1>6 DEF ChartsTold, Observe, ModifierHolds

\* What the last cycle left agrees.
LEMMA ToldAgrees ==
  ASSUME ChartsTold
  PROVE  ChartsAgree
<1>1. CASE readings = <<>>
  <2>1. payloads = <<>> /\ hint.hint = Nothing
    BY <1>1 DEF ChartsTold, Pattern
  <2> QED BY <2>1 DEF ChartsAgree, HintsHaveEvidence, StrengthAgrees, StreamRaisesStress, Nothing
<1>2. CASE readings # <<>>
  <2> DEFINE r == Seen
             m == modifier
             list == payloads
  <2>1. r \in Readings /\ ModifierHolds(m)
    BY <1>2, EmptySeq DEF ChartsTold, Seen
  <2>2. /\ list \in Seq(Told(r, m))
        /\ \E i \in DOMAIN list : list[i] = Erosion(r, m)
        /\ r.wave # Nothing /\ ~r.waveFirst => list # <<>> /\ list[Len(list)] = WaveIndicator(r)
    BY <1>2, ListTold DEF ChartsTold
  <2>3. /\ stressScore = evaluate_stress_regime_payload(list)
        /\ hint = evaluate_pattern_diagnostics(list)
    BY <1>2 DEF ChartsTold
  <2> HIDE DEF r, m
  <2>4. \A i \in DOMAIN list : list[i] \in Told(r, m)
    BY <2>2
  <2>5. StateOf("LiquidityErosion") = {Erosion(r, m).state}
    <3>1. \A i \in PayloadsOf(list, "LiquidityErosion") : list[i] = Erosion(r, m)
      BY <2>4, TypeSaysWhich DEF PayloadsOf
    <3>2. PICK i \in DOMAIN list : list[i] = Erosion(r, m)
      BY <2>2
    <3>3. Erosion(r, m).type = "LiquidityErosion"
      BY DEF Erosion, Payload
    <3>4. i \in PayloadsOf(list, "LiquidityErosion")
      BY <3>2, <3>3 DEF PayloadsOf
    <3> QED BY <3>1, <3>4 DEF StateOf
  <2>6. HintsHaveEvidence
    <3>1. /\ Ran("LiquidityDisplacementZones") /\ r.depthKnown /\ hint.hint = "CupHandleLike"
               => Erosion(r, m).state # "Depleted"
          /\ Ran("LiquidityDisplacementZones") /\ r.depthKnown /\ hint.hint = "FlagLike"
               => Erosion(r, m).state = "Preserved"
          /\ hint.hint # "PennantLike"
      BY <2>1, <2>2, <2>3, FiguresHaveEvidence DEF Ran
    <3> QED BY <2>5, <3>1 DEF HintsHaveEvidence, r
  <2>7. StrengthAgrees
    <3>1. ASSUME "Strong" \in StateOf("BaselineStrengthMeter"), r.based,
                 "Deteriorating" \in StateOf("BaselineDeterioration")
          PROVE  FALSE
      <4>1. StrengthMeter(r).state = "Strong"
        BY <2>4, <3>1, TypeSaysWhich DEF StateOf, PayloadsOf
      <4>2. Deterioration(r, m).state = "Deteriorating"
        BY <2>4, <3>1, TypeSaysWhich DEF StateOf, PayloadsOf
      <4> QED BY <2>1, <3>1, <4>1, <4>2, StrongIsSteady
    <3> QED BY <3>1 DEF StrengthAgrees, r
  <2>8. StreamRaisesStress
    <3>1. ASSUME r.wave = "degraded", ~r.waveFirst PROVE stressScore >= 8500
      <4>1. list # <<>> /\ list[Len(list)] = WaveIndicator(r)
        BY <2>2, <3>1 DEF Nothing
      <4>2. \A t \in StressTypes : LastScore(list, t, 0) \in Int
        BY <2>1, <2>2, LastScoresAreNumbers
      <4> QED BY <2>1, <2>2, <2>3, <3>1, <4>1, <4>2, WaveAtTheEnd
    <3> QED BY <3>1 DEF StreamRaisesStress, r
  <2> QED BY <2>6, <2>7, <2>8 DEF ChartsAgree
<1> QED BY <1>1, <1>2

\* The payloads, the hint and the stress of one cycle tell one story, whatever the
\* readings, the registered indicators and the regimes of the cycles before
\* (evaluate_pattern_diagnostics, evaluate_stress_regime_payload): a figure of
\* expansion has the book behind it, a strong baseline is not deteriorating, and a
\* degraded stream that is listed last is heard.
THEOREM ChartsAlwaysAgree == ChartSpec => []ChartsAgree
<1>1. ChartInit => ChartsTold
  BY DEF ChartInit, ChartsTold, RegistryHolds, ModifierHolds, NoModifier
<1>2. ChartsTold /\ [ChartNext]_chartVars => ChartsTold'
  <2> SUFFICES ASSUME ChartsTold, [ChartNext]_chartVars PROVE ChartsTold'
    OBVIOUS
  <2>1. ASSUME NEW r \in Readings, Observe(r) PROVE ChartsTold'
    BY <2>1, ObserveTells
  <2>2. ASSUME readings = <<>>, UNCHANGED <<modifier, readings, payloads, stressScore, hint>>, RegistryHolds'
        PROVE  ChartsTold'
    BY <2>2 DEF ChartsTold, ModifierHolds
  <2>3. ASSUME NEW i \in IndicatorSlots, NEW fn \in Indicators, NEW on \in BOOLEAN, RegisterIndicator(i, fn, on)
        PROVE  ChartsTold'
    <3>1. RegistryHolds'
      BY <2>3 DEF ChartsTold, RegisterIndicator, RegistryHolds
    <3> QED BY <2>2, <2>3, <3>1 DEF RegisterIndicator
  <2>4. ASSUME NEW i \in IndicatorSlots, NEW on \in BOOLEAN, SetActive(i, on)
        PROVE  ChartsTold'
    <3>1. RegistryHolds'
      BY <2>4 DEF ChartsTold, SetActive, RegistryHolds
    <3> QED BY <2>2, <2>4, <3>1 DEF SetActive
  <2>5. CASE UNCHANGED chartVars
    <3>1. AllPayloads(Seen, modifier)' = AllPayloads(Seen, modifier)
      BY <2>5 DEF chartVars, AllPayloads, ExecuteActive, Seen
    <3> QED BY <2>5, <3>1 DEF chartVars, ChartsTold, ModifierHolds, RegistryHolds
  <2> QED BY <2>1, <2>3, <2>4, <2>5 DEF ChartNext
<1>3. ChartsTold => ChartsAgree
  BY ToldAgrees
<1> QED BY <1>1, <1>2, <1>3, PTL DEF ChartSpec

-----------------------------------------------------------------------------
(* Weights (AdvisoryCycle). *)

\* A weight, a share in ten-thousandths.
IsWeight(w) == w \in Nat /\ w <= 10000

\* What Bound comes to.
LEMMA BoundValue ==
  ASSUME NEW x \in Int, NEW lo \in Int, NEW hi \in Int, lo <= hi
  PROVE  Bound(x, lo, hi) = IF x < lo THEN lo ELSE IF x > hi THEN hi ELSE x
<1>1. Min({x, hi}) = IF x <= hi THEN x ELSE hi
  BY SmallerOfTwo
<1>2. Min({x, hi}) \in Int
  BY <1>1
<1>3. Max({lo, Min({x, hi})}) = IF lo >= Min({x, hi}) THEN lo ELSE Min({x, hi})
  BY <1>2, GreaterOfTwo
<1> QED BY <1>1, <1>3 DEF Bound

\* Bounded from both sides, from an interval.
LEMMA BoundWeight ==
  ASSUME NEW x \in Int
  PROVE  /\ Bound(x, 0, 10000) = IF x < 0 THEN 0 ELSE IF x > 10000 THEN 10000 ELSE x
         /\ Bound(x, 0, 10000) \in Nat /\ Bound(x, 0, 10000) <= 10000
         /\ Bound(x, -50, 50) = IF x < -50 THEN -50 ELSE IF x > 50 THEN 50 ELSE x
         /\ Bound(x, -50, 50) \in Int /\ Bound(x, -50, 50) >= -50 /\ Bound(x, -50, 50) <= 50
<1>1. /\ Bound(x, 0, 10000) = IF x < 0 THEN 0 ELSE IF x > 10000 THEN 10000 ELSE x
      /\ Bound(x, -50, 50) = IF x < -50 THEN -50 ELSE IF x > 50 THEN 50 ELSE x
  <2>1. Bound(x, 0, 10000) = IF x < 0 THEN 0 ELSE IF x > 10000 THEN 10000 ELSE x
    <3>1. 0 \in Int /\ 10000 \in Int /\ 0 <= 10000
      OBVIOUS
    <3> QED BY <3>1, BoundValue
  <2>2. Bound(x, -50, 50) = IF x < -50 THEN -50 ELSE IF x > 50 THEN 50 ELSE x
    <3>1. -50 \in Int /\ 50 \in Int /\ -50 <= 50
      OBVIOUS
    <3> QED BY <3>1, BoundValue
  <2> QED BY <2>1, <2>2
<1> QED BY <1>1

\* Products of integers, scaled, are integers.
LEMMA ScaledInt ==
  ASSUME NEW w \in Int, NEW p \in Int
  PROVE  Scaled(w, p) \in Int /\ Scaled(0, p) = 0 /\ Scaled(w, 0) = 0
<1>1. w * p \in Int /\ 0 * p = 0 /\ w * 0 = 0
  OBVIOUS
<1>2. \A x \in Int : x \div 100 \in Int
  OBVIOUS
<1>3. 0 \div 100 = 0
  OBVIOUS
<1> QED BY <1>1, <1>2, <1>3 DEF Scaled

\* So are risks and scores, in their ranges.
LEMMA PositivePart ==
  ASSUME NEW x \in Int
  PROVE  Max({0, x}) \in Nat
BY GreaterOfTwo

-----------------------------------------------------------------------------
(* The volume advisory. *)

\* The numbers of a state of volume.
LEMMA VolumeNumbers ==
  ASSUME NEW v \in VolumeType
  PROVE  /\ v.ratio \in Nat /\ v.before \in Nat /\ v.change \in Int /\ v.vwap \in Int
         /\ v.prev \in Int /\ v.prev >= -1 /\ v.prev <= 10000 /\ v.hft.delta \in Int
         /\ Smoothed(v) \in Nat /\ IsWeight(OwnRisk(v)) /\ OversoldScore(v) \in Int
<1>1. /\ v.ratio \in Nat /\ v.before \in Nat /\ v.change \in Int /\ v.vwap \in Int
      /\ v.prev \in Int /\ v.prev >= -1 /\ v.prev <= 10000
  <2>1. v.prev \in -1 .. 10000
    BY DEF VolumeType
  <2> DEFINE p == v.prev
  <2>2. p \in -1 .. 10000
    BY <2>1
  <2> HIDE DEF p
  <2>3. p \in Int /\ p >= -1 /\ p <= 10000
    BY <2>2
  <2>4. /\ v.ratio \in Nat /\ v.before \in Nat /\ v.change \in Int /\ v.vwap \in Int
    BY DEF VolumeType
  <2> QED BY <2>3, <2>4 DEF p
<1>2. v.hft.delta \in -100 .. 100
  BY DEF VolumeType, ImpulseType
<1>3. Smoothed(v) \in Nat
  BY <1>1 DEF Smoothed
<1>4. SizeOf(v.vwap) \in Nat
  BY <1>1 DEF SizeOf, Apart
<1>5. Max({0, -v.change}) \in Nat /\ Max({0, -v.change - 7}) \in Nat /\ Max({0, -v.vwap - 5}) \in Nat
      /\ Max({0, Smoothed(v) - 150}) \in Nat
  <2>1. /\ -v.change \in Int /\ -v.change - 7 \in Int /\ -v.vwap - 5 \in Int
        /\ Smoothed(v) - 150 \in Int
    BY <1>1, <1>3
  <2> QED BY <2>1, PositivePart
<1>6. IsWeight(OwnRisk(v))
  <2> DEFINE x == Smoothed(v) * 15 + 20 * Max({0, -v.change}) + 15 * SizeOf(v.vwap)
  <2>1. x \in Int
    BY <1>3, <1>4, <1>5
  <2>2. OwnRisk(v) = Bound(x, 0, 10000)
    BY DEF OwnRisk
  <2> HIDE DEF x
  <2> QED BY <2>1, <2>2, BoundWeight DEF IsWeight
<1>7. OversoldScore(v) \in Int
  BY <1>5 DEF OversoldScore
<1> QED BY <1>1, <1>2, <1>3, <1>6, <1>7

\* The factor of the stabilizer is a share.
FactorHolds(s) == s.factor \in Nat /\ s.factor <= 100

\* Weights before the impulse, with it, and after the drift are weights.
LEMMA WeightSteps ==
  ASSUME NEW v \in VolumeType, NEW mode, NEW buy \in BOOLEAN, NEW s, FactorHolds(s)
  PROVE  /\ IsWeight(BaseWeight(v, buy, mode, s))
         /\ \A w : IsWeight(w) => IsWeight(Impelled(w, v)) /\ IsWeight(Drifted(w, v))
<1> DEFINE own == FullWeight - OwnRisk(v)
           bought == IF buy THEN Scaled(own, Multiplier(v, mode)) ELSE own
<1>1. own \in Int
  BY VolumeNumbers DEF FullWeight, IsWeight
<1>2. Multiplier(v, mode) \in Int
  BY DEF Multiplier
<1>3. bought \in Int
  <2> HIDE DEF own
  <2> QED BY <1>1, <1>2, ScaledInt
<1>4. Scaled(bought, s.factor) \in Int
  <2> HIDE DEF bought
  <2>1. s.factor \in Int
    BY DEF FactorHolds
  <2> QED BY <1>3, <2>1, ScaledInt
<1>5. IsWeight(BaseWeight(v, buy, mode, s))
  <2>1. BaseWeight(v, buy, mode, s) = Bound(Scaled(bought, s.factor), 0, 10000)
    BY DEF BaseWeight, FullWeight
  <2> HIDE DEF bought
  <2> QED BY <1>4, <2>1, BoundWeight DEF IsWeight
<1>6. ASSUME NEW w, IsWeight(w) PROVE IsWeight(Impelled(w, v))
  <2> DEFINE p == 100 + Bound(v.hft.delta, -50, 50)
             x == Scaled(w, p)
             y == Scaled(x, 110)
  <2>1. p \in Int
    <3>1. v.hft.delta \in Int
      BY VolumeNumbers
    <3>2. Bound(v.hft.delta, -50, 50) \in Int
      BY <3>1, BoundWeight
    <3> QED BY <3>2
  <2>2. x \in Int
    <3> HIDE DEF p
    <3> QED BY <1>6, <2>1, ScaledInt DEF IsWeight
  <2>3. y \in Int
    <3> HIDE DEF x
    <3> QED BY <2>2, ScaledInt
  <2>4. Impelled(w, v) \in {w, Bound(x, 0, 10000), Bound(y, 0, 10000)}
    BY DEF Impelled, FullWeight
  <2> HIDE DEF x, y
  <2>5. IsWeight(Bound(x, 0, 10000)) /\ IsWeight(Bound(y, 0, 10000))
    BY <2>2, <2>3, BoundWeight DEF IsWeight
  <2> QED BY <1>6, <2>4, <2>5
<1>7. ASSUME NEW w, IsWeight(w) PROVE IsWeight(Drifted(w, v))
  <2>1. CASE v.prev \in 0 .. FullWeight
    <3> DEFINE lo == v.prev - MaxDriftOfWeight
               hi == v.prev + MaxDriftOfWeight
               x == Bound(w, lo, hi)
    <3>0. v.prev \in Int
      BY VolumeNumbers
    <3>1. lo \in Int /\ hi \in Int /\ lo <= hi /\ w \in Int
      BY <1>7, <3>0 DEF MaxDriftOfWeight, FullWeight, IsWeight
    <3>2. Drifted(w, v) = Bound(x, 0, 10000)
      BY <2>1 DEF Drifted, FullWeight
    <3> HIDE DEF lo, hi
    <3>3. x \in Int
      BY <3>1, BoundValue
    <3> HIDE DEF x
    <3> QED BY <3>2, <3>3, BoundWeight DEF IsWeight
  <2>2. CASE ~(v.prev \in 0 .. FullWeight)
    BY <1>7, <2>2 DEF Drifted
  <2> QED BY <2>1, <2>2
<1> QED BY <1>5, <1>6, <1>7

\* A weight kept within 0.15 of one before.
StepTo(w, p) ==
  LET x == IF w < p - 1500 THEN p - 1500 ELSE IF w > p + 1500 THEN p + 1500 ELSE w
  IN  IF x < 0 THEN 0 ELSE IF x > 10000 THEN 10000 ELSE x

\* The drift from a weight before, in one formula.
LEMMA DriftValue ==
  ASSUME NEW v \in VolumeType, v.prev >= 0, NEW w, IsWeight(w)
  PROVE  Drifted(w, v) = StepTo(w, v.prev)
<1> DEFINE lo == v.prev - 1500
           hi == v.prev + 1500
           x == Bound(w, lo, hi)
<1>1. v.prev \in 0 .. 10000 /\ v.prev \in Int
  <2> DEFINE p == v.prev
  <2>1. p \in Int /\ p >= 0 /\ p <= 10000
    BY VolumeNumbers
  <2> HIDE DEF p
  <2>2. p \in 0 .. 10000 /\ p \in Int
    BY <2>1
  <2> QED BY <2>2 DEF p
<1>2. lo \in Int /\ hi \in Int /\ lo <= hi /\ w \in Int
  BY <1>1 DEF IsWeight
<1>3. x = IF w < lo THEN lo ELSE IF w > hi THEN hi ELSE w
  <2> HIDE DEF lo, hi
  <2> QED BY <1>2, BoundValue
<1>4. Drifted(w, v) = Bound(x, 0, 10000)
  BY <1>1 DEF Drifted, FullWeight, MaxDriftOfWeight
<1> HIDE DEF x
<1>5. x \in Int
  BY <1>2, <1>3
<1>6. Bound(x, 0, 10000) = IF x < 0 THEN 0 ELSE IF x > 10000 THEN 10000 ELSE x
  BY <1>5, BoundWeight
<1> QED BY <1>3, <1>4, <1>6 DEF StepTo

\* It is bounded.
LEMMA DriftIsBounded ==
  ASSUME NEW v \in VolumeType, v.prev >= 0, NEW w, IsWeight(w)
  PROVE  Apart(Drifted(w, v), v.prev) <= 1500
<1> DEFINE p == v.prev
           d == Drifted(w, v)
<1>1. p \in Nat /\ p <= 10000 /\ w \in Nat /\ w <= 10000
  BY VolumeNumbers DEF IsWeight
<1>2. d = StepTo(w, p)
  BY DriftValue
<1> HIDE DEF p, d
<1>3. Apart(d, p) <= 1500
  BY <1>1, <1>2 DEF Apart, StepTo
<1> QED BY <1>3 DEF p, d

\* A bought or kept weight by the branch that is taken.
Advised(v, buy, mode, s) == Drifted(Impelled(BaseWeight(v, buy, mode, s), v), v)

\* What evaluate_volume_state returns, branch by branch.
LEMMA VolumeBranches ==
  ASSUME NEW v \in VolumeType, NEW off \in BOOLEAN, NEW s, FactorHolds(s), NEW on \in BOOLEAN, NEW mode, NEW f
  PROVE  LET x == evaluate_volume_state(v, off, s, on, mode, f)
         IN  \/ /\ v.malformed \/ off \/ (v.hft.on /\ ~v.hft.valid)
                /\ x.weight = 0 /\ x.elevated /\ ~x.buy
             \/ /\ ~(v.malformed \/ off \/ (v.hft.on /\ ~v.hft.valid))
                /\ x.weight = Advised(v, ContrarianBuy(v, on, mode, f), mode, s)
<1> DEFINE x == evaluate_volume_state(v, off, s, on, mode, f)
<1>1. CASE v.malformed \/ off
  <2>1. x = Refused(0)
    BY <1>1 DEF evaluate_volume_state
  <2> QED BY <1>1, <2>1 DEF Refused
<1>2. CASE ~(v.malformed \/ off) /\ v.hft.on /\ ~v.hft.valid
  <2>1. x = [Refused(OversoldScore(v)) EXCEPT !.oversold = Oversold(v, mode, f)]
    BY <1>2 DEF evaluate_volume_state
  <2>2. x.weight = 0 /\ x.elevated /\ ~x.buy
    BY <2>1 DEF Refused
  <2> QED BY <1>2, <2>2
<1>3. CASE ~(v.malformed \/ off) /\ ~(v.hft.on /\ ~v.hft.valid)
  <2>1. x.weight = Advised(v, ContrarianBuy(v, on, mode, f), mode, s)
    BY <1>3 DEF evaluate_volume_state, Advised
  <2> QED BY <1>3, <2>1
<1> QED BY <1>1, <1>2, <1>3

\* An order of a contrarian is a yes or a no.
LEMMA BuyIsBoolean ==
  ASSUME NEW v, NEW on \in BOOLEAN, NEW mode, NEW f
  PROVE  ContrarianBuy(v, on, mode, f) \in BOOLEAN
BY DEF ContrarianBuy

\* The weight of the volume advisory is a weight.
LEMMA VolumeWeight ==
  ASSUME NEW v \in VolumeType, NEW off \in BOOLEAN, NEW s, FactorHolds(s), NEW on \in BOOLEAN, NEW mode, NEW f
  PROVE  IsWeight(evaluate_volume_state(v, off, s, on, mode, f).weight)
<1>1. IsWeight(Advised(v, ContrarianBuy(v, on, mode, f), mode, s))
  BY WeightSteps, BuyIsBoolean DEF Advised
<1>2. IsWeight(0)
  BY DEF IsWeight
<1>3. \/ evaluate_volume_state(v, off, s, on, mode, f).weight = 0
      \/ evaluate_volume_state(v, off, s, on, mode, f).weight = Advised(v, ContrarianBuy(v, on, mode, f), mode, s)
  <2> HIDE DEF Advised
  <2> QED BY VolumeBranches
<1> QED BY <1>1, <1>2, <1>3

-----------------------------------------------------------------------------
(* What rounding leaves of a weight that was scaled up first. *)

\* A product grows with a factor.
LEMMA ProductGrows ==
  ASSUME NEW a \in Int, NEW b \in Int, a <= b, NEW k \in Nat
  PROVE  a * k <= b * k /\ a * k \in Int /\ b * k \in Int
BY SMT

\* Division comes from below, and so does Scaled.
LEMMA HundredthsBelow ==
  \A x \in Int : 100 * (x \div 100) <= x /\ x < 100 * (x \div 100) + 100
BY SMT

LEMMA ScaledBelow ==
  ASSUME NEW w \in Int, NEW p \in Int
  PROVE  100 * Scaled(w, p) <= w * p /\ w * p < 100 * Scaled(w, p) + 100
<1>1. w * p \in Int
  OBVIOUS
<1> QED BY <1>1, HundredthsBelow DEF Scaled

\* A weight that is bought and cut keeps 13/10 at most of the weight that is only cut.
LEMMA BoughtAndCut ==
  ASSUME NEW own \in Nat, NEW m \in Nat, m <= 130, NEW k \in Nat
  PROVE  /\ Scaled(own, k) < 1 => Scaled(Scaled(own, m), k) <= 1
         /\ Scaled(own, k) < 2 => Scaled(Scaled(own, m), k) <= 2
         /\ Scaled(own, k) \in Nat /\ Scaled(Scaled(own, m), k) \in Nat
<1> DEFINE sc == Scaled(own, m)
           x == own * k
           y == sc * k
<1>1. 100 * sc <= own * m /\ sc \in Int
  BY ScaledBelow, ScaledInt
<1>2. own * m <= 130 * own
  BY ProductGrows
<1>3. 100 * sc <= 130 * own
  <2>1. own * m \in Int
    OBVIOUS
  <2> HIDE DEF sc
  <2> QED BY <1>1, <1>2, <2>1
<1>4. sc >= 0
  <2>1. own * m \in Nat
    OBVIOUS
  <2>2. own * m < 100 * sc + 100
    BY ScaledBelow
  <2> HIDE DEF sc
  <2> QED BY <1>1, <2>1, <2>2
<1> HIDE DEF sc
<1>5. 100 * y <= 130 * x /\ x \in Nat /\ y \in Nat
  <2>1. (100 * sc) * k <= (130 * own) * k
    BY <1>1, <1>3, ProductGrows
  <2>2. (100 * sc) * k = 100 * y /\ (130 * own) * k = 130 * x
    BY <1>1
  <2>3. x \in Nat /\ y \in Nat
    BY <1>1, <1>4
  <2> QED BY <2>1, <2>2, <2>3
<1>6. /\ 100 * Scaled(own, k) <= x /\ x < 100 * Scaled(own, k) + 100
      /\ 100 * Scaled(sc, k) <= y /\ y < 100 * Scaled(sc, k) + 100
      /\ Scaled(own, k) \in Int /\ Scaled(sc, k) \in Int
  BY <1>1, ScaledBelow, ScaledInt
<1>7. ASSUME NEW a \in Int, NEW b \in Int, NEW xx \in Nat, NEW yy \in Nat, 100 * yy <= 130 * xx,
             100 * a <= xx, xx < 100 * a + 100, 100 * b <= yy, yy < 100 * b + 100
      PROVE  (a < 1 => b <= 1) /\ (a < 2 => b <= 2) /\ a \in Nat /\ b \in Nat
  BY <1>7
<1> HIDE DEF x, y
<1>8. /\ Scaled(own, k) < 1 => Scaled(sc, k) <= 1
      /\ Scaled(own, k) < 2 => Scaled(sc, k) <= 2
      /\ Scaled(own, k) \in Nat /\ Scaled(sc, k) \in Nat
  BY <1>5, <1>6, <1>7
<1> QED BY <1>8 DEF sc

\* The impulse keeps nothing nothing, but for one of two.
LEMMA ImpelledRounds ==
  ASSUME NEW v \in VolumeType, NEW a \in Nat, NEW b \in Nat,
         a < 1 => b <= 1, a < 2 => b <= 2, a <= 10000, b <= 10000, Impelled(a, v) = 0
  PROVE  Impelled(b, v) <= 1
<1> DEFINE p == 100 + Bound(v.hft.delta, -50, 50)
           T == v.hft.bullish /\ (v.change > 0 \/ v.hft.delta > 0) /\ Smoothed(v) >= 100
           I(w) == Bound(IF T THEN Scaled(Scaled(w, p), 110) ELSE Scaled(w, p), 0, 10000)
<1>1. p \in Int /\ p >= 50 /\ p <= 150
  <2> DEFINE d == Bound(v.hft.delta, -50, 50)
  <2>1. v.hft.delta \in Int
    BY VolumeNumbers
  <2>2. d \in Int /\ d >= -50 /\ d <= 50
    BY <2>1, BoundWeight
  <2> HIDE DEF d
  <2>3. 100 + d \in Int /\ 100 + d >= 50 /\ 100 + d <= 150
    BY <2>2
  <2> QED BY <2>3 DEF d
<1>2. CASE ~v.hft.on
  BY <1>2 DEF Impelled
<1>3. CASE v.hft.on
  <2>1. \A w : Impelled(w, v) = I(w)
    BY <1>3 DEF Impelled, FullWeight
  <2> HIDE DEF p, T
  <2>2. ASSUME NEW w \in Nat
        PROVE  /\ Scaled(w, p) \in Nat /\ Scaled(Scaled(w, p), 110) \in Nat
               /\ 100 * Scaled(w, p) <= w * p /\ w * p < 100 * Scaled(w, p) + 100
               /\ 100 * Scaled(Scaled(w, p), 110) <= Scaled(w, p) * 110
               /\ Scaled(w, p) * 110 < 100 * Scaled(Scaled(w, p), 110) + 100
    <3> DEFINE x == Scaled(w, p)
               y == Scaled(x, 110)
    <3>0. w \in Int /\ p \in Int
      BY <1>1
    <3>1. x \in Int /\ 100 * x <= w * p /\ w * p < 100 * x + 100
      <4>1. Scaled(w, p) \in Int
        BY <3>0, ScaledInt
      <4>2. 100 * Scaled(w, p) <= w * p /\ w * p < 100 * Scaled(w, p) + 100
        <5>1. w * p \in Int
          BY <3>0
        <5> QED BY <5>1, HundredthsBelow DEF Scaled
      <4> QED BY <4>1, <4>2
    <3>2. w * p \in Nat
      <4>1. p \in Nat
        BY <1>1
      <4> QED BY <4>1
    <3>3. x \in Nat
      BY <3>1, <3>2
    <3> HIDE DEF x
    <3>4. y \in Int /\ 100 * y <= x * 110 /\ x * 110 < 100 * y + 100
      <4>1. x \in Int /\ 110 \in Int
        BY <3>3
      <4>2. Scaled(x, 110) \in Int
        BY <4>1, ScaledInt
      <4>3. 100 * Scaled(x, 110) <= x * 110 /\ x * 110 < 100 * Scaled(x, 110) + 100
        <5>1. x * 110 \in Int
          BY <4>1
        <5> QED BY <5>1, HundredthsBelow DEF Scaled
      <4> QED BY <4>2, <4>3
    <3> HIDE DEF y
    <3>5. y \in Nat
      BY <3>3, <3>4
    <3> USE DEF x, y
    <3> QED BY <3>1, <3>3, <3>4, <3>5
  <2>3. ASSUME NEW w \in Nat, I(w) = 0 PROVE Scaled(w, p) = 0
    <3>1. I(w) = IF T THEN (IF Scaled(Scaled(w, p), 110) > 10000 THEN 10000 ELSE Scaled(Scaled(w, p), 110))
                 ELSE (IF Scaled(w, p) > 10000 THEN 10000 ELSE Scaled(w, p))
      <4>1. Scaled(w, p) \in Nat /\ Scaled(Scaled(w, p), 110) \in Nat
        BY <2>2
      <4> QED BY <4>1, BoundWeight
    <3>2. Scaled(w, p) = 0 \/ Scaled(Scaled(w, p), 110) = 0
      BY <2>3, <3>1
    <3> QED BY <2>2, <3>2
  <2>4. Scaled(a, p) = 0
    BY <2>1, <2>3
  <2>5. a * p < 100
    BY <2>2, <2>4
  <2>6. a < 2 /\ (a = 1 => p < 100)
    BY <1>1, <2>5
  <2>7. Scaled(b, p) <= 1
    <3>1. b * p < 200
      <4>1. CASE a = 0
        <5>1. b = 0 \/ b = 1
          BY <4>1
        <5> QED BY <1>1, <5>1
      <4>2. CASE a = 1
        <5>1. (b = 0 \/ b = 1 \/ b = 2) /\ p < 100
          BY <2>6, <4>2
        <5> QED BY <1>1, <5>1
      <4> QED BY <2>6, <4>1, <4>2
    <3>2. 100 * Scaled(b, p) <= b * p /\ Scaled(b, p) \in Nat
      BY <2>2
    <3>3. b * p \in Int
      BY <1>1
    <3> DEFINE x == Scaled(b, p)
               y == b * p
    <3> HIDE DEF x, y
    <3>4. 100 * x <= y /\ x \in Nat /\ y < 200 /\ y \in Int
      BY <3>1, <3>2, <3>3 DEF x, y
    <3>5. x <= 1
      BY <3>4
    <3> QED BY <3>5 DEF x
  <2>8. Scaled(Scaled(b, p), 110) <= 1
    BY <2>2, <2>7
  <2>9. I(b) <= 1
    <3>1. \A x \in Nat : x <= 1 => Bound(x, 0, 10000) <= 1
      <4>1. \A x \in Nat : Bound(x, 0, 10000) = IF x < 0 THEN 0 ELSE IF x > 10000 THEN 10000 ELSE x
        BY BoundWeight
      <4> QED BY <4>1
    <3> QED BY <2>2, <2>7, <2>8, <3>1
  <2> QED BY <2>1, <2>9
<1> QED BY <1>2, <1>3

\* So does the drift.
LEMMA DriftedRounds ==
  ASSUME NEW v \in VolumeType, NEW a, NEW b, IsWeight(a), IsWeight(b), a = 0 => b <= 1, Drifted(a, v) = 0
  PROVE  Drifted(b, v) <= 1
<1> DEFINE p == v.prev
<1>1. p \in Int
  BY VolumeNumbers
<1>2. CASE p >= 0
  <2>1. Drifted(a, v) = StepTo(a, p) /\ Drifted(b, v) = StepTo(b, p)
    BY <1>2, DriftValue
  <2> HIDE DEF p
  <2>2. StepTo(a, p) = 0 => StepTo(b, p) <= 1
    BY <1>1, <1>2 DEF IsWeight, StepTo
  <2> QED BY <2>1, <2>2
<1>3. CASE ~(p >= 0)
  <2>1. ~(v.prev \in 0 .. FullWeight)
    BY <1>1, <1>3
  <2> QED BY <2>1 DEF Drifted
<1> QED BY <1>2, <1>3

\* A multiplier is 130 hundredths at most.
LEMMA MultiplierHolds ==
  ASSUME NEW v, NEW mode
  PROVE  Multiplier(v, mode) \in Nat /\ Multiplier(v, mode) <= 130
BY DEF Multiplier

\* What buying leaves of nothing.
LEMMA BuyingNothing ==
  ASSUME NEW v \in VolumeType, NEW mode, NEW s, FactorHolds(s), Advised(v, FALSE, mode, s) = 0
  PROVE  Advised(v, TRUE, mode, s) <= 1
<1> DEFINE own == FullWeight - OwnRisk(v)
           a == BaseWeight(v, FALSE, mode, s)
           b == BaseWeight(v, TRUE, mode, s)
           m == Multiplier(v, mode)
           k == s.factor
<1>1. own \in Nat
  BY VolumeNumbers DEF FullWeight, IsWeight
<1>2. IsWeight(a) /\ IsWeight(b) /\ IsWeight(Impelled(a, v)) /\ IsWeight(Impelled(b, v))
  BY WeightSteps
<1>3. (a < 1 => b <= 1) /\ (a < 2 => b <= 2)
  <2>1. a = Bound(Scaled(own, k), 0, 10000) /\ b = Bound(Scaled(Scaled(own, m), k), 0, 10000)
    BY DEF BaseWeight, FullWeight
  <2>2. m \in Nat /\ m <= 130 /\ k \in Nat
    BY MultiplierHolds DEF FactorHolds
  <2> HIDE DEF own, m, k, a, b
  <2> DEFINE x == Scaled(own, k)
             y == Scaled(Scaled(own, m), k)
  <2>3. (x < 1 => y <= 1) /\ (x < 2 => y <= 2) /\ x \in Nat /\ y \in Nat
    BY <1>1, <2>2, BoughtAndCut
  <2> HIDE DEF x, y
  <2>4. /\ Bound(x, 0, 10000) = IF x < 0 THEN 0 ELSE IF x > 10000 THEN 10000 ELSE x
        /\ Bound(y, 0, 10000) = IF y < 0 THEN 0 ELSE IF y > 10000 THEN 10000 ELSE y
    BY <2>3, BoundWeight
  <2>6. a = Bound(x, 0, 10000) /\ b = Bound(y, 0, 10000)
    BY <2>1 DEF x, y
  <2>5. a = (IF x < 0 THEN 0 ELSE IF x > 10000 THEN 10000 ELSE x)
        /\ b = (IF y < 0 THEN 0 ELSE IF y > 10000 THEN 10000 ELSE y)
    BY <2>4, <2>6
  <2> QED BY <2>3, <2>5
<1> HIDE DEF a, b
<1>4. Impelled(a, v) = 0 => Impelled(b, v) <= 1
  BY <1>2, <1>3, ImpelledRounds DEF IsWeight
<1>5. Drifted(Impelled(a, v), v) = 0
  BY DEF Advised, a
<1>6. Drifted(Impelled(b, v), v) <= 1
  BY <1>2, <1>4, <1>5, DriftedRounds
<1> QED BY <1>6 DEF Advised, b

\* A Fibonacci signal makes a market no less oversold, and an advisory that
\* recommends nothing at most one part in ten thousand.
LEMMA SignalsAddNothing ==
  ASSUME NEW v \in VolumeType, NEW off \in BOOLEAN, NEW s, FactorHolds(s), NEW on \in BOOLEAN, NEW mode, NEW f,
         evaluate_volume_state(v, off, s, on, mode, NoFib).weight = 0
  PROVE  evaluate_volume_state(v, off, s, on, mode, f).weight <= 1
<1> DEFINE U == v.malformed \/ off \/ (v.hft.on /\ ~v.hft.valid)
           b1 == ContrarianBuy(v, on, mode, NoFib)
           b2 == ContrarianBuy(v, on, mode, f)
           w1 == evaluate_volume_state(v, off, s, on, mode, NoFib).weight
           w2 == evaluate_volume_state(v, off, s, on, mode, f).weight
<1>1. b1 \in BOOLEAN /\ b2 \in BOOLEAN
  BY BuyIsBoolean
<1>2. b1 => b2
  <2>1. OversoldScore(v) \in Int
    BY VolumeNumbers
  <2> DEFINE o == OversoldScore(v)
             t1 == OversoldThreshold(v, mode, NoFib)
             t2 == OversoldThreshold(v, mode, f)
  <2>2. t1 \in Int /\ t2 \in Int /\ t2 <= t1
    BY DEF OversoldThreshold, NoFib
  <2>3. o >= t1 => o >= t2
    <3> HIDE DEF o, t1, t2
    <3>1. o \in Int
      BY <2>1 DEF o
    <3> QED BY <2>2, <3>1
  <2>4. Oversold(v, mode, NoFib) => Oversold(v, mode, f)
    <3> HIDE DEF t1, t2
    <3>1. ~NoFib.buy /\ ~NoFib.contrarian
      BY DEF NoFib
    <3> USE DEF t1, t2
    <3> QED BY <2>3, <3>1, Zenon DEF Oversold
  <2> QED BY <2>4 DEF ContrarianBuy
<1>3. /\ (U /\ w1 = 0) \/ (~U /\ w1 = Advised(v, b1, mode, s))
      /\ (U /\ w2 = 0) \/ (~U /\ w2 = Advised(v, b2, mode, s))
  <2> HIDE DEF Advised, b1, b2
  <2> QED BY VolumeBranches DEF b1, b2
<1> HIDE DEF b1, b2, w1, w2, Advised, U
<1>4. w1 = 0
  BY DEF w1
<1>5. CASE U
  <2>1. w2 = 0
    BY <1>3, <1>5
  <2> QED BY <2>1 DEF w2
<1>6. CASE ~U /\ b1 = b2
  <2>1. w2 = 0
    BY <1>3, <1>4, <1>6
  <2> QED BY <2>1 DEF w2
<1>7. CASE ~U /\ b1 # b2
  <2>1. b1 = FALSE /\ b2 = TRUE
    BY <1>1, <1>2, <1>7
  <2>2. Advised(v, FALSE, mode, s) = 0
    BY <1>3, <1>4, <1>7, <2>1
  <2>3. Advised(v, TRUE, mode, s) <= 1
    BY <2>2, BuyingNothing
  <2> QED BY <1>3, <1>7, <2>1, <2>3 DEF w2
<1> QED BY <1>5, <1>6, <1>7

\* Whoever buys does not sell.
LEMMA SignalsAreOne ==
  ASSUME NEW mode, NEW q \in QuoteType
  PROVE  LET f == compute_fib_advisory(mode, q) IN ~(f.sell /\ (f.buy \/ f.contrarian))
<1> DEFINE f == compute_fib_advisory(mode, q)
<1>1. CASE q.high <= q.low \/ q.price <= 0
  BY <1>1 DEF compute_fib_advisory, NoFib
<1>2. CASE ~(q.high <= q.low \/ q.price <= 0)
  <2>1. /\ f.buy => mode = "CONSERVATIVE" /\ Busy(q, 12)
        /\ f.contrarian => mode = "CONTRARIAN" /\ Busy(q, 13)
        /\ f.sell => mode = "HYPER" \/ Exhausted(q)
    BY <1>2 DEF compute_fib_advisory
  <2>2. ~(Exhausted(q) /\ (Busy(q, 12) \/ Busy(q, 13)))
    <3> DEFINE vol == q.volume
               avg == q.average
    <3>1. vol \in Nat /\ avg \in Nat
      BY DEF QuoteType
    <3> HIDE DEF vol, avg
    <3>2. ~(avg > 0 /\ vol * 10 <= 8 * avg /\ (vol * 10 >= 12 * avg \/ vol * 10 >= 13 * avg))
      BY <3>1
    <3> QED BY <3>2 DEF Exhausted, Busy, vol, avg
  <2> QED BY <2>1, <2>2
<1> QED BY <1>1, <1>2

-----------------------------------------------------------------------------
(* The advisories of the assets. *)

AdviceType == [weight : Int, risk : Int, elevated : BOOLEAN, growth : BOOLEAN]

\* The steps of a cycle, by number: nine assets, then the layers over them.
LEMMA CycleSteps ==
  /\ Len(CycleOrder) = 13 /\ Len(AssetOrder) = 9 /\ DOMAIN AssetOrder = 1 .. 9
  /\ \A i \in 1 .. 9 : CycleOrder[i] = AssetOrder[i]
  /\ CycleOrder[10] = "volume" /\ CycleOrder[11] = "anomaly"
  /\ CycleOrder[12] = "macro" /\ CycleOrder[13] = "stabilizer"
<1> DEFINE four == <<"volume", "anomaly", "macro", "stabilizer">>
<1> DEFINE nine == {"btc", "eth", "oil", "gold", "silver", "copper", "natgas", "platinum", "forex_usd"}
           names == nine \cup {"volume", "anomaly", "macro", "stabilizer"}
<1>1. AssetOrder \in Seq(nine) /\ Len(AssetOrder) = 9
  BY DEF AssetOrder
<1>a. /\ four \in Seq({"volume", "anomaly", "macro", "stabilizer"}) /\ Len(four) = 4
      /\ four[1] = "volume" /\ four[2] = "anomaly" /\ four[3] = "macro" /\ four[4] = "stabilizer"
  OBVIOUS
<1>2. CycleOrder = AssetOrder \o four
  BY DEF CycleOrder
<1>b. AssetOrder \in Seq(names) /\ four \in Seq(names)
  BY <1>1, <1>a
<1> HIDE DEF four, names, nine
<1>3. Len(CycleOrder) = 13 /\ \A i \in 1 .. 13 : CycleOrder[i] = IF i <= 9 THEN AssetOrder[i] ELSE four[i - 9]
  <2>1. /\ Len(AssetOrder \o four) = Len(AssetOrder) + Len(four)
        /\ \A i \in 1 .. Len(AssetOrder) + Len(four) :
              (AssetOrder \o four)[i] = IF i <= Len(AssetOrder) THEN AssetOrder[i] ELSE four[i - Len(AssetOrder)]
    BY <1>b, ConcatProperties, Zenon
  <2> DEFINE z == AssetOrder \o four
             k == Len(AssetOrder)
             l == Len(four)
  <2>2. CycleOrder = z /\ k = 9 /\ l = 4
    BY <1>1, <1>a, <1>2
  <2>3. Len(z) = k + l /\ \A i \in 1 .. k + l : z[i] = IF i <= k THEN AssetOrder[i] ELSE four[i - k]
    BY <2>1
  <2> HIDE DEF z, k, l
  <2>4. Len(z) = 13 /\ \A i \in 1 .. 13 : z[i] = IF i <= 9 THEN AssetOrder[i] ELSE four[i - 9]
    BY <2>2, <2>3
  <2> QED BY <2>2, <2>4
<1>5. /\ \A i \in 1 .. 9 : CycleOrder[i] = AssetOrder[i]
      /\ CycleOrder[10] = four[1] /\ CycleOrder[11] = four[2]
      /\ CycleOrder[12] = four[3] /\ CycleOrder[13] = four[4]
  BY <1>3
<1>4. DOMAIN AssetOrder = 1 .. 9
  BY <1>1
<1> QED BY <1>1, <1>a, <1>3, <1>4, <1>5

\* An asset is one of nine, at one step.
LEMMA AssetSteps ==
  /\ \A i, j \in 1 .. 9 : AssetOrder[i] = AssetOrder[j] => i = j
  /\ \A i \in 1 .. 9 : AssetOrder[i] \in AdvisedAssets \ {"volume", "anomaly", "macro", "stabilizer"}
  /\ \A a \in AdvisedAssets : \E i \in 1 .. 9 : a = AssetOrder[i]
  /\ AdvisedAssets = {"btc", "eth", "oil", "gold", "silver", "copper", "natgas", "platinum", "forex_usd"}
<1>1. \A a \in AdvisedAssets : \E i \in 1 .. 9 : a = AssetOrder[i]
  BY CycleSteps, Zenon DEF AdvisedAssets
<1>2. \A i \in 1 .. 9 : AssetOrder[i] \in AdvisedAssets
  BY CycleSteps, Zenon DEF AdvisedAssets
<1>3. \A i \in 1 .. 9 : i = 1 \/ i = 2 \/ i = 3 \/ i = 4 \/ i = 5 \/ i = 6 \/ i = 7 \/ i = 8 \/ i = 9
  OBVIOUS
<1>4. /\ AssetOrder[1] = "btc" /\ AssetOrder[2] = "eth" /\ AssetOrder[3] = "oil" /\ AssetOrder[4] = "gold"
      /\ AssetOrder[5] = "silver" /\ AssetOrder[6] = "copper" /\ AssetOrder[7] = "natgas"
      /\ AssetOrder[8] = "platinum" /\ AssetOrder[9] = "forex_usd"
  BY DEF AssetOrder
<1>5. \A i, j \in 1 .. 9 : AssetOrder[i] = AssetOrder[j] => i = j
  BY <1>3, <1>4
<1>6. \A i \in 1 .. 9 : AssetOrder[i] \notin {"volume", "anomaly", "macro", "stabilizer"}
  BY <1>3, <1>4
<1>7. AdvisedAssets = {"btc", "eth", "oil", "gold", "silver", "copper", "natgas", "platinum", "forex_usd"}
  <2>1. 1 \in 1 .. 9 /\ 2 \in 1 .. 9 /\ 3 \in 1 .. 9 /\ 4 \in 1 .. 9 /\ 5 \in 1 .. 9 /\ 6 \in 1 .. 9
        /\ 7 \in 1 .. 9 /\ 8 \in 1 .. 9 /\ 9 \in 1 .. 9
    OBVIOUS
  <2> QED BY <1>1, <1>2, <1>3, <1>4, <2>1
<1> QED BY <1>1, <1>2, <1>5, <1>6, <1>7

\* An advice of a risk that is a number is an advice.
LEMMA AdviceIsAdvice ==
  /\ Stopped \in AdviceType /\ Stopped.weight = 0
  /\ \A risk \in Int, e, g \in BOOLEAN : Advice(risk, e, g) \in AdviceType
<1>1. Stopped \in AdviceType /\ Stopped.weight = 0
  BY DEF Stopped, AdviceType
<1>2. ASSUME NEW risk \in Int, NEW e \in BOOLEAN, NEW g \in BOOLEAN
      PROVE  Advice(risk, e, g) \in AdviceType
  BY DEF Advice, AdviceType, FullWeight
<1> QED BY <1>1, <1>2

\* Every asset's evaluation gives an advice, one of weight zero when it is stopped.
LEMMA AdviceHolds ==
  ASSUME NEW a \in AdvisedAssets, NEW s \in AssetStateType, NEW stop \in BOOLEAN
  PROVE  AdviceFor(a, s, stop) \in AdviceType /\ (stop => AdviceFor(a, s, stop).weight = 0)
<1> DEFINE Good(x) == x \in AdviceType /\ (stop => x.weight = 0)
<1>1. s.vol \in Nat /\ s.drawdown \in Nat /\ s.trend \in Int /\ s.smoothed \in Nat
  <2>1. s.vol \in Nat /\ s.drawdown \in 0 .. 100 /\ s.trend \in -100 .. 100 /\ s.smoothed \in Nat
    BY DEF AssetStateType
  <2> DEFINE d == s.drawdown
             t == s.trend
  <2>2. d \in 0 .. 100 /\ t \in -100 .. 100
    BY <2>1
  <2> HIDE DEF d, t
  <2>3. d \in Nat /\ t \in Int
    BY <2>2
  <2> QED BY <2>1, <2>3 DEF d, t
<1>2. Fall(s) \in Nat
  <2>1. -s.trend \in Int
    BY <1>1
  <2>2. Max({0, -s.trend}) \in Nat
    BY <2>1, PositivePart
  <2> QED BY <2>2 DEF Fall
<1>3. Good(evaluate_btc_state(s, stop))
  <2> DEFINE x == (2000 * s.vol + 1000 * s.drawdown + 8 * Fall(s)) \div 38
             risk == Bound(x, 0, 10000)
             e == risk > 6000 \/ s.drawdown > 15
  <2>1. x \in Int
    BY <1>1, <1>2
  <2>2. evaluate_btc_state(s, stop) = IF stop THEN Stopped ELSE Advice(risk, e, ~e /\ s.trend > 10)
    BY DEF evaluate_btc_state
  <2> HIDE DEF x
  <2>3. risk \in Int
    BY <2>1, BoundWeight
  <2>4. e \in BOOLEAN /\ (~e /\ s.trend > 10) \in BOOLEAN
    OBVIOUS
  <2> HIDE DEF risk, e
  <2> QED BY <2>2, <2>3, <2>4, AdviceIsAdvice
<1>4. Good(evaluate_eth_state(s, stop))
  <2> DEFINE x == (3000 * s.vol + 2000 * s.drawdown + 8 * Fall(s) + 1000 * s.smoothed) \div 68
             risk == Bound(x, 0, 10000)
             e == risk > 7000 \/ s.drawdown > 20
  <2>1. x \in Int
    BY <1>1, <1>2
  <2>2. evaluate_eth_state(s, stop) = IF stop THEN Stopped ELSE Advice(risk, e, ~e /\ s.trend > 5)
    BY DEF evaluate_eth_state
  <2> HIDE DEF x
  <2>3. risk \in Int
    BY <2>1, BoundWeight
  <2>4. e \in BOOLEAN /\ (~e /\ s.trend > 5) \in BOOLEAN
    OBVIOUS
  <2> HIDE DEF risk, e
  <2> QED BY <2>2, <2>3, <2>4, AdviceIsAdvice
<1>5. SignedRisk(s) \in Int
  <2>1. 100 * Average4(s.vol, s.drawdown, s.trend, s.smoothed) \in Int
    BY <1>1 DEF Average4
  <2> QED BY <2>1, BoundWeight DEF SignedRisk
<1>6. Good(Commodity(s, stop))
  <2> DEFINE risk == SignedRisk(s)
             e == risk > 6000 \/ s.drawdown > 15
  <2>1. Commodity(s, stop) = IF stop THEN Stopped ELSE Advice(risk, e, ~e /\ s.trend > 10)
    BY DEF Commodity
  <2>2. e \in BOOLEAN /\ (~e /\ s.trend > 10) \in BOOLEAN
    OBVIOUS
  <2>3. risk \in Int
    BY <1>5
  <2> HIDE DEF risk, e
  <2> QED BY <2>1, <2>2, <2>3, AdviceIsAdvice
<1>7. Good(evaluate_forex_usd_state(s, stop))
  <2> DEFINE risk == SignedRisk(s)
             e == risk > 7500
             g == risk < 4000 /\ s.trend > 0
  <2>1. evaluate_forex_usd_state(s, stop) = IF stop THEN Stopped ELSE Advice(risk, e, g)
    BY DEF evaluate_forex_usd_state
  <2>2. e \in BOOLEAN /\ g \in BOOLEAN
    OBVIOUS
  <2>3. risk \in Int
    BY <1>5
  <2> HIDE DEF risk, e, g
  <2> QED BY <2>1, <2>2, <2>3, AdviceIsAdvice
<1> HIDE DEF Good
<1>8. Good(AdviceFor(a, s, stop))
  <2>1. \/ a = "btc" \/ a = "eth" \/ a = "forex_usd" \/ a = "oil" \/ a = "gold" \/ a = "silver"
        \/ a = "copper" \/ a = "natgas" \/ a = "platinum"
    BY AssetSteps
  <2>2. AdviceFor(a, s, stop) \in
          {evaluate_btc_state(s, stop), evaluate_eth_state(s, stop), evaluate_forex_usd_state(s, stop),
           Commodity(s, stop)}
    BY <2>1 DEF AdviceFor, evaluate_oil_state, evaluate_gold_state, evaluate_silver_state,
                evaluate_copper_state, evaluate_natgas_state, evaluate_platinum_state
  <2> QED BY <1>3, <1>4, <1>6, <1>7, <2>2
<1> QED BY <1>8 DEF Good

\* The macro weight is a number, none when stopped.
LEMMA MacroNumber ==
  ASSUME NEW m \in MacroType, NEW stop \in BOOLEAN
  PROVE  MacroWeight(m, stop) \in Int /\ (stop => MacroWeight(m, stop) = 0)
<1>1. m.base * m.dampening \in Int
  <2>1. m.base \in Int /\ m.dampening \in 0 .. 100
    BY DEF MacroType
  <2> DEFINE b == m.base
             d == m.dampening
  <2>2. b \in Int /\ d \in 0 .. 100
    BY <2>1
  <2> HIDE DEF b, d
  <2>3. b * d \in Int
    BY <2>2
  <2> QED BY <2>3 DEF b, d
<1> DEFINE y == m.base * m.dampening
           x == y \div 100
<1>2. x \in Int
  <2>1. y \in Int
    BY <1>1
  <2> HIDE DEF y
  <2> QED BY <2>1
<1>3. MacroWeight(m, stop) = IF stop THEN 0 ELSE Bound(x, 0, 100)
  BY DEF MacroWeight
<1> HIDE DEF x
<1>4. Bound(x, 0, 100) = IF x < 0 THEN 0 ELSE IF x > 100 THEN 100 ELSE x
  <2>1. 0 \in Int /\ 100 \in Int /\ 0 <= 100
    OBVIOUS
  <2> QED BY <1>2, <2>1, BoundValue
<1> QED BY <1>2, <1>3, <1>4

\* The factor of the stabilizer is a share, none when stopped.
LEMMA StabilizerNumber ==
  ASSUME NEW s, NEW stop \in BOOLEAN
  PROVE  LET x == evaluate_market_stabilizer_advisory(s, stop)
         IN  FactorHolds(x) /\ (stop => x.factor = 0)
<1> DEFINE stress == StabilizerStress(s)
           factor == IF stress > 75 THEN 15 ELSE IF stress > 40 THEN 50 ELSE 100
           x == evaluate_market_stabilizer_advisory(s, stop)
<1>1. x.factor = IF stop THEN 0 ELSE IF s.spread > 60 THEN (factor * 8) \div 10 ELSE factor
  BY DEF evaluate_market_stabilizer_advisory
<1>2. factor = 15 \/ factor = 50 \/ factor = 100
  OBVIOUS
<1> HIDE DEF factor, x
<1>3. x.factor \in Nat /\ x.factor <= 100 /\ (stop => x.factor = 0)
  <2>1. (factor * 8) \div 10 = 12 \/ (factor * 8) \div 10 = 40 \/ (factor * 8) \div 10 = 80
    BY <1>2
  <2> QED BY <1>1, <1>2, <2>1
<1> QED BY <1>3 DEF x, FactorHolds

-----------------------------------------------------------------------------
(* The cycles of the callers. *)

\* The weight of asset a in market m when the macro layer, and when the stabilizer
\* too, has scaled it, and after n steps of a cycle without a stop.
OwnOf(m, a) == AdviceFor(a, m.asset, FALSE).weight
KeptOf(m, a) ==
  IF ~m.macro.attached THEN OwnOf(m, a) ELSE Scaled(OwnOf(m, a), MacroWeight(m.macro, FALSE))
FinalOf(m, a) ==
  IF ~m.stabilizer.attached THEN KeptOf(m, a)
  ELSE Scaled(KeptOf(m, a), evaluate_market_stabilizer_advisory(m.stabilizer, FALSE).factor)
WeightAfter(m, a, n) == IF n <= 11 THEN OwnOf(m, a) ELSE IF n = 12 THEN KeptOf(m, a) ELSE FinalOf(m, a)

\* A weight after n steps: the kill switch had the values in set "during".
WeightHolds(x, m, a, n, during) ==
  \/ FALSE \in during /\ x.weight = WeightAfter(m, a, n)
  \/ TRUE \in during /\ x.weight = 0

\* A volume advisory after the cycle's own.
VolumeMoved(x, m, during) ==
  m.volume.prev >= 0 =>
    Apart(x.weight, m.volume.prev) <= MaxDriftOfWeight \/ VolumeStopped(x, m.volume, during)

AdvisoryTypes ==
  /\ market \in MarketType /\ killed \in BOOLEAN /\ seen \subseteq BOOLEAN
  /\ advisories \in [AdvisedAssets -> AdviceType]
  /\ IsWeight(volume.weight) /\ FactorHolds(stabilizer)
  /\ at \in [Callers -> Nat] /\ \A c \in Callers : at[c] <= 13

\* A caller on the way began after the last reset of seen, which holds what killed is.
SeenSoFar == (seen # {} => Callers # {}) /\ \A c \in Callers : at[c] # 13 => killed \in seen

\* The weights a caller has come by are what the layers it has come by leave of them.
WeightsSoFar ==
  seen # {} =>
    \A c \in Callers, i \in 1 .. 9 :
      i <= at[c] /\ AssetOrder[i] \notin stateless =>
        WeightHolds(advisories[AssetOrder[i]], market, AssetOrder[i], at[c], seen)

\* Someone whose cycle began after the last reset is on the way, or has come by.
VolumeSoFar == seen # {} => (\E c \in Callers : at[c] < 10) \/ VolumeMoved(volume, market, seen)

\* While nothing but a stop was seen, a weight is zero once everyone is past its asset.
StopSoFar ==
  seen = {TRUE} =>
    \A i \in 1 .. 9 :
      AssetOrder[i] \notin stateless =>
        (\E c \in Callers : at[c] < i) \/ advisories[AssetOrder[i]].weight = 0

\* The inductive invariant of the cycles of any number of callers.  WeightsSoFar
\* is the invariant of one caller.
CycleInv == AdvisoryTypes /\ SeenSoFar /\ VolumeSoFar /\ StopSoFar

OneCaller == \A c, d \in Callers : c = d

\* The step of a name.
LEMMA StepOfName ==
  ASSUME NEW n \in 1 .. 13
  PROVE  /\ CycleOrder[n] \in AdvisedAssets => n <= 9 /\ AssetOrder[n] = CycleOrder[n]
         /\ CycleOrder[n] = "volume" => n = 10
         /\ CycleOrder[n] = "anomaly" => n = 11
         /\ CycleOrder[n] = "macro" => n = 12
         /\ CycleOrder[n] = "stabilizer" => n = 13
<1>1. CASE n <= 9
  <2>1. n \in 1 .. 9
    BY <1>1
  <2>2. CycleOrder[n] = AssetOrder[n] /\ AssetOrder[n] \notin {"volume", "anomaly", "macro", "stabilizer"}
    BY <2>1, CycleSteps, AssetSteps
  <2> QED BY <1>1, <2>2
<1>2. CASE ~(n <= 9)
  <2>1. n = 10 \/ n = 11 \/ n = 12 \/ n = 13
    BY <1>2
  <2>2. "volume" \notin AdvisedAssets /\ "anomaly" \notin AdvisedAssets
        /\ "macro" \notin AdvisedAssets /\ "stabilizer" \notin AdvisedAssets
    BY AssetSteps
  <2> QED BY <2>1, <2>2, CycleSteps
<1> QED BY <1>1, <1>2

\* A caller that reaches a step.
LEMMA ReachedStep ==
  ASSUME CycleInv, NEW c \in Callers, NEW step, Reached(c, step)
  PROVE  /\ at[c] \in Nat /\ at[c] <= 12 /\ CycleOrder[at[c] + 1] = step /\ at[c] + 1 \in 1 .. 13
         /\ killed \in seen /\ seen # {} /\ UNCHANGED <<market, killed, stateless, seen, fib, advised>>
         /\ at' \in [Callers -> Nat] /\ at'[c] = at[c] + 1 /\ \A d \in Callers : d # c => at'[d] = at[d]
<1>1. /\ at[c] # 13 /\ CycleOrder[at[c] + 1] = step /\ at' = [at EXCEPT ![c] = at[c] + 1]
      /\ UNCHANGED <<market, killed, stateless, seen, fib, advised>>
  BY CycleSteps DEF Reached, Finished
<1>2. at[c] \in Nat /\ at[c] <= 13 /\ at \in [Callers -> Nat]
  BY DEF CycleInv, AdvisoryTypes
<1>3. at[c] <= 12 /\ at[c] + 1 \in Nat /\ at[c] + 1 \in 1 .. 13
  BY <1>1, <1>2
<1>4. killed \in seen /\ seen # {}
  BY <1>1 DEF CycleInv, SeenSoFar
<1>5. at' \in [Callers -> Nat] /\ at'[c] = at[c] + 1 /\ \A d \in Callers : d # c => at'[d] = at[d]
  BY <1>1, <1>2, <1>3
<1> QED BY <1>1, <1>2, <1>3, <1>4, <1>5

\* What is left to show of a step of a cycle.
LEMMA CycleStep ==
  ASSUME CycleInv, NEW c \in Callers, NEW step, Reached(c, step),
         advisories' \in [AdvisedAssets -> AdviceType], IsWeight(volume'.weight), FactorHolds(stabilizer'),
         at[c] # 9 => volume' = volume, at[c] = 9 => VolumeMoved(volume', market, seen),
         \A i \in 1 .. 9 :
           seen = {TRUE} /\ AssetOrder[i] \notin stateless =>
             \/ i # at[c] + 1 /\ advisories[AssetOrder[i]].weight # 0
             \/ advisories'[AssetOrder[i]].weight = 0
  PROVE  CycleInv'
<1>1. /\ at[c] \in Nat /\ at[c] <= 12 /\ killed \in seen /\ UNCHANGED <<market, killed, stateless, seen>>
      /\ at' \in [Callers -> Nat] /\ at'[c] = at[c] + 1 /\ \A d \in Callers : d # c => at'[d] = at[d]
  BY ReachedStep
<1>2. at \in [Callers -> Nat] /\ \A d \in Callers : at[d] <= 13
  BY DEF CycleInv, AdvisoryTypes
<1>3. AdvisoryTypes'
  <2>1. market \in MarketType /\ killed \in BOOLEAN /\ seen \subseteq BOOLEAN
    BY DEF CycleInv, AdvisoryTypes
  <2>2. \A d \in Callers : at'[d] <= 13
    BY <1>1, <1>2
  <2> QED BY <1>1, <2>1, <2>2 DEF AdvisoryTypes, IsWeight, FactorHolds
<1>4. SeenSoFar'
  BY <1>1 DEF SeenSoFar
<1>5. VolumeSoFar'
  <2>1. CASE at[c] = 9
    BY <1>1, <2>1 DEF VolumeSoFar
  <2>2. CASE at[c] # 9
    <3>1. ASSUME NEW d \in Callers, at[d] < 10 PROVE at'[d] < 10
      BY <1>1, <1>2, <2>2, <3>1
    <3> QED BY <1>1, <2>2, <3>1 DEF CycleInv, VolumeSoFar
  <2> QED BY <2>1, <2>2
<1>6. StopSoFar'
  <2>1. SUFFICES ASSUME seen = {TRUE}, NEW i \in 1 .. 9, AssetOrder[i] \notin stateless
                 PROVE  (\E d \in Callers : at'[d] < i) \/ advisories'[AssetOrder[i]].weight = 0
    BY <1>1 DEF StopSoFar
  <2>2. CASE i = at[c] + 1 \/ advisories[AssetOrder[i]].weight = 0
    BY <2>1, <2>2
  <2>3. CASE i # at[c] + 1 /\ advisories[AssetOrder[i]].weight # 0
    <3>1. PICK d \in Callers : at[d] < i
      BY <2>1, <2>3 DEF CycleInv, StopSoFar
    <3>2. at'[d] < i
      BY <1>1, <1>2, <2>3, <3>1
    <3> QED BY <3>2
  <2> QED BY <2>2, <2>3
<1> QED BY <1>3, <1>4, <1>5, <1>6 DEF CycleInv

\* What is left to show of the weights that one caller's step leaves.
LEMMA WeightStep ==
  ASSUME CycleInv, OneCaller, NEW c \in Callers, NEW step, Reached(c, step),
         \A i \in 1 .. 9 :
           i <= at[c] + 1 /\ AssetOrder[i] \notin stateless =>
             WeightHolds(advisories'[AssetOrder[i]], market, AssetOrder[i], at[c] + 1, seen)
  PROVE  WeightsSoFar'
<1>1. UNCHANGED <<market, stateless, seen>> /\ at'[c] = at[c] + 1
  BY ReachedStep
<1>2. \A d \in Callers : d = c
  BY DEF OneCaller
<1> QED BY <1>1, <1>2 DEF WeightsSoFar

\* The weights a step leaves alone, before the macro layer.
LEMMA WeightsStay ==
  ASSUME CycleInv, WeightsSoFar, NEW c \in Callers, NEW step, Reached(c, step), at[c] <= 10,
         NEW i \in 1 .. 9, i <= at[c], AssetOrder[i] \notin stateless
  PROVE  WeightHolds(advisories[AssetOrder[i]], market, AssetOrder[i], at[c] + 1, seen)
<1>1. WeightHolds(advisories[AssetOrder[i]], market, AssetOrder[i], at[c], seen)
  BY ReachedStep DEF WeightsSoFar
<1>2. at[c] \in Nat
  BY ReachedStep
<1>3. WeightAfter(market, AssetOrder[i], at[c] + 1) = WeightAfter(market, AssetOrder[i], at[c])
  BY <1>2 DEF WeightAfter
<1> QED BY <1>1, <1>3 DEF WeightHolds

\* A layer that scales all.
LEMMA AllScaled ==
  ASSUME NEW list \in [AdvisedAssets -> AdviceType], NEW p \in Int
  PROVE  /\ ScaleAll(list, p) \in [AdvisedAssets -> AdviceType]
         /\ \A a \in AdvisedAssets : /\ ScaleAll(list, p)[a].weight = Scaled(list[a].weight, p)
                                     /\ list[a].weight \in Int
<1>1. ASSUME NEW a \in AdvisedAssets
      PROVE  /\ [list[a] EXCEPT !.weight = Scaled(list[a].weight, p)] \in AdviceType
             /\ [list[a] EXCEPT !.weight = Scaled(list[a].weight, p)].weight = Scaled(list[a].weight, p)
             /\ list[a].weight \in Int
  <2>1. list[a] \in AdviceType
    OBVIOUS
  <2>2. list[a].weight \in Int
    BY <2>1 DEF AdviceType
  <2>3. Scaled(list[a].weight, p) \in Int
    BY <2>2, ScaledInt
  <2> QED BY <2>1, <2>2, <2>3 DEF AdviceType
<1>2. \A a \in AdvisedAssets : ScaleAll(list, p)[a] = [list[a] EXCEPT !.weight = Scaled(list[a].weight, p)]
  BY DEF ScaleAll
<1>3. ScaleAll(list, p) \in [AdvisedAssets -> AdviceType]
  BY <1>1 DEF ScaleAll
<1> QED BY <1>1, <1>2, <1>3

-----------------------------------------------------------------------------
(* Every step of a cycle, and of the host, keeps the invariants. *)

\* At first nobody is on the way, and every advisory has the weight it is made with.
LEMMA AdvisoryStarts == ASSUME AdvisoryInit PROVE CycleInv /\ WeightsSoFar
<1>1. market \in MarketType /\ killed \in BOOLEAN /\ seen = {}
  BY AdvisoryAssumption DEF AdvisoryInit
<1>2. Fresh \in AdviceType
  BY DEF Fresh, AdviceType, FullWeight
<1>3. advisories \in [AdvisedAssets -> AdviceType]
  BY <1>2 DEF AdvisoryInit
<1>4. IsWeight(volume.weight) /\ FactorHolds(stabilizer)
  BY DEF AdvisoryInit, FreshVolume, FullWeight, NoStabilizer, IsWeight, FactorHolds
<1>5. at = [c \in Callers |-> 13]
  BY CycleSteps DEF AdvisoryInit
<1>6. at \in [Callers -> Nat] /\ \A c \in Callers : at[c] <= 13 /\ at[c] = 13
  BY <1>5
<1> QED BY <1>1, <1>3, <1>4, <1>6 DEF CycleInv, AdvisoryTypes, SeenSoFar, WeightsSoFar, VolumeSoFar, StopSoFar

\* A cycle begins anew: nothing is promised of it yet.
LEMMA StartKeeps ==
  ASSUME CycleInv, NEW c \in Callers, StartCycle(c)
  PROVE  CycleInv' /\ (OneCaller => WeightsSoFar')
<1>1. /\ at' = [at EXCEPT ![c] = 0] /\ seen' = {killed}
      /\ UNCHANGED <<market, killed, stateless, advisories, volume, stabilizer>>
  BY DEF StartCycle
<1>2. /\ at \in [Callers -> Nat] /\ at' \in [Callers -> Nat] /\ at'[c] = 0
      /\ \A d \in Callers : at[d] <= 13 /\ (d # c => at'[d] = at[d])
  BY <1>1 DEF CycleInv, AdvisoryTypes
<1>3. AdvisoryTypes'
  <2>1. \A d \in Callers : at'[d] <= 13
    <3>1. \A d \in Callers : d = c \/ at'[d] = at[d]
      BY <1>2
    <3>2. 0 <= 13
      OBVIOUS
    <3> QED BY <1>2, <3>1, <3>2
  <2> QED BY <1>1, <1>2, <2>1 DEF CycleInv, AdvisoryTypes
<1>4. SeenSoFar'
  BY <1>1 DEF SeenSoFar
<1>5. VolumeSoFar'
  BY <1>2 DEF VolumeSoFar
<1>6. StopSoFar'
  BY <1>2 DEF StopSoFar
<1>7. ASSUME OneCaller PROVE WeightsSoFar'
  <2>1. \A d \in Callers, i \in 1 .. 9 : ~(i <= at'[d])
    BY <1>2, <1>7 DEF OneCaller
  <2> QED BY <2>1 DEF WeightsSoFar
<1> QED BY <1>3, <1>4, <1>5, <1>6, <1>7 DEF CycleInv

\* The advice of an asset replaces what stood there.
LEMMA AssetKeeps ==
  ASSUME CycleInv, NEW c \in Callers, NEW a \in AdvisedAssets, EvaluateAsset(c, a)
  PROVE  CycleInv' /\ (OneCaller /\ WeightsSoFar => WeightsSoFar')
<1> DEFINE n == at[c] + 1
           new == AdviceFor(a, market.asset, killed)
<1>1. /\ Reached(c, a) /\ UNCHANGED <<volume, stabilizer>>
      /\ advisories' = IF a \in stateless THEN advisories ELSE [advisories EXCEPT ![a] = new]
  BY DEF EvaluateAsset, Evaluated
<1>2. at[c] \in Nat /\ at[c] <= 12 /\ n \in 1 .. 13 /\ CycleOrder[n] = a /\ killed \in seen /\ seen # {}
  BY <1>1, ReachedStep
<1>3. n <= 9 /\ AssetOrder[n] = a /\ n \in 1 .. 9 /\ n \in Nat /\ at[c] <= 10
  BY <1>2, StepOfName
<1>4. killed \in BOOLEAN /\ market.asset \in AssetStateType /\ advisories \in [AdvisedAssets -> AdviceType]
      /\ IsWeight(volume.weight) /\ FactorHolds(stabilizer)
  BY DEF CycleInv, AdvisoryTypes, MarketType
<1>5. new \in AdviceType /\ (killed => new.weight = 0)
  BY <1>4, AdviceHolds
<1>6. advisories' \in [AdvisedAssets -> AdviceType]
  <2> HIDE DEF new
  <2> QED BY <1>1, <1>4, <1>5
<1>7. WeightHolds(new, market, a, n, seen)
  <2>1. CASE killed
    BY <1>2, <1>4, <1>5, <2>1 DEF WeightHolds
  <2>2. CASE ~killed
    <3>1. killed = FALSE
      BY <1>4, <2>2
    <3>2. new.weight = OwnOf(market, a)
      BY <3>1 DEF OwnOf
    <3>3. WeightAfter(market, a, n) = OwnOf(market, a)
      BY <1>3 DEF WeightAfter
    <3> QED BY <1>2, <3>1, <3>2, <3>3 DEF WeightHolds
  <2> QED BY <2>1, <2>2
<1> HIDE DEF new
<1>8. ASSUME WeightsSoFar, NEW i \in 1 .. 9, i <= n, AssetOrder[i] \notin stateless
      PROVE  WeightHolds(advisories'[AssetOrder[i]], market, AssetOrder[i], n, seen)
  <2>1. CASE i = n
    <3>1. advisories'[a] = new
      BY <1>1, <1>3, <1>4, <1>8, <2>1
    <3> QED BY <1>3, <1>7, <2>1, <3>1
  <2>2. CASE i # n
    <3>1. i <= at[c]
      BY <1>2, <1>8, <2>2
    <3>2. AssetOrder[i] # a /\ AssetOrder[i] \in AdvisedAssets
      BY <1>3, <2>2, AssetSteps
    <3>3. advisories'[AssetOrder[i]] = advisories[AssetOrder[i]]
      BY <1>1, <1>4, <3>2
    <3>4. WeightHolds(advisories[AssetOrder[i]], market, AssetOrder[i], at[c] + 1, seen)
      BY <1>1, <1>3, <1>8, <3>1, WeightsStay
    <3> QED BY <3>3, <3>4
  <2> QED BY <2>1, <2>2
<1>9. ASSUME NEW i \in 1 .. 9, seen = {TRUE}, AssetOrder[i] \notin stateless
      PROVE  \/ i # at[c] + 1 /\ advisories[AssetOrder[i]].weight # 0
             \/ advisories'[AssetOrder[i]].weight = 0
  <2>1. CASE i = n
    <3>1. advisories'[a] = new
      BY <1>1, <1>3, <1>4, <1>9, <2>1
    <3>2. killed
      BY <1>2, <1>9
    <3> QED BY <1>3, <1>5, <2>1, <3>1, <3>2
  <2>2. CASE i # n
    <3>1. AssetOrder[i] # a /\ AssetOrder[i] \in AdvisedAssets
      BY <1>3, <2>2, AssetSteps
    <3>2. advisories'[AssetOrder[i]] = advisories[AssetOrder[i]]
      BY <1>1, <1>4, <3>1
    <3> QED BY <2>2, <3>2
  <2> QED BY <2>1, <2>2
<1>10. at[c] # 9
  BY <1>2, <1>3
<1>11. CycleInv'
  BY <1>1, <1>4, <1>6, <1>9, <1>10, CycleStep
<1>12. ASSUME OneCaller, WeightsSoFar PROVE WeightsSoFar'
  BY <1>1, <1>8, <1>12, WeightStep
<1> QED BY <1>11, <1>12

\* A volume advisory computed now moves as it may.
LEMMA VolumeMoves ==
  ASSUME NEW m \in MarketType, NEW off \in BOOLEAN, NEW s, FactorHolds(s), NEW mode, NEW f, NEW during, off \in during
  PROVE  LET x == evaluate_volume_state(m.volume, off, s, m.contrarian, mode, f)
         IN  IsWeight(x.weight) /\ VolumeMoved(x, m, during)
<1> DEFINE v == m.volume
           x == evaluate_volume_state(v, off, s, m.contrarian, mode, f)
           buy == ContrarianBuy(v, m.contrarian, mode, f)
<1>1. v \in VolumeType /\ m.contrarian \in BOOLEAN
  BY DEF MarketType
<1>2. IsWeight(x.weight)
  BY <1>1, VolumeWeight
<1>3. \/ /\ v.malformed \/ off \/ (v.hft.on /\ ~v.hft.valid)
         /\ x.weight = 0 /\ x.elevated /\ ~x.buy
      \/ x.weight = Advised(v, buy, mode, s)
  <2> HIDE DEF Advised
  <2> QED BY <1>1, VolumeBranches
<1>4. v.prev >= 0 => Apart(Advised(v, buy, mode, s), v.prev) <= 1500
  <2> DEFINE w == Impelled(BaseWeight(v, buy, mode, s), v)
  <2>1. IsWeight(w)
    <3>1. buy \in BOOLEAN
      BY <1>1, BuyIsBoolean
    <3> HIDE DEF buy
    <3> QED BY <1>1, <3>1, WeightSteps
  <2>2. Advised(v, buy, mode, s) = Drifted(w, v)
    BY DEF Advised
  <2> HIDE DEF w
  <2> QED BY <1>1, <2>1, <2>2, DriftIsBounded
<1> HIDE DEF x, buy
<1>5. VolumeMoved(x, m, during)
  <2>1. off => TRUE \in during
    OBVIOUS
  <2>2. CASE x.weight = Advised(v, buy, mode, s)
    <3>1. v.prev >= 0 => Apart(x.weight, v.prev) <= 1500
      BY <1>4, <2>2
    <3> QED BY <3>1 DEF VolumeMoved, MaxDriftOfWeight
  <2>3. CASE /\ v.malformed \/ off \/ (v.hft.on /\ ~v.hft.valid)
             /\ x.weight = 0 /\ x.elevated /\ ~x.buy
    <3>1. VolumeStopped(x, v, during)
      BY <2>1, <2>3 DEF VolumeStopped
    <3> QED BY <3>1 DEF VolumeMoved
  <2> QED BY <1>3, <2>2, <2>3
<1> QED BY <1>2, <1>5 DEF x

\* The volume advisory moves as it may; the weights stay.
LEMMA VolumeKeeps ==
  ASSUME CycleInv, NEW c \in Callers, EvaluateVolume(c)
  PROVE  CycleInv' /\ (OneCaller /\ WeightsSoFar => WeightsSoFar')
<1> DEFINE x == evaluate_volume_state(market.volume, killed, stabilizer, market.contrarian, "STANDARD", NoFib)
<1>1. Reached(c, "volume") /\ volume' = x /\ UNCHANGED <<advisories, stabilizer>>
  BY DEF EvaluateVolume
<1>2. at[c] \in Nat /\ at[c] + 1 \in 1 .. 13 /\ CycleOrder[at[c] + 1] = "volume" /\ killed \in seen
  BY <1>1, ReachedStep
<1>3. at[c] = 9
  BY <1>2, StepOfName
<1>4. /\ market \in MarketType /\ killed \in BOOLEAN /\ FactorHolds(stabilizer)
      /\ advisories \in [AdvisedAssets -> AdviceType]
  BY DEF CycleInv, AdvisoryTypes
<1>5. IsWeight(x.weight) /\ VolumeMoved(x, market, seen)
  BY <1>2, <1>4, VolumeMoves
<1> HIDE DEF x
<1>6. ASSUME WeightsSoFar, NEW i \in 1 .. 9, AssetOrder[i] \notin stateless
      PROVE  WeightHolds(advisories'[AssetOrder[i]], market, AssetOrder[i], at[c] + 1, seen)
  <2>1. i <= at[c] /\ at[c] <= 10
    BY <1>3
  <2> QED BY <1>1, <1>6, <2>1, WeightsStay
<1>7. ASSUME NEW i \in 1 .. 9 PROVE i # at[c] + 1
  BY <1>3
<1>8. CycleInv'
  BY <1>1, <1>3, <1>4, <1>5, <1>7, CycleStep
<1> QED BY <1>1, <1>6, <1>8, WeightStep

\* Anomalies scale nothing.
LEMMA AnomalyKeeps ==
  ASSUME CycleInv, NEW c \in Callers, EvaluateAnomaly(c)
  PROVE  CycleInv' /\ (OneCaller /\ WeightsSoFar => WeightsSoFar')
<1>1. Reached(c, "anomaly") /\ UNCHANGED <<advisories, volume, stabilizer>>
  BY DEF EvaluateAnomaly
<1>2. at[c] \in Nat /\ at[c] + 1 \in 1 .. 13 /\ CycleOrder[at[c] + 1] = "anomaly" /\ seen # {}
  BY <1>1, ReachedStep
<1>3. at[c] = 10
  BY <1>2, StepOfName
<1>4. /\ IsWeight(volume.weight) /\ FactorHolds(stabilizer) /\ advisories \in [AdvisedAssets -> AdviceType]
  BY DEF CycleInv, AdvisoryTypes
<1>5. ASSUME WeightsSoFar, NEW i \in 1 .. 9, AssetOrder[i] \notin stateless
      PROVE  WeightHolds(advisories'[AssetOrder[i]], market, AssetOrder[i], at[c] + 1, seen)
  <2>1. i <= at[c] /\ at[c] <= 10
    BY <1>3
  <2> QED BY <1>1, <1>5, <2>1, WeightsStay
<1>6. ASSUME NEW i \in 1 .. 9 PROVE i # at[c] + 1
  BY <1>3
<1>7. CycleInv'
  <2>1. at[c] # 9 /\ volume' = volume /\ IsWeight(volume'.weight) /\ FactorHolds(stabilizer')
    BY <1>1, <1>3, <1>4
  <2>2. advisories' \in [AdvisedAssets -> AdviceType]
    BY <1>1, <1>4
  <2> QED BY <1>1, <1>6, <2>1, <2>2, CycleStep
<1> QED BY <1>1, <1>5, <1>7, WeightStep

\* Both layers over the assets, when they are attached: p is the share of a weight
\* they leave, q what it is without a stop.
LEMMA LayerScales ==
  ASSUME CycleInv, NEW n \in Nat, n = 11 \/ n = 12, NEW i \in 1 .. 9,
         WeightHolds(advisories[AssetOrder[i]], market, AssetOrder[i], n, seen), killed \in seen,
         NEW p \in Int, killed => p = 0,
         ~killed => WeightAfter(market, AssetOrder[i], n + 1) = Scaled(WeightAfter(market, AssetOrder[i], n), p)
  PROVE  WeightHolds(ScaleAll(advisories, p)[AssetOrder[i]], market, AssetOrder[i], n + 1, seen)
<1> DEFINE a == AssetOrder[i]
           w == advisories[a].weight
           x == ScaleAll(advisories, p)[a].weight
<1>1. killed \in BOOLEAN /\ advisories \in [AdvisedAssets -> AdviceType] /\ a \in AdvisedAssets
  BY AssetSteps DEF CycleInv, AdvisoryTypes
<1>2. x = Scaled(w, p) /\ w \in Int
  BY <1>1, AllScaled
<1>3. CASE killed
  <2>1. x = 0
    <3>1. x = Scaled(w, 0)
      BY <1>2, <1>3
    <3> HIDE DEF w, x
    <3> QED BY <1>2, <3>1, ScaledInt
  <2>2. TRUE \in seen
    BY <1>1, <1>3
  <2> QED BY <2>1, <2>2 DEF WeightHolds
<1>4. CASE ~killed
  <2>1. FALSE \in seen
    BY <1>1, <1>4
  <2>2. CASE TRUE \in seen /\ w = 0
    <3>1. x = 0
      BY <1>2, <2>2, ScaledInt
    <3> QED BY <2>2, <3>1 DEF WeightHolds
  <2>3. CASE w = WeightAfter(market, a, n)
    <3>1. x = WeightAfter(market, a, n + 1)
      BY <1>2, <1>4, <2>3
    <3> QED BY <2>1, <3>1 DEF WeightHolds
  <2> QED BY <2>2, <2>3 DEF WeightHolds
<1> QED BY <1>3, <1>4

\* The macro layer scales what the assets' own steps left.
LEMMA MacroKeeps ==
  ASSUME CycleInv, NEW c \in Callers, EvaluateMacro(c)
  PROVE  CycleInv' /\ (OneCaller /\ WeightsSoFar => WeightsSoFar')
<1> DEFINE p == MacroWeight(market.macro, killed)
<1>1. /\ Reached(c, "macro") /\ UNCHANGED <<volume, stabilizer>>
      /\ ~market.macro.attached => advisories' = advisories
      /\ market.macro.attached => advisories' = ScaleAll(advisories, p)
  BY DEF EvaluateMacro
<1>2. at[c] \in Nat /\ at[c] + 1 \in 1 .. 13 /\ CycleOrder[at[c] + 1] = "macro" /\ killed \in seen /\ seen # {}
  BY <1>1, ReachedStep
<1>3. at[c] = 11
  BY <1>2, StepOfName
<1>4. /\ killed \in BOOLEAN /\ market.macro \in MacroType /\ advisories \in [AdvisedAssets -> AdviceType]
      /\ IsWeight(volume.weight) /\ FactorHolds(stabilizer)
  BY DEF CycleInv, AdvisoryTypes, MarketType
<1>5. p \in Int /\ (killed => p = 0)
  BY <1>4, MacroNumber
<1>6. advisories' \in [AdvisedAssets -> AdviceType]
  <2> HIDE DEF p
  <2> QED BY <1>1, <1>4, <1>5, AllScaled
<1>7. ASSUME WeightsSoFar, NEW i \in 1 .. 9, AssetOrder[i] \notin stateless
      PROVE  WeightHolds(advisories'[AssetOrder[i]], market, AssetOrder[i], 12, seen)
  <2> DEFINE a == AssetOrder[i]
  <2>1. WeightHolds(advisories[a], market, a, 11, seen)
    BY <1>2, <1>3, <1>7 DEF WeightsSoFar
  <2>2. WeightAfter(market, a, 11) = OwnOf(market, a) /\ WeightAfter(market, a, 12) = KeptOf(market, a)
    BY DEF WeightAfter
  <2>3. CASE ~market.macro.attached
    <3>1. KeptOf(market, a) = OwnOf(market, a)
      BY <2>3 DEF KeptOf
    <3> QED BY <1>1, <2>1, <2>2, <2>3, <3>1 DEF WeightHolds
  <2>4. CASE market.macro.attached
    <3>1. ASSUME ~killed PROVE KeptOf(market, a) = Scaled(OwnOf(market, a), p)
      <4>1. killed = FALSE
        BY <1>4, <3>1
      <4> QED BY <2>4, <4>1 DEF KeptOf
    <3> HIDE DEF p
    <3>2. ~killed => WeightAfter(market, a, 11 + 1) = Scaled(WeightAfter(market, a, 11), p)
      BY <2>2, <3>1
    <3>3. WeightHolds(ScaleAll(advisories, p)[a], market, a, 11 + 1, seen)
      BY <1>2, <1>5, <2>1, <3>2, LayerScales
    <3> QED BY <1>1, <2>4, <3>3
  <2> QED BY <2>3, <2>4
<1>8. ASSUME NEW i \in 1 .. 9
      PROVE  /\ i # at[c] + 1
             /\ advisories[AssetOrder[i]].weight = 0 => advisories'[AssetOrder[i]].weight = 0
  <2>1. i # at[c] + 1
    BY <1>3
  <2>2. CASE ~market.macro.attached
    BY <1>1, <2>1, <2>2
  <2>3. CASE market.macro.attached
    <3> HIDE DEF p
    <3>1. AssetOrder[i] \in AdvisedAssets
      BY AssetSteps
    <3>2. advisories'[AssetOrder[i]].weight = Scaled(advisories[AssetOrder[i]].weight, p)
      BY <1>1, <1>4, <1>5, <2>3, <3>1, AllScaled
    <3>3. Scaled(0, p) = 0
      BY <1>5, ScaledInt
    <3> QED BY <2>1, <3>2, <3>3
  <2> QED BY <2>2, <2>3
<1>9. CycleInv'
  <2>1. at[c] # 9 /\ volume' = volume /\ IsWeight(volume'.weight) /\ FactorHolds(stabilizer')
    BY <1>1, <1>3, <1>4, <1>6
  <2> QED BY <1>1, <1>6, <1>8, <2>1, CycleStep
<1>10. ASSUME OneCaller, WeightsSoFar PROVE WeightsSoFar'
  BY <1>1, <1>3, <1>7, <1>10, WeightStep
<1> QED BY <1>9, <1>10

\* The stabilizer scales what the macro layer left.
LEMMA StabilizerKeeps ==
  ASSUME CycleInv, NEW c \in Callers, EvaluateStabilizer(c)
  PROVE  CycleInv' /\ (OneCaller /\ WeightsSoFar => WeightsSoFar')
<1> DEFINE y == evaluate_market_stabilizer_advisory(market.stabilizer, killed)
           p == y.factor
<1>1. /\ Reached(c, "stabilizer") /\ UNCHANGED volume
      /\ ~market.stabilizer.attached => advisories' = advisories /\ stabilizer' = stabilizer
      /\ market.stabilizer.attached => advisories' = ScaleAll(advisories, p) /\ stabilizer' = y
  BY DEF EvaluateStabilizer
<1>2. /\ at[c] \in Nat /\ at[c] + 1 \in 1 .. 13 /\ CycleOrder[at[c] + 1] = "stabilizer"
      /\ killed \in seen /\ seen # {}
  BY <1>1, ReachedStep
<1>3. at[c] = 12
  BY <1>2, StepOfName
<1>4. /\ killed \in BOOLEAN /\ advisories \in [AdvisedAssets -> AdviceType]
      /\ IsWeight(volume.weight) /\ FactorHolds(stabilizer)
  BY DEF CycleInv, AdvisoryTypes
<1>5. FactorHolds(y) /\ p \in Int /\ (killed => p = 0)
  <2>1. FactorHolds(y) /\ (killed => p = 0)
    BY <1>4, StabilizerNumber
  <2>2. p \in Int
    BY <2>1 DEF FactorHolds
  <2> QED BY <2>1, <2>2
<1> HIDE DEF y
<1>6. advisories' \in [AdvisedAssets -> AdviceType] /\ FactorHolds(stabilizer')
  <2>1. CASE market.stabilizer.attached
    <3>1. ScaleAll(advisories, p) \in [AdvisedAssets -> AdviceType]
      <4> HIDE DEF p
      <4> QED BY <1>4, <1>5, AllScaled
    <3> QED BY <1>1, <1>5, <2>1, <3>1
  <2>2. CASE ~market.stabilizer.attached
    BY <1>1, <1>4, <2>2
  <2> QED BY <2>1, <2>2
<1>7. ASSUME WeightsSoFar, NEW i \in 1 .. 9, AssetOrder[i] \notin stateless
      PROVE  WeightHolds(advisories'[AssetOrder[i]], market, AssetOrder[i], 13, seen)
  <2> DEFINE a == AssetOrder[i]
  <2>1. WeightHolds(advisories[a], market, a, 12, seen)
    BY <1>2, <1>3, <1>7 DEF WeightsSoFar
  <2>2. WeightAfter(market, a, 12) = KeptOf(market, a) /\ WeightAfter(market, a, 13) = FinalOf(market, a)
    BY DEF WeightAfter
  <2>3. CASE ~market.stabilizer.attached
    <3>1. FinalOf(market, a) = KeptOf(market, a)
      BY <2>3 DEF FinalOf
    <3> QED BY <1>1, <2>1, <2>2, <2>3, <3>1 DEF WeightHolds
  <2>4. CASE market.stabilizer.attached
    <3>1. ASSUME ~killed PROVE FinalOf(market, a) = Scaled(KeptOf(market, a), p)
      <4>1. killed = FALSE
        BY <1>4, <3>1
      <4> QED BY <2>4, <4>1 DEF FinalOf, y
    <3> HIDE DEF p
    <3>2. ~killed => WeightAfter(market, a, 12 + 1) = Scaled(WeightAfter(market, a, 12), p)
      BY <2>2, <3>1
    <3>3. WeightHolds(ScaleAll(advisories, p)[a], market, a, 12 + 1, seen)
      BY <1>2, <1>5, <2>1, <3>2, LayerScales
    <3> QED BY <1>1, <2>4, <3>3
  <2> QED BY <2>3, <2>4
<1>8. ASSUME NEW i \in 1 .. 9
      PROVE  /\ i # at[c] + 1
             /\ advisories[AssetOrder[i]].weight = 0 => advisories'[AssetOrder[i]].weight = 0
  <2>1. i # at[c] + 1
    BY <1>3
  <2>2. CASE ~market.stabilizer.attached
    BY <1>1, <2>1, <2>2
  <2>3. CASE market.stabilizer.attached
    <3> HIDE DEF p
    <3>1. AssetOrder[i] \in AdvisedAssets
      BY AssetSteps
    <3>2. advisories'[AssetOrder[i]].weight = Scaled(advisories[AssetOrder[i]].weight, p)
      BY <1>1, <1>4, <1>5, <2>3, <3>1, AllScaled
    <3>3. Scaled(0, p) = 0
      BY <1>5, ScaledInt
    <3> QED BY <2>1, <3>2, <3>3
  <2> QED BY <2>2, <2>3
<1>9. CycleInv'
  <2>1. at[c] # 9 /\ volume' = volume /\ IsWeight(volume'.weight) /\ FactorHolds(stabilizer')
    BY <1>1, <1>3, <1>4, <1>6
  <2> QED BY <1>1, <1>6, <1>8, <2>1, CycleStep
<1>10. ASSUME OneCaller, WeightsSoFar PROVE WeightsSoFar'
  BY <1>1, <1>3, <1>7, <1>10, WeightStep
<1> QED BY <1>9, <1>10

\* A state of volume with the weight before it.
LEMMA WeightFedBack ==
  ASSUME NEW v \in VolumeType, NEW w, IsWeight(w)
  PROVE  [v EXCEPT !.prev = w] \in VolumeType
<1>1. w \in -1 .. 10000
  BY DEF IsWeight
<1> QED BY <1>1 DEF VolumeType

\* New states of the market: nothing is promised until the next cycle.
LEMMA SenseKeeps ==
  ASSUME CycleInv, NEW m \in Markets, Sense(m)
  PROVE  CycleInv' /\ WeightsSoFar'
<1>1. /\ Idle /\ market' = [m EXCEPT !.volume.prev = volume.weight] /\ seen' = {}
      /\ UNCHANGED <<killed, advisories, volume, stabilizer, at>>
  BY DEF Sense
<1>2. market' \in MarketType
  <2>1. m \in MarketType
    BY AdvisoryAssumption
  <2>2. IsWeight(volume.weight)
    BY DEF CycleInv, AdvisoryTypes
  <2>3. m.volume \in VolumeType
    BY <2>1 DEF MarketType
  <2>4. [m.volume EXCEPT !.prev = volume.weight] \in VolumeType
    BY <2>2, <2>3, WeightFedBack
  <2>5. market' = [m EXCEPT !.volume = [m.volume EXCEPT !.prev = volume.weight]]
    BY <1>1
  <2> QED BY <2>1, <2>4, <2>5 DEF MarketType
<1>3. AdvisoryTypes'
  BY <1>1, <1>2 DEF CycleInv, AdvisoryTypes
<1>4. SeenSoFar'
  BY <1>1, CycleSteps DEF SeenSoFar, Idle, Finished
<1> QED BY <1>1, <1>3, <1>4 DEF CycleInv, WeightsSoFar, VolumeSoFar, StopSoFar

\* A flip of the kill switch is seen by whoever is on the way.
LEMMA SwitchKeeps ==
  ASSUME CycleInv, NEW on \in BOOLEAN, SetKillSwitch(on)
  PROVE  CycleInv' /\ (WeightsSoFar => WeightsSoFar')
<1>1. /\ killed' = on /\ seen' = (IF Idle THEN seen ELSE seen \cup {on})
      /\ UNCHANGED <<market, stateless, advisories, volume, stabilizer, at>>
  BY DEF SetKillSwitch
<1>2. AdvisoryTypes'
  BY <1>1 DEF CycleInv, AdvisoryTypes
<1>3. seen \subseteq seen' /\ (seen' # {} /\ seen = {} => ~Idle)
  BY <1>1
<1>4. Idle \/ on \in seen'
  BY <1>1
<1>5. Idle = \A c \in Callers : at[c] = 13
  BY CycleSteps DEF Idle, Finished
<1>6. SeenSoFar'
  <2>1. seen' # {} => Callers # {}
    <3>1. ~Idle => Callers # {}
      BY <1>5
    <3> QED BY <1>3, <3>1 DEF CycleInv, SeenSoFar
  <2>2. \A c \in Callers : at'[c] # 13 => killed' \in seen'
    BY <1>1, <1>4, <1>5
  <2> QED BY <2>1, <2>2 DEF SeenSoFar
<1>7. seen # {} \/ (\A c \in Callers : at[c] = 13) \/ \E c \in Callers : at[c] # 13 /\ killed \in seen
  BY DEF CycleInv, SeenSoFar
<1>8. seen' # {} => seen # {}
  BY <1>1, <1>5, <1>7
<1>9. ASSUME WeightsSoFar PROVE WeightsSoFar'
  <2>1. ASSUME NEW x, NEW m, NEW a, NEW n, WeightHolds(x, m, a, n, seen) PROVE WeightHolds(x, m, a, n, seen')
    BY <1>3, <2>1 DEF WeightHolds
  <2>2. ASSUME seen' # {}, NEW c \in Callers, NEW i \in 1 .. 9, i <= at[c], AssetOrder[i] \notin stateless
        PROVE  WeightHolds(advisories[AssetOrder[i]], market, AssetOrder[i], at[c], seen')
    <3>1. WeightHolds(advisories[AssetOrder[i]], market, AssetOrder[i], at[c], seen)
      BY <1>8, <1>9, <2>2 DEF WeightsSoFar
    <3> QED BY <2>1, <3>1
  <2> QED BY <1>1, <2>2 DEF WeightsSoFar
<1>10. VolumeSoFar'
  <2>1. VolumeStopped(volume, market.volume, seen) => VolumeStopped(volume, market.volume, seen')
    BY <1>3 DEF VolumeStopped
  <2>2. VolumeMoved(volume, market, seen) => VolumeMoved(volume, market, seen')
    BY <2>1 DEF VolumeMoved
  <2> QED BY <1>1, <1>8, <2>2 DEF CycleInv, VolumeSoFar
<1>11. StopSoFar'
  <2>1. seen' = {TRUE} => seen = {TRUE}
    BY <1>3, <1>8
  <2> QED BY <1>1, <2>1 DEF CycleInv, StopSoFar
<1> QED BY <1>2, <1>6, <1>9, <1>10, <1>11 DEF CycleInv

\* Every step keeps the invariants.
LEMMA AdvisoryKeeps ==
  ASSUME CycleInv, [AdvisoryNext]_advisoryVars
  PROVE  CycleInv' /\ (OneCaller /\ WeightsSoFar => WeightsSoFar')
<1> DEFINE Kept == CycleInv' /\ (OneCaller /\ WeightsSoFar => WeightsSoFar')
<1>1. ASSUME NEW c \in Callers, \/ StartCycle(c) \/ EvaluateVolume(c) \/ EvaluateAnomaly(c)
                                \/ EvaluateMacro(c) \/ EvaluateStabilizer(c)
                                \/ \E a \in AdvisedAssets : EvaluateAsset(c, a)
      PROVE  Kept
  BY <1>1, StartKeeps, AssetKeeps, VolumeKeeps, AnomalyKeeps, MacroKeeps, StabilizerKeeps
<1>2. ASSUME NEW m \in Markets, Sense(m) PROVE Kept
  BY <1>2, SenseKeeps
<1>3. ASSUME NEW on \in BOOLEAN, SetKillSwitch(on) PROVE Kept
  BY <1>3, SwitchKeeps
<1>4. ASSUME UNCHANGED <<market, killed, stateless, advisories, volume, stabilizer, at, seen>> PROVE Kept
  BY <1>4 DEF CycleInv, AdvisoryTypes, SeenSoFar, WeightsSoFar, VolumeSoFar, StopSoFar
<1>5. ASSUME NEW mode \in Modes, NEW q \in Quotes, Consult(mode, q) PROVE Kept
  BY <1>4, <1>5 DEF Consult
<1>6. ASSUME UNCHANGED advisoryVars PROVE Kept
  BY <1>4, <1>6 DEF advisoryVars
<1> HIDE DEF Kept
<1>7. Kept
  BY <1>1, <1>2, <1>3, <1>4, <1>5, <1>6 DEF AdvisoryNext
<1> QED BY <1>7 DEF Kept

\* The Fibonacci advisories change in Consult alone.
LEMMA SignalsKeep ==
  ASSUME CycleInv, FibSignalsAgree, [AdvisoryNext]_advisoryVars
  PROVE  FibSignalsAgree'
<1>1. CASE UNCHANGED <<fib, advised>>
  BY <1>1 DEF FibSignalsAgree
<1>2. ASSUME NEW mode \in Modes, NEW q \in Quotes, Consult(mode, q) PROVE FibSignalsAgree'
  <2> DEFINE x == evaluate_volume_state(market.volume, killed, stabilizer, market.contrarian, mode, NoFib)
             y == evaluate_volume_state(market.volume, killed, stabilizer, market.contrarian, mode, fib')
  <2>1. fib' = compute_fib_advisory(mode, q) /\ advised' = <<x, y>>
    BY <1>2 DEF Consult
  <2>2. q \in QuoteType
    BY AdvisoryAssumption
  <2>3. ~(fib'.sell /\ (fib'.buy \/ fib'.contrarian))
    BY <2>1, <2>2, SignalsAreOne
  <2>4. /\ market.volume \in VolumeType /\ market.contrarian \in BOOLEAN /\ killed \in BOOLEAN
        /\ FactorHolds(stabilizer)
    BY DEF CycleInv, AdvisoryTypes, MarketType
  <2>5. x.weight = 0 => y.weight <= 1
    BY <2>4, SignalsAddNothing
  <2> HIDE DEF x, y
  <2>6. advised'[1].weight = 0 => advised'[2].weight <= 1
    BY <2>1, <2>5
  <2> QED BY <2>3, <2>6 DEF FibSignalsAgree
<1>3. UNCHANGED <<fib, advised>> \/ \E mode \in Modes, q \in Quotes : Consult(mode, q)
  BY DEF AdvisoryNext, StartCycle, EvaluateVolume, EvaluateAnomaly, EvaluateMacro, EvaluateStabilizer,
         EvaluateAsset, Reached, Sense, SetKillSwitch, advisoryVars
<1> QED BY <1>1, <1>2, <1>3

\* A cycle that is stopped throughout recommends nothing of any asset.
StopReachesAll ==
  Idle /\ seen = {TRUE} => \A a \in AdvisedAssets \ stateless : advisories[a].weight = 0

\* What the invariant of any number of callers comes to when all are done.
LEMMA CalmAfterCycle == ASSUME CycleInv PROVE VolumeSteps /\ StopReachesAll
<1>1. Idle => \A c \in Callers : at[c] = 13
  BY CycleSteps DEF Idle, Finished
<1>2. VolumeSteps
  <2>1. ASSUME Idle, seen # {} PROVE VolumeMoved(volume, market, seen)
    <3>1. \A c \in Callers : ~(at[c] < 10)
      BY <1>1, <2>1
    <3> QED BY <2>1, <3>1 DEF CycleInv, VolumeSoFar
  <2> QED BY <2>1 DEF VolumeSteps, VolumeMoved
<1>3. StopReachesAll
  <2>1. SUFFICES ASSUME Idle, seen = {TRUE}, NEW a \in AdvisedAssets \ stateless
                 PROVE  advisories[a].weight = 0
    BY DEF StopReachesAll
  <2>2. PICK i \in 1 .. 9 : a = AssetOrder[i]
    BY AssetSteps
  <2>3. \A c \in Callers : ~(at[c] < i)
    BY <1>1, <2>1
  <2> QED BY <2>1, <2>2, <2>3 DEF CycleInv, StopSoFar
<1> QED BY <1>2, <1>3

\* And that of one.
LEMMA SettledAfterCycle == ASSUME CycleInv, WeightsSoFar PROVE WeightsScaledOnce
<1>1. SUFFICES ASSUME Idle, seen # {}, NEW a \in AdvisedAssets \ stateless
               PROVE  /\ advisories[a].weight \in {FinalWeight(a), 0}
                      /\ seen = {TRUE} => advisories[a].weight = 0
                      /\ seen = {FALSE} => advisories[a].weight = FinalWeight(a)
  BY DEF WeightsScaledOnce
<1>2. PICK c \in Callers : at[c] = 13
  BY <1>1, CycleSteps DEF CycleInv, SeenSoFar, Idle, Finished
<1>3. PICK i \in 1 .. 9 : a = AssetOrder[i]
  BY AssetSteps
<1>4. WeightHolds(advisories[a], market, a, 13, seen)
  BY <1>1, <1>2, <1>3 DEF WeightsSoFar
<1>5. WeightAfter(market, a, 13) = FinalWeight(a)
  BY DEF WeightAfter, FinalWeight, FinalOf, KeptOf, OwnOf
<1> QED BY <1>4, <1>5 DEF WeightHolds

\* The steps of any number of callers interleave on the same advisories: after the
\* cycles the volume weight has moved by 0.15 at most or was stopped, a stop that
\* lasted has left no weight to any asset, and the Fibonacci signals agree.
THEOREM RacingCallersStayCalm == AdvisorySpec => [](VolumeSteps /\ StopReachesAll /\ FibSignalsAgree)
<1> DEFINE I == CycleInv /\ FibSignalsAgree
<1>1. AdvisoryInit => I
  <2>1. AdvisoryInit => FibSignalsAgree
    BY DEF AdvisoryInit, FibSignalsAgree, NoFib
  <2> QED BY <2>1, AdvisoryStarts
<1>2. I /\ [AdvisoryNext]_advisoryVars => I'
  BY AdvisoryKeeps, SignalsKeep
<1>3. I => VolumeSteps /\ StopReachesAll /\ FibSignalsAgree
  BY CalmAfterCycle
<1> QED BY <1>1, <1>2, <1>3, PTL DEF AdvisorySpec

\* With one caller the advisories settle: besides, each weight is scaled once by each
\* layer, whatever earlier cycles left in it.  Two callers may scale it twice.
THEOREM AdvisoriesAlwaysSettle ==
  ASSUME \A c, d \in Callers : c = d
  PROVE  AdvisorySpec => []AdvisoriesSettle
<1> DEFINE I == CycleInv /\ WeightsSoFar /\ FibSignalsAgree
<1>1. OneCaller
  BY DEF OneCaller
<1>2. AdvisoryInit => I
  <2>1. AdvisoryInit => FibSignalsAgree
    BY DEF AdvisoryInit, FibSignalsAgree, NoFib
  <2> QED BY <2>1, AdvisoryStarts
<1>3. I /\ [AdvisoryNext]_advisoryVars => I'
  BY <1>1, AdvisoryKeeps, SignalsKeep
<1>4. I => AdvisoriesSettle
  BY CalmAfterCycle, SettledAfterCycle DEF AdvisoriesSettle
<1> QED BY <1>2, <1>3, <1>4, PTL DEF AdvisorySpec
=============================================================================
