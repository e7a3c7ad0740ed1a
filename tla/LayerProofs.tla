------------------------------ MODULE LayerProofs ------------------------------
(***************************************************************************)
(* Proofs about the layers between a decision and its execution: the        *)
(* unified runtime (19), for every width of the counters and every set of   *)
(* hosts; routing (9), constraints (11) and governance (10 and 12 to 14),   *)
(* for all arguments that their validation lets through.                    *)
(***************************************************************************)
EXTENDS UnifiedRuntime, GovernanceFrame, PortfolioConstraints, LiquidityRouting, FoldTheorems, TLAPS

-----------------------------------------------------------------------------
(***************************************************************************)
(* Types.                                                                   *)
(***************************************************************************)

\* The cursor a cycle moves to is a uint64.
LEMMA NextSequenceType ==
    ASSUME TypeOK PROVE NextSequence \in Index
  BY WidthAssumption DEF TypeOK, NextSequence, SequenceViolation, Later, Cycles, Index

\* The tick a cycle reads is a tick, attached clock or not.
LEMMA SyncTickType ==
    ASSUME TypeOK PROVE SyncTick \in Tick
  BY WidthAssumption DEF TypeOK, ClockTypeOK, SyncTick, EmptyTick, SoundTick, Tick, Index

\* A clock step keeps the types of the adapter.
LEMMA ClockStepType ==
    ASSUME TypeOK, ClockStep PROVE ClockTypeOK'
<1>1. ASSUME NEW index \in Index, NEW at \in Index, NEW c \in Confidences,
             IngestProtocolClock(index, at, c)
      PROVE  ClockTypeOK'
  <2>1. CASE IngestRefused(index, at)
    BY <2>1 DEF TypeOK, ClockTypeOK, Tick, IngestRefused, RefusalAt
  <2>2. CASE IngestAccepted(index, at, c)
    <3>1. tick' \in Tick
      <4>1. Degraded(index, at, Discounted(index, at, c)) \in BOOLEAN
        BY DEF Degraded
      <4> QED BY <2>2, <4>1 DEF IngestAccepted, Aligned, Tick
    <3> QED BY <2>2, <3>1 DEF IngestAccepted, ClockTypeOK
  <2> QED BY <1>1, <2>1, <2>2 DEF IngestProtocolClock
<1>2. CASE AdvanceExhausted
  BY <1>2, WidthAssumption DEF TypeOK, ClockTypeOK, Tick, Index, AdvanceExhausted, RefusalAt
<1>3. ASSUME NEW now \in Nows, AdvanceTick(now) PROVE ClockTypeOK'
  BY <1>3, RuntimeAssumption, WidthAssumption
  DEF TypeOK, ClockTypeOK, Tick, Index, AdvanceTick, Exhausted, SoundTick
<1>4. CASE ClockReset
  <2>1. ticked' \in BOOLEAN
    BY <1>4, Zenon DEF ClockReset
  <2>2. EmptyTick \in Tick
    BY WidthAssumption DEF EmptyTick, SoundTick, Tick, Index
  <2> QED BY <1>4, <2>1, <2>2, WidthAssumption DEF ClockTypeOK, Index, ClockReset
<1> QED BY <1>1, <1>2, <1>3, <1>4 DEF ClockStep

\* A frame keeps the types of the channel.
LEMMA StreamFrameType ==
    ASSUME TypeOK, NEW kill \in BOOLEAN, NEW frame \in Sequence, NEW damaged \in BOOLEAN,
           StreamFrame(kill, frame, damaged)
    PROVE  StreamTypeOK'
<1> USE StreamAssumption DEF StreamTypeOK, Sequence, Status
<1>1. CASE StreamFrameLocked(kill)
  BY <1>1 DEF TypeOK, StreamFrameLocked
<1>2. CASE StreamFrameDesynchronised(kill)
  BY <1>2 DEF TypeOK, StreamFrameDesynchronised
<1>3. CASE StreamFrameEvaluated(kill, frame, damaged)
  <2>1. ASSUME NEW n \in Nat PROVE n % (MaxSequence + 1) \in Sequence
    BY <2>1
  <2>2. Missed(frame) \in Nat
    BY DEF TypeOK, Missed
  <2>3. gaps' \in Sequence
    BY <1>3, <2>1, <2>2 DEF TypeOK, StreamFrameEvaluated, GapsAfter
  <2>4. expected' \in Sequence
    <3>1. (frame + 1) % (MaxSequence + 1) \in Sequence
      BY <2>1
    <3> QED BY <1>3, <3>1 DEF TypeOK, StreamFrameEvaluated
  <2>6. counted' \in BOOLEAN /\ clones' \in BOOLEAN
    BY <1>3, Zenon DEF TypeOK, StreamFrameEvaluated
  <2>5. channel' \in Status
    BY <1>3 DEF TypeOK, StreamFrameEvaluated, StatusAfter
  <2> QED BY <2>3, <2>4, <2>5, <2>6
<1> QED BY <1>1, <1>2, <1>3 DEF StreamFrame

\* A cycle keeps the types of the runtime.
LEMMA CycleType ==
    ASSUME TypeOK, Cycle PROVE TypeOK'
<1> USE WidthAssumption DEF SystemStatus, Resiliency
<1>1. UNCHANGED <<setup, clockVars, streamVars, broken>>
  BY DEF Cycle
<1>2. ClockTypeOK' /\ StreamTypeOK' /\ setup' \in Setup /\ broken' \in BOOLEAN
  BY <1>1 DEF TypeOK, ClockTypeOK, StreamTypeOK, clockVars, streamVars
<1>3. ASSUME NEW now \in Nows, MoveCursor(now)
      PROVE  sequence' \in Index /\ time' \in Index
  BY <1>3, NextSequenceType, SyncTickType, RuntimeAssumption DEF MoveCursor, Tick, Index
<1>4. ASSUME CountCycle PROVE total' \in Index
  BY <1>4 DEF CountCycle, TypeOK, Index
<1>5. ASSUME NEW anomaly \in Anomaly, NEW kill \in BOOLEAN, NEW now \in Nows,
             FailClosed(anomaly, kill, now)
      PROVE  TypeOK'
  BY <1>2, <1>3, <1>4, <1>5 DEF FailClosed, TypeOK
<1>6. ASSUME NEW anomaly \in Anomaly, NEW now \in Nows, NEW pressure \in Stress,
             NEW metaReady \in BOOLEAN, NEW muted \in BOOLEAN,
             Weigh(anomaly, pressure, metaReady, muted, now)
      PROVE  TypeOK'
  <2>1. sequence' \in Index /\ time' \in Index /\ total' \in Index
    BY <1>3, <1>4, <1>6 DEF Weigh
  <2>2. status' \in SystemStatus
    BY <1>6 DEF Weigh, StatusOfEvidence, TypeOK
  <2>3. mode' \in Resiliency
    BY <1>6 DEF Weigh, TypeOK
  <2>4. ready' \in BOOLEAN /\ escalated' \in BOOLEAN
    BY <1>6 DEF Weigh, TypeOK
  <2>5. permitted' \in BOOLEAN /\ frozen' \in BOOLEAN
    BY <1>6 DEF Weigh
  <2>6. spent' \subseteq Index /\ latched' \in BOOLEAN
    BY <1>6, SyncTickType DEF Weigh, TypeOK, Tick
  <2> QED BY <1>2, <2>1, <2>2, <2>3, <2>4, <2>5, <2>6 DEF TypeOK
<1> QED BY <1>5, <1>6 DEF Cycle

\* Every step keeps the types.
LEMMA NextType ==
    ASSUME TypeOK, [Next]_vars PROVE TypeOK'
<1>1. CASE Cycle
  BY <1>1, CycleType
<1>2. CASE ClockStep
  BY <1>2, ClockStepType DEF TypeOK, ClockStep, StreamTypeOK, streamVars,
       runtimeVars, stateVars, auxVars
<1>3. CASE StreamStep
  <2>1. StreamTypeOK'
    BY <1>3, StreamFrameType DEF StreamStep
  <2>2. broken' \in BOOLEAN
    BY <1>3 DEF StreamStep
  <2> QED BY <1>3, <2>1, <2>2 DEF TypeOK, StreamStep, ClockTypeOK, clockVars,
            runtimeVars, stateVars
<1>4. CASE ClonesStep
  BY <1>4 DEF TypeOK, ClonesStep, ReportClones, StreamTypeOK, ClockTypeOK, clockVars,
       runtimeVars, stateVars, auxVars
<1>5. CASE Reset
  <2>1. ClockTypeOK' /\ StreamTypeOK' /\ setup' \in Setup
    BY <1>5 DEF TypeOK, Reset, StreamTypeOK, ClockTypeOK, clockVars, streamVars
  <2>2. /\ ready' \in BOOLEAN /\ escalated' \in BOOLEAN /\ permitted' \in BOOLEAN
        /\ frozen' \in BOOLEAN /\ latched' \in BOOLEAN /\ broken' \in BOOLEAN
    BY <1>5, Zenon DEF TypeOK, Reset
  <2>3. sequence' \in Index /\ time' \in Index /\ total' \in Index /\ spent' \subseteq Index
    BY <1>5, WidthAssumption DEF Reset, Index
  <2>4. status' \in SystemStatus /\ mode' \in Resiliency
    BY <1>5 DEF Reset, SystemStatus, Resiliency
  <2> QED BY <2>1, <2>2, <2>3, <2>4 DEF TypeOK
<1>6. CASE UNCHANGED vars
  BY <1>6 DEF TypeOK, StreamTypeOK, ClockTypeOK, vars, clockVars, streamVars,
       runtimeVars, stateVars, auxVars
<1> QED BY <1>1, <1>2, <1>3, <1>4, <1>5, <1>6 DEF Next

\* The engine starts within its types.
LEMMA InitType ==
    ASSUME Init PROVE TypeOK
<1>1. ClockTypeOK
  <2>1. ticked \in BOOLEAN
    BY Zenon DEF Init, ClockInit
  <2>2. EmptyTick \in Tick
    BY WidthAssumption DEF EmptyTick, SoundTick, Tick, Index
  <2> QED BY <2>1, <2>2, WidthAssumption DEF Init, ClockInit, ClockTypeOK, Index
<1>2. StreamTypeOK
  <2>1. counted \in BOOLEAN /\ clones \in BOOLEAN
    BY Zenon DEF Init, StreamInit
  <2> QED BY <2>1, StreamAssumption DEF Init, StreamInit, StreamTypeOK, Sequence, Status
<1>3. setup \in Setup
  BY RuntimeAssumption DEF Init
<1>4. /\ ready \in BOOLEAN /\ escalated \in BOOLEAN /\ permitted \in BOOLEAN
      /\ frozen \in BOOLEAN /\ latched \in BOOLEAN /\ broken \in BOOLEAN
  BY Zenon DEF Init, RuntimeInit
<1>5. sequence \in Index /\ time \in Index /\ total \in Index /\ spent \subseteq Index
  BY WidthAssumption DEF Init, RuntimeInit, Index
<1>6. status \in SystemStatus /\ mode \in Resiliency
  BY DEF Init, RuntimeInit, SystemStatus, Resiliency
<1> QED
  BY <1>1, <1>2, <1>3, <1>4, <1>5, <1>6 DEF TypeOK

\* Clock, stream and runtime stay within their types.
THEOREM RuntimeTypes == Spec => []TypeOK
<1>1. Init => TypeOK
  BY InitType
<1>2. TypeOK /\ [Next]_vars => TypeOK'
  BY NextType
<1> QED BY <1>1, <1>2, PTL DEF Spec

-----------------------------------------------------------------------------
(***************************************************************************)
(* What a fault, the cursor and the stream leave behind.                    *)
(***************************************************************************)

\* Readiness, once taken, has nobody to give it back.
Latch == ~setup.meta /\ latched => ~ready /\ ~permitted

\* The cursor is at or beyond every tick that was spent.
CursorCovers ==
    setup.metrics /\ ~latched =>
        /\ total = 0 => sequence = 0 /\ spent = {}
        /\ \A i \in spent : i # 0 /\ i <= sequence

\* The channel does not forget what it saw.
Scarred == broken => setup.stream /\ channel # "healthy"

IInv == TypeOK /\ Latch /\ CursorCovers /\ Scarred

\* A cycle that weighs its evidence after the first one moves the cursor forward
\* and stands on a new tick.
LEMMA FreshEvidence ==
    ASSUME TypeOK, CursorCovers, setup.metrics, ~latched, ~SequenceViolation,
           NEW now \in Nows, MoveCursor(now)
    PROVE  /\ sequence' > sequence
           /\ total > 0 /\ SyncTick.index > 0 => SyncTick.index > sequence
<1>1. SyncTick.index \in Nat /\ sequence \in Nat /\ total \in Nat /\ Cycles = total
  BY SyncTickType, WidthAssumption DEF TypeOK, Tick, Index, Cycles
<1>2. total > 0 /\ SyncTick.index > 0 => SyncTick.index > sequence
  BY <1>1 DEF SequenceViolation, ReplayedTick
<1>3. NextSequence > sequence
  BY <1>1 DEF NextSequence, Later
<1>4. CASE SyncTick.index > 0
  BY <1>1, <1>2, <1>4 DEF MoveCursor, CursorCovers
<1>5. CASE ~(SyncTick.index > 0)
  BY <1>1, <1>3, <1>5 DEF MoveCursor
<1> QED BY <1>2, <1>4, <1>5

\* The counter of cycles moves only where metrics are attached.
LEMMA CountingNeedsMetrics ==
    ASSUME TypeOK, CountCycle
    PROVE  /\ total' > total => setup.metrics
           /\ setup.metrics => total' > 0
           /\ total' >= total
  BY WidthAssumption DEF TypeOK, CountCycle, Index

\* A cycle keeps the invariant.
LEMMA CycleInv ==
    ASSUME IInv, Cycle PROVE Latch' /\ CursorCovers' /\ Scarred'
<1>1. UNCHANGED <<setup, channel, broken>>
  BY DEF Cycle, streamVars
<1>2. Scarred'
  BY <1>1 DEF IInv, Scarred
<1>3. ASSUME NEW anomaly \in Anomaly, NEW kill \in BOOLEAN, NEW now \in Nows,
             FailClosed(anomaly, kill, now)
      PROVE  Latch' /\ CursorCovers'
  BY <1>3, Zenon DEF FailClosed, Latch, CursorCovers
<1>4. ASSUME NEW anomaly \in Anomaly, NEW now \in Nows, NEW pressure \in Stress,
             NEW metaReady \in BOOLEAN, NEW muted \in BOOLEAN,
             Weigh(anomaly, pressure, metaReady, muted, now)
      PROVE  Latch' /\ CursorCovers'
  <2>1. Latch'
    <3> SUFFICES ASSUME ~setup.meta, latched PROVE ~ready' /\ ~permitted'
      BY <1>1, <1>4, Zenon DEF Latch, Weigh
    <3>1. ~ready
      BY Zenon DEF IInv, Latch
    <3>2. ~ready'
      BY <1>4, <3>1, Zenon DEF Weigh
    <3> QED BY <1>4, <3>2, Zenon DEF Weigh
  <2>2. CursorCovers'
    <3> SUFFICES ASSUME setup.metrics, ~latched
                 PROVE  total' > 0 /\ \A i \in spent' : i # 0 /\ i <= sequence'
      <4>1. setup'.metrics = setup.metrics /\ latched' = latched
        BY <1>1, <1>4 DEF Weigh
      <4> QED BY <4>1 DEF CursorCovers
    <3>1. total' > 0
      BY <1>4, CountingNeedsMetrics DEF Weigh, IInv
    <3>2. ~SequenceViolation /\ MoveCursor(now)
      BY <1>4 DEF Weigh, MustLock
    <3>3. sequence' > sequence
      BY <3>2, FreshEvidence DEF IInv
    <3>4. ASSUME NEW i \in spent PROVE i # 0 /\ i <= sequence'
      BY <3>3, <3>4, NextType, WidthAssumption DEF IInv, CursorCovers, TypeOK, Index, Next
    <3>5. SyncTick.index > 0 => SyncTick.index <= sequence'
      BY <3>2, SyncTickType, WidthAssumption DEF MoveCursor, Tick, Index, IInv
    <3>6. \A i \in spent' : i \in spent \/ (i = SyncTick.index /\ i # 0)
      BY <1>4 DEF Weigh
    <3>7. SyncTick.index \in Nat
      BY SyncTickType DEF IInv, Tick, Index
    <3> QED BY <3>1, <3>4, <3>5, <3>6, <3>7
  <2> QED BY <2>1, <2>2
<1> QED BY <1>2, <1>3, <1>4 DEF Cycle

\* A frame that breaks the sequence leaves a mark no later frame removes.
LEMMA StreamInv ==
    ASSUME IInv, StreamStep PROVE Scarred'
<1> setup'.stream /\ channel' # "healthy" <=> channel' # "healthy"
  BY DEF StreamStep, runtimeVars
<1>1. PICK kill \in BOOLEAN, damaged \in BOOLEAN, frame \in Sequence :
          /\ StreamFrame(kill, frame, damaged)
          /\ broken' = (broken \/ (~kill /\ (clones \/ damaged \/ Missed(frame) > 0
                                             \/ OutOfOrder(frame))))
  BY DEF StreamStep
<1>2. CASE StreamFrameLocked(kill)
  BY <1>2 DEF StreamFrameLocked, Scarred
<1>3. CASE StreamFrameDesynchronised(kill)
  BY <1>3 DEF StreamFrameDesynchronised, Scarred
<1>4. CASE StreamFrameEvaluated(kill, frame, damaged)
  <2>1. broken' => channel # "healthy" \/ damaged \/ Missed(frame) > 0 \/ OutOfOrder(frame)
    BY <1>1, <1>4 DEF StreamFrameEvaluated, IInv, Scarred
  <2>2. channel # "healthy" \/ damaged \/ Missed(frame) > 0 \/ OutOfOrder(frame)
          => channel' # "healthy"
    BY <1>4 DEF StreamFrameEvaluated, StatusAfter
  <2> QED BY <2>1, <2>2 DEF Scarred
<1> QED BY <1>1, <1>2, <1>3, <1>4 DEF StreamFrame

\* The invariant is inductive.
LEMMA Inductive ==
    ASSUME IInv, [Next]_vars PROVE IInv'
<1>1. TypeOK'
  BY NextType DEF IInv
<1>2. CASE Cycle
  BY <1>1, <1>2, CycleInv DEF IInv
<1>3. CASE StreamStep
  <2>1. Latch' /\ CursorCovers'
    BY <1>3, Zenon DEF IInv, Latch, CursorCovers, StreamStep, runtimeVars, stateVars
  <2> QED BY <1>1, <1>3, <2>1, StreamInv DEF IInv
<1>4. CASE ClockStep
  <2>1. UNCHANGED <<setup, latched, ready, permitted, total, sequence, spent, broken, channel>>
    BY <1>4 DEF ClockStep, runtimeVars, stateVars, auxVars, streamVars
  <2> QED BY <1>1, <2>1, Zenon DEF IInv, Latch, CursorCovers, Scarred
<1>5. CASE ClonesStep
  <2>1. UNCHANGED <<setup, latched, ready, permitted, total, sequence, spent, broken, channel>>
    BY <1>5 DEF ClonesStep, ReportClones, runtimeVars, stateVars, auxVars
  <2> QED BY <1>1, <2>1, Zenon DEF IInv, Latch, CursorCovers, Scarred
<1>6. CASE Reset
  <2>1. Latch'
    BY <1>6, Zenon DEF Reset, Latch
  <2>2. CursorCovers'
    BY <1>6, Zenon DEF Reset, CursorCovers
  <2>3. Scarred'
    BY <1>6 DEF IInv, Reset, Scarred, streamVars
  <2> QED BY <1>1, <2>1, <2>2, <2>3 DEF IInv
<1>7. CASE UNCHANGED vars
  <2>1. UNCHANGED <<setup, latched, ready, permitted, total, sequence, spent, broken, channel>>
    BY <1>7 DEF vars, runtimeVars, stateVars, auxVars, streamVars
  <2> QED BY <1>1, <2>1, Zenon DEF IInv, Latch, CursorCovers, Scarred
<1> QED BY <1>2, <1>3, <1>4, <1>5, <1>6, <1>7 DEF Next

\* The invariant holds before the first call.
LEMMA InitInv ==
    ASSUME Init PROVE IInv
<1>1. Latch /\ CursorCovers /\ Scarred
  BY Zenon DEF Init, RuntimeInit, Latch, CursorCovers, Scarred
<1> QED BY <1>1, InitType DEF IInv

\* Every reachable state satisfies the invariant.
THEOREM RuntimeInvariant == Spec => []IInv
<1>1. Init => IInv
  BY InitInv
<1>2. IInv /\ [Next]_vars => IInv'
  BY Inductive
<1> QED BY <1>1, <1>2, PTL DEF Spec

\* Where no meta-governance state is attached, a replay, a kill switch or
\* invalid evidence denies every cycle until the explicit reset.
THEOREM LatchHolds == Spec => []LockLatches
<1>1. IInv => LockLatches
  BY Zenon DEF IInv, Latch, LockLatches, FaultsLatch
<1> QED BY <1>1, RuntimeInvariant, PTL

\* A step that counts a cycle is a cycle.
LEMMA CountedIsCycle ==
    ASSUME TypeOK, [Next]_vars, CycleRan
    PROVE  Cycle
<1>1. total \in Nat
  BY DEF TypeOK, Index
<1>2. ~(UNCHANGED total)
  BY <1>1 DEF CycleRan
<1>3. ~ClockStep /\ ~StreamStep /\ ~ClonesStep /\ ~UNCHANGED vars
  BY <1>2, Zenon DEF ClockStep, StreamStep, ClonesStep, vars, runtimeVars, stateVars
<1>4. ~Reset
  BY <1>1 DEF Reset, CycleRan
<1> QED BY <1>3, <1>4 DEF Next

\* A counted cycle that does not latch weighed fresh evidence.
LEMMA CountedCycle ==
    ASSUME IInv, [Next]_vars, CycleRan, ~latched'
    PROVE  /\ sequence' > sequence
           /\ total > 0 /\ SyncTick.index > 0 => SyncTick.index > sequence
<1>1. PICK anomaly \in Anomaly, now \in Nows :
          \/ \E kill \in BOOLEAN : FailClosed(anomaly, kill, now)
          \/ \E pressure \in Stress, metaReady, muted \in BOOLEAN :
                Weigh(anomaly, pressure, metaReady, muted, now)
  BY CountedIsCycle DEF IInv, Cycle
<1>2. PICK pressure \in Stress, metaReady \in BOOLEAN, muted \in BOOLEAN :
          Weigh(anomaly, pressure, metaReady, muted, now)
  BY <1>1 DEF FailClosed
<1>3. ~SequenceViolation /\ MoveCursor(now) /\ CountCycle /\ ~latched
  BY <1>2 DEF Weigh, MustLock
<1>4. setup.metrics
  BY <1>3, CountingNeedsMetrics DEF IInv, CycleRan
<1> QED BY <1>3, <1>4, FreshEvidence DEF IInv

\* The cursor moves strictly forward as long as nothing has latched.
THEOREM CursorHolds == Spec => CursorAdvances
<1>1. IInv /\ [Next]_vars => [CycleRan /\ ~latched' => sequence' > sequence]_vars
  BY CountedCycle
<1> QED BY <1>1, RuntimeInvariant, PTL DEF Spec, CursorAdvances

\* No tick authorizes two decisions until a fault latches, and none does until
\* the reset where no meta-governance state is attached.
THEOREM TicksSpentOnce == Spec => NoTickSpentTwice
<1>1. ASSUME IInv, IInv', [Next]_vars, CycleRan, permitted', ~(setup.meta /\ latched)
      PROVE  SyncTick.index \notin spent
  <2>1. Cycle
    BY <1>1, CountedIsCycle DEF IInv
  <2>2. PICK anomaly \in Anomaly, now \in Nows :
            \/ \E kill \in BOOLEAN : FailClosed(anomaly, kill, now)
            \/ \E pressure \in Stress, metaReady, muted \in BOOLEAN :
                  Weigh(anomaly, pressure, metaReady, muted, now)
    BY <2>1 DEF Cycle
  <2>5. PICK pressure \in Stress, metaReady \in BOOLEAN, muted \in BOOLEAN :
            Weigh(anomaly, pressure, metaReady, muted, now)
    BY <1>1, <2>2, Zenon DEF FailClosed
  <2>6. latched' = latched /\ setup' = setup
    BY <2>1, <2>5 DEF Cycle, Weigh
  <2>3. ~latched'
    <3>1. latched => setup'.meta
      BY <1>1, <2>6, Zenon DEF IInv, Latch
    <3>2. setup'.meta = setup.meta
      BY <2>6
    <3> QED BY <1>1, <2>6, <3>1, <3>2, Zenon
  <2>4. total > 0 /\ SyncTick.index > 0 => SyncTick.index > sequence
    BY <1>1, <2>3, CountedCycle
  <2>7. setup.metrics /\ ~latched
    BY <1>1, <2>3, <2>5, <2>6, CountingNeedsMetrics DEF IInv, CycleRan, Weigh
  <2>8. (total = 0 => spent = {}) /\ \A i \in spent : i # 0 /\ i <= sequence
    BY <1>1, <2>7 DEF IInv, CursorCovers
  <2>9. SyncTick.index \in Nat /\ sequence \in Nat /\ total \in Nat
    BY <1>1, SyncTickType DEF IInv, TypeOK, Tick, Index
  <2> QED BY <2>4, <2>8, <2>9
<1>2. IInv /\ IInv' /\ [Next]_vars
        => [CycleRan /\ permitted' /\ ~(setup.meta /\ latched)
              => SyncTick.index \notin spent]_vars
  BY <1>1
<1> QED BY <1>2, RuntimeInvariant, PTL DEF Spec, NoTickSpentTwice

\* A fault of the stream denies and freezes every later cycle where faults are
\* escalated or a pressure state is attached.
THEOREM StreamFaultHolds == Spec => StreamFaultFreezes
<1>1. ASSUME IInv, [Next]_vars, CycleRan, broken, setup.escalate \/ setup.stress
      PROVE  ~permitted' /\ frozen'
  <2>1. PICK anomaly \in Anomaly, now \in Nows :
            \/ \E kill \in BOOLEAN : FailClosed(anomaly, kill, now)
            \/ \E pressure \in Stress, metaReady, muted \in BOOLEAN :
                  Weigh(anomaly, pressure, metaReady, muted, now)
    BY <1>1, CountedIsCycle DEF IInv, Cycle
  <2>2. ASSUME NEW kill \in BOOLEAN, FailClosed(anomaly, kill, now)
        PROVE  ~permitted' /\ frozen'
    BY <2>2, Zenon DEF FailClosed
  <2>3. ASSUME NEW pressure \in Stress, NEW metaReady \in BOOLEAN, NEW muted \in BOOLEAN,
               Weigh(anomaly, pressure, metaReady, muted, now)
        PROVE  ~permitted' /\ frozen'
    <3>1. channel # "healthy" /\ setup.stream
      BY <1>1 DEF IInv, Scarred
    <3>2. StatusAfter(expected, FALSE) # "healthy"
      BY <3>1 DEF StatusAfter
    <3>3. StreamFault(FALSE)
      BY <3>1, <3>2, Zenon DEF StreamFault, PollDegraded
    <3>4. Crisis(anomaly, pressure, FALSE)
      BY <1>1, <3>3, Zenon DEF Crisis, StressLevel
    <3> QED BY <2>3, <3>4, Zenon DEF Weigh
  <2> QED BY <2>1, <2>2, <2>3
<1>2. IInv /\ [Next]_vars
        => [CycleRan /\ broken /\ (setup.escalate \/ setup.stress)
              => ~permitted' /\ frozen']_vars
  BY <1>1
<1> QED BY <1>2, RuntimeInvariant, PTL DEF Spec, StreamFaultFreezes

-----------------------------------------------------------------------------
(* The arithmetic of the layers.                                            *)

\* Of two numbers.
LEMMA OfTwo ==
  ASSUME NEW x \in Int, NEW y \in Int
  PROVE  /\ Max({x, y}) = IF x >= y THEN x ELSE y
         /\ Min({x, y}) = IF x <= y THEN x ELSE y
<1>1. Max({x, y}) = IF x >= y THEN x ELSE y
  <2> DEFINE m == IF x >= y THEN x ELSE y
  <2>1. m \in {x, y} /\ \A z \in {x, y} : m >= z
    OBVIOUS
  <2>2. \A k \in {x, y} : (\A z \in {x, y} : k >= z) => k = m
    OBVIOUS
  <2> HIDE DEF m
  <2>3. Max({x, y}) = m
    BY <2>1, <2>2 DEF Max
  <2> QED BY <2>3 DEF m
<1>2. Min({x, y}) = IF x <= y THEN x ELSE y
  <2> DEFINE m == IF x <= y THEN x ELSE y
  <2>1. m \in {x, y} /\ \A z \in {x, y} : m <= z
    OBVIOUS
  <2>2. \A k \in {x, y} : (\A z \in {x, y} : k <= z) => k = m
    OBVIOUS
  <2> HIDE DEF m
  <2>3. Min({x, y}) = m
    BY <2>1, <2>2 DEF Min
  <2> QED BY <2>3 DEF m
<1> QED BY <1>1, <1>2

\* A share of a natural number, rounded down.
LEMMA ShareOf ==
  ASSUME NEW n \in Nat, NEW r \in 0..100
  PROVE  (n * r) \div 100 \in Nat /\ (n * r) \div 100 <= n
<1>1. n * r \in Nat /\ n * r <= n * 100
  OBVIOUS
<1> DEFINE p == n * r
<1> HIDE DEF p
<1>2. p \div 100 \in Nat /\ p \div 100 <= n
  BY <1>1 DEF p
<1> QED BY <1>2 DEF p

\* Of a larger number it is no less.
LEMMA ShareGrows ==
  ASSUME NEW n \in Nat, NEW m \in Nat, n <= m, NEW r \in 0..100
  PROVE  (n * r) \div 100 <= (m * r) \div 100
<1>1. n * r \in Nat /\ m * r \in Nat /\ n * r <= m * r
  OBVIOUS
<1> DEFINE p == n * r
           q == m * r
<1> HIDE DEF p, q
<1>2. p \div 100 <= q \div 100
  BY <1>1 DEF p, q
<1> QED BY <1>2 DEF p, q

\* What scaling toward zero does to a number.
LEMMA ScaledDown ==
  ASSUME NEW n \in Int, NEW r \in 0..100
  PROVE  /\ Times(n, r) \in Int /\ Abs(Times(n, r)) <= Abs(n)
         /\ n >= 0 => Times(n, r) = (n * r) \div 100
         /\ n < 0 => Times(n, r) = -(((-n) * r) \div 100)
<1> DEFINE s == (Abs(n) * r) \div 100
<1>1. Abs(n) \in Nat
  BY DEF Abs
<1>2. s \in Nat /\ s <= Abs(n)
  BY <1>1, ShareOf
<1>3. Times(n, r) = Sign(n) * s
  BY DEF Times
<1>4. (n >= 0 => s = (n * r) \div 100) /\ (n < 0 => s = ((-n) * r) \div 100)
  BY DEF Abs
<1> HIDE DEF s
<1>5. Sign(n) * s = IF n < 0 THEN -s ELSE s
  BY <1>2 DEF Sign
<1> QED BY <1>2, <1>3, <1>4, <1>5 DEF Abs

\* Scaling keeps the order of numbers.
LEMMA ScalingGrows ==
  ASSUME NEW n \in Int, NEW m \in Int, n <= m, NEW r \in 0..100
  PROVE  Times(n, r) <= Times(m, r)
<1>1. CASE n >= 0
  <2>0. n \in Nat /\ m \in Nat /\ n >= 0 /\ m >= 0
    BY <1>1
  <2>1. (n * r) \div 100 <= (m * r) \div 100
    BY <2>0, ShareGrows, Zenon
  <2>2. Times(n, r) = (n * r) \div 100 /\ Times(m, r) = (m * r) \div 100
    BY <2>0, ScaledDown, Zenon
  <2> QED BY <2>1, <2>2
<1>2. CASE n < 0 /\ m >= 0
  <2>1. ((-n) * r) \div 100 \in Nat /\ (m * r) \div 100 \in Nat
    BY <1>2, ShareOf
  <2>2. Times(n, r) = -(((-n) * r) \div 100) /\ Times(m, r) = (m * r) \div 100
    BY <1>2, ScaledDown
  <2> DEFINE x == ((-n) * r) \div 100
             y == (m * r) \div 100
  <2> HIDE DEF x, y
  <2>3. -x <= y
    BY <2>1 DEF x, y
  <2> QED BY <2>2, <2>3 DEF x, y
<1>3. CASE m < 0
  <2>0. n < 0 /\ m < 0
    BY <1>3
  <2>1. ((-m) * r) \div 100 <= ((-n) * r) \div 100
        /\ ((-m) * r) \div 100 \in Nat /\ ((-n) * r) \div 100 \in Nat
    BY <1>3, ShareGrows, ShareOf
  <2>2. Times(n, r) = -(((-n) * r) \div 100) /\ Times(m, r) = -(((-m) * r) \div 100)
    BY <2>0, ScaledDown, Zenon
  <2> DEFINE x == ((-n) * r) \div 100
             y == ((-m) * r) \div 100
  <2> HIDE DEF x, y
  <2>3. -x <= -y
    BY <2>1 DEF x, y
  <2> QED BY <2>2, <2>3 DEF x, y
<1> QED BY <1>1, <1>2, <1>3

-----------------------------------------------------------------------------
(* Layer 10.                                                                *)

\* The last proposal of a governor is one of the proposals.
LEMMA FinalIsProposed ==
  ASSUME NEW props \in Seq(ProposalType), NEW type, Says(props, type)
  PROVE  Final(props, type) \in ProposalType
<1>1. Of(props, type) \in SUBSET (1..Len(props)) /\ Of(props, type) # {} /\ Len(props) \in Nat
  BY DEF Says, Of
<1>2. Max(Of(props, type)) \in Of(props, type)
  BY <1>1, GreatestMember
<1> QED BY <1>1, <1>2 DEF Final

Result == [value : Int, based : BOOLEAN, type : Governors]

\* What the three bounding governors ask of a value.
Obeys(props, v) ==
  /\ Says(props, "COMPLIANCE") /\ Final(props, "COMPLIANCE").flagged => v = 0
  /\ Says(props, "RISK") /\ Final(props, "RISK").severe => Abs(v) <= Abs(Final(props, "RISK").value)
  /\ Says(props, "LIQUIDITY") /\ Final(props, "LIQUIDITY").value >= 0
       => Abs(v) <= Final(props, "LIQUIDITY").value

\* The base value, and then the liquidity limit.
LEMMA LiquidityBounds ==
  ASSUME NEW props \in Seq(ProposalType)
  PROVE  LET l == AfterLiquidity(props, BaseValue(props))
         IN  /\ l \in Result
             /\ Says(props, "LIQUIDITY") => l.based
             /\ Says(props, "LIQUIDITY") /\ Final(props, "LIQUIDITY").value >= 0
                  => Abs(l.value) <= Final(props, "LIQUIDITY").value
<1> DEFINE b == BaseValue(props)
           limit == Final(props, "LIQUIDITY").value
           l == AfterLiquidity(props, b)
<1>1. b \in Result
  <2>1. \A type : Says(props, type) => Final(props, type).value \in Int
    BY FinalIsProposed DEF ProposalType
  <2>2. CASE Says(props, "RETURN")
    BY <2>1, <2>2 DEF BaseValue, Result, Governors
  <2>3. CASE ~Says(props, "RETURN") /\ Says(props, "STRATEGY")
    BY <2>1, <2>3 DEF BaseValue, Result, Governors
  <2>4. CASE ~Says(props, "RETURN") /\ ~Says(props, "STRATEGY")
    BY <2>4 DEF BaseValue, Result, Governors
  <2> QED BY <2>2, <2>3, <2>4
<1>2. Says(props, "LIQUIDITY") => limit \in Int
  BY FinalIsProposed DEF ProposalType
<1> HIDE DEF b, limit
<1>3. CASE ~Says(props, "LIQUIDITY")
  <2>1. l = b
    BY <1>3 DEF AfterLiquidity
  <2> QED BY <1>1, <1>3, <2>1 DEF b
<1>4. CASE Says(props, "LIQUIDITY") /\ ~b.based
  <2>1. l = [value |-> limit, based |-> TRUE, type |-> "LIQUIDITY"]
    BY <1>4 DEF AfterLiquidity, limit
  <2> QED BY <1>2, <1>4, <2>1 DEF Result, Governors, Abs, b, limit
<1>5. CASE Says(props, "LIQUIDITY") /\ b.based
  <2> DEFINE v == IF Abs(b.value) > limit THEN Sign(b.value) * limit ELSE b.value
  <2>1. l = [b EXCEPT !.value = v]
    BY <1>5 DEF AfterLiquidity, limit
  <2>2. Sign(b.value) * limit = IF b.value < 0 THEN -limit ELSE limit
    BY <1>2, <1>5 DEF Sign
  <2>3. v \in Int /\ (limit >= 0 => Abs(v) <= limit)
    BY <1>1, <1>2, <1>5, <2>2 DEF Abs, Result
  <2> HIDE DEF v
  <2>4. l \in Result /\ l.value = v /\ l.based = b.based
    BY <1>1, <2>1, <2>3 DEF Result
  <2> HIDE DEF l
  <2>5. l \in Result /\ l.based /\ (limit >= 0 => Abs(l.value) <= limit)
    BY <1>5, <2>3, <2>4
  <2> QED BY <2>5 DEF l, b, limit
<1> QED BY <1>3, <1>4, <1>5

\* The risk governor and compliance come after it and keep its limit.
LEMMA ReconciledObeys ==
  ASSUME NEW props \in Seq(ProposalType)
  PROVE  Reconciled(props).value \in Int /\ Obeys(props, Reconciled(props).value)
<1> DEFINE l == AfterLiquidity(props, BaseValue(props))
           k == AfterRisk(props, l)
           c == AfterCompliance(props, k)
           limit == Final(props, "LIQUIDITY").value
           risk == Final(props, "RISK")
<1>1. /\ l \in Result /\ (Says(props, "LIQUIDITY") => l.based)
      /\ Says(props, "LIQUIDITY") /\ limit >= 0 => Abs(l.value) <= limit
  BY LiquidityBounds
<1>2. /\ Says(props, "RISK") => risk \in ProposalType
      /\ Says(props, "LIQUIDITY") => limit \in Int
  BY FinalIsProposed DEF ProposalType
<1> HIDE DEF l, limit
<1>3. k \in Result
      /\ (Says(props, "RISK") /\ risk.severe => Abs(k.value) <= Abs(risk.value))
      /\ (Says(props, "LIQUIDITY") /\ limit >= 0 => Abs(k.value) <= limit)
  <2>1. CASE ~Says(props, "RISK")
    <3>1. k = l
      BY <2>1 DEF AfterRisk
    <3> QED BY <1>1, <2>1, <3>1
  <2>2. CASE Says(props, "RISK") /\ risk.severe /\ ~l.based
    <3>1. k = [value |-> risk.value, based |-> TRUE, type |-> "RISK"]
      BY <2>2 DEF AfterRisk
    <3>2. risk.value \in Int
      BY <1>2, <2>2 DEF ProposalType
    <3>3. ~Says(props, "LIQUIDITY")
      BY <1>1, <2>2
    <3>4. Abs(risk.value) <= Abs(risk.value)
      BY <3>2 DEF Abs
    <3> QED BY <3>1, <3>2, <3>3, <3>4 DEF Result, Governors
  <2>3. CASE Says(props, "RISK") /\ ~(risk.severe /\ ~l.based)
             /\ (risk.severe \/ risk.flagged) /\ Abs(l.value) > Abs(risk.value)
    <3> DEFINE t == IF risk.severe THEN "RISK" ELSE l.type
    <3>1. k = [l EXCEPT !.value = risk.value, !.type = t]
      BY <2>3 DEF AfterRisk
    <3>2. risk.value \in Int /\ t \in Governors
      BY <1>1, <1>2, <2>3 DEF ProposalType, Result, Governors
    <3> HIDE DEF t
    <3>3. k \in Result /\ k.value = risk.value
      BY <1>1, <3>1, <3>2 DEF Result
    <3> HIDE DEF k
    <3>4. l.value \in Int
      BY <1>1 DEF Result
    <3>5. Abs(k.value) = Abs(risk.value) /\ Abs(risk.value) \in Int /\ Abs(l.value) \in Int
      BY <3>2, <3>3, <3>4 DEF Abs
    <3> QED BY <1>1, <1>2, <2>3, <3>3, <3>5
  <2>4. CASE Says(props, "RISK") /\ ~(risk.severe /\ ~l.based)
             /\ ~((risk.severe \/ risk.flagged) /\ Abs(l.value) > Abs(risk.value))
    <3>1. k = l
      BY <2>4 DEF AfterRisk
    <3>2. risk.value \in Int /\ l.value \in Int
      BY <1>1, <1>2, <2>4 DEF ProposalType, Result
    <3> HIDE DEF k
    <3>3. Abs(risk.value) \in Int /\ Abs(l.value) \in Int
      BY <3>2 DEF Abs
    <3> QED BY <1>1, <2>4, <3>1, <3>3
  <2> QED BY <2>1, <2>2, <2>3, <2>4
<1> HIDE DEF k
<1>4. CASE Says(props, "COMPLIANCE") /\ Final(props, "COMPLIANCE").flagged
  <2>1. c = [k EXCEPT !.value = 0, !.type = "COMPLIANCE"]
    BY <1>4 DEF AfterCompliance
  <2>2. c.value = 0
    BY <1>3, <2>1 DEF Result
  <2>3. /\ Says(props, "RISK") => Abs(0) <= Abs(risk.value)
        /\ Says(props, "LIQUIDITY") /\ limit >= 0 => Abs(0) <= limit
    BY <1>2 DEF Abs, ProposalType
  <2>4. Reconciled(props) = c
    BY DEF Reconciled, k, l
  <2> HIDE DEF c
  <2> QED BY <2>2, <2>3, <2>4 DEF Obeys, limit
<1>5. CASE ~(Says(props, "COMPLIANCE") /\ Final(props, "COMPLIANCE").flagged)
  <2>1. Reconciled(props) = k
    BY <1>5 DEF Reconciled, AfterCompliance, k, l
  <2> QED BY <1>3, <1>5, <2>1 DEF Obeys, Result, limit
<1> QED BY <1>4, <1>5

\* Damping moves a value toward zero, which no governor minds.
LEMMA DampingObeys ==
  ASSUME NEW props \in Seq(ProposalType), NEW v \in Damped(Reconciled(props).value)
  PROVE  v \in Int /\ Obeys(props, v)
<1> DEFINE w == Reconciled(props).value
<1>1. w \in Int /\ Obeys(props, w)
  BY ReconciledObeys
<1> HIDE DEF w
<1>2. v \in Int /\ Abs(v) <= Abs(w)
  <2>1. v \in IF w >= 0 THEN 0..w ELSE w..0
    BY DEF Damped, w
  <2> QED BY <1>1, <2>1 DEF Abs
<1>3. w = 0 => v = 0
  BY <1>2 DEF Abs
<1>4. Abs(v) \in Int /\ Abs(w) \in Int
  BY <1>1, <1>2 DEF Abs
<1>5. Says(props, "RISK") => Abs(Final(props, "RISK").value) \in Int
  <2>1. Says(props, "RISK") => Final(props, "RISK").value \in Int
    BY FinalIsProposed DEF ProposalType
  <2>2. \A x \in Int : Abs(x) \in Int
    BY DEF Abs
  <2> QED BY <2>1, <2>2
<1>6. Says(props, "LIQUIDITY") => Final(props, "LIQUIDITY").value \in Int
  BY FinalIsProposed DEF ProposalType
<1>7. Says(props, "RISK") /\ Final(props, "RISK").severe => Abs(v) <= Abs(Final(props, "RISK").value)
  <2> SUFFICES ASSUME Says(props, "RISK"), Final(props, "RISK").severe
               PROVE  Abs(v) <= Abs(Final(props, "RISK").value)
    OBVIOUS
  <2>1. Abs(w) <= Abs(Final(props, "RISK").value)
    BY <1>1 DEF Obeys
  <2> QED BY <1>2, <1>4, <1>5, <2>1
<1>8. Says(props, "LIQUIDITY") /\ Final(props, "LIQUIDITY").value >= 0
        => Abs(v) <= Final(props, "LIQUIDITY").value
  <2> SUFFICES ASSUME Says(props, "LIQUIDITY"), Final(props, "LIQUIDITY").value >= 0
               PROVE  Abs(v) <= Final(props, "LIQUIDITY").value
    OBVIOUS
  <2>1. Abs(w) <= Final(props, "LIQUIDITY").value
    BY <1>1 DEF Obeys
  <2> QED BY <1>2, <1>4, <1>6, <2>1
<1> QED BY <1>1, <1>2, <1>3, <1>7, <1>8 DEF Obeys

-----------------------------------------------------------------------------
(* Layers 12 and 13.                                                        *)

Tracks == [now : Int, before : Int]

\* A step that is held to the history is a number.
LEMMA ConsistentNumber ==
  ASSUME NEW t \in Tracks, NEW v \in Int
  PROVE  Consistent(t, v) \in Int
<1> DEFINE back == (t.now - t.before > 0 /\ v - t.now < 0) \/ (t.now - t.before < 0 /\ v - t.now > 0)
           calm == IF back THEN t.now + Times(v - t.now, 50) ELSE v
           low == t.now - DriftLimit
           high == t.now + DriftLimit
<1>1. t.now \in Int /\ DriftLimit \in Nat
  BY FrameAssumption DEF Tracks
<1>2. calm \in Int
  <2>1. v - t.now \in Int /\ 50 \in 0..100
    BY <1>1
  <2>2. Times(v - t.now, 50) \in Int
    BY <2>1, ScaledDown, Zenon
  <2> QED BY <1>1, <2>2
<1>3. low \in Int /\ high \in Int
  BY <1>1
<1>4. Consistent(t, v) = Max({low, Min({high, calm})})
  BY DEF Consistent
<1> HIDE DEF low, high, calm
<1>5. Min({high, calm}) \in Int
  BY <1>2, <1>3, OfTwo
<1>6. Max({low, Min({high, calm})}) \in Int
  BY <1>3, <1>5, OfTwo
<1> QED BY <1>4, <1>6

\* What a crisis leaves of an asset that stands at now.
Left(a, now) ==
  Times(Max({0, Times(now, Crash)}), 100 - Lambda) + Times(Max({0, Baseline[a]}), Lambda)

\* An override leaves a number, and in a crisis no more than that of an asset
\* that bears risk.
LEMMA OverrideBounds ==
  ASSUME NEW s \in OverrideType, NEW found \in BOOLEAN, NEW prev \in Int, NEW v \in Int,
         NEW a \in FrameAssets
  PROVE  /\ Overridden(s, found, prev, v, a) \in Int
         /\ Over(s, 2) /\ a \in RiskBearing \ {"CASH"} =>
              Overridden(s, found, prev, v, a) <= Left(a, v)
<1> DEFINE risky == a # "CASH" /\ a \in RiskBearing
           eased == IF (s.vol >= 1 \/ s.drawdown >= 1) /\ risky /\ found THEN Min({v, prev}) ELSE v
           crashed == IF EffectiveMode(s) >= 1 /\ risky THEN Times(eased, Crash) ELSE eased
           kept == Times(crashed, 100 - Lambda)
           base == Times(Baseline[a], Lambda)
<1>1. Crash \in 0..100 /\ Lambda \in 0..100 /\ 100 - Lambda \in 0..100 /\ Baseline[a] \in Int
  BY FrameAssumption
<1>2. eased \in Int /\ eased <= v
  <2>1. Min({v, prev}) \in Int /\ Min({v, prev}) <= v
    <3>1. v \in Int /\ prev \in Int /\ Min({v, prev}) = IF v <= prev THEN v ELSE prev
      BY OfTwo, Zenon
    <3> QED BY <3>1
  <2>2. v <= v
    OBVIOUS
  <2> QED BY <2>1, <2>2
<1>3. Overridden(s, found, prev, v, a) = IF s.failed \/ EffectiveMode(s) = 2 THEN kept + base ELSE crashed
  BY DEF Overridden
<1>4. crashed = IF EffectiveMode(s) >= 1 /\ risky THEN Times(eased, Crash) ELSE eased
  OBVIOUS
<1> HIDE DEF eased
<1>5. Times(eased, Crash) \in Int
  BY <1>1, <1>2, ScaledDown
<1>6. crashed \in Int
  BY <1>2, <1>4, <1>5
<1> HIDE DEF crashed
<1>7. kept \in Int /\ base \in Int
  BY <1>1, <1>6, ScaledDown
<1>8. Overridden(s, found, prev, v, a) \in Int
  <2> HIDE DEF kept, base
  <2> QED BY <1>3, <1>6, <1>7
<1>9. ASSUME Over(s, 2), a \in RiskBearing \ {"CASH"}
      PROVE  Overridden(s, found, prev, v, a) <= Left(a, v)
  <2>1. EffectiveMode(s) = 2
    BY <1>9 DEF EffectiveMode
  <2>2. Overridden(s, found, prev, v, a) = kept + base /\ crashed = Times(eased, Crash)
    BY <1>3, <1>4, <1>9, <2>1
  <2> DEFINE now == Times(v, Crash)
             top == Max({0, now})
             safe == Max({0, Baseline[a]})
  <2>3. now \in Int /\ Times(eased, Crash) <= now
    BY <1>1, <1>2, ScaledDown, ScalingGrows
  <2> HIDE DEF now
  <2>4. top \in Int /\ now <= top /\ safe \in Int /\ Baseline[a] <= safe
    BY <1>1, <2>3, OfTwo
  <2> HIDE DEF top, safe
  <2>5. crashed <= top
    BY <1>5, <2>2, <2>3, <2>4
  <2>6. kept <= Times(top, 100 - Lambda)
    BY <1>1, <1>6, <2>4, <2>5, ScalingGrows
  <2>7. base <= Times(safe, Lambda)
    BY <1>1, <2>4, ScalingGrows
  <2>8. Times(top, 100 - Lambda) \in Int /\ Times(safe, Lambda) \in Int
    BY <1>1, <2>4, ScaledDown
  <2>9. Left(a, v) = Times(top, 100 - Lambda) + Times(safe, Lambda)
    BY DEF Left, top, safe, now
  <2> HIDE DEF kept, base
  <2> QED BY <1>7, <2>2, <2>6, <2>7, <2>8, <2>9
<1> QED BY <1>8, <1>9

-----------------------------------------------------------------------------
(* The frames.                                                              *)

FrameTypes ==
  /\ phase \in {10, 12, 13, 14, 15}
  /\ track \in [FrameAssets -> Tracks]
  /\ asked \in [FrameAssets -> Seq(ProposalType)]
  /\ value \in [FrameAssets -> Int]
  /\ stress \in OverrideType
  /\ residual10 \in Int /\ residual12 \in Int

\* How far the assets moved together since the last frame.
Moved == SumFunction([a \in FrameAssets |-> Abs(track[a].now - track[a].before)])

\* What each layer hands to the next.
FrameInv ==
  /\ FrameTypes
  /\ phase = 12 => \A a \in FrameAssets : Obeys(asked[a], value[a])
  /\ phase \in {13, 14, 15} => residual12 = Moved
  /\ phase = 13 => \A a \in FrameAssets : value[a] = track[a].now
  /\ phase \in {14, 15} /\ Over(stress, 2) =>
       \A a \in RiskBearing \ {"CASH"} : value[a] <= Left(a, track[a].now)
  /\ phase = 15 /\ lock.ready => residual10 <= 50 /\ residual12 <= 10

\* What is summed up is a number.
LEMMA MovedNumber ==
  ASSUME track' \in [FrameAssets -> Tracks]
  PROVE  Moved' \in Int
<1> DEFINE f == [a \in FrameAssets |-> Abs(track'[a].now - track'[a].before)]
<1>1. \A a \in FrameAssets : f[a] \in Int
  BY DEF Tracks, Abs
<1>2. DOMAIN f = FrameAssets /\ IsFiniteSet(FrameAssets)
  BY FrameAssumption
<1>3. Moved' = SumFunctionOnSet(f, DOMAIN f)
  BY DEF Moved, SumFunction
<1> HIDE DEF f
<1> QED BY <1>1, <1>2, <1>3, SumInt

\* So is the residual of a reconciled asset.
LEMMA ResidualNumber ==
  ASSUME NEW props \in Seq(ProposalType), NEW v \in Int
  PROVE  Residual(props, v) \in Int
<1> DEFINE f == [i \in DOMAIN props |-> GovernorWeight[props[i].type] * Abs(props[i].value - v)]
<1>1. \A i \in DOMAIN props : f[i] \in Int
  <2> SUFFICES ASSUME NEW i \in DOMAIN props PROVE f[i] \in Int
    OBVIOUS
  <2>1. props[i].type \in Governors /\ props[i].value \in Int
    <3>1. props[i] \in ProposalType
      OBVIOUS
    <3> QED BY <3>1 DEF ProposalType
  <2>2. GovernorWeight[props[i].type] \in Int
    BY <2>1 DEF GovernorWeight, Governors
  <2>3. Abs(props[i].value - v) \in Int
    BY <2>1 DEF Abs
  <2> QED BY <2>2, <2>3
<1>2. DOMAIN f = DOMAIN props /\ DOMAIN props = 1..Len(props) /\ Len(props) \in Nat
  OBVIOUS
<1>3. IsFiniteSet(DOMAIN f)
  <2>1. 1 \in Int /\ Len(props) \in Int
    BY <1>2
  <2>2. IsFiniteSet(1..Len(props))
    BY <2>1, FS_Interval
  <2> HIDE DEF f
  <2> QED BY <1>2, <2>2
<1>4. Residual(props, v) = SumFunctionOnSet(f, DOMAIN f)
  BY DEF Residual, SumFunction
<1> HIDE DEF f
<1> QED BY <1>1, <1>2, <1>3, <1>4, SumInt

\* And the worst of them.
LEMMA WorstNumber ==
  ASSUME NEW S, IsFiniteSet(S), NEW f \in [S -> Int]
  PROVE  Max({0} \cup {f[a] : a \in S}) \in Int
<1> DEFINE R == {f[a] : a \in S}
           T == {0} \cup R
<1>1. T \in SUBSET Int /\ T # {}
  OBVIOUS
<1>2. f \in Surjection(S, R)
  BY DEF Surjection
<1> HIDE DEF R
<1>3. IsFiniteSet(R)
  BY <1>2, FS_Surjection
<1>4. IsFiniteSet(T)
  <2>1. T = R \cup {0}
    OBVIOUS
  <2> QED BY <1>3, <2>1, FS_AddElement
<1> HIDE DEF T
<1>5. Max(T) \in Int
  BY <1>1, <1>4, GreatestOfFinite
<1> QED BY <1>5 DEF T, R

\* Frames begin without history.
LEMMA FramesBegin ==
  ASSUME FrameInit
  PROVE  FrameInv
<1>1. FrameTypes
  <2>1. [now |-> 0, before |-> 0] \in Tracks /\ <<>> \in Seq(ProposalType)
    BY DEF Tracks
  <2> QED BY <2>1, FrameAssumption DEF FrameInit, FrameTypes, NoPast
<1> QED BY <1>1 DEF FrameInit, FrameInv

\* Each layer keeps what the layers before it established.
LEMMA FrameStepKeeps ==
  ASSUME FrameInv, [FrameNext]_frameVars
  PROVE  FrameInv'
<1>1. FrameTypes
  BY DEF FrameInv
<1>2. CASE UNCHANGED frameVars
  BY <1>2 DEF FrameInv, FrameTypes, Moved, Left, frameVars
<1>3. CASE ReconcileGovernors
  <2>1. PICK input \in Inputs10 :
          /\ asked' = input
          /\ \E v \in [FrameAssets -> UNION {Damped(Reconciled(input[a]).value) : a \in FrameAssets}] :
               /\ \A a \in FrameAssets : v[a] \in Damped(Reconciled(input[a]).value)
               /\ value' = v
               /\ residual10' = Max({0} \cup {Residual(input[a], v[a]) : a \in FrameAssets})
    BY <1>3 DEF ReconcileGovernors
  <2>2. input \in [FrameAssets -> Seq(ProposalType)]
    BY FrameAssumption
  <2>3. \A a \in FrameAssets : value'[a] \in Int /\ Obeys(input[a], value'[a])
    <3> TAKE a \in FrameAssets
    <3>1. input[a] \in Seq(ProposalType) /\ value'[a] \in Damped(Reconciled(input[a]).value)
      BY <2>1, <2>2
    <3> QED BY <3>1, DampingObeys
  <2>4. value' \in [FrameAssets -> Int]
    <3>1. PICK v \in [FrameAssets -> UNION {Damped(Reconciled(input[a]).value) : a \in FrameAssets}] :
            value' = v
      BY <2>1
    <3>2. value' = [a \in FrameAssets |-> value'[a]]
      BY <3>1
    <3> QED BY <2>3, <3>2
  <2>5. phase' = 12 /\ UNCHANGED <<track, residual12, stress>>
        /\ residual10' = Max({0} \cup {Residual(input[a], value'[a]) : a \in FrameAssets})
    BY <1>3, <2>1 DEF ReconcileGovernors
  <2>6. residual10' \in Int
    <3>1. \A a \in FrameAssets : Residual(input[a], value'[a]) \in Int
      BY <2>2, <2>3, ResidualNumber
    <3>2. IsFiniteSet(FrameAssets)
      BY FrameAssumption
    <3> DEFINE f == [a \in FrameAssets |-> Residual(input[a], value'[a])]
    <3>3. f \in [FrameAssets -> Int]
      BY <3>1
    <3>4. {f[a] : a \in FrameAssets} = {Residual(input[a], value'[a]) : a \in FrameAssets}
      OBVIOUS
    <3> HIDE DEF f
    <3>5. Max({0} \cup {f[a] : a \in FrameAssets}) \in Int
      BY <3>2, <3>3, WorstNumber
    <3> QED BY <2>5, <3>4, <3>5
  <2>7. FrameTypes'
    BY <1>1, <2>1, <2>2, <2>4, <2>5, <2>6 DEF FrameTypes
  <2> QED BY <2>1, <2>3, <2>5, <2>7 DEF FrameInv
<1>4. CASE EnforceConsistency
  <2> DEFINE past == [a \in FrameAssets |-> IF a \in held' THEN track[a] ELSE NoPast]
  <2>1. /\ value' = [a \in FrameAssets |-> Consistent(past[a], value[a])]
        /\ track' = [a \in FrameAssets |-> [now |-> value'[a], before |-> past[a].now]]
        /\ residual12' = SumFunction([a \in FrameAssets |-> Abs(value'[a] - past[a].now)])
        /\ asked' = [a \in FrameAssets |-> <<>>]
        /\ phase' = 13 /\ UNCHANGED <<residual10, stress>>
    BY <1>4 DEF EnforceConsistency
  <2>0. past \in [FrameAssets -> Tracks]
    BY <1>1 DEF FrameTypes, Tracks, NoPast
  <2> HIDE DEF past
  <2>2. value' \in [FrameAssets -> Int]
    <3>1. \A a \in FrameAssets : Consistent(past[a], value[a]) \in Int
      BY <1>1, <2>0, ConsistentNumber DEF FrameTypes
    <3> QED BY <2>1, <3>1
  <2>3. \A a \in FrameAssets : track'[a].now = value'[a] /\ track'[a].before = past[a].now
    BY <2>1
  <2>4. track' \in [FrameAssets -> Tracks]
    <3>1. \A a \in FrameAssets : [now |-> value'[a], before |-> past[a].now] \in Tracks
      BY <2>0, <2>2 DEF Tracks
    <3> QED BY <2>1, <3>1
  <2>5. residual12' = Moved'
    <3>1. [a \in FrameAssets |-> Abs(value'[a] - past[a].now)]
            = [a \in FrameAssets |-> Abs(track'[a].now - track'[a].before)]
      BY <2>3
    <3> QED BY <2>1, <3>1 DEF Moved
  <2>6. residual12' \in Int
    BY <2>4, <2>5, MovedNumber
  <2>7. FrameTypes'
    <3>1. asked' \in [FrameAssets -> Seq(ProposalType)]
      BY <2>1
    <3> QED BY <1>1, <2>1, <2>2, <2>4, <2>6, <3>1 DEF FrameTypes
  <2> QED BY <2>1, <2>3, <2>5, <2>7 DEF FrameInv
<1>5. CASE OverrideStress
  <2>1. /\ phase = 13 /\ phase' = 14
        /\ value' = [a \in FrameAssets |-> Overridden(stress, a \in held, track[a].before, value[a], a)]
        /\ UNCHANGED <<track, asked, residual10, residual12, stress, lock>>
    BY <1>5 DEF OverrideStress
  <2>11. \A a \in FrameAssets : (a \in held) \in BOOLEAN
    OBVIOUS
  <2>2. \A a \in FrameAssets : value[a] \in Int /\ track[a].before \in Int /\ value[a] = track[a].now
    BY <1>1, <2>1 DEF FrameInv, FrameTypes, Tracks
  <2>3. \A a \in FrameAssets :
          /\ Overridden(stress, a \in held, track[a].before, value[a], a) \in Int
          /\ Over(stress, 2) /\ a \in RiskBearing \ {"CASH"} =>
               Overridden(stress, a \in held, track[a].before, value[a], a) <= Left(a, value[a])
    BY <1>1, <2>2, <2>11, OverrideBounds DEF FrameTypes
  <2>4. value' \in [FrameAssets -> Int]
    BY <2>1, <2>3
  <2>5. FrameTypes'
    BY <1>1, <2>1, <2>4 DEF FrameTypes
  <2>6. RiskBearing \in SUBSET FrameAssets
    BY FrameAssumption
  <2>7. Over(stress, 2) => \A a \in RiskBearing \ {"CASH"} : value'[a] <= Left(a, track[a].now)
    <3> SUFFICES ASSUME Over(stress, 2), NEW a \in RiskBearing \ {"CASH"}
                 PROVE  value'[a] <= Left(a, track[a].now)
      OBVIOUS
    <3>1. a \in FrameAssets
      BY <2>6
    <3>2. value'[a] = Overridden(stress, a \in held, track[a].before, value[a], a) /\ value[a] = track[a].now
      BY <2>1, <2>2, <3>1
    <3> QED BY <2>3, <3>1, <3>2
  <2>8. residual12 = Moved
    BY <2>1 DEF FrameInv
  <2>9. residual12' = Moved'
    BY <2>1, <2>8 DEF Moved
  <2>10. Over(stress', 2) => \A a \in RiskBearing \ {"CASH"} : value'[a] <= Left(a, track'[a].now)
    BY <2>1, <2>7
  <2> QED BY <2>1, <2>5, <2>9, <2>10 DEF FrameInv, Left
<1>6. CASE ApplyLock
  <2>1. /\ phase = 14 /\ phase' = 15 /\ UNCHANGED <<track, asked, value, residual10, residual12, stress>>
    BY <1>6 DEF ApplyLock
  <2>0. ~lock'.ready \/ (~(residual10 > 50) /\ ~(residual12 > 10))
    <3>1. PICK limits \in Inputs11 :
            lock' = [ready |-> ~(residual10 > 50)
                               /\ ~(limits.violations > 0 \/ limits.risk > limits.maxRisk)
                               /\ ~(stress.level >= 1 /\ FrameAssets = {})
                               /\ ~(residual12 > 10),
                     level |-> stress.level]
      BY <1>6 DEF ApplyLock
    <3> DEFINE e == ~(residual10 > 50)
                    /\ ~(limits.violations > 0 \/ limits.risk > limits.maxRisk)
                    /\ ~(stress.level >= 1 /\ FrameAssets = {})
                    /\ ~(residual12 > 10)
    <3>2. lock'.ready = e
      BY <3>1
    <3>3. e => ~(residual10 > 50) /\ ~(residual12 > 10)
      OBVIOUS
    <3> HIDE DEF e
    <3> QED BY <3>2, <3>3
  <2>2. FrameTypes' /\ Moved' = Moved
    BY <1>1, <2>1 DEF FrameTypes, Moved
  <2>3. lock'.ready => residual10 <= 50 /\ residual12 <= 10
    BY <1>1, <2>0 DEF FrameTypes
  <2>4. residual12' = Moved'
    BY <2>1, <2>2 DEF FrameInv
  <2>5. Over(stress', 2) => \A a \in RiskBearing \ {"CASH"} : value'[a] <= Left(a, track'[a].now)
    BY <2>1 DEF FrameInv
  <2> QED BY <2>1, <2>2, <2>3, <2>4, <2>5 DEF FrameInv, Left
<1>7. CASE NextFrame
  <2>1. /\ phase' = 10 /\ stress' \in OverrideType
        /\ UNCHANGED <<track, asked, value, residual10, residual12>>
    BY <1>7, FrameAssumption DEF NextFrame
  <2>2. FrameTypes'
    BY <1>1, <2>1 DEF FrameTypes
  <2> QED BY <2>1, <2>2 DEF FrameInv
<1> QED BY <1>2, <1>3, <1>4, <1>5, <1>6, <1>7 DEF FrameNext

\* For all assets, proposals, stress states and limits that pass the validation
\* of the layers, and for any number of frames: governors are obeyed after layer
\* 10, and a frame that is sealed as ready is governed.
THEOREM FramesStayGoverned == FrameInit /\ [][FrameNext]_frameVars => []FramesGoverned
<1>1. FrameInit => FrameInv
  BY FramesBegin
<1>2. FrameInv /\ [FrameNext]_frameVars => FrameInv'
  BY FrameStepKeeps
<1>3. FrameInv => FramesGoverned
  <2> SUFFICES ASSUME FrameInv PROVE FramesGoverned
    OBVIOUS
  <2>1. GovernorsObeyed
    BY DEF FrameInv, GovernorsObeyed, Obeys
  <2>2. ReadyIsGoverned
    BY DEF FrameInv, ReadyIsGoverned, Moved, Left
  <2> QED BY <2>1, <2>2 DEF FramesGoverned
<1> QED BY <1>1, <1>2, <1>3, PTL

-----------------------------------------------------------------------------
(* Layer 11: every stage only shrinks allocations.                          *)

\* v is w or between it and 0.
Toward(v, w) == (w >= 0 => v \in 0 .. w) /\ (w <= 0 => v \in w .. 0)

\* Two factors and the sides they leave.
LEMMA SameSide ==
  ASSUME NEW v \in Int, NEW w \in Int, Toward(v, w)
  PROVE  v * w >= 0 /\ Magnitude(v) <= Magnitude(w)
<1>1. Magnitude(v) <= Magnitude(w)
  BY DEF Toward, Magnitude
<1>2. CASE w >= 0
  <2>1. \A x, y \in Nat : x * y >= 0
    OBVIOUS
  <2>2. v \in Nat /\ w \in Nat
    BY <1>2 DEF Toward
  <2> QED BY <1>1, <2>1, <2>2
<1>3. CASE w < 0
  <2>1. \A x, y \in Nat : (-x) * (-y) >= 0
    OBVIOUS
  <2>2. -v \in Nat /\ -w \in Nat /\ -(-v) = v /\ -(-w) = w
    BY <1>3 DEF Toward
  <2>3. (-(-v)) * (-(-w)) >= 0
    BY <2>1, <2>2
  <2> QED BY <1>1, <2>2, <2>3
<1> QED BY <1>2, <1>3

\* A quotient rounded down, of a product with the smaller of two numbers.
LEMMA Quotient ==
  ASSUME NEW n \in Nat, NEW top \in Nat, NEW bottom \in Nat, bottom >= top, bottom > 0
  PROVE  /\ (n * top) \div bottom \in 0 .. n
         /\ ((n * top) \div bottom) * bottom <= n * top
<1>1. n * top \in Nat /\ n * bottom \in Nat /\ n * top <= n * bottom
  <2>1. \A k \in Nat : n * (top + k) = n * top + n * k /\ n * k \in Nat
    OBVIOUS
  <2>2. bottom - top \in Nat /\ top + (bottom - top) = bottom
    OBVIOUS
  <2>3. n * bottom = n * top + n * (bottom - top) /\ n * (bottom - top) \in Nat
    BY <2>1, <2>2
  <2>4. n * top \in Nat /\ n * bottom \in Nat
    OBVIOUS
  <2> QED BY <2>3, <2>4
<1> DEFINE p == n * top
           q == p \div bottom
<1>2. q \in Nat /\ q * bottom <= p
  <2>1. p \in Nat
    BY <1>1
  <2> HIDE DEF p
  <2> QED BY <2>1
<1>3. q <= n
  <2>1. q * bottom <= n * bottom
    BY <1>1, <1>2
  <2>2. \A x, y \in Nat : x > y => x * bottom >= y * bottom + bottom
    <3> SUFFICES ASSUME NEW x \in Nat, NEW y \in Nat, x > y
                 PROVE  x * bottom >= y * bottom + bottom
      OBVIOUS
    <3>1. \A k \in Nat : (y + 1 + k) * bottom = y * bottom + bottom + k * bottom /\ k * bottom >= 0
      OBVIOUS
    <3>2. x - y - 1 \in Nat /\ y + 1 + (x - y - 1) = x
      OBVIOUS
    <3>3. x * bottom = y * bottom + bottom + (x - y - 1) * bottom /\ (x - y - 1) * bottom >= 0
      BY <3>1, <3>2
    <3>4. x * bottom \in Int /\ y * bottom \in Int /\ (x - y - 1) * bottom \in Int
      BY <3>2
    <3> QED BY <3>3, <3>4
  <2> HIDE DEF q
  <2>3. q * bottom \in Int /\ n * bottom \in Int
    BY <1>2
  <2> QED BY <1>2, <2>1, <2>2, <2>3
<1> QED BY <1>2, <1>3

\* What scaling leaves of an allocation.
LEMMA ScaleShrinks ==
  ASSUME NEW w \in Int, NEW top \in Nat, NEW bottom \in Nat, bottom > top
  PROVE  /\ Scale(w, top, bottom) \in Int
         /\ Toward(Scale(w, top, bottom), w)
         /\ bottom * Magnitude(Scale(w, top, bottom)) <= top * Magnitude(w)
<1> DEFINE m == Magnitude(w)
           q == (m * top) \div bottom
<1>1. m \in Nat
  BY DEF Magnitude
<1>2. Scale(w, top, bottom) = IF w < 0 THEN -q ELSE q
  BY DEF Scale, Magnitude
<1>3. q \in 0 .. m /\ q * bottom <= m * top
  <2> HIDE DEF m
  <2>1. bottom >= top /\ bottom > 0
    OBVIOUS
  <2> QED BY <1>1, <2>1, Quotient, Zenon
<1> HIDE DEF q
<1>4. Magnitude(Scale(w, top, bottom)) = q
  BY <1>2, <1>3, <1>1 DEF Magnitude
<1>5. bottom * q <= top * m
  <2>1. \A x, y \in Int : x * y = y * x
    OBVIOUS
  <2>2. q \in Int /\ m \in Int
    BY <1>1, <1>3
  <2>3. bottom * q = q * bottom /\ top * m = m * top
    BY <2>1, <2>2
  <2> QED BY <1>3, <2>3
<1>6. Toward(Scale(w, top, bottom), w)
  BY <1>2, <1>3 DEF Toward, Magnitude
<1> QED BY <1>2, <1>3, <1>4, <1>5, <1>6

\* What is between v and 0 is between w and 0 when v is.
LEMMA TowardTowards ==
  ASSUME NEW u \in Int, NEW v \in Int, NEW w \in Int, Toward(u, v), Toward(v, w)
  PROVE  Toward(u, w)
BY DEF Toward

\* The sum of magnitudes is a number, which a smaller set or smaller
\* allocations do not exceed.
LEMMA ExposureShrinks ==
  ASSUME NEW D, IsFiniteSet(D), NEW v \in [D -> Int], NEW w \in [D -> Int],
         \A a \in D : Toward(v[a], w[a]), NEW S \in SUBSET D, NEW T \in SUBSET S
  PROVE  /\ Exposure(w, S) \in Nat
         /\ Exposure(v, S) <= Exposure(w, S)
         /\ Exposure(w, T) <= Exposure(w, S)
<1> DEFINE g == [a \in DOMAIN v |-> Magnitude(v[a])]
           h == [a \in DOMAIN w |-> Magnitude(w[a])]
<1>1. \A a \in D : g[a] \in Nat /\ h[a] \in Nat /\ g[a] <= h[a]
  BY DEF Toward, Magnitude
<1>2. Exposure(v, S) = SumFunctionOnSet(g, S) /\ \A R : Exposure(w, R) = SumFunctionOnSet(h, R)
  BY DEF Exposure
<1> HIDE DEF g, h
<1>3. IsFiniteSet(S)
  BY FS_Subset
<1>4. \A a \in S : g[a] \in Int /\ h[a] \in Int /\ g[a] <= h[a]
  BY <1>1
<1>5. SumFunctionOnSet(g, S) <= SumFunctionOnSet(h, S)
  BY <1>3, <1>4, SumAtMost, Zenon
<1>6. \A a \in S : h[a] \in Nat
  BY <1>1
<1>7. SumFunctionOnSet(h, S) \in Nat
  <2>1. S \in SUBSET S
    OBVIOUS
  <2> QED BY <1>3, <1>6, <2>1, SumGrows, Zenon
<1>8. SumFunctionOnSet(h, T) <= SumFunctionOnSet(h, S)
  BY <1>3, <1>6, SumGrows, Zenon
<1> QED BY <1>2, <1>5, <1>7, <1>8

\* Multiples and what they are multiples of.
LEMMA CancelFactor ==
  ASSUME NEW k \in Nat, k > 0, NEW x \in Int, NEW y \in Nat, k * x <= y * k
  PROVE  x <= y
<1> SUFFICES ASSUME x > y PROVE FALSE
  OBVIOUS
<1>1. \A d \in Nat : k * (y + 1 + d) = y * k + k + k * d /\ k * d >= 0 /\ k * d \in Int
  OBVIOUS
<1>2. x - y - 1 \in Nat /\ y + 1 + (x - y - 1) = x
  OBVIOUS
<1>3. k * x = y * k + k + k * (x - y - 1) /\ k * (x - y - 1) >= 0 /\ k * (x - y - 1) \in Int
  BY <1>1, <1>2
<1>4. y * k \in Int /\ k * x \in Int
  OBVIOUS
<1> QED BY <1>3, <1>4

\* Assets all of which are scaled from their sum to a cap stay within it.
LEMMA ScaledWithin ==
  ASSUME NEW D, IsFiniteSet(D), NEW v \in [D -> Int], NEW w \in [D -> Int], NEW S \in SUBSET D,
         NEW cap \in Nat, Exposure(w, S) > cap,
         \A a \in S : v[a] = Scale(w[a], cap, Exposure(w, S))
  PROVE  Exposure(v, S) <= cap
<1> DEFINE g == [a \in DOMAIN v |-> Magnitude(v[a])]
           h == [a \in DOMAIN w |-> Magnitude(w[a])]
           sum == Exposure(w, S)
<1>0. \A a \in D : Toward(w[a], w[a])
  BY DEF Toward
<1>1. sum \in Nat
  BY <1>0, ExposureShrinks
<1>2. Exposure(v, S) = SumFunctionOnSet(g, S) /\ sum = SumFunctionOnSet(h, S)
  BY DEF Exposure
<1>3. IsFiniteSet(S)
  BY FS_Subset
<1> HIDE DEF sum
<1>4. \A a \in S : g[a] \in Int /\ h[a] \in Int /\ sum * g[a] <= cap * h[a]
  <2> SUFFICES ASSUME NEW a \in S
               PROVE  g[a] \in Int /\ h[a] \in Int /\ sum * g[a] <= cap * h[a]
    OBVIOUS
  <2>1. w[a] \in Int /\ v[a] = Scale(w[a], cap, sum) /\ sum > cap /\ g[a] = Magnitude(v[a]) /\ h[a] = Magnitude(w[a])
    BY DEF sum
  <2>2. Scale(w[a], cap, sum) \in Int /\ sum * Magnitude(Scale(w[a], cap, sum)) <= cap * Magnitude(w[a])
    BY <1>1, <2>1, ScaleShrinks
  <2> HIDE DEF g, h
  <2>3. g[a] \in Int /\ h[a] \in Int
    BY <2>1, <2>2 DEF Magnitude
  <2> QED BY <2>1, <2>2, <2>3
<1> HIDE DEF g, h
<1>5. sum \in Int /\ cap \in Int
  BY <1>1
<1>6. sum * SumFunctionOnSet(g, S) <= cap * SumFunctionOnSet(h, S)
  BY <1>3, <1>4, <1>5, SumBound, Zenon
<1>7. SumFunctionOnSet(g, S) \in Int
  BY <1>3, <1>4, SumInt
<1>8. sum > 0 /\ sum * SumFunctionOnSet(g, S) <= cap * sum
  BY <1>1, <1>2, <1>6 DEF sum
<1>9. SumFunctionOnSet(g, S) <= cap
  BY <1>1, <1>7, <1>8, CancelFactor
<1> QED BY <1>2, <1>9

-----------------------------------------------------------------------------
(* Its invariant: what each stage that has run has left.                    *)
After(stages) == step \notin stages

ConstraintTypes ==
  /\ portfolio \in Portfolios
  /\ weights \in [Held1 -> Int]
  /\ turn \in Nat
  /\ step \in {"exposure", "sectors", "correlation", "budget", "done"}

\* A portfolio that keeps its sides and its exposure limits.
KeepsSides(w) == \A a \in Held1 : Toward(w[a], portfolio.proposed[a])
KeepsRules(w) ==
  \A a \in Held1 : portfolio.rule[a] # <<>> => w[a] \in -portfolio.rule[a][2] .. portfolio.rule[a][1]
KeepsCap(w, i) == Exposure(w, MembersOf(portfolio.sectors[i].sector)) <= portfolio.sectors[i].max
KeepsGroups(w) ==
  \A group \in SUBSET Held1 : Cardinality(group) > 1 /\ Connected(group) => Exposure(w, group) <= ClusterMax

\* The pair, if it is strong, has one label.
PairJoined(labels, i) ==
  LET pair == portfolio.correlations[i]
  IN  pair.score > ClusterThreshold /\ {pair.a, pair.b} \subseteq Held1 => labels[pair.a] = labels[pair.b]

ConstraintInv ==
  /\ ConstraintTypes
  /\ KeepsSides(weights)
  /\ step # "exposure" => KeepsRules(weights)
  /\ step = "exposure" => turn = 0
  /\ step = "sectors" => \A i \in 1 .. Len(portfolio.sectors) : i <= turn => KeepsCap(weights, i)
  /\ step \notin {"exposure", "sectors"} => \A i \in 1 .. Len(portfolio.sectors) : KeepsCap(weights, i)
  /\ step \in {"exposure", "sectors", "correlation"} => label \in [Held1 -> Held1]
  /\ step = "correlation" => \A i \in 1 .. Len(portfolio.correlations) : i <= turn => PairJoined(label, i)
  /\ step \in {"budget", "done"} => KeepsGroups(weights)
  /\ step = "done" /\ portfolio.budget # <<>> => Risk(weights) <= portfolio.budget[1]

\* What the arguments of a call are.
LEMMA ArgumentsTyped ==
  ASSUME portfolio \in Portfolios
  PROVE  /\ IsFiniteSet(Held1)
         /\ portfolio.proposed \in [Held1 -> Int]
         /\ \A a \in Held1 : portfolio.risk[a] \in Nat
         /\ \A a \in Held1 : portfolio.rule[a] = <<>> \/ (portfolio.rule[a][1] \in Nat /\ portfolio.rule[a][2] \in Nat)
         /\ Len(portfolio.sectors) \in Nat
         /\ \A i \in 1 .. Len(portfolio.sectors) : portfolio.sectors[i].max \in Nat
         /\ Len(portfolio.correlations) \in Nat
         /\ portfolio.budget # <<>> => portfolio.budget[1] \in Nat
<1>1. /\ IsFiniteSet(Held1)
      /\ portfolio.proposed \in [Held1 -> Int]
      /\ portfolio.risk \in [Held1 -> Nat]
      /\ portfolio.rule \in [Held1 -> {<<>>} \cup (Nat \X Nat)]
      /\ portfolio.sectors \in Seq([sector : STRING, max : Nat])
      /\ portfolio.correlations \in Seq([a : STRING, b : STRING, score : -100 .. 100])
      /\ portfolio.budget \in Seq(Nat)
  BY PortfolioAssumption DEF Held1
<1>2. \A a \in Held1 : portfolio.rule[a] = <<>> \/ (portfolio.rule[a][1] \in Nat /\ portfolio.rule[a][2] \in Nat)
  BY <1>1
<1>3. Len(portfolio.sectors) \in Nat /\ \A i \in 1 .. Len(portfolio.sectors) : portfolio.sectors[i].max \in Nat
  <2> DEFINE R == [sector : STRING, max : Nat]
             s == portfolio.sectors
  <2>1. s \in Seq(R)
    BY <1>1
  <2>2. \A r \in R : r.max \in Nat
    OBVIOUS
  <2> HIDE DEF R, s
  <2>3. Len(s) \in Nat /\ \A i \in 1 .. Len(s) : s[i].max \in Nat
    BY <2>1, <2>2
  <2> QED BY <2>3 DEF s
<1>4. portfolio.budget # <<>> => portfolio.budget[1] \in Nat
  BY <1>1
<1> QED BY <1>1, <1>2, <1>3, <1>4

\* What every stage after the first does: it shrinks allocations, and so keeps
\* what the earlier ones reached.
LEMMA ShrinkingKeeps ==
  ASSUME ConstraintTypes, KeepsSides(weights), NEW w \in [Held1 -> Int],
         \A a \in Held1 : Toward(w[a], weights[a])
  PROVE  /\ KeepsSides(w)
         /\ KeepsRules(weights) => KeepsRules(w)
         /\ \A i \in 1 .. Len(portfolio.sectors) : KeepsCap(weights, i) => KeepsCap(w, i)
         /\ KeepsGroups(weights) => KeepsGroups(w)
<1>1. /\ IsFiniteSet(Held1) /\ weights \in [Held1 -> Int] /\ portfolio.proposed \in [Held1 -> Int]
      /\ \A a \in Held1 : portfolio.rule[a] = <<>> \/ (portfolio.rule[a][1] \in Nat /\ portfolio.rule[a][2] \in Nat)
      /\ \A i \in 1 .. Len(portfolio.sectors) : portfolio.sectors[i].max \in Nat
  BY ArgumentsTyped DEF ConstraintTypes
<1>2. KeepsSides(w)
  <2> SUFFICES ASSUME NEW a \in Held1 PROVE Toward(w[a], portfolio.proposed[a])
    BY DEF KeepsSides
  <2>1. /\ w[a] \in Int /\ weights[a] \in Int /\ portfolio.proposed[a] \in Int
        /\ Toward(w[a], weights[a]) /\ Toward(weights[a], portfolio.proposed[a])
    BY <1>1 DEF KeepsSides
  <2> QED BY <2>1, TowardTowards
<1>3. ASSUME KeepsRules(weights) PROVE KeepsRules(w)
  <2> SUFFICES ASSUME NEW a \in Held1, portfolio.rule[a] # <<>>
               PROVE  w[a] \in -portfolio.rule[a][2] .. portfolio.rule[a][1]
    BY DEF KeepsRules
  <2>1. weights[a] \in -portfolio.rule[a][2] .. portfolio.rule[a][1]
    BY <1>3 DEF KeepsRules
  <2>2. w[a] \in Int /\ weights[a] \in Int /\ Toward(w[a], weights[a])
        /\ portfolio.rule[a][1] \in Nat /\ portfolio.rule[a][2] \in Nat
    BY <1>1
  <2> QED BY <2>1, <2>2 DEF Toward
<1>4. \A S \in SUBSET Held1 : Exposure(w, S) <= Exposure(weights, S) /\ Exposure(w, S) \in Int /\ Exposure(weights, S) \in Int
  <2> SUFFICES ASSUME NEW S \in SUBSET Held1
               PROVE  Exposure(w, S) <= Exposure(weights, S) /\ Exposure(w, S) \in Int /\ Exposure(weights, S) \in Int
    OBVIOUS
  <2>1. S \in SUBSET S
    OBVIOUS
  <2>2. \A a \in Held1 : Toward(w[a], w[a])
    BY DEF Toward
  <2>3. Exposure(weights, S) \in Nat /\ Exposure(w, S) <= Exposure(weights, S)
    BY <1>1, <2>1, ExposureShrinks
  <2>4. Exposure(w, S) \in Nat
    BY <1>1, <2>1, <2>2, ExposureShrinks
  <2> QED BY <2>3, <2>4
<1>5. ASSUME NEW i \in 1 .. Len(portfolio.sectors), KeepsCap(weights, i) PROVE KeepsCap(w, i)
  <2>1. MembersOf(portfolio.sectors[i].sector) \in SUBSET Held1
    BY DEF MembersOf
  <2> QED BY <1>1, <1>4, <1>5, <2>1 DEF KeepsCap
<1>6. ASSUME KeepsGroups(weights) PROVE KeepsGroups(w)
  <2> SUFFICES ASSUME NEW group \in SUBSET Held1, Cardinality(group) > 1, Connected(group)
               PROVE  Exposure(w, group) <= ClusterMax
    BY DEF KeepsGroups
  <2>1. Exposure(weights, group) <= ClusterMax
    BY <1>6 DEF KeepsGroups
  <2> QED BY <1>4, <2>1 DEF ClusterMax
<1> QED BY <1>2, <1>3, <1>5, <1>6

\* The allocations that are scaled shrink.
LEMMA ScalingShrinks ==
  ASSUME NEW D, NEW w \in [D -> Int], NEW S, NEW top, NEW bottom,
         NEW v, v = [a \in D |-> IF a \in S THEN Scale(w[a], top[a], bottom[a]) ELSE w[a]],
         \A a \in D : a \in S => top[a] \in Nat /\ bottom[a] \in Nat /\ bottom[a] > top[a]
  PROVE  v \in [D -> Int] /\ \A a \in D : Toward(v[a], w[a])
<1> SUFFICES ASSUME NEW a \in D PROVE v[a] \in Int /\ Toward(v[a], w[a])
  OBVIOUS
<1>1. w[a] \in Int
  OBVIOUS
<1>2. CASE a \in S
  <2>1. v[a] = Scale(w[a], top[a], bottom[a]) /\ top[a] \in Nat /\ bottom[a] \in Nat /\ bottom[a] > top[a]
    BY <1>2
  <2> QED BY <1>1, <2>1, ScaleShrinks
<1>3. CASE a \notin S
  BY <1>1, <1>3 DEF Toward
<1> QED BY <1>2, <1>3

LEMMA ConstraintsBegin == ConstraintInit => ConstraintInv
<1> SUFFICES ASSUME ConstraintInit PROVE ConstraintInv
  OBVIOUS
<1>1. portfolio \in Portfolios /\ weights = portfolio.proposed /\ step = "exposure" /\ turn = 0
      /\ label = [a \in Held1 |-> a]
  BY DEF ConstraintInit
<1>2. portfolio.proposed \in [Held1 -> Int]
  BY <1>1, ArgumentsTyped
<1>3. KeepsSides(weights)
  BY <1>1, <1>2 DEF KeepsSides, Toward
<1>4. label \in [Held1 -> Held1]
  BY <1>1
<1> QED BY <1>1, <1>2, <1>3, <1>4 DEF ConstraintInv, ConstraintTypes

LEMMA ExposureClamps == ConstraintInv /\ ClampExposure => ConstraintInv'
<1> SUFFICES ASSUME ConstraintInv, ClampExposure PROVE ConstraintInv'
  OBVIOUS
<1>1. /\ portfolio \in Portfolios /\ portfolio' = portfolio /\ Held1' = Held1
      /\ weights \in [Held1 -> Int] /\ turn \in Nat /\ turn' = turn /\ turn = 0
      /\ step = "exposure" /\ step' = "sectors"
      /\ label \in [Held1 -> Held1] /\ label' = label /\ KeepsSides(weights)
  BY DEF ConstraintInv, ConstraintTypes, ClampExposure, Held1
<1>2. /\ portfolio.proposed \in [Held1 -> Int]
      /\ \A a \in Held1 : portfolio.rule[a] = <<>> \/ (portfolio.rule[a][1] \in Nat /\ portfolio.rule[a][2] \in Nat)
  BY <1>1, ArgumentsTyped
<1>3. \A x, y \in Int : Min({x, y}) = (IF x <= y THEN x ELSE y) /\ Max({x, y}) = (IF x >= y THEN x ELSE y)
  <2> SUFFICES ASSUME NEW x \in Int, NEW y \in Int
               PROVE  Min({x, y}) = (IF x <= y THEN x ELSE y) /\ Max({x, y}) = (IF x >= y THEN x ELSE y)
    OBVIOUS
  <2> QED BY DEF Min, Max
<1>4. \A a \in Held1 : /\ weights'[a] \in Int /\ Toward(weights'[a], weights[a])
                       /\ portfolio.rule[a] # <<>> => weights'[a] \in -portfolio.rule[a][2] .. portfolio.rule[a][1]
  <2> SUFFICES ASSUME NEW a \in Held1
               PROVE  /\ weights'[a] \in Int /\ Toward(weights'[a], weights[a])
                      /\ portfolio.rule[a] # <<>> => weights'[a] \in -portfolio.rule[a][2] .. portfolio.rule[a][1]
    OBVIOUS
  <2>1. weights[a] \in Int
    BY <1>1
  <2>2. CASE portfolio.rule[a] = <<>>
    <3>1. weights'[a] = weights[a]
      BY <2>2 DEF ClampExposure
    <3> QED BY <2>1, <2>2, <3>1 DEF Toward
  <2>3. CASE portfolio.rule[a] # <<>>
    <3> DEFINE long == portfolio.rule[a][1]
               short == portfolio.rule[a][2]
    <3>1. weights'[a] = IF weights[a] >= 0 THEN Min({weights[a], long}) ELSE Max({weights[a], -short})
      BY <2>3 DEF ClampExposure
    <3>2. long \in Nat /\ short \in Nat
      BY <1>2, <2>3
    <3> HIDE DEF long, short
    <3>3. weights'[a] = IF weights[a] >= 0 THEN IF weights[a] <= long THEN weights[a] ELSE long
                        ELSE IF weights[a] >= -short THEN weights[a] ELSE -short
      BY <1>3, <2>1, <3>1, <3>2
    <3>4. weights'[a] \in Int /\ Toward(weights'[a], weights[a]) /\ weights'[a] \in -short .. long
      BY <2>1, <3>2, <3>3 DEF Toward
    <3> QED BY <3>4 DEF long, short
  <2> QED BY <2>2, <2>3
<1>5. weights' \in [Held1 -> Int]
  BY <1>4 DEF ClampExposure
<1>6. KeepsSides(weights')
  BY <1>1, <1>4, <1>5, ShrinkingKeeps DEF ConstraintInv
<1>7. KeepsRules(weights')
  BY <1>4 DEF KeepsRules
<1>8. KeepsSides(weights)' /\ KeepsRules(weights)'
  BY <1>1, <1>6, <1>7 DEF KeepsSides, KeepsRules
<1> QED BY <1>1, <1>5, <1>8 DEF ConstraintInv, ConstraintTypes

LEMMA SectorCapped == ConstraintInv /\ CapSector => ConstraintInv'
<1> SUFFICES ASSUME ConstraintInv, CapSector PROVE ConstraintInv'
  OBVIOUS
<1> DEFINE n == turn + 1
           cap == portfolio.sectors[n].max
           S == MembersOf(portfolio.sectors[n].sector)
           sum == Exposure(weights, S)
<1>1. /\ portfolio \in Portfolios /\ portfolio' = portfolio /\ Held1' = Held1
      /\ weights \in [Held1 -> Int] /\ turn \in Nat /\ turn' = n
      /\ step = "sectors" /\ step' = "sectors"
      /\ label \in [Held1 -> Held1] /\ label' = label /\ KeepsSides(weights) /\ KeepsRules(weights)
      /\ \A i \in 1 .. Len(portfolio.sectors) : i <= turn => KeepsCap(weights, i)
      /\ turn < Len(portfolio.sectors)
      /\ weights' = [a \in Held1 |-> IF a \in S /\ sum > cap THEN Scale(weights[a], cap, sum) ELSE weights[a]]
  BY DEF ConstraintInv, ConstraintTypes, CapSector, Held1
<1>2. /\ IsFiniteSet(Held1) /\ Len(portfolio.sectors) \in Nat
      /\ \A i \in 1 .. Len(portfolio.sectors) : portfolio.sectors[i].max \in Nat
  BY <1>1, ArgumentsTyped
<1>3. n \in 1 .. Len(portfolio.sectors) /\ cap \in Nat /\ S \in SUBSET Held1
  BY <1>1, <1>2 DEF MembersOf
<1> HIDE DEF S
<1>4. sum \in Nat
  <2>1. \A a \in Held1 : Toward(weights[a], weights[a])
    BY <1>1 DEF Toward
  <2>2. S \in SUBSET S
    OBVIOUS
  <2> QED BY <1>1, <1>2, <1>3, <2>1, <2>2, ExposureShrinks
<1> HIDE DEF cap, sum, n
<1>5. weights' \in [Held1 -> Int] /\ \A a \in Held1 : Toward(weights'[a], weights[a])
  <2> SUFFICES ASSUME NEW a \in Held1 PROVE weights'[a] \in Int /\ Toward(weights'[a], weights[a])
    BY <1>1
  <2>1. weights[a] \in Int /\ weights'[a] = IF a \in S /\ sum > cap THEN Scale(weights[a], cap, sum) ELSE weights[a]
    BY <1>1
  <2>2. CASE a \in S /\ sum > cap
    BY <1>3, <1>4, <2>1, <2>2, ScaleShrinks
  <2>3. CASE ~(a \in S /\ sum > cap)
    BY <2>1, <2>3 DEF Toward
  <2> QED BY <2>2, <2>3
<1>6. /\ KeepsSides(weights') /\ KeepsRules(weights')
      /\ \A i \in 1 .. Len(portfolio.sectors) : KeepsCap(weights, i) => KeepsCap(weights', i)
  BY <1>1, <1>5, ShrinkingKeeps DEF ConstraintInv
<1>7. KeepsCap(weights', n)
  <2>1. CASE sum > cap
    <3>1. \A a \in S : weights'[a] = Scale(weights[a], cap, Exposure(weights, S))
      BY <1>1, <1>3, <2>1 DEF sum
    <3>2. Exposure(weights, S) > cap
      BY <2>1 DEF sum
    <3>3. /\ IsFiniteSet(Held1) /\ weights' \in [Held1 -> Int] /\ weights \in [Held1 -> Int]
          /\ S \in SUBSET Held1 /\ cap \in Nat
      BY <1>1, <1>2, <1>3, <1>5
    <3>4. Exposure(weights', S) <= cap
      BY <3>1, <3>2, <3>3, ScaledWithin, Zenon
    <3> QED BY <3>4 DEF KeepsCap, S, cap
  <2>2. CASE ~(sum > cap)
    <3>1. sum <= cap
      BY <1>3, <1>4, <2>2
    <3>2. KeepsCap(weights, n)
      BY <3>1 DEF KeepsCap, S, cap, sum
    <3> QED BY <1>3, <1>6, <3>2
  <2> QED BY <2>1, <2>2
<1>8. \A i \in 1 .. Len(portfolio.sectors) : i <= turn' => KeepsCap(weights', i)
  <2> SUFFICES ASSUME NEW i \in 1 .. Len(portfolio.sectors), i <= turn' PROVE KeepsCap(weights', i)
    OBVIOUS
  <2>1. i = n \/ i <= turn
    BY <1>1, <1>2 DEF n
  <2> QED BY <1>1, <1>6, <1>7, <2>1
<1>9. /\ KeepsSides(weights)' /\ KeepsRules(weights)'
      /\ (\A i \in 1 .. Len(portfolio.sectors) : i <= turn => KeepsCap(weights, i))'
  BY <1>1, <1>6, <1>8 DEF KeepsSides, KeepsRules, KeepsCap, MembersOf
<1>10. turn' \in Nat
  BY <1>1 DEF n
<1> QED BY <1>1, <1>5, <1>9, <1>10 DEF ConstraintInv, ConstraintTypes

LEMMA SectorsLeft == ConstraintInv /\ LeaveSectors => ConstraintInv'
<1> SUFFICES ASSUME ConstraintInv, LeaveSectors PROVE ConstraintInv'
  OBVIOUS
<1>1. /\ portfolio \in Portfolios /\ portfolio' = portfolio /\ Held1' = Held1
      /\ weights \in [Held1 -> Int] /\ weights' = weights /\ turn \in Nat /\ turn' = 0
      /\ step = "sectors" /\ step' = "correlation"
      /\ label \in [Held1 -> Held1] /\ label' = label /\ KeepsSides(weights) /\ KeepsRules(weights)
      /\ \A i \in 1 .. Len(portfolio.sectors) : i <= turn => KeepsCap(weights, i)
      /\ turn = Len(portfolio.sectors)
  BY DEF ConstraintInv, ConstraintTypes, LeaveSectors, Held1
<1>2. \A i \in 1 .. Len(portfolio.sectors) : KeepsCap(weights, i)
  BY <1>1
<1>3. /\ KeepsSides(weights)' /\ KeepsRules(weights)'
      /\ (\A i \in 1 .. Len(portfolio.sectors) : KeepsCap(weights, i))'
  BY <1>1, <1>2 DEF KeepsSides, KeepsRules, KeepsCap, MembersOf
<1>4. \A i \in 1 .. Len(portfolio.correlations) : ~(i <= 0)
  OBVIOUS
<1> QED BY <1>1, <1>3, <1>4 DEF ConstraintInv, ConstraintTypes

LEMMA PairsJoin == ConstraintInv /\ JoinPair => ConstraintInv'
<1> SUFFICES ASSUME ConstraintInv, JoinPair PROVE ConstraintInv'
  OBVIOUS
<1> DEFINE n == turn + 1
           pair == portfolio.correlations[n]
<1>1. /\ portfolio \in Portfolios /\ portfolio' = portfolio /\ Held1' = Held1
      /\ weights \in [Held1 -> Int] /\ weights' = weights /\ turn \in Nat /\ turn' = n
      /\ step = "correlation" /\ step' = "correlation"
      /\ label \in [Held1 -> Held1] /\ KeepsSides(weights) /\ KeepsRules(weights)
      /\ \A i \in 1 .. Len(portfolio.sectors) : KeepsCap(weights, i)
      /\ \A i \in 1 .. Len(portfolio.correlations) : i <= turn => PairJoined(label, i)
      /\ label' = Join(label, pair)
  BY DEF ConstraintInv, ConstraintTypes, JoinPair, Held1
<1>2. Len(portfolio.correlations) \in Nat
  BY <1>1, ArgumentsTyped
<1> HIDE DEF pair
\* Labels that were equal stay equal.
<1>3. /\ label' \in [Held1 -> Held1]
      /\ \A a, b \in Held1 : label[a] = label[b] => label'[a] = label'[b]
      /\ pair.score > ClusterThreshold /\ {pair.a, pair.b} \subseteq Held1 => label'[pair.a] = label'[pair.b]
  <2>1. CASE pair.score <= ClusterThreshold \/ ~({pair.a, pair.b} \subseteq Held1)
    <3>1. label' = label
      BY <1>1, <2>1 DEF Join
    <3>2. ~(pair.score > ClusterThreshold) \/ ~({pair.a, pair.b} \subseteq Held1)
      <4>1. n \in 1 .. Len(portfolio.correlations)
        BY <1>1, <1>2 DEF JoinPair
      <4>2. portfolio.correlations \in Seq([a : STRING, b : STRING, score : -100 .. 100])
        BY <1>1, PortfolioAssumption
      <4>3. pair.score \in Int
        <5> DEFINE R == [a : STRING, b : STRING, score : -100 .. 100]
                   s == portfolio.correlations
        <5>1. \A r \in R : r.score \in Int
          OBVIOUS
        <5>2. s \in Seq(R) /\ n \in 1 .. Len(s)
          BY <4>1, <4>2
        <5> HIDE DEF R, s, n
        <5>3. s[n] \in R
          BY <5>2
        <5> QED BY <5>1, <5>3 DEF pair, s
      <4> QED BY <2>1, <4>3 DEF ClusterThreshold
    <3> QED BY <1>1, <3>1, <3>2
  <2>2. CASE ~(pair.score <= ClusterThreshold \/ ~({pair.a, pair.b} \subseteq Held1))
    <3>1. label' = [a \in Held1 |-> IF label[a] = label[pair.b] THEN label[pair.a] ELSE label[a]]
      BY <1>1, <2>2 DEF Join
    <3>2. pair.a \in Held1 /\ pair.b \in Held1
      BY <2>2
    <3> QED BY <1>1, <3>1, <3>2
  <2> QED BY <2>1, <2>2
<1>4. \A i \in 1 .. Len(portfolio.correlations) : i <= turn' => PairJoined(label', i)
  <2> SUFFICES ASSUME NEW i \in 1 .. Len(portfolio.correlations), i <= turn' PROVE PairJoined(label', i)
    OBVIOUS
  <2>1. CASE i = n
    BY <1>3, <2>1 DEF PairJoined, pair
  <2>2. CASE i <= turn
    BY <1>1, <1>3, <2>2 DEF PairJoined
  <2> QED BY <1>1, <1>2, <2>1, <2>2
<1>5. /\ KeepsSides(weights)' /\ KeepsRules(weights)'
      /\ (\A i \in 1 .. Len(portfolio.sectors) : KeepsCap(weights, i))'
      /\ (\A i \in 1 .. Len(portfolio.correlations) : i <= turn => PairJoined(label, i))'
  BY <1>1, <1>4 DEF KeepsSides, KeepsRules, KeepsCap, MembersOf, PairJoined
<1>6. turn' \in Nat
  BY <1>1
<1> HIDE DEF n
<1>7. ConstraintTypes'
  BY <1>1, <1>6 DEF ConstraintTypes
<1> QED BY <1>1, <1>3, <1>5, <1>7 DEF ConstraintInv

\* What correlation connects has one label at the end of the loop.
LEMMA ConnectedShares ==
  ASSUME label \in [Held1 -> Held1],
         \A i \in 1 .. Len(portfolio.correlations) : PairJoined(label, i),
         NEW group \in SUBSET Held1, Connected(group), NEW a \in group
  PROVE  group \subseteq Cluster(a)
<1> DEFINE part == {b \in group : label[b] = label[a]}
<1>1. part \in SUBSET group /\ a \in part
  OBVIOUS
<1>2. CASE part = group
  BY <1>2 DEF Cluster
<1>3. CASE part # group
  <2>1. PICK x \in part, y \in group \ part : Tied(x, y)
    <3>1. part \notin {{}, group}
      BY <1>1, <1>3
    <3> HIDE DEF part
    <3> QED BY <1>1, <3>1 DEF Connected
  <2>2. label[x] = label[a] /\ label[y] # label[a] /\ x \in Held1 /\ y \in Held1
    BY <2>1
  <2>3. PICK i \in 1 .. Len(portfolio.correlations) :
          /\ portfolio.correlations[i].score > ClusterThreshold
          /\ {portfolio.correlations[i].a, portfolio.correlations[i].b} = {x, y}
    BY <2>1 DEF Tied
  <2>4. PairJoined(label, i)
    OBVIOUS
  <2>5. label[portfolio.correlations[i].a] = label[portfolio.correlations[i].b]
    BY <2>2, <2>3, <2>4 DEF PairJoined
  <2>6. label[x] = label[y]
    BY <2>3, <2>5
  <2> QED BY <2>2, <2>6
<1> QED BY <1>2, <1>3

\* Who is connected is in the arguments.
LEMMA SameGroups ==
  ASSUME portfolio' = portfolio, KeepsGroups(weights')
  PROVE  KeepsGroups(weights)'
<1>1. \A a, b : Tied(a, b)' <=> Tied(a, b)
  BY DEF Tied
<1>2. ASSUME NEW group PROVE Connected(group)' <=> Connected(group)
  <2>1. Connected(group)' <=> \A part \in SUBSET group :
          part \notin {{}, group} => \E a \in part, b \in group \ part : Tied(a, b)'
    BY DEF Connected
  <2>2. Connected(group) <=> \A part \in SUBSET group :
          part \notin {{}, group} => \E a \in part, b \in group \ part : Tied(a, b)
    BY DEF Connected
  <2> QED BY <1>1, <2>1, <2>2
<1>3. Held1' = Held1
  BY DEF Held1
<1>4. KeepsGroups(weights)' <=>
        \A group \in SUBSET Held1' : Cardinality(group) > 1 /\ Connected(group)' => Exposure(weights', group) <= ClusterMax
  BY DEF KeepsGroups, Exposure, ClusterMax
<1>5. \A group \in SUBSET Held1 : Cardinality(group) > 1 /\ Connected(group) => Exposure(weights', group) <= ClusterMax
  BY DEF KeepsGroups
<1> QED BY <1>2, <1>3, <1>4, <1>5

LEMMA ClustersDampened == ConstraintInv /\ DampenClusters => ConstraintInv'
<1> SUFFICES ASSUME ConstraintInv, DampenClusters PROVE ConstraintInv'
  OBVIOUS
<1> DEFINE sum(a) == Exposure(weights, Cluster(a))
<1>1. /\ portfolio \in Portfolios /\ portfolio' = portfolio /\ Held1' = Held1
      /\ weights \in [Held1 -> Int] /\ turn \in Nat /\ turn' = turn
      /\ step = "correlation" /\ step' = "budget"
      /\ label \in [Held1 -> Held1] /\ KeepsSides(weights) /\ KeepsRules(weights)
      /\ \A i \in 1 .. Len(portfolio.sectors) : KeepsCap(weights, i)
      /\ weights' = [a \in Held1 |-> IF Cluster(a) # {a} /\ sum(a) > ClusterMax
                                     THEN Scale(weights[a], ClusterMax, sum(a)) ELSE weights[a]]
  BY DEF ConstraintInv, ConstraintTypes, DampenClusters, Held1
<1>2. /\ IsFiniteSet(Held1) /\ Len(portfolio.correlations) \in Nat
      /\ \A i \in 1 .. Len(portfolio.sectors) : portfolio.sectors[i].max \in Nat
  BY <1>1, ArgumentsTyped
<1>3. \A i \in 1 .. Len(portfolio.correlations) : PairJoined(label, i)
  <2>1. turn = Len(portfolio.correlations)
        /\ \A i \in 1 .. Len(portfolio.correlations) : i <= turn => PairJoined(label, i)
    BY DEF ConstraintInv, DampenClusters
  <2> QED BY <1>2, <2>1
<1>4. \A a \in Held1 : Cluster(a) \in SUBSET Held1 /\ a \in Cluster(a) /\ sum(a) \in Nat
  <2> SUFFICES ASSUME NEW a \in Held1 PROVE Cluster(a) \in SUBSET Held1 /\ a \in Cluster(a) /\ sum(a) \in Nat
    OBVIOUS
  <2>1. Cluster(a) \in SUBSET Held1 /\ a \in Cluster(a) /\ Cluster(a) \in SUBSET Cluster(a)
    BY DEF Cluster
  <2>2. \A b \in Held1 : Toward(weights[b], weights[b])
    BY <1>1 DEF Toward
  <2> QED BY <1>1, <1>2, <2>1, <2>2, ExposureShrinks
<1> HIDE DEF sum
<1>5. weights' \in [Held1 -> Int] /\ \A a \in Held1 : Toward(weights'[a], weights[a])
  <2> SUFFICES ASSUME NEW a \in Held1 PROVE weights'[a] \in Int /\ Toward(weights'[a], weights[a])
    BY <1>1
  <2>1. /\ weights[a] \in Int /\ sum(a) \in Nat /\ ClusterMax \in Nat
        /\ weights'[a] = IF Cluster(a) # {a} /\ sum(a) > ClusterMax
                         THEN Scale(weights[a], ClusterMax, sum(a)) ELSE weights[a]
    BY <1>1, <1>4 DEF ClusterMax
  <2>2. CASE Cluster(a) # {a} /\ sum(a) > ClusterMax
    BY <2>1, <2>2, ScaleShrinks
  <2>3. CASE ~(Cluster(a) # {a} /\ sum(a) > ClusterMax)
    BY <2>1, <2>3 DEF Toward
  <2> QED BY <2>2, <2>3
<1>6. /\ KeepsSides(weights') /\ KeepsRules(weights')
      /\ \A i \in 1 .. Len(portfolio.sectors) : KeepsCap(weights, i) => KeepsCap(weights', i)
  BY <1>1, <1>5, ShrinkingKeeps DEF ConstraintInv
<1>7. KeepsGroups(weights')
  <2> SUFFICES ASSUME NEW group \in SUBSET Held1, Cardinality(group) > 1, Connected(group)
               PROVE  Exposure(weights', group) <= ClusterMax
    BY DEF KeepsGroups
  <2>1. PICK a \in group : group # {a}
    <3>1. group # {}
      BY FS_EmptySet
    <3>2. PICK a \in group : TRUE
      BY <3>1
    <3>3. Cardinality({a}) = 1
      BY FS_Singleton
    <3> QED BY <3>2, <3>3
  <2>2. group \subseteq Cluster(a)
    BY <1>1, <1>3, ConnectedShares
  <2>3. a \in Held1 /\ Cluster(a) # {a} /\ Cluster(a) \in SUBSET Held1 /\ group \in SUBSET Cluster(a)
    BY <1>4, <2>1, <2>2
  <2>4. \A b \in Cluster(a) : Cluster(b) = Cluster(a) /\ Cluster(b) # {b} /\ sum(b) = sum(a)
    <3> SUFFICES ASSUME NEW b \in Cluster(a)
                 PROVE  Cluster(b) = Cluster(a) /\ Cluster(b) # {b} /\ sum(b) = sum(a)
      OBVIOUS
    <3>1. Cluster(b) = Cluster(a)
      BY DEF Cluster
    <3>2. PICK c \in Cluster(a) : c # a
      BY <1>4, <2>3
    <3>3. a \in Cluster(a)
      BY <1>4, <2>3
    <3> QED BY <3>1, <3>2, <3>3 DEF sum
  <2>5. /\ \A b \in Held1 : Toward(weights'[b], weights'[b])
        /\ \A b \in Held1 : Toward(weights[b], weights[b])
    BY <1>1, <1>5 DEF Toward
  <2>6. Exposure(weights', Cluster(a)) <= ClusterMax
    <3>1. CASE sum(a) > ClusterMax
      <4>1. Exposure(weights, Cluster(a)) > ClusterMax
        BY <3>1 DEF sum
      <4>2. \A b \in Cluster(a) : weights'[b] = Scale(weights[b], ClusterMax, Exposure(weights, Cluster(a)))
        <5> SUFFICES ASSUME NEW b \in Cluster(a)
                     PROVE  weights'[b] = Scale(weights[b], ClusterMax, Exposure(weights, Cluster(a)))
          OBVIOUS
        <5>1. b \in Held1 /\ Cluster(b) # {b} /\ sum(b) = sum(a) /\ sum(a) = Exposure(weights, Cluster(a))
          BY <2>3, <2>4 DEF sum
        <5> QED BY <1>1, <3>1, <5>1
      <4>3. /\ IsFiniteSet(Held1) /\ weights' \in [Held1 -> Int] /\ weights \in [Held1 -> Int]
            /\ Cluster(a) \in SUBSET Held1 /\ ClusterMax \in Nat
        BY <1>1, <1>2, <1>5, <2>3 DEF ClusterMax
      <4> QED BY <4>1, <4>2, <4>3, ScaledWithin, Zenon
    <3>2. CASE ~(sum(a) > ClusterMax)
      <4>1. /\ Exposure(weights, Cluster(a)) \in Nat
            /\ Exposure(weights', Cluster(a)) <= Exposure(weights, Cluster(a))
        BY <1>1, <1>2, <1>5, <2>3, ExposureShrinks
      <4>2. Exposure(weights', Cluster(a)) \in Nat
        BY <1>2, <1>5, <2>3, <2>5, ExposureShrinks
      <4> QED BY <3>2, <4>1, <4>2 DEF sum, ClusterMax
    <3> QED BY <3>1, <3>2
  <2>7. /\ Exposure(weights', group) <= Exposure(weights', Cluster(a))
        /\ Exposure(weights', Cluster(a)) \in Nat
    BY <1>2, <1>5, <2>3, <2>5, ExposureShrinks
  <2>8. Exposure(weights', group) \in Nat
    <3>1. group \in SUBSET group
      OBVIOUS
    <3> QED BY <1>2, <1>5, <2>5, <3>1, ExposureShrinks
  <2> QED BY <2>6, <2>7, <2>8 DEF ClusterMax
<1>8. /\ KeepsSides(weights)' /\ KeepsRules(weights)' /\ KeepsGroups(weights)'
      /\ (\A i \in 1 .. Len(portfolio.sectors) : KeepsCap(weights, i))'
  <2>1. KeepsGroups(weights)'
    BY <1>1, <1>6, <1>7, SameGroups
  <2> QED BY <1>1, <1>6, <1>7, <2>1 DEF KeepsSides, KeepsRules, KeepsCap, MembersOf
<1> QED BY <1>1, <1>5, <1>8 DEF ConstraintInv, ConstraintTypes

LEMMA BudgetEnforced == ConstraintInv /\ EnforceBudget => ConstraintInv'
<1> SUFFICES ASSUME ConstraintInv, EnforceBudget PROVE ConstraintInv'
  OBVIOUS
<1> DEFINE budget == portfolio.budget[1]
           over == portfolio.budget # <<>> /\ Risk(weights) > budget
           g == [a \in DOMAIN weights' |-> Magnitude(weights'[a]) * portfolio.risk[a]]
           h == [a \in DOMAIN weights |-> Magnitude(weights[a]) * portfolio.risk[a]]
<1>1. /\ portfolio \in Portfolios /\ portfolio' = portfolio /\ Held1' = Held1
      /\ weights \in [Held1 -> Int] /\ turn \in Nat /\ turn' = turn
      /\ step = "budget" /\ step' = "done"
      /\ KeepsSides(weights) /\ KeepsRules(weights) /\ KeepsGroups(weights)
      /\ \A i \in 1 .. Len(portfolio.sectors) : KeepsCap(weights, i)
      /\ weights' = [a \in Held1 |-> IF portfolio.budget # <<>> /\ Risk(weights) > budget /\ portfolio.risk[a] > 0
                                     THEN Scale(weights[a], budget, Risk(weights)) ELSE weights[a]]
  BY DEF ConstraintInv, ConstraintTypes, EnforceBudget, Held1
<1>2. /\ IsFiniteSet(Held1) /\ \A a \in Held1 : portfolio.risk[a] \in Nat
      /\ portfolio.budget # <<>> => budget \in Nat
  BY <1>1, ArgumentsTyped
<1>3. DOMAIN weights = Held1 /\ DOMAIN weights' = Held1
  BY <1>1
<1>4. Risk(weights) = SumFunctionOnSet(h, Held1) /\ Risk(weights)' = SumFunctionOnSet(g, Held1)
  BY <1>1, <1>3 DEF Risk
<1>5. \A a \in Held1 : h[a] = Magnitude(weights[a]) * portfolio.risk[a] /\ h[a] \in Nat
  <2> SUFFICES ASSUME NEW a \in Held1 PROVE h[a] = Magnitude(weights[a]) * portfolio.risk[a] /\ h[a] \in Nat
    OBVIOUS
  <2>1. Magnitude(weights[a]) \in Nat /\ portfolio.risk[a] \in Nat
    BY <1>1, <1>2 DEF Magnitude
  <2>2. \A x, y \in Nat : x * y \in Nat
    OBVIOUS
  <2> QED BY <1>3, <2>1, <2>2
<1>6. \A a \in Held1 : g[a] = Magnitude(weights'[a]) * portfolio.risk[a]
  BY <1>3
<1> HIDE DEF g, h, budget
<1>7. Risk(weights) \in Nat
  <2>1. Held1 \in SUBSET Held1
    OBVIOUS
  <2>2. \A a \in Held1 : h[a] \in Nat
    BY <1>5
  <2>3. SumFunctionOnSet(h, Held1) \in Nat
    BY <1>2, <2>1, <2>2, SumGrows, Zenon
  <2> QED BY <1>4, <2>3
<1>8. weights' \in [Held1 -> Int] /\ \A a \in Held1 : Toward(weights'[a], weights[a])
  <2> SUFFICES ASSUME NEW a \in Held1 PROVE weights'[a] \in Int /\ Toward(weights'[a], weights[a])
    BY <1>1
  <2>1. /\ weights[a] \in Int
        /\ weights'[a] = IF over /\ portfolio.risk[a] > 0 THEN Scale(weights[a], budget, Risk(weights)) ELSE weights[a]
    BY <1>1
  <2>2. CASE over /\ portfolio.risk[a] > 0
    BY <1>2, <1>7, <2>1, <2>2, ScaleShrinks
  <2>3. CASE ~(over /\ portfolio.risk[a] > 0)
    BY <2>1, <2>3 DEF Toward
  <2> QED BY <2>2, <2>3
<1>9. /\ KeepsSides(weights') /\ KeepsRules(weights') /\ KeepsGroups(weights')
      /\ \A i \in 1 .. Len(portfolio.sectors) : KeepsCap(weights, i) => KeepsCap(weights', i)
  BY <1>1, <1>8, ShrinkingKeeps DEF ConstraintInv
<1>10. portfolio.budget # <<>> => Risk(weights)' <= budget
  <2> SUFFICES ASSUME portfolio.budget # <<>> PROVE Risk(weights)' <= budget
    OBVIOUS
  <2> DEFINE R == Risk(weights)
  <2>1. R \in Nat /\ budget \in Nat
    BY <1>2, <1>7
  <2>2. CASE R > budget
    <3> HIDE DEF R
    <3>1. \A a \in Held1 : g[a] \in Int /\ h[a] \in Int /\ R * g[a] <= budget * h[a]
      <4> SUFFICES ASSUME NEW a \in Held1 PROVE g[a] \in Int /\ h[a] \in Int /\ R * g[a] <= budget * h[a]
        OBVIOUS
      <4> DEFINE k == portfolio.risk[a]
                 x == Magnitude(weights'[a])
                 y == Magnitude(weights[a])
      <4>1. k \in Nat /\ x \in Nat /\ y \in Nat /\ g[a] = x * k /\ h[a] = y * k
        BY <1>1, <1>2, <1>5, <1>6, <1>8 DEF Magnitude
      <4>2. k > 0 => R * x <= budget * y
        <5> SUFFICES ASSUME k > 0 PROVE R * x <= budget * y
          OBVIOUS
        <5>1. weights'[a] = Scale(weights[a], budget, R) /\ weights[a] \in Int
          BY <1>1, <2>2 DEF R
        <5> QED BY <2>1, <2>2, <5>1, ScaleShrinks
      <4> HIDE DEF k, x, y
      <4>3. CASE k = 0
        <5>1. x * k = 0 /\ y * k = 0
          BY <4>1, <4>3
        <5> QED BY <2>1, <4>1, <5>1
      <4>4. CASE k > 0
        <5>1. \A u, v \in Nat, m \in Nat : u <= v => u * m <= v * m
          <6> SUFFICES ASSUME NEW u \in Nat, NEW v \in Nat, NEW m \in Nat, u <= v PROVE u * m <= v * m
            OBVIOUS
          <6>1. \A d \in Nat : (u + d) * m = u * m + d * m /\ d * m \in Nat
            OBVIOUS
          <6>2. v - u \in Nat /\ u + (v - u) = v /\ u * m \in Nat
            OBVIOUS
          <6>3. v * m = u * m + (v - u) * m /\ (v - u) * m \in Nat
            BY <6>1, <6>2
          <6> QED BY <6>2, <6>3
        <5>2. R * x \in Nat /\ budget * y \in Nat
          <6>1. \A u, v \in Nat : u * v \in Nat
            OBVIOUS
          <6> QED BY <2>1, <4>1, <6>1
        <5>3. (R * x) * k <= (budget * y) * k
          BY <4>1, <4>2, <4>4, <5>1, <5>2
        <5>4. \A u, v, m \in Nat : (u * v) * m = u * (v * m) /\ v * m \in Nat
          OBVIOUS
        <5>5. (R * x) * k = R * (x * k) /\ (budget * y) * k = budget * (y * k) /\ x * k \in Nat /\ y * k \in Nat
          BY <2>1, <4>1, <5>4
        <5> QED BY <4>1, <5>3, <5>5
      <4> QED BY <4>1, <4>3, <4>4
    <3>2. R \in Int /\ budget \in Int
      BY <2>1
    <3>3. R * SumFunctionOnSet(g, Held1) <= budget * SumFunctionOnSet(h, Held1)
      BY <1>2, <3>1, <3>2, SumBound, Zenon
    <3>4. SumFunctionOnSet(g, Held1) \in Int
      BY <1>2, <3>1, SumInt
    <3>5. R * SumFunctionOnSet(g, Held1) <= budget * R /\ R > 0
      BY <1>4, <2>1, <2>2, <3>3 DEF R
    <3> QED BY <1>4, <2>1, <3>4, <3>5, CancelFactor
  <2>3. CASE ~(R > budget)
    <3>1. weights' = weights
      <4>1. \A a \in Held1 : weights'[a] = weights[a]
        BY <1>1, <2>3
      <4> QED BY <1>1, <1>8, <4>1
    <3>2. Risk(weights)' = Risk(weights)
      BY <1>1, <3>1 DEF Risk
    <3> QED BY <2>1, <2>3, <3>2
  <2> QED BY <2>2, <2>3
<1>11. /\ KeepsSides(weights)' /\ KeepsRules(weights)' /\ KeepsGroups(weights)'
      /\ (\A i \in 1 .. Len(portfolio.sectors) : KeepsCap(weights, i))'
  <2>1. KeepsGroups(weights)'
    BY <1>1, <1>9, SameGroups
  <2> QED BY <1>1, <1>9, <2>1 DEF KeepsSides, KeepsRules, KeepsCap, MembersOf
<1>12. (portfolio.budget # <<>> => Risk(weights) <= portfolio.budget[1])'
  BY <1>1, <1>10 DEF budget
<1> QED BY <1>1, <1>8, <1>11, <1>12 DEF ConstraintInv, ConstraintTypes

LEMMA ConstraintsStep == ConstraintInv /\ [ConstraintNext]_constraintVars => ConstraintInv'
<1> SUFFICES ASSUME ConstraintInv, [ConstraintNext]_constraintVars PROVE ConstraintInv'
  OBVIOUS
<1>1. CASE ClampExposure
  BY <1>1, ExposureClamps
<1>2. CASE CapSector
  BY <1>2, SectorCapped
<1>3. CASE LeaveSectors
  BY <1>3, SectorsLeft
<1>4. CASE JoinPair
  BY <1>4, PairsJoin
<1>5. CASE DampenClusters
  BY <1>5, ClustersDampened
<1>6. CASE EnforceBudget
  BY <1>6, BudgetEnforced
<1>7. CASE UNCHANGED constraintVars
  <2>1. portfolio' = portfolio /\ weights' = weights /\ label' = label /\ turn' = turn /\ step' = step
    BY <1>7 DEF constraintVars
  <2>2. KeepsGroups(weights) => KeepsGroups(weights)'
    BY <2>1, SameGroups
  <2> QED BY <2>1, <2>2 DEF ConstraintInv, ConstraintTypes, Held1, KeepsSides, KeepsRules, KeepsCap,
                            MembersOf, PairJoined, Risk
<1> QED BY <1>1, <1>2, <1>3, <1>4, <1>5, <1>6, <1>7 DEF ConstraintNext

\* At the end the constraints hold of whatever portfolio the call is given
\* (aille_portfolio_constraints.cpp:26).
THEOREM ConstraintsAlwaysHold ==
  ConstraintInit /\ [][ConstraintNext]_constraintVars => []ConstraintsHold
<1>1. ConstraintInv => ConstraintsHold
  <2> SUFFICES ASSUME ConstraintInv, step = "done" PROVE ConstraintsHold
    BY DEF ConstraintsHold
  <2>1. \A a \in Held1 : weights[a] * portfolio.proposed[a] >= 0 /\ Magnitude(weights[a]) <= Magnitude(portfolio.proposed[a])
    <3> SUFFICES ASSUME NEW a \in Held1
                 PROVE  weights[a] * portfolio.proposed[a] >= 0 /\ Magnitude(weights[a]) <= Magnitude(portfolio.proposed[a])
      OBVIOUS
    <3>1. portfolio \in Portfolios /\ weights[a] \in Int /\ Toward(weights[a], portfolio.proposed[a])
      BY DEF ConstraintInv, ConstraintTypes, KeepsSides
    <3>2. portfolio.proposed[a] \in Int
      BY <3>1, ArgumentsTyped
    <3> QED BY <3>1, <3>2, SameSide
  <2>2. /\ KeepsRules(weights) /\ KeepsGroups(weights)
        /\ \A i \in 1 .. Len(portfolio.sectors) : KeepsCap(weights, i)
        /\ portfolio.budget # <<>> => Risk(weights) <= portfolio.budget[1]
    BY DEF ConstraintInv
  <2> QED BY <2>1, <2>2 DEF ConstraintsHold, KeepsRules, KeepsGroups, KeepsCap
<1> QED BY <1>1, ConstraintsBegin, ConstraintsStep, PTL

-----------------------------------------------------------------------------
(* Layer 9: amounts are within what each limit leaves.                      *)

\* What the arguments of a call are.
LEMMA BookTyped ==
  ASSUME book \in Books
  PROVE  /\ RouteUnit \in Nat \ {0} /\ book.order \in Seq(Assets) /\ IsInjective(book.order)
         /\ Known \in SUBSET Assets /\ IsFiniteSet(Known)
         /\ book.value \in [Assets -> Nat]
         /\ \A a \in Assets :
              /\ book.alloc[a] \in Ratios /\ book.target[a] \in Ratios /\ book.outflow[a] \in Ratios
              /\ book.inflow[a] \in Ratios /\ book.share[a] \in Ratios
              /\ book.rule[a] # <<>> => book.rule[a][1] \in Assets /\ book.rule[a][2] \in Assets
         /\ book.shift \in Ratios /\ book.total \in Ratios
<1>1. /\ RouteUnit \in Nat \ {0} /\ book.order \in Seq(Assets) /\ IsInjective(book.order)
      /\ book.value \in [Assets -> Nat]
      /\ {book.alloc, book.target, book.outflow, book.inflow, book.share} \subseteq [Assets -> Ratios]
      /\ book.rule \in [Assets -> {<<>>} \cup (Assets \X Assets)]
      /\ book.shift \in Ratios /\ book.total \in Ratios
  BY RouteAssumption
<1>2. Known \in SUBSET Assets /\ IsFiniteSet(Known)
  <2> DEFINE n == Len(book.order)
  <2>1. n \in Nat /\ DOMAIN book.order = 1 .. n /\ \A i \in 1 .. n : book.order[i] \in Assets
    BY <1>1
  <2>2. Known = {book.order[i] : i \in 1 .. n}
    BY <2>1 DEF Known, Range
  <2>3. IsFiniteSet(1 .. n)
    BY <2>1, FS_Interval
  <2>4. book.order \in [1 .. n -> Assets]
    BY <1>1
  <2>5. book.order \in Surjection(1 .. n, Known)
    BY <2>1, <2>2, <2>4 DEF Surjection
  <2>6. IsFiniteSet(Known)
    BY <2>3, <2>5, FS_Surjection
  <2> QED BY <2>1, <2>2, <2>6
<1>3. \A a \in Assets : book.rule[a] # <<>> => book.rule[a][1] \in Assets /\ book.rule[a][2] \in Assets
  BY <1>1
<1> QED BY <1>1, <1>2, <1>3

\* A share of an amount is at most the amount.
LEMMA ShareAtMost ==
  ASSUME book \in Books, NEW n \in Nat, NEW r \in Ratios
  PROVE  Share(n, r) \in 0 .. n /\ Share(n, r) \in Nat
<1>1. RouteUnit \in Nat /\ RouteUnit > 0 /\ r \in Nat /\ RouteUnit >= r
  BY BookTyped DEF Ratios
<1>2. (n * r) \div RouteUnit \in 0 .. n
  BY <1>1, Quotient
<1> QED BY <1>2 DEF Share

LEMMA PortfolioValueNat == ASSUME book \in Books PROVE PortfolioValue \in Nat
<1>1. IsFiniteSet(Known) /\ \A a \in Known : book.value[a] \in Nat
  BY BookTyped
<1>2. Known \in SUBSET Known
  OBVIOUS
<1>3. SumFunctionOnSet(book.value, Known) \in Nat
  BY <1>1, <1>2, SumGrows, Zenon
<1> QED BY <1>3 DEF PortfolioValue

LEMMA SmallerLarger ==
  ASSUME NEW x \in Int, NEW y \in Int
  PROVE  /\ Min({x, y}) = (IF x <= y THEN x ELSE y)
         /\ Max({x, y}) = (IF x >= y THEN x ELSE y)
BY DEF Min, Max

LEMMA MovableNat == ASSUME book \in Books, NEW a \in Assets PROVE Movable(a) \in Nat
<1> DEFINE surplus == Max({0, book.alloc[a] - book.target[a]})
<1>1. RouteUnit \in Nat /\ book.alloc[a] \in 0 .. RouteUnit /\ book.target[a] \in 0 .. RouteUnit
      /\ book.outflow[a] \in Ratios /\ book.value[a] \in Nat
  BY BookTyped DEF Ratios
<1>2. surplus \in Ratios
  <2>1. book.alloc[a] - book.target[a] \in Int
    BY <1>1
  <2>2. surplus = IF 0 >= book.alloc[a] - book.target[a] THEN 0 ELSE book.alloc[a] - book.target[a]
    <3> DEFINE d == book.alloc[a] - book.target[a]
    <3>1. d \in Int /\ 0 \in Int
      BY <2>1
    <3> HIDE DEF d
    <3>2. Max({0, d}) = IF 0 >= d THEN 0 ELSE d
      BY <3>1, SmallerLarger
    <3> QED BY <3>2 DEF d
  <2> QED BY <1>1, <2>2 DEF Ratios
<1> HIDE DEF surplus
<1>3. Share(PortfolioValue, surplus) \in Nat /\ Share(book.value[a], book.outflow[a]) \in Nat
  BY <1>1, <1>2, PortfolioValueNat, ShareAtMost
<1>4. Movable(a) = Min({Share(PortfolioValue, surplus), Share(book.value[a], book.outflow[a])})
  BY DEF Movable, surplus
<1>5. Share(PortfolioValue, surplus) \in Int /\ Share(book.value[a], book.outflow[a]) \in Int
  BY <1>3
<1>6. Movable(a) = IF Share(PortfolioValue, surplus) <= Share(book.value[a], book.outflow[a])
                   THEN Share(PortfolioValue, surplus) ELSE Share(book.value[a], book.outflow[a])
  BY <1>4, <1>5, SmallerLarger
<1> QED BY <1>3, <1>6

-----------------------------------------------------------------------------
\* Flows between assets of the book, of no more than what their sources may
\* move, none to what is frozen.
FlowsSound(fs) ==
  /\ DOMAIN fs \in SUBSET Known
  /\ \A a \in DOMAIN fs :
       /\ fs[a] = [to |-> fs[a].to, amount |-> fs[a].amount]
       /\ fs[a].amount \in 0 .. Movable(a)
       /\ fs[a].to \in Known \ {a} /\ ~book.frozen[fs[a].to]

\* No asset takes in more than its cap.
InflowsCapped(fs) == \A a \in Known : Total(fs, Into(fs, a)) <= Share(book.value[a], book.inflow[a])

RouteInv ==
  /\ book \in Books
  /\ considered \in 0 .. Len(book.order)
  /\ stage \in {"route", "scale", "done"}
  /\ FlowsSound(flows)
  /\ InflowsCapped(flows)
  /\ stage = "route" =>
       /\ taken \in [Assets -> Nat]
       /\ \A a \in Known : taken[a] = Total(flows, Into(flows, a))
       /\ \A a \in DOMAIN flows : \E i \in 1 .. considered : a = book.order[i]
  /\ stage = "done" =>
       /\ Shift(flows) <= AllowedShift
       /\ \A a \in DOMAIN flows : flows[a].amount > 0

\* A flow with another amount.
LEMMA RecordAmount ==
  ASSUME NEW r, r = [to |-> r.to, amount |-> r.amount], NEW x
  PROVE  [r EXCEPT !.amount = x] = [to |-> r.to, amount |-> x]
<1> DEFINE t == r.to
           n == r.amount
<1> HIDE DEF t, n
<1>1. r = [to |-> t, amount |-> n]
  BY DEF t, n
<1>2. [[to |-> t, amount |-> n] EXCEPT !.amount = x] = [to |-> t, amount |-> x]
  OBVIOUS
<1> QED BY <1>1, <1>2 DEF t

\* The amounts of sound flows have sums.
LEMMA TotalNat ==
  ASSUME book \in Books, NEW fs, FlowsSound(fs), NEW S \in SUBSET DOMAIN fs
  PROVE  Total(fs, S) \in Nat /\ IsFiniteSet(S)
<1> DEFINE g == [a \in DOMAIN fs |-> fs[a].amount]
<1>1. IsFiniteSet(S)
  BY BookTyped, FS_Subset DEF FlowsSound
<1>2. \A a \in S : g[a] \in Nat
  <2> SUFFICES ASSUME NEW a \in S PROVE g[a] \in Nat
    OBVIOUS
  <2>1. a \in Assets /\ fs[a].amount \in 0 .. Movable(a)
    BY BookTyped DEF FlowsSound
  <2> QED BY <2>1, MovableNat
<1> HIDE DEF g
<1>3. S \in SUBSET S
  OBVIOUS
<1>4. SumFunctionOnSet(g, S) \in Nat
  BY <1>1, <1>2, <1>3, SumGrows, Zenon
<1> QED BY <1>1, <1>4 DEF Total, g

\* Fewer and smaller flows to the same targets are sound and capped when theirs
\* are.
LEMMA SmallerFlows ==
  ASSUME book \in Books, NEW fs, FlowsSound(fs), InflowsCapped(fs),
         NEW gs, DOMAIN gs \in SUBSET DOMAIN fs,
         \A a \in DOMAIN gs : /\ gs[a] = [to |-> gs[a].to, amount |-> gs[a].amount]
                              /\ gs[a].to = fs[a].to /\ gs[a].amount \in 0 .. fs[a].amount
  PROVE  FlowsSound(gs) /\ InflowsCapped(gs)
<1>1. FlowsSound(gs)
  <2> SUFFICES ASSUME NEW a \in DOMAIN gs
               PROVE  gs[a] = [to |-> gs[a].to, amount |-> gs[a].amount]
               /\ gs[a].amount \in 0 .. Movable(a) /\ gs[a].to \in Known \ {a} /\ ~book.frozen[gs[a].to]
    BY DEF FlowsSound
  <2>1. /\ gs[a] = [to |-> gs[a].to, amount |-> gs[a].amount]
        /\ fs[a].amount \in 0 .. Movable(a) /\ fs[a].to \in Known \ {a} /\ ~book.frozen[fs[a].to]
        /\ a \in Assets /\ gs[a].to = fs[a].to /\ gs[a].amount \in 0 .. fs[a].amount
    BY BookTyped DEF FlowsSound
  <2>2. Movable(a) \in Nat
    BY <2>1, MovableNat
  <2> QED BY <2>1, <2>2
<1>2. InflowsCapped(gs)
  <2> SUFFICES ASSUME NEW t \in Known
               PROVE  Total(gs, Into(gs, t)) <= Share(book.value[t], book.inflow[t])
    BY DEF InflowsCapped
  <2> DEFINE g == [a \in DOMAIN gs |-> gs[a].amount]
             f == [a \in DOMAIN fs |-> fs[a].amount]
             S == Into(gs, t)
             T == Into(fs, t)
  <2>1. S \in SUBSET DOMAIN gs /\ T \in SUBSET DOMAIN fs /\ S \in SUBSET T
    BY DEF Into
  <2>2. IsFiniteSet(S) /\ IsFiniteSet(T) /\ Total(gs, S) \in Nat /\ Total(fs, T) \in Nat
    BY <1>1, <2>1, TotalNat
  <2>3. Total(gs, S) = SumFunctionOnSet(g, S) /\ Total(fs, T) = SumFunctionOnSet(f, T)
    BY DEF Total
  <2>4. \A a \in T : f[a] \in Nat
    <3> SUFFICES ASSUME NEW a \in T PROVE f[a] \in Nat
      OBVIOUS
    <3>1. a \in Assets /\ fs[a].amount \in 0 .. Movable(a)
      BY <2>1, BookTyped DEF FlowsSound
    <3>2. Movable(a) \in Nat
      BY <3>1, MovableNat
    <3> QED BY <2>1, <3>1, <3>2
  <2>5. \A a \in S : g[a] \in Int /\ f[a] \in Int /\ g[a] <= f[a]
    <3> SUFFICES ASSUME NEW a \in S PROVE g[a] \in Int /\ f[a] \in Int /\ g[a] <= f[a]
      OBVIOUS
    <3>1. a \in DOMAIN gs /\ a \in DOMAIN fs /\ g[a] = gs[a].amount /\ f[a] = fs[a].amount /\ f[a] \in Nat
      BY <2>1, <2>4
    <3> HIDE DEF g, f
    <3>2. gs[a].amount \in 0 .. fs[a].amount
      BY <3>1
    <3> QED BY <3>1, <3>2
  <2> HIDE DEF g, f, S, T
  <2>6. SumFunctionOnSet(g, S) <= SumFunctionOnSet(f, S)
    BY <2>2, <2>5, SumAtMost, Zenon
  <2>7. SumFunctionOnSet(f, S) \in Nat /\ SumFunctionOnSet(f, S) <= SumFunctionOnSet(f, T)
    BY <2>1, <2>2, <2>4, SumGrows, Zenon
  <2>8. Total(gs, S) <= Total(fs, T)
    BY <2>2, <2>3, <2>6, <2>7
  <2>9. Total(fs, T) <= Share(book.value[t], book.inflow[t])
    BY DEF InflowsCapped, T
  <2>10. Share(book.value[t], book.inflow[t]) \in Nat
    <3>1. t \in Assets /\ book.value[t] \in Nat /\ book.inflow[t] \in Ratios
      BY BookTyped
    <3> QED BY <3>1, ShareAtMost
  <2> QED BY <2>2, <2>8, <2>9, <2>10 DEF S
<1> QED BY <1>1, <1>2

LEMMA RoutesBegin == RouteInit => RouteInv
<1> SUFFICES ASSUME RouteInit PROVE RouteInv
  OBVIOUS
<1>1. /\ book \in Books /\ considered = 0 /\ taken = [a \in Assets |-> 0] /\ flows = <<>>
      /\ stage = IF PortfolioValue > 0 THEN "route" ELSE "done"
  BY DEF RouteInit
<1>2. DOMAIN flows = {}
  BY <1>1
<1>3. FlowsSound(flows)
  BY <1>2 DEF FlowsSound
<1>4. \A a : Into(flows, a) = {}
  BY <1>2 DEF Into
<1>5. Total(flows, {}) = 0
  BY SumNone DEF Total
<1>6. InflowsCapped(flows)
  <2> SUFFICES ASSUME NEW a \in Known PROVE Total(flows, Into(flows, a)) <= Share(book.value[a], book.inflow[a])
    BY DEF InflowsCapped
  <2>1. a \in Assets /\ book.value[a] \in Nat /\ book.inflow[a] \in Ratios
    BY <1>1, BookTyped
  <2>2. Share(book.value[a], book.inflow[a]) \in Nat
    BY <1>1, <2>1, ShareAtMost
  <2> QED BY <1>4, <1>5, <2>2
<1>7. Len(book.order) \in Nat /\ Known \in SUBSET Assets
  BY <1>1, BookTyped
<1>8. AllowedShift \in Nat
  <2>1. book.total \in Ratios
    BY <1>1, BookTyped
  <2> QED BY <1>1, <2>1, PortfolioValueNat, ShareAtMost DEF AllowedShift
<1>9. Shift(flows) <= AllowedShift
  BY <1>2, <1>5, <1>8 DEF Shift
<1>10. taken \in [Assets -> Nat] /\ \A a \in Known : taken[a] = Total(flows, Into(flows, a))
  BY <1>1, <1>4, <1>5, <1>7
<1> QED BY <1>1, <1>2, <1>3, <1>6, <1>7, <1>9, <1>10 DEF RouteInv

\* A flow of an asset that had none adds its amount to what its target gets.
LEMMA OneMoreFlow ==
  ASSUME book \in Books, NEW fs, FlowsSound(fs), NEW a \in Known \ DOMAIN fs, NEW d \in Nat,
         NEW target \in Known, NEW gs,
         DOMAIN gs = DOMAIN fs \cup {a}, gs[a] = [to |-> target, amount |-> d],
         \A b \in DOMAIN fs : gs[b] = fs[b]
  PROVE  \A t \in Known : Total(gs, Into(gs, t)) = Total(fs, Into(fs, t)) + (IF t = target THEN d ELSE 0)
<1> SUFFICES ASSUME NEW t \in Known
             PROVE  Total(gs, Into(gs, t)) = Total(fs, Into(fs, t)) + (IF t = target THEN d ELSE 0)
  OBVIOUS
<1> DEFINE g == [b \in DOMAIN gs |-> gs[b].amount]
           f == [b \in DOMAIN fs |-> fs[b].amount]
           S == Into(gs, t)
           T == Into(fs, t)
<1>1. DOMAIN gs = DOMAIN fs \cup {a} /\ a \notin DOMAIN fs /\ gs[a] = [to |-> target, amount |-> d]
      /\ \A b \in DOMAIN fs : gs[b] = fs[b]
  OBVIOUS
<1>2. T \in SUBSET DOMAIN fs /\ a \notin T /\ S = IF t = target THEN T \cup {a} ELSE T
  BY <1>1 DEF Into
<1>3. IsFiniteSet(T) /\ Total(fs, T) \in Nat
  BY <1>2, TotalNat
<1>4. Total(gs, S) = SumFunctionOnSet(g, S) /\ Total(fs, T) = SumFunctionOnSet(f, T)
  BY DEF Total
<1>5. \A b \in T : g[b] \in Int /\ f[b] = g[b]
  <2> SUFFICES ASSUME NEW b \in T PROVE g[b] \in Int /\ f[b] = g[b]
    OBVIOUS
  <2>1. b \in DOMAIN fs /\ b \in DOMAIN gs /\ gs[b] = fs[b]
    BY <1>1, <1>2
  <2>2. b \in Assets /\ fs[b].amount \in 0 .. Movable(b)
    BY <2>1, BookTyped DEF FlowsSound
  <2> QED BY <2>1, <2>2
<1>6. g[a] = d
  BY <1>1
<1> HIDE DEF g, f, S, T
<1>7. SumFunctionOnSet(g, T) = SumFunctionOnSet(f, T)
  <2>1. \A b \in T : f[b] \in Int /\ f[b] = g[b]
    BY <1>5
  <2> QED BY <1>3, <2>1, SumSame
<1>8. CASE t = target
  <2>1. S = T \cup {a} /\ IsFiniteSet(S) /\ a \in S /\ S \ {a} = T
    BY <1>2, <1>3, <1>8, FS_AddElement
  <2>2. \A b \in S : g[b] \in Int
    BY <1>5, <1>6, <2>1
  <2>3. SumFunctionOnSet(g, S) = g[a] + SumFunctionOnSet(g, S \ {a})
    BY <2>1, <2>2, SumWithout, Zenon
  <2>4. SumFunctionOnSet(g, S) = d + SumFunctionOnSet(f, T)
    BY <1>6, <1>7, <2>1, <2>3
  <2> QED BY <1>3, <1>4, <1>8, <2>4 DEF S, T
<1>9. CASE t # target
  BY <1>2, <1>3, <1>4, <1>7, <1>9 DEF S, T
<1> QED BY <1>8, <1>9

LEMMA SurplusRouted == RouteInv /\ RouteNext1 => RouteInv'
<1> SUFFICES ASSUME RouteInv, RouteNext1 PROVE RouteInv'
  OBVIOUS
<1> DEFINE a == book.order[considered + 1]
           desired == Share(Movable(a), book.share[a])
           open == {i \in {1, 2} : ~IsBlocked(book.rule[a][i], desired)}
           target == book.rule[a][Min(open)]
           kept == book.rule[a] = <<>> \/ desired <= 0 \/ open = {} \/ target = a
<1>1. /\ book \in Books /\ book' = book /\ considered \in 0 .. Len(book.order)
      /\ considered < Len(book.order) /\ considered' = considered + 1
      /\ stage = "route" /\ stage' = "route"
      /\ FlowsSound(flows) /\ InflowsCapped(flows) /\ taken \in [Assets -> Nat]
      /\ \A t \in Known : taken[t] = Total(flows, Into(flows, t))
      /\ \A b \in DOMAIN flows : \E i \in 1 .. considered : b = book.order[i]
  BY DEF RouteInv, RouteNext1
<1>2. /\ kept => taken' = taken /\ flows' = flows
      /\ ~kept => /\ taken' = [taken EXCEPT ![target] = @ + desired]
                  /\ flows' = [b \in DOMAIN flows \cup {a} |->
                                 IF b = a THEN [to |-> target, amount |-> desired] ELSE flows[b]]
  BY DEF RouteNext1
<1>3. /\ book.order \in Seq(Assets) /\ IsInjective(book.order) /\ Len(book.order) \in Nat
      /\ Known \in SUBSET Assets
  BY <1>1, BookTyped
<1>4. considered' \in 0 .. Len(book.order) /\ considered \in Nat /\ considered + 1 \in 1 .. Len(book.order)
  BY <1>1, <1>3
<1>5. a \in Known /\ a \notin DOMAIN flows
  <2>1. DOMAIN book.order = 1 .. Len(book.order)
    BY <1>3
  <2>2. a \in Known
    BY <1>4, <2>1 DEF Known, Range
  <2>3. \A i \in 1 .. considered : book.order[i] # a
    <3> SUFFICES ASSUME NEW i \in 1 .. considered, book.order[i] = book.order[considered + 1] PROVE FALSE
      BY DEF a
    <3> DEFINE s == book.order
               k == considered + 1
    <3>1. IsInjective(s)
      BY <1>3
    <3>2. i \in DOMAIN s /\ k \in DOMAIN s /\ s[i] = s[k] /\ i # k
      BY <1>3, <1>4, <2>1
    <3> HIDE DEF s, k
    <3> QED BY <3>1, <3>2 DEF IsInjective
  <2> QED BY <1>1, <2>2, <2>3
<1>6. Movable(a) \in Nat /\ book.share[a] \in Ratios /\ desired \in 0 .. Movable(a)
  <2>1. a \in Assets
    BY <1>3, <1>5
  <2>2. Movable(a) \in Nat /\ book.share[a] \in Ratios
    BY <1>1, <2>1, BookTyped, MovableNat
  <2> QED BY <1>1, <2>2, ShareAtMost
<1> HIDE DEF a, desired
<1>7. CASE kept
  <2>1. taken' = taken /\ flows' = flows
    BY <1>2, <1>7
  <2>2. \A b \in DOMAIN flows : \E i \in 1 .. considered' : b = book.order[i]
    BY <1>1, <1>4
  <2>3. FlowsSound(flows)' /\ InflowsCapped(flows)'
    BY <1>1, <2>1 DEF FlowsSound, InflowsCapped, Known, Movable, PortfolioValue, Share, Total, Into
  <2>4. (\A t \in Known : taken[t] = Total(flows, Into(flows, t)))'
    BY <1>1, <2>1 DEF Known, Total, Into
  <2> QED BY <1>1, <1>4, <2>1, <2>2, <2>3, <2>4 DEF RouteInv
<1>8. CASE ~kept
  <2> DEFINE gs == flows'
  <2>1. /\ taken' = [taken EXCEPT ![target] = @ + desired]
        /\ gs = [b \in DOMAIN flows \cup {a} |-> IF b = a THEN [to |-> target, amount |-> desired] ELSE flows[b]]
        /\ book.rule[a] # <<>> /\ open # {} /\ target # a
    BY <1>2, <1>8
  <2>2. Min(open) \in open
    <3>1. open \in SUBSET Nat
      OBVIOUS
    <3> HIDE DEF open
    <3> QED BY <2>1, <3>1, LeastMember
  <2>3. Min(open) \in {1, 2} /\ ~IsBlocked(target, desired)
    BY <2>2
  <2> HIDE DEF open
  <2>4. target \in Assets
    BY <1>1, <1>3, <1>5, <2>1, <2>3, BookTyped
  <2> HIDE DEF target
  <2>5. target \in Known /\ ~book.frozen[target]
        /\ ~(taken[target] + desired > Share(book.value[target], book.inflow[target]))
    BY <2>3 DEF IsBlocked
  <2>6. DOMAIN gs = DOMAIN flows \cup {a} /\ gs[a] = [to |-> target, amount |-> desired]
        /\ \A b \in DOMAIN flows : gs[b] = flows[b]
    BY <1>5, <2>1
  <2>7. FlowsSound(gs)
    <3>1. DOMAIN gs \in SUBSET Known
      BY <1>1, <1>5, <2>6 DEF FlowsSound
    <3>2. ASSUME NEW b \in DOMAIN gs
          PROVE  gs[b] = [to |-> gs[b].to, amount |-> gs[b].amount]
               /\ gs[b].amount \in 0 .. Movable(b) /\ gs[b].to \in Known \ {b} /\ ~book.frozen[gs[b].to]
      <4>1. CASE b = a
        BY <1>6, <2>1, <2>5, <2>6, <4>1
      <4>2. CASE b # a
        <5>1. b \in DOMAIN flows /\ gs[b] = flows[b]
          BY <2>6, <4>2
        <5> QED BY <1>1, <5>1 DEF FlowsSound
      <4> QED BY <4>1, <4>2
    <3> QED BY <3>1, <3>2 DEF FlowsSound
  <2>8. \A t \in Known : Total(gs, Into(gs, t)) = Total(flows, Into(flows, t)) + (IF t = target THEN desired ELSE 0)
    <3>1. a \in Known \ DOMAIN flows /\ desired \in Nat
      BY <1>5, <1>6
    <3>2. book \in Books /\ FlowsSound(flows) /\ target \in Known
      BY <1>1, <2>5
    <3>3. ASSUME NEW hs, DOMAIN hs = DOMAIN flows \cup {a}, hs[a] = [to |-> target, amount |-> desired],
                 \A b \in DOMAIN flows : hs[b] = flows[b]
          PROVE  \A t \in Known : Total(hs, Into(hs, t)) = Total(flows, Into(flows, t)) + (IF t = target THEN desired ELSE 0)
      BY <3>1, <3>2, <3>3, OneMoreFlow
    <3> HIDE DEF gs
    <3> QED BY <2>6, <3>3
  <2>9. \A t \in Known : taken'[t] = Total(gs, Into(gs, t))
    <3> SUFFICES ASSUME NEW t \in Known PROVE taken'[t] = Total(gs, Into(gs, t))
      OBVIOUS
    <3>1. t \in Assets /\ taken[t] \in Nat /\ taken[t] = Total(flows, Into(flows, t))
      BY <1>1, <1>3
    <3>2. taken'[t] = IF t = target THEN taken[t] + desired ELSE taken[t]
      BY <1>1, <2>1, <3>1
    <3>3. Total(gs, Into(gs, t)) = taken[t] + (IF t = target THEN desired ELSE 0)
      BY <2>8, <3>1
    <3> QED BY <1>6, <3>1, <3>2, <3>3
  <2>10. InflowsCapped(gs)
    <3> SUFFICES ASSUME NEW t \in Known PROVE Total(gs, Into(gs, t)) <= Share(book.value[t], book.inflow[t])
      BY DEF InflowsCapped
    <3>1. /\ t \in Assets /\ taken[t] \in Nat /\ book.value[t] \in Nat /\ book.inflow[t] \in Ratios
          /\ taken[t] = Total(flows, Into(flows, t))
      BY <1>1, <1>3, BookTyped
    <3>2. Share(book.value[t], book.inflow[t]) \in Nat /\ desired \in Nat
      <4>1. Share(book.value[t], book.inflow[t]) \in Nat
        <5> DEFINE n == book.value[t]
                   r == book.inflow[t]
        <5>1. book \in Books /\ n \in Nat /\ r \in Ratios
          BY <1>1, <3>1
        <5> HIDE DEF n, r
        <5>2. Share(n, r) \in Nat
          BY <5>1, ShareAtMost
        <5> QED BY <5>2 DEF n, r
      <4> QED BY <1>6, <4>1
    <3>3. Total(gs, Into(gs, t)) = taken[t] + (IF t = target THEN desired ELSE 0)
      BY <2>8, <3>1
    <3>4. taken[t] <= Share(book.value[t], book.inflow[t])
      BY <1>1, <3>1 DEF InflowsCapped
    <3> QED BY <2>5, <3>1, <3>2, <3>3, <3>4
  <2>11. taken' \in [Assets -> Nat]
    BY <1>1, <1>6, <2>1, <2>4
  <2>12. \A b \in DOMAIN gs : \E i \in 1 .. considered' : b = book.order[i]
    <3> SUFFICES ASSUME NEW b \in DOMAIN gs PROVE \E i \in 1 .. considered' : b = book.order[i]
      OBVIOUS
    <3>1. CASE b = a
      <4>1. considered' \in 1 .. considered' /\ a = book.order[considered']
        BY <1>1, <1>4 DEF a
      <4> QED BY <3>1, <4>1
    <3>2. CASE b \in DOMAIN flows
      BY <1>1, <1>4, <3>2
    <3> QED BY <2>6, <3>1, <3>2
  <2>13. FlowsSound(flows)' /\ InflowsCapped(flows)'
    BY <1>1, <2>7, <2>10 DEF FlowsSound, InflowsCapped, Known, Movable, PortfolioValue, Share, Total, Into
  <2>14. (\A t \in Known : taken[t] = Total(flows, Into(flows, t)))'
    BY <1>1, <2>9 DEF Known, Total, Into
  <2> QED BY <1>1, <1>4, <2>11, <2>12, <2>13, <2>14 DEF RouteInv
<1> QED BY <1>7, <1>8

\* Neither bound makes an amount larger.
LEMMA ClampedShrinks ==
  ASSUME book \in Books, FlowsSound(flows), NEW a \in Known, NEW amount \in Nat
  PROVE  Clamped(amount, a) \in 0 .. amount
<1> DEFINE top == Allowed(a)
           bottom == Size(Net(flows, a))
<1>1. top \in Nat
  <2>1. a \in Assets /\ book.value[a] \in Nat /\ book.shift \in Ratios
    BY BookTyped
  <2> QED BY <2>1, ShareAtMost DEF Allowed
<1>2. bottom \in Nat
  <2>1. Into(flows, a) \in SUBSET DOMAIN flows
    BY DEF Into
  <2>2. Total(flows, Into(flows, a)) \in Nat
    BY <2>1, TotalNat
  <2>3. a \in DOMAIN flows => flows[a].amount \in Nat
    <3>1. Movable(a) \in Nat
      BY BookTyped, MovableNat
    <3> QED BY <3>1 DEF FlowsSound
  <2>4. Net(flows, a) \in Int
    BY <2>2, <2>3 DEF Net
  <2> QED BY <2>4 DEF Size
<1>3. Clamped(amount, a) = IF bottom > top THEN (amount * top) \div bottom ELSE amount
  BY DEF Clamped
<1> HIDE DEF top, bottom
<1>4. CASE bottom > top
  <2>1. bottom >= top /\ bottom > 0
    BY <1>1, <1>2, <1>4
  <2>2. (amount * top) \div bottom \in 0 .. amount
    BY <1>1, <1>2, <2>1, Quotient
  <2> QED BY <1>3, <1>4, <2>2
<1>5. CASE ~(bottom > top)
  BY <1>3, <1>5
<1> QED BY <1>4, <1>5

LEMMA AssetsClamped == RouteInv /\ ClampAssets => RouteInv'
<1> SUFFICES ASSUME RouteInv, ClampAssets PROVE RouteInv'
  OBVIOUS
<1>1. /\ book \in Books /\ book' = book /\ considered \in 0 .. Len(book.order) /\ considered' = considered
      /\ stage' = "scale" /\ FlowsSound(flows) /\ InflowsCapped(flows)
      /\ flows' = [a \in DOMAIN flows |->
                     [flows[a] EXCEPT !.amount = Min({Clamped(flows[a].amount, a),
                                                      Clamped(flows[a].amount, flows[a].to)})]]
  BY DEF RouteInv, ClampAssets
<1>2. DOMAIN flows' = DOMAIN flows
  BY <1>1
<1>3. \A a \in DOMAIN flows' : flows'[a] = [to |-> flows'[a].to, amount |-> flows'[a].amount] /\ flows'[a].to = flows[a].to /\ flows'[a].amount \in 0 .. flows[a].amount
  <2> SUFFICES ASSUME NEW a \in DOMAIN flows
               PROVE  flows'[a] = [to |-> flows'[a].to, amount |-> flows'[a].amount] /\ flows'[a].to = flows[a].to /\ flows'[a].amount \in 0 .. flows[a].amount
    BY <1>2
  <2> DEFINE n == flows[a].amount
             x == Clamped(n, a)
             y == Clamped(n, flows[a].to)
  <2>1. a \in Known /\ flows[a].to \in Known /\ n \in 0 .. Movable(a) /\ a \in Assets
    BY <1>1, BookTyped DEF FlowsSound
  <2>2. n \in Nat
    BY <1>1, <2>1, MovableNat
  <2> HIDE DEF n
  <2>3. x \in 0 .. n /\ y \in 0 .. n
    BY <1>1, <2>1, <2>2, ClampedShrinks
  <2>4. flows'[a] = [flows[a] EXCEPT !.amount = Min({x, y})]
    BY <1>1 DEF n
  <2> HIDE DEF x, y
  <2>5. Min({x, y}) = IF x <= y THEN x ELSE y
    <3>1. x \in Int /\ y \in Int
      BY <2>3
    <3> QED BY <3>1, SmallerLarger
  <2>6. Min({x, y}) \in 0 .. n
    BY <2>3, <2>5
  <2>7. flows'[a] = [to |-> flows'[a].to, amount |-> flows'[a].amount] /\ flows'[a].to = flows[a].to /\ flows'[a].amount = Min({x, y})
    <3>1. flows[a] = [to |-> flows[a].to, amount |-> flows[a].amount]
      BY <1>1 DEF FlowsSound
    <3>2. flows'[a] = [to |-> flows[a].to, amount |-> Min({x, y})]
      BY <2>4, <3>1, RecordAmount
    <3> QED BY <3>2
  <2> QED BY <2>6, <2>7 DEF n
<1>4. FlowsSound(flows') /\ InflowsCapped(flows')
  <2>1. ASSUME NEW gs, DOMAIN gs = DOMAIN flows,
               \A a \in DOMAIN gs : gs[a] = [to |-> gs[a].to, amount |-> gs[a].amount] /\ gs[a].to = flows[a].to /\ gs[a].amount \in 0 .. flows[a].amount
        PROVE  FlowsSound(gs) /\ InflowsCapped(gs)
    BY <1>1, <2>1, SmallerFlows
  <2> QED BY <1>2, <1>3, <2>1
<1>5. FlowsSound(flows)' /\ InflowsCapped(flows)'
  BY <1>1, <1>4 DEF FlowsSound, InflowsCapped, Known, Movable, PortfolioValue, Share, Total, Into
<1> QED BY <1>1, <1>5 DEF RouteInv

LEMMA FlowsScaled == RouteInv /\ ScalePortfolio => RouteInv'
<1> SUFFICES ASSUME RouteInv, ScalePortfolio PROVE RouteInv'
  OBVIOUS
<1> DEFINE top == AllowedShift
           sum == Shift(flows)
           sent == {b \in DOMAIN flows : Remaining(flows[b].amount) > 0}
           f == [a \in DOMAIN flows |-> flows[a].amount]
           h == [a \in DOMAIN flows |-> Remaining(flows[a].amount)]
           g == [a \in DOMAIN flows' |-> flows'[a].amount]
<1>1. /\ book \in Books /\ book' = book /\ considered \in 0 .. Len(book.order) /\ considered' = considered
      /\ stage' = "done" /\ FlowsSound(flows) /\ InflowsCapped(flows)
      /\ flows' = [a \in sent |-> [flows[a] EXCEPT !.amount = Remaining(flows[a].amount)]]
  BY DEF RouteInv, ScalePortfolio
<1>2. DOMAIN flows' = sent /\ sent \in SUBSET DOMAIN flows
  BY <1>1
<1>3. \A a \in DOMAIN flows : flows[a].amount \in Nat
  <2> SUFFICES ASSUME NEW a \in DOMAIN flows PROVE flows[a].amount \in Nat
    OBVIOUS
  <2>1. a \in Assets /\ flows[a].amount \in 0 .. Movable(a)
    BY <1>1, BookTyped DEF FlowsSound
  <2> QED BY <1>1, <2>1, MovableNat
<1>4. top \in Nat
  <2>1. book.total \in Ratios
    BY <1>1, BookTyped
  <2> QED BY <1>1, <2>1, PortfolioValueNat, ShareAtMost DEF AllowedShift
<1>5. IsFiniteSet(DOMAIN flows) /\ sum \in Nat /\ sum = SumFunctionOnSet(f, DOMAIN flows)
  <2>1. DOMAIN flows \in SUBSET DOMAIN flows
    OBVIOUS
  <2> QED BY <1>1, <2>1, TotalNat DEF Shift, Total
<1> HIDE DEF top, sum
<1>6. \A a \in DOMAIN flows :
        /\ Remaining(flows[a].amount) \in 0 .. flows[a].amount
        /\ sum > top => sum * Remaining(flows[a].amount) <= top * flows[a].amount
  <2> SUFFICES ASSUME NEW n \in Nat
               PROVE  Remaining(n) \in 0 .. n /\ (sum > top => sum * Remaining(n) <= top * n)
    BY <1>3
  <2>1. Remaining(n) = IF sum > top THEN (n * top) \div sum ELSE n
    BY DEF Remaining, sum, top
  <2>2. CASE sum > top
    <3> DEFINE q == (n * top) \div sum
    <3>1. sum >= top /\ sum > 0
      BY <1>4, <1>5, <2>2
    <3>2. q \in 0 .. n /\ q * sum <= n * top
      BY <1>4, <1>5, <3>1, Quotient
    <3>3. \A x, y \in Int : x * y = y * x
      OBVIOUS
    <3> HIDE DEF q
    <3>4. q * sum = sum * q /\ n * top = top * n
      BY <1>4, <1>5, <3>2, <3>3
    <3>5. Remaining(n) = q
      BY <2>1, <2>2 DEF q
    <3> QED BY <3>2, <3>4, <3>5
  <2>3. CASE ~(sum > top)
    BY <2>1, <2>3
  <2> QED BY <2>2, <2>3
<1>7. \A a \in DOMAIN flows' : flows'[a] = [to |-> flows'[a].to, amount |-> flows'[a].amount] /\ flows'[a].to = flows[a].to /\ flows'[a].amount = Remaining(flows[a].amount)
  <2> SUFFICES ASSUME NEW a \in sent
               PROVE  flows'[a] = [to |-> flows'[a].to, amount |-> flows'[a].amount] /\ flows'[a].to = flows[a].to /\ flows'[a].amount = Remaining(flows[a].amount)
    BY <1>2
  <2>1. flows'[a] = [flows[a] EXCEPT !.amount = Remaining(flows[a].amount)]
    BY <1>1
  <2>2. flows[a] = [to |-> flows[a].to, amount |-> flows[a].amount]
    BY <1>1, <1>2 DEF FlowsSound
  <2>3. flows'[a] = [to |-> flows[a].to, amount |-> Remaining(flows[a].amount)]
    BY <2>1, <2>2, RecordAmount
  <2> QED BY <2>3
<1>8. FlowsSound(flows') /\ InflowsCapped(flows')
  <2>1. ASSUME NEW gs, DOMAIN gs \in SUBSET DOMAIN flows,
               \A a \in DOMAIN gs : gs[a] = [to |-> gs[a].to, amount |-> gs[a].amount] /\ gs[a].to = flows[a].to /\ gs[a].amount \in 0 .. flows[a].amount
        PROVE  FlowsSound(gs) /\ InflowsCapped(gs)
    BY <1>1, <2>1, SmallerFlows
  <2>2. \A a \in DOMAIN flows' : flows'[a] = [to |-> flows'[a].to, amount |-> flows'[a].amount] /\ flows'[a].to = flows[a].to /\ flows'[a].amount \in 0 .. flows[a].amount
    BY <1>2, <1>6, <1>7
  <2> QED BY <1>2, <2>1, <2>2
<1>9. \A a \in DOMAIN flows' : flows'[a].amount > 0
  BY <1>2, <1>7
<1>10. Shift(flows') <= top
  <2>1. Shift(flows') = SumFunctionOnSet(g, sent)
    BY <1>2 DEF Shift, Total
  <2>2. \A a \in DOMAIN flows : f[a] \in Nat /\ h[a] \in Nat /\ f[a] = flows[a].amount /\ h[a] = Remaining(flows[a].amount)
    BY <1>3, <1>6
  <2>3. \A a \in sent : g[a] = h[a] /\ g[a] \in Int
    BY <1>2, <1>7, <2>2
  <2>4. sent \in SUBSET DOMAIN flows
    BY <1>2
  <2> HIDE DEF f, g, h, sent
  <2>5. IsFiniteSet(sent)
    BY <1>5, <2>4, FS_Subset
  <2>6. SumFunctionOnSet(g, sent) = SumFunctionOnSet(h, sent)
    <3>1. ASSUME NEW e, \A a \in sent : e[a] \in Int /\ e[a] = h[a]
          PROVE  SumFunctionOnSet(e, sent) = SumFunctionOnSet(h, sent)
      BY <2>5, <3>1, SumSame
    <3> QED BY <2>3, <3>1
  <2>7. \A a \in DOMAIN flows : h[a] \in Nat
    BY <2>2
  <2>8. /\ SumFunctionOnSet(h, sent) \in Nat
        /\ SumFunctionOnSet(h, sent) <= SumFunctionOnSet(h, DOMAIN flows)
    BY <1>5, <2>4, <2>7, SumGrows, Zenon
  <2>9. SumFunctionOnSet(h, DOMAIN flows) \in Int
    BY <1>5, <2>2, SumInt
  <2>10. SumFunctionOnSet(h, DOMAIN flows) <= top
    <3>1. CASE sum > top
      <4>1. \A a \in DOMAIN flows : h[a] \in Int /\ f[a] \in Int /\ sum * h[a] <= top * f[a]
        BY <1>6, <2>2, <3>1
      <4>2. sum \in Int /\ top \in Int
        BY <1>4, <1>5
      <4>3. sum * SumFunctionOnSet(h, DOMAIN flows) <= top * SumFunctionOnSet(f, DOMAIN flows)
        BY <1>5, <4>1, <4>2, SumBound, Zenon
      <4>4. sum * SumFunctionOnSet(h, DOMAIN flows) <= top * sum /\ sum > 0
        BY <1>4, <1>5, <3>1, <4>3
      <4> QED BY <1>4, <1>5, <2>9, <4>4, CancelFactor
    <3>2. CASE ~(sum > top)
      <4>1. \A a \in DOMAIN flows : h[a] \in Int /\ f[a] \in Int /\ h[a] <= f[a]
        BY <1>6, <2>2
      <4>2. SumFunctionOnSet(h, DOMAIN flows) <= SumFunctionOnSet(f, DOMAIN flows)
        BY <1>5, <4>1, SumAtMost, Zenon
      <4> QED BY <1>4, <1>5, <2>9, <3>2, <4>2
    <3> QED BY <3>1, <3>2
  <2> QED BY <1>4, <2>1, <2>6, <2>8, <2>9, <2>10
<1>11. FlowsSound(flows)' /\ InflowsCapped(flows)' /\ AllowedShift' = top /\ Shift(flows)' = Shift(flows')
  BY <1>1, <1>8 DEF FlowsSound, InflowsCapped, Known, Movable, PortfolioValue, Share, Total, Into, AllowedShift, Shift, top
<1> QED BY <1>1, <1>9, <1>10, <1>11 DEF RouteInv

\* What is done holds of what is left at the end of the call, whatever the book
\* (aille_routing.cpp:10).
THEOREM RoutingStaysWithinLimits ==
  RouteInit /\ [][RouteNext]_routeVars => []RoutingWithinLimits
<1>1. RouteInv /\ [RouteNext]_routeVars => RouteInv'
  <2> SUFFICES ASSUME RouteInv, [RouteNext]_routeVars PROVE RouteInv'
    OBVIOUS
  <2>1. CASE RouteNext1
    BY <2>1, SurplusRouted
  <2>2. CASE ClampAssets
    BY <2>2, AssetsClamped
  <2>3. CASE ScalePortfolio
    BY <2>3, FlowsScaled
  <2>4. CASE UNCHANGED routeVars
    <3>1. book' = book /\ considered' = considered /\ taken' = taken /\ flows' = flows /\ stage' = stage
      BY <2>4 DEF routeVars
    <3>2. /\ FlowsSound(flows)' = FlowsSound(flows) /\ InflowsCapped(flows)' = InflowsCapped(flows)
          /\ AllowedShift' = AllowedShift /\ Shift(flows)' = Shift(flows)
      BY <3>1 DEF FlowsSound, InflowsCapped, Known, Movable, PortfolioValue, Share, Total, Into,
                  AllowedShift, Shift
    <3>3. (\A a \in Known : taken[a] = Total(flows, Into(flows, a)))'
            = (\A a \in Known : taken[a] = Total(flows, Into(flows, a)))
      BY <3>1 DEF Known, Total, Into
    <3> QED BY <3>1, <3>2, <3>3 DEF RouteInv
  <2> QED BY <2>1, <2>2, <2>3, <2>4 DEF RouteNext
<1>2. RouteInv => RoutingWithinLimits
  <2> SUFFICES ASSUME RouteInv, stage = "done" PROVE RoutingWithinLimits
    BY DEF RoutingWithinLimits
  <2>1. book \in Books /\ FlowsSound(flows) /\ InflowsCapped(flows)
        /\ Shift(flows) <= AllowedShift /\ \A a \in DOMAIN flows : flows[a].amount > 0
    BY DEF RouteInv
  <2>2. ASSUME NEW a \in DOMAIN flows
        PROVE  a \in Known /\ flows[a].amount \in 1 .. Movable(a)
               /\ flows[a].to \in Known \ {a} /\ ~book.frozen[flows[a].to]
    <3>1. a \in Known /\ flows[a].amount \in 0 .. Movable(a) /\ a \in Assets
          /\ flows[a].to \in Known \ {a} /\ ~book.frozen[flows[a].to]
      BY <2>1, BookTyped DEF FlowsSound
    <3>2. Movable(a) \in Nat /\ flows[a].amount > 0
      BY <2>1, <3>1, MovableNat
    <3> QED BY <3>1, <3>2
  <2> QED BY <2>1, <2>2 DEF RoutingWithinLimits, InflowsCapped
<1> QED BY <1>1, <1>2, RoutesBegin, PTL
=============================================================================
