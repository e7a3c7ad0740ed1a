---------------------------- MODULE UnifiedRuntime -----------------------------
(***************************************************************************)
(* The master cycle of extensions/aille_unified_runtime.cpp as the engine   *)
(* runs it before every decision: poll the wave stream, read the tick the   *)
(* clock adapter last produced, and authorize or deny execution.  The clock *)
(* and the stream move between cycles, so a cycle may find a tick it has    *)
(* seen, one it missed, or one that was refused.                            *)
(*                                                                         *)
(* Confidence and risk scores are left out; of the execution scale only     *)
(* whether it is above zero is kept, which is what authorizes.              *)
(***************************************************************************)
EXTENDS SyncAdapter, WaveStream

CONSTANTS
    Setups,         \* what the host attached and configured, see Setup
    Nows            \* readings of the wall clock, in nanoseconds

Setup == [metrics : BOOLEAN,    \* set_unified_runtime_metrics was called
          meta : BOOLEAN,       \* set_meta_governance_state was called
          stress : BOOLEAN,     \* set_stress_state was called
          clock : BOOLEAN,      \* set_sync_tick was called
          stream : BOOLEAN,     \* set_wnfs_state and set_wnfs_advisory were
          strict : BOOLEAN,     \* config.enforce_strict_lock
          escalate : BOOLEAN]   \* config.auto_escalate_faults

ASSUME RuntimeAssumption == Setups \subseteq Setup /\ Nows \subseteq Index \ {0}

\* "invalid" stands for any evidence that is not a number within its bounds.
Anomaly == {"none", "mild", "severe", "invalid"}
Stress == {"normal", "stress", "crisis"}
SystemStatus == {"nominal", "degraded", "stressOverride", "metaLocked"}
Resiliency == {"standard", "highStress", "failClosed"}

VARIABLES
    setup,          \* chosen once, when the engine is assembled
    sequence,       \* state.cycle_sequence_id
    time,           \* state.timestamp_ns
    status,         \* state.system_status
    mode,           \* state.resiliency_mode
    ready,          \* state.execution_ready
    escalated,      \* state.fault_escalated
    total,          \* metrics.total_cycles_processed
    permitted,      \* advisory.execution_permitted
    frozen          \* advisory.hft_freeze_active

stateVars == <<sequence, time, status, mode, ready, escalated, total>>
runtimeVars == <<setup, stateVars, permitted, frozen>>

(***************************************************************************)
(* Auxiliary: what happened since the last explicit reset, for properties.  *)
(***************************************************************************)
VARIABLES
    latched,        \* a cycle found a replay, a kill switch or bad evidence
    spent,          \* tick indices a permitted cycle was run on
    broken          \* the stream lost, reordered or damaged a frame

auxVars == <<latched, spent, broken>>
vars == <<clockVars, streamVars, runtimeVars, auxVars>>

RuntimeInit ==
    /\ sequence = 0 /\ time = 0 /\ status = "nominal" /\ mode = "standard"
    /\ ready = TRUE /\ escalated = FALSE /\ total = 0
    /\ permitted = TRUE /\ frozen = FALSE
    /\ latched = FALSE /\ spent = {}

Init == setup \in Setups /\ ClockInit /\ StreamInit /\ RuntimeInit /\ broken = FALSE

-----------------------------------------------------------------------------
(***************************************************************************)
(* The evidence of one cycle.                                               *)
(***************************************************************************)
Later(a, b) == IF a > b THEN a ELSE b

\* Without attached metrics every cycle counts from zero.
Cycles == IF setup.metrics THEN total ELSE 0

SyncTick == IF setup.clock THEN tick ELSE EmptyTick

\* Mutant: a tick that repeats the cursor passes for a new one.
RepeatedTickPasses == /\ Cycles > 0
                      /\ \/ SyncTick.index > 0 /\ SyncTick.index < sequence
                         \/ SyncTick.time > 0 /\ SyncTick.time < time

ReplayedTick == /\ Cycles > 0
                /\ \/ SyncTick.index > 0 /\ SyncTick.index <= sequence
                   \/ SyncTick.time > 0 /\ SyncTick.time <= time

SequenceViolation == \/ sequence = MaxIndex \/ Cycles = MaxIndex
                     \/ Cycles > 0 /\ sequence < Cycles
                     \/ ReplayedTick

NextSequence == IF SequenceViolation THEN sequence ELSE Later(sequence, Cycles) + 1

\* Mutant: the cursor only moves with the ticks of a clock.
MoveCursorByTick(now) ==
    /\ sequence' = IF SyncTick.index > 0 THEN SyncTick.index ELSE sequence
    /\ time' = IF SyncTick.time > 0 THEN SyncTick.time ELSE now

\* The cursor moves to whatever the tick says, before anything is judged.
MoveCursor(now) ==
    /\ sequence' = IF SyncTick.index > 0 THEN SyncTick.index ELSE NextSequence
    /\ time' = IF SyncTick.time > 0 THEN SyncTick.time ELSE now

CountCycle == total' = IF setup.metrics /\ total # MaxIndex THEN total + 1 ELSE total

StreamFault(kill) == setup.stream /\ PollDegraded(kill)

\* The poll turns a degraded stream into CRISIS in the attached stress state.
StressLevel(stress, kill) ==
    IF ~setup.stress THEN "normal" ELSE IF StreamFault(kill) THEN "crisis" ELSE stress

Crisis(anomaly, stress, kill) ==
    \/ setup.escalate /\ (StreamFault(kill) \/ anomaly = "severe" \/ SyncTick.stress)
    \/ StressLevel(stress, kill) = "crisis"

Stressed(stress, kill) == StressLevel(stress, kill) = "stress"

MetaLock(metaReady) == \/ SyncTick.lock
                       \/ setup.meta /\ setup.strict /\ ~metaReady

MustLock(anomaly, kill) == kill \/ SequenceViolation \/ anomaly = "invalid"

\* Mutant: the fault denies its own cycle and leaves readiness alone.
FailOnce(anomaly, kill, now) ==
    /\ MustLock(anomaly, kill)
    /\ MoveCursor(now)
    /\ status' = "metaLocked" /\ mode' = "failClosed"
    /\ escalated' = TRUE
    /\ CountCycle
    /\ permitted' = FALSE /\ frozen' = TRUE
    /\ latched' = TRUE
    /\ UNCHANGED <<ready, spent>>

(***************************************************************************)
(* One cycle.  A kill switch, a replay or invalid evidence closes it;       *)
(* anything else is weighed, and the last layer that has an opinion of the  *)
(* system status has its way.                                               *)
(***************************************************************************)
FailClosed(anomaly, kill, now) ==
    /\ MustLock(anomaly, kill)
    /\ MoveCursor(now)
    /\ status' = "metaLocked" /\ mode' = "failClosed"
    /\ ready' = FALSE /\ escalated' = TRUE
    /\ CountCycle
    /\ permitted' = FALSE /\ frozen' = TRUE
    /\ latched' = TRUE
    /\ UNCHANGED spent

StatusOfEvidence(anomaly, stress, metaReady) ==
    IF MetaLock(metaReady) THEN "metaLocked"
    ELSE IF Crisis(anomaly, stress, FALSE) \/ Stressed(stress, FALSE) THEN "stressOverride"
    ELSE IF StreamFault(FALSE) \/ anomaly \in {"mild", "severe"} THEN "degraded"
    ELSE status

Weigh(anomaly, stress, metaReady, muted, now) ==
    /\ ~MustLock(anomaly, FALSE)
    /\ MoveCursor(now)
    /\ status' = StatusOfEvidence(anomaly, stress, metaReady)
    /\ mode' = IF Crisis(anomaly, stress, FALSE) THEN "failClosed"
               ELSE IF Stressed(stress, FALSE) THEN "highStress" ELSE mode
    /\ escalated' = (escalated \/ Crisis(anomaly, stress, FALSE))
    /\ ready' = IF MetaLock(metaReady) THEN FALSE
                ELSE IF setup.meta THEN metaReady ELSE ready
    /\ CountCycle
    /\ permitted' = /\ ready' /\ status' # "metaLocked"
                    /\ ~muted /\ ~Crisis(anomaly, stress, FALSE) /\ ~MetaLock(metaReady)
    /\ frozen' = \/ StreamFault(FALSE) \/ Crisis(anomaly, stress, FALSE)
                 \/ Stressed(stress, FALSE) \/ MetaLock(metaReady)
    /\ spent' = IF permitted' THEN spent \cup ({SyncTick.index} \ {0}) ELSE spent
    /\ UNCHANGED latched

\* `muted`: the market stabilizer scales or clamps the exposure to zero.
Cycle ==
    /\ \E anomaly \in Anomaly, now \in Nows :
          \/ \E kill \in BOOLEAN : FailClosed(anomaly, kill, now)
          \/ \E stress \in Stress, metaReady, muted \in BOOLEAN :
                Weigh(anomaly, stress, metaReady, muted, now)
    /\ UNCHANGED <<setup, clockVars, streamVars, broken>>

-----------------------------------------------------------------------------
ClockStep ==
    /\ \/ \E index, at \in Index, confidence \in Confidences :
             IngestProtocolClock(index, at, confidence)
       \/ AdvanceExhausted
       \/ \E now \in Nows : AdvanceTick(now)
       \/ ClockReset
    /\ setup.clock
    /\ UNCHANGED <<streamVars, runtimeVars, auxVars>>

StreamStep ==
    /\ \E kill, damaged \in BOOLEAN, frame \in Sequence :
          /\ StreamFrame(kill, frame, damaged)
          /\ broken' = (broken \/ (~kill /\ (clones \/ damaged \/ Missed(frame) > 0
                                             \/ OutOfOrder(frame))))
    /\ setup.stream
    /\ UNCHANGED <<clockVars, runtimeVars, latched, spent>>

ClonesStep ==
    /\ \E reported \in BOOLEAN : ReportClones(reported)
    /\ setup.stream
    /\ UNCHANGED <<clockVars, runtimeVars, auxVars>>

\* The host assigns fresh state and metrics; clock and stream keep their own.
Reset ==
    /\ sequence' = 0 /\ time' = 0 /\ status' = "nominal" /\ mode' = "standard"
    /\ ready' = TRUE /\ escalated' = FALSE /\ total' = 0
    /\ latched' = FALSE /\ spent' = {}
    /\ UNCHANGED <<setup, clockVars, streamVars, permitted, frozen, broken>>

Next == Cycle \/ ClockStep \/ StreamStep \/ ClonesStep \/ Reset

Spec == Init /\ [][Next]_vars

-----------------------------------------------------------------------------
(***************************************************************************)
(* Properties.                                                              *)
(***************************************************************************)

\* The state of the adapter, the stream and the runtime is within its types.
TypeOK ==
    /\ ClockTypeOK /\ StreamTypeOK
    /\ setup \in Setup /\ sequence \in Index /\ time \in Index
    /\ status \in SystemStatus /\ mode \in Resiliency
    /\ ready \in BOOLEAN /\ escalated \in BOOLEAN /\ total \in Index
    /\ permitted \in BOOLEAN /\ frozen \in BOOLEAN
    /\ latched \in BOOLEAN /\ spent \subseteq Index /\ broken \in BOOLEAN

\* What docs/releases/trust-layer-finance-hardening.md says of the runtime:
\* after a replay, a kill switch or invalid evidence nothing is permitted
\* until state and metrics are reset.
FaultsLatch == latched => ~permitted

\* The part of it that the code keeps: a fault latches as long as no
\* meta-governance state is attached that could declare readiness again.
LockLatches == setup.meta \/ FaultsLatch

CycleRan == total' > total

\* The cursor of the cycles moves strictly forward as long as nothing has
\* latched, whatever mixture of external, free-running and missing ticks the
\* clock delivers.
CursorAdvances == [][CycleRan /\ ~latched' => sequence' > sequence]_vars

\* Where metrics are attached, no tick authorizes two decisions until a fault
\* latches, and without a meta-governance state none does until the reset
\* (aille_unified_runtime.cpp:59). Excluded is what follows a fault beside such
\* a state: the replayed tick has moved the cursor back before it was judged
\* (:65), milder evidence lifts the lock (:114, :178), and a tick that is spent
\* but beyond the cursor authorizes again.
NoTickSpentTwice ==
    [][CycleRan /\ permitted' /\ ~(setup.meta /\ latched)
         => SyncTick.index \notin spent]_vars

\* A gap, a reordering, a corrupt frame or a desynchronised clone that the
\* channel saw denies and freezes every later cycle, also the ones that run
\* after the sequence is whole again or the runtime was reset.
StreamFaultFreezes ==
    [][CycleRan /\ broken /\ (setup.escalate \/ setup.stress)
         => ~permitted' /\ frozen']_vars
================================================================================
