------------------------------ MODULE SyncAdapter ------------------------------
(***************************************************************************)
(* The clock adapter of extensions/aille_sync_adapter.cpp: it turns an      *)
(* external protocol clock, or its own cadence, into the ticks that the     *)
(* unified runtime takes as evidence of time.  The wave phase and the       *)
(* counters nothing reads again are left out.  A confidence is an integer   *)
(* in ten-thousandths.                                                      *)
(***************************************************************************)
EXTENDS Integers

CONSTANTS
    MaxIndex,       \* the largest uint64
    MaxSigned,      \* the largest int64, the last timestamp ingest accepts
    Cadence,        \* target_cadence_ns
    MaxDrift,       \* max_drift_threshold_ns
    MinConfidence,  \* min_confidence_threshold
    Confidences     \* the confidences a protocol clock reports

ASSUME WidthAssumption ==
    /\ MaxIndex \in Nat \ {0} /\ MaxSigned \in Nat \ {0} /\ MaxSigned <= MaxIndex
    /\ Cadence \in Nat \ {0} /\ 2 * Cadence <= MaxSigned
    /\ MaxDrift \in Nat /\ 2 * MaxDrift <= MaxSigned
ASSUME ConfidenceAssumption ==
    MinConfidence \in 0 .. 10000 /\ Confidences \subseteq 0 .. 10000

Index == 0 .. MaxIndex
Tick == [index : Index, time : Index, degraded : BOOLEAN,
         stress : BOOLEAN, lock : BOOLEAN]

VARIABLES
    clockIndex,     \* state_.current_tick_index
    clockTime,      \* state_.last_timestamp_ns
    ticked,         \* metrics_.total_ticks_processed > 0
    tick            \* current_tick_

clockVars == <<clockIndex, clockTime, ticked, tick>>

\* A tick with nothing wrong with it, and the default-constructed SyncTick.
SoundTick(index, time) == [index |-> index, time |-> time, degraded |-> FALSE,
                           stress |-> FALSE, lock |-> FALSE]
EmptyTick == SoundTick(0, 0)

\* The tick of evidence that is refused: it repeats the cursor and escalates.
RefusalAt(index, time) == [index |-> index, time |-> time, degraded |-> TRUE,
                           stress |-> TRUE, lock |-> TRUE]

ClockInit == clockIndex = 0 /\ clockTime = 0 /\ ticked = FALSE /\ tick = EmptyTick

ClockReset == /\ clockIndex' = 0 /\ clockTime' = 0 /\ ticked' = FALSE
              /\ tick' = EmptyTick

Stale(index, time) == ticked /\ (index <= clockIndex \/ time <= clockTime)

Refused(index, time) == index = 0 \/ time = 0 \/ time > MaxSigned \/ Stale(index, time)

(***************************************************************************)
(* The verdict on a tick that is accepted: a gap in the index costs a fifth *)
(* of the confidence, a drift beyond the threshold fifteen hundredths.      *)
(***************************************************************************)
Drift(time) == IF clockTime = 0 THEN 0
               ELSE LET d == (time - clockTime) - Cadence IN IF d < 0 THEN -d ELSE d

Gap(index) == clockIndex > 0 /\ index > clockIndex + 1

Degraded(index, time, confidence) ==
    Gap(index) \/ Drift(time) > MaxDrift \/ confidence < MinConfidence

Discounted(index, time, confidence) ==
    LET afterGap == IF Gap(index) THEN (confidence * 80) \div 100 ELSE confidence
    IN  IF Drift(time) > MaxDrift THEN (afterGap * 85) \div 100 ELSE afterGap

Aligned(index, time, confidence) ==
    LET left == Discounted(index, time, confidence)
        degraded == Degraded(index, time, left)
    IN  [index |-> index, time |-> time, degraded |-> degraded,
         stress |-> degraded /\ (left < MinConfidence \/ Drift(time) > MaxDrift),
         lock |-> degraded /\ (left < 5000 \/ Drift(time) > 2 * MaxDrift)]

IngestRefused(index, time) ==
    /\ Refused(index, time)
    /\ tick' = RefusalAt(clockIndex, clockTime)
    /\ UNCHANGED <<clockIndex, clockTime, ticked>>

IngestAccepted(index, time, confidence) ==
    /\ ~Refused(index, time)
    /\ tick' = Aligned(index, time, confidence)
    /\ clockIndex' = index
    /\ clockTime' = time
    /\ ticked' = TRUE

IngestProtocolClock(index, time, confidence) ==
    IngestRefused(index, time) \/ IngestAccepted(index, time, confidence)

(***************************************************************************)
(* Without a protocol clock the adapter counts by itself, from the wall     *)
(* clock `now` when it has no time yet.                                     *)
(***************************************************************************)
Exhausted == clockIndex = MaxIndex \/ clockTime > MaxIndex - Cadence

AdvanceExhausted ==
    /\ Exhausted
    /\ tick' = RefusalAt(0, 0)
    /\ UNCHANGED <<clockIndex, clockTime, ticked>>

AdvanceTick(now) ==
    /\ ~Exhausted
    /\ LET time == IF clockTime > 0 THEN clockTime + Cadence ELSE now
       IN  /\ tick' = SoundTick(clockIndex + 1, time)
           /\ clockTime' = time
    /\ clockIndex' = clockIndex + 1
    /\ ticked' = TRUE

ClockTypeOK == clockIndex \in Index /\ clockTime \in Index
               /\ ticked \in BOOLEAN /\ tick \in Tick
================================================================================
