------------------------------ MODULE WaveStream -------------------------------
(***************************************************************************)
(* The evaluation of one wave channel of extensions/aille_wnfs.cpp: frames  *)
(* arrive with sequence numbers, the channel counts gaps and remembers that *)
(* it is degraded, and the engine polls it on a copy of its state before    *)
(* every decision.  Prices, sizes and wave phases are left out.             *)
(***************************************************************************)
EXTENDS Integers

CONSTANTS
    MaxSequence,    \* the largest uint64; sequence numbers wrap behind it
    MaxGaps         \* config.max_sequence_gaps

ASSUME StreamAssumption == MaxSequence \in Nat \ {0} /\ MaxGaps \in Nat \ {0}

Sequence == 0 .. MaxSequence
Status == {"healthy", "degraded", "corrupted", "locked"}

VARIABLES
    expected,       \* state.expected_sequence
    counted,        \* state.processed_frames > 0
    gaps,           \* state.gap_count
    clones,         \* clone_status_mask # 0 or degraded_clone_count > 0
    channel         \* state.channel_status

streamVars == <<expected, counted, gaps, clones, channel>>

StreamInit == /\ expected = 1 /\ counted = FALSE /\ gaps = 0
              /\ clones = FALSE /\ channel = "healthy"

Missed(sequence) == IF counted /\ sequence > expected THEN sequence - expected ELSE 0
OutOfOrder(sequence) == counted /\ sequence < expected
GapsAfter(sequence) == (gaps + Missed(sequence)) % (MaxSequence + 1)

StreamFrameLocked(kill) ==
    /\ kill
    /\ channel' = "locked"
    /\ UNCHANGED <<expected, counted, gaps, clones>>

StreamFrameDesynchronised(kill) ==
    /\ ~kill /\ clones
    /\ channel' = "degraded"
    /\ UNCHANGED <<expected, counted, gaps, clones>>

\* Mutant: a frame in order again makes the channel healthy again.
StatusHeals(sequence, damaged) ==
    IF damaged \/ GapsAfter(sequence) >= MaxGaps THEN "corrupted"
    ELSE IF Missed(sequence) > 0 \/ OutOfOrder(sequence) THEN "degraded" ELSE "healthy"

\* The status a frame leaves behind, `damaged` when it is flagged as corrupt.
\* The other two flags degrade the advisory of their frame and leave no trace.
StatusAfter(sequence, damaged) ==
    LET seen == IF Missed(sequence) > 0 \/ OutOfOrder(sequence)
                THEN "degraded" ELSE channel
    IN  IF damaged \/ (seen # "healthy" /\ GapsAfter(sequence) >= MaxGaps)
        THEN "corrupted" ELSE seen

StreamFrameEvaluated(kill, sequence, damaged) ==
    /\ ~kill /\ ~clones
    /\ gaps' = GapsAfter(sequence)
    /\ channel' = StatusAfter(sequence, damaged)
    /\ IF OutOfOrder(sequence)
       THEN UNCHANGED <<expected, counted>>
       ELSE expected' = (sequence + 1) % (MaxSequence + 1) /\ counted' = TRUE
    /\ UNCHANGED clones

StreamFrame(kill, sequence, damaged) ==
    \/ StreamFrameLocked(kill)
    \/ StreamFrameDesynchronised(kill)
    \/ StreamFrameEvaluated(kill, sequence, damaged)

\* The host publishes what the cluster reports of its clones.
ReportClones(reported) == clones' = reported /\ UNCHANGED <<expected, counted, gaps, channel>>

(***************************************************************************)
(* The poll evaluates the frame the channel expects next and drops the copy *)
(* it worked on: only the advisory survives it.                             *)
(***************************************************************************)
PollDegraded(kill) == kill \/ clones \/ StatusAfter(expected, FALSE) # "healthy"

StreamTypeOK == /\ expected \in Sequence /\ counted \in BOOLEAN
                /\ gaps \in Sequence /\ clones \in BOOLEAN /\ channel \in Status
================================================================================
