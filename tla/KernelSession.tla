---------------------------- MODULE KernelSession -----------------------------
(***************************************************************************)
(* A session of the Python kernel (core/finance_kernel): callers that run   *)
(* the pipeline of stream and unified runtime on one FinanceRuntimeKernel,  *)
(* each operator under the execution lock, one instance of each for the     *)
(* session; and callers that run the runtime operator alone.                *)
(***************************************************************************)
EXTENDS Integers, Sequences, SequencesExt

CONSTANTS Pipelines,      \* callers, each running one pipeline at a time
          NoEvidence,
          Frames,         \* sequence ids of frames
          Stamps,         \* timestamps, 0 standing for none
          Claims,         \* what a caller passes as the state of the channel
          GapLimit,       \* max_sequence_gaps
          CycleIds,       \* cycle_sequence_ids that callers pass
          MaxServed       \* bound: cycles and frames that are accepted

ASSUME SessionAssumption ==
    /\ Frames \subseteq Nat /\ Stamps \subseteq Nat /\ CycleIds \subseteq Nat
    /\ GapLimit \in Nat \ {0} /\ MaxServed \in Nat
    /\ Claims \subseteq [expected : Nat, processed : Nat, gaps : Nat, status : 0 .. 3]
    /\ NoEvidence \notin [frame : Frames, degraded : BOOLEAN, escalate : BOOLEAN]

VARIABLES
    halted,     \* kill_switch or hardware_fault of the context's metadata
    channelOf,  \* _channels of the one wave channel, <<>> or <<its record>>
    cursor,     \* _last_input_sequence, -1 for None
    stamped,    \* _last_timestamp, -1 for None
    holds,      \* the stream's result that a pipeline carries
    accepted,   \* history: the frames that the channel has taken
    served,     \* history: the finished cycles
    acted       \* history: the frames whose cycle ended unfrozen

sessionVars == <<halted, channelOf, cursor, stamped, holds, accepted, served, acted>>

SessionInit ==
    /\ halted = FALSE /\ channelOf = <<>> /\ cursor = -1 /\ stamped = -1
    /\ holds = [p \in Pipelines |-> NoEvidence]
    /\ accepted = <<>> /\ served = <<>> /\ acted = <<>>

-----------------------------------------------------------------------------
(* The stream operator                                                      *)

Larger(a, b) == IF a > b THEN a ELSE b

\* Statuses are numbers: 0 healthy, 1 degraded, 2 corrupted, 3 locked.
\* Mutant: the caller's claims reset the cursor of the channel.
MergedStatusOnly(claim) ==
    IF channelOf = <<>> THEN claim
    ELSE [claim EXCEPT !.status = Larger(@, channelOf[1].status)]

\* The session's channel wins over what the caller claims of it.
Merged(claim) ==
    IF channelOf = <<>> THEN claim
    ELSE [field \in DOMAIN claim |-> Larger(claim[field], channelOf[1][field])]

\* A frame that is not newer than the last one counts as corrupted.
Stale(stamp) == channelOf # <<>> /\ stamp # 0 /\ channelOf[1].stamp # 0 /\ stamp <= channelOf[1].stamp

\* A frame evaluated against the channel: what it leaves there and what it reports.
\* `flag` is what its sender says of it.
Evaluation(frame, stamp, flag, claim) ==
    LET was == Merged([expected |-> claim.expected, processed |-> claim.processed, gaps |-> claim.gaps,
                       status |-> claim.status, stamp |-> 0])
        missed == IF was.processed > 0 /\ frame > was.expected THEN frame - was.expected ELSE 0
        late == was.processed > 0 /\ frame < was.expected
        gaps == was.gaps + missed
        seen == IF missed > 0 \/ late THEN 1 ELSE was.status
        corrupt == flag = "corrupted" \/ Stale(stamp)
        degraded == late \/ missed > 0 \/ flag # "none" \/ corrupt \/ seen # 0
        critical == degraded /\ (gaps >= GapLimit \/ corrupt)
    IN  [late |-> late, degraded |-> degraded, escalate |-> critical,
         record |-> [expected |-> frame + 1, processed |-> was.processed + 1, gaps |-> gaps,
                     status |-> IF critical THEN 2 ELSE seen, stamp |-> stamp]]

\* While the system is halted or clones disagree, the frame is reported as
\* degraded and the channel keeps what it was.
StreamHalts(p, frame, clones) ==
    /\ holds[p] = NoEvidence /\ (halted \/ clones)
    /\ holds' = [holds EXCEPT ![p] = [frame |-> frame, degraded |-> TRUE, escalate |-> TRUE]]
    /\ UNCHANGED <<halted, channelOf, cursor, stamped, accepted, served, acted>>

\* A late frame leaves the channel alone.
StreamEvaluates(p, frame, stamp, flag, claim) ==
    /\ holds[p] = NoEvidence /\ ~halted /\ Len(accepted) < MaxServed
    /\ LET e == Evaluation(frame, stamp, flag, claim)
       IN  /\ holds' = [holds EXCEPT ![p] = [frame |-> frame, degraded |-> e.degraded, escalate |-> e.escalate]]
           /\ IF e.late THEN UNCHANGED <<channelOf, accepted>>
              ELSE /\ channelOf' = <<e.record>>
                   /\ accepted' = Append(accepted, [frame |-> frame, broken |-> e.record.status # 0])
    /\ UNCHANGED <<halted, cursor, stamped, served, acted>>

-----------------------------------------------------------------------------
(* The unified runtime operator                                             *)

FreshCycle(id, stamp) == id > cursor /\ stamp > stamped

\* hft_freeze_active of a cycle
Freezes(e) == halted \/ e.degraded \/ e.escalate

\* finish: only a cycle that ends moves the two cursors.
Finish(id, stamp) ==
    /\ cursor' = id /\ stamped' = stamp
    /\ served' = Append(served, <<id, stamp>>)

\* The second operator of a pipeline: the id defaults to the one after the last,
\* the timestamp to the wall clock, and other evidence to its absence.
CycleOfPipeline(p, stamp) ==
    /\ holds[p] # NoEvidence /\ Len(served) < MaxServed
    /\ FreshCycle(cursor + 1, stamp)
    /\ Finish(cursor + 1, stamp)
    /\ acted' = IF Freezes(holds[p]) THEN acted ELSE Append(acted, holds[p].frame)
    /\ holds' = [holds EXCEPT ![p] = NoEvidence]
    /\ UNCHANGED <<halted, channelOf, accepted>>

\* A clock that stood still or was set back: the operator raises, and the frame
\* that the stream has taken is never acted on.
CycleFails(p, stamp) ==
    /\ holds[p] # NoEvidence /\ ~FreshCycle(cursor + 1, stamp)
    /\ holds' = [holds EXCEPT ![p] = NoEvidence]
    /\ UNCHANGED <<halted, channelOf, cursor, stamped, accepted, served, acted>>

\* A caller of this operator alone, with an id of its own. Its replays raise and
\* change nothing.
CycleOfCaller(id, stamp) ==
    /\ Len(served) < MaxServed /\ FreshCycle(id, stamp)
    /\ Finish(id, stamp)
    /\ UNCHANGED <<halted, channelOf, holds, accepted, acted>>

\* The context is immutable, the dictionary of its metadata is not.
SetHalted == /\ halted' = ~halted
             /\ UNCHANGED <<channelOf, cursor, stamped, holds, accepted, served, acted>>

SessionNext ==
    \/ \E p \in Pipelines :
         \/ \E frame \in Frames, clones \in BOOLEAN : StreamHalts(p, frame, clones)
         \/ \E frame \in Frames, stamp \in Stamps, flag \in {"none", "suspect", "corrupted"}, claim \in Claims :
              StreamEvaluates(p, frame, stamp, flag, claim)
         \/ \E stamp \in Stamps \ {0} : CycleOfPipeline(p, stamp) \/ CycleFails(p, stamp)
    \/ \E id \in CycleIds, stamp \in Stamps : CycleOfCaller(id, stamp)
    \/ SetHalted

SessionSpec == SessionInit /\ [][SessionNext]_sessionVars

-----------------------------------------------------------------------------
Ascends(s) == \A i, j \in DOMAIN s : i < j => s[i] < s[j]

\* Whatever the callers claim and however their pipelines interleave: the stream
\* takes each frame once, in order; once it has left the channel broken no later
\* frame finds it whole; no frame is acted on twice, or without having been taken
\* from a whole channel; and no cycle id or timestamp is served twice
\* (wnfs.py:143-150, unified_runtime.py:145-153).
FramesActedOnOnce ==
    /\ Ascends([i \in DOMAIN accepted |-> accepted[i].frame])
    /\ \A i, j \in DOMAIN accepted : i < j /\ accepted[i].broken => accepted[j].broken
    /\ \A i, j \in DOMAIN acted : acted[i] = acted[j] => i = j
    /\ \A i \in DOMAIN acted : \E j \in DOMAIN accepted : accepted[j] = [frame |-> acted[i], broken |-> FALSE]
    /\ Ascends([i \in DOMAIN served |-> served[i][1]])
    /\ Ascends([i \in DOMAIN served |-> served[i][2]])
=============================================================================
