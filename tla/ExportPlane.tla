---------------------------- MODULE ExportPlane ----------------------------
(***************************************************************************)
(* The observability export plane (extensions/aille_observability.hpp):     *)
(* threads that count decisions in shards under sequence locks, a thread    *)
(* that takes snapshots of all shards and pushes them to the health stream, *)
(* and an owner that starts and stops it. Atomics are read and written in   *)
(* program order; the stream is the bounded queue that SpscRing implements. *)
(***************************************************************************)
EXTENDS Naturals, Sequences, FiniteSets, Functions, SequencesExt

CONSTANTS Cores,         \* core_ids that callers pass; each has one thread
          MaxCores,      \* MAX_CORES
          StreamBound,   \* snapshots the health stream holds
          DecisionStatuses, \* bound: the statuses of the decisions
          MaxDecisions   \* bound: decisions that one thread records

ASSUME ExportAssumption ==
    /\ MaxCores \in Nat \ {0}
    /\ Cores \subseteq Nat /\ Cores # {} /\ IsFiniteSet(Cores)
    /\ StreamBound \in Nat \ {0} /\ MaxDecisions \in Nat

\* recordDecision puts a core_id that is too large into the first shard.
ShardOf(core) == IF core >= MaxCores THEN 0 ELSE core
Shards == {ShardOf(core) : core \in Cores}

\* A shard has one writer: with two, an even sequence says nothing.
ASSUME ShardsApart == Cardinality(Shards) = Cardinality(Cores)

\* The order in which getAggregatedSnapshot loads the counters.
Fields == <<"total", "valid", "fallback", "confidence", "consensus", "invalid">>
Zeros == [f \in Range(Fields) |-> 0]

\* The counters that a decision of each status moves, in order.
Counted ==
    [valid |-> <<"total", "valid">>,
     low_confidence |-> <<"total", "confidence", "fallback">>,
     no_consensus |-> <<"total", "consensus", "fallback">>,
     fallback |-> <<"total", "fallback">>,
     other |-> <<"total", "invalid">>]

ASSUME StatusesCounted == DecisionStatuses \subseteq DOMAIN Counted

VARIABLES
    recorded,    \* decisions each thread has begun to record
    writing,     \* what is left to do of its recordDecision
    sequence,    \* the sequence lock of each shard
    shard,       \* the counters of each shard
    exporting,   \* running_
    owner,       \* "idle", "join"
    exporter,    \* "none", "look", "enter", "load", "check", "push", "ended"
    toRead,      \* the shards it has not read
    mark,        \* seq1
    local,       \* the counters it has loaded of this shard
    sum,         \* agg
    stream,      \* health_stream
    shown        \* the last snapshot the consumer popped

exportVars == <<recorded, writing, sequence, shard, exporting, owner, exporter,
                toRead, mark, local, sum, stream, shown>>
writerVars == <<recorded, writing, sequence, shard>>
readerVars == <<toRead, mark, local, sum>>

ExportInit ==
    /\ recorded = [core \in Cores |-> 0]
    /\ writing = [core \in Cores |-> <<>>]
    /\ sequence = [s \in Shards |-> 0]
    /\ shard = [s \in Shards |-> Zeros]
    /\ exporting = FALSE /\ owner = "idle" /\ exporter = "none"
    /\ toRead = {} /\ mark = 0 /\ local = <<>> /\ sum = Zeros
    /\ stream = <<>> /\ shown = Zeros

-----------------------------------------------------------------------------
\* recordDecision: begin_write, its counters one by one, end_write.
Record(core) ==
    /\ writing[core] = <<>> /\ recorded[core] < MaxDecisions
    /\ \E status \in DecisionStatuses :
           writing' = [writing EXCEPT ![core] = Append(Counted[status], "end")]
    /\ recorded' = [recorded EXCEPT ![core] = @ + 1]
    /\ sequence' = [sequence EXCEPT ![ShardOf(core)] = @ + 1]
    /\ UNCHANGED <<shard, exporting, owner, exporter, readerVars, stream, shown>>

Write(core) ==
    /\ writing[core] # <<>>
    /\ LET step == Head(writing[core]) s == ShardOf(core)
       IN  IF step = "end"
             THEN sequence' = [sequence EXCEPT ![s] = @ + 1] /\ UNCHANGED shard
             ELSE shard' = [shard EXCEPT ![s][step] = @ + 1] /\ UNCHANGED sequence
    /\ writing' = [writing EXCEPT ![core] = Tail(@)]
    /\ UNCHANGED <<recorded, exporting, owner, exporter, readerVars, stream, shown>>

-----------------------------------------------------------------------------
\* start and stop, by the one owner; the thread begins at its first look.
StartExport ==
    /\ owner = "idle" /\ ~exporting
    /\ exporting' = TRUE /\ exporter' = "look"
    /\ UNCHANGED <<writerVars, owner, readerVars, stream, shown>>

StopExport ==
    \/ /\ owner = "idle" /\ exporting
       /\ exporting' = FALSE /\ owner' = "join"
       /\ UNCHANGED <<writerVars, exporter, readerVars, stream, shown>>
    \/ /\ owner = "join" /\ exporter = "ended"
       /\ exporter' = "none" /\ owner' = "idle"
       /\ UNCHANGED <<writerVars, exporting, readerVars, stream, shown>>

\* exportLoop looks at the flag before each snapshot.
Look ==
    /\ exporter = "look"
    /\ exporter' = IF exporting THEN "enter" ELSE "ended"
    /\ toRead' = Shards /\ sum' = Zeros
    /\ UNCHANGED <<writerVars, exporting, owner, mark, local, stream, shown>>

\* The shard that is read now; the lowest that is left.
Current == CHOOSE s \in toRead : \A t \in toRead : s <= t

\* A write in progress is waited for.
Enter ==
    /\ exporter = "enter" /\ sequence[Current] % 2 = 0
    /\ mark' = sequence[Current] /\ local' = <<>>
    /\ exporter' = "load"
    /\ UNCHANGED <<writerVars, exporting, owner, toRead, sum, stream, shown>>

Load ==
    /\ exporter = "load"
    /\ local' = Append(local, shard[Current][Fields[Len(local) + 1]])
    /\ exporter' = IF Len(local') = Len(Fields) THEN "check" ELSE "load"
    /\ UNCHANGED <<writerVars, exporting, owner, toRead, mark, sum, stream, shown>>

\* Mutant: a write that came and went between the two reads is not noticed.
RecheckParity ==
    /\ exporter = "check"
    /\ IF sequence[Current] % 2 # 0
         THEN exporter' = "enter" /\ UNCHANGED <<toRead, sum>>
         ELSE /\ sum' = [f \in Range(Fields) |->
                           sum[f] + local[CHOOSE i \in DOMAIN Fields : Fields[i] = f]]
              /\ toRead' = toRead \ {Current}
              /\ exporter' = IF toRead' = {} THEN "push" ELSE "enter"
    /\ UNCHANGED <<writerVars, exporting, owner, mark, local, stream, shown>>

\* The shard's counters are added if its sequence has not moved, and read again
\* if it has.
Recheck ==
    /\ exporter = "check"
    /\ IF sequence[Current] # mark
         THEN exporter' = "enter" /\ UNCHANGED <<toRead, sum>>
         ELSE /\ sum' = [f \in Range(Fields) |->
                           sum[f] + local[CHOOSE i \in DOMAIN Fields : Fields[i] = f]]
              /\ toRead' = toRead \ {Current}
              /\ exporter' = IF toRead' = {} THEN "push" ELSE "enter"
    /\ UNCHANGED <<writerVars, exporting, owner, mark, local, stream, shown>>

\* try_push: a snapshot that finds the stream full is dropped.
Export ==
    /\ exporter = "push"
    /\ stream' = IF Len(stream) < StreamBound THEN Append(stream, sum) ELSE stream
    /\ exporter' = "look"
    /\ UNCHANGED <<writerVars, exporting, owner, readerVars, shown>>

Consume ==
    /\ stream # <<>>
    /\ shown' = Head(stream) /\ stream' = Tail(stream)
    /\ UNCHANGED <<writerVars, exporting, owner, exporter, readerVars>>

ExportStep == Look \/ Enter \/ Load \/ Recheck \/ Export

ExportNext ==
    \/ \E core \in Cores : Record(core) \/ Write(core)
    \/ StartExport \/ StopExport \/ ExportStep \/ Consume

ExportSpec == ExportInit /\ [][ExportNext]_exportVars

-----------------------------------------------------------------------------
\* Every snapshot the plane exports adds up: each decision is in the total and
\* in exactly one of valid, fallback and invalid, and the two rejections are
\* fallbacks; and no snapshot is older than the one before it
\* (aille_observability.hpp:160).
SnapshotsAddUp ==
    LET seen == <<shown>> \o stream
    IN  \A i \in DOMAIN seen :
          LET s == seen[i]
          IN  /\ s.total = s.valid + s.fallback + s.invalid
              /\ s.confidence + s.consensus <= s.fallback
              /\ i > 1 => \A f \in Range(Fields) : seen[i - 1][f] <= s[f]

\* stop returns although the exporter may be waiting for a writer
\* (aille_observability.hpp:124, :162).
ExportStops == owner = "join" ~> owner = "idle"
=============================================================================
