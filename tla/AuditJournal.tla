---------------------------- MODULE AuditJournal ----------------------------
(***************************************************************************)
(* AuditLogger (aille_audit.cpp): the durable journal of hash-chained      *)
(* decision records, the CSV derived from it, and the loggers, in one or   *)
(* several processes, that open, append to and close them.                 *)
(*                                                                         *)
(* A record is identified with what its hash covers: the sequence of the   *)
(* decisions logged up to it.  Its length is the decision id, its Front is *)
(* what prev_hash stands for, and the genesis marker is the empty chain.   *)
(* A logger's methods run under its own mutex, so a logger does one call   *)
(* at a time; a step lies between two system calls.                        *)
(***************************************************************************)
EXTENDS Integers, Sequences, SequencesExt

CONSTANTS
  Decisions,    \* the decisions a host logs
  Loggers,      \* AuditLogger objects
  NoLogger,     \* nobody holds the journal's flock
  Deployments,       \* the deployments to consider, see DeploymentType
  Limit,        \* the largest journal that open accepts, in bytes
  Margin,       \* what logDecision keeps back of it
  HeaderBytes, RecordBytes

FaultKinds ==
  { "io",      \* a write of the journal stores part or nothing, or an fsync fails
    "csv",     \* the CSV cannot be opened or flushed
    "kill",    \* a process dies; what it wrote stays in the page cache
    "power" }  \* the machine dies; what was not synced may be lost

DeploymentType ==
  [loggers : SUBSET Loggers,
   faults : SUBSET FaultKinds,
   persists : BOOLEAN,  \* does fsync of a new file persist its directory entry too?
   legacy : BOOLEAN]    \* is there a CSV written before journals existed?

ASSUME AuditAssumption ==
  /\ NoLogger \notin Loggers
  /\ Deployments \subseteq DeploymentType
  /\ HeaderBytes \in Nat /\ RecordBytes \in Nat \ {0}
  /\ Margin \in Nat /\ HeaderBytes <= Margin
  /\ Limit \in Nat /\ Margin <= Limit
  /\ {"torn", "legacy"} \cap Decisions = {}   \* Torn and Legacy below are no records

Header == <<>>           \* AILEE-AUDIT-256-V1; in the CSV: the line of column names
Torn   == <<"torn">>     \* bytes that are no record
Legacy == <<"legacy">>   \* the rows of an old CSV

Chain == Seq(Decisions)

\* The places between two system calls of open and of logDecision.
Places ==
  { "closed",   \* no journal
    "looked",   \* exists(path) asked; ::open next
    "opened",   \* file opened and fstat taken; flock next
    "new",      \* flock held, file taken for empty; header next
    "header",   \* header written, fsync next
    "dir",      \* header synced, fsync of the directory next
    "csv",      \* journal ready; CSV next
    "ready",    \* open
    "written",  \* record written, fsync next
    "export" }  \* record durable and in the trail; CSV row next

VARIABLES
  deployment,      \* the deployment, fixed at the start
  \* The files.
  file,       \* the items of the journal, as a reader of the running system sees them
  disk,       \* those on stable storage
  entry,      \* the journal's directory entry: "none", "cached" or "durable"
  csv,        \* the lines of the CSV
  holder,     \* the logger that holds the flock, or NoLogger
  \* The loggers.
  pc,         \* where each is
  existed,    \* open's local of that name
  sawEmpty,   \* info.st_size == 0
  trail,      \* audit_trail: its last record, the empty chain if it has none
  buf,        \* lines in log_file's buffer
  csvOk,      \* log_file has not failed
  \* What callers were told.
  journalled  \* the records logDecision returned for, or of which it said that
              \* the journal is authoritative

fileVars == <<file, disk, entry, csv, holder>>
loggerVars == <<pc, existed, sawEmpty, trail, buf, csvOk>>
auditVars == <<deployment, fileVars, loggerVars, journalled>>

Item == Chain \union {Torn}
Row == Chain \union {Legacy}

AuditTypeOK ==
  /\ deployment \in Deployments
  /\ file \in Seq(Item) /\ disk \in Seq(Item)
  /\ entry \in {"none", "cached", "durable"}
  /\ csv \in Seq(Row)
  /\ holder \in Loggers \union {NoLogger}
  /\ pc \in [Loggers -> Places]
  /\ existed \in [Loggers -> BOOLEAN]
  /\ sawEmpty \in [Loggers -> BOOLEAN]
  /\ trail \in [Loggers -> Chain]
  /\ buf \in [Loggers -> Seq(Row)]
  /\ csvOk \in [Loggers -> BOOLEAN]
  /\ journalled \subseteq Chain

AuditInit ==
  /\ deployment \in Deployments
  /\ file = <<>> /\ disk = <<>> /\ entry = "none"
  /\ csv = IF deployment.legacy THEN <<Legacy>> ELSE <<>>
  /\ holder = NoLogger
  /\ pc = [i \in Loggers |-> "closed"]
  /\ existed = [i \in Loggers |-> FALSE]
  /\ sawEmpty = [i \in Loggers |-> FALSE]
  /\ trail = [i \in Loggers |-> <<>>]
  /\ buf = [i \in Loggers |-> <<>>]
  /\ csvOk = [i \in Loggers |-> TRUE]
  /\ journalled = {}

-----------------------------------------------------------------------------
(* Building blocks. *)

May(fault) == fault \in deployment.faults
Goto(i, place) == pc' = [pc EXCEPT ![i] = place]

\* A write at position n of items: it appends, or replaces what is there.
Put(items, n, item) ==
  IF n <= Len(items) THEN [items EXCEPT ![n] = item] ELSE Append(items, item)

\* Logger i writes an item where its descriptor stands: after the header and
\* the records of its trail.
WriteAt(i) == Len(trail[i]) + 2

Bytes(items) == HeaderBytes + RecordBytes * (Len(items) - 1)

\* A successful fsync of the journal.
Fsync ==
  /\ disk' = file
  /\ entry' = IF deployment.persists THEN "durable" ELSE entry

\* What open's reading loop and verifyIntegrity accept: the header, then
\* records with ids 1, 2, ... of which each carries the hash of the one before.
Replayable(items) ==
  /\ items # <<>> /\ items[1] = Header
  /\ \A k \in 2..Len(items) :
       /\ items[k] # Torn
       /\ Len(items[k]) = k - 1
       /\ Front(items[k]) = items[k - 1]

\* fail: open returns false, the descriptor and the flock are gone, and so is
\* what was replayed.
Abandon(i) ==
  /\ Goto(i, "closed")
  /\ trail' = [trail EXCEPT ![i] = <<>>]
  /\ holder' = IF holder = i THEN NoLogger ELSE holder
  /\ UNCHANGED <<existed, sawEmpty, buf, csvOk, journalled, deployment>>

\* What a flush of the buffer may leave of it in the CSV.
Flushed(i) ==
  {csv \o buf[i]}
    \union (IF May("csv") THEN {csv \o SubSeq(buf[i], 1, n) : n \in 0..(Len(buf[i]) - 1)}
            ELSE {})

\* close: the CSV is flushed, as far as that works, then the flock goes.
CloseFiles(i) ==
  /\ Goto(i, "closed")
  /\ csv' \in Flushed(i)
  /\ buf' = [buf EXCEPT ![i] = <<>>]
  /\ csvOk' = [csvOk EXCEPT ![i] = TRUE]
  /\ holder' = NoLogger
  /\ UNCHANGED <<entry, existed, sawEmpty, trail, journalled, deployment>>

-----------------------------------------------------------------------------
(* open. *)

\* Only an object without a trail and without files may open, and it asks
\* whether the journal exists.
LookForJournal(i) ==
  /\ i \in deployment.loggers /\ pc[i] = "closed" /\ trail[i] = <<>>
  /\ existed' = [existed EXCEPT ![i] = (entry # "none")]
  /\ Goto(i, "looked")
  /\ UNCHANGED <<deployment, fileVars, sawEmpty, trail, buf, csvOk, journalled>>

\* ::open with O_CREAT, then fstat.
OpenFile(i) ==
  /\ pc[i] = "looked"
  /\ entry' = IF entry = "none" THEN "cached" ELSE entry
  /\ sawEmpty' = [sawEmpty EXCEPT ![i] = (file = <<>>)]
  /\ Goto(i, "opened")
  /\ UNCHANGED <<deployment, file, disk, csv, holder, existed, trail, buf, csvOk, journalled>>

\* The flock is another logger's, or the size is over the limit.
LockRefused(i) ==
  /\ pc[i] = "opened"
  /\ holder # NoLogger \/ Bytes(file) > Limit
  /\ Abandon(i)
  /\ UNCHANGED <<file, disk, entry, csv>>

\* A journal with contents is replayed.
LockReplay(i) ==
  /\ pc[i] = "opened" /\ holder = NoLogger /\ Bytes(file) <= Limit
  /\ ~sawEmpty[i] /\ Replayable(file)
  /\ holder' = i
  /\ trail' = [trail EXCEPT ![i] = Last(file)]
  /\ Goto(i, "csv")
  /\ UNCHANGED <<deployment, file, disk, entry, csv, existed, sawEmpty, buf, csvOk, journalled>>

ReplayFails(i) ==
  /\ pc[i] = "opened" /\ holder = NoLogger
  /\ ~sawEmpty[i] /\ ~Replayable(file)
  /\ Abandon(i)
  /\ UNCHANGED <<file, disk, entry, csv>>

\* A journal that fstat saw empty is begun, unless the CSV has contents.
LockNew(i) ==
  /\ pc[i] = "opened" /\ holder = NoLogger /\ Bytes(file) <= Limit
  /\ sawEmpty[i] /\ csv = <<>>
  /\ holder' = i
  /\ Goto(i, "new")
  /\ UNCHANGED <<deployment, file, disk, entry, csv, existed, sawEmpty, trail, buf, csvOk, journalled>>

LegacyCsv(i) ==
  /\ pc[i] = "opened" /\ holder = NoLogger
  /\ sawEmpty[i] /\ csv # <<>>
  /\ Abandon(i)
  /\ UNCHANGED <<file, disk, entry, csv>>

WriteHeader(i) ==
  /\ pc[i] = "new"
  /\ file' = Put(file, 1, Header)
  /\ Goto(i, "header")
  /\ UNCHANGED <<deployment, disk, entry, csv, holder, existed, sawEmpty, trail, buf, csvOk, journalled>>

HeaderTorn(i) ==
  /\ pc[i] = "new" /\ May("io")
  /\ file' \in {file, Put(file, 1, Torn)}
  /\ Abandon(i)
  /\ UNCHANGED <<disk, entry, csv>>

SyncHeader(i) ==
  /\ pc[i] = "header"
  /\ Fsync
  /\ Goto(i, IF existed[i] THEN "csv" ELSE "dir")
  /\ UNCHANGED <<deployment, file, csv, holder, existed, sawEmpty, trail, buf, csvOk, journalled>>

SyncDir(i) ==
  /\ pc[i] = "dir"
  /\ entry' = "durable"
  /\ Goto(i, "csv")
  /\ UNCHANGED <<deployment, file, disk, csv, holder, existed, sawEmpty, trail, buf, csvOk, journalled>>

\* The CSV is opened for appending; an empty one gets its column names, in the
\* buffer.
OpenCsv(i) ==
  /\ pc[i] = "csv"
  /\ buf' = [buf EXCEPT ![i] = IF csv = <<>> THEN <<Header>> ELSE <<>>]
  /\ Goto(i, "ready")
  /\ UNCHANGED <<deployment, fileVars, existed, sawEmpty, trail, csvOk, journalled>>

\* An fsync of open fails, or the CSV cannot be opened.
OpenFails(i) ==
  /\ \/ pc[i] \in {"header", "dir"} /\ May("io")
     \/ pc[i] = "csv" /\ May("csv")
  /\ Abandon(i)
  /\ UNCHANGED <<file, disk, entry, csv>>

-----------------------------------------------------------------------------
(* logDecision and close. *)

\* The capacity check.
HasRoom(i) == Len(trail[i]) + 1 <= (Limit - Margin) \div RecordBytes

\* The record is written behind the last one.
LogWrite(i, d) ==
  /\ pc[i] = "ready" /\ HasRoom(i)
  /\ file' = Put(file, WriteAt(i), Append(trail[i], d))
  /\ Goto(i, "written")
  /\ UNCHANGED <<deployment, disk, entry, csv, holder, existed, sawEmpty, trail, buf, csvOk, journalled>>

\* Mutant: after a write that failed the journal stays open.
LogWriteFailsOpen(i) ==
  /\ pc[i] = "ready" /\ HasRoom(i) /\ May("io")
  /\ file' \in {file, Put(file, WriteAt(i), Torn)}
  /\ UNCHANGED <<deployment, disk, entry, csv, holder, loggerVars, journalled>>

\* The write fails: close, and the caller gets an exception.
LogWriteFails(i) ==
  /\ pc[i] = "ready" /\ HasRoom(i) /\ May("io")
  /\ file' \in {file, Put(file, WriteAt(i), Torn)}
  /\ CloseFiles(i)
  /\ disk' = disk

\* Mutant: the record enters the trail, and the CSV, before it is synced.
LogNoSync(i) ==
  /\ pc[i] = "written"
  /\ trail' = [trail EXCEPT ![i] = file[WriteAt(i)]]
  /\ Goto(i, "export")
  /\ UNCHANGED <<deployment, fileVars, existed, sawEmpty, buf, csvOk, journalled>>

\* fsync; then trail, id and hash move on.
LogSync(i) ==
  /\ pc[i] = "written"
  /\ Fsync
  /\ trail' = [trail EXCEPT ![i] = file[WriteAt(i)]]
  /\ Goto(i, "export")
  /\ UNCHANGED <<deployment, file, csv, holder, existed, sawEmpty, buf, csvOk, journalled>>

LogSyncFails(i) ==
  /\ pc[i] = "written" /\ May("io")
  /\ CloseFiles(i)
  /\ UNCHANGED <<file, disk>>

\* The row is written and flushed, and logDecision returns.
ExportRow(i) ==
  /\ pc[i] = "export" /\ csvOk[i]
  /\ csv' = Append(csv \o buf[i], trail[i])
  /\ buf' = [buf EXCEPT ![i] = <<>>]
  /\ journalled' = journalled \union {trail[i]}
  /\ Goto(i, "ready")
  /\ UNCHANGED <<deployment, file, disk, entry, holder, existed, sawEmpty, trail, csvOk>>

\* The flush fails, now or for an earlier row: the exception says that the
\* journal is authoritative.  The row stays in the buffer until close.
ExportFails(i) ==
  /\ pc[i] = "export"
  /\ \/ /\ csvOk[i] /\ May("csv")
        /\ buf' = [buf EXCEPT ![i] = Append(@, trail[i])]
        /\ csv' \in {csv \o SubSeq(buf[i], 1, n) : n \in 0..Len(buf[i])}
        /\ csvOk' = [csvOk EXCEPT ![i] = FALSE]
     \/ ~csvOk[i] /\ UNCHANGED <<buf, csv, csvOk>>
  /\ journalled' = journalled \union {trail[i]}
  /\ Goto(i, "ready")
  /\ UNCHANGED <<deployment, file, disk, entry, holder, existed, sawEmpty, trail>>

Close(i) ==
  /\ pc[i] = "ready"
  /\ CloseFiles(i)
  /\ UNCHANGED <<file, disk>>

-----------------------------------------------------------------------------
(* The end of a logger, and of the machine. *)

\* The object is destroyed while closed, or its process is killed anywhere.
\* What was in the buffer of the CSV is lost.
Exit(i) ==
  /\ \/ pc[i] = "closed" /\ trail[i] # <<>>
     \/ pc[i] # "closed" /\ May("kill")
  /\ Goto(i, "closed")
  /\ trail' = [trail EXCEPT ![i] = <<>>]
  /\ buf' = [buf EXCEPT ![i] = <<>>]
  /\ csvOk' = [csvOk EXCEPT ![i] = TRUE]
  /\ holder' = IF holder = i THEN NoLogger ELSE holder
  /\ UNCHANGED <<deployment, file, disk, entry, csv, existed, sawEmpty, journalled>>

\* What a power failure may leave: the first n items as they are in the page
\* cache, the others as they are on stable storage; where these differ the
\* next item may be torn.
Survivors ==
  LET Mixed(n) == SubSeq(file, 1, n) \o SubSeq(disk, n + 1, Len(disk))
  IN  {Mixed(n) : n \in 0..Len(file)}
        \union {Put(Mixed(n - 1), n, Torn) :
                  n \in {k \in 1..Len(file) : k > Len(disk) \/ file[k] # disk[k]}}

PowerLoss ==
  /\ May("power")
  /\ \/ /\ file' \in Survivors
        /\ entry' = IF entry = "none" THEN "none" ELSE "durable"
     \/ entry = "cached" /\ file' = <<>> /\ entry' = "none"
  /\ disk' = file'
  /\ csv' \in {SubSeq(csv, 1, n) : n \in 0..Len(csv)}
  /\ holder' = NoLogger
  /\ pc' = [i \in Loggers |-> "closed"]
  /\ trail' = [i \in Loggers |-> <<>>]
  /\ buf' = [i \in Loggers |-> <<>>]
  /\ csvOk' = [i \in Loggers |-> TRUE]
  /\ UNCHANGED <<deployment, existed, sawEmpty, journalled>>

-----------------------------------------------------------------------------
OpenSteps(i) ==
  \/ LookForJournal(i) \/ OpenFile(i) \/ LockRefused(i) \/ LockReplay(i) \/ ReplayFails(i)
  \/ LockNew(i) \/ LegacyCsv(i) \/ WriteHeader(i) \/ HeaderTorn(i)
  \/ SyncHeader(i) \/ SyncDir(i) \/ OpenCsv(i) \/ OpenFails(i)

LogSteps(i) ==
  \/ \E d \in Decisions : LogWrite(i, d)
  \/ LogWriteFails(i) \/ LogSync(i) \/ LogSyncFails(i)
  \/ ExportRow(i) \/ ExportFails(i)

AuditNext ==
  \/ \E i \in Loggers : OpenSteps(i) \/ LogSteps(i) \/ Close(i) \/ Exit(i)
  \/ PowerLoss

AuditSpec == AuditInit /\ [][AuditNext]_auditVars

-----------------------------------------------------------------------------
(* Properties. *)

Records(items) == {items[k] : k \in 1..Len(items)} \ {Header, Torn}

\* A record whose logDecision returned, or was said to be in the authoritative
\* journal, is on stable storage, whatever fails, dies or opens the journal
\* later ("records are never silently discarded").
JournalledKept == journalled \subseteq Records(disk)

\* The next open can replay what loggers left, up to and including a full
\* journal, unless the last item is torn; then all before it can be replayed.
JournalReadable ==
  \/ file = <<>>
  \/ Replayable(file) /\ Bytes(file) <= Limit
  \/ /\ Last(file) = Torn
     /\ Front(file) = <<>> \/ Replayable(Front(file))

\* The trail of an open logger, from which reports and the next id and hash
\* are made, is what the journal holds, and only the holder of the flock has
\* one.
TrailIsJournal ==
  \A i \in Loggers : pc[i] = "ready" =>
    holder = i /\ Replayable(file) /\ Last(file) = trail[i]

\* The CSV is derived: its rows are durable records in the order of their ids,
\* none twice, and a CSV from before the journal is never extended.
CsvExports ==
  LET rows == {k \in 1..Len(csv) : csv[k] # Header}
  IN  IF deployment.legacy THEN csv = <<Legacy>> /\ file = <<>>
      ELSE /\ \A k \in rows : csv[k] \in Records(disk)
           /\ \A j, k \in rows : j < k => Len(csv[j]) < Len(csv[k])

\* What the files and the loggers hold agree in every state: the journal can be
\* read again, an open logger's trail is the journal, the CSV is derived from it.
JournalWhole == AuditTypeOK /\ JournalReadable /\ TrailIsJournal /\ CsvExports
=============================================================================
