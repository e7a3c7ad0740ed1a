---------------------------- MODULE AlpacaSubmit ----------------------------
(***************************************************************************)
(* Directional order submission by AlpacaExecution instances that share    *)
(* one durable intent journal: the constructor that opens and replays the  *)
(* journal, submitOrder with its write-ahead P record, its POST and its A  *)
(* record, the broker at the other end, and the crashes between the steps. *)
(*                                                                         *)
(* An instance is single-threaded (IExecutionProvider.hpp: it is never     *)
(* called concurrently), so a step is what happens between two places      *)
(* where something else can intervene: a system call whose effect a crash  *)
(* may separate from the next one, or a message to or from the broker.     *)
(***************************************************************************)
EXTENDS IntentJournal, FiniteSetsExt

CONSTANTS
  Procs,               \* AlpacaExecution instances, in one or several OS processes
  NoProc,              \* nobody holds the journal's flock
  MaxPosition,         \* config_.max_position_usd
  Faults,              \* the kinds of fault that may happen, see FaultKinds
  FsyncPersistsEntry,  \* does fsync of a new file persist its directory entry too?
  MaxPosts             \* bound on the POSTs of one order, so that the model is finite

FaultKinds ==
  { "torn",     \* a write stores part of its line, or nothing, and fails
    "fsync",    \* fsync of the journal fails
    "dirfsync", \* opening or syncing the parent directory fails
    "kill",     \* a process dies; what it wrote stays in the page cache
    "power",    \* the machine dies; what was not synced may be lost
    "net" }     \* a request or a reply is lost, late or unusable

ASSUME SubmitAssumption ==
  /\ NoProc \notin Procs
  /\ MaxPosition \in Nat
  /\ Faults \subseteq FaultKinds
  /\ FsyncPersistsEntry \in BOOLEAN
  /\ MaxPosts \in Nat

VARIABLES
  \* The journal file.
  log,        \* its lines, as a reader of the running system sees them
  synced,     \* how many of them are on stable storage
  dirSynced,  \* is its directory entry on stable storage?
  lock,       \* the instance that holds the flock, or NoProc
  \* The instances.
  pc,         \* where an instance is, see Places
  locked,     \* locked_out_
  reserved,   \* the orders of journal_->entries
  acked,      \* those of them whose id is not empty
  tail,       \* the lines the instance accounts for: previous, bytes_written
  cur,        \* the order being submitted, or NoOrder
  reply,      \* the broker's answer to the outstanding POST
  \* The outside world.
  posts,      \* how often an order was sent to the broker
  wire,       \* how many of these requests the broker has not seen yet
  accepted,   \* how often the broker accepted an order
  returned    \* the orders whose broker id a caller was given

fileVars == <<log, synced, dirSynced, lock>>
procVars == <<pc, locked, reserved, acked, tail, cur, reply>>
worldVars == <<posts, wire, accepted, returned>>
vars == <<fileVars, procVars, worldVars>>

Places ==
  { "down",      \* not constructed
    "header",    \* header written, fsync next
    "dirsync",   \* header synced, fsync of the directory next
    "disabled",  \* constructed, is_enabled_ = false
    "idle",      \* constructed, no call in progress
    "reserve",   \* P line written, fsync next
    "post",      \* P line durable, POST next
    "await",     \* POST sent, waiting for the answer
    "ack" }      \* A line written, fsync next

\* The places between the write of a P line and the return of submitOrder.
InCall == {"reserve", "post", "await", "ack"}

FileOK ==
  /\ log \in Seq(Line)
  /\ synced \in 0..Len(log)
  /\ dirSynced \in BOOLEAN
  /\ lock \in Procs \union {NoProc}

InstancesOK ==
  /\ pc \in [Procs -> Places]
  /\ locked \in [Procs -> BOOLEAN]
  /\ reserved \in [Procs -> SUBSET Orders]
  /\ acked \in [Procs -> SUBSET Orders]
  /\ tail \in [Procs -> Nat]
  /\ cur \in [Procs -> Orders \union {NoOrder}]
  /\ reply \in [Procs -> {"none", "ack", "other"}]
  /\ \A p \in Procs : pc[p] \in InCall => cur[p] \in Orders

WorldOK ==
  /\ posts \in [Orders -> Nat]
  /\ wire \in [Orders -> Nat]
  /\ accepted \in [Orders -> Nat]
  /\ returned \in SUBSET Orders

TypeOK == FileOK /\ InstancesOK /\ WorldOK

Init ==
  /\ log = <<>> /\ synced = 0 /\ dirSynced = FALSE /\ lock = NoProc
  /\ pc = [p \in Procs |-> "down"]
  /\ locked = [p \in Procs |-> FALSE]
  /\ reserved = [p \in Procs |-> {}]
  /\ acked = [p \in Procs |-> {}]
  /\ tail = [p \in Procs |-> 0]
  /\ cur = [p \in Procs |-> NoOrder]
  /\ reply = [p \in Procs |-> "none"]
  /\ posts = [o \in Orders |-> 0]
  /\ wire = [o \in Orders |-> 0]
  /\ accepted = [o \in Orders |-> 0]
  /\ returned = {}

-----------------------------------------------------------------------------
(* Building blocks. *)

Goto(p, place) == pc' = [pc EXCEPT ![p] = place]

\* The lines on stable storage.
Durable == SubSeq(log, 1, synced)

\* A successful fsync of the journal.
Fsync ==
  /\ synced' = Len(log)
  /\ dirSynced' = (dirSynced \/ FsyncPersistsEntry)

\* What a write that fails leaves behind: nothing of the line, or part of it.
TornWrite == "torn" \in Faults /\ log' \in {log, Append(log, TornLine)}

\* Mutant: the failure is reported to the caller but does not lock submission.
ReportOnly(p) ==
  /\ cur' = [cur EXCEPT ![p] = NoOrder]
  /\ reply' = [reply EXCEPT ![p] = "none"]
  /\ Goto(p, "idle")
  /\ UNCHANGED <<synced, dirSynced, lock, locked, reserved, acked, tail, worldVars>>

\* triggerLockout, and submitOrder returns without an id.
LockOut(p) ==
  /\ locked' = [locked EXCEPT ![p] = TRUE]
  /\ cur' = [cur EXCEPT ![p] = NoOrder]
  /\ reply' = [reply EXCEPT ![p] = "none"]
  /\ Goto(p, "idle")
  /\ UNCHANGED <<synced, dirSynced, lock, reserved, acked, tail, worldVars>>

\* The journal cannot be opened: is_enabled_ = false, and no flock is held.
Disable(p) ==
  /\ Goto(p, "disabled")
  /\ UNCHANGED <<synced, dirSynced, locked, reserved, acked, tail, cur, reply, worldVars>>

-----------------------------------------------------------------------------
(* The constructor. *)

\* Another instance holds the flock.
OpenLocked(p) ==
  /\ pc[p] = "down" /\ lock # NoProc
  /\ Disable(p)
  /\ UNCHANGED <<log, lock>>

\* A new or empty file: write the header.
OpenNew(p) ==
  /\ pc[p] = "down" /\ lock = NoProc /\ log = <<>>
  /\ log' = <<HeaderLine>>
  /\ lock' = p
  /\ Goto(p, "header")
  /\ UNCHANGED <<synced, dirSynced, locked, reserved, acked, tail, cur, reply, worldVars>>

OpenNewFails(p) ==
  /\ pc[p] = "down" /\ lock = NoProc /\ log = <<>>
  /\ TornWrite
  /\ Disable(p)
  /\ lock' = NoProc

HeaderFsync(p) ==
  /\ pc[p] = "header"
  /\ Fsync
  /\ Goto(p, "dirsync")
  /\ UNCHANGED <<log, lock, locked, reserved, acked, tail, cur, reply, worldVars>>

DirFsync(p) ==
  /\ pc[p] = "dirsync"
  /\ dirSynced' = TRUE
  /\ tail' = [tail EXCEPT ![p] = Len(log)]
  /\ Goto(p, "idle")
  /\ UNCHANGED <<log, synced, lock, locked, reserved, acked, cur, reply, worldVars>>

\* Creating the journal fails after the header: the file stays as it is.
CreateFails(p) ==
  /\ \/ pc[p] = "header" /\ "fsync" \in Faults
     \/ pc[p] = "dirsync" /\ "dirfsync" \in Faults
  /\ Disable(p)
  /\ lock' = NoProc /\ log' = log

\* Mutant: the constructor does not ask hasPending.
OpenIgnoringPending(p) ==
  /\ pc[p] = "down" /\ lock = NoProc /\ log # <<>>
  /\ Replayable(log) /\ Len(log) <= MaxLines
  /\ lock' = p
  /\ reserved' = [reserved EXCEPT ![p] = Reserved(log)]
  /\ acked' = [acked EXCEPT ![p] = Acked(log)]
  /\ tail' = [tail EXCEPT ![p] = Len(log)]
  /\ Goto(p, "idle")
  /\ UNCHANGED <<log, synced, dirSynced, locked, cur, reply, worldVars>>

\* A file with contents: replay it, and lock submission if an entry is pending.
OpenExisting(p) ==
  /\ pc[p] = "down" /\ lock = NoProc /\ log # <<>>
  /\ Replayable(log) /\ Len(log) <= MaxLines
  /\ lock' = p
  /\ reserved' = [reserved EXCEPT ![p] = Reserved(log)]
  /\ acked' = [acked EXCEPT ![p] = Acked(log)]
  /\ tail' = [tail EXCEPT ![p] = Len(log)]
  /\ locked' = [locked EXCEPT ![p] = (Reserved(log) # Acked(log))]
  /\ Goto(p, "idle")
  /\ UNCHANGED <<log, synced, dirSynced, cur, reply, worldVars>>

OpenRejected(p) ==
  /\ pc[p] = "down" /\ lock = NoProc /\ log # <<>>
  /\ ~(Replayable(log) /\ Len(log) <= MaxLines)
  /\ Disable(p)
  /\ UNCHANGED <<log, lock>>

-----------------------------------------------------------------------------
(* submitOrder. *)

\* The checks before the journal is consulted (is_enabled_, locked_out_, the
\* shape of the request and its notional).
Admitted(p, o) == pc[p] = "idle" /\ ~locked[p] /\ o.notional <= MaxPosition

\* lookup: the entry of this reference.
Entry(p, o) == {e \in reserved[p] : e.ref = o.ref}
ContainsSymbol(p, o) == \E e \in reserved[p] : e.symbol = o.symbol
ReservedNotional(p, o) ==
  MapThenSumSet(LAMBDA e : e.notional, {e \in reserved[p] : e.symbol = o.symbol})

\* Mutants: the reference is not looked up; only the order itself is held
\* against the limit.
MayReserveAnyRef(p, o) ==
  /\ Admitted(p, o)
  /\ ~ContainsSymbol(p, o)
  /\ ReservedNotional(p, o) + o.notional <= MaxPosition
MayReserveByItself(p, o) ==
  /\ Admitted(p, o)
  /\ Entry(p, o) = {}

\* lookup, containsSymbol and reserved let the order through to reserve.
MayReserve(p, o) ==
  /\ Admitted(p, o)
  /\ Entry(p, o) = {}
  /\ ~ContainsSymbol(p, o)
  /\ ReservedNotional(p, o) + o.notional <= MaxPosition

HasRoom(p) == Cardinality(reserved[p]) < MaxEntries /\ tail[p] < MaxLines

\* The same request again: the saved id is returned.
SubmitCached(p, o) ==
  /\ Admitted(p, o)
  /\ o \in reserved[p] \intersect acked[p]
  /\ returned' = returned \union {o}
  /\ UNCHANGED <<fileVars, procVars, posts, wire, accepted>>

\* reserve writes the P line.
SubmitReserve(p, o) ==
  /\ MayReserve(p, o) /\ HasRoom(p)
  /\ log' = Append(log, PendingLine(o, tail[p]))
  /\ cur' = [cur EXCEPT ![p] = o]
  /\ Goto(p, "reserve")
  /\ UNCHANGED <<synced, dirSynced, lock, locked, reserved, acked, tail, reply, worldVars>>

\* lookup throws (the reference has another order), or reserve does.
SubmitThrows(p, o) ==
  /\ \/ Admitted(p, o) /\ Entry(p, o) \notin {{}, {o}} /\ log' = log
     \/ MayReserve(p, o) /\ ~HasRoom(p) /\ log' = log
     \/ MayReserve(p, o) /\ HasRoom(p) /\ TornWrite
  /\ LockOut(p)

\* Mutant: the P line is written but not synced before the POST.
ReserveUnsynced(p) ==
  /\ pc[p] = "reserve"
  /\ reserved' = [reserved EXCEPT ![p] = @ \union {cur[p]}]
  /\ tail' = [tail EXCEPT ![p] = @ + 1]
  /\ Goto(p, "post")
  /\ UNCHANGED <<fileVars, locked, cur, reply, acked, worldVars>>

ReserveFsync(p) ==
  /\ pc[p] = "reserve"
  /\ Fsync
  /\ reserved' = [reserved EXCEPT ![p] = @ \union {cur[p]}]
  /\ tail' = [tail EXCEPT ![p] = @ + 1]
  /\ Goto(p, "post")
  /\ UNCHANGED <<log, lock, locked, acked, cur, reply, worldVars>>

ReserveFsyncFails(p) ==
  /\ pc[p] = "reserve" /\ "fsync" \in Faults
  /\ LockOut(p) /\ log' = log

\* The POST leaves.
Post(p) ==
  /\ pc[p] = "post" /\ posts[cur[p]] < MaxPosts
  /\ posts' = [posts EXCEPT ![cur[p]] = @ + 1]
  /\ wire' = [wire EXCEPT ![cur[p]] = @ + 1]
  /\ Goto(p, "await")
  /\ UNCHANGED <<fileVars, locked, reserved, acked, tail, cur, reply, accepted, returned>>

\* No connection.
PostFails(p) ==
  /\ pc[p] = "post" /\ "net" \in Faults
  /\ LockOut(p) /\ log' = log

\* Mutant: any answer counts as an acknowledgement.
AcknowledgeAny(p) ==
  /\ pc[p] = "await" /\ reply[p] # "none" /\ tail[p] < MaxLines
  /\ log' = Append(log, AckLine(cur[p], tail[p]))
  /\ reply' = [reply EXCEPT ![p] = "none"]
  /\ Goto(p, "ack")
  /\ UNCHANGED <<synced, dirSynced, lock, locked, reserved, acked, tail, cur, worldVars>>

\* An acknowledged id: acknowledge writes the A line.
Acknowledge(p) ==
  /\ pc[p] = "await" /\ reply[p] = "ack" /\ tail[p] < MaxLines
  /\ log' = Append(log, AckLine(cur[p], tail[p]))
  /\ reply' = [reply EXCEPT ![p] = "none"]
  /\ Goto(p, "ack")
  /\ UNCHANGED <<synced, dirSynced, lock, locked, reserved, acked, tail, cur, worldVars>>

AcknowledgeThrows(p) ==
  /\ pc[p] = "await" /\ reply[p] = "ack"
  /\ IF tail[p] < MaxLines THEN TornWrite ELSE log' = log
  /\ LockOut(p)

AckFsync(p) ==
  /\ pc[p] = "ack"
  /\ Fsync
  /\ acked' = [acked EXCEPT ![p] = @ \union {cur[p]}]
  /\ tail' = [tail EXCEPT ![p] = @ + 1]
  /\ returned' = returned \union {cur[p]}
  /\ cur' = [cur EXCEPT ![p] = NoOrder]
  /\ Goto(p, "idle")
  /\ UNCHANGED <<log, lock, locked, reserved, reply, posts, wire, accepted>>

AckFsyncFails(p) ==
  /\ pc[p] = "ack" /\ "fsync" \in Faults
  /\ LockOut(p) /\ log' = log

\* Mutants: the transport has no timeouts; an unconfirmed outcome does not lock.
UnconfirmedNoTimeout(p) ==
  /\ pc[p] = "await" /\ reply[p] = "other"
  /\ LockOut(p) /\ log' = log
UnconfirmedCarriesOn(p) ==
  /\ pc[p] = "await"
  /\ reply[p] = "other" \/ (reply[p] = "none" /\ "net" \in Faults)
  /\ ReportOnly(p) /\ log' = log

\* No id: an error status, an unusable body, or one of the timeouts.
Unconfirmed(p) ==
  /\ pc[p] = "await"
  /\ reply[p] = "other" \/ (reply[p] = "none" /\ "net" \in Faults)
  /\ LockOut(p) /\ log' = log

-----------------------------------------------------------------------------
(* The broker: it may accept or refuse a request, long after its sender has
   given up, and its answer may be lost. *)

\* The answer to a request for o reaches the instance that waits for it, if
\* one still does and the answer is not lost.
Answer(o, answers) ==
  \/ \E p \in Procs :
       /\ pc[p] = "await" /\ cur[p] = o /\ reply[p] = "none"
       /\ reply' \in {[reply EXCEPT ![p] = a] : a \in answers}
  \/ /\ "net" \in Faults \/ \A p \in Procs : ~(pc[p] = "await" /\ cur[p] = o)
     /\ reply' = reply

BrokerReceives(o) ==
  /\ wire[o] > 0
  /\ wire' = [wire EXCEPT ![o] = @ - 1]
  /\ \/ /\ accepted' = [accepted EXCEPT ![o] = @ + 1]
        /\ Answer(o, {"ack"} \union (IF "net" \in Faults THEN {"other"} ELSE {}))
     \/ Answer(o, {"other"}) /\ accepted' = accepted
  /\ UNCHANGED <<fileVars, pc, locked, reserved, acked, tail, cur, posts, returned>>

RequestLost(o) ==
  /\ "net" \in Faults /\ wire[o] > 0
  /\ wire' = [wire EXCEPT ![o] = @ - 1]
  /\ UNCHANGED <<fileVars, procVars, posts, accepted, returned>>

-----------------------------------------------------------------------------
(* The end of an instance. *)

\* The instance is destroyed between calls, or its process is killed anywhere;
\* either way the descriptor is closed and the memory is gone.
Exit(p) ==
  /\ pc[p] # "down"
  /\ pc[p] \in {"idle", "disabled"} \/ "kill" \in Faults
  /\ Goto(p, "down")
  /\ lock' = IF lock = p THEN NoProc ELSE lock
  /\ locked' = [locked EXCEPT ![p] = FALSE]
  /\ reserved' = [reserved EXCEPT ![p] = {}]
  /\ acked' = [acked EXCEPT ![p] = {}]
  /\ tail' = [tail EXCEPT ![p] = 0]
  /\ cur' = [cur EXCEPT ![p] = NoOrder]
  /\ reply' = [reply EXCEPT ![p] = "none"]
  /\ UNCHANGED <<log, synced, dirSynced, worldVars>>

\* After a power failure the file holds at least its synced lines, possibly
\* more, the last of them possibly torn; without a durable directory entry it
\* may be gone altogether.
SurvivingLogs ==
  {SubSeq(log, 1, n) : n \in synced..Len(log)}
    \union {Append(SubSeq(log, 1, n), TornLine) : n \in synced..(Len(log) - 1)}
    \union (IF dirSynced THEN {} ELSE {<<>>})

PowerLoss ==
  /\ "power" \in Faults
  /\ \E lines \in SurvivingLogs :
       /\ log' = lines
       /\ synced' = Len(lines)
       /\ dirSynced' = (lines # <<>>)
  /\ lock' = NoProc
  /\ pc' = [p \in Procs |-> "down"]
  /\ locked' = [p \in Procs |-> FALSE]
  /\ reserved' = [p \in Procs |-> {}]
  /\ acked' = [p \in Procs |-> {}]
  /\ tail' = [p \in Procs |-> 0]
  /\ cur' = [p \in Procs |-> NoOrder]
  /\ reply' = [p \in Procs |-> "none"]
  /\ UNCHANGED worldVars

-----------------------------------------------------------------------------
Constructor(p) ==
  \/ OpenLocked(p) \/ OpenNew(p) \/ OpenNewFails(p)
  \/ HeaderFsync(p) \/ DirFsync(p) \/ CreateFails(p)
  \/ OpenExisting(p) \/ OpenRejected(p)

Submit(p, o) == SubmitCached(p, o) \/ SubmitReserve(p, o) \/ SubmitThrows(p, o)

\* The steps of a submitOrder call once it has begun.
Submitting(p) ==
  \/ ReserveFsync(p) \/ ReserveFsyncFails(p) \/ Post(p) \/ PostFails(p)
  \/ Acknowledge(p) \/ AcknowledgeThrows(p) \/ AckFsync(p) \/ AckFsyncFails(p)
  \/ Unconfirmed(p)

Next ==
  \/ \E p \in Procs : Constructor(p) \/ Submitting(p) \/ Exit(p)
  \/ \E p \in Procs, o \in Orders : Submit(p, o)
  \/ \E o \in Orders : BrokerReceives(o) \/ RequestLost(o)
  \/ PowerLoss

Spec == Init /\ [][Next]_vars

\* A call that has begun goes on: the transport's timeouts end every wait, and
\* the broker answers or loses what was sent.
Fairness ==
  /\ \A p \in Procs : WF_vars(Submitting(p))
  /\ \A o \in Orders : WF_vars(BrokerReceives(o))

-----------------------------------------------------------------------------
(* Properties. *)

\* Of two orders that share a client reference or a symbol at most one is ever
\* sent to the broker, and it is sent once: whatever dies, fails to be written
\* or stays unanswered, no instance and no restart sends it again
\* (intent_journal.hpp:30, submitOrder's lookup, containsSymbol and reserve).
AtMostOncePost ==
  \A o1, o2 \in Orders :
    posts[o1] > 0 /\ posts[o2] > 0 /\ Conflict(o1, o2) => o1 = o2 /\ posts[o1] = 1

\* An order that has left for the broker has its P line on stable storage
\* ("every intent is fsync'd BEFORE network submission").
WrittenAhead == \A o \in Orders : posts[o] > 0 => o \in Reserved(Durable)

\* An instance that would submit has the outcome of every order that was ever
\* sent, by it or by any instance before it (hasPending, triggerLockout).
NoAmbiguityWhileOpen ==
  \A p \in Procs : pc[p] = "idle" /\ ~locked[p] =>
    \A o \in Orders : posts[o] > 0 => o \in acked[p]

\* An order leaves for the broker only when every earlier one is acknowledged
\* in the journal.
PostOnlyWhenResolved ==
  [][ posts' # posts => \A o \in Orders : posts[o] > 0 => o \in Acked(log) ]_vars

\* An id is journalled or returned only for an order the broker accepted, once.
AcknowledgedWasAccepted ==
  \A o \in Acked(log) \union returned : accepted[o] = 1

\* The dollars the broker was made to accept in one symbol stay within
\* max_position_usd, over all instances, restarts and unknown outcomes.
Exposure(s) ==
  MapThenSumSet(LAMBDA o : accepted[o] * o.notional,
                {o \in Orders : o.symbol = s /\ accepted[o] > 0})
ExposureWithinLimit == \A s \in Symbols : Exposure(s) <= MaxPosition

\* The next constructor can replay what the writers left, whatever failed and
\* wherever they died, unless the last line is torn; then everything before
\* the torn line is replayable.
JournalReplayable ==
  \/ log = <<>>
  \/ Replayable(log)
  \/ /\ log[Len(log)] = TornLine
     /\ LET front == SubSeq(log, 1, Len(log) - 1) IN front = <<>> \/ Replayable(front)

\* To callers and broker the provider is the abstract OrderContract.
Contract == INSTANCE OrderContract WITH
  Clash <- Conflict, Affordable <- LAMBDA o : o.notional <= MaxPosition
ImplementsContract == Contract!Spec

\* A submission that has begun ends: with a durable acknowledgement, with a
\* locked instance, or with the death of the instance.
SubmissionSettles ==
  \A p \in Procs : pc[p] \in InCall ~>
    pc[p] = "down" \/ (pc[p] = "idle" /\ (locked[p] \/ acked[p] = reserved[p]))
=============================================================================
