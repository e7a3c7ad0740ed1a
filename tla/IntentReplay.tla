---------------------------- MODULE IntentReplay ----------------------------
(***************************************************************************)
(* How the constructor of IntentJournal reads an existing journal: line by *)
(* line, verifying the hash chain and rebuilding the table of entries, and *)
(* how AlpacaExecution decides on the table whether it may submit.         *)
(* AlpacaSubmit takes the outcome of this loop as one step (OpenExisting,  *)
(* OpenRejected); the properties here say that it is that outcome.         *)
(*                                                                         *)
(* Nothing interferes: the reader holds the flock from before the first    *)
(* read, and a file that somebody else damaged is just another journal.    *)
(***************************************************************************)
EXTENDS IntentJournal

CONSTANT Journals  \* the contents a journal file may have

ASSUME JournalsAssumption == Journals \subseteq Seq(Line) \ {<<>>}

VARIABLES
  lines,     \* the file
  status,    \* "ends", "reading", "open" or "rejected"
  previous,  \* how many lines have been verified
  listed,    \* the orders of the entries
  settled,   \* those of them whose id is not empty
  lockedOut  \* locked_out_

replayVars == <<lines, status, previous, listed, settled, lockedOut>>

ReplayTypeOK ==
  /\ lines \in Seq(Line) \ {<<>>}
  /\ status \in {"ends", "reading", "open", "rejected"}
  /\ previous \in 0..Len(lines)
  /\ listed \in SUBSET Orders
  /\ settled \in SUBSET listed
  /\ lockedOut \in BOOLEAN

ReplayInit ==
  /\ lines \in Journals
  /\ status = "ends" /\ previous = 0
  /\ listed = {} /\ settled = {} /\ lockedOut = FALSE

-----------------------------------------------------------------------------
\* The first line is the header and the last one ends in a newline.
EndsIntact == lines[1] = HeaderLine /\ lines[Len(lines)] # TornLine

CheckEnds ==
  /\ status = "ends"
  /\ EndsIntact
  /\ status' = "reading" /\ previous' = 1
  /\ UNCHANGED <<lines, listed, settled, lockedOut>>

\* The next line, when there is one.
current == lines[previous + 1]
MoreLines == status = "reading" /\ previous < Len(lines)

\* The checksum of the line verifies.
Verified == current.kind \in {"P", "A"} /\ current.prev = previous

\* The entry of the line's reference, as a set.
Found == {e \in listed : e.ref = current.order.ref}

LegalPending == current.kind = "P" /\ Found = {}

\* Mutant: an A line may come again.
AckAgain == current.kind = "A" /\ Found = {current.order}

LegalAck == current.kind = "A" /\ Found = {current.order} /\ current.order \notin settled

\* The capacity is checked after the entry has been added.
WithinCapacity(table) == Cardinality(table) <= MaxEntries

ReadPending ==
  /\ MoreLines /\ Verified /\ LegalPending
  /\ WithinCapacity(listed \union {current.order})
  /\ listed' = listed \union {current.order}
  /\ previous' = previous + 1
  /\ UNCHANGED <<lines, status, settled, lockedOut>>

ReadAck ==
  /\ MoreLines /\ Verified /\ LegalAck
  /\ settled' = settled \union {current.order}
  /\ previous' = previous + 1
  /\ UNCHANGED <<lines, status, listed, lockedOut>>

\* Any of the throws: the provider is disabled.
Reject ==
  /\ \/ status = "ends" /\ ~EndsIntact
     \/ MoreLines /\ ~Verified
     \/ MoreLines /\ Verified /\ ~LegalPending /\ ~LegalAck
     \/ MoreLines /\ Verified /\ LegalPending
          /\ ~WithinCapacity(listed \union {current.order})
  /\ status' = "rejected"
  /\ UNCHANGED <<lines, previous, listed, settled, lockedOut>>

\* Mutant: only a journal without any acknowledgement counts as pending.
NoneAcknowledged == listed # {} /\ settled = {}

HasPending == \E e \in listed : e \notin settled

Open ==
  /\ status = "reading" /\ previous = Len(lines)
  /\ status' = "open"
  /\ lockedOut' = HasPending
  /\ UNCHANGED <<lines, previous, listed, settled>>

ReplayNext == CheckEnds \/ ReadPending \/ ReadAck \/ Reject \/ Open

ReplaySpec == ReplayInit /\ [][ReplayNext]_replayVars

-----------------------------------------------------------------------------
(* Properties. *)

\* The loop lets a journal through exactly when its lines are chained, its
\* transitions legal and its entries within the capacity: it neither accepts a
\* damaged journal nor locks the operator out of a good one.
AcceptsExactlyReplayable ==
  /\ status = "open" => Replayable(lines)
  /\ status = "rejected" => ~Replayable(lines)

\* The table of an open journal is what its lines record, and submission is
\* locked exactly when some order is reserved and not acknowledged.
TableIsJournal ==
  status = "open" =>
    /\ listed = Reserved(lines)
    /\ settled = Acked(lines)
    /\ lockedOut = (Reserved(lines) # Acked(lines))
=============================================================================
