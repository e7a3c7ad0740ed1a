--------------------------- MODULE IntentJournal ---------------------------
(***************************************************************************)
(* The contents of the durable intent journal of the Alpaca provider       *)
(* (ailee_plugins/detail/intent_journal.hpp) and what a reader makes of    *)
(* them.  A journal is the sequence of its text lines: one header line,    *)
(* then one line for each P (reserved) and A (acknowledged) record, and    *)
(* possibly a torn line.  The name of a broker order identifies its whole  *)
(* request, so an order stands for its own SHA-256 fingerprint.            *)
(*                                                                         *)
(* The hash chain is abstracted to its purpose: a line carries the number  *)
(* of lines its writer believed precede it ("prev"), and the checksum of a *)
(* line verifies exactly when that is the number of lines that do.         *)
(***************************************************************************)
EXTENDS Naturals, Sequences, FiniteSets

CONSTANTS
  Refs,        \* client references (the idempotency keys of the callers)
  Symbols,     \* tickers
  Orders,      \* the requests the callers may make
  NoOrder,     \* the order field of a line that carries none
  MaxEntries,  \* entries.size() limit: 100000 in the code
  MaxLines     \* the byte capacity of the journal (16 MiB), in lines

ASSUME OrdersAssumption ==
  /\ Orders \subseteq [ref : Refs, symbol : Symbols, notional : Nat \ {0}]
  /\ NoOrder \notin Orders

ASSUME CapacityAssumption ==
  /\ MaxEntries \in Nat \ {0}
  /\ MaxLines \in Nat \ {0}

HeaderLine == [kind |-> "H", order |-> NoOrder, prev |-> 0]
TornLine == [kind |-> "T", order |-> NoOrder, prev |-> 0]
Line == {HeaderLine, TornLine} \union [kind : {"P", "A"}, order : Orders, prev : Nat]

PendingLine(o, n) == [kind |-> "P", order |-> o, prev |-> n]
AckLine(o, n) == [kind |-> "A", order |-> o, prev |-> n]

\* The orders that have a P line, and those that have an A line, in a journal.
Reserved(lines) == {lines[i].order : i \in {j \in DOMAIN lines : lines[j].kind = "P"}}
Acked(lines) == {lines[i].order : i \in {j \in DOMAIN lines : lines[j].kind = "A"}}

\* Two orders that must never both reach the broker: one client reference, or
\* one symbol.
Conflict(o1, o2) == o1.ref = o2.ref \/ o1.symbol = o2.symbol

-----------------------------------------------------------------------------
(* What the constructor accepts: a header, and only whole lines after it,
   each chained to the line before it, a P line for a reference that has no
   entry yet, an A line for the same order whose entry is pending. *)

Chained(lines) ==
  \A i \in 2..Len(lines) : lines[i].kind \in {"P", "A"} /\ lines[i].prev = i - 1

LegalTransitions(lines) ==
  \A i \in 2..Len(lines) :
    LET before == 2..(i - 1) IN
    /\ lines[i].kind = "P" =>
         \A j \in before : lines[j].kind = "P" => lines[j].order.ref # lines[i].order.ref
    /\ lines[i].kind = "A" =>
         /\ \E j \in before : lines[j].kind = "P" /\ lines[j].order = lines[i].order
         /\ \A j \in before : lines[j].kind = "A" => lines[j].order # lines[i].order

Replayable(lines) ==
  /\ lines # <<>>
  /\ lines[1].kind = "H"
  /\ Chained(lines)
  /\ LegalTransitions(lines)
  /\ Cardinality(Reserved(lines)) <= MaxEntries
=============================================================================
