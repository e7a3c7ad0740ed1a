--------------------------- MODULE MCAlpacaSubmit ---------------------------
(***************************************************************************)
(* TLC instances of AlpacaSubmit, and of IntentReplay, the loop that it     *)
(* takes as one step.  first and second share a symbol, second and third a  *)
(* client reference; first, third and fourth are compatible and fill the    *)
(* journal; oversized exceeds the position limit on its own.  The journals  *)
(* that are read are all those of at most MaxBody lines after the header    *)
(* over the first four orders, whole or with one line torn off, damaged or  *)
(* moved.                                                                   *)
(***************************************************************************)
EXTENDS AlpacaSubmit, IntentReplay

CONSTANTS MaxBody, Worlds

VARIABLE world   \* is it the submission or the reading that runs?

MCRefs == {"r1", "r2", "r3", "r4"}
MCSymbols == {"SPY", "QQQ", "DIA"}

first == [ref |-> "r1", symbol |-> "SPY", notional |-> 2]
second == [ref |-> "r2", symbol |-> "SPY", notional |-> 1]
third == [ref |-> "r2", symbol |-> "QQQ", notional |-> 1]
fourth == [ref |-> "r3", symbol |-> "DIA", notional |-> 2]
oversized == [ref |-> "r4", symbol |-> "DIA", notional |-> 3]

MCOrders == {first, second, third, fourth, oversized}

Bodies ==
  UNION {[1..n -> [kind : {"P", "A"}, order : MCOrders \ {oversized}]] : n \in 0..MaxBody}

\* The journal a writer of these records would have written.
Written(body) ==
  <<HeaderLine>>
    \o [i \in 1..Len(body) |-> [kind |-> body[i].kind, order |-> body[i].order, prev |-> i]]

\* A damaged line: torn, overwritten by a header, or no longer where it was
\* written.
Damages(line) ==
  {TornLine, HeaderLine}
    \union (IF line.kind = "H" THEN {} ELSE {[line EXCEPT !.prev = @ + 1]})

Damaged(journal) ==
  UNION {{[journal EXCEPT ![i] = l] : l \in Damages(journal[i])} : i \in DOMAIN journal}

MCJournals == UNION {{Written(b)} \union Damaged(Written(b)) : b \in Bodies}

JournalInit ==
  /\ world \in Worlds
  /\ Init /\ ReplayInit
  /\ world = "submit" => lines = <<HeaderLine>>

\* A constructor that has returned or thrown rests.
JournalRead == status \in {"open", "rejected"} /\ UNCHANGED replayVars

JournalNext ==
  /\ UNCHANGED world
  /\ \/ world = "submit" /\ Next /\ UNCHANGED replayVars
     \/ world = "read" /\ (ReplayNext \/ JournalRead) /\ UNCHANGED vars

JournalSpec == JournalInit /\ [][JournalNext]_<<world, vars, replayVars>> /\ Fairness
=============================================================================
