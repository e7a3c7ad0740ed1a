--------------------------- MODULE BoundedHistory ---------------------------
(***************************************************************************)
(* What the decision engine promises of its fallback history: it is the    *)
(* last samples of accepted decisions, as many as the window admits, in    *)
(* the order in which they were accepted.  Nothing else is remembered, and *)
(* a new window keeps the newest samples.                                  *)
(***************************************************************************)
EXTENDS Integers, Sequences

CONSTANT Samples  \* the position and confidence of an accepted decision

VARIABLES
  window,   \* how many samples may be remembered
  history   \* the samples, oldest first

\* The newest n elements of s, or all of them.
Newest(s, n) == SubSeq(s, IF Len(s) > n THEN Len(s) - n + 1 ELSE 1, Len(s))

Init ==
  /\ window \in Nat \ {0}
  /\ history = <<>>

Accept ==
  /\ history' # <<>>
  /\ LET newest == history'[Len(history')]
     IN  newest \in Samples /\ history' = Newest(Append(history, newest), window)
  /\ UNCHANGED window

Resize ==
  /\ window' \in Nat \ {0}
  /\ history' = Newest(history, window')

Forget == history' = <<>> /\ UNCHANGED window

Next == Accept \/ Resize \/ Forget

Spec == Init /\ [][Next]_<<window, history>>
=============================================================================
