--------------------------- MODULE MCUnifiedRuntime ----------------------------
(***************************************************************************)
(* Small instances of UnifiedRuntime: an engine with a clock, an engine     *)
(* with a stream, and hosts that attach, enforce and escalate differently.  *)
(***************************************************************************)
EXTENDS UnifiedRuntime

Plain == [metrics |-> TRUE, meta |-> FALSE, stress |-> TRUE, clock |-> FALSE,
          stream |-> FALSE, strict |-> TRUE, escalate |-> TRUE]

WithClock == [Plain EXCEPT !.clock = TRUE]
WithStream == [Plain EXCEPT !.stream = TRUE]

MCSetups ==
    {[WithClock EXCEPT !.meta = m] : m \in BOOLEAN}
    \cup {[WithStream EXCEPT !.stress = s, !.escalate = ~s, !.meta = TRUE, !.strict = s] :
             s \in BOOLEAN}
    \cup {[WithStream EXCEPT !.escalate = FALSE, !.stress = FALSE],
          [Plain EXCEPT !.metrics = FALSE]}

\* The engine of tests/trust_boundary_hardening.cpp with a meta-governance state.
GovernedSetups == {[WithClock EXCEPT !.meta = TRUE, !.stress = FALSE]}

MCNows == {2}
MCConfidences == {10000, 7000, 4500}
================================================================================
