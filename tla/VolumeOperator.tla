---------------------------- MODULE VolumeOperator ----------------------------
(***************************************************************************)
(* The simulated executor of the Python kernel (VolumeExecutionOperator in  *)
(* core/finance_kernel/volume_execution.py): a tick under its lock, the     *)
(* audit line that every decision of a tick appends and syncs, and the way  *)
(* back when the line cannot be written.                                    *)
(***************************************************************************)
EXTENDS Naturals, Sequences, SequencesExt

CONSTANTS TickEquities,    \* what current_equity may be
          TickLimit,       \* max_daily_drawdown_pct, in percent
          TickHysteresis,  \* hysteresis_bars
          MaxTrades        \* bound: trade lines in the audit log

ASSUME TickAssumption ==
    /\ TickEquities \subseteq Nat \ {0} /\ TickEquities # {}
    /\ TickLimit \in 1 .. 100 /\ TickHysteresis \in Nat \ {0}

VARIABLES
    enabled,    \* enable_auto_execute
    account,    \* current_equity
    executor,   \* the state that process_tick stages
    auditLog    \* the lines of orders and flattenings; `known` is history:
                \* log_audit has returned

tickVars == <<enabled, account, executor, auditLog>>

TickInit ==
    /\ enabled \in BOOLEAN /\ account \in TickEquities
    /\ executor = [side |-> "FLAT", pending |-> "FLAT", bars |-> 0, locked |-> FALSE,
                   peak |-> account, counter |-> 1]
    /\ auditLog = <<>>

-----------------------------------------------------------------------------
\* The safety state and the drawdown, judged against the highest account so far.
Guarded(x, halt) ==
    LET peak == IF account > x.peak THEN account ELSE x.peak
    IN  [x EXCEPT !.peak = peak,
                  !.locked = @ \/ halt \/ (peak - account) * 100 >= TickLimit * peak]

\* A contrarian signal outranks the risk that growth yields to.
Wanted(x, advisory) ==
    IF ~x.locked /\ (advisory.contrarian \/ (advisory.growth /\ ~advisory.elevated)) THEN "BUY" ELSE "FLAT"

Counting(x, side) ==
    [x EXCEPT !.bars = IF side = x.pending THEN @ + 1 ELSE 1, !.pending = side]

\* The state at the end of a tick that nothing stops, and the trade it logs.
Ticked(advisory, halt, quantity) ==
    LET guarded == Guarded(executor, halt)
        side == Wanted(guarded, advisory)
        x == Counting(guarded, side)
    IN  IF x.bars < TickHysteresis \/ ~enabled \/ side = x.side \/ (side = "BUY" /\ quantity = "zero")
          THEN [state |-> x, trade |-> <<>>]
        ELSE IF side = "FLAT"
          THEN [state |-> [x EXCEPT !.side = "FLAT"], trade |-> <<[action |-> "FLAT", id |-> 0]>>]
        ELSE [state |-> [x EXCEPT !.side = "BUY", !.counter = @ + 1],
              trade |-> <<[action |-> "BUY", id |-> x.counter]>>]

\* A position already flat, outside of a dry run, is the one tick that logs nothing.
Silent(result) == enabled /\ result.state.bars >= TickHysteresis /\ result.trade = <<>>
                  /\ result.state.pending = "FLAT"

\* The line of a trade.
Line(trade, known) == [i \in DOMAIN trade |-> [action |-> trade[i].action, id |-> trade[i].id, known |-> known]]

\* Mutant: the way back forgets current_position_side.
RolledBackButSide(x, staged) == [x EXCEPT !.locked = TRUE, !.side = staged.side]

\* process_tick after an exception: what was staged goes back, and it locks.
RolledBack(x, staged) == [x EXCEPT !.locked = TRUE]

\* Bars beyond the hysteresis are not told apart.
ProcessTick(advisory, halt, quantity) ==
    LET result == Ticked(advisory, halt, quantity)
    IN  /\ Len(auditLog) < MaxTrades
        /\ executor' = [result.state EXCEPT !.bars = IF @ > TickHysteresis THEN TickHysteresis ELSE @]
        /\ auditLog' = auditLog \o Line(result.trade, TRUE)
        /\ UNCHANGED <<enabled, account>>

\* The line is not written, or written and not synced: log_audit raises. A line
\* that is torn records no trade.
ProcessTickFails(advisory, halt, quantity) ==
    LET result == Ticked(advisory, halt, quantity)
    IN  /\ ~Silent(result)
        /\ Len(auditLog) < MaxTrades
        /\ executor' = RolledBack(executor, result.state)
        /\ auditLog' \in {auditLog, auditLog \o Line(result.trade, FALSE)}
        /\ UNCHANGED <<enabled, account>>

\* More shares than an exact integer holds: the order raises before its line.
ProcessTickOverflows(advisory, halt) ==
    LET result == Ticked(advisory, halt, "some")
    IN  /\ result.trade # <<>> /\ result.state.side = "BUY"
        /\ executor' = RolledBack(executor, executor)
        /\ UNCHANGED <<enabled, account, auditLog>>

\* The host publishes the account between ticks.
SetEquity == /\ account' \in TickEquities
             /\ UNCHANGED <<enabled, executor, auditLog>>

TickAdvisories == [contrarian : BOOLEAN, growth : BOOLEAN, elevated : BOOLEAN]

TickNext ==
    \/ \E advisory \in TickAdvisories, halt \in BOOLEAN :
         \/ \E quantity \in {"zero", "some"} : ProcessTick(advisory, halt, quantity)
         \/ \E quantity \in {"zero", "some"} : ProcessTickFails(advisory, halt, quantity)
         \/ ProcessTickOverflows(advisory, halt)
    \/ SetEquity

TickSpec == TickInit /\ [][TickNext]_tickVars

-----------------------------------------------------------------------------
\* The simulated book can be told from the audit log, whichever ticks failed and
\* wherever: position and counter are what the known lines say; a line that is in
\* the file although its tick failed means that the executor is locked; and such an
\* order is the last one, so that its number is never given to another
\* (docs/releases/trust-layer-finance-hardening.md:65, volume_execution.py:187-193).
BookMatchesLog ==
    LET known == {i \in DOMAIN auditLog : auditLog[i].known}
        orders == {i \in DOMAIN auditLog : auditLog[i].action = "BUY"}
    IN  /\ \/ known = {} /\ executor.side = "FLAT"
           \/ \E i \in known : executor.side = auditLog[i].action /\ \A j \in known : j <= i
        /\ executor.counter = 1 + Cardinality(known \cap orders)
        /\ known # DOMAIN auditLog => executor.locked
        /\ \A i, j \in orders : auditLog[i].id = auditLog[j].id => i = j
=============================================================================
