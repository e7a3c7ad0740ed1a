----------------------------- MODULE VolumeTrader -----------------------------
(***************************************************************************)
(* The volume trading daemon (examples/volume_auto_trader.cpp) for one     *)
(* symbol, run again and again: start, one processTick per bar, death at   *)
(* any point.  Below it are its AlpacaExecution provider, reduced to what  *)
(* the journal says of the symbol, and the broker.  processTick is one     *)
(* step up to the durable reservation of an order; sending it and hearing  *)
(* of it are steps of their own, between which the daemon can die and the  *)
(* broker and the account move.                                            *)
(***************************************************************************)
EXTENDS Integers, Sequences

CONSTANTS
  Equities,    \* values of the account, in dollars
  MockEquity,  \* what getAccountEquity answers in mock mode
  Limit,       \* max_daily_drawdown_pct, in percent
  Hysteresis,  \* hysteresis_bars
  MaxSent      \* bound on the orders sent, so that a broken variant is finite

ASSUME TraderAssumption ==
  /\ Equities \subseteq Nat \ {0}
  /\ MockEquity \in Equities
  /\ Limit \in 1..100
  /\ Hysteresis \in Nat \ {0}
  /\ MaxSent \in Nat

VARIABLES
  \* The daemon and its provider.
  pc,             \* where the daemon is, see Places
  cfg,            \* mock_mode and enable_auto_execute of this session
  locked,         \* locked_out_
  brokerPending,  \* broker_pending_
  orderKnown,     \* is pending_order_id_ an id?
  side,           \* current_position_side_
  pendingSide,    \* pending_side_
  bars,           \* consecutive_bars_
  peak,           \* peak_equity_
  \* The journal, on stable storage: what it says of the symbol.
  journal,
  \* The account and the orders at the broker.
  equity, sent, wire, accepted, filled, cancelled, cancelling,
  \* History, for the properties only.
  window,   \* the last Hysteresis evaluated bars of this session
  best,     \* the highest equity this session has read
  atBar,    \* the equity when the last bar came, or the session was started
  alarmed   \* has this session been given a reason to stop?

daemonVars == <<pc, cfg, locked, brokerPending, orderKnown, side, pendingSide, bars, peak>>
orderVars == <<sent, wire, accepted, filled, cancelled, cancelling>>
brokerVars == <<equity, orderVars>>
historyVars == <<window, best, atBar, alarmed>>
vars == <<daemonVars, journal, brokerVars, historyVars>>

Places ==
  { "down",   \* no process
    "idle",   \* between two bars
    "post",   \* in submitOrder, order reserved
    "await" } \* in submitOrder, order sent

Sides == {"FLAT", "BUY"}

\* What the volume advisory says (extensions/aille_volume_advisory.hpp).  It is
\* valid when its numbers are finite; "buys" says that the allocation buys at
\* least one share at the bar's price.
Advisory ==
  { a \in [contrarian : BOOLEAN, growth : BOOLEAN, risk : BOOLEAN, valid : BOOLEAN, buys : BOOLEAN] :
      ~(a.growth /\ a.risk) }

TypeOK ==
  /\ pc \in Places
  /\ cfg \in [mock : BOOLEAN, auto : BOOLEAN]
  /\ {locked, brokerPending, orderKnown, cancelling, alarmed} \subseteq BOOLEAN
  /\ {side, pendingSide} \subseteq Sides
  /\ bars \in 0..Hysteresis
  /\ {peak, best, atBar} \subseteq Equities \union {0}
  /\ journal \in {"none", "reserved", "acked", "torn"}
  /\ equity \in Equities
  /\ sent \in 0..MaxSent /\ wire \in 0..sent /\ accepted \in 0..sent
  /\ filled \in 0..accepted /\ cancelled \in 0..accepted
  /\ window \in Seq([wants : Sides, alarmed : BOOLEAN])
  /\ Len(window) <= Hysteresis

Init ==
  /\ pc = "down"
  /\ cfg = [mock |-> TRUE, auto |-> FALSE]
  /\ locked = FALSE /\ brokerPending = FALSE /\ orderKnown = FALSE
  /\ side = "FLAT" /\ pendingSide = "FLAT" /\ bars = 0 /\ peak = 0
  /\ journal = "none"
  /\ equity \in Equities
  /\ sent = 0 /\ wire = 0 /\ accepted = 0 /\ filled = 0 /\ cancelled = 0
  /\ cancelling = FALSE
  /\ window = <<>> /\ best = 0 /\ atBar = 0 /\ alarmed = FALSE

-----------------------------------------------------------------------------
(* Helpers. *)

\* Is the fall from high to low a breach of the drawdown limit?
Breach(high, low) == (high - low) * 100 >= Limit * high

Higher(a, b) == IF a > b THEN a ELSE b

\* What getAccountEquity returns when it returns a usable value.
Reading == IF cfg.mock THEN MockEquity ELSE equity

\* Mutant: a lockout only keeps new signals from being acted on.
DesiredUnlocked(out, a) == IF a.contrarian \/ a.growth THEN "BUY" ELSE "FLAT"

\* The side a bar asks for.
Desired(out, a) == IF ~out /\ (a.contrarian \/ (a.growth /\ ~a.risk)) THEN "BUY" ELSE "FLAT"

\* Mutant: the count goes on when the signal changes.
CountAnyBar(want) == IF bars < Hysteresis THEN bars + 1 ELSE bars

\* The hysteresis filter.
CountBar(want) ==
  IF want # pendingSide THEN 1
  ELSE IF bars < Hysteresis THEN bars + 1 ELSE bars

\* Mutant: a new client reference is all that is asked for.
MayReserveFreshRef == TRUE

\* containsSymbol: the journal has no order of the symbol, open or not.
MayReserve == journal = "none"

\* History: the bar asked for a side.
Remember(want, out) ==
  LET bar == [wants |-> want, alarmed |-> out]
  IN window' = IF Len(window) = Hysteresis THEN Append(Tail(window), bar) ELSE Append(window, bar)

-----------------------------------------------------------------------------
(* Start and death. *)

\* Mutant: a reservation without acknowledgement is taken for a past order.
LockedAtStartIgnoringPending(c, known) == ~known

\* Does the session start locked?  A journal with a pending intent locks it, and
\* so does an account that cannot be read.
LockedAtStart(c, known) == ~known \/ (~c.mock /\ journal = "reserved")

\* The members of a daemon without a past.
Fresh ==
  /\ brokerPending' = FALSE /\ orderKnown' = FALSE
  /\ side' = "FLAT" /\ pendingSide' = "FLAT" /\ bars' = 0
  /\ window' = <<>>

\* main: the daemon is constructed; without an enabled provider, or in auto mode
\* without one that can submit, it gives up.  A torn journal disables the provider.
Start ==
  /\ pc = "down"
  /\ \E c \in [mock : BOOLEAN, auto : BOOLEAN], known \in BOOLEAN :
       /\ c.mock => known
       /\ ~c.mock => journal # "torn"
       /\ c.auto => ~LockedAtStart(c, known)
       /\ cfg' = c
       /\ locked' = LockedAtStart(c, known)
       /\ peak' = IF ~known THEN 0 ELSE IF c.mock THEN MockEquity ELSE equity
  /\ pc' = "idle"
  /\ best' = peak' /\ atBar' = peak' /\ alarmed' = locked'
  /\ Fresh
  /\ UNCHANGED <<journal, brokerVars>>

\* The process ends, at any point; only the journal stays.
Exit ==
  /\ pc # "down"
  /\ pc' = "down"
  /\ locked' = FALSE /\ peak' = 0 /\ best' = 0 /\ atBar' = 0 /\ alarmed' = FALSE
  /\ Fresh
  /\ UNCHANGED <<cfg, journal, brokerVars>>

-----------------------------------------------------------------------------
(* processTick, when no advisory is acted on. *)

LockOut == locked' = TRUE /\ alarmed' = TRUE

\* Market evidence that is not finite or out of range.
TickUnsound ==
  /\ pc = "idle"
  /\ LockOut
  /\ atBar' = Reading
  /\ UNCHANGED <<pc, cfg, brokerPending, orderKnown, side, pendingSide, bars, peak>>
  /\ UNCHANGED <<journal, brokerVars, window, best>>

\* An earlier order or close is not settled: nothing is evaluated; a safety fault
\* locks, and asks the broker to cancel the order if its id is known.
TickPending(fault) ==
  /\ pc = "idle" /\ brokerPending
  /\ locked' = (locked \/ fault)
  /\ alarmed' = (alarmed \/ fault)
  /\ cancelling' = (cancelling \/ (fault /\ orderKnown))
  /\ atBar' = Reading
  /\ UNCHANGED <<pc, cfg, brokerPending, orderKnown, side, pendingSide, bars, peak>>
  /\ UNCHANGED <<journal, equity, sent, wire, accepted, filled, cancelled, window, best>>

\* The account cannot be read, or is empty.
TickNoEquity ==
  /\ pc = "idle" /\ ~brokerPending /\ ~cfg.mock
  /\ LockOut
  /\ atBar' = Reading
  /\ UNCHANGED <<pc, cfg, brokerPending, orderKnown, side, pendingSide, bars, peak>>
  /\ UNCHANGED <<journal, brokerVars, window, best>>

\* The peak after this bar's reading.
NewPeak == Higher(peak, Reading)

\* Locked after the safety and drawdown checks of a bar?
OutAfterChecks(fault) == locked \/ fault \/ Breach(NewPeak, Reading)

\* A bar that gets as far as the drawdown check.
ReadEquity(alarm) ==
  /\ pc = "idle" /\ ~brokerPending
  /\ peak' = NewPeak
  /\ best' = Higher(best, Reading)
  /\ atBar' = Reading
  /\ alarmed' = (alarmed \/ alarm \/ Breach(best', Reading))

\* The advisory's numbers are not finite.
TickBadAdvice ==
  /\ ReadEquity(TRUE)
  /\ locked' = TRUE
  /\ UNCHANGED <<pc, cfg, brokerPending, orderKnown, side, pendingSide, bars>>
  /\ UNCHANGED <<journal, brokerVars, window>>

-----------------------------------------------------------------------------
(* processTick, from a usable advisory to an order. *)

\* The advisory asks for side want, and the hysteresis filter counts the bar.
Evaluate(fault, a, want) ==
  /\ want = Desired(OutAfterChecks(fault), a)
  /\ ReadEquity(fault)
  /\ pendingSide' = want
  /\ bars' = CountBar(want)
  /\ Remember(want, alarmed')

\* The bar confirms a side that is not the position's, and may act on it.
Confirmed(want) == CountBar(want) >= Hysteresis /\ want # side /\ cfg.auto

\* Debounce, hold, dry run, nothing to close, or not one share to buy.
TickQuiet(fault, a, want) ==
  /\ Evaluate(fault, a, want)
  /\ ~Confirmed(want) \/ (want = "BUY" /\ ~a.buys)
  /\ locked' = OutAfterChecks(fault)
  /\ UNCHANGED <<pc, cfg, brokerPending, orderKnown, side, journal, brokerVars>>

\* The position is closed; outside of mock mode that leaves a request pending.
TickFlatten(fault, a) ==
  /\ Evaluate(fault, a, "FLAT")
  /\ Confirmed("FLAT")
  /\ side' = IF cfg.mock THEN "FLAT" ELSE side
  /\ brokerPending' = (brokerPending \/ ~cfg.mock)
  /\ locked' = OutAfterChecks(fault)
  /\ UNCHANGED <<pc, cfg, orderKnown, journal, brokerVars>>

\* A buy is confirmed: submitOrder is called.
Buy(fault, a) ==
  /\ Evaluate(fault, a, "BUY")
  /\ Confirmed("BUY") /\ a.buys
  /\ UNCHANGED <<cfg, orderKnown, brokerVars>>

\* submitOrder's own checks: lockout, and in broker mode the journal.
Admits(fault) == ~OutAfterChecks(fault) /\ (cfg.mock \/ MayReserve)

\* submitOrder returns no id and has not touched the journal.
TickBuyRefused(fault, a) ==
  /\ Buy(fault, a)
  /\ ~Admits(fault)
  /\ locked' = OutAfterChecks(fault)
  /\ brokerPending' = (~cfg.mock /\ locked')
  /\ UNCHANGED <<pc, side, journal>>

\* Mock mode: submitOrder returns an id, and the order counts as filled.
TickBuyMock(fault, a) ==
  /\ Buy(fault, a)
  /\ cfg.mock /\ Admits(fault)
  /\ side' = "BUY"
  /\ UNCHANGED <<pc, locked, brokerPending, journal>>

\* The reservation is durable.
TickReserve(fault, a) ==
  /\ Buy(fault, a)
  /\ ~cfg.mock /\ Admits(fault)
  /\ journal' = "reserved"
  /\ pc' = "post"
  /\ UNCHANGED <<locked, brokerPending, side>>

\* The reservation cannot be written or synced; all, part or nothing of it stays.
TickReserveFails(fault, a) ==
  /\ Buy(fault, a)
  /\ ~cfg.mock /\ Admits(fault)
  /\ journal' \in {journal, "torn", "reserved"}
  /\ locked' = TRUE /\ brokerPending' = TRUE
  /\ UNCHANGED <<pc, side>>

-----------------------------------------------------------------------------
(* submitOrder, from the reservation on, and what processTick makes of it. *)

Post ==
  /\ pc = "post"
  /\ sent < MaxSent
  /\ pc' = "await"
  /\ sent' = sent + 1 /\ wire' = wire + 1
  /\ UNCHANGED <<cfg, locked, brokerPending, orderKnown, side, pendingSide, bars, peak>>
  /\ UNCHANGED <<journal, equity, accepted, filled, cancelled, cancelling, historyVars>>

\* submitOrder returns to processTick, which waits for reconciliation from now on.
Return ==
  /\ pc' = "idle"
  /\ brokerPending' = TRUE
  /\ UNCHANGED <<cfg, side, pendingSide, bars, peak, brokerVars, window, best, atBar>>

\* The broker's id arrives and its acknowledgement is durable.
Acknowledged ==
  /\ pc = "await" /\ accepted > 0
  /\ journal' = "acked"
  /\ orderKnown' = TRUE
  /\ Return
  /\ UNCHANGED <<locked, alarmed>>

\* The id arrives, but the acknowledgement cannot be written or synced.
AcknowledgeFails ==
  /\ pc = "await" /\ accepted > 0
  /\ journal' \in {journal, "torn", "acked"}
  /\ LockOut
  /\ Return
  /\ UNCHANGED orderKnown

\* The order cannot be sent, or no usable answer comes.
Unconfirmed ==
  /\ pc \in {"post", "await"}
  /\ LockOut
  /\ Return
  /\ UNCHANGED <<journal, orderKnown>>

-----------------------------------------------------------------------------
(* The broker and the market. *)

Receive ==
  /\ wire > 0
  /\ wire' = wire - 1
  /\ accepted' \in {accepted, accepted + 1}
  /\ UNCHANGED <<daemonVars, journal, equity, sent, filled, cancelled, cancelling, historyVars>>

Fill ==
  /\ filled + cancelled < accepted
  /\ filled' = filled + 1
  /\ UNCHANGED <<daemonVars, journal, equity, sent, wire, accepted, cancelled, cancelling, historyVars>>

Cancel ==
  /\ cancelling /\ filled + cancelled < accepted
  /\ cancelled' = cancelled + 1
  /\ UNCHANGED <<daemonVars, journal, equity, sent, wire, accepted, filled, cancelling, historyVars>>

Market ==
  /\ equity' \in Equities \ {equity}
  /\ UNCHANGED <<daemonVars, journal, orderVars, historyVars>>

-----------------------------------------------------------------------------
Bar(fault, a) ==
  \/ \E want \in Sides : TickQuiet(fault, a, want)
  \/ TickFlatten(fault, a)
  \/ TickBuyMock(fault, a)
  \/ TickBuyRefused(fault, a)
  \/ TickReserve(fault, a)
  \/ TickReserveFails(fault, a)

Tick ==
  \/ TickUnsound
  \/ \E fault \in BOOLEAN : TickPending(fault)
  \/ TickNoEquity
  \/ TickBadAdvice
  \/ \E fault \in BOOLEAN, a \in Advisory : Bar(fault, a)

Submit == Post \/ Acknowledged \/ AcknowledgeFails \/ Unconfirmed

Next == Start \/ Exit \/ Tick \/ Submit \/ Receive \/ Fill \/ Cancel \/ Market

Spec == Init /\ [][Next]_vars

-----------------------------------------------------------------------------
(* Properties. *)

\* However often the daemon is restarted, and whatever it hears, one order at most
\* is sent for the symbol: the journal outlives broker_pending_ (submitOrder,
\* containsSymbol).
AtMostOneOrder == sent <= 1

\* A daemon at the broker does not trade while the outcome of an order is unknown:
\* as long as the journal has a reservation without acknowledgement, or a line cut
\* short, it is locked or waits for reconciliation, after a restart as well
\* (docs/releases/execution-integrity-hardening.md, "Truthful daemon state").
UnknownOutcomeStops ==
  pc = "idle" /\ ~cfg.mock /\ journal \in {"reserved", "torn"} => locked \/ brokerPending

\* An order is begun: reserved at the broker, or filled in the simulation.
Ordering == (pc' = "post" /\ pc = "idle") \/ (side' = "BUY" /\ side = "FLAT")

\* The last Hysteresis bars that were evaluated all asked to buy, and since it was
\* started the session has seen no fault, no unusable evidence, and no drawdown
\* from the highest equity it has read.
Justified ==
  /\ Len(window) = Hysteresis
  /\ \A i \in 1..Hysteresis : window[i].wants = "BUY"
  /\ ~alarmed

\* Orders are begun only when they are justified by the whole session, the bar at
\* hand included (processTick: checks, hysteresis and lockout together).
OrdersJustified == [][Ordering => Justified']_vars

\* A reason to stop closes a simulated position within Hysteresis evaluated bars,
\* whatever the bars ask for (README.md, "Multi-Layer Risk & Lockout Controls").
LockoutFlattens ==
  ( /\ cfg.mock /\ cfg.auto
    /\ Len(window) = Hysteresis
    /\ \A i \in 1..Hysteresis : window[i].alarmed )
  => side = "FLAT"

\* README.md: "breaches of --max-drawdown-pct automatically trigger position
\* flattening and lockout".  A daemon whose order was filled is locked if the
\* account was down from its peak by the limit when the last bar came.  It is not:
\* the order stays pending, and such a bar returns before it reads the account.
BreachLocksOut == pc = "idle" /\ filled > 0 /\ Breach(peak, atBar) => locked
=============================================================================
