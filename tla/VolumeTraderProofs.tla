-------------------------- MODULE VolumeTraderProofs --------------------------
(***************************************************************************)
(* Proofs about VolumeTrader, for any account values, drawdown limit and   *)
(* hysteresis: type correctness, the one order, the pause while an outcome *)
(* is unknown, the flattening after an alarm, the justification of orders, *)
(* and the contract of directional submission.                             *)
(*                                                                         *)
(* The properties about bars are stated on the window of the last bars,    *)
(* and the code only counts.  Streak ties the two together: the count is   *)
(* the length of the run of equal bars at the end of the window.           *)
(***************************************************************************)
EXTENDS VolumeTrader, TLAPS

BarRecord == [wants : Sides, alarmed : BOOLEAN]

\* What the broker has counted is consistent.
Counts == accepted + wire <= sent /\ filled + cancelled <= accepted

\* An order is sent once, and the journal knows of it before and ever after.
OneOrder ==
  /\ sent <= 1
  /\ sent > 0 => journal # "none"
  /\ pc = "post" => sent = 0
  /\ pc \in {"post", "await"} => journal = "reserved" /\ ~cfg.mock

\* bars is the length of the run of pendingSide at the end of the window.
Streak ==
  /\ bars <= Len(window)
  /\ window # <<>> => bars > 0
  /\ \A i \in 1..Len(window) : i > Len(window) - bars => window[i].wants = pendingSide
  /\ bars < Len(window) => window[Len(window) - bars].wants # pendingSide

\* The peak is the highest reading, an alarm locks, and a bar with an alarm was
\* taken for a bar that asks for nothing.
Alarms ==
  /\ best = peak
  /\ alarmed => locked
  /\ \A i \in 1..Len(window) : window[i].alarmed => window[i].wants = "FLAT"

\* A simulated position does not outlive a confirmed request to close it.
Closed ==
  cfg.mock /\ cfg.auto /\ bars = Hysteresis /\ pendingSide = "FLAT" => side = "FLAT"

IInv == TypeOK /\ Counts /\ OneOrder /\ Streak /\ Alarms /\ Closed /\ UnknownOutcomeStops

-----------------------------------------------------------------------------
(* The window and the count. *)

\* Remember keeps the last Hysteresis bars.
LEMMA WindowShape ==
  ASSUME TypeOK, NEW want \in Sides, NEW out \in BOOLEAN, Remember(want, out)
  PROVE  /\ window' \in Seq(BarRecord)
         /\ Len(window') \in 1..Hysteresis
         /\ window'[Len(window')] = [wants |-> want, alarmed |-> out]
         /\ Len(window) < Hysteresis =>
              /\ Len(window') = Len(window) + 1
              /\ \A i \in 1..Len(window) : window'[i] = window[i]
         /\ Len(window) = Hysteresis =>
              /\ Len(window') = Hysteresis
              /\ \A i \in 1..(Hysteresis - 1) : window'[i] = window[i + 1]
<1> DEFINE bar == [wants |-> want, alarmed |-> out]
<1>1. /\ window \in Seq(BarRecord) /\ Len(window) \in Nat /\ Len(window) <= Hysteresis
      /\ Hysteresis \in Nat \ {0} /\ bar \in BarRecord
  BY TraderAssumption DEF TypeOK, BarRecord
<1>2. CASE Len(window) = Hysteresis
  <2>1. window' = Append(Tail(window), bar)
    BY <1>2 DEF Remember
  <2>2. /\ Tail(window) \in Seq(BarRecord) /\ Len(Tail(window)) = Hysteresis - 1
        /\ \A i \in 1..(Hysteresis - 1) : Tail(window)[i] = window[i + 1]
    BY <1>1, <1>2
  <2> HIDE DEF bar
  <2>3. /\ window' \in Seq(BarRecord) /\ Len(window') = Hysteresis
        /\ window'[Hysteresis] = bar
        /\ \A i \in 1..(Hysteresis - 1) : window'[i] = window[i + 1]
    BY <1>1, <2>1, <2>2
  <2> QED
    BY <1>1, <1>2, <2>3 DEF bar
<1>3. CASE Len(window) # Hysteresis
  <2>1. window' = Append(window, bar)
    BY <1>3 DEF Remember
  <2> HIDE DEF bar
  <2>2. /\ window' \in Seq(BarRecord) /\ Len(window') = Len(window) + 1
        /\ window'[Len(window) + 1] = bar
        /\ \A i \in 1..Len(window) : window'[i] = window[i]
    BY <1>1, <2>1
  <2> QED
    BY <1>1, <1>3, <2>2 DEF bar
<1> QED
  BY <1>2, <1>3

\* The count of a bar is at least one and at most Hysteresis.
LEMMA CountBarType ==
  ASSUME TypeOK, NEW want \in Sides
  PROVE  CountBar(want) \in 1..Hysteresis
BY TraderAssumption DEF TypeOK, CountBar

\* The count follows the window.
LEMMA StreakKept ==
  ASSUME TypeOK, Streak, NEW want \in Sides, NEW out \in BOOLEAN, Remember(want, out),
         bars' = CountBar(want), pendingSide' = want
  PROVE  Streak'
<1>1. /\ window' \in Seq(BarRecord)
      /\ Len(window') \in 1..Hysteresis
      /\ window'[Len(window')].wants = want
      /\ Len(window) < Hysteresis =>
           /\ Len(window') = Len(window) + 1
           /\ \A i \in 1..Len(window) : window'[i] = window[i]
      /\ Len(window) = Hysteresis =>
           /\ Len(window') = Hysteresis
           /\ \A i \in 1..(Hysteresis - 1) : window'[i] = window[i + 1]
  <2>1. window'[Len(window')] = [wants |-> want, alarmed |-> out]
    BY WindowShape, Zenon
  <2>2. window'[Len(window')].wants = want
    BY <2>1
  <2> QED
    BY <2>2, WindowShape, Zenon
<1>2. /\ Hysteresis \in Nat \ {0} /\ bars \in Nat /\ bars <= Hysteresis
      /\ Len(window) \in Nat /\ Len(window) <= Hysteresis /\ Len(window') \in Nat
      /\ window \in Seq(BarRecord)
  BY <1>1, TraderAssumption DEF TypeOK, BarRecord
<1>3. window' # <<>>
  BY <1>1, <1>2
<1>4. CASE want # pendingSide
  <2>1. bars' = 1
    BY <1>4 DEF CountBar
  <2>2. ASSUME 1 < Len(window')
        PROVE  window'[Len(window') - 1].wants # want
    <3>1. Len(window) > 0 /\ window'[Len(window') - 1] = window[Len(window)]
      BY <1>1, <1>2, <2>2
    <3>2. window # <<>>
      BY <3>1, <1>2
    <3>3. window[Len(window)].wants = pendingSide
      BY <3>1, <3>2, <1>2 DEF Streak
    <3> QED
      BY <3>1, <3>3, <1>4
  <2>3. \A i \in 1..Len(window') : i > Len(window') - 1 => window'[i].wants = want
    BY <1>1, <1>2
  <2> QED
    BY <1>1, <1>2, <1>3, <2>1, <2>2, <2>3 DEF Streak
<1>5. CASE want = pendingSide /\ bars < Hysteresis
  <2>1. bars' = bars + 1 /\ pendingSide' = pendingSide
    BY <1>5 DEF CountBar
  <2>2. \A i \in 1..Len(window') : i > Len(window') - (bars + 1) => window'[i].wants = want
    <3> SUFFICES ASSUME NEW i \in 1..Len(window'), i > Len(window') - (bars + 1), i # Len(window')
                 PROVE  window'[i].wants = want
      BY <1>1
    <3>1. CASE Len(window) < Hysteresis
      BY <3>1, <1>1, <1>2, <1>5 DEF Streak
    <3>2. CASE Len(window) = Hysteresis
      <4>1. window'[i] = window[i + 1] /\ i + 1 \in 1..Len(window) /\ i + 1 > Len(window) - bars
        BY <3>2, <1>1, <1>2
      <4> QED
        BY <4>1, <1>5 DEF Streak
    <3> QED
      BY <3>1, <3>2, <1>2
  <2>3. bars + 1 <= Len(window')
    BY <1>1, <1>2, <1>5 DEF Streak
  <2>4. ASSUME bars + 1 < Len(window')
        PROVE  window'[Len(window') - (bars + 1)].wants # want
    <3>1. bars < Len(window) /\ window'[Len(window') - (bars + 1)] = window[Len(window) - bars]
      BY <2>4, <1>1, <1>2, <1>5
    <3> QED
      BY <3>1, <1>5 DEF Streak
  <2> QED
    BY <1>2, <1>3, <2>1, <2>2, <2>3, <2>4, <1>5 DEF Streak
<1>6. CASE want = pendingSide /\ bars = Hysteresis
  <2>1. bars' = bars /\ pendingSide' = pendingSide /\ Len(window) = Hysteresis
    BY <1>6, <1>2 DEF CountBar, Streak
  <2>2. \A i \in 1..Len(window') : window'[i].wants = want
    <3> SUFFICES ASSUME NEW i \in 1..Len(window'), i # Len(window')
                 PROVE  window'[i].wants = want
      BY <1>1
    <3>1. window'[i] = window[i + 1] /\ i + 1 \in 1..Len(window) /\ i + 1 > Len(window) - bars
      BY <2>1, <1>1, <1>2, <1>6
    <3> QED
      BY <3>1, <1>6 DEF Streak
  <2> QED
    BY <1>1, <1>2, <1>3, <2>1, <2>2, <1>6 DEF Streak
<1> QED
  BY <1>2, <1>4, <1>5, <1>6

-----------------------------------------------------------------------------
(* One bar. *)

\* A reading is a value of the account, and so is the peak after it.
LEMMA ReadingType ==
  ASSUME TypeOK
  PROVE  Reading \in Equities /\ NewPeak \in Equities
<1>1. equity \in Equities /\ MockEquity \in Equities
  BY TraderAssumption DEF TypeOK
<1>2. Reading \in Equities
  BY <1>1 DEF Reading
<1>3. peak \in Equities \/ peak = 0
  BY DEF TypeOK
<1>4. Reading \in Nat /\ Reading > 0
  BY <1>2, TraderAssumption
<1> QED
  BY <1>2, <1>3, <1>4 DEF NewPeak, Higher

\* What an evaluated bar leaves behind, whatever is done about it.
LEMMA EvaluatedBar ==
  ASSUME TypeOK, Streak, Alarms, NEW fault \in BOOLEAN, NEW a \in Advisory, NEW want \in Sides,
         Evaluate(fault, a, want)
  PROVE  /\ OutAfterChecks(fault) \in BOOLEAN
         /\ peak' \in Equities /\ best' = peak' /\ atBar' \in Equities
         /\ alarmed' \in BOOLEAN
         /\ alarmed' => OutAfterChecks(fault)
         /\ want = "BUY" => ~OutAfterChecks(fault)
         /\ pendingSide' = want /\ bars' = CountBar(want) /\ bars' \in 1..Hysteresis
         /\ window' \in Seq(BarRecord) /\ Len(window') \in 1..Hysteresis
         /\ Streak'
         /\ \A i \in 1..Len(window') : window'[i].alarmed => window'[i].wants = "FLAT"
<1>1. Reading \in Equities /\ NewPeak \in Equities
  BY ReadingType, Zenon
<1>2. OutAfterChecks(fault) \in BOOLEAN
  BY DEF OutAfterChecks, Breach, TypeOK
<1>3. /\ peak' = NewPeak /\ best' = NewPeak /\ atBar' = Reading
      /\ alarmed' = (alarmed \/ fault \/ Breach(NewPeak, Reading))
  BY DEF Evaluate, ReadEquity, Alarms, NewPeak
<1>4. alarmed' \in BOOLEAN
  BY <1>3
<1>5. alarmed' => OutAfterChecks(fault)
  BY <1>3 DEF OutAfterChecks, Alarms
<1>6. want = Desired(OutAfterChecks(fault), a)
  BY DEF Evaluate
<1>7. want = "BUY" => ~OutAfterChecks(fault)
  BY <1>6 DEF Desired
<1>8. pendingSide' = want /\ bars' = CountBar(want) /\ Remember(want, alarmed')
  BY DEF Evaluate
<1>9. bars' \in 1..Hysteresis
  BY <1>8, CountBarType
<1>10. /\ window' \in Seq(BarRecord)
       /\ Len(window') \in 1..Hysteresis
       /\ window'[Len(window')] = [wants |-> want, alarmed |-> alarmed']
       /\ Len(window) < Hysteresis =>
            /\ Len(window') = Len(window) + 1
            /\ \A i \in 1..Len(window) : window'[i] = window[i]
       /\ Len(window) = Hysteresis =>
            /\ Len(window') = Hysteresis
            /\ \A i \in 1..(Hysteresis - 1) : window'[i] = window[i + 1]
  BY <1>4, <1>8, WindowShape, Zenon
<1>11. Streak'
  BY <1>4, <1>8, StreakKept, Zenon
<1>12. \A i \in 1..Len(window') : window'[i].alarmed => window'[i].wants = "FLAT"
  <2> SUFFICES ASSUME NEW i \in 1..Len(window')
               PROVE  window'[i].alarmed => window'[i].wants = "FLAT"
    OBVIOUS
  <2>1. CASE i = Len(window')
    <3>1. window'[i].alarmed = alarmed' /\ window'[i].wants = want
      BY <2>1, <1>10
    <3> QED
      BY <3>1, <1>5, <1>7 DEF Sides
  <2>2. CASE i # Len(window')
    <3>1. Len(window) \in Nat /\ Len(window) <= Hysteresis /\ Hysteresis \in Nat
      BY TraderAssumption DEF TypeOK
    <3>2. \E j \in 1..Len(window) : window'[i] = window[j]
      BY <2>2, <3>1, <1>10
    <3> QED
      BY <3>2 DEF Alarms
  <2> QED
    BY <2>1, <2>2
<1> QED
  BY <1>1, <1>2, <1>3, <1>4, <1>5, <1>7, <1>8, <1>9, <1>10, <1>11, <1>12, Zenon

-----------------------------------------------------------------------------
(* The invariant. *)

\* Before the first tick.
LEMMA InvInit == Init => IInv
<1> SUFFICES ASSUME Init PROVE IInv
  OBVIOUS
<1>1. TypeOK
  <2>1. window \in Seq([wants : Sides, alarmed : BOOLEAN]) /\ Len(window) = 0
    BY DEF Init
  <2>2. cfg \in [mock : BOOLEAN, auto : BOOLEAN]
    BY DEF Init
  <2>3. pc \in Places /\ {side, pendingSide} \subseteq Sides
    BY DEF Init, Places, Sides
  <2>4. {locked, brokerPending, orderKnown, cancelling, alarmed} \subseteq BOOLEAN
    BY DEF Init
  <2>5. {peak, best, atBar} \subseteq Equities \union {0}
    BY DEF Init
  <2>6. /\ bars = 0 /\ journal = "none" /\ equity \in Equities
        /\ sent = 0 /\ wire = 0 /\ accepted = 0 /\ filled = 0 /\ cancelled = 0
    BY DEF Init
  <2> QED
    BY <2>1, <2>2, <2>3, <2>4, <2>5, <2>6, TraderAssumption DEF TypeOK
<1>2. Counts /\ OneOrder /\ Closed /\ UnknownOutcomeStops
  BY TraderAssumption DEF Init, Counts, OneOrder, Closed, UnknownOutcomeStops
<1>3. Streak /\ Alarms
  BY DEF Init, Streak, Alarms
<1> QED
  BY <1>1, <1>2, <1>3 DEF IInv

\* The steps that evaluate a bar.
LEMMA InvBar ==
  ASSUME IInv, NEW fault \in BOOLEAN, NEW a \in Advisory, Bar(fault, a)
  PROVE  IInv'
<1>1. PICK want \in Sides : Evaluate(fault, a, want)
  BY DEF Bar, TickQuiet, TickFlatten, TickBuyRefused, TickBuyMock, TickReserve, TickReserveFails, Buy, Sides
<1>2. /\ OutAfterChecks(fault) \in BOOLEAN
      /\ peak' \in Equities /\ best' = peak' /\ atBar' \in Equities
      /\ alarmed' \in BOOLEAN
      /\ alarmed' => OutAfterChecks(fault)
      /\ want = "BUY" => ~OutAfterChecks(fault)
      /\ pendingSide' = want /\ bars' = CountBar(want) /\ bars' \in 1..Hysteresis
      /\ window' \in Seq(BarRecord) /\ Len(window') \in 1..Hysteresis
      /\ Streak'
      /\ \A i \in 1..Len(window') : window'[i].alarmed => window'[i].wants = "FLAT"
  BY <1>1, EvaluatedBar, Zenon DEF IInv
<1>3. pc = "idle" /\ ~brokerPending
  BY <1>1 DEF Evaluate, ReadEquity
<1>4. UNCHANGED <<cfg, orderKnown, brokerVars>>
  BY DEF Bar, TickQuiet, TickFlatten, TickBuyRefused, TickBuyMock, TickReserve, TickReserveFails, Buy
<1>5. \/ /\ pc' = pc /\ journal' = journal
         /\ locked' = OutAfterChecks(fault)
         /\ brokerPending' \in BOOLEAN
      \/ /\ pc' = pc /\ journal' = journal
         /\ cfg.mock /\ ~OutAfterChecks(fault) /\ UNCHANGED <<locked, brokerPending>>
      \/ /\ pc' = "post" /\ journal = "none" /\ journal' = "reserved" /\ ~cfg.mock
         /\ ~OutAfterChecks(fault) /\ UNCHANGED <<locked, brokerPending>>
      \/ /\ pc' = pc /\ journal = "none" /\ journal' \in {"none", "torn", "reserved"}
         /\ locked' = TRUE /\ brokerPending' = TRUE
  <2> USE DEF brokerVars
  <2>1. CASE \E w \in Sides : TickQuiet(fault, a, w)
    BY <2>1, <1>3 DEF TickQuiet, IInv, TypeOK
  <2>2. CASE TickFlatten(fault, a)
    BY <2>2, <1>3 DEF TickFlatten, IInv, TypeOK
  <2>3. CASE TickBuyRefused(fault, a)
    BY <2>3, <1>3 DEF TickBuyRefused
  <2>4. CASE TickBuyMock(fault, a)
    BY <2>4 DEF TickBuyMock, Admits
  <2>5. CASE TickReserve(fault, a)
    BY <2>5 DEF TickReserve, Admits, MayReserve
  <2>6. CASE TickReserveFails(fault, a)
    BY <2>6, <1>4 DEF TickReserveFails, Admits, MayReserve, Buy, Evaluate
  <2> QED
    BY <2>1, <2>2, <2>3, <2>4, <2>5, <2>6 DEF Bar
<1>6. side' \in Sides
  BY DEF Bar, TickQuiet, TickFlatten, TickBuyRefused, TickBuyMock, TickReserve, TickReserveFails,
         IInv, TypeOK, Sides
<1>7. locked' \in BOOLEAN /\ brokerPending' \in BOOLEAN
  BY <1>2, <1>3, <1>5 DEF IInv, TypeOK
<1>8. ~OutAfterChecks(fault) => ~locked
  BY DEF OutAfterChecks
<1>9. TypeOK'
  <2>1. /\ pc' \in Places /\ journal' \in {"none", "reserved", "acked", "torn"}
    BY <1>5 DEF IInv, TypeOK, Places
  <2>2. /\ cfg' = cfg /\ orderKnown' = orderKnown /\ cancelling' = cancelling /\ equity' = equity
        /\ sent' = sent /\ wire' = wire /\ accepted' = accepted /\ filled' = filled
        /\ cancelled' = cancelled
    BY <1>4 DEF brokerVars, orderVars
  <2>3. /\ Len(window') <= Hysteresis /\ bars' \in 0..Hysteresis
        /\ window' \in Seq([wants : Sides, alarmed : BOOLEAN])
    BY <1>2, TraderAssumption DEF BarRecord
  <2>4. {peak', best', atBar'} \subseteq Equities \union {0}
    BY <1>2
  <2>5. {locked', brokerPending', orderKnown', cancelling', alarmed'} \subseteq BOOLEAN
    BY <1>2, <1>7, <2>2 DEF IInv, TypeOK
  <2>6. {side', pendingSide'} \subseteq Sides
    BY <1>2, <1>6
  <2> QED
    BY <2>1, <2>2, <2>3, <2>4, <2>5, <2>6 DEF IInv, TypeOK
<1>10. Counts'
  BY <1>4 DEF IInv, Counts, brokerVars, orderVars
<1>11. OneOrder'
  BY <1>3, <1>4, <1>5 DEF IInv, OneOrder, TypeOK, brokerVars, orderVars
<1>12. Alarms'
  <2>1. alarmed' => locked'
    BY <1>2, <1>5, <1>8 DEF IInv, Alarms
  <2> QED
    BY <1>2, <2>1 DEF Alarms
<1>13. Closed'
  <2> SUFFICES ASSUME cfg.mock, cfg.auto, bars' = Hysteresis, want = "FLAT"
               PROVE  side' = "FLAT"
    BY <1>2, <1>4 DEF Closed
  <2>1. ~Evaluate(fault, a, "BUY")
    BY <1>1 DEF Evaluate
  <2>2. Confirmed("FLAT") \/ side = "FLAT"
    BY <1>2, TraderAssumption DEF Confirmed, IInv, TypeOK
  <2>3. CASE TickFlatten(fault, a)
    BY <2>3 DEF TickFlatten
  <2>4. CASE \E w \in Sides : TickQuiet(fault, a, w)
    <3>1. PICK w \in Sides : TickQuiet(fault, a, w)
      BY <2>4
    <3>2. w = "FLAT" /\ side' = side
      BY <3>1, <1>1 DEF TickQuiet, Evaluate
    <3>3. ~Confirmed("FLAT")
      BY <3>1, <3>2 DEF TickQuiet
    <3> QED
      BY <2>2, <3>2, <3>3
  <2> QED
    BY <2>1, <2>3, <2>4 DEF Bar, TickBuyRefused, TickBuyMock, TickReserve, TickReserveFails, Buy
<1>14. UnknownOutcomeStops'
  BY <1>3, <1>4, <1>5, <1>8 DEF IInv, UnknownOutcomeStops, OutAfterChecks
<1> QED
  BY <1>2, <1>9, <1>10, <1>11, <1>12, <1>13, <1>14 DEF IInv

\* Streak, Alarms and Closed hold of a session without a past.
LEMMA InvFresh ==
  ASSUME Fresh, best' = peak', alarmed' => locked'
  PROVE  Streak' /\ Alarms' /\ Closed'
<1>1. window' = <<>> /\ bars' = 0 /\ side' = "FLAT"
  BY DEF Fresh
<1> QED
  BY <1>1, TraderAssumption DEF Streak, Alarms, Closed

\* A step that leaves window, count and position alone.
LEMMA InvQuiet ==
  ASSUME IInv, UNCHANGED <<cfg, side, pendingSide, bars, peak, window, best>>, alarmed' => locked'
  PROVE  Streak' /\ Alarms' /\ Closed'
BY DEF IInv, Streak, Alarms, Closed

\* A process that starts and loads its state.
LEMMA InvStart == ASSUME IInv, Start PROVE IInv'
<1>1. PICK c \in [mock : BOOLEAN, auto : BOOLEAN], known \in BOOLEAN :
        /\ ~c.mock => journal # "torn"
        /\ cfg' = c
        /\ locked' = LockedAtStart(c, known)
        /\ peak' = IF ~known THEN 0 ELSE IF c.mock THEN MockEquity ELSE equity
  BY DEF Start
<1>2. /\ pc = "down" /\ pc' = "idle"
      /\ best' = peak' /\ atBar' = peak' /\ alarmed' = locked'
      /\ Fresh
      /\ UNCHANGED <<journal, brokerVars>>
  BY DEF Start
<1>3. locked' \in BOOLEAN
  BY <1>1 DEF LockedAtStart
<1>4. peak' \in Equities \union {0}
  BY <1>1, TraderAssumption DEF IInv, TypeOK
<1>5. /\ brokerPending' = FALSE /\ orderKnown' = FALSE
      /\ side' = "FLAT" /\ pendingSide' = "FLAT" /\ bars' = 0
      /\ window' \in Seq([wants : Sides, alarmed : BOOLEAN]) /\ Len(window') = 0
  BY <1>2 DEF Fresh
<1>6. TypeOK'
  <2>1. /\ journal' = journal /\ equity' = equity /\ sent' = sent /\ wire' = wire
        /\ accepted' = accepted /\ filled' = filled /\ cancelled' = cancelled
        /\ cancelling' = cancelling
    BY <1>2 DEF brokerVars, orderVars
  <2>2. {locked', brokerPending', orderKnown', cancelling', alarmed'} \subseteq BOOLEAN
    BY <1>1, <1>2, <1>3, <1>4, <1>5, <2>1 DEF IInv, TypeOK
  <2>3. {side', pendingSide'} \subseteq Sides /\ bars' \in 0..Hysteresis /\ Len(window') <= Hysteresis
    BY <1>1, <1>2, <1>3, <1>4, <1>5, TraderAssumption DEF Sides
  <2>4. {peak', best', atBar'} \subseteq Equities \union {0}
    BY <1>1, <1>2, <1>3, <1>4, <1>5
  <2>5. pc' \in Places /\ cfg' \in [mock : BOOLEAN, auto : BOOLEAN]
    BY <1>1, <1>2, <1>3, <1>4, <1>5 DEF Places, IInv, TypeOK
  <2> QED
    BY <1>1, <1>2, <1>3, <1>4, <1>5, <2>1, <2>2, <2>3, <2>4, <2>5 DEF IInv, TypeOK
<1>7. Counts' /\ OneOrder'
  BY <1>2 DEF IInv, Counts, OneOrder, brokerVars, orderVars
<1>8. Streak' /\ Alarms' /\ Closed'
  BY <1>2, InvFresh
<1>9. UnknownOutcomeStops'
  BY <1>1, <1>2 DEF UnknownOutcomeStops, LockedAtStart
<1> QED
  BY <1>6, <1>7, <1>8, <1>9 DEF IInv

\* A process that ends.
LEMMA InvExit == ASSUME IInv, Exit PROVE IInv'
<1>1. /\ pc' = "down" /\ locked' = FALSE /\ peak' = 0 /\ best' = 0 /\ atBar' = 0
      /\ alarmed' = FALSE
      /\ Fresh
      /\ UNCHANGED <<cfg, journal, brokerVars>>
  BY DEF Exit
<1>2. /\ brokerPending' = FALSE /\ orderKnown' = FALSE
      /\ side' = "FLAT" /\ pendingSide' = "FLAT" /\ bars' = 0
      /\ window' \in Seq([wants : Sides, alarmed : BOOLEAN]) /\ Len(window') = 0
  BY <1>1 DEF Fresh
<1>3. TypeOK'
  <2>1. /\ journal' = journal /\ equity' = equity /\ sent' = sent /\ wire' = wire
        /\ accepted' = accepted /\ filled' = filled /\ cancelled' = cancelled
        /\ cancelling' = cancelling
    BY <1>1 DEF brokerVars, orderVars
  <2>2. {locked', brokerPending', orderKnown', cancelling', alarmed'} \subseteq BOOLEAN
    BY <1>1, <1>2, <2>1 DEF IInv, TypeOK
  <2>3. {side', pendingSide'} \subseteq Sides /\ bars' \in 0..Hysteresis /\ Len(window') <= Hysteresis
    BY <1>1, <1>2, TraderAssumption DEF Sides
  <2>4. {peak', best', atBar'} \subseteq Equities \union {0}
    BY <1>1, <1>2
  <2>5. pc' \in Places /\ cfg' \in [mock : BOOLEAN, auto : BOOLEAN]
    BY <1>1, <1>2 DEF Places, IInv, TypeOK
  <2> QED
    BY <1>1, <1>2, <2>1, <2>2, <2>3, <2>4, <2>5 DEF IInv, TypeOK
<1>4. Counts' /\ OneOrder' /\ UnknownOutcomeStops'
  BY <1>1 DEF IInv, Counts, OneOrder, UnknownOutcomeStops, brokerVars, orderVars
<1>5. Streak' /\ Alarms' /\ Closed'
  BY <1>1, InvFresh
<1> QED
  BY <1>3, <1>4, <1>5 DEF IInv

\* The bars that are not evaluated.
LEMMA InvTick ==
  ASSUME IInv, TickUnsound \/ (\E fault \in BOOLEAN : TickPending(fault)) \/ TickNoEquity
  PROVE  IInv'
<1>1. /\ UNCHANGED <<pc, cfg, brokerPending, orderKnown, side, pendingSide, bars, peak>>
      /\ UNCHANGED <<journal, equity, sent, wire, accepted, filled, cancelled, window, best>>
      /\ atBar' = Reading
  BY DEF TickUnsound, TickPending, TickNoEquity, brokerVars, orderVars
<1>2. locked' \in BOOLEAN /\ alarmed' \in BOOLEAN /\ cancelling' \in BOOLEAN
  BY DEF IInv, TypeOK, TickUnsound, TickPending, TickNoEquity, LockOut, brokerVars, orderVars
<1>3. (alarmed' => locked') /\ (locked => locked')
  BY DEF IInv, Alarms, TickUnsound, TickPending, TickNoEquity, LockOut
<1>4. atBar' \in Equities
  BY <1>1, TraderAssumption DEF IInv, TypeOK, Reading
<1>5. TypeOK'
  BY <1>1, <1>2, <1>4 DEF IInv, TypeOK
<1>6. Counts' /\ OneOrder' /\ UnknownOutcomeStops'
  BY <1>1, <1>3 DEF IInv, Counts, OneOrder, UnknownOutcomeStops
<1>7. Streak' /\ Alarms' /\ Closed'
  BY <1>1, <1>3, InvQuiet
<1> QED
  BY <1>5, <1>6, <1>7 DEF IInv

\* A tick whose advisory cannot be used.
LEMMA InvBadAdvice == ASSUME IInv, TickBadAdvice PROVE IInv'
<1>1. /\ UNCHANGED <<pc, cfg, brokerPending, orderKnown, side, pendingSide, bars>>
      /\ UNCHANGED <<journal, brokerVars, window>>
      /\ locked' = TRUE /\ atBar' = Reading
      /\ peak' = NewPeak /\ best' = Higher(best, Reading) /\ alarmed' \in BOOLEAN
  BY DEF TickBadAdvice, ReadEquity
<1>2. Reading \in Equities /\ NewPeak \in Equities
  BY ReadingType, Zenon DEF IInv
<1>3. best' = peak'
  BY <1>1 DEF IInv, Alarms, NewPeak
<1>4. TypeOK'
  BY <1>1, <1>2, <1>3 DEF IInv, TypeOK, brokerVars, orderVars
<1>5. Counts' /\ OneOrder' /\ UnknownOutcomeStops'
  BY <1>1 DEF IInv, Counts, OneOrder, UnknownOutcomeStops, brokerVars, orderVars
<1>6. Streak' /\ Alarms' /\ Closed'
  BY <1>1, <1>3 DEF IInv, Streak, Alarms, Closed
<1> QED
  BY <1>4, <1>5, <1>6 DEF IInv

\* The order is posted.
LEMMA InvPost == ASSUME IInv, Post PROVE IInv'
<1>1. /\ pc = "post" /\ pc' = "await" /\ sent < MaxSent /\ sent' = sent + 1 /\ wire' = wire + 1
      /\ UNCHANGED <<cfg, locked, brokerPending, orderKnown, side, pendingSide, bars, peak>>
      /\ UNCHANGED <<journal, equity, accepted, filled, cancelled, cancelling>>
      /\ UNCHANGED <<window, best, atBar, alarmed>>
  BY DEF Post, historyVars
<1>2. sent = 0 /\ journal = "reserved"
  BY <1>1 DEF IInv, OneOrder
<1>3. TypeOK'
  BY <1>1, TraderAssumption DEF IInv, TypeOK, Places
<1>4. Counts' /\ OneOrder' /\ UnknownOutcomeStops'
  BY <1>1, <1>2 DEF IInv, TypeOK, Counts, OneOrder, UnknownOutcomeStops
<1>5. Streak' /\ Alarms' /\ Closed'
  BY <1>1 DEF IInv, Streak, Alarms, Closed
<1> QED
  BY <1>3, <1>4, <1>5 DEF IInv

\* submitOrder returns: whatever the outcome, the daemon is paused.
LEMMA InvReturn ==
  ASSUME IInv, Acknowledged \/ AcknowledgeFails \/ Unconfirmed
  PROVE  IInv'
<1>1. /\ pc \in {"post", "await"} /\ pc' = "idle" /\ brokerPending' = TRUE
      /\ UNCHANGED <<cfg, side, pendingSide, bars, peak, brokerVars, window, best>>
  BY DEF Acknowledged, AcknowledgeFails, Unconfirmed, Return
<1>2. /\ orderKnown' \in BOOLEAN /\ locked' \in BOOLEAN /\ alarmed' \in BOOLEAN
      /\ (alarmed' => locked')
  <2>1. CASE Acknowledged
    BY <2>1 DEF Acknowledged, IInv, TypeOK, Alarms
  <2>2. CASE AcknowledgeFails
    BY <2>2 DEF AcknowledgeFails, LockOut, IInv, TypeOK
  <2>3. CASE Unconfirmed
    BY <2>3 DEF Unconfirmed, LockOut, IInv, TypeOK
  <2> QED
    BY <2>1, <2>2, <2>3
<1>3. journal = "reserved" /\ journal' \in {"reserved", "acked", "torn"}
  BY <1>1 DEF Acknowledged, AcknowledgeFails, Unconfirmed, IInv, OneOrder
<1>4. atBar' = atBar
  BY DEF Acknowledged, AcknowledgeFails, Unconfirmed, Return
<1>5. TypeOK'
  BY <1>1, <1>2, <1>3, <1>4 DEF IInv, TypeOK, Places, brokerVars, orderVars
<1>6. Counts' /\ OneOrder' /\ UnknownOutcomeStops'
  BY <1>1, <1>3 DEF IInv, Counts, OneOrder, UnknownOutcomeStops, brokerVars, orderVars
<1>7. Streak' /\ Alarms' /\ Closed'
  BY <1>1, <1>2, InvQuiet
<1> QED
  BY <1>5, <1>6, <1>7 DEF IInv

\* The broker and the market do not touch the daemon or the journal.
LEMMA InvWorld ==
  ASSUME IInv, Receive \/ Fill \/ Cancel \/ Market
  PROVE  IInv'
<1>1. UNCHANGED <<daemonVars, journal, sent, cancelling, historyVars>>
  BY DEF Receive, Fill, Cancel, Market, orderVars
<1>2. equity' \in Equities
  BY DEF Receive, Fill, Cancel, Market, IInv, TypeOK
<1>3. Counts' /\ wire' \in 0..sent /\ accepted' \in 0..sent /\ filled' \in 0..accepted' /\ cancelled' \in 0..accepted'
  <2>1. CASE Receive
    <3>1. /\ sent \in Nat /\ wire \in Nat /\ accepted \in Nat /\ filled \in Nat /\ cancelled \in Nat
          /\ accepted + wire <= sent /\ filled + cancelled <= accepted
      BY TraderAssumption DEF IInv, TypeOK, Counts
    <3>2. /\ wire > 0 /\ wire' = wire - 1
          /\ accepted' = accepted \/ accepted' = accepted + 1
          /\ sent' = sent /\ filled' = filled /\ cancelled' = cancelled
      BY <2>1 DEF Receive
    <3> QED
      BY <3>1, <3>2 DEF Counts
  <2>2. CASE Fill
    BY <2>2, TraderAssumption DEF Fill, IInv, TypeOK, Counts
  <2>3. CASE Cancel
    BY <2>3, TraderAssumption DEF Cancel, IInv, TypeOK, Counts
  <2>4. CASE Market
    BY <2>4, TraderAssumption DEF Market, orderVars, IInv, TypeOK, Counts
  <2> QED
    BY <2>1, <2>2, <2>3, <2>4
<1>4. TypeOK'
  BY <1>1, <1>2, <1>3 DEF IInv, TypeOK, daemonVars, historyVars
<1>5. OneOrder' /\ UnknownOutcomeStops'
  BY <1>1 DEF IInv, OneOrder, UnknownOutcomeStops, daemonVars
<1>6. Streak' /\ Alarms' /\ Closed'
  BY <1>1 DEF IInv, Streak, Alarms, Closed, daemonVars, historyVars
<1> QED
  BY <1>3, <1>4, <1>5, <1>6 DEF IInv

\* Every step.
LEMMA InvNext == IInv /\ [Next]_vars => IInv'
<1> SUFFICES ASSUME IInv, [Next]_vars PROVE IInv'
  OBVIOUS
<1>1. CASE Start
  BY <1>1, InvStart
<1>2. CASE Exit
  BY <1>2, InvExit
<1>3. CASE Tick
  <2>1. CASE \E fault \in BOOLEAN, a \in Advisory : Bar(fault, a)
    BY <2>1, InvBar
  <2>2. CASE TickBadAdvice
    BY <2>2, InvBadAdvice
  <2> QED
    BY <1>3, <2>1, <2>2, InvTick DEF Tick
<1>4. CASE Submit
  BY <1>4, InvPost, InvReturn DEF Submit
<1>5. CASE Receive \/ Fill \/ Cancel \/ Market
  BY <1>5, InvWorld
<1>6. CASE UNCHANGED vars
  BY <1>6 DEF vars, daemonVars, brokerVars, orderVars, historyVars, IInv, TypeOK, Counts, OneOrder,
              Streak, Alarms, Closed, UnknownOutcomeStops
<1> QED
  BY <1>1, <1>2, <1>3, <1>4, <1>5, <1>6 DEF Next

\* So it holds throughout.
LEMMA Invariance == Spec => []IInv
<1> QED
  BY InvInit, InvNext, PTL DEF Spec

-----------------------------------------------------------------------------
(* The theorems. *)

\* The variables keep their types: the count of processTick never passes the
\* hysteresis, and the broker never counts more than was sent.
THEOREM TypeCorrect == Spec => []TypeOK
<1>1. IInv => TypeOK
  BY DEF IInv
<1> QED
  BY Invariance, <1>1, PTL

\* Over any number of restarts of the daemon one order at most is sent.
THEOREM OneOrderEver == Spec => []AtMostOneOrder
<1>1. IInv => AtMostOneOrder
  BY DEF IInv, OneOrder, AtMostOneOrder
<1> QED
  BY Invariance, <1>1, PTL

\* A daemon at the broker is locked or waits while an outcome is unknown.
THEOREM PausedInDoubt == Spec => []UnknownOutcomeStops
<1>1. IInv => UnknownOutcomeStops
  BY DEF IInv
<1> QED
  BY Invariance, <1>1, PTL

\* A window of alarms is a confirmed request to close, so the position is closed.
THEOREM AlarmFlattens == Spec => []LockoutFlattens
<1>1. ASSUME IInv PROVE LockoutFlattens
  <2> SUFFICES ASSUME cfg.mock, cfg.auto, Len(window) = Hysteresis,
                      \A i \in 1..Hysteresis : window[i].alarmed
               PROVE  side = "FLAT"
    BY DEF LockoutFlattens
  <2>1. Hysteresis \in Nat \ {0} /\ bars \in 0..Hysteresis
    BY <1>1, TraderAssumption DEF IInv, TypeOK
  <2>2. \A i \in 1..Hysteresis : window[i].wants = "FLAT"
    BY <1>1 DEF IInv, Alarms
  <2>3. bars > 0
    BY <1>1, <2>1 DEF IInv, Streak
  <2>4. pendingSide = "FLAT"
    BY <1>1, <2>1, <2>2, <2>3 DEF IInv, Streak
  <2>5. bars = Hysteresis
    <3> SUFFICES ASSUME bars < Hysteresis PROVE FALSE
      BY <2>1
    <3>1. window[Hysteresis - bars].wants # pendingSide
      BY <1>1 DEF IInv, Streak
    <3>2. Hysteresis - bars \in 1..Hysteresis
      BY <2>1
    <3> QED
      BY <2>2, <2>4, <3>1, <3>2
  <2> QED
    BY <1>1, <2>4, <2>5 DEF IInv, Closed
<1> QED
  BY Invariance, <1>1, PTL

\* Orders are begun after Hysteresis bars that all asked to buy, in a session that
\* has seen no reason to stop.
THEOREM EveryOrderJustified == Spec => OrdersJustified
<1>1. ASSUME IInv, [Next]_vars PROVE [Ordering => Justified']_vars
  <2> SUFFICES ASSUME Next, Ordering PROVE Justified'
    BY <1>1 DEF vars, daemonVars, Ordering
  <2>1. PICK fault \in BOOLEAN, a \in Advisory :
          TickBuyMock(fault, a) \/ TickReserve(fault, a)
    BY DEF Next, Ordering, Start, Exit, Fresh, Tick, TickUnsound, TickPending, TickNoEquity,
           TickBadAdvice, Bar, TickQuiet, TickFlatten, TickBuyRefused, TickReserveFails, Submit,
           Post, Acknowledged, AcknowledgeFails, Unconfirmed, Return, Receive, Fill, Cancel, Market,
           daemonVars
  <2>2. Buy(fault, a) /\ Admits(fault)
    BY <2>1 DEF TickBuyMock, TickReserve
  <2>3. Evaluate(fault, a, "BUY") /\ CountBar("BUY") >= Hysteresis /\ ~OutAfterChecks(fault)
    BY <2>2 DEF Buy, Confirmed, Admits
  <2>4. /\ alarmed' => OutAfterChecks(fault)
        /\ pendingSide' = "BUY" /\ bars' = CountBar("BUY") /\ bars' \in 1..Hysteresis
        /\ Len(window') \in 1..Hysteresis
        /\ Streak'
    <3>1. "BUY" \in Sides
      BY DEF Sides
    <3> QED
      BY <1>1, <2>3, <3>1, EvaluatedBar, Zenon DEF IInv
  <2>5. bars' = Hysteresis /\ Len(window') = Hysteresis
    BY <2>3, <2>4, TraderAssumption DEF Streak
  <2>6. \A i \in 1..Hysteresis : window'[i].wants = "BUY"
    BY <2>4, <2>5, TraderAssumption DEF Streak
  <2> QED
    BY <2>3, <2>4, <2>5, <2>6 DEF Justified
<1> QED
  BY Invariance, InvNext, <1>1, PTL DEF Spec, OrdersJustified
-----------------------------------------------------------------------------
(* The contract of directional submission. *)

\* What the daemon's sessions together show of OrderContract: the one order that
\* the journal admits for the symbol.  Its id counts as returned as soon as a
\* journal says so, whether or not the session that was given it lives.
TheOrder == "order"
Acceptances == [o \in {TheOrder} |-> accepted]
Returned == IF journal = "acked" THEN {TheOrder} ELSE {}

Contract == INSTANCE OrderContract WITH
  Orders <- {TheOrder}, Clash <- LAMBDA a, b : TRUE, Affordable <- LAMBDA o : TRUE,
  posts <- [o \in {TheOrder} |-> sent], accepted <- Acceptances, returned <- Returned

\* Steps that neither send nor hear of the order are no steps of the contract.
LEMMA ContractStutters ==
  ASSUME UNCHANGED <<sent, accepted>>, journal' = "acked" <=> journal = "acked"
  PROVE  UNCHANGED Contract!vars
BY DEF Contract!vars, Acceptances, Returned

\* A submission begins at an empty journal, and so do the failures of one.
LEMMA ContractBar ==
  ASSUME NEW fault \in BOOLEAN, NEW a \in Advisory, Bar(fault, a)
  PROVE  UNCHANGED Contract!vars
<1>1. UNCHANGED <<sent, accepted>>
  BY DEF Bar, TickQuiet, TickFlatten, TickBuyMock, TickBuyRefused, TickReserve, TickReserveFails, Buy,
         brokerVars, orderVars
<1>2. journal' = "acked" <=> journal = "acked"
  BY DEF Bar, TickQuiet, TickFlatten, TickBuyMock, TickBuyRefused, TickReserve, TickReserveFails,
         Admits, MayReserve
<1> QED BY <1>1, <1>2, ContractStutters

\* The request leaves, and nothing was sent before.
LEMMA ContractSend == ASSUME IInv, Post PROVE Contract!Send(TheOrder)
<1>1. sent = 0 /\ sent' = 1
  BY DEF IInv, OneOrder, Post
<1>2. accepted' = accepted /\ journal' = journal
  BY DEF Post
<1> QED BY <1>1, <1>2 DEF Contract!Send, Acceptances, Returned

\* The broker takes it, or the request is lost.
LEMMA ContractAccept ==
  ASSUME IInv, Receive
  PROVE  Contract!Accept(TheOrder) \/ UNCHANGED Contract!vars
<1>1. /\ sent' = sent /\ journal' = journal
      /\ accepted' = accepted \/ accepted' = accepted + 1
  BY DEF Receive
<1>2. accepted < sent
  BY TraderAssumption DEF Receive, IInv, TypeOK, Counts
<1>3. CASE accepted' = accepted
  BY <1>1, <1>3, ContractStutters
<1>4. CASE accepted' = accepted + 1
  BY <1>1, <1>2, <1>4 DEF Contract!Accept, Acceptances, Returned
<1> QED BY <1>1, <1>3, <1>4

\* An id that the journal holds is that of an accepted order, and stays.
LEMMA ContractReturn ==
  ASSUME IInv, Acknowledged \/ AcknowledgeFails \/ Unconfirmed
  PROVE  Contract!Return(TheOrder) \/ UNCHANGED Contract!vars
<1>1. journal = "reserved" /\ UNCHANGED <<sent, accepted>>
  BY DEF IInv, OneOrder, Acknowledged, AcknowledgeFails, Unconfirmed, Return, brokerVars, orderVars
<1>2. CASE journal' = "acked"
  <2>1. accepted > 0
    BY <1>1, <1>2 DEF Acknowledged, AcknowledgeFails, Unconfirmed
  <2>2. accepted = 1
    BY <2>1, TraderAssumption DEF IInv, TypeOK, OneOrder
  <2> QED BY <1>1, <1>2, <2>2 DEF Contract!Return, Acceptances, Returned
<1>3. CASE journal' # "acked"
  BY <1>1, <1>3, ContractStutters
<1> QED BY <1>2, <1>3

\* Every step.
LEMMA ContractStep == IInv /\ [Next]_vars => [Contract!Next]_(Contract!vars)
<1> SUFFICES ASSUME IInv, [Next]_vars PROVE Contract!Next \/ UNCHANGED Contract!vars
  OBVIOUS
<1>1. CASE Tick
  <2>1. CASE \E fault \in BOOLEAN, a \in Advisory : Bar(fault, a)
    BY <2>1, ContractBar
  <2>2. CASE TickUnsound \/ (\E fault \in BOOLEAN : TickPending(fault)) \/ TickNoEquity \/ TickBadAdvice
    BY <2>2, ContractStutters
       DEF TickUnsound, TickPending, TickNoEquity, TickBadAdvice, brokerVars, orderVars
  <2> QED BY <1>1, <2>1, <2>2 DEF Tick
<1>2. CASE Submit
  BY <1>2, ContractSend, ContractReturn DEF Submit, Contract!Next
<1>3. CASE Receive
  BY <1>3, ContractAccept DEF Contract!Next
<1>4. CASE Start \/ Exit \/ Fill \/ Cancel \/ Market \/ UNCHANGED vars
  BY <1>4, ContractStutters
     DEF Start, Exit, Fill, Cancel, Market, vars, brokerVars, orderVars
<1> QED BY <1>1, <1>2, <1>3, <1>4 DEF Next

\* The daemon, over all its sessions, keeps the contract of directional submission
\* for its symbol: the order is sent once, and the journal names an id only for an
\* order the broker accepted, and never loses it.
THEOREM DaemonKeepsContract == Spec => Contract!Spec
<1>1. Init => Contract!Init
  BY DEF Init, Contract!Init, Acceptances, Returned
<1> QED BY <1>1, ContractStep, Invariance, PTL DEF Spec, Contract!Spec
=============================================================================
