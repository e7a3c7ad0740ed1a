------------------------- MODULE FinanceKernelProofs -------------------------
(***************************************************************************)
(* Proofs about the Python kernel: the simulated book of VolumeOperator is  *)
(* what its audit log says, for any accounts and hysteresis and through any *)
(* failures of the log; and a session of KernelSession acts on every frame  *)
(* once at most, for any number of pipelines and whatever callers claim of  *)
(* the channel.                                                             *)
(***************************************************************************)
EXTENDS KernelSession, VolumeOperator, FiniteSetTheorems, SequenceTheorems, TLAPS

-----------------------------------------------------------------------------
(* VolumeOperator.                                                          *)

Sides == {"BUY", "FLAT"}
Executor ==
    [side : Sides, pending : Sides, bars : Nat, locked : BOOLEAN, peak : Nat, counter : Nat \ {0}]
Trade == [action : Sides, id : Nat]
LogLine == [action : Sides, id : Nat, known : BOOLEAN]

TickTypeOK ==
    /\ enabled \in BOOLEAN /\ account \in TickEquities
    /\ executor \in Executor
    /\ auditLog \in Seq(LogLine)

KnownLines == {i \in DOMAIN auditLog : auditLog[i].known}
OrderLines == {i \in DOMAIN auditLog : auditLog[i].action = "BUY"}

\* A known order has a number below the counter, an unknown one the counter itself,
\* and it is the only one, since the executor is locked from then on.
Numbered ==
    /\ \A i \in OrderLines : IF auditLog[i].known THEN auditLog[i].id < executor.counter
                             ELSE auditLog[i].id = executor.counter
    /\ \A i, j \in OrderLines : ~auditLog[i].known /\ ~auditLog[j].known => i = j

TickInv == TickTypeOK /\ Numbered /\ BookMatchesLog

\* What a tick that nothing stops stages: the book changes with the trade that is
\* logged, and an executor that is locked opens nothing.
LEMMA TickedMeans ==
    ASSUME TickTypeOK, NEW advisory \in TickAdvisories, NEW halt \in BOOLEAN,
           NEW quantity \in {"zero", "some"}
    PROVE  LET result == Ticked(advisory, halt, quantity)
               x == result.state
           IN  /\ x \in Executor /\ (executor.locked => x.locked)
               /\ \/ /\ result.trade = <<>>
                     /\ x.side = executor.side /\ x.counter = executor.counter
                  \/ /\ result.trade = <<[action |-> "FLAT", id |-> 0]>>
                     /\ x.side = "FLAT" /\ x.counter = executor.counter
                  \/ /\ result.trade = <<[action |-> "BUY", id |-> executor.counter]>>
                     /\ x.side = "BUY" /\ x.counter = executor.counter + 1
                     /\ ~executor.locked
  <1> DEFINE guarded == Guarded(executor, halt)
             side == Wanted(guarded, advisory)
             x == Counting(guarded, side)
  <1>1. executor \in Executor /\ account \in Nat
    BY TickAssumption DEF TickTypeOK
  <1>2. /\ guarded \in Executor /\ guarded.side = executor.side
        /\ guarded.counter = executor.counter /\ (executor.locked => guarded.locked)
    BY <1>1, TickAssumption DEF Guarded, Executor
  <1> HIDE DEF guarded
  <1>3. side \in Sides /\ (guarded.locked => side = "FLAT")
    BY DEF Wanted, Sides
  <1> HIDE DEF side
  <1>4. /\ x \in Executor /\ x.side = guarded.side /\ x.counter = guarded.counter
        /\ x.locked = guarded.locked
    <2> DEFINE n == IF side = guarded.pending THEN guarded.bars + 1 ELSE 1
    <2>1. n \in Nat
      BY <1>2 DEF Executor
    <2>2. x = [guarded EXCEPT !.bars = n, !.pending = side]
      BY DEF Counting
    <2> HIDE DEF n, x
    <2>3. QED BY <1>2, <1>3, <2>1, <2>2 DEF Executor
  <1> HIDE DEF x
  <1>5. /\ [x EXCEPT !.side = "FLAT"] \in Executor
        /\ [x EXCEPT !.side = "FLAT"].side = "FLAT"
        /\ [x EXCEPT !.side = "FLAT"].counter = x.counter
        /\ [x EXCEPT !.side = "FLAT"].locked = x.locked
    BY <1>4 DEF Executor, Sides
  <1>6. /\ [x EXCEPT !.side = "BUY", !.counter = @ + 1] \in Executor
        /\ [x EXCEPT !.side = "BUY", !.counter = @ + 1].side = "BUY"
        /\ [x EXCEPT !.side = "BUY", !.counter = @ + 1].counter = x.counter + 1
        /\ [x EXCEPT !.side = "BUY", !.counter = @ + 1].locked = x.locked
    <2>1. x.counter + 1 \in Nat \ {0}
      BY <1>4 DEF Executor
    <2> DEFINE n == x.counter + 1
    <2>2. [x EXCEPT !.side = "BUY", !.counter = @ + 1] = [x EXCEPT !.side = "BUY", !.counter = n]
      OBVIOUS
    <2> HIDE DEF n
    <2>3. [x EXCEPT !.side = "BUY", !.counter = n] \in Executor
      BY <1>4, <2>1 DEF Executor, Sides, n
    <2>4. QED BY <1>4, <2>2, <2>3 DEF Executor, n
  <1>7. Ticked(advisory, halt, quantity) =
          IF \/ x.bars < TickHysteresis \/ ~enabled \/ side = x.side
             \/ side = "BUY" /\ quantity = "zero"
            THEN [state |-> x, trade |-> <<>>]
          ELSE IF side = "FLAT"
            THEN [state |-> [x EXCEPT !.side = "FLAT"], trade |-> <<[action |-> "FLAT", id |-> 0]>>]
          ELSE [state |-> [x EXCEPT !.side = "BUY", !.counter = @ + 1],
                trade |-> <<[action |-> "BUY", id |-> x.counter]>>]
    BY Zenon DEF Ticked, x, side, guarded
  <1> DEFINE result == Ticked(advisory, halt, quantity)
  <1>8. \/ result = [state |-> x, trade |-> <<>>]
        \/ /\ result = [state |-> [x EXCEPT !.side = "FLAT"],
                        trade |-> <<[action |-> "FLAT", id |-> 0]>>]
        \/ /\ side # "FLAT"
           /\ result = [state |-> [x EXCEPT !.side = "BUY", !.counter = @ + 1],
                        trade |-> <<[action |-> "BUY", id |-> x.counter]>>]
    BY <1>7, Zenon
  <1> HIDE DEF result
  <1>9. CASE result = [state |-> x, trade |-> <<>>]
    <2>1. result.state = x /\ result.trade = <<>>
      BY <1>9
    <2>2. QED BY <1>2, <1>4, <2>1 DEF result
  <1>10. CASE result = [state |-> [x EXCEPT !.side = "FLAT"],
                        trade |-> <<[action |-> "FLAT", id |-> 0]>>]
    <2>1. result.state = [x EXCEPT !.side = "FLAT"] /\ result.trade = <<[action |-> "FLAT", id |-> 0]>>
      BY <1>10
    <2>2. QED BY <1>2, <1>4, <1>5, <2>1 DEF result
  <1>11. CASE /\ side # "FLAT"
              /\ result = [state |-> [x EXCEPT !.side = "BUY", !.counter = @ + 1],
                           trade |-> <<[action |-> "BUY", id |-> x.counter]>>]
    <2>1. /\ result.state = [x EXCEPT !.side = "BUY", !.counter = @ + 1]
          /\ result.trade = <<[action |-> "BUY", id |-> x.counter]>>
      BY <1>11
    <2>2. ~executor.locked
      BY <1>2, <1>3, <1>11
    <2>3. QED BY <1>2, <1>4, <1>6, <2>1, <2>2 DEF result
  <1>12. QED BY <1>8, <1>9, <1>10, <1>11

\* The line of a trade, and the log that it leaves.
LEMMA LineMeans ==
    ASSUME NEW known \in BOOLEAN, auditLog \in Seq(LogLine)
    PROVE  /\ auditLog \o Line(<<>>, known) = auditLog
           /\ \A action \in Sides, id \in Nat :
                auditLog \o Line(<<[action |-> action, id |-> id]>>, known)
                  = Append(auditLog, [action |-> action, id |-> id, known |-> known])
  <1>1. Line(<<>>, known) = <<>>
    <2>1. DOMAIN <<>> = {}
      OBVIOUS
    <2>2. QED BY <2>1 DEF Line
  <1>2. auditLog \o Line(<<>>, known) = auditLog
    BY <1>1, ConcatEmptySeq
  <1>3. ASSUME NEW action \in Sides, NEW id \in Nat
        PROVE  auditLog \o Line(<<[action |-> action, id |-> id]>>, known)
                 = Append(auditLog, [action |-> action, id |-> id, known |-> known])
    <2> DEFINE t == [action |-> action, id |-> id]
               trade == <<t>>
               line == [action |-> action, id |-> id, known |-> known]
    <2>1. line \in LogLine
      BY DEF LogLine
    <2>2. t.action = action /\ t.id = id
      OBVIOUS
    <2> HIDE DEF t
    <2>3. DOMAIN trade = 1..1 /\ trade[1] = t
      OBVIOUS
    <2> HIDE DEF trade
    <2>4. Line(trade, known) = [i \in 1..1 |-> [action |-> trade[i].action, id |-> trade[i].id, known |-> known]]
      BY <2>3 DEF Line
    <2>5. \A i \in 1..1 : [action |-> trade[i].action, id |-> trade[i].id, known |-> known] = line
      BY <2>2, <2>3
    <2> HIDE DEF line
    <2>6. Line(trade, known) = [i \in 1..1 |-> line]
      BY <2>4, <2>5
    <2>7. [i \in 1..1 |-> line] = <<line>>
      OBVIOUS
    <2>8. auditLog \o <<line>> = Append(auditLog, line)
      BY <2>1, AppendIsConcat
    <2>9. QED BY <2>6, <2>7, <2>8 DEF trade, t, line
  <1>4. QED BY <1>2, <1>3

\* A step that leaves the log alone, the side and the counter too, at most locks.
LEMMA NothingLogged ==
    ASSUME TickInv, auditLog' = auditLog, TickTypeOK',
           executor'.side = executor.side, executor'.counter = executor.counter,
           executor.locked => executor'.locked
    PROVE  TickInv'
  <1>1. KnownLines' = KnownLines /\ OrderLines' = OrderLines
    BY DEF KnownLines, OrderLines
  <1>2. Numbered'
    BY <1>1 DEF TickInv, Numbered
  <1>3. BookMatchesLog'
    BY DEF TickInv, BookMatchesLog
  <1>4. QED BY <1>2, <1>3 DEF TickInv

\* A line is logged. Known, it is what becomes of the position; unknown, the
\* position stays and the executor locks. Only an executor that is not locked buys.
LEMMA LineLogged ==
    ASSUME TickInv, NEW line \in LogLine, auditLog' = Append(auditLog, line), TickTypeOK',
           executor.locked => executor'.locked,
           line.action = "BUY" => ~executor.locked /\ line.id = executor.counter,
           line.known => /\ executor'.side = line.action
                         /\ executor'.counter = IF line.action = "BUY" THEN executor.counter + 1
                                                ELSE executor.counter,
           ~line.known => /\ executor'.side = executor.side /\ executor'.counter = executor.counter
                          /\ executor'.locked
    PROVE  TickInv'
  <1> DEFINE n == Len(auditLog) + 1
  <1>1. /\ auditLog \in Seq(LogLine) /\ executor \in Executor /\ executor.counter \in Nat
        /\ line.action \in Sides /\ line.known \in BOOLEAN
    BY DEF TickInv, TickTypeOK, Executor, LogLine
  <1>2. /\ Len(auditLog) \in Nat /\ DOMAIN auditLog = 1..Len(auditLog)
        /\ DOMAIN auditLog' = 1..n
        /\ \A i \in 1..Len(auditLog) : auditLog'[i] = auditLog[i]
        /\ auditLog'[n] = line
    <2>1. Len(auditLog') = n
      BY <1>1, AppendProperties
    <2>2. auditLog' \in Seq(LogLine)
      BY <1>1, AppendProperties
    <2>3. QED BY <1>1, <2>1, <2>2, AppendProperties
  <1>3. /\ 1..n = (1..Len(auditLog)) \cup {n} /\ n \notin 1..Len(auditLog) /\ n \in 1..n
        /\ \A i \in 1..n : i <= n
    BY <1>2
  <1> HIDE DEF n
  <1>4. KnownLines' = KnownLines \cup (IF line.known THEN {n} ELSE {})
    BY <1>2, <1>3 DEF KnownLines
  <1>5. OrderLines' = OrderLines \cup (IF line.action = "BUY" THEN {n} ELSE {})
    BY <1>2, <1>3 DEF OrderLines
  <1>6. KnownLines \subseteq 1..Len(auditLog) /\ OrderLines \subseteq 1..Len(auditLog)
    BY <1>2 DEF KnownLines, OrderLines
  <1>7. /\ \/ KnownLines = {} /\ executor.side = "FLAT"
           \/ \E i \in KnownLines : executor.side = auditLog[i].action /\ \A j \in KnownLines : j <= i
        /\ executor.counter = 1 + Cardinality(KnownLines \cap OrderLines)
        /\ KnownLines # DOMAIN auditLog => executor.locked
    BY DEF TickInv, BookMatchesLog, KnownLines, OrderLines
  <1>0. \A i, j \in OrderLines : auditLog[i].id = auditLog[j].id => i = j
    BY DEF TickInv, BookMatchesLog, OrderLines
  <1>8. line.action = "BUY" => \A i \in OrderLines : auditLog[i].known /\ auditLog[i].id < executor.counter
    BY <1>2, <1>6, <1>7 DEF TickInv, Numbered, KnownLines
  <1>9. \A i \in OrderLines : auditLog[i].id \in Nat /\ auditLog[i].known \in BOOLEAN
    <2>1. \A i \in OrderLines : auditLog[i] \in LogLine
      BY <1>1, <1>2, <1>6
    <2>2. QED BY <2>1 DEF LogLine
  <1>10. \A i \in OrderLines : auditLog'[i] = auditLog[i] /\ i # n
    BY <1>2, <1>3, <1>6
  <1>11. Numbered'
    <2>1. \A i \in OrderLines : IF auditLog[i].known THEN auditLog[i].id < executor.counter
                                ELSE auditLog[i].id = executor.counter
      BY DEF TickInv, Numbered
    <2>2. \A i, j \in OrderLines : ~auditLog[i].known /\ ~auditLog[j].known => i = j
      BY DEF TickInv, Numbered
    <2>3. CASE line.action = "BUY"
      <3>1. OrderLines' = OrderLines \cup {n}
        BY <1>5, <2>3
      <3>2. \A i \in OrderLines' : IF auditLog'[i].known THEN auditLog'[i].id < executor'.counter
                                   ELSE auditLog'[i].id = executor'.counter
        <4>1. ASSUME NEW i \in OrderLines
              PROVE  auditLog'[i].known /\ auditLog'[i].id < executor'.counter
          <5>1. /\ auditLog[i].known /\ auditLog[i].id < executor.counter
                /\ auditLog[i].id \in Nat /\ auditLog'[i] = auditLog[i]
            BY <1>8, <1>9, <1>10, <2>3
          <5>2. executor'.counter = executor.counter \/ executor'.counter = executor.counter + 1
            BY <1>1, <2>3
          <5>3. QED BY <1>1, <5>1, <5>2
        <4>2. line.id = executor.counter
          BY <2>3
        <4>3. IF line.known THEN line.id < executor'.counter ELSE line.id = executor'.counter
          BY <1>1, <2>3, <4>2
        <4>4. QED BY <1>2, <3>1, <4>1, <4>3
      <3>3. \A i, j \in OrderLines' : ~auditLog'[i].known /\ ~auditLog'[j].known => i = j
        BY <1>8, <1>10, <2>3, <3>1
      <3>4. QED BY <3>2, <3>3 DEF Numbered
    <2>4. CASE line.action # "BUY"
      <3>1. OrderLines' = OrderLines /\ executor'.counter = executor.counter
        BY <1>1, <1>5, <2>4
      <3>2. QED BY <1>10, <2>1, <2>2, <3>1 DEF Numbered
    <2>5. QED BY <2>3, <2>4
  <1>12. \/ KnownLines' = {} /\ executor'.side = "FLAT"
         \/ \E i \in KnownLines' : executor'.side = auditLog'[i].action /\ \A j \in KnownLines' : j <= i
    <2>1. CASE line.known
      <3>1. n \in KnownLines' /\ executor'.side = auditLog'[n].action
        BY <1>2, <1>4, <2>1
      <3>2. \A j \in KnownLines' : j <= n
        BY <1>3, <1>4, <1>6
      <3>3. QED BY <3>1, <3>2
    <2>2. CASE ~line.known
      <3>1. KnownLines' = KnownLines /\ executor'.side = executor.side
        BY <1>4, <2>2
      <3>2. \A i \in KnownLines : auditLog'[i] = auditLog[i]
        BY <1>2, <1>6
      <3>3. QED BY <1>7, <3>1, <3>2
    <2>3. QED BY <1>1, <2>1, <2>2
  <1>13. executor'.counter = 1 + Cardinality(KnownLines' \cap OrderLines')
    <2> DEFINE S == KnownLines \cap OrderLines
    <2>1. IsFiniteSet(1..Len(auditLog))
      BY <1>2, FS_Interval
    <2>2. IsFiniteSet(S) /\ n \notin S
      BY <1>3, <1>6, <2>1, FS_Subset
    <2>3. Cardinality(S \cup {n}) = Cardinality(S) + 1 /\ Cardinality(S) \in Nat
      BY <2>2, FS_AddElement, FS_CardinalityType
    <2>4. CASE line.known /\ line.action = "BUY"
      <3>1. KnownLines' \cap OrderLines' = S \cup {n}
        BY <1>4, <1>5, <2>4
      <3>2. executor'.counter = executor.counter + 1
        BY <2>4
      <3>3. executor'.counter = 1 + Cardinality(S \cup {n})
        <4>1. executor.counter = 1 + Cardinality(S)
          BY <1>7
        <4>2. QED BY <2>3, <3>2, <4>1
      <3>4. QED BY <3>1, <3>3
    <2>5. CASE ~(line.known /\ line.action = "BUY")
      <3>1. KnownLines' \cap OrderLines' = S
        BY <1>3, <1>4, <1>5, <1>6, <2>5
      <3>2. executor'.counter = executor.counter
        BY <1>1, <2>5
      <3>3. QED BY <1>7, <3>1, <3>2
    <2>6. QED BY <2>4, <2>5
  <1>14. KnownLines' # DOMAIN auditLog' => executor'.locked
    <2>1. CASE line.known
      <3>1. KnownLines = DOMAIN auditLog => KnownLines' = DOMAIN auditLog'
        BY <1>2, <1>3, <1>4, <2>1
      <3>2. QED BY <1>7, <3>1
    <2>2. QED BY <1>1, <2>1
  <1>15. \A i, j \in OrderLines' : auditLog'[i].id = auditLog'[j].id => i = j
    <2>1. CASE line.action = "BUY"
      <3>1. OrderLines' = OrderLines \cup {n}
        BY <1>5, <2>1
      <3>2. \A i \in OrderLines : auditLog'[i].id # auditLog'[n].id
        <4>1. TAKE i \in OrderLines
        <4>2. /\ auditLog[i].id < executor.counter /\ auditLog[i].id \in Nat
              /\ auditLog'[i] = auditLog[i]
          BY <1>8, <1>9, <1>10, <2>1
        <4>3. auditLog'[n].id = executor.counter
          BY <1>2, <2>1
        <4>4. QED BY <1>1, <4>2, <4>3
      <3>3. \A i, j \in OrderLines : auditLog'[i].id = auditLog'[j].id => i = j
        <4>1. TAKE i, j \in OrderLines
        <4>2. auditLog'[i] = auditLog[i] /\ auditLog'[j] = auditLog[j]
          BY <1>10
        <4>3. QED BY <1>0, <4>2
      <3>4. ASSUME NEW i \in OrderLines', NEW j \in OrderLines', auditLog'[i].id = auditLog'[j].id
            PROVE  i = j
        <4>1. CASE i \in OrderLines /\ j \in OrderLines
          BY <3>3, <3>4, <4>1
        <4>2. CASE i = n \/ j = n
          BY <3>1, <3>2, <3>4, <4>2
        <4>3. QED BY <3>1, <4>1, <4>2
      <3>5. QED BY <3>4
    <2>2. CASE line.action # "BUY"
      <3>1. OrderLines' = OrderLines
        BY <1>5, <2>2
      <3>2. ASSUME NEW i \in OrderLines, NEW j \in OrderLines, auditLog'[i].id = auditLog'[j].id
            PROVE  i = j
        <4>1. auditLog'[i] = auditLog[i] /\ auditLog'[j] = auditLog[j]
          BY <1>10
        <4>2. QED BY <1>0, <3>2, <4>1
      <3>3. QED BY <3>1, <3>2
    <2>3. QED BY <2>1, <2>2
  <1>16. BookMatchesLog'
    BY <1>12, <1>13, <1>14, <1>15 DEF BookMatchesLog, KnownLines, OrderLines
  <1>17. QED BY <1>11, <1>16 DEF TickInv

\* A tick that reaches its end.
LEMMA TickKeeps ==
    ASSUME TickInv, NEW advisory \in TickAdvisories, NEW halt \in BOOLEAN,
           NEW quantity \in {"zero", "some"}, ProcessTick(advisory, halt, quantity)
    PROVE  TickInv'
  <1> DEFINE result == Ticked(advisory, halt, quantity)
             x == result.state
             counted == [x EXCEPT !.bars = IF @ > TickHysteresis THEN TickHysteresis ELSE @]
  <1>1. TickTypeOK
    BY DEF TickInv
  <1>2. /\ x \in Executor /\ (executor.locked => x.locked)
        /\ \/ /\ result.trade = <<>>
              /\ x.side = executor.side /\ x.counter = executor.counter
           \/ /\ result.trade = <<[action |-> "FLAT", id |-> 0]>>
              /\ x.side = "FLAT" /\ x.counter = executor.counter
           \/ /\ result.trade = <<[action |-> "BUY", id |-> executor.counter]>>
              /\ x.side = "BUY" /\ x.counter = executor.counter + 1
              /\ ~executor.locked
    BY <1>1, TickedMeans, Zenon
  <1>3. /\ executor' = counted /\ auditLog' = auditLog \o Line(result.trade, TRUE)
        /\ enabled' = enabled /\ account' = account
    BY DEF ProcessTick
  <1> HIDE DEF result
  <1>4. /\ counted \in Executor /\ counted.side = x.side /\ counted.counter = x.counter
        /\ counted.locked = x.locked
    <2> DEFINE n == IF x.bars > TickHysteresis THEN TickHysteresis ELSE x.bars
    <2>1. n \in Nat
      BY <1>2, TickAssumption DEF Executor
    <2>2. counted = [x EXCEPT !.bars = n]
      OBVIOUS
    <2> HIDE DEF n, x, counted
    <2>3. QED BY <1>2, <2>1, <2>2 DEF Executor
  <1> HIDE DEF x, counted
  <1>5. /\ auditLog \in Seq(LogLine) /\ executor.counter \in Nat
        /\ enabled' \in BOOLEAN /\ account' \in TickEquities
        /\ executor' \in Executor
    BY <1>1, <1>3, <1>4 DEF TickTypeOK, Executor
  <1>6. CASE result.trade = <<>> /\ x.side = executor.side /\ x.counter = executor.counter
    <2>1. auditLog' = auditLog
      BY <1>3, <1>5, <1>6, LineMeans
    <2>2. TickTypeOK'
      BY <1>5, <2>1 DEF TickTypeOK
    <2>3. QED BY <1>2, <1>3, <1>4, <1>6, <2>1, <2>2, NothingLogged
  <1>7. CASE /\ result.trade = <<[action |-> "FLAT", id |-> 0]>>
             /\ x.side = "FLAT" /\ x.counter = executor.counter
    <2> DEFINE line == [action |-> "FLAT", id |-> 0, known |-> TRUE]
    <2>1. line \in LogLine /\ line.action = "FLAT" /\ line.known /\ "FLAT" \in Sides
      BY DEF LogLine, Sides
    <2>2. auditLog' = Append(auditLog, line)
      BY <1>3, <1>5, <1>7, <2>1, LineMeans
    <2> HIDE DEF line
    <2>3. TickTypeOK'
      BY <1>5, <2>1, <2>2, AppendProperties DEF TickTypeOK
    <2>4. QED BY <1>2, <1>3, <1>4, <1>7, <2>1, <2>2, <2>3, LineLogged
  <1>8. CASE /\ result.trade = <<[action |-> "BUY", id |-> executor.counter]>>
             /\ x.side = "BUY" /\ x.counter = executor.counter + 1
             /\ ~executor.locked
    <2> DEFINE line == [action |-> "BUY", id |-> executor.counter, known |-> TRUE]
    <2>1. /\ line \in LogLine /\ line.action = "BUY" /\ line.known /\ "BUY" \in Sides
          /\ line.id = executor.counter
      BY <1>5 DEF LogLine, Sides
    <2>2. auditLog' = Append(auditLog, line)
      BY <1>3, <1>5, <1>8, <2>1, LineMeans
    <2> HIDE DEF line
    <2>3. TickTypeOK'
      BY <1>5, <2>1, <2>2, AppendProperties DEF TickTypeOK
    <2>4. QED BY <1>2, <1>3, <1>4, <1>8, <2>1, <2>2, <2>3, LineLogged
  <1>9. QED BY <1>2, <1>6, <1>7, <1>8

\* The way back keeps what was there and locks.
LEMMA RolledBackMeans ==
    ASSUME TickTypeOK, NEW staged
    PROVE  LET back == RolledBack(executor, staged)
           IN  /\ back \in Executor /\ back.locked
               /\ back.side = executor.side /\ back.counter = executor.counter
  BY DEF TickTypeOK, RolledBack, Executor

\* A tick whose line fails.
LEMMA FailedTickKeeps ==
    ASSUME TickInv, NEW advisory \in TickAdvisories, NEW halt \in BOOLEAN,
           NEW quantity \in {"zero", "some"}, ProcessTickFails(advisory, halt, quantity)
    PROVE  TickInv'
  <1> DEFINE result == Ticked(advisory, halt, quantity)
             x == result.state
  <1>1. TickTypeOK
    BY DEF TickInv
  <1>2. \/ result.trade = <<>>
        \/ result.trade = <<[action |-> "FLAT", id |-> 0]>>
        \/ /\ result.trade = <<[action |-> "BUY", id |-> executor.counter]>>
           /\ ~executor.locked
    BY <1>1, TickedMeans, Zenon
  <1>3. /\ executor' = RolledBack(executor, result.state)
        /\ auditLog' = auditLog \/ auditLog' = auditLog \o Line(result.trade, FALSE)
        /\ enabled' = enabled /\ account' = account
    BY DEF ProcessTickFails
  <1> HIDE DEF result
  <1>4. /\ auditLog \in Seq(LogLine) /\ executor.counter \in Nat
        /\ enabled' \in BOOLEAN /\ account' \in TickEquities
        /\ executor' \in Executor /\ executor'.locked
        /\ executor'.side = executor.side /\ executor'.counter = executor.counter
    <2>1. /\ auditLog \in Seq(LogLine) /\ executor.counter \in Nat
          /\ enabled' \in BOOLEAN /\ account' \in TickEquities
      BY <1>1, <1>3 DEF TickTypeOK, Executor
    <2>2. QED BY <1>1, <1>3, <2>1, RolledBackMeans
  <1>5. CASE auditLog' = auditLog
    <2>1. TickTypeOK'
      BY <1>4, <1>5 DEF TickTypeOK
    <2>2. QED BY <1>4, <1>5, <2>1, NothingLogged
  <1>6. CASE result.trade = <<>>
    BY <1>3, <1>4, <1>5, <1>6, LineMeans
  <1>7. ASSUME NEW line \in LogLine, auditLog' = Append(auditLog, line), ~line.known,
               line.action = "BUY" => ~executor.locked /\ line.id = executor.counter
        PROVE  TickInv'
    <2>1. TickTypeOK'
      BY <1>4, <1>7, AppendProperties DEF TickTypeOK
    <2>2. QED BY <1>4, <1>7, <2>1, LineLogged
  <1>8. CASE /\ auditLog' = auditLog \o Line(result.trade, FALSE)
             /\ result.trade = <<[action |-> "FLAT", id |-> 0]>>
    <2> DEFINE line == [action |-> "FLAT", id |-> 0, known |-> FALSE]
    <2>1. line \in LogLine /\ line.action = "FLAT" /\ ~line.known /\ "FLAT" \in Sides
      BY DEF LogLine, Sides
    <2>2. auditLog' = Append(auditLog, line)
      BY <1>4, <1>8, <2>1, LineMeans
    <2> HIDE DEF line
    <2>3. QED BY <1>7, <2>1, <2>2
  <1>9. CASE /\ auditLog' = auditLog \o Line(result.trade, FALSE)
             /\ result.trade = <<[action |-> "BUY", id |-> executor.counter]>>
             /\ ~executor.locked
    <2> DEFINE line == [action |-> "BUY", id |-> executor.counter, known |-> FALSE]
    <2>1. /\ line \in LogLine /\ line.action = "BUY" /\ ~line.known /\ "BUY" \in Sides
          /\ line.id = executor.counter
      BY <1>4 DEF LogLine, Sides
    <2>2. auditLog' = Append(auditLog, line)
      BY <1>4, <1>9, <2>1, LineMeans
    <2> HIDE DEF line
    <2>3. QED BY <1>7, <1>9, <2>1, <2>2
  <1>10. QED BY <1>2, <1>3, <1>5, <1>6, <1>8, <1>9

\* Whatever a tick decides and wherever it fails, the book stays what the log says.
LEMMA TickStep ==
    ASSUME TickInv, [TickNext]_tickVars
    PROVE  TickInv'
  <1>1. TickTypeOK
    BY DEF TickInv
  <1>2. ASSUME NEW advisory \in TickAdvisories, NEW halt \in BOOLEAN,
               ProcessTickOverflows(advisory, halt)
        PROVE  TickInv'
    <2>1. /\ executor' = RolledBack(executor, executor)
          /\ auditLog' = auditLog /\ enabled' = enabled /\ account' = account
      BY <1>2 DEF ProcessTickOverflows
    <2>2. /\ executor' \in Executor /\ executor'.locked
          /\ executor'.side = executor.side /\ executor'.counter = executor.counter
      BY <1>1, <2>1, RolledBackMeans
    <2>3. TickTypeOK'
      BY <1>1, <2>1, <2>2 DEF TickTypeOK
    <2>4. QED BY <2>1, <2>2, <2>3, NothingLogged
  <1>3. ASSUME SetEquity \/ UNCHANGED tickVars PROVE TickInv'
    <2>1. executor' = executor /\ auditLog' = auditLog /\ TickTypeOK'
      BY <1>1, <1>3 DEF SetEquity, tickVars, TickTypeOK
    <2>2. QED BY <2>1, NothingLogged
  <1>4. QED BY <1>2, <1>3, TickKeeps, FailedTickKeeps DEF TickNext

\* The book of the simulated executor can be told from its audit log
\* (volume_execution.py:187-193), for every account, limit and hysteresis.
THEOREM BookIsLog == TickSpec => []BookMatchesLog
  <1>1. TickInit => TickInv
    <2> SUFFICES ASSUME TickInit PROVE TickInv
      OBVIOUS
    <2>1. auditLog = <<>> /\ DOMAIN auditLog = {}
      BY DEF TickInit
    <2>2. /\ executor \in Executor /\ executor.side = "FLAT" /\ executor.counter = 1
          /\ enabled \in BOOLEAN /\ account \in TickEquities
      BY TickAssumption DEF TickInit, Executor, Sides
    <2>3. TickTypeOK
      BY <2>1, <2>2, EmptySeq DEF TickTypeOK
    <2>4. KnownLines = {} /\ OrderLines = {}
      BY <2>1 DEF KnownLines, OrderLines
    <2>5. Numbered
      BY <2>4 DEF Numbered
    <2>6. Cardinality(KnownLines \cap OrderLines) = 0
      <3>1. KnownLines \cap OrderLines = {}
        BY <2>4
      <3>2. QED BY <3>1, FS_EmptySet
    <2>7. BookMatchesLog
      <3>1. /\ KnownLines = {} /\ executor.side = "FLAT"
            /\ executor.counter = 1 + Cardinality(KnownLines \cap OrderLines)
            /\ KnownLines = DOMAIN auditLog
            /\ \A i, j \in OrderLines : auditLog[i].id = auditLog[j].id => i = j
        BY <2>1, <2>2, <2>4, <2>6
      <3>2. QED BY <3>1 DEF BookMatchesLog, KnownLines, OrderLines
    <2>8. QED BY <2>3, <2>5, <2>7 DEF TickInv
  <1>2. TickInv /\ [TickNext]_tickVars => TickInv'
    BY TickStep
  <1>3. TickInv => BookMatchesLog
    BY DEF TickInv
  <1>4. QED BY <1>1, <1>2, <1>3, PTL DEF TickSpec

-----------------------------------------------------------------------------
(* KernelSession.                                                           *)

Channel ==
    [expected : Nat, processed : Nat \ {0}, gaps : Nat, status : 0 .. 3, stamp : Stamps]
Evidence == [frame : Frames, degraded : BOOLEAN, escalate : BOOLEAN]
Taken == [frame : Frames, broken : BOOLEAN]

SessionTypeOK ==
    /\ halted \in BOOLEAN
    /\ channelOf \in Seq(Channel)
    /\ cursor \in Int /\ stamped \in Int
    /\ holds \in [Pipelines -> Evidence \cup {NoEvidence}]
    /\ accepted \in Seq(Taken) /\ served \in Seq(Int \X Int) /\ acted \in Seq(Frames)

\* The channel is ahead of every frame it has taken, and broken once one was.
ChannelLeads ==
    \A i \in DOMAIN accepted :
      /\ channelOf # <<>>
      /\ accepted[i].frame < channelOf[1].expected
      /\ accepted[i].broken => channelOf[1].status # 0

\* Evidence on which a cycle may act.
Whole(p) == holds[p] # NoEvidence /\ ~holds[p].degraded /\ ~holds[p].escalate

\* A frame that is held whole was taken whole, nobody else holds it so, and it has
\* not been acted on.
WholeHeldOnce ==
    /\ \A p \in Pipelines : Whole(p) =>
         /\ \E j \in DOMAIN accepted : accepted[j] = [frame |-> holds[p].frame, broken |-> FALSE]
         /\ \A i \in DOMAIN acted : acted[i] # holds[p].frame
    /\ \A p, q \in Pipelines : Whole(p) /\ Whole(q) /\ holds[p].frame = holds[q].frame => p = q

ServedBehind == \A i \in DOMAIN served : served[i][1] <= cursor /\ served[i][2] <= stamped

\* The session's channel outweighs what a caller claims of it.
LEMMA MergedMeans ==
    ASSUME SessionTypeOK, NEW claim \in Claims
    PROVE  LET was == Merged([expected |-> claim.expected, processed |-> claim.processed,
                              gaps |-> claim.gaps, status |-> claim.status, stamp |-> 0])
           IN  /\ was.expected \in Nat /\ was.processed \in Nat /\ was.gaps \in Nat
               /\ was.status \in 0 .. 3
               /\ channelOf # <<>> => /\ was.processed > 0
                                      /\ was.expected >= channelOf[1].expected
                                      /\ was.status >= channelOf[1].status
  <1> DEFINE told == [expected |-> claim.expected, processed |-> claim.processed,
                      gaps |-> claim.gaps, status |-> claim.status, stamp |-> 0]
             was == Merged(told)
  <1>1. /\ claim.expected \in Nat /\ claim.processed \in Nat /\ claim.gaps \in Nat
        /\ claim.status \in 0 .. 3
    BY SessionAssumption
  <1>2. /\ told.expected = claim.expected /\ told.processed = claim.processed
        /\ told.gaps = claim.gaps /\ told.status = claim.status
        /\ {"expected", "processed", "gaps", "status"} \subseteq DOMAIN told
    OBVIOUS
  <1> HIDE DEF told
  <1>3. CASE channelOf = <<>>
    <2>1. was = told
      BY <1>3 DEF Merged
    <2>2. QED BY <1>1, <1>2, <1>3, <2>1 DEF told
  <1>4. CASE channelOf # <<>>
    <2> DEFINE r == channelOf[1]
    <2>1. r \in Channel
      BY <1>4 DEF SessionTypeOK
    <2>2. /\ r.expected \in Nat /\ r.processed \in Nat \ {0} /\ r.gaps \in Nat /\ r.status \in 0 .. 3
      BY <2>1 DEF Channel
    <2>3. was = [field \in DOMAIN told |-> Larger(told[field], channelOf[1][field])]
      BY <1>4 DEF Merged
    <2> HIDE DEF r, was
    <2>4. /\ was.expected = Larger(told.expected, r.expected)
          /\ was.processed = Larger(told.processed, r.processed)
          /\ was.gaps = Larger(told.gaps, r.gaps) /\ was.status = Larger(told.status, r.status)
      BY <1>2, <2>3 DEF r
    <2>5. \A a, b \in Nat : Larger(a, b) \in {a, b} /\ Larger(a, b) >= a /\ Larger(a, b) >= b
      BY DEF Larger
    <2>6. /\ was.expected \in Nat /\ was.expected >= r.expected
          /\ was.processed \in Nat /\ was.processed >= r.processed
          /\ was.gaps \in Nat /\ was.status \in 0 .. 3 /\ was.status >= r.status
      BY <1>1, <1>2, <2>2, <2>4, <2>5
    <2>7. /\ was.expected \in Nat /\ was.processed \in Nat /\ was.gaps \in Nat
          /\ was.status \in 0 .. 3 /\ was.processed > 0
          /\ was.expected >= channelOf[1].expected /\ was.status >= channelOf[1].status
      BY <2>2, <2>6 DEF r
    <2>8. QED BY <2>7 DEF was, told
  <1>5. QED BY <1>3, <1>4

\* What the evaluation of a frame leaves in the channel, and that its report is whole
\* only where the channel is.
LEMMA EvaluationMeans ==
    ASSUME SessionTypeOK, NEW frame \in Frames, NEW stamp \in Stamps,
           NEW flag \in {"none", "suspect", "corrupted"}, NEW claim \in Claims
    PROVE  LET e == Evaluation(frame, stamp, flag, claim)
           IN  /\ e.late \in BOOLEAN /\ e.degraded \in BOOLEAN /\ e.escalate \in BOOLEAN
               /\ e.record \in Channel /\ e.record.expected = frame + 1
               /\ channelOf # <<>> /\ ~e.late =>
                    /\ channelOf[1].expected <= frame
                    /\ channelOf[1].status # 0 => e.record.status # 0
               /\ ~e.degraded => ~e.late /\ e.record.status = 0
  <1> DEFINE was == Merged([expected |-> claim.expected, processed |-> claim.processed,
                            gaps |-> claim.gaps, status |-> claim.status, stamp |-> 0])
             missed == IF was.processed > 0 /\ frame > was.expected THEN frame - was.expected ELSE 0
             late == was.processed > 0 /\ frame < was.expected
             gaps == was.gaps + missed
             seen == IF missed > 0 \/ late THEN 1 ELSE was.status
             corrupt == flag = "corrupted" \/ Stale(stamp)
             degraded == late \/ missed > 0 \/ flag # "none" \/ corrupt \/ seen # 0
             critical == degraded /\ (gaps >= GapLimit \/ corrupt)
             record == [expected |-> frame + 1, processed |-> was.processed + 1, gaps |-> gaps,
                        status |-> IF critical THEN 2 ELSE seen, stamp |-> stamp]
  <1>1. Evaluation(frame, stamp, flag, claim) =
          [late |-> late, degraded |-> degraded, escalate |-> critical, record |-> record]
    BY Zenon DEF Evaluation
  <1>2. /\ was.expected \in Nat /\ was.processed \in Nat /\ was.gaps \in Nat
        /\ was.status \in 0 .. 3
        /\ channelOf # <<>> => /\ was.processed > 0
                               /\ was.expected >= channelOf[1].expected
                               /\ was.status >= channelOf[1].status
    BY MergedMeans, Zenon
  <1> HIDE DEF was
  <1>3. frame \in Nat /\ frame + 1 \in Nat
    BY SessionAssumption
  <1>4. missed \in Nat /\ gaps \in Nat /\ seen \in 0 .. 3
    BY <1>2, <1>3
  <1>5. late \in BOOLEAN /\ degraded \in BOOLEAN /\ critical \in BOOLEAN
    OBVIOUS
  <1>6. channelOf # <<>> => /\ channelOf[1].expected \in Nat /\ channelOf[1].status \in 0 .. 3
    <2>1. channelOf # <<>> => channelOf[1] \in Channel
      BY DEF SessionTypeOK
    <2>2. QED BY <2>1 DEF Channel
  <1>7. channelOf # <<>> /\ ~late => /\ channelOf[1].expected <= frame
                                     /\ channelOf[1].status # 0 => seen # 0
    BY <1>2, <1>3, <1>6
  <1>8. ~degraded => ~late /\ seen = 0 /\ ~critical
    OBVIOUS
  <1> HIDE DEF missed, late, gaps, seen, corrupt, degraded, critical
  <1>9. /\ record \in Channel /\ record.expected = frame + 1
        /\ record.status = IF critical THEN 2 ELSE seen
    <2>1. (IF critical THEN 2 ELSE seen) \in 0 .. 3
      BY <1>4
    <2>2. was.processed + 1 \in Nat \ {0}
      BY <1>2
    <2>3. QED BY <1>3, <1>4, <2>1, <2>2 DEF Channel
  <1> HIDE DEF record
  <1> DEFINE e == Evaluation(frame, stamp, flag, claim)
  <1>10. e.late = late /\ e.degraded = degraded /\ e.escalate = critical /\ e.record = record
    BY <1>1
  <1> HIDE DEF e
  <1>11. /\ e.late \in BOOLEAN /\ e.degraded \in BOOLEAN /\ e.escalate \in BOOLEAN
         /\ e.record \in Channel /\ e.record.expected = frame + 1
         /\ channelOf # <<>> /\ ~e.late =>
              /\ channelOf[1].expected <= frame
              /\ channelOf[1].status # 0 => e.record.status # 0
         /\ ~e.degraded => ~e.late /\ e.record.status = 0
    BY <1>5, <1>7, <1>8, <1>9, <1>10
  <1>12. QED BY <1>11 DEF e
-----------------------------------------------------------------------------
(* The steps of a session.                                                  *)

\* The parts of FramesActedOnOnce, over the indices.
FramesAscend ==
    /\ \A i, j \in DOMAIN accepted : i < j => accepted[i].frame < accepted[j].frame
    /\ \A i, j \in DOMAIN accepted : i < j /\ accepted[i].broken => accepted[j].broken
ActedOnce ==
    /\ \A i, j \in DOMAIN acted : acted[i] = acted[j] => i = j
    /\ \A i \in DOMAIN acted : \E j \in DOMAIN accepted : accepted[j] = [frame |-> acted[i], broken |-> FALSE]
ServedAscends ==
    \A i, j \in DOMAIN served : i < j => served[i][1] < served[j][1] /\ served[i][2] < served[j][2]

\* The parts are the property.
LEMMA PartsMean ==
    FramesActedOnOnce <=> FramesAscend /\ ActedOnce /\ ServedAscends
  <1>1. Ascends([i \in DOMAIN accepted |-> accepted[i].frame]) <=>
          \A i, j \in DOMAIN accepted : i < j => accepted[i].frame < accepted[j].frame
    BY DEF Ascends
  <1>2. Ascends([i \in DOMAIN served |-> served[i][1]]) <=>
          \A i, j \in DOMAIN served : i < j => served[i][1] < served[j][1]
    BY DEF Ascends
  <1>3. Ascends([i \in DOMAIN served |-> served[i][2]]) <=>
          \A i, j \in DOMAIN served : i < j => served[i][2] < served[j][2]
    BY DEF Ascends
  <1>4. ServedAscends <=>
          /\ \A i, j \in DOMAIN served : i < j => served[i][1] < served[j][1]
          /\ \A i, j \in DOMAIN served : i < j => served[i][2] < served[j][2]
    BY DEF ServedAscends
  <1>5. QED BY <1>1, <1>2, <1>3, <1>4 DEF FramesActedOnOnce, FramesAscend, ActedOnce

\* The inductive invariant, in parts.
SessionParts ==
    /\ SessionTypeOK /\ ChannelLeads /\ WholeHeldOnce /\ ServedBehind
    /\ FramesAscend /\ ActedOnce /\ ServedAscends

\* A pipeline takes evidence that is not whole: what the others hold is unchanged.
LEMMA NothingWholeTaken ==
    ASSUME SessionParts, SessionTypeOK', NEW p \in Pipelines, ~Whole(p)',
           \A q \in Pipelines \ {p} : holds'[q] = holds[q],
           accepted' = accepted, acted' = acted, channelOf' = channelOf,
           cursor' = cursor, stamped' = stamped, served' = served
    PROVE  SessionParts'
  <1>1. \A q \in Pipelines : Whole(q)' => q # p /\ Whole(q) /\ holds'[q] = holds[q]
    BY DEF Whole
  <1>2. WholeHeldOnce'
    BY <1>1 DEF SessionParts, WholeHeldOnce
  <1>3. ChannelLeads' /\ ServedBehind' /\ FramesAscend' /\ ActedOnce' /\ ServedAscends'
    BY DEF SessionParts, ChannelLeads, ServedBehind, FramesAscend, ActedOnce, ServedAscends
  <1>4. QED BY <1>2, <1>3 DEF SessionParts

\* The channel takes a frame that is newer than those it has taken.
LEMMA FrameTaken ==
    ASSUME SessionParts, SessionTypeOK', NEW p \in Pipelines, NEW frame \in Frames,
           NEW record \in Channel, NEW broken \in BOOLEAN, broken = (record.status # 0),
           record.expected = frame + 1,
           channelOf # <<>> => /\ channelOf[1].expected <= frame
                               /\ channelOf[1].status # 0 => broken,
           channelOf' = <<record>>,
           accepted' = Append(accepted, [frame |-> frame, broken |-> broken]),
           \A q \in Pipelines \ {p} : holds'[q] = holds[q],
           holds'[p].frame = frame, Whole(p)' => ~broken,
           acted' = acted, cursor' = cursor, stamped' = stamped, served' = served
    PROVE  SessionParts'
  <1> DEFINE n == Len(accepted) + 1
             last == [frame |-> frame, broken |-> broken]
  <1>1. /\ accepted \in Seq(Taken) /\ acted \in Seq(Frames) /\ channelOf \in Seq(Channel)
        /\ Frames \subseteq Nat
    BY SessionAssumption DEF SessionParts, SessionTypeOK
  <1>2. last \in Taken /\ last.frame = frame /\ last.broken = broken
    BY DEF Taken
  <1> HIDE DEF last
  <1>3. /\ Len(accepted) \in Nat /\ DOMAIN accepted = 1..Len(accepted)
        /\ DOMAIN accepted' = 1..n /\ accepted'[n] = last
        /\ \A i \in 1..Len(accepted) : accepted'[i] = accepted[i]
    <2>1. accepted' = Append(accepted, last)
      BY DEF last
    <2>2. accepted' \in Seq(Taken) /\ Len(accepted') = n
      BY <1>1, <1>2, <2>1, AppendProperties
    <2>3. QED BY <1>1, <1>2, <2>1, <2>2, AppendProperties
  <1>4. 1..n = (1..Len(accepted)) \cup {n} /\ \A i \in 1..Len(accepted) : i < n
    BY <1>3
  <1>5. channelOf # <<>> => channelOf[1] \in Channel
    BY <1>1
  <1>6. \A i \in DOMAIN accepted :
          /\ accepted[i].frame \in Nat /\ accepted[i].frame < frame
          /\ accepted[i].broken => broken
    <2>1. TAKE i \in DOMAIN accepted
    <2>2. accepted[i].frame \in Nat
      <3>1. accepted[i] \in Taken
        BY <1>1
      <3>2. QED BY <1>1, <3>1 DEF Taken
    <2>3. /\ channelOf # <<>> /\ accepted[i].frame < channelOf[1].expected
          /\ accepted[i].broken => channelOf[1].status # 0
      BY DEF SessionParts, ChannelLeads
    <2>4. channelOf[1].expected \in Nat /\ frame \in Nat
      BY <1>1, <1>5, <2>3 DEF Channel
    <2>5. QED BY <2>2, <2>3, <2>4
  <1> HIDE DEF n
  <1>7. /\ channelOf' # <<>> /\ channelOf'[1] = record
    OBVIOUS
  <1>8. ChannelLeads'
    <2>1. ASSUME NEW i \in DOMAIN accepted'
          PROVE  /\ accepted'[i].frame < record.expected
                 /\ accepted'[i].broken => record.status # 0
      <3>1. CASE i \in DOMAIN accepted
        <4>1. /\ accepted'[i] = accepted[i] /\ accepted[i].frame \in Nat
              /\ accepted[i].frame < frame
              /\ accepted[i].broken => broken
          BY <1>3, <1>6, <3>1
        <4>2. accepted'[i].frame < record.expected
          BY <1>1, <4>1
        <4>3. QED BY <4>1, <4>2
      <3>2. CASE i = n
        <4>1. accepted'[i].frame = frame /\ accepted'[i].broken = broken
          BY <1>2, <1>3, <3>2
        <4>2. accepted'[i].frame < record.expected
          BY <1>1, <4>1
        <4>3. QED BY <4>1, <4>2
      <3>3. QED BY <1>3, <1>4, <3>1, <3>2
    <2>2. QED BY <1>7, <2>1 DEF ChannelLeads
  <1>9. FramesAscend'
    <2>1. ASSUME NEW i \in DOMAIN accepted', NEW j \in DOMAIN accepted', i < j
          PROVE  /\ accepted'[i].frame < accepted'[j].frame
                 /\ accepted'[i].broken => accepted'[j].broken
      <3>1. i \in DOMAIN accepted /\ accepted'[i] = accepted[i]
        BY <1>3, <1>4, <2>1
      <3>2. CASE j \in DOMAIN accepted
        <4>1. accepted'[j] = accepted[j]
          BY <1>3, <3>2
        <4>2. QED BY <2>1, <3>1, <3>2, <4>1 DEF SessionParts, FramesAscend
      <3>3. CASE j = n
        BY <1>2, <1>3, <1>6, <3>1, <3>3
      <3>4. QED BY <1>3, <1>4, <3>2, <3>3
    <2>2. QED BY <2>1 DEF FramesAscend
  <1>10. \A j \in DOMAIN accepted : j \in DOMAIN accepted' /\ accepted'[j] = accepted[j]
    BY <1>3, <1>4
  <1>11. ActedOnce'
    <2>1. ASSUME NEW i \in DOMAIN acted'
          PROVE  \E j \in DOMAIN accepted' : accepted'[j] = [frame |-> acted'[i], broken |-> FALSE]
      <3>1. PICK j \in DOMAIN accepted : accepted[j] = [frame |-> acted[i], broken |-> FALSE]
        BY <2>1 DEF SessionParts, ActedOnce
      <3>2. j \in DOMAIN accepted' /\ accepted'[j] = accepted[j]
        BY <1>10
      <3>3. QED BY <3>1, <3>2
    <2>2. QED BY <2>1 DEF SessionParts, ActedOnce
  <1>12. /\ \A j \in DOMAIN accepted : accepted[j].frame # frame
         /\ \A i \in DOMAIN acted : acted[i] # frame
         /\ \A q \in Pipelines : Whole(q) => holds[q].frame # frame
    <2>1. \A j \in DOMAIN accepted : accepted[j].frame # frame
      BY <1>1, <1>6
    <2>2. \A f : \A j \in DOMAIN accepted : accepted[j] = [frame |-> f, broken |-> FALSE] => f # frame
      BY <2>1
    <2>3. QED BY <2>1, <2>2 DEF SessionParts, ActedOnce, WholeHeldOnce
  <1>13. WholeHeldOnce'
    <2>1. \A q \in Pipelines \ {p} : Whole(q)' <=> Whole(q)
      BY DEF Whole
    <2>2. ASSUME NEW q \in Pipelines, Whole(q)'
          PROVE  /\ \E j \in DOMAIN accepted' : accepted'[j] = [frame |-> holds'[q].frame, broken |-> FALSE]
                 /\ \A i \in DOMAIN acted' : acted'[i] # holds'[q].frame
      <3>1. CASE q = p
        <4>1. accepted'[n] = [frame |-> holds'[q].frame, broken |-> FALSE]
          BY <1>3, <2>2, <3>1 DEF last
        <4>2. n \in DOMAIN accepted'
          BY <1>3, <1>4
        <4>3. QED BY <1>12, <3>1, <4>1, <4>2
      <3>2. CASE q # p
        <4>1. Whole(q) /\ holds'[q] = holds[q]
          BY <2>1, <2>2, <3>2
        <4>2. PICK j \in DOMAIN accepted : accepted[j] = [frame |-> holds[q].frame, broken |-> FALSE]
          BY <4>1 DEF SessionParts, WholeHeldOnce
        <4>3. j \in DOMAIN accepted' /\ accepted'[j] = accepted[j]
          BY <1>10
        <4>4. \A i \in DOMAIN acted' : acted'[i] # holds'[q].frame
          BY <4>1 DEF SessionParts, WholeHeldOnce
        <4>5. QED BY <4>1, <4>2, <4>3, <4>4
      <3>3. QED BY <3>1, <3>2
    <2>3. ASSUME NEW q \in Pipelines, NEW r \in Pipelines, Whole(q)', Whole(r)',
                 holds'[q].frame = holds'[r].frame
          PROVE  q = r
      <3>1. CASE q # p /\ r # p
        <4>1. Whole(q) /\ holds'[q] = holds[q] /\ Whole(r) /\ holds'[r] = holds[r]
          BY <2>1, <2>3, <3>1
        <4>2. QED BY <2>3, <4>1 DEF SessionParts, WholeHeldOnce
      <3>2. CASE q = p /\ r # p
        BY <1>12, <2>1, <2>3, <3>2
      <3>3. CASE q # p /\ r = p
        BY <1>12, <2>1, <2>3, <3>3
      <3>4. QED BY <3>1, <3>2, <3>3
    <2>4. QED BY <2>2, <2>3 DEF WholeHeldOnce
  <1>14. ServedBehind' /\ ServedAscends'
    BY DEF SessionParts, ServedBehind, ServedAscends
  <1>15. QED BY <1>8, <1>9, <1>11, <1>13, <1>14 DEF SessionParts
\* The stream operator: a halt, a late frame and a frame that the channel takes.
LEMMA StreamStep ==
    ASSUME SessionParts, NEW p \in Pipelines,
           \/ \E frame \in Frames, clones \in BOOLEAN : StreamHalts(p, frame, clones)
           \/ \E frame \in Frames, stamp \in Stamps, flag \in {"none", "suspect", "corrupted"}, claim \in Claims :
                StreamEvaluates(p, frame, stamp, flag, claim)
    PROVE  SessionParts'
  <1>1. SessionTypeOK /\ holds \in [Pipelines -> Evidence \cup {NoEvidence}]
    BY DEF SessionParts, SessionTypeOK
  <1>2. NoEvidence \notin Evidence
    BY SessionAssumption DEF Evidence
  <1>3. ASSUME NEW ev \in Evidence, holds' = [holds EXCEPT ![p] = ev]
        PROVE  /\ holds' \in [Pipelines -> Evidence \cup {NoEvidence}]
               /\ holds'[p] = ev /\ \A q \in Pipelines \ {p} : holds'[q] = holds[q]
               /\ Whole(p)' <=> ~ev.degraded /\ ~ev.escalate
    <2>1. /\ holds' \in [Pipelines -> Evidence \cup {NoEvidence}]
          /\ holds'[p] = ev /\ \A q \in Pipelines \ {p} : holds'[q] = holds[q]
      BY <1>1, <1>3
    <2>2. ev # NoEvidence
      BY <1>2
    <2>3. Whole(p)' <=> ~ev.degraded /\ ~ev.escalate
      BY <2>1, <2>2, Zenon DEF Whole
    <2>4. QED BY <2>1, <2>3
  <1>4. ASSUME NEW frame \in Frames, NEW clones \in BOOLEAN, StreamHalts(p, frame, clones)
        PROVE  SessionParts'
    <2> DEFINE ev == [frame |-> frame, degraded |-> TRUE, escalate |-> TRUE]
    <2>1. ev \in Evidence /\ ev.degraded
      BY DEF Evidence
    <2>2. /\ holds' = [holds EXCEPT ![p] = ev]
          /\ UNCHANGED <<halted, channelOf, cursor, stamped, accepted, served, acted>>
      BY <1>4 DEF StreamHalts
    <2> HIDE DEF ev
    <2>3. SessionTypeOK'
      BY <1>1, <1>3, <2>1, <2>2 DEF SessionTypeOK
    <2>4. ~Whole(p)'
      BY <1>3, <2>1, <2>2
    <2>5. QED BY <1>3, <2>1, <2>2, <2>3, <2>4, NothingWholeTaken
  <1>5. ASSUME NEW frame \in Frames, NEW stamp \in Stamps, NEW flag \in {"none", "suspect", "corrupted"},
               NEW claim \in Claims, StreamEvaluates(p, frame, stamp, flag, claim)
        PROVE  SessionParts'
    <2> DEFINE e == Evaluation(frame, stamp, flag, claim)
               ev == [frame |-> frame, degraded |-> e.degraded, escalate |-> e.escalate]
               last == [frame |-> frame, broken |-> e.record.status # 0]
    <2>1. /\ e.late \in BOOLEAN /\ e.degraded \in BOOLEAN /\ e.escalate \in BOOLEAN
          /\ e.record \in Channel /\ e.record.expected = frame + 1
          /\ channelOf # <<>> /\ ~e.late =>
               /\ channelOf[1].expected <= frame
               /\ channelOf[1].status # 0 => e.record.status # 0
          /\ ~e.degraded => ~e.late /\ e.record.status = 0
      BY <1>1, EvaluationMeans, Zenon
    <2>2. /\ holds' = [holds EXCEPT ![p] = ev]
          /\ IF e.late THEN UNCHANGED <<channelOf, accepted>>
             ELSE channelOf' = <<e.record>> /\ accepted' = Append(accepted, last)
          /\ UNCHANGED <<halted, cursor, stamped, served, acted>>
      BY <1>5, Zenon DEF StreamEvaluates
    <2> HIDE DEF e
    <2>3. ev \in Evidence /\ ev.frame = frame /\ ev.degraded = e.degraded
      BY <2>1 DEF Evidence
    <2>4. last \in Taken
      BY DEF Taken
    <2> HIDE DEF ev
    <2>5. /\ holds' \in [Pipelines -> Evidence \cup {NoEvidence}]
          /\ holds'[p] = ev /\ \A q \in Pipelines \ {p} : holds'[q] = holds[q]
          /\ Whole(p)' => ~e.degraded
      BY <1>3, <2>2, <2>3
    <2>6. CASE e.late
      <3>1. channelOf' = channelOf /\ accepted' = accepted
        BY <2>2, <2>6
      <3>2. ~Whole(p)'
        BY <2>1, <2>5, <2>6
      <3>3. SessionTypeOK'
        BY <1>1, <2>2, <2>5, <3>1 DEF SessionTypeOK
      <3>4. QED BY <2>2, <2>5, <3>1, <3>2, <3>3, NothingWholeTaken
    <2>7. CASE ~e.late
      <3>1. channelOf' = <<e.record>> /\ accepted' = Append(accepted, last)
        BY <2>2, <2>7
      <3>2. channelOf' \in Seq(Channel)
        BY <2>1, <3>1
      <3>3. accepted' \in Seq(Taken)
        BY <1>1, <2>4, <3>1, AppendProperties DEF SessionTypeOK
      <3>4. SessionTypeOK'
        BY <1>1, <2>2, <2>5, <3>2, <3>3 DEF SessionTypeOK
      <3> DEFINE broken == e.record.status # 0
      <3>5. broken \in BOOLEAN /\ broken = (e.record.status # 0)
        OBVIOUS
      <3>6. accepted' = Append(accepted, [frame |-> frame, broken |-> broken])
        BY <3>1
      <3>7. /\ channelOf # <<>> => /\ channelOf[1].expected <= frame
                                   /\ channelOf[1].status # 0 => broken
            /\ Whole(p)' => ~broken
            /\ holds'[p].frame = frame
        BY <2>1, <2>3, <2>5, <2>7
      <3> HIDE DEF broken
      <3>8. QED BY <2>1, <2>2, <2>5, <3>1, <3>4, <3>5, <3>6, <3>7, FrameTaken
    <2>8. QED BY <2>1, <2>6, <2>7
  <1>6. QED BY <1>4, <1>5

\* Finish of a cycle whose id and timestamp are both fresh.
LEMMA ServedKeeps ==
    ASSUME SessionParts, NEW id \in Int, NEW stamp \in Int, FreshCycle(id, stamp), Finish(id, stamp)
    PROVE  /\ served' \in Seq(Int \X Int) /\ cursor' \in Int /\ stamped' \in Int
           /\ ServedBehind' /\ ServedAscends'
  <1> DEFINE n == Len(served) + 1
             pair == <<id, stamp>>
  <1>1. served \in Seq(Int \X Int) /\ cursor \in Int /\ stamped \in Int
    BY DEF SessionParts, SessionTypeOK
  <1>2. /\ cursor' = id /\ stamped' = stamp /\ served' = Append(served, pair)
        /\ id > cursor /\ stamp > stamped
    BY DEF Finish, FreshCycle
  <1>3. pair \in Int \X Int /\ pair[1] = id /\ pair[2] = stamp
    OBVIOUS
  <1> HIDE DEF pair
  <1>4. /\ Len(served) \in Nat /\ DOMAIN served = 1..Len(served)
        /\ served' \in Seq(Int \X Int) /\ Len(served') = n
        /\ \A i \in 1..Len(served) : served'[i] = served[i]
        /\ served'[n] = pair
    BY <1>1, <1>2, <1>3, AppendProperties
  <1>5. /\ DOMAIN served' = 1..n /\ 1..n = (1..Len(served)) \cup {n}
        /\ \A i \in 1..Len(served) : i < n
    BY <1>4
  <1> HIDE DEF n
  <1>6. \A i \in DOMAIN served : served[i] \in Int \X Int
    BY <1>1
  <1>7. \A i \in DOMAIN served :
          /\ served[i][1] \in Int /\ served[i][2] \in Int
          /\ served[i][1] < id /\ served[i][2] < stamp
    <2>1. TAKE i \in DOMAIN served
    <2>2. served[i][1] \in Int /\ served[i][2] \in Int
      BY <1>6
    <2>3. served[i][1] <= cursor /\ served[i][2] <= stamped
      BY DEF SessionParts, ServedBehind
    <2>4. QED BY <1>1, <1>2, <2>2, <2>3
  <1>8. ServedBehind'
    <2>1. ASSUME NEW i \in DOMAIN served'
          PROVE  served'[i][1] <= id /\ served'[i][2] <= stamp
      <3>1. CASE i = n
        BY <1>3, <1>4, <3>1
      <3>2. CASE i \in DOMAIN served
        <4>1. served'[i] = served[i]
          BY <1>4, <3>2
        <4>2. QED BY <1>7, <3>2, <4>1
      <3>3. QED BY <1>4, <1>5, <3>1, <3>2
    <2>2. QED BY <1>2, <2>1 DEF ServedBehind
  <1>9. ServedAscends'
    <2>1. ASSUME NEW i \in DOMAIN served', NEW j \in DOMAIN served', i < j
          PROVE  served'[i][1] < served'[j][1] /\ served'[i][2] < served'[j][2]
      <3>1. i \in DOMAIN served /\ served'[i] = served[i]
        BY <1>4, <1>5, <2>1
      <3>2. CASE j = n
        BY <1>3, <1>4, <1>7, <3>1, <3>2
      <3>3. CASE j \in DOMAIN served
        <4>1. served'[j] = served[j]
          BY <1>4, <3>3
        <4>2. QED BY <2>1, <3>1, <3>3, <4>1 DEF SessionParts, ServedAscends
      <3>4. QED BY <1>4, <1>5, <3>2, <3>3
    <2>2. QED BY <2>1 DEF ServedAscends
  <1>10. QED BY <1>2, <1>4, <1>8, <1>9

\* A pipeline lets go of its evidence.
LEMMA Released ==
    ASSUME SessionParts, NEW p \in Pipelines, holds' = [holds EXCEPT ![p] = NoEvidence]
    PROVE  /\ holds' \in [Pipelines -> Evidence \cup {NoEvidence}]
           /\ ~Whole(p)'
           /\ \A q \in Pipelines \ {p} : holds'[q] = holds[q]
  <1>1. holds \in [Pipelines -> Evidence \cup {NoEvidence}]
    BY DEF SessionParts, SessionTypeOK
  <1>2. /\ holds' \in [Pipelines -> Evidence \cup {NoEvidence}] /\ holds'[p] = NoEvidence
        /\ \A q \in Pipelines \ {p} : holds'[q] = holds[q]
    BY <1>1
  <1>3. QED BY <1>2 DEF Whole

\* A cycle of a pipeline ends: what it acts on was held whole, and by nobody else.
LEMMA PipelineCycles ==
    ASSUME SessionParts, NEW p \in Pipelines, NEW stamp \in Stamps, CycleOfPipeline(p, stamp)
    PROVE  SessionParts'
  <1>1. /\ holds \in [Pipelines -> Evidence \cup {NoEvidence}] /\ cursor \in Int
        /\ acted \in Seq(Frames) /\ stamp \in Int /\ SessionTypeOK
    BY SessionAssumption DEF SessionParts, SessionTypeOK
  <1>2. /\ holds[p] # NoEvidence
        /\ FreshCycle(cursor + 1, stamp) /\ Finish(cursor + 1, stamp)
        /\ acted' = IF Freezes(holds[p]) THEN acted ELSE Append(acted, holds[p].frame)
        /\ holds' = [holds EXCEPT ![p] = NoEvidence]
        /\ halted' = halted /\ channelOf' = channelOf /\ accepted' = accepted
    BY DEF CycleOfPipeline
  <1>3. /\ served' \in Seq(Int \X Int) /\ cursor' \in Int /\ stamped' \in Int
        /\ ServedBehind' /\ ServedAscends'
    BY <1>1, <1>2, ServedKeeps
  <1>4. /\ holds' \in [Pipelines -> Evidence \cup {NoEvidence}] /\ ~Whole(p)'
        /\ \A q \in Pipelines \ {p} : holds'[q] = holds[q]
    BY <1>2, Released
  <1>5. \A q \in Pipelines : Whole(q)' => q # p /\ Whole(q) /\ holds'[q] = holds[q]
    BY <1>4 DEF Whole
  <1>6. ChannelLeads' /\ FramesAscend'
    BY <1>2 DEF SessionParts, ChannelLeads, FramesAscend
  <1>7. CASE Freezes(holds[p])
    <2>1. acted' = acted
      BY <1>2, <1>7
    <2>2. SessionTypeOK'
      BY <1>1, <1>2, <1>3, <1>4, <2>1 DEF SessionTypeOK
    <2>3. WholeHeldOnce'
      BY <1>2, <1>5, <2>1 DEF SessionParts, WholeHeldOnce
    <2>4. ActedOnce'
      BY <1>2, <2>1 DEF SessionParts, ActedOnce
    <2>5. QED BY <1>3, <1>6, <2>2, <2>3, <2>4 DEF SessionParts
  <1>8. CASE ~Freezes(holds[p])
    <2> DEFINE frame == holds[p].frame
               n == Len(acted) + 1
    <2>1. Whole(p)
      BY <1>2, <1>8 DEF Freezes, Whole
    <2>2. frame \in Frames
      <3>1. holds[p] \in Evidence
        BY <1>1, <1>2
      <3>2. QED BY <3>1 DEF Evidence
    <2>3. acted' = Append(acted, frame)
      BY <1>2, <1>8
    <2>4. PICK k \in DOMAIN accepted : accepted[k] = [frame |-> frame, broken |-> FALSE]
      BY <2>1 DEF SessionParts, WholeHeldOnce
    <2>5. \A i \in DOMAIN acted : acted[i] # frame
      BY <2>1 DEF SessionParts, WholeHeldOnce
    <2>6. \A q \in Pipelines : Whole(q) /\ q # p => holds[q].frame # frame
      BY <2>1 DEF SessionParts, WholeHeldOnce
    <2> HIDE DEF frame
    <2>7. /\ Len(acted) \in Nat /\ DOMAIN acted = 1..Len(acted)
          /\ acted' \in Seq(Frames) /\ Len(acted') = n
          /\ \A i \in 1..Len(acted) : acted'[i] = acted[i]
          /\ acted'[n] = frame
      BY <1>1, <2>2, <2>3, AppendProperties
    <2>8. DOMAIN acted' = 1..n /\ 1..n = (1..Len(acted)) \cup {n} /\ n \notin 1..Len(acted)
      BY <2>7
    <2> HIDE DEF n
    <2>9. SessionTypeOK'
      BY <1>1, <1>2, <1>3, <1>4, <2>7 DEF SessionTypeOK
    <2>10. ASSUME NEW q \in Pipelines, Whole(q)'
           PROVE  \A i \in DOMAIN acted' : acted'[i] # holds'[q].frame
      <3>1. q # p /\ Whole(q) /\ holds'[q] = holds[q]
        BY <1>5, <2>10
      <3>2. \A i \in DOMAIN acted : acted[i] # holds[q].frame
        BY <3>1 DEF SessionParts, WholeHeldOnce
      <3>3. QED BY <2>6, <2>7, <2>8, <3>1, <3>2
    <2>11. WholeHeldOnce'
      BY <1>2, <1>5, <2>10 DEF SessionParts, WholeHeldOnce
    <2>12. ActedOnce'
      <3>1. ASSUME NEW i \in DOMAIN acted'
            PROVE  \E j \in DOMAIN accepted' : accepted'[j] = [frame |-> acted'[i], broken |-> FALSE]
        <4>1. CASE i = n
          BY <1>2, <2>4, <2>7, <4>1
        <4>2. CASE i \in DOMAIN acted
          <5>1. acted'[i] = acted[i]
            BY <2>7, <4>2
          <5>2. QED BY <1>2, <4>2, <5>1 DEF SessionParts, ActedOnce
        <4>3. QED BY <2>7, <2>8, <4>1, <4>2
      <3>2. ASSUME NEW i \in DOMAIN acted', NEW j \in DOMAIN acted', acted'[i] = acted'[j]
            PROVE  i = j
        <4>1. CASE i \in DOMAIN acted /\ j \in DOMAIN acted
          <5>1. acted'[i] = acted[i] /\ acted'[j] = acted[j]
            BY <2>7, <4>1
          <5>2. QED BY <3>2, <4>1, <5>1 DEF SessionParts, ActedOnce
        <4>2. \A m \in DOMAIN acted : acted'[m] # acted'[n]
          BY <2>5, <2>7
        <4>3. CASE i = n \/ j = n
          BY <2>7, <2>8, <3>2, <4>2, <4>3
        <4>4. QED BY <2>7, <2>8, <4>1, <4>3
      <3>3. QED BY <3>1, <3>2 DEF ActedOnce
    <2>13. QED BY <1>3, <1>6, <2>9, <2>11, <2>12 DEF SessionParts
  <1>9. QED BY <1>7, <1>8

\* Every step of a session.
LEMMA SessionStep ==
    ASSUME SessionParts, [SessionNext]_sessionVars
    PROVE  SessionParts'
  <1>1. SessionTypeOK
    BY DEF SessionParts
  <1>2. ASSUME NEW p \in Pipelines, NEW stamp \in Stamps, CycleFails(p, stamp)
        PROVE  SessionParts'
    <2>1. /\ holds' = [holds EXCEPT ![p] = NoEvidence]
          /\ UNCHANGED <<halted, channelOf, cursor, stamped, accepted, served, acted>>
      BY <1>2 DEF CycleFails
    <2>2. /\ holds' \in [Pipelines -> Evidence \cup {NoEvidence}] /\ ~Whole(p)'
          /\ \A q \in Pipelines \ {p} : holds'[q] = holds[q]
      BY <2>1, Released
    <2>3. SessionTypeOK'
      BY <1>1, <2>1, <2>2 DEF SessionTypeOK
    <2>4. QED BY <2>1, <2>2, <2>3, NothingWholeTaken
  <1>3. ASSUME NEW id \in CycleIds, NEW stamp \in Stamps, CycleOfCaller(id, stamp)
        PROVE  SessionParts'
    <2>1. /\ FreshCycle(id, stamp) /\ Finish(id, stamp)
          /\ UNCHANGED <<halted, channelOf, holds, accepted, acted>>
      BY <1>3 DEF CycleOfCaller
    <2>2. id \in Int /\ stamp \in Int
      BY SessionAssumption
    <2>3. /\ served' \in Seq(Int \X Int) /\ cursor' \in Int /\ stamped' \in Int
          /\ ServedBehind' /\ ServedAscends'
      BY <2>1, <2>2, ServedKeeps
    <2>4. SessionTypeOK'
      BY <1>1, <2>1, <2>3 DEF SessionTypeOK
    <2>5. ChannelLeads' /\ WholeHeldOnce' /\ FramesAscend' /\ ActedOnce'
      BY <2>1 DEF SessionParts, ChannelLeads, WholeHeldOnce, Whole, FramesAscend, ActedOnce
    <2>6. QED BY <2>3, <2>4, <2>5 DEF SessionParts
  <1>4. ASSUME SetHalted \/ UNCHANGED sessionVars PROVE SessionParts'
    <2>1. /\ halted' \in BOOLEAN
          /\ UNCHANGED <<channelOf, cursor, stamped, holds, accepted, served, acted>>
      BY <1>1, <1>4 DEF SetHalted, sessionVars, SessionTypeOK
    <2>2. SessionTypeOK'
      BY <1>1, <2>1 DEF SessionTypeOK
    <2>3. /\ ChannelLeads' /\ WholeHeldOnce' /\ FramesAscend' /\ ActedOnce'
          /\ ServedBehind' /\ ServedAscends'
      BY <2>1 DEF SessionParts, ChannelLeads, WholeHeldOnce, Whole, FramesAscend, ActedOnce,
                  ServedBehind, ServedAscends
    <2>4. QED BY <2>2, <2>3 DEF SessionParts
  <1>5. QED BY <1>2, <1>3, <1>4, StreamStep, PipelineCycles DEF SessionNext

\* Whatever callers claim and however their pipelines interleave, the stream takes each
\* frame once, and a cycle acts once at most on a frame that was taken whole
\* (wnfs.py:143-150, unified_runtime.py:145-153).
THEOREM FramesOnce == SessionSpec => []FramesActedOnOnce
  <1>1. SessionInit => SessionParts
    <2> SUFFICES ASSUME SessionInit PROVE SessionParts
      OBVIOUS
    <2>1. /\ accepted = <<>> /\ served = <<>> /\ acted = <<>> /\ channelOf = <<>>
          /\ holds = [p \in Pipelines |-> NoEvidence] /\ halted = FALSE /\ cursor = -1 /\ stamped = -1
      BY DEF SessionInit
    <2>2. DOMAIN accepted = {} /\ DOMAIN served = {} /\ DOMAIN acted = {}
      BY <2>1
    <2>3. /\ channelOf \in Seq(Channel) /\ accepted \in Seq(Taken)
          /\ served \in Seq(Int \X Int) /\ acted \in Seq(Frames)
      BY <2>1, EmptySeq
    <2>4. SessionTypeOK
      <3>1. holds \in [Pipelines -> Evidence \cup {NoEvidence}]
        BY <2>1
      <3>2. halted \in BOOLEAN /\ cursor \in Int /\ stamped \in Int
        <4>1. -1 \in Int
          BY SMT
        <4>2. halted = FALSE /\ cursor = -1 /\ stamped = -1
          BY <2>1
        <4>3. QED BY <4>1, <4>2
      <3>3. QED BY <2>3, <3>1, <3>2 DEF SessionTypeOK
    <2>5. \A p \in Pipelines : ~Whole(p)
      BY <2>1 DEF Whole
    <2>6. ChannelLeads /\ ServedBehind /\ FramesAscend /\ ActedOnce /\ ServedAscends
      BY <2>2 DEF ChannelLeads, ServedBehind, FramesAscend, ActedOnce, ServedAscends
    <2>7. WholeHeldOnce
      BY <2>5 DEF WholeHeldOnce
    <2>8. QED BY <2>4, <2>6, <2>7 DEF SessionParts
  <1>2. SessionParts /\ [SessionNext]_sessionVars => SessionParts'
    BY SessionStep
  <1>3. SessionParts => FramesActedOnOnce
    BY PartsMean DEF SessionParts
  <1>4. QED BY <1>1, <1>2, <1>3, PTL DEF SessionSpec
=============================================================================
