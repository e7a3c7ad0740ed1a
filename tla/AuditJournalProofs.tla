-------------------------- MODULE AuditJournalProofs --------------------------
(***************************************************************************)
(* Proofs about AuditJournal, for any loggers, decisions and limits, and    *)
(* every deployment in which the journal can be relied on: whatever is      *)
(* torn, fails, is killed or loses power, the journal stays readable, an    *)
(* open logger's trail is the journal, no record that was reported is lost, *)
(* and the CSV is derived from it.                                          *)
(***************************************************************************)
EXTENDS AuditJournal, SequenceTheorems, TLAPS

USE DEF Goto, May

-----------------------------------------------------------------------------
(* The deployments.                                                         *)

\* One logger at most uses the journal.
Alone(d) == \A i, j \in d.loggers : i = j

\* What the code needs of its surroundings. The emptiness of a journal is judged
\* before the flock, and only a CSV with contents stops a logger that has judged
\* too early: with several loggers nothing may keep a CSV from getting its first
\* line. The rows of an old CSV are not to be lost. And the directory entry lasts
\* if fsync persists it, or no power fails, or the one that creates the file gets
\* through open.
Sound(d) ==
  /\ Alone(d) \/ d.legacy \/ {"csv", "kill"} \cap d.faults = {}
  /\ d.legacy => "power" \notin d.faults
  /\ \/ d.persists \/ "power" \notin d.faults
     \/ Alone(d) /\ {"io", "kill"} \cap d.faults = {}

-----------------------------------------------------------------------------
(* The inductive invariant.                                                 *)

Open == {"ready", "written", "export"}
Holding == {"new", "header", "dir", "csv"} \cup Open

\* Item k is what a reader that has accepted the items before it accepts.
GoodAt(items, k) ==
  IF k = 1 THEN items[k] = Header
  ELSE items[k] # Torn /\ Len(items[k]) = k - 1 /\ Front(items[k]) = items[k - 1]

\* Such items, but for a torn one at the end.
WellFormed(items) ==
  \A k \in 1..Len(items) : GoodAt(items, k) \/ (k = Len(items) /\ items[k] = Torn)

\* No records yet.
Blank(items) == items \in {<<>>, <<Header>>, <<Torn>>}

Begins(s, t) == Len(s) <= Len(t) /\ \A k \in 1..Len(s) : s[k] = t[k]

\* The flock is held exactly by the one that is past it, and only loggers of the
\* deployment are anywhere.
FlockHeld ==
  /\ \A i \in Loggers : pc[i] \in Holding <=> holder = i
  /\ \A i \in Loggers : pc[i] # "closed" => i \in deployment.loggers

\* The journal is readable and below the limit; stable storage has a prefix of it,
\* unless a logger that wrongly took it for new has torn the header.
FilesAgree ==
  /\ WellFormed(file) /\ Bytes(file) <= Limit
  /\ Begins(disk, file) \/ (disk = <<Header>> /\ file = <<Torn>>)

\* What a logger may rely on where it is.
KnowsFile(i) ==
  /\ pc[i] \in {"looked", "opened", "new", "header", "dir"} => trail[i] = <<>>
  /\ pc[i] = "new" => Blank(file) /\ disk # <<Torn>>
  /\ pc[i] \in {"header", "dir"} => file = <<Header>>
  /\ pc[i] = "dir" => disk = file
  /\ pc[i] \in {"csv", "ready", "export"} => Replayable(file) /\ Last(file) = trail[i]
  /\ pc[i] = "export" => disk = file /\ trail[i] # <<>>
  /\ pc[i] = "written" =>
       Replayable(file) /\ Len(file) = Len(trail[i]) + 2 /\ Begins(disk, Front(file))

\* A logger that saw the journal empty before it had the flock is right about it,
\* or finds a CSV with contents.
SeenEmpty ==
  \A i \in Loggers : pc[i] = "opened" /\ sawEmpty[i] =>
    /\ disk # <<Torn>>
    /\ Alone(deployment) => file = <<>>
    /\ Blank(file) \/ csv # <<>> \/ \E h \in Loggers : pc[h] \in Open /\ buf[h] # <<>>

\* The directory entry is there as long as the journal is, and lasts once there
\* are records.
EntryKept ==
  /\ entry = "none" =>
       /\ file = <<>> /\ disk = <<>>
       /\ \A i \in Loggers : pc[i] \in {"closed", "looked"} /\ (pc[i] = "looked" => ~existed[i])
  /\ journalled # {} \/ (\E i \in Loggers : pc[i] = "export") =>
       entry = "durable" \/ ~May("power")
  /\ ~deployment.persists /\ May("power") =>
       /\ entry # "durable" => csv = <<>>
       /\ entry = "cached" => \E i \in Loggers :
            /\ ~existed[i]
            /\ pc[i] \in {"new", "header", "dir"} \/ (pc[i] = "opened" /\ sawEmpty[i])

\* What was reported is durable, and an open logger's trail covers it.
ReportsKept ==
  /\ journalled \subseteq Records(disk)
  /\ \A i \in Loggers : \A r \in journalled :
       /\ pc[i] \in {"csv", "ready", "written"} => Len(r) <= Len(trail[i])
       /\ pc[i] = "export" => Len(r) < Len(trail[i])

\* The CSV has rows of what was reported, in order; what an open logger has not
\* flushed is a header, or after a failure one more row.
CsvDerived ==
  /\ \A k \in 1..Len(csv) : csv[k] = Header \/ csv[k] \in journalled
  /\ \A j, k \in 1..Len(csv) : j < k /\ csv[j] # Header /\ csv[k] # Header => Len(csv[j]) < Len(csv[k])

BufferShape(i) ==
  /\ pc[i] \in Open \/ buf[i] = <<>>
  /\ pc[i] \in Open => csv # <<>> \/ buf[i] # <<>>
  /\ csvOk[i] => buf[i] \in {<<>>, <<Header>>}
  /\ ~csvOk[i] => \E r \in journalled :
       /\ buf[i] \in {<<r>>, <<Header, r>>}
       /\ \A k \in 1..Len(csv) : csv[k] # Header => Len(csv[k]) < Len(r)

LegacyKept ==
  deployment.legacy =>
    /\ csv = <<Legacy>> /\ file = <<>> /\ disk = <<>> /\ journalled = {}
    /\ \A i \in Loggers : pc[i] \in {"closed", "looked", "opened"} /\ buf[i] = <<>>

AuditInv ==
  /\ AuditTypeOK /\ Sound(deployment)
  /\ FlockHeld /\ FilesAgree
  /\ \A i \in Loggers : KnowsFile(i) /\ BufferShape(i)
  /\ SeenEmpty /\ EntryKept /\ ReportsKept
  /\ LegacyKept /\ (~deployment.legacy => CsvDerived)

-----------------------------------------------------------------------------
(* Sequences of items.                                                      *)

\* A torn item is no record, and an old CSV's rows are none.
LEMMA NoRecord ==
  /\ Torn \notin Chain /\ Torn # Header /\ Legacy \notin Chain /\ Legacy # Header
  /\ Header \in Chain /\ Header \in Item /\ Torn \in Item
<1>1. \A s \in Chain : Len(s) >= 1 => s[1] \in Decisions
  BY DEF Chain
<1>2. /\ Len(Torn) = 1 /\ Torn[1] = "torn" /\ Len(Legacy) = 1 /\ Legacy[1] = "legacy"
      /\ Len(Header) = 0
  BY DEF Torn, Legacy, Header
<1>3. Header \in Chain
  BY DEF Header, Chain
<1>4. QED BY <1>1, <1>2, <1>3, AuditAssumption DEF Item

\* A journal that open accepts consists of good items, and is readable.
LEMMA ReplayableMeans ==
  ASSUME NEW items \in Seq(Item)
  PROVE  /\ Replayable(items) <=>
              items # <<>> /\ \A k \in 1..Len(items) : GoodAt(items, k)
         /\ Replayable(items) => WellFormed(items)
         /\ WellFormed(items) /\ items # <<>> /\ items[Len(items)] # Torn => Replayable(items)
<1>1. Len(items) \in Nat /\ (items # <<>> => Len(items) >= 1)
  OBVIOUS
<1>2. ASSUME Replayable(items) PROVE \A k \in 1..Len(items) : GoodAt(items, k)
  BY <1>1, <1>2 DEF Replayable, GoodAt
<1>3. ASSUME items # <<>>, \A k \in 1..Len(items) : GoodAt(items, k) PROVE Replayable(items)
  BY <1>1, <1>3 DEF Replayable, GoodAt
<1>4. ASSUME WellFormed(items), items # <<>>, items[Len(items)] # Torn
      PROVE  \A k \in 1..Len(items) : GoodAt(items, k)
  BY <1>1, <1>4 DEF WellFormed
<1>5. Replayable(items) => items # <<>>
  BY DEF Replayable
<1>6. QED BY <1>2, <1>3, <1>4, <1>5 DEF WellFormed

\* A replayable journal's items are records with their ids.
LEMMA ReplayableItems ==
  ASSUME NEW items \in Seq(Item), Replayable(items)
  PROVE  /\ Len(items) \in Nat \ {0}
         /\ \A k \in 1..Len(items) : items[k] \in Chain /\ Len(items[k]) = k - 1
         /\ Last(items) = items[Len(items)] /\ Last(items) \in Chain
         /\ Len(Last(items)) = Len(items) - 1
         /\ items[1] = Header
<1>1. items # <<>> /\ \A k \in 1..Len(items) : GoodAt(items, k)
  BY ReplayableMeans
<1>2. Len(items) \in Nat \ {0} /\ \A k \in 1..Len(items) : items[k] \in Item
  BY <1>1
<1>3. Len(Header) = 0
  BY DEF Header
<1>4. ASSUME NEW k \in 1..Len(items) PROVE items[k] \in Chain /\ Len(items[k]) = k - 1
  <2>1. CASE k = 1
    BY <1>1, <1>3, <2>1, NoRecord DEF GoodAt
  <2>2. CASE k # 1
    BY <1>1, <1>2, <2>2 DEF GoodAt, Item
  <2>3. QED BY <2>1, <2>2
<1>5. items[1] = Header
  BY <1>1, <1>2 DEF GoodAt
<1>6. Last(items) = items[Len(items)]
  BY DEF Last
<1>7. QED BY <1>2, <1>4, <1>5, <1>6

\* The record that logDecision makes of a decision.
LEMMA NewRecord ==
  ASSUME NEW c \in Chain, NEW d \in Decisions
  PROVE  /\ Append(c, d) \in Chain /\ Append(c, d) # Torn /\ Append(c, d) # Header
         /\ Len(Append(c, d)) = Len(c) + 1 /\ Front(Append(c, d)) = c
<1> DEFINE r == Append(c, d)
<1>1. /\ r \in Seq(Decisions) /\ Len(r) = Len(c) + 1 /\ Len(c) \in Nat
      /\ \A i \in 1..Len(c) : r[i] = c[i]
  BY DEF Chain
<1>2. SubSeq(r, 1, Len(r) - 1) = c
  <2>1. \A i \in 1..Len(c) : r[i] \in Decisions
    BY <1>1 DEF Chain
  <2>2. /\ SubSeq(r, 1, Len(c)) \in Seq(Decisions) /\ Len(SubSeq(r, 1, Len(c))) = Len(c)
        /\ \A i \in 1..Len(c) : SubSeq(r, 1, Len(c))[i] = r[i]
    BY <1>1, <2>1
  <2>3. SubSeq(r, 1, Len(c)) = c
    BY <1>1, <2>2, SeqEqual DEF Chain
  <2>4. QED BY <1>1, <2>3
<1>3. QED BY <1>1, <1>2, NoRecord DEF Front, Chain, Header

\* Appending the next record keeps a journal replayable, and a torn item readable.
LEMMA AppendItem ==
  ASSUME NEW items \in Seq(Item), Replayable(items)
  PROVE  /\ WellFormed(Append(items, Torn))
         /\ \A d \in Decisions : LET new == Append(items, Append(Last(items), d))
                                 IN  new \in Seq(Item) /\ Replayable(new)
<1>1. /\ Len(items) \in Nat \ {0} /\ Last(items) = items[Len(items)]
      /\ Last(items) \in Chain /\ Len(Last(items)) = Len(items) - 1
  BY ReplayableItems
<1>2. \A k \in 1..Len(items) : GoodAt(items, k)
  BY ReplayableMeans
<1>3. ASSUME NEW x \in Item
      PROVE  /\ Append(items, x) \in Seq(Item) /\ Len(Append(items, x)) = Len(items) + 1
             /\ Append(items, x)[Len(items) + 1] = x
             /\ \A k \in 1..Len(items) : GoodAt(Append(items, x), k)
  <2>1. \A k \in 1..Len(items) : Append(items, x)[k] = items[k]
    OBVIOUS
  <2>2. \A k \in 1..Len(items) : k # 1 => k - 1 \in 1..Len(items)
    BY <1>1
  <2>3. QED BY <1>1, <1>2, <2>1, <2>2 DEF GoodAt
<1>4. WellFormed(Append(items, Torn))
  BY <1>1, <1>3, NoRecord DEF WellFormed
<1>5. ASSUME NEW d \in Decisions
      PROVE  /\ Append(items, Append(Last(items), d)) \in Seq(Item)
             /\ Replayable(Append(items, Append(Last(items), d)))
  <2> DEFINE r == Append(Last(items), d)
  <2>1. r \in Item /\ r # Torn /\ Len(r) = Len(items) /\ Front(r) = items[Len(items)]
    BY <1>1, NewRecord DEF Item
  <2> HIDE DEF r
  <2>2. Append(items, r)[Len(items)] = items[Len(items)]
    BY <1>1, <2>1
  <2>3. GoodAt(Append(items, r), Len(items) + 1)
    BY <1>1, <1>3, <2>1, <2>2 DEF GoodAt
  <2>4. \A k \in 1..Len(Append(items, r)) : GoodAt(Append(items, r), k)
    BY <1>1, <1>3, <2>1, <2>3
  <2>5. Append(items, r) \in Seq(Item) /\ Append(items, r) # <<>>
    BY <1>1, <1>3, <2>1
  <2>6. QED BY <2>4, <2>5, ReplayableMeans DEF r
<1>6. QED BY <1>4, <1>5

\* What is left of a readable journal when it is cut short is readable, also with
\* a torn item behind it.
LEMMA CutShort ==
  ASSUME NEW items \in Seq(Item), WellFormed(items), NEW n \in 0..Len(items)
  PROVE  LET cut == SubSeq(items, 1, n)
         IN  /\ cut \in Seq(Item) /\ Len(cut) = n /\ \A k \in 1..n : cut[k] = items[k]
             /\ WellFormed(cut)
             /\ n < Len(items) => /\ cut = <<>> \/ Replayable(cut)
                                  /\ WellFormed(Append(cut, Torn))
<1> DEFINE cut == SubSeq(items, 1, n)
<1>1. cut \in Seq(Item) /\ Len(cut) = n /\ \A k \in 1..n : cut[k] = items[k]
  OBVIOUS
<1> HIDE DEF cut
<1>2. \A k \in 1..n : GoodAt(items, k) => GoodAt(cut, k)
  BY <1>1 DEF GoodAt
<1>3. \A k \in 1..n : k < Len(items) => GoodAt(items, k)
  BY DEF WellFormed
<1>4. WellFormed(cut)
  BY <1>1, <1>2 DEF WellFormed
<1>5. ASSUME n < Len(items) PROVE cut = <<>> \/ Replayable(cut)
  <2>1. \A k \in 1..Len(cut) : GoodAt(cut, k)
    BY <1>1, <1>2, <1>3, <1>5
  <2>2. QED BY <1>1, <2>1, ReplayableMeans
<1>6. ASSUME n < Len(items) PROVE WellFormed(Append(cut, Torn))
  <2>1. CASE cut = <<>>
    <3>1. Append(cut, Torn) = <<Torn>>
      BY <2>1
    <3>2. QED BY <3>1 DEF WellFormed
  <2>2. QED BY <1>1, <1>5, <1>6, <2>1, AppendItem
<1>7. QED BY <1>1, <1>4, <1>5, <1>6 DEF cut

\* Beginnings have fewer records, and blank journals none.
LEMMA RecordsOf ==
  /\ \A s, t \in Seq(Item) : Begins(s, t) => Records(s) \subseteq Records(t)
  /\ \A s \in Seq(Item) : Blank(s) => Records(s) = {} /\ Len(s) <= 1 /\ WellFormed(s)
  /\ \A s \in Seq(Item) : Begins(s, s)
<1>1. ASSUME NEW s \in Seq(Item), NEW t \in Seq(Item), Begins(s, t)
      PROVE  Records(s) \subseteq Records(t)
  <2>1. \A k \in 1..Len(s) : k \in 1..Len(t) /\ s[k] = t[k]
    BY <1>1 DEF Begins
  <2>2. QED BY <2>1 DEF Records
<1>2. ASSUME NEW s \in Seq(Item), Blank(s) PROVE Records(s) = {} /\ Len(s) <= 1 /\ WellFormed(s)
  <2>1. CASE s = <<>>
    BY <2>1 DEF Records, WellFormed
  <2>2. CASE s = <<Header>>
    BY <2>2 DEF Records, WellFormed, GoodAt
  <2>3. CASE s = <<Torn>>
    BY <2>3 DEF Records, WellFormed
  <2>4. QED BY <1>2, <2>1, <2>2, <2>3 DEF Blank
<1>3. \A s \in Seq(Item) : Begins(s, s)
  BY DEF Begins
<1>4. QED BY <1>1, <1>2, <1>3

\* A shorter file has fewer bytes, and one with at most a header is below the limit.
LEMMA BytesOf ==
  /\ \A s, t \in Seq(Item) : Len(s) <= Len(t) => Bytes(s) <= Bytes(t)
  /\ \A s \in Seq(Item) : Len(s) <= 1 => Bytes(s) <= Limit
  /\ \A s \in Seq(Item) : Bytes(s) \in Int
<1>1. ASSUME NEW a \in Nat, NEW b \in Nat, a <= b
      PROVE  RecordBytes * (a - 1) <= RecordBytes * (b - 1)
  <2>1. RecordBytes \in Nat
    BY AuditAssumption
  <2>2. PICK e \in Nat : b = a + e
    <3>1. b - a \in Nat /\ b = a + (b - a)
      BY <1>1
    <3>2. QED BY <3>1
  <2>3. RecordBytes * (b - 1) = RecordBytes * (a - 1) + RecordBytes * e /\ RecordBytes * e >= 0
    BY <2>1, <2>2
  <2>4. QED BY <2>1, <2>3
<1>2. \A s \in Seq(Item) : Len(s) \in Nat
  OBVIOUS
<1>3. \A s \in Seq(Item) : RecordBytes * (Len(s) - 1) \in Int /\ HeaderBytes \in Nat
  BY <1>2, AuditAssumption
<1>4. \A s, t \in Seq(Item) : Len(s) <= Len(t) => Bytes(s) <= Bytes(t)
  BY <1>1, <1>2, <1>3 DEF Bytes
<1>5. ASSUME NEW s \in Seq(Item), Len(s) <= 1 PROVE Bytes(s) <= Limit
  <2>1. RecordBytes * (Len(s) - 1) <= RecordBytes * (1 - 1)
    BY <1>1, <1>2, <1>5
  <2>2. RecordBytes * (1 - 1) = 0
    BY AuditAssumption
  <2>3. QED BY <1>3, <2>1, <2>2, AuditAssumption DEF Bytes
<1>6. \A s \in Seq(Item) : Bytes(s) \in Int
  BY <1>3 DEF Bytes
<1>7. QED BY <1>4, <1>5, <1>6

\* The capacity check of logDecision leaves room for the record.
LEMMA RoomIsEnough ==
  ASSUME NEW items \in Seq(Item), NEW n \in Nat, n + 1 <= (Limit - Margin) \div RecordBytes,
         Len(items) <= n + 2
  PROVE  Bytes(items) <= Limit
<1>1. RecordBytes \in Nat \ {0} /\ Limit - Margin \in Nat /\ HeaderBytes \in Nat /\ HeaderBytes <= Margin
      /\ Limit \in Nat /\ Margin \in Nat /\ Len(items) \in Nat
  BY AuditAssumption
<1>2. \A m \in Nat, r \in Nat \ {0} : r * (m \div r) <= m /\ m \div r \in Nat
  OBVIOUS
<1>3. ASSUME NEW a \in Int, NEW b \in Nat, a <= b PROVE RecordBytes * a <= RecordBytes * b
  <2>1. PICK e \in Nat : b = a + e
    <3>1. b - a \in Nat /\ b = a + (b - a)
      BY <1>3
    <3>2. QED BY <3>1
  <2>2. RecordBytes * b = RecordBytes * a + RecordBytes * e /\ RecordBytes * e >= 0
    BY <1>1, <2>1
  <2>3. QED BY <1>1, <2>2
<1>4. RecordBytes * (Len(items) - 1) <= RecordBytes * ((Limit - Margin) \div RecordBytes)
  BY <1>1, <1>2, <1>3
<1>5. RecordBytes * ((Limit - Margin) \div RecordBytes) <= Limit - Margin
  BY <1>1, <1>2
<1>6. /\ RecordBytes * (Len(items) - 1) \in Int
      /\ RecordBytes * ((Limit - Margin) \div RecordBytes) \in Int
  BY <1>1, <1>2
<1>7. QED BY <1>1, <1>4, <1>5, <1>6 DEF Bytes

\* What a power failure leaves of a file that stable storage has a beginning of:
\* a part of it that is no shorter than that beginning, perhaps with a torn item
\* behind it.
LEMMA SurvivorsOfPrefix ==
  ASSUME file \in Seq(Item), disk \in Seq(Item), Begins(disk, file), NEW f \in Survivors
  PROVE  \/ \E m \in Len(disk)..Len(file) : f = SubSeq(file, 1, m)
         \/ \E m \in Len(disk)..(Len(file) - 1) : f = Append(SubSeq(file, 1, m), Torn)
<1>0. /\ Len(disk) \in Nat /\ Len(file) \in Nat /\ Len(disk) <= Len(file)
      /\ \A k \in 1..Len(disk) : disk[k] = file[k]
  BY DEF Begins
<1> DEFINE Mixed(n) == SubSeq(file, 1, n) \o SubSeq(disk, n + 1, Len(disk))
<1>1. ASSUME NEW n \in 0..Len(file)
      PROVE  /\ n <= Len(disk) => Mixed(n) = SubSeq(file, 1, Len(disk))
             /\ n > Len(disk) => Mixed(n) = SubSeq(file, 1, n)
  <2> DEFINE a == SubSeq(file, 1, n)
             b == SubSeq(disk, n + 1, Len(disk))
             c == SubSeq(file, 1, Len(disk))
  <2>1. a \in Seq(Item) /\ Len(a) = n /\ \A k \in 1..n : a[k] = file[k]
    BY <1>0
  <2>2. ASSUME n <= Len(disk) PROVE Mixed(n) = c
    <3>1. /\ b \in Seq(Item) /\ Len(b) = Len(disk) - n
          /\ \A k \in 1..(Len(disk) - n) : b[k] = disk[n + k]
      BY <1>0, <2>2
    <3>2. c \in Seq(Item) /\ Len(c) = Len(disk) /\ \A k \in 1..Len(disk) : c[k] = file[k]
      BY <1>0
    <3> HIDE DEF a, b, c
    <3>3. /\ a \o b \in Seq(Item) /\ Len(a \o b) = Len(disk)
          /\ \A k \in 1..Len(disk) : (a \o b)[k] = IF k <= n THEN a[k] ELSE b[k - n]
      BY <1>0, <2>1, <3>1, ConcatProperties
    <3>4. ASSUME NEW k \in 1..Len(disk) PROVE (a \o b)[k] = c[k]
      <4>1. CASE k <= n
        BY <1>0, <2>1, <3>2, <3>3, <4>1
      <4>2. CASE ~(k <= n)
        <5>1. k - n \in 1..(Len(disk) - n) /\ n + (k - n) = k
          BY <1>0, <4>2
        <5>2. b[k - n] = disk[k]
          BY <3>1, <5>1
        <5>3. QED BY <1>0, <3>2, <3>3, <4>2, <5>2
      <4>3. QED BY <4>1, <4>2
    <3>5. a \o b = c
      BY <3>2, <3>3, <3>4, SeqEqual
    <3>6. QED BY <3>5 DEF a, b
  <2>3. ASSUME n > Len(disk) PROVE Mixed(n) = a
    <3>1. b = <<>>
      BY <1>0, <2>3, SubSeqEmpty
    <3>2. QED BY <2>1, <3>1, ConcatEmptySeq
  <2>4. QED BY <2>2, <2>3
<1>2. \/ \E n \in 0..Len(file) : f = Mixed(n)
      \/ \E n \in 1..Len(file) : /\ n > Len(disk) \/ file[n] # disk[n]
                                 /\ f = Put(Mixed(n - 1), n, Torn)
  BY Zenon DEF Survivors
<1> HIDE DEF Mixed
<1>3. ASSUME NEW n \in 0..Len(file), f = Mixed(n)
      PROVE  \E m \in Len(disk)..Len(file) : f = SubSeq(file, 1, m)
  <2>1. CASE n <= Len(disk)
    BY <1>0, <1>1, <1>3, <2>1
  <2>2. CASE n > Len(disk)
    BY <1>0, <1>1, <1>3, <2>2
  <2>3. QED BY <1>0, <2>1, <2>2
<1>4. ASSUME NEW n \in 1..Len(file), n > Len(disk) \/ file[n] # disk[n], f = Put(Mixed(n - 1), n, Torn)
      PROVE  \E m \in Len(disk)..(Len(file) - 1) : f = Append(SubSeq(file, 1, m), Torn)
  <2>1. n > Len(disk)
    BY <1>0, <1>4
  <2>2. n - 1 \in Len(disk)..(Len(file) - 1) /\ n - 1 \in 0..Len(file)
    BY <1>0, <2>1
  <2>3. Mixed(n - 1) = SubSeq(file, 1, n - 1)
    <3>1. CASE n - 1 = Len(disk)
      BY <1>0, <1>1, <2>2, <3>1
    <3>2. CASE n - 1 > Len(disk)
      BY <1>1, <2>2, <3>2
    <3>3. QED BY <1>0, <2>2, <3>1, <3>2
  <2>4. Len(SubSeq(file, 1, n - 1)) = n - 1
    BY <1>0, <2>2
  <2>5. f = Append(SubSeq(file, 1, n - 1), Torn)
    BY <1>4, <2>3, <2>4 DEF Put
  <2>6. QED BY <2>2, <2>5
<1>5. QED BY <1>2, <1>3, <1>4

\* What a power failure leaves of a journal without records has none.
LEMMA SurvivorsOfBlank ==
  ASSUME Blank(disk), Blank(file), NEW f \in Survivors
  PROVE  Blank(f)
<1> DEFINE Mixed(n) == SubSeq(file, 1, n) \o SubSeq(disk, n + 1, Len(disk))
<1>0. /\ disk \in Seq(Item) /\ file \in Seq(Item)
      /\ Len(disk) \in Nat /\ Len(disk) <= 1 /\ Len(file) \in Nat /\ Len(file) <= 1
  <2>1. \A x \in Item : <<x>> \in Seq(Item) /\ Len(<<x>>) \in Nat /\ Len(<<x>>) <= 1
    OBVIOUS
  <2>2. <<>> \in Seq(Item) /\ Len(<<>>) \in Nat /\ Len(<<>>) <= 1
    OBVIOUS
  <2>3. ASSUME NEW s, Blank(s) PROVE s \in Seq(Item) /\ Len(s) \in Nat /\ Len(s) <= 1
    <3>1. s = <<>> \/ s = <<Header>> \/ s = <<Torn>>
      BY <2>3 DEF Blank
    <3>2. QED BY <2>1, <2>2, <3>1, NoRecord, Zenon
  <2>4. QED BY <2>3
<1>1. Mixed(0) = disk
  <2>1. SubSeq(file, 1, 0) = <<>>
    BY SubSeqEmpty
  <2>2. SubSeq(disk, 0 + 1, Len(disk)) = disk
    BY <1>0, SubSeqFull
  <2>3. QED BY <1>0, <2>1, <2>2, ConcatEmptySeq
<1>2. Len(file) = 1 => Mixed(1) = file
  <2>1. SubSeq(disk, 1 + 1, Len(disk)) = <<>>
    <3>1. Len(disk) < 2
      BY <1>0
    <3>2. SubSeq(disk, 2, Len(disk)) = <<>>
      BY <1>0, <3>1, SubSeqEmpty
    <3>3. QED BY <3>2
  <2>2. Len(file) = 1 => SubSeq(file, 1, 1) = file
    BY <1>0, SubSeqFull
  <2>3. QED BY <1>0, <2>1, <2>2, ConcatEmptySeq
<1>3. Blank(Put(disk, 1, Torn))
  <2>1. CASE disk = <<>>
    BY <2>1 DEF Put, Blank
  <2>2. CASE disk # <<>>
    <3>1. Len(disk) = 1 /\ 1 \in 1..Len(disk)
      BY <1>0, <2>2, EmptySeq
    <3>2. [disk EXCEPT ![1] = Torn] = <<Torn>>
      <4>1. \A e \in Item : /\ [disk EXCEPT ![1] = e] \in Seq(Item) /\ Len([disk EXCEPT ![1] = e]) = 1
                            /\ [disk EXCEPT ![1] = e][1] = e
        BY <1>0, <3>1, ExceptSeq
      <4>2. QED BY <4>1, NoRecord
    <3>3. QED BY <3>1, <3>2 DEF Put, Blank
  <2>3. QED BY <2>1, <2>2
<1>4. \/ \E n \in 0..Len(file) : f = Mixed(n)
      \/ \E n \in 1..Len(file) : f = Put(Mixed(n - 1), n, Torn)
  BY Zenon DEF Survivors
<1> HIDE DEF Mixed
<1>5. \A n \in 0..Len(file) : n = 0 \/ (n = 1 /\ Len(file) = 1)
  BY <1>0
<1>6. \A n \in 1..Len(file) : n = 1 /\ n - 1 = 0
  BY <1>0
<1>7. CASE \E n \in 0..Len(file) : f = Mixed(n)
  BY <1>1, <1>2, <1>5, <1>7
<1>8. CASE \E n \in 1..Len(file) : f = Put(Mixed(n - 1), n, Torn)
  BY <1>1, <1>3, <1>6, <1>8
<1>9. QED BY <1>4, <1>7, <1>8


-----------------------------------------------------------------------------
(* Type correctness.                                                        *)

\* A write puts an item into the journal.
LEMMA PutTypes ==
  ASSUME NEW items \in Seq(Item), NEW n \in Nat \ {0}, NEW x \in Item
  PROVE  Put(items, n, x) \in Seq(Item)
<1>1. CASE n <= Len(items)
  <2>1. n \in 1..Len(items)
    BY <1>1
  <2>2. [items EXCEPT ![n] = x] \in Seq(Item)
    BY <2>1, ExceptSeq
  <2>3. QED BY <1>1, <2>2 DEF Put
<1>2. CASE ~(n <= Len(items))
  BY <1>2 DEF Put
<1>3. QED BY <1>1, <1>2

\* Giving up on an open keeps the types.
LEMMA AbandonTypes ==
  ASSUME AuditTypeOK, NEW i \in Loggers, Abandon(i), file' \in Seq(Item), UNCHANGED <<disk, entry, csv>>
  PROVE  AuditTypeOK'
<1>1. "closed" \in Places /\ <<>> \in Chain
  BY DEF Places, Chain
<1>2. pc' \in [Loggers -> Places] /\ trail' \in [Loggers -> Chain]
  BY <1>1 DEF AuditTypeOK, Abandon
<1>3. holder' \in Loggers \cup {NoLogger}
  BY DEF AuditTypeOK, Abandon
<1>4. QED BY <1>2, <1>3 DEF AuditTypeOK, Abandon

\* So does closing.
LEMMA CloseTypes ==
  ASSUME AuditTypeOK, NEW i \in Loggers, CloseFiles(i), file' \in Seq(Item), UNCHANGED disk
  PROVE  AuditTypeOK'
<1>1. "closed" \in Places /\ <<>> \in Seq(Row)
  BY DEF Places
<1>2. csv' \in Seq(Row)
  <2>1. csv \in Seq(Row) /\ buf[i] \in Seq(Row)
    BY DEF AuditTypeOK
  <2>2. /\ csv \o buf[i] \in Seq(Row)
        /\ \A n \in 0..(Len(buf[i]) - 1) : csv \o SubSeq(buf[i], 1, n) \in Seq(Row)
    BY <2>1
  <2>3. QED BY <2>2 DEF CloseFiles, Flushed
<1>3. pc' \in [Loggers -> Places] /\ buf' \in [Loggers -> Seq(Row)] /\ csvOk' \in [Loggers -> BOOLEAN]
  BY <1>1 DEF AuditTypeOK, CloseFiles
<1>4. QED BY <1>2, <1>3 DEF AuditTypeOK, CloseFiles

\* Every step keeps the types.
LEMMA AuditTypesKept ==
  ASSUME AuditInv, [AuditNext]_auditVars
  PROVE  AuditTypeOK'
<1> USE DEF Places
<1>0. AuditTypeOK
  BY DEF AuditInv
<1>t. \A i \in Loggers : WriteAt(i) \in Nat \ {0} /\ trail[i] \in Chain
  BY <1>0 DEF AuditTypeOK, WriteAt, Chain
<1>p. \A n \in Nat \ {0} : Put(file, n, Header) \in Seq(Item) /\ Put(file, n, Torn) \in Seq(Item)
  BY <1>0, NoRecord, PutTypes DEF AuditTypeOK
<1>1. ASSUME NEW i \in Loggers, LookForJournal(i) \/ OpenFile(i) \/ LockNew(i) PROVE AuditTypeOK'
  BY <1>0, <1>1 DEF AuditTypeOK, LookForJournal, OpenFile, LockNew, fileVars
<1>2. ASSUME NEW i \in Loggers, LockRefused(i) \/ ReplayFails(i) \/ LegacyCsv(i) \/ OpenFails(i)
      PROVE  AuditTypeOK'
  BY <1>0, <1>2, AbandonTypes DEF AuditTypeOK, LockRefused, ReplayFails, LegacyCsv, OpenFails
<1>3. ASSUME NEW i \in Loggers, HeaderTorn(i) PROVE AuditTypeOK'
  BY <1>0, <1>3, <1>p, AbandonTypes DEF AuditTypeOK, HeaderTorn
<1>4. ASSUME NEW i \in Loggers, LockReplay(i) PROVE AuditTypeOK'
  <2>1. Last(file) \in Chain
    BY <1>0, <1>4, ReplayableItems DEF AuditTypeOK, LockReplay
  <2>2. QED BY <1>0, <1>4, <2>1 DEF AuditTypeOK, LockReplay
<1>5. ASSUME NEW i \in Loggers, WriteHeader(i) PROVE AuditTypeOK'
  <2>1. Put(file, 1, Header) \in Seq(Item)
    BY <1>p
  <2>2. QED BY <1>0, <1>5, <2>1 DEF AuditTypeOK, WriteHeader
<1>6. ASSUME NEW i \in Loggers, SyncHeader(i) \/ SyncDir(i) PROVE AuditTypeOK'
  BY <1>0, <1>6 DEF AuditTypeOK, SyncHeader, SyncDir, Fsync
<1>7. ASSUME NEW i \in Loggers, OpenCsv(i) PROVE AuditTypeOK'
  <2>1. <<Header>> \in Seq(Row) /\ <<>> \in Seq(Row)
    BY NoRecord DEF Row
  <2>2. QED BY <1>0, <1>7, <2>1 DEF AuditTypeOK, OpenCsv, fileVars
<1>8. ASSUME NEW i \in Loggers, NEW d \in Decisions, LogWrite(i, d) PROVE AuditTypeOK'
  <2>1. Append(trail[i], d) \in Item
    BY <1>t, NewRecord DEF Item
  <2>2. file' \in Seq(Item)
    BY <1>0, <1>8, <1>t, <2>1, PutTypes DEF AuditTypeOK, LogWrite
  <2>3. QED BY <1>0, <1>8, <2>2 DEF AuditTypeOK, LogWrite
<1>9. ASSUME NEW i \in Loggers, LogWriteFails(i) \/ LogSyncFails(i) \/ Close(i) PROVE AuditTypeOK'
  <2>1. file' \in Seq(Item) /\ disk' = disk
    BY <1>0, <1>9, <1>t, <1>p DEF AuditTypeOK, LogWriteFails, LogSyncFails, Close
  <2>2. CloseFiles(i)
    BY <1>9 DEF LogWriteFails, LogSyncFails, Close
  <2>3. QED BY <1>0, <2>1, <2>2, CloseTypes
<1>10. ASSUME NEW i \in Loggers, LogSync(i) PROVE AuditTypeOK'
  <2>1. pc[i] = "written" /\ trail' = [trail EXCEPT ![i] = file[WriteAt(i)]]
    BY <1>10 DEF LogSync
  <2>2. Replayable(file) /\ Len(file) = Len(trail[i]) + 2 /\ Len(trail[i]) \in Nat
    BY <2>1, <1>t DEF AuditInv, KnowsFile, Chain
  <2>3. file[WriteAt(i)] \in Chain
    BY <1>0, <2>2, ReplayableItems DEF AuditTypeOK, WriteAt
  <2>4. trail' \in [Loggers -> Chain]
    BY <1>0, <2>1, <2>3 DEF AuditTypeOK
  <2>5. QED BY <1>0, <1>10, <2>4 DEF AuditTypeOK, LogSync, Fsync
<1>11. ASSUME NEW i \in Loggers, ExportRow(i) \/ ExportFails(i) PROVE AuditTypeOK'
  <2>1. csv \in Seq(Row) /\ buf[i] \in Seq(Row) /\ trail[i] \in Row /\ <<>> \in Seq(Row)
    BY <1>0, <1>t DEF AuditTypeOK, Row
  <2>2. /\ Append(csv \o buf[i], trail[i]) \in Seq(Row) /\ Append(buf[i], trail[i]) \in Seq(Row)
        /\ \A n \in 0..Len(buf[i]) : csv \o SubSeq(buf[i], 1, n) \in Seq(Row)
    BY <2>1
  <2>3. csv' \in Seq(Row) /\ buf' \in [Loggers -> Seq(Row)] /\ csvOk' \in [Loggers -> BOOLEAN]
    <3>1. CASE ExportRow(i)
      BY <1>0, <2>1, <2>2, <3>1 DEF AuditTypeOK, ExportRow
    <3>2. CASE ExportFails(i)
      <4>1. \/ /\ buf' = [buf EXCEPT ![i] = Append(buf[i], trail[i])]
               /\ \E n \in 0..Len(buf[i]) : csv' = csv \o SubSeq(buf[i], 1, n)
               /\ csvOk' = [csvOk EXCEPT ![i] = FALSE]
            \/ UNCHANGED <<buf, csv, csvOk>>
        BY <1>0, <3>2 DEF AuditTypeOK, ExportFails
      <4>2. csv' \in Seq(Row)
        BY <2>1, <2>2, <4>1
      <4>3. buf' \in [Loggers -> Seq(Row)] /\ csvOk' \in [Loggers -> BOOLEAN]
        BY <1>0, <2>2, <4>1 DEF AuditTypeOK
      <4>4. QED BY <4>2, <4>3
    <3>3. QED BY <1>11, <3>1, <3>2
  <2>4. journalled' \subseteq Chain /\ pc' \in [Loggers -> Places]
    BY <1>0, <1>11, <1>t DEF AuditTypeOK, ExportRow, ExportFails
  <2>5. UNCHANGED <<deployment, file, disk, entry, holder, existed, sawEmpty, trail>>
    BY <1>11 DEF ExportRow, ExportFails
  <2>6. QED BY <1>0, <2>3, <2>4, <2>5 DEF AuditTypeOK
<1>12. ASSUME NEW i \in Loggers, Exit(i) PROVE AuditTypeOK'
  <2>1. <<>> \in Chain /\ <<>> \in Seq(Row)
    BY DEF Chain
  <2>2. QED BY <1>0, <1>12, <2>1 DEF AuditTypeOK, Exit
<1>13. ASSUME PowerLoss PROVE AuditTypeOK'
  <2>1. <<>> \in Chain /\ <<>> \in Seq(Row) /\ <<>> \in Seq(Item)
    BY DEF Chain
  <2>2. file' \in Seq(Item) /\ disk' = file'
    <3>1. CASE file' \in Survivors
      <4>1. CASE Begins(disk, file)
        <5>1. \A m \in 0..Len(file) : SubSeq(file, 1, m) \in Seq(Item) /\ Append(SubSeq(file, 1, m), Torn) \in Seq(Item)
          BY <1>0, NoRecord DEF AuditTypeOK
        <5>2. Len(disk) \in Nat /\ Len(file) \in Nat
          BY <1>0 DEF AuditTypeOK
        <5>3. \A m : m \in Len(disk)..Len(file) \/ m \in Len(disk)..(Len(file) - 1) => m \in 0..Len(file)
          BY <5>2
        <5>4. file' \in Seq(Item)
          BY <1>0, <3>1, <4>1, <5>1, <5>3, SurvivorsOfPrefix DEF AuditTypeOK
        <5>5. QED BY <1>13, <5>4 DEF PowerLoss
      <4>2. CASE disk = <<Header>> /\ file = <<Torn>>
        <5>1. Blank(file')
          BY <3>1, <4>2, SurvivorsOfBlank DEF Blank
        <5>2. \A x \in Item : <<x>> \in Seq(Item)
          OBVIOUS
        <5>3. file' \in Seq(Item)
          BY <2>1, <5>1, <5>2, NoRecord DEF Blank
        <5>4. QED BY <1>13, <5>3 DEF PowerLoss
      <4>3. QED BY <4>1, <4>2 DEF AuditInv, FilesAgree
    <3>2. QED BY <1>13, <2>1, <3>1 DEF PowerLoss
  <2>3. csv' \in Seq(Row)
    <3>1. \A n \in 0..Len(csv) : SubSeq(csv, 1, n) \in Seq(Row)
      BY <1>0 DEF AuditTypeOK
    <3>2. \E n \in 0..Len(csv) : csv' = SubSeq(csv, 1, n)
      BY <1>13 DEF PowerLoss
    <3>3. QED BY <3>1, <3>2
  <2>4. entry' \in {"none", "cached", "durable"} /\ holder' \in Loggers \cup {NoLogger}
    BY <1>0, <1>13 DEF AuditTypeOK, PowerLoss
  <2>5. QED BY <1>0, <1>13, <2>1, <2>2, <2>3, <2>4 DEF AuditTypeOK, PowerLoss
<1>14. CASE UNCHANGED auditVars
  BY <1>0, <1>14 DEF AuditTypeOK, auditVars, fileVars, loggerVars
<1>15. QED
  BY <1>1, <1>2, <1>3, <1>4, <1>5, <1>6, <1>7, <1>8, <1>9, <1>10, <1>11, <1>12, <1>13, <1>14
  DEF AuditNext, OpenSteps, LogSteps

-----------------------------------------------------------------------------
(* The other loggers.                                                       *)

\* Where one logger is past the flock no other is, so no other has lines in the
\* buffer of the CSV; and where one is, the journal has its directory entry.
LEMMA OthersIdle ==
  ASSUME AuditInv, NEW i \in Loggers, NEW j \in Loggers, j # i,
         pc[i] \in Holding \/ holder = NoLogger
  PROVE  pc[j] \notin Holding /\ pc[j] \notin Open /\ buf[j] = <<>> /\ csvOk[j] = TRUE
<1>1. pc[j] \notin Holding
  BY AuditAssumption DEF AuditInv, FlockHeld
<1>2. pc[j] \notin Open
  BY <1>1 DEF Holding
<1>3. buf[j] = <<>>
  BY <1>2 DEF AuditInv, BufferShape
<1>4. csvOk[j] \in BOOLEAN
  BY DEF AuditInv, AuditTypeOK
<1>5. \A r : <<>> # <<r>> /\ <<>> # <<Header, r>>
  OBVIOUS
<1>6. csvOk[j]
  BY <1>3, <1>5 DEF AuditInv, BufferShape
<1>7. QED BY <1>1, <1>2, <1>3, <1>4, <1>6

\* A journal that can be replayed has every reported record.
LEMMA ReportsInFile ==
  ASSUME AuditInv
  PROVE  /\ Replayable(file) =>
              Begins(disk, file) /\ \A r \in journalled : Len(r) <= Len(Last(file))
         /\ Blank(file) => journalled = {} /\ Blank(disk)
         /\ Blank(file) /\ disk # <<Torn>> => disk \in {<<>>, <<Header>>}
<1>1. file \in Seq(Item) /\ disk \in Seq(Item)
  BY DEF AuditInv, AuditTypeOK
<1>2. Begins(disk, file) \/ (disk = <<Header>> /\ file = <<Torn>>)
  BY DEF AuditInv, FilesAgree
<1>3. journalled \subseteq Records(disk)
  BY DEF AuditInv, ReportsKept
<1>4. ASSUME Replayable(file)
      PROVE  Begins(disk, file) /\ \A r \in journalled : Len(r) <= Len(Last(file))
  <2>1. \A k \in 1..Len(file) : file[k] \in Chain /\ Len(file[k]) = k - 1
    BY <1>1, <1>4, ReplayableItems
  <2>2. Len(Last(file)) = Len(file) - 1 /\ Len(file) \in Nat
    BY <1>1, <1>4, ReplayableItems
  <2>3. file # <<Torn>>
    <3>1. file = <<Torn>> => 1 \in 1..Len(file) /\ file[1] = Torn
      OBVIOUS
    <3>2. QED BY <2>1, <3>1, NoRecord
  <2>4. Records(disk) \subseteq Records(file)
    BY <1>1, <1>2, <2>3, RecordsOf
  <2>5. ASSUME NEW r \in journalled PROVE Len(r) <= Len(Last(file))
    <3>1. PICK k \in 1..Len(file) : r = file[k]
      BY <1>3, <2>4 DEF Records
    <3>2. QED BY <2>1, <2>2, <3>1
  <2>6. QED BY <1>2, <2>3, <2>5
<1>5. ASSUME Blank(file) PROVE Blank(disk)
  <2>1. CASE Begins(disk, file)
    <3>1. CASE file = <<>>
      <4>1. Len(disk) = 0
        BY <1>1, <2>1, <3>1 DEF Begins
      <4>2. disk = <<>>
        BY <1>1, <4>1, EmptySeq
      <4>3. QED BY <4>2 DEF Blank
    <3>2. ASSUME NEW x \in {Header, Torn}, file = <<x>> PROVE Blank(disk)
      <4>1. Len(disk) \in Nat /\ Len(disk) <= 1 /\ (Len(disk) = 1 => disk[1] = x)
        BY <1>1, <2>1, <3>2 DEF Begins
      <4>2. CASE Len(disk) = 0
        <5>1. disk = <<>>
          BY <1>1, <4>2, EmptySeq
        <5>2. QED BY <5>1 DEF Blank
      <4>3. CASE Len(disk) = 1
        <5>1. <<x>> \in Seq(Item) /\ Len(<<x>>) = 1 /\ <<x>>[1] = x
          BY NoRecord
        <5>2. \A k \in 1..1 : disk[k] = <<x>>[k]
          BY <4>1, <4>3, <5>1
        <5>3. disk = <<x>>
          BY <1>1, <4>3, <5>1, <5>2, SeqEqual
        <5>4. QED BY <3>2, <5>3 DEF Blank
      <4>4. Len(disk) = 0 \/ Len(disk) = 1
        BY <4>1
      <4>5. QED BY <4>2, <4>3, <4>4
    <3>3. QED BY <1>5, <3>1, <3>2 DEF Blank
  <2>2. CASE disk = <<Header>>
    BY <2>2 DEF Blank
  <2>3. QED BY <1>2, <2>1, <2>2
<1>6. ASSUME Blank(file) PROVE journalled = {}
  BY <1>1, <1>3, <1>5, <1>6, RecordsOf
<1>7. QED BY <1>4, <1>5, <1>6 DEF Blank

\* The first item of a journal without records.
LEMMA PutFirst ==
  ASSUME NEW items, Blank(items), NEW x \in {Header, Torn}
  PROVE  Put(items, 1, x) = <<x>>
<1>1. CASE items = <<>>
  BY <1>1 DEF Put
<1>2. ASSUME NEW y \in {Header, Torn}, items = <<y>> PROVE Put(items, 1, x) = <<x>>
  <2>1. items \in Seq(Item) /\ Len(items) = 1 /\ 1 \in 1..Len(items) /\ x \in Item
    BY <1>2, NoRecord
  <2>2. /\ [items EXCEPT ![1] = x] \in Seq(Item) /\ Len([items EXCEPT ![1] = x]) = 1
        /\ [items EXCEPT ![1] = x][1] = x
    BY <2>1, ExceptSeq
  <2>3. [items EXCEPT ![1] = x] = <<x>>
    BY <2>2
  <2>4. QED BY <2>1, <2>3 DEF Put
<1>3. QED BY <1>1, <1>2 DEF Blank

\* A journal of a header or a torn item.
LEMMA OneItem ==
  /\ <<Header>> \in Seq(Item) /\ <<Torn>> \in Seq(Item)
  /\ Blank(<<Header>>) /\ Blank(<<Torn>>) /\ Blank(<<>>)
  /\ WellFormed(<<Header>>) /\ WellFormed(<<Torn>>) /\ WellFormed(<<>>)
  /\ Bytes(<<Header>>) <= Limit /\ Bytes(<<Torn>>) <= Limit /\ Bytes(<<>>) <= Limit
  /\ Replayable(<<Header>>) /\ Last(<<Header>>) = <<>>
  /\ Begins(<<>>, <<Header>>) /\ Begins(<<>>, <<Torn>>) /\ Begins(<<>>, <<>>)
  /\ Begins(<<Header>>, <<Header>>)
<1>1. <<Header>> \in Seq(Item) /\ <<Torn>> \in Seq(Item) /\ <<>> \in Seq(Item)
  BY NoRecord
<1>2. Blank(<<Header>>) /\ Blank(<<Torn>>) /\ Blank(<<>>)
  BY DEF Blank
<1>3. Replayable(<<Header>>)
  <2>1. \A k \in 1..Len(<<Header>>) : GoodAt(<<Header>>, k)
    BY DEF GoodAt
  <2>2. QED BY <1>1, <2>1, ReplayableMeans
<1>4. Last(<<Header>>) = <<>>
  BY DEF Last, Header
<1>5. Begins(<<>>, <<Header>>) /\ Begins(<<>>, <<Torn>>) /\ Begins(<<>>, <<>>) /\ Begins(<<Header>>, <<Header>>)
  BY DEF Begins
<1>6. Len(<<Header>>) <= 1 /\ Len(<<Torn>>) <= 1 /\ Len(<<>>) <= 1
  OBVIOUS
<1>7. QED BY <1>1, <1>2, <1>3, <1>4, <1>5, <1>6, RecordsOf, BytesOf

\* Nobody opens a journal without its directory entry.
LEMMA HasEntry ==
  ASSUME AuditInv, NEW i \in Loggers, pc[i] \in Holding \/ pc[i] = "opened"
  PROVE  entry # "none" /\ (pc[i] \in Holding => ~deployment.legacy)
BY DEF AuditInv, EntryKept, LegacyKept, Holding, Open

-----------------------------------------------------------------------------
(* The steps of open.                                                       *)

\* Asking whether the journal exists.
LEMMA LookKeeps ==
  ASSUME AuditInv, AuditTypeOK', NEW i \in Loggers, LookForJournal(i)
  PROVE  AuditInv'
<1> USE DEF LookForJournal, fileVars
<1>1. FlockHeld' /\ FilesAgree' /\ Sound(deployment)'
  BY DEF AuditInv, AuditTypeOK, FlockHeld, FilesAgree, Holding, Open
<1>2. ASSUME NEW j \in Loggers PROVE KnowsFile(j)' /\ BufferShape(j)'
  BY DEF AuditInv, AuditTypeOK, KnowsFile, BufferShape, Open
<1>3. SeenEmpty' /\ ReportsKept'
  BY DEF AuditInv, AuditTypeOK, SeenEmpty, ReportsKept, Open
<1>4. EntryKept'
  BY DEF AuditInv, AuditTypeOK, EntryKept
<1>5. LegacyKept' /\ (~deployment'.legacy => CsvDerived')
  BY DEF AuditInv, AuditTypeOK, LegacyKept, CsvDerived
<1>6. QED BY <1>1, <1>2, <1>3, <1>4, <1>5 DEF AuditInv

\* A logger that sees the file empty has seen what is in it.
LEMMA OpenFileKeeps ==
  ASSUME AuditInv, AuditTypeOK', NEW i \in Loggers, OpenFile(i)
  PROVE  AuditInv'
<1> USE DEF OpenFile
<1>1. FlockHeld' /\ FilesAgree' /\ Sound(deployment)'
  BY DEF AuditInv, AuditTypeOK, FlockHeld, FilesAgree, Holding, Open
<1>2. ASSUME NEW j \in Loggers PROVE KnowsFile(j)' /\ BufferShape(j)'
  BY DEF AuditInv, AuditTypeOK, KnowsFile, BufferShape, Open
<1>3. SeenEmpty'
  <2>1. ASSUME NEW j \in Loggers, pc'[j] = "opened", sawEmpty'[j]
        PROVE  /\ disk' # <<Torn>>
               /\ Alone(deployment') => file' = <<>>
               /\ Blank(file') \/ csv' # <<>> \/ \E h \in Loggers : pc'[h] \in Open /\ buf'[h] # <<>>
    <3>1. CASE j = i
      <4>1. file = <<>>
        BY <2>1, <3>1 DEF AuditInv, AuditTypeOK
      <4>2. Blank(file) /\ file # <<Torn>>
        BY <4>1 DEF Blank
      <4>3. Begins(disk, file)
        BY <4>2 DEF AuditInv, FilesAgree
      <4>4. disk # <<Torn>>
        <5>1. Len(<<>>) = 0 /\ Len(<<Torn>>) = 1
          OBVIOUS
        <5>2. QED BY <4>1, <4>3, <5>1 DEF Begins
      <4>5. QED BY <4>1, <4>2, <4>4
    <3>2. CASE j # i
      <4>1. pc[j] = "opened" /\ sawEmpty[j]
        BY <2>1, <3>2 DEF AuditInv, AuditTypeOK
      <4>2. \A h \in Loggers : pc[h] \in Open => pc'[h] \in Open
        BY DEF AuditInv, AuditTypeOK, Open
      <4>3. QED BY <4>1, <4>2 DEF AuditInv, SeenEmpty
    <3>3. QED BY <3>1, <3>2
  <2>2. QED BY <2>1 DEF SeenEmpty
<1>4. EntryKept'
  <2>1. entry' # "none"
    OBVIOUS
  <2>2. journalled # {} \/ (\E j \in Loggers : pc'[j] = "export") =>
          entry' = "durable" \/ ~May("power")'
    BY DEF AuditInv, AuditTypeOK, EntryKept
  <2>3. ASSUME ~deployment.persists, May("power"), entry' # "durable" PROVE csv = <<>>
    BY <2>3 DEF AuditInv, EntryKept
  <2>4. ASSUME ~deployment.persists, May("power"), entry' = "cached"
        PROVE  \E j \in Loggers : /\ ~existed'[j]
                                  /\ \/ pc'[j] \in {"new", "header", "dir"}
                                     \/ pc'[j] = "opened" /\ sawEmpty'[j]
    <3>1. CASE entry = "none"
      <4>1. ~existed[i] /\ file = <<>>
        BY <3>1 DEF AuditInv, EntryKept
      <4>2. pc'[i] = "opened" /\ sawEmpty'[i] /\ ~existed'[i]
        BY <4>1 DEF AuditInv, AuditTypeOK
      <4>3. QED BY <4>2
    <3>2. CASE entry # "none"
      <4>1. PICK j \in Loggers : /\ ~existed[j]
                                 /\ \/ pc[j] \in {"new", "header", "dir"}
                                    \/ pc[j] = "opened" /\ sawEmpty[j]
        BY <2>4, <3>2 DEF AuditInv, EntryKept
      <4>2. j # i
        BY <4>1
      <4>3. pc'[j] = pc[j] /\ sawEmpty'[j] = sawEmpty[j] /\ existed'[j] = existed[j]
        BY <4>2 DEF AuditInv, AuditTypeOK
      <4>4. QED BY <4>1, <4>3
    <3>3. QED BY <3>1, <3>2
  <2>5. QED BY <2>1, <2>2, <2>3, <2>4 DEF EntryKept
<1>5. ReportsKept' /\ LegacyKept' /\ (~deployment'.legacy => CsvDerived')
  BY DEF AuditInv, AuditTypeOK, ReportsKept, LegacyKept, CsvDerived
<1>6. QED BY <1>1, <1>2, <1>3, <1>4, <1>5 DEF AuditInv

\* Replay takes up every reported record.
LEMMA LockReplayKeeps ==
  ASSUME AuditInv, AuditTypeOK', NEW i \in Loggers, LockReplay(i)
  PROVE  AuditInv'
<1> USE DEF LockReplay
<1>0. Replayable(file) /\ Begins(disk, file) /\ \A r \in journalled : Len(r) <= Len(Last(file))
  BY ReportsInFile
<1>1. FlockHeld' /\ FilesAgree' /\ Sound(deployment)'
  <2>1. \A j \in Loggers : pc[j] \notin Holding
    BY AuditAssumption DEF AuditInv, FlockHeld
  <2>2. \A j \in Loggers : pc'[j] \in Holding <=> j = i
    BY <2>1 DEF AuditInv, AuditTypeOK, Holding
  <2>3. FlockHeld'
    BY <2>2 DEF AuditInv, AuditTypeOK, FlockHeld
  <2>4. QED BY <2>3 DEF AuditInv, FilesAgree
<1>2. ASSUME NEW j \in Loggers PROVE KnowsFile(j)' /\ BufferShape(j)'
  BY DEF AuditInv, AuditTypeOK, KnowsFile, BufferShape, Open
<1>3. SeenEmpty' /\ EntryKept'
  BY DEF AuditInv, AuditTypeOK, SeenEmpty, EntryKept, Open
<1>4. ReportsKept'
  <2>1. \A j \in Loggers : j # i => pc'[j] = pc[j] /\ trail'[j] = trail[j]
    BY DEF AuditInv, AuditTypeOK
  <2>2. pc'[i] = "csv" /\ trail'[i] = Last(file)
    BY DEF AuditInv, AuditTypeOK
  <2>3. QED BY <1>0, <2>1, <2>2 DEF AuditInv, ReportsKept
<1>5. LegacyKept' /\ (~deployment'.legacy => CsvDerived')
  <2>1. ~deployment.legacy
    <3>1. file # <<>>
      BY <1>0 DEF Replayable
    <3>2. QED BY <3>1 DEF AuditInv, LegacyKept
  <2>2. QED BY <2>1 DEF AuditInv, LegacyKept, CsvDerived
<1>6. QED BY <1>1, <1>2, <1>3, <1>4, <1>5 DEF AuditInv

\* The CSV being empty, the journal that was judged to be new has no records.
LEMMA LockNewKeeps ==
  ASSUME AuditInv, AuditTypeOK', NEW i \in Loggers, LockNew(i)
  PROVE  AuditInv'
<1> USE DEF LockNew
<1>0. \A j \in Loggers : pc[j] \notin Holding /\ pc[j] \notin Open
  BY AuditAssumption DEF AuditInv, FlockHeld, Holding
<1>1. FlockHeld' /\ FilesAgree' /\ Sound(deployment)'
  <2>1. \A j \in Loggers : pc'[j] \in Holding <=> j = i
    BY <1>0 DEF AuditInv, AuditTypeOK, Holding
  <2>2. FlockHeld'
    BY <2>1 DEF AuditInv, AuditTypeOK, FlockHeld
  <2>3. QED BY <2>2 DEF AuditInv, FilesAgree
<1>2. ASSUME NEW j \in Loggers PROVE KnowsFile(j)' /\ BufferShape(j)'
  <2>1. Blank(file) /\ disk # <<Torn>>
    BY <1>0 DEF AuditInv, SeenEmpty
  <2>2. KnowsFile(j)'
    BY <2>1 DEF AuditInv, AuditTypeOK, KnowsFile
  <2>3. BufferShape(j)'
    BY DEF AuditInv, AuditTypeOK, BufferShape, Open
  <2>4. QED BY <2>2, <2>3
<1>3. SeenEmpty' /\ EntryKept'
  BY DEF AuditInv, AuditTypeOK, SeenEmpty, EntryKept, Open
<1>4. ReportsKept'
  BY DEF AuditInv, AuditTypeOK, ReportsKept
<1>5. LegacyKept' /\ (~deployment'.legacy => CsvDerived')
  <2>1. ~deployment.legacy
    <3>1. <<Legacy>> # <<>>
      OBVIOUS
    <3>2. QED BY <3>1 DEF AuditInv, LegacyKept
  <2>2. QED BY <2>1 DEF AuditInv, LegacyKept, CsvDerived
<1>6. QED BY <1>1, <1>2, <1>3, <1>4, <1>5 DEF AuditInv

\* The header is written over a journal without records.
LEMMA WriteHeaderKeeps ==
  ASSUME AuditInv, AuditTypeOK', NEW i \in Loggers, WriteHeader(i)
  PROVE  AuditInv'
<1> USE DEF WriteHeader
<1>0. /\ pc[i] \in Holding /\ i \in deployment.loggers /\ entry # "none" /\ ~deployment.legacy
      /\ file' = <<Header>> /\ disk \in {<<>>, <<Header>>} /\ journalled = {}
  <2>1. pc[i] \in Holding
    BY DEF Holding
  <2>2. Blank(file) /\ disk # <<Torn>>
    BY DEF AuditInv, KnowsFile
  <2>3. QED BY <2>1, <2>2, HasEntry, PutFirst, ReportsInFile DEF AuditInv, FlockHeld
<1>1. FlockHeld' /\ FilesAgree' /\ Sound(deployment)'
  <2>1. FlockHeld'
    BY DEF AuditInv, AuditTypeOK, FlockHeld, Holding, Open
  <2>2. QED BY <1>0, <2>1, OneItem DEF AuditInv, FilesAgree
<1>2. ASSUME NEW j \in Loggers PROVE KnowsFile(j)' /\ BufferShape(j)'
  <2>1. CASE j = i
    BY <1>0, <2>1 DEF AuditInv, AuditTypeOK, KnowsFile, BufferShape, Open
  <2>2. CASE j # i
    <3>1. pc'[j] = pc[j] /\ pc[j] \notin Holding
      BY <1>0, <2>2, OthersIdle DEF AuditInv, AuditTypeOK
    <3>2. QED BY <3>1 DEF AuditInv, KnowsFile, BufferShape, Holding, Open
  <2>3. QED BY <2>1, <2>2
<1>3. SeenEmpty'
  <2>1. \A j \in Loggers : pc'[j] = "opened" => pc[j] = "opened" /\ j # i /\ j \in deployment.loggers
    BY DEF AuditInv, AuditTypeOK, FlockHeld
  <2>2. QED BY <1>0, <2>1, OneItem DEF AuditInv, SeenEmpty, Alone
<1>4. EntryKept'
  BY <1>0 DEF AuditInv, AuditTypeOK, EntryKept
<1>5. ReportsKept' /\ LegacyKept' /\ (~deployment'.legacy => CsvDerived')
  BY <1>0 DEF AuditInv, AuditTypeOK, ReportsKept, LegacyKept, CsvDerived
<1>6. QED BY <1>1, <1>2, <1>3, <1>4, <1>5 DEF AuditInv

\* What the header's fsync leaves of the directory entry depends on the deployment.
LEMMA SyncHeaderKeeps ==
  ASSUME AuditInv, AuditTypeOK', NEW i \in Loggers, SyncHeader(i)
  PROVE  AuditInv'
<1> USE DEF SyncHeader, Fsync
<1>0. /\ pc[i] \in Holding /\ i \in deployment.loggers /\ entry # "none" /\ ~deployment.legacy
      /\ file = <<Header>> /\ disk' = <<Header>> /\ journalled = {} /\ trail[i] = <<>>
  <2>1. pc[i] \in Holding
    BY DEF Holding
  <2>2. file = <<Header>> /\ trail[i] = <<>>
    BY DEF AuditInv, KnowsFile
  <2>3. QED BY <2>1, <2>2, HasEntry, OneItem, ReportsInFile DEF AuditInv, FlockHeld
<1>1. FlockHeld' /\ FilesAgree' /\ Sound(deployment)'
  <2>1. FlockHeld'
    BY DEF AuditInv, AuditTypeOK, FlockHeld, Holding, Open
  <2>2. QED BY <1>0, <2>1, OneItem DEF AuditInv, FilesAgree
<1>2. ASSUME NEW j \in Loggers PROVE KnowsFile(j)' /\ BufferShape(j)'
  <2>1. CASE j = i
    <3>1. pc'[i] \in {"csv", "dir"}
      BY DEF AuditInv, AuditTypeOK
    <3>2. QED BY <1>0, <2>1, <3>1, OneItem DEF AuditInv, KnowsFile, BufferShape, Open
  <2>2. CASE j # i
    <3>1. pc'[j] = pc[j] /\ pc[j] \notin Holding
      BY <1>0, <2>2, OthersIdle DEF AuditInv, AuditTypeOK
    <3>2. entry' = "none" <=> entry = "none"
      BY <1>0
    <3>3. QED BY <3>1, <3>2 DEF AuditInv, KnowsFile, BufferShape, Holding, Open
  <2>3. QED BY <2>1, <2>2
<1>3. SeenEmpty'
  <2>1. <<Header>> # <<Torn>>
    BY NoRecord
  <2>2. \A j \in Loggers : pc'[j] = "opened" => pc[j] = "opened" /\ j # i /\ j \in deployment.loggers
    BY DEF AuditInv, AuditTypeOK, FlockHeld
  <2>3. QED BY <1>0, <2>1, <2>2, OneItem DEF AuditInv, SeenEmpty, Alone
<1>4. EntryKept'
  <2>1. entry' # "none" /\ journalled' = {} /\ \A j \in Loggers : pc'[j] # "export"
    <3>1. \A j \in Loggers : pc[j] # "export"
      BY <1>0, OthersIdle DEF Open
    <3>2. QED BY <1>0, <3>1 DEF AuditInv, AuditTypeOK
  <2>2. ASSUME ~deployment.persists, May("power")
        PROVE  /\ entry' # "durable" => csv' = <<>>
               /\ entry' = "cached" => ~existed'[i] /\ pc'[i] = "dir"
    <3>1. entry' = entry
      BY <2>2
    <3>2. entry # "durable" => csv = <<>>
      BY <2>2 DEF AuditInv, EntryKept
    <3>3. ASSUME entry = "cached" PROVE ~existed[i]
      <4>1. PICK w \in Loggers : /\ ~existed[w]
                                 /\ \/ pc[w] \in {"new", "header", "dir"}
                                    \/ pc[w] = "opened" /\ sawEmpty[w]
        BY <2>2, <3>3 DEF AuditInv, EntryKept
      <4>2. Alone(deployment) /\ w \in deployment.loggers
        BY <2>2, <4>1 DEF AuditInv, Sound, FlockHeld
      <4>3. QED BY <1>0, <4>1, <4>2 DEF Alone
    <3>4. QED BY <3>1, <3>2, <3>3 DEF AuditInv, AuditTypeOK
  <2>3. QED BY <2>1, <2>2 DEF EntryKept
<1>5. ReportsKept' /\ LegacyKept' /\ (~deployment'.legacy => CsvDerived')
  BY <1>0 DEF AuditInv, AuditTypeOK, ReportsKept, LegacyKept, CsvDerived
<1>6. QED BY <1>1, <1>2, <1>3, <1>4, <1>5 DEF AuditInv

\* The directory entry lasts.
LEMMA SyncDirKeeps ==
  ASSUME AuditInv, AuditTypeOK', NEW i \in Loggers, SyncDir(i)
  PROVE  AuditInv'
<1> USE DEF SyncDir
<1>0. /\ pc[i] \in Holding /\ ~deployment.legacy
      /\ file = <<Header>> /\ journalled = {} /\ trail[i] = <<>>
  <2>1. pc[i] \in Holding
    BY DEF Holding
  <2>2. file = <<Header>> /\ trail[i] = <<>>
    BY DEF AuditInv, KnowsFile
  <2>3. QED BY <2>1, <2>2, HasEntry, OneItem, ReportsInFile
<1>1. FlockHeld' /\ FilesAgree' /\ Sound(deployment)'
  BY DEF AuditInv, AuditTypeOK, FlockHeld, FilesAgree, Holding, Open
<1>2. ASSUME NEW j \in Loggers PROVE KnowsFile(j)' /\ BufferShape(j)'
  <2>1. CASE j = i
    <3>1. pc'[i] = "csv"
      BY DEF AuditInv, AuditTypeOK
    <3>2. QED BY <1>0, <2>1, <3>1, OneItem DEF AuditInv, KnowsFile, BufferShape, Open
  <2>2. CASE j # i
    BY <2>2 DEF AuditInv, AuditTypeOK, KnowsFile, BufferShape, Open
  <2>3. QED BY <2>1, <2>2
<1>3. SeenEmpty' /\ EntryKept'
  BY <1>0 DEF AuditInv, AuditTypeOK, SeenEmpty, EntryKept, Open
<1>4. ReportsKept' /\ LegacyKept' /\ (~deployment'.legacy => CsvDerived')
  BY <1>0 DEF AuditInv, AuditTypeOK, ReportsKept, LegacyKept, CsvDerived
<1>5. QED BY <1>1, <1>2, <1>3, <1>4 DEF AuditInv

\* An open logger has lines in the CSV or in its buffer.
LEMMA OpenCsvKeeps ==
  ASSUME AuditInv, AuditTypeOK', NEW i \in Loggers, OpenCsv(i)
  PROVE  AuditInv'
<1> USE DEF OpenCsv, fileVars
<1>0. pc[i] \in Holding /\ ~deployment.legacy /\ csvOk[i]
  <2>1. pc[i] \in Holding
    BY DEF Holding
  <2>2. buf[i] = <<>>
    BY DEF AuditInv, BufferShape, Open
  <2>3. \A r : <<>> # <<r>> /\ <<>> # <<Header, r>>
    OBVIOUS
  <2>4. csvOk[i]
    BY <2>2, <2>3 DEF AuditInv, BufferShape
  <2>5. QED BY <2>1, <2>4, HasEntry
<1>1. FlockHeld' /\ FilesAgree' /\ Sound(deployment)'
  BY DEF AuditInv, AuditTypeOK, FlockHeld, FilesAgree, Holding, Open
<1>2. ASSUME NEW j \in Loggers PROVE KnowsFile(j)' /\ BufferShape(j)'
  <2>1. KnowsFile(j)'
    BY DEF AuditInv, AuditTypeOK, KnowsFile
  <2>2. CASE j = i
    <3>1. buf'[i] = IF csv = <<>> THEN <<Header>> ELSE <<>>
      BY DEF AuditInv, AuditTypeOK
    <3>2. csv # <<>> \/ buf'[i] # <<>>
      BY <3>1
    <3>3. pc'[i] \in Open /\ csvOk'[i]
      BY <1>0 DEF AuditInv, AuditTypeOK, Open
    <3>4. QED BY <2>1, <2>2, <3>1, <3>2, <3>3 DEF BufferShape
  <2>3. CASE j # i
    <3>1. pc'[j] = pc[j] /\ buf'[j] = buf[j]
      BY <2>3 DEF AuditInv, AuditTypeOK
    <3>2. QED BY <2>1, <3>1 DEF AuditInv, BufferShape
  <2>4. QED BY <2>2, <2>3
<1>3. SeenEmpty'
  <2>1. \A h \in Loggers : pc[h] \in Open /\ buf[h] # <<>> => pc'[h] \in Open /\ buf'[h] # <<>>
    <3>1. \A h \in Loggers : h # i => pc'[h] = pc[h] /\ buf'[h] = buf[h]
      BY DEF AuditInv, AuditTypeOK
    <3>2. pc[i] \notin Open
      BY DEF Open
    <3>3. QED BY <3>1, <3>2
  <2>2. QED BY <2>1 DEF AuditInv, AuditTypeOK, SeenEmpty
<1>4. EntryKept' /\ ReportsKept'
  BY DEF AuditInv, AuditTypeOK, EntryKept, ReportsKept
<1>5. LegacyKept' /\ (~deployment'.legacy => CsvDerived')
  BY <1>0 DEF AuditInv, LegacyKept, CsvDerived
<1>6. QED BY <1>1, <1>2, <1>3, <1>4, <1>5 DEF AuditInv

-----------------------------------------------------------------------------
(* The steps of logDecision.                                                *)

\* A logger that is past the flock works for the deployment, alone on the journal.
LEMMA TheHolder ==
  ASSUME AuditInv, NEW i \in Loggers, pc[i] \in Open
  PROVE  /\ pc[i] \in Holding /\ i \in deployment.loggers /\ holder = i
         /\ entry # "none" /\ ~deployment.legacy
         /\ Len(trail[i]) \in Nat /\ trail[i] \in Chain
         /\ \A j \in Loggers : pc[j] \in Holding => j = i
         /\ Replayable(file) /\ Begins(disk, file)
         /\ csv # <<>> \/ buf[i] # <<>>
         /\ ~deployment.persists /\ May("power") => entry = "durable"
<1>1. pc[i] \in Holding
  BY DEF Holding
<1>2. i \in deployment.loggers /\ holder = i /\ \A j \in Loggers : pc[j] \in Holding => j = i
  BY <1>1 DEF AuditInv, FlockHeld, Open
<1>3. entry # "none" /\ ~deployment.legacy
  BY <1>1, HasEntry
<1>4. trail[i] \in Chain /\ Len(trail[i]) \in Nat
  BY DEF AuditInv, AuditTypeOK, Chain
<1>5. Replayable(file) /\ Begins(disk, file)
  BY ReportsInFile DEF AuditInv, KnowsFile, Open
<1>6. csv # <<>> \/ buf[i] # <<>>
  BY DEF AuditInv, BufferShape
<1>7. ASSUME ~deployment.persists, May("power") PROVE entry # "cached"
  <2>1. \A j \in Loggers : j \in deployment.loggers => j = i
    BY <1>2, <1>7 DEF AuditInv, Sound, Alone
  <2>2. \A j \in Loggers : pc[j] = "opened" => j \in deployment.loggers
    BY DEF AuditInv, FlockHeld
  <2>3. \A j \in Loggers : pc[j] \notin {"new", "header", "dir", "opened"}
    BY <1>2, <2>1, <2>2 DEF Holding, Open
  <2>4. QED BY <1>7, <2>3 DEF AuditInv, EntryKept
<1>8. entry \in {"none", "cached", "durable"}
  BY DEF AuditInv, AuditTypeOK
<1>9. QED BY <1>1, <1>2, <1>3, <1>4, <1>5, <1>6, <1>7, <1>8

\* What logDecision writes while the journal is ready goes behind its last item.
LEMMA WritesAtEnd ==
  ASSUME AuditInv, NEW i \in Loggers, pc[i] = "ready", HasRoom(i), NEW x \in Item
  PROVE  LET new == Append(file, x)
         IN  /\ Put(file, WriteAt(i), x) = new
             /\ new \in Seq(Item) /\ new # <<>> /\ Len(new) = Len(trail[i]) + 2
             /\ Front(new) = file /\ Bytes(new) <= Limit /\ Begins(disk, new)
<1>1. file \in Seq(Item) /\ disk \in Seq(Item)
  BY DEF AuditInv, AuditTypeOK
<1>2. Begins(disk, file) /\ Replayable(file) /\ Last(file) = trail[i] /\ Len(trail[i]) \in Nat
  BY TheHolder DEF AuditInv, KnowsFile, Open
<1>3. Len(file) = Len(trail[i]) + 1
  BY <1>1, <1>2, ReplayableItems
<1>4. Put(file, WriteAt(i), x) = Append(file, x)
  BY <1>2, <1>3 DEF Put, WriteAt
<1>5. /\ Append(file, x) \in Seq(Item) /\ Len(Append(file, x)) = Len(trail[i]) + 2
      /\ \A k \in 1..Len(file) : Append(file, x)[k] = file[k]
  BY <1>1, <1>3
<1>6. Append(file, x) # <<>>
  BY <1>1
<1>7. Front(Append(file, x)) = file
  <2> DEFINE s == Append(file, x)
  <2>1. SubSeq(s, 1, Len(file)) = file
    <3>1. /\ SubSeq(s, 1, Len(file)) \in Seq(Item) /\ Len(SubSeq(s, 1, Len(file))) = Len(file)
          /\ \A k \in 1..Len(file) : SubSeq(s, 1, Len(file))[k] = s[k]
      BY <1>1, <1>2, <1>3, <1>5
    <3>2. QED BY <1>1, <1>5, <3>1, SeqEqual
  <2>2. Len(s) - 1 = Len(file)
    BY <1>2, <1>3, <1>5
  <2>3. QED BY <2>1, <2>2 DEF Front
<1>8. Bytes(Append(file, x)) <= Limit
  <2> DEFINE s == Append(file, x)
             n == Len(trail[i])
  <2>1. s \in Seq(Item) /\ n \in Nat /\ n + 1 <= (Limit - Margin) \div RecordBytes
    BY <1>2, <1>5 DEF HasRoom
  <2>2. Len(s) <= n + 2
    BY <1>2, <1>5
  <2> HIDE DEF s, n
  <2>3. Bytes(s) <= Limit
    BY <2>1, <2>2, RoomIsEnough
  <2>4. QED BY <2>3 DEF s
<1>9. Begins(disk, Append(file, x))
  BY <1>1, <1>2, <1>3, <1>5 DEF Begins
<1>10. QED BY <1>4, <1>5, <1>6, <1>7, <1>8, <1>9

\* The next record goes behind the last one, below the limit.
LEMMA LogWriteKeeps ==
  ASSUME AuditInv, AuditTypeOK', NEW i \in Loggers, NEW d \in Decisions, LogWrite(i, d)
  PROVE  AuditInv'
<1> USE DEF LogWrite
<1>h. pc[i] \in Open
  BY DEF Open
<1>0. /\ file' \in Seq(Item) /\ Replayable(file') /\ Len(file') = Len(trail[i]) + 2
      /\ Front(file') = file /\ Bytes(file') <= Limit /\ Begins(disk, file')
      /\ Begins(disk, file)
  <2>1. Append(trail[i], d) \in Item
    BY <1>h, TheHolder, NewRecord DEF Item
  <2>2. Last(file) = trail[i] /\ Replayable(file) /\ file \in Seq(Item)
    BY DEF AuditInv, AuditTypeOK, KnowsFile
  <2>3. Replayable(Append(file, Append(trail[i], d)))
    BY <2>2, AppendItem
  <2>4. QED BY <1>h, <2>1, <2>3, WritesAtEnd, TheHolder
<1>1. FlockHeld' /\ FilesAgree' /\ Sound(deployment)'
  <2>1. FlockHeld'
    BY DEF AuditInv, AuditTypeOK, FlockHeld, Holding, Open
  <2>2. WellFormed(file')
    BY <1>0, ReplayableMeans
  <2>3. QED BY <1>0, <2>1, <2>2 DEF AuditInv, FilesAgree
<1>2. ASSUME NEW j \in Loggers PROVE KnowsFile(j)' /\ BufferShape(j)'
  <2>1. CASE j = i
    <3>1. pc'[i] = "written" /\ pc'[i] \in Open
      BY DEF AuditInv, AuditTypeOK, Open
    <3>2. KnowsFile(i)'
      BY <1>0, <3>1 DEF KnowsFile
    <3>3. BufferShape(i)'
      BY <1>h, <3>1 DEF AuditInv, BufferShape
    <3>4. QED BY <2>1, <3>2, <3>3
  <2>2. CASE j # i
    <3>1. pc'[j] = pc[j] /\ pc[j] \notin Holding
      BY <1>h, <2>2, TheHolder DEF AuditInv, AuditTypeOK
    <3>2. QED BY <3>1 DEF AuditInv, KnowsFile, BufferShape, Holding, Open
  <2>3. QED BY <2>1, <2>2
<1>3. SeenEmpty'
  <2>1. \A j \in Loggers : pc'[j] = "opened" => pc[j] = "opened" /\ j # i /\ j \in deployment.loggers
    BY DEF AuditInv, AuditTypeOK, FlockHeld
  <2>2. ~Alone(deployment) \/ \A j \in Loggers : pc'[j] # "opened"
    BY <1>h, <2>1, TheHolder DEF Alone
  <2>3. csv # <<>> \/ (pc'[i] \in Open /\ buf[i] # <<>>)
    BY <1>h, TheHolder DEF AuditInv, AuditTypeOK, Open
  <2>4. QED BY <2>1, <2>2, <2>3 DEF AuditInv, SeenEmpty
<1>4. EntryKept'
  BY <1>h, TheHolder DEF AuditInv, AuditTypeOK, EntryKept
<1>5. ReportsKept' /\ LegacyKept' /\ (~deployment'.legacy => CsvDerived')
  BY <1>h, TheHolder DEF AuditInv, AuditTypeOK, ReportsKept, LegacyKept, CsvDerived
<1>6. QED BY <1>1, <1>2, <1>3, <1>4, <1>5 DEF AuditInv

\* The trail moves on with stable storage.
LEMMA LogSyncKeeps ==
  ASSUME AuditInv, AuditTypeOK', NEW i \in Loggers, LogSync(i)
  PROVE  AuditInv'
<1> USE DEF LogSync, Fsync
<1>h. pc[i] \in Open
  BY DEF Open
<1>0. /\ file \in Seq(Item) /\ disk \in Seq(Item) /\ Replayable(file) /\ Begins(disk, file)
      /\ disk' = file /\ trail'[i] = Last(file) /\ Len(Last(file)) = Len(trail[i]) + 1
      /\ Last(file) # <<>>
  <2>1. /\ file \in Seq(Item) /\ disk \in Seq(Item) /\ Replayable(file)
        /\ Len(file) = Len(trail[i]) + 2 /\ Len(trail[i]) \in Nat
    BY <1>h, TheHolder DEF AuditInv, AuditTypeOK, KnowsFile
  <2>2. Last(file) = file[Len(file)] /\ Len(Last(file)) = Len(file) - 1
    BY <2>1, ReplayableItems
  <2>3. trail'[i] = file[WriteAt(i)]
    BY DEF AuditInv, AuditTypeOK
  <2>4. Last(file) # <<>>
    <3>1. Len(Last(file)) # 0
      BY <2>1, <2>2
    <3>2. QED BY <3>1
  <2>5. QED BY <1>h, <2>1, <2>2, <2>3, <2>4, TheHolder DEF WriteAt
<1>1. FlockHeld' /\ FilesAgree' /\ Sound(deployment)'
  <2>1. FlockHeld'
    BY DEF AuditInv, AuditTypeOK, FlockHeld, Holding, Open
  <2>2. Begins(disk', file')
    BY <1>0, RecordsOf
  <2>3. QED BY <2>1, <2>2 DEF AuditInv, FilesAgree
<1>2. ASSUME NEW j \in Loggers PROVE KnowsFile(j)' /\ BufferShape(j)'
  <2>1. CASE j = i
    <3>1. pc'[i] = "export" /\ pc'[i] \in Open
      BY DEF AuditInv, AuditTypeOK, Open
    <3>2. KnowsFile(i)'
      BY <1>0, <3>1 DEF KnowsFile
    <3>3. BufferShape(i)'
      BY <1>h, <3>1 DEF AuditInv, BufferShape
    <3>4. QED BY <2>1, <3>2, <3>3
  <2>2. CASE j # i
    <3>1. pc'[j] = pc[j] /\ pc[j] \notin Holding /\ trail'[j] = trail[j]
      BY <1>h, <2>2, TheHolder DEF AuditInv, AuditTypeOK
    <3>2. entry' = "none" <=> entry = "none"
      BY <1>h, TheHolder
    <3>3. QED BY <3>1, <3>2 DEF AuditInv, KnowsFile, BufferShape, Holding, Open
  <2>3. QED BY <2>1, <2>2
<1>3. SeenEmpty'
  <2>1. \A j \in Loggers : pc'[j] = "opened" => pc[j] = "opened" /\ sawEmpty'[j] = sawEmpty[j]
    BY DEF AuditInv, AuditTypeOK
  <2>2. \A h \in Loggers : pc[h] \in Open => pc'[h] \in Open
    BY DEF AuditInv, AuditTypeOK, Open
  <2>3. file # <<Torn>>
    BY <1>0, NoRecord DEF Replayable, Header
  <2>4. QED BY <1>0, <2>1, <2>2, <2>3 DEF AuditInv, SeenEmpty
<1>4. EntryKept'
  <2>1. entry' # "none"
    BY <1>h, TheHolder
  <2>2. entry' = "durable" \/ ~May("power")
    BY <1>h, TheHolder
  <2>3. QED BY <2>1, <2>2 DEF EntryKept
<1>5. ReportsKept'
  <2>1. Records(disk) \subseteq Records(disk')
    BY <1>0, RecordsOf
  <2>2. \A r \in journalled : Len(r) <= Len(trail[i])
    BY DEF AuditInv, ReportsKept
  <2>3. \A r \in journalled : Len(r) \in Nat
    BY DEF AuditInv, AuditTypeOK, Chain
  <2>4. \A r \in journalled : Len(r) < Len(trail'[i])
    BY <1>0, <1>h, <2>2, <2>3, TheHolder
  <2>5. pc'[i] = "export" /\ \A j \in Loggers : j # i => pc'[j] = pc[j] /\ trail'[j] = trail[j]
    BY DEF AuditInv, AuditTypeOK
  <2>6. QED BY <2>1, <2>4, <2>5 DEF AuditInv, ReportsKept
<1>6. LegacyKept' /\ (~deployment'.legacy => CsvDerived')
  BY <1>h, TheHolder DEF AuditInv, LegacyKept, CsvDerived
<1>7. QED BY <1>1, <1>2, <1>3, <1>4, <1>5, <1>6 DEF AuditInv

\* The row of a durable record goes behind those of the records before it.
LEMMA RowsInOrder ==
  ASSUME AuditInv, NEW i \in Loggers, pc[i] = "export"
  PROVE  /\ trail[i] \in Records(disk) /\ trail[i] # Header
         /\ entry = "durable" \/ ~May("power")
         /\ \A r \in journalled : Len(r) < Len(trail[i]) /\ Len(r) \in Nat
         /\ \A k \in 1..Len(csv) : csv[k] # Header => Len(csv[k]) < Len(trail[i])
<1>1. pc[i] \in Open
  BY DEF Open
<1>2. /\ file \in Seq(Item) /\ Replayable(file) /\ Last(file) = trail[i] /\ disk = file
      /\ trail[i] # <<>> /\ trail[i] \in Chain
  BY <1>1, TheHolder DEF AuditInv, AuditTypeOK, KnowsFile
<1>3. trail[i] = file[Len(file)] /\ Len(file) \in 1..Len(file)
  BY <1>2, ReplayableItems
<1>4. trail[i] # Header /\ trail[i] # Torn
  BY <1>2, NoRecord DEF Header
<1>5. trail[i] \in Records(disk)
  BY <1>2, <1>3, <1>4 DEF Records
<1>6. \A r \in journalled : Len(r) < Len(trail[i]) /\ Len(r) \in Nat
  BY DEF AuditInv, AuditTypeOK, ReportsKept, Chain
<1>7. \A k \in 1..Len(csv) : csv[k] = Header \/ csv[k] \in journalled
  BY <1>1, TheHolder DEF AuditInv, CsvDerived
<1>8. entry = "durable" \/ ~May("power")
  BY DEF AuditInv, EntryKept
<1>9. QED BY <1>4, <1>5, <1>6, <1>7, <1>8

\* The buffer of a CSV that has not failed is empty or a header.
LEMMA LinesOf ==
  /\ \A x \in Row : Append(<<>>, x) = <<x>> /\ Append(<<Header>>, x) = <<Header, x>>
  /\ SubSeq(<<Header>>, 1, 0) = <<>> /\ SubSeq(<<Header>>, 1, 1) = <<Header>>
  /\ \A x \in Row : SubSeq(<<Header, x>>, 1, 1) = <<Header>>
<1>1. ASSUME NEW a \in Row, NEW x \in Row PROVE Append(<<a>>, x) = <<a, x>>
  <2>1. /\ Append(<<a>>, x) \in Seq(Row) /\ Len(Append(<<a>>, x)) = 2
        /\ Append(<<a>>, x)[1] = a /\ Append(<<a>>, x)[2] = x
    OBVIOUS
  <2>2. /\ <<a, x>> \in Seq(Row) /\ Len(<<a, x>>) = 2 /\ <<a, x>>[1] = a /\ <<a, x>>[2] = x
    OBVIOUS
  <2>3. \A k \in 1..2 : k = 1 \/ k = 2
    OBVIOUS
  <2> DEFINE s == Append(<<a>>, x)
             t == <<a, x>>
  <2>4. s \in Seq(Row) /\ t \in Seq(Row) /\ Len(s) = 2 /\ Len(t) = 2 /\ \A k \in 1..2 : s[k] = t[k]
    BY <2>1, <2>2, <2>3
  <2> HIDE DEF s, t
  <2>5. s = t
    BY <2>4, SeqEqual
  <2>6. QED BY <2>5 DEF s, t
<1>2. \A a \in Row : SubSeq(<<a>>, 1, 0) = <<>> /\ SubSeq(<<a>>, 1, 1) = <<a>>
  <2>1. ASSUME NEW a \in Row PROVE SubSeq(<<a>>, 1, 1) = <<a>>
    <3> DEFINE s == <<a>>
    <3>1. s \in Seq(Row) /\ Len(s) = 1
      OBVIOUS
    <3> HIDE DEF s
    <3>2. SubSeq(s, 1, 1) = s
      BY <3>1, SubSeqFull
    <3>3. QED BY <3>2 DEF s
  <2>2. ASSUME NEW a \in Row PROVE SubSeq(<<a>>, 1, 0) = <<>>
    <3>1. \A s : SubSeq(s, 1, 0) = <<>>
      BY SubSeqEmpty
    <3>2. QED BY <3>1
  <2>3. QED BY <2>1, <2>2
<1>3. Header \in Row
  BY NoRecord DEF Row
<1>4. ASSUME NEW a \in Row, NEW x \in Row PROVE SubSeq(<<a, x>>, 1, 1) = <<a>>
  <2> DEFINE s == SubSeq(<<a, x>>, 1, 1)
             t == <<a>>
  <2>1. s \in Seq(Row) /\ Len(s) = 1 /\ s[1] = a
    <3>1. <<a, x>> \in Seq(Row) /\ Len(<<a, x>>) = 2 /\ <<a, x>>[1] = a
      OBVIOUS
    <3> DEFINE u == <<a, x>>
    <3>2. u \in Seq(Row) /\ Len(u) = 2 /\ u[1] = a
      BY <3>1
    <3> HIDE DEF u
    <3>3. SubSeq(u, 1, 1) \in Seq(Row) /\ Len(SubSeq(u, 1, 1)) = 1 /\ SubSeq(u, 1, 1)[1] = a
      BY <3>2
    <3>4. QED BY <3>3 DEF u
  <2>2. t \in Seq(Row) /\ Len(t) = 1 /\ t[1] = a
    OBVIOUS
  <2>3. \A k \in 1..1 : s[k] = t[k]
    BY <2>1, <2>2
  <2> HIDE DEF s, t
  <2>4. s = t
    BY <2>1, <2>2, <2>3, SeqEqual
  <2>5. QED BY <2>4 DEF s, t
<1>5. QED BY <1>1, <1>2, <1>3, <1>4

\* Lines that a flush leaves behind those of the CSV keep it derived: a header, or
\* a header and then a record behind those before it.
LEMMA RowsAppended ==
  ASSUME CsvDerived, csv \in Seq(Row), NEW new \in Seq(Row), NEW more,
         NEW R \in SUBSET Chain, journalled \subseteq R,
         \/ more \in {<<>>, <<Header>>}
         \/ \E r \in R : /\ more \in {<<r>>, <<Header, r>>}
                         /\ \A k \in 1..Len(csv) : csv[k] # Header => Len(csv[k]) < Len(r),
         new = csv \o more
  PROVE  /\ \A k \in 1..Len(new) : new[k] = Header \/ new[k] \in R
         /\ \A j, k \in 1..Len(new) :
              j < k /\ new[j] # Header /\ new[k] # Header => Len(new[j]) < Len(new[k])
<1>0. Header \in Row /\ R \subseteq Row
  BY NoRecord DEF Row
<1>1. ASSUME NEW x \in Row, more = <<x>> \/ more = <<Header, x>>, x = Header \/ x \in R,
             x # Header => \A k \in 1..Len(csv) : csv[k] # Header => Len(csv[k]) < Len(x)
      PROVE  /\ \A k \in 1..Len(new) : new[k] = Header \/ new[k] \in R
             /\ \A j, k \in 1..Len(new) :
                  j < k /\ new[j] # Header /\ new[k] # Header => Len(new[j]) < Len(new[k])
  <2>1. /\ Len(new) \in Nat /\ Len(csv) \in Nat
        /\ \A k \in 1..Len(csv) : new[k] = csv[k]
        /\ \A k \in 1..Len(new) : k > Len(csv) => new[k] = Header \/ (new[k] = x /\ k = Len(new))
    <3>1. CASE more = <<x>>
      BY <1>0, <3>1
    <3>2. CASE more = <<Header, x>>
      BY <1>0, <3>2
    <3>3. QED BY <1>1, <3>1, <3>2
  <2>2. \A k \in 1..Len(new) : k > Len(csv) \/ k \in 1..Len(csv)
    BY <2>1
  <2>3. \A k \in 1..Len(new) : new[k] = Header \/ new[k] \in R
    BY <1>1, <2>1, <2>2 DEF CsvDerived
  <2>4. ASSUME NEW j \in 1..Len(new), NEW k \in 1..Len(new), j < k, new[j] # Header, new[k] # Header
        PROVE  Len(new[j]) < Len(new[k])
    <3>1. j \in 1..Len(csv)
      BY <2>1, <2>2, <2>4
    <3>2. CASE k \in 1..Len(csv)
      BY <2>1, <2>4, <3>1, <3>2 DEF CsvDerived
    <3>3. CASE k > Len(csv)
      BY <1>1, <2>1, <2>4, <3>1, <3>3
    <3>4. QED BY <2>2, <3>2, <3>3
  <2>5. QED BY <2>3, <2>4
<1>2. CASE more = <<>>
  <2>1. new = csv
    BY <1>2, ConcatEmptySeq
  <2>2. QED BY <2>1 DEF CsvDerived
<1>3. CASE more = <<Header>>
  BY <1>0, <1>1, <1>3
<1>4. CASE \E r \in R : /\ more \in {<<r>>, <<Header, r>>}
                        /\ \A k \in 1..Len(csv) : csv[k] # Header => Len(csv[k]) < Len(r)
  BY <1>0, <1>1, <1>4
<1>5. QED BY <1>2, <1>3, <1>4

\* The row of a durable record is flushed.
LEMMA ExportRowKeeps ==
  ASSUME AuditInv, AuditTypeOK', NEW i \in Loggers, ExportRow(i)
  PROVE  AuditInv'
<1> USE DEF ExportRow
<1>h. pc[i] \in Open /\ trail[i] \in Row
  BY TheHolder DEF Open, Row
<1>0. /\ csv \in Seq(Row) /\ csv' \in Seq(Row) /\ csv' # <<>> /\ buf[i] \in {<<>>, <<Header>>}
      /\ journalled' = journalled \cup {trail[i]} /\ journalled' \subseteq Chain
  <2>1. csv \o buf[i] \in Seq(Row) /\ trail[i] \in Row /\ csv \in Seq(Row) /\ csv' \in Seq(Row)
    BY <1>h DEF AuditInv, AuditTypeOK
  <2>2. csv' # <<>>
    BY <2>1
  <2>3. QED BY <2>1, <2>2 DEF AuditInv, AuditTypeOK, BufferShape
<1>1. FlockHeld' /\ FilesAgree' /\ Sound(deployment)'
  BY DEF AuditInv, AuditTypeOK, FlockHeld, FilesAgree, Holding, Open
<1>2. ASSUME NEW j \in Loggers PROVE KnowsFile(j)' /\ BufferShape(j)'
  <2>1. KnowsFile(j)'
    BY DEF AuditInv, AuditTypeOK, KnowsFile
  <2>2. CASE j = i
    <3>1. pc'[i] \in Open /\ buf'[i] = <<>> /\ csvOk'[i]
      BY DEF AuditInv, AuditTypeOK, Open
    <3>2. QED BY <1>0, <2>1, <2>2, <3>1 DEF BufferShape
  <2>3. CASE j # i
    <3>1. pc'[j] = pc[j] /\ buf'[j] = <<>> /\ csvOk'[j] /\ pc[j] \notin Open
      BY <1>h, <2>3, OthersIdle, TheHolder DEF AuditInv, AuditTypeOK
    <3>2. QED BY <2>1, <3>1 DEF BufferShape
  <2>4. QED BY <2>2, <2>3
<1>3. SeenEmpty'
  <2>1. \A j \in Loggers : pc'[j] = "opened" => pc[j] = "opened"
    BY DEF AuditInv, AuditTypeOK
  <2>2. QED BY <1>0, <2>1 DEF AuditInv, SeenEmpty
<1>4. EntryKept'
  BY <1>h, TheHolder, RowsInOrder DEF AuditInv, AuditTypeOK, EntryKept
<1>5. ReportsKept'
  <2>1. \A j \in Loggers : pc'[j] \in {"csv", "ready", "written", "export"} => j = i
    BY <1>h, TheHolder DEF AuditInv, AuditTypeOK, Holding, Open
  <2>2. pc'[i] = "ready" /\ Len(trail[i]) \in Nat
    BY <1>h, TheHolder DEF AuditInv, AuditTypeOK
  <2>3. \A r \in journalled' : Len(r) <= Len(trail[i])
    BY <1>0, <2>2, RowsInOrder
  <2>4. journalled' \subseteq Records(disk)
    BY <1>0, RowsInOrder DEF AuditInv, ReportsKept
  <2>5. QED BY <2>1, <2>2, <2>3, <2>4 DEF ReportsKept
<1>6. LegacyKept' /\ CsvDerived'
  <2>1. ~deployment.legacy /\ CsvDerived
    BY <1>h, TheHolder DEF AuditInv
  <2> DEFINE more == Append(buf[i], trail[i])
  <2>2. more \in {<<trail[i]>>, <<Header, trail[i]>>}
    <3>1. buf[i] = <<>> => more = <<trail[i]>>
      BY <1>h, LinesOf
    <3>2. buf[i] = <<Header>> => more = <<Header, trail[i]>>
      BY <1>h, LinesOf
    <3> HIDE DEF more
    <3>3. QED BY <1>0, <3>1, <3>2, Zenon
  <2>3. csv' = csv \o more
    <3>1. CASE buf[i] = <<>>
      BY <1>0, <1>h, <3>1, NoRecord
    <3>2. CASE buf[i] = <<Header>>
      BY <1>0, <1>h, <3>2, NoRecord
    <3>3. QED BY <1>0, <3>1, <3>2
  <2>4. trail[i] \in journalled' /\ journalled \subseteq journalled' /\ journalled' \in SUBSET Chain
    BY <1>0
  <2> HIDE DEF more
  <2>5. /\ \A k \in 1..Len(csv') : csv'[k] = Header \/ csv'[k] \in journalled'
        /\ \A j, k \in 1..Len(csv') :
             j < k /\ csv'[j] # Header /\ csv'[k] # Header => Len(csv'[j]) < Len(csv'[k])
    BY <1>0, <2>1, <2>2, <2>3, <2>4, RowsInOrder, RowsAppended
  <2>6. QED BY <2>1, <2>5 DEF LegacyKept, CsvDerived
<1>7. QED BY <1>1, <1>2, <1>3, <1>4, <1>5, <1>6 DEF AuditInv

\* The row of a durable record stays in the buffer.
LEMMA ExportFailsKeeps ==
  ASSUME AuditInv, AuditTypeOK', NEW i \in Loggers, ExportFails(i)
  PROVE  AuditInv'
<1>h. pc[i] = "export" /\ pc[i] \in Open /\ trail[i] \in Row
  BY TheHolder DEF Open, Row, ExportFails
<1>0. /\ pc' = [pc EXCEPT ![i] = "ready"] /\ journalled' = journalled \cup {trail[i]}
      /\ UNCHANGED <<deployment, file, disk, entry, holder, existed, sawEmpty, trail>>
      /\ csv \in Seq(Row) /\ csv' \in Seq(Row) /\ journalled' \in SUBSET Chain
  BY DEF ExportFails, AuditInv, AuditTypeOK
<1>c. \/ /\ csvOk[i] /\ buf' = [buf EXCEPT ![i] = Append(buf[i], trail[i])]
         /\ csvOk' = [csvOk EXCEPT ![i] = FALSE]
         /\ \E more \in {<<>>, <<Header>>} : csv' = csv \o more
      \/ ~csvOk[i] /\ UNCHANGED <<buf, csv, csvOk>>
  <2>1. CASE csvOk[i]
    <3>1. PICK n \in 0..Len(buf[i]) :
            /\ buf' = [buf EXCEPT ![i] = Append(buf[i], trail[i])]
            /\ csv' = csv \o SubSeq(buf[i], 1, n) /\ csvOk' = [csvOk EXCEPT ![i] = FALSE]
      BY <2>1 DEF ExportFails, AuditInv, AuditTypeOK
    <3>2. CASE buf[i] = <<>>
      <4>1. SubSeq(buf[i], 1, n) = <<>>
        BY <3>2
      <4>2. QED BY <2>1, <3>1, <4>1
    <3>3. CASE buf[i] = <<Header>>
      <4>1. n = 0 \/ n = 1
        BY <3>3
      <4>2. SubSeq(buf[i], 1, n) = <<>> \/ SubSeq(buf[i], 1, n) = <<Header>>
        BY <3>3, <4>1, LinesOf
      <4>3. QED BY <2>1, <3>1, <4>2
    <3>4. QED BY <2>1, <3>2, <3>3 DEF AuditInv, BufferShape
  <2>2. CASE ~csvOk[i]
    BY <2>2 DEF ExportFails
  <2>3. QED BY <2>1, <2>2
<1>1. FlockHeld' /\ FilesAgree' /\ Sound(deployment)'
  BY <1>h, <1>0 DEF AuditInv, AuditTypeOK, FlockHeld, FilesAgree, Holding, Open
<1>2. \A k \in 1..Len(csv') : csv'[k] # Header => Len(csv'[k]) < Len(trail[i])
  <2>1. CASE csv' = csv
    BY <1>h, <2>1, RowsInOrder
  <2>2. ASSUME NEW more \in {<<>>, <<Header>>}, csv' = csv \o more
        PROVE  \A k \in 1..Len(csv') : csv'[k] # Header => Len(csv'[k]) < Len(trail[i])
    <3>1. CASE more = <<>>
      <4>1. csv' = csv
        BY <1>0, <2>2, <3>1, ConcatEmptySeq
      <4>2. QED BY <2>1, <4>1
    <3>2. CASE more = <<Header>>
      <4>1. \A k \in 1..Len(csv') : csv'[k] # Header => k \in 1..Len(csv) /\ csv'[k] = csv[k]
        BY <1>0, <2>2, <3>2, NoRecord
      <4>2. QED BY <1>h, <4>1, RowsInOrder
    <3>3. QED BY <2>2, <3>1, <3>2
  <2>3. QED BY <1>c, <2>1, <2>2
<1>3. ASSUME NEW j \in Loggers PROVE KnowsFile(j)' /\ BufferShape(j)'
  <2>1. KnowsFile(j)'
    BY <1>h, <1>0 DEF AuditInv, AuditTypeOK, KnowsFile
  <2>2. CASE j = i
    <3>1. pc'[i] \in Open /\ trail[i] \in journalled'
      BY <1>0 DEF AuditInv, AuditTypeOK, Open
    <3>2. CASE csvOk[i]
      <4>1. buf'[i] = Append(buf[i], trail[i]) /\ ~csvOk'[i] /\ buf[i] \in {<<>>, <<Header>>}
        BY <1>c, <3>2 DEF AuditInv, AuditTypeOK, BufferShape
      <4>2. buf'[i] \in {<<trail[i]>>, <<Header, trail[i]>>} /\ buf'[i] # <<>>
        <5>1. buf[i] = <<>> => buf'[i] = <<trail[i]>>
          BY <1>h, <4>1, LinesOf
        <5>2. buf[i] = <<Header>> => buf'[i] = <<Header, trail[i]>>
          BY <1>h, <4>1, LinesOf
        <5>3. \A r : <<r>> # <<>> /\ <<Header, r>> # <<>>
          OBVIOUS
        <5>4. QED BY <4>1, <5>1, <5>2, <5>3, Zenon
      <4>3. QED BY <1>2, <2>1, <2>2, <3>1, <4>1, <4>2 DEF BufferShape
    <3>3. CASE ~csvOk[i]
      <4>1. UNCHANGED <<buf, csv, csvOk>>
        BY <1>c, <3>3
      <4>2. journalled \subseteq journalled'
        BY <1>0
      <4>3. QED BY <1>h, <2>1, <2>2, <3>1, <3>3, <4>1, <4>2 DEF AuditInv, BufferShape
    <3>4. QED BY <3>2, <3>3
  <2>3. CASE j # i
    <3>1. buf[j] = <<>> /\ csvOk[j] /\ pc[j] \notin Open
      BY <1>h, <2>3, OthersIdle, TheHolder
    <3>2. pc'[j] = pc[j] /\ buf'[j] = <<>> /\ csvOk'[j]
      BY <1>0, <1>c, <2>3, <3>1 DEF AuditInv, AuditTypeOK
    <3>3. QED BY <2>1, <3>1, <3>2 DEF BufferShape
  <2>4. QED BY <2>2, <2>3
<1>4. SeenEmpty'
  <2>1. \A j \in Loggers : pc'[j] = "opened" => pc[j] = "opened"
    BY <1>0 DEF AuditInv, AuditTypeOK
  <2>2. pc'[i] \in Open
    BY <1>0 DEF AuditInv, AuditTypeOK, Open
  <2>3. csv' # <<>> \/ buf'[i] # <<>>
    BY <1>3, <2>2 DEF BufferShape
  <2>4. QED BY <1>0, <2>1, <2>2, <2>3 DEF AuditInv, SeenEmpty
<1>5. EntryKept'
  <2>1. entry = "durable" \/ ~May("power")
    BY <1>h, RowsInOrder
  <2>2. entry # "none"
    BY <1>h, TheHolder
  <2>3. QED BY <1>0, <2>1, <2>2 DEF EntryKept
<1>6. ReportsKept'
  <2>1. \A j \in Loggers : pc'[j] \in {"csv", "ready", "written", "export"} => j = i
    BY <1>0, <1>h, TheHolder DEF AuditInv, AuditTypeOK, Holding, Open
  <2>2. pc'[i] = "ready" /\ Len(trail[i]) \in Nat
    BY <1>0, <1>h, TheHolder DEF AuditInv, AuditTypeOK
  <2>3. \A r \in journalled' : Len(r) <= Len(trail[i])
    BY <1>0, <1>h, <2>2, RowsInOrder
  <2>4. journalled' \subseteq Records(disk)
    BY <1>0, <1>h, RowsInOrder DEF AuditInv, ReportsKept
  <2>5. QED BY <1>0, <2>1, <2>2, <2>3, <2>4 DEF ReportsKept
<1>7. LegacyKept' /\ CsvDerived'
  <2>1. ~deployment.legacy /\ CsvDerived
    BY <1>h, TheHolder DEF AuditInv
  <2>2. \E more \in {<<>>, <<Header>>} : csv' = csv \o more
    <3>1. csv = csv \o <<>>
      BY <1>0, ConcatEmptySeq
    <3>2. QED BY <1>c, <3>1
  <2>3. journalled \subseteq journalled'
    BY <1>0
  <2>4. /\ \A k \in 1..Len(csv') : csv'[k] = Header \/ csv'[k] \in journalled'
        /\ \A j, k \in 1..Len(csv') :
             j < k /\ csv'[j] # Header /\ csv'[k] # Header => Len(csv'[j]) < Len(csv'[k])
    BY <1>0, <2>1, <2>2, <2>3, RowsAppended
  <2>5. QED BY <1>0, <2>1, <2>4 DEF LegacyKept, CsvDerived
<1>8. QED BY <1>0, <1>1, <1>3, <1>4, <1>5, <1>6, <1>7 DEF AuditInv

-----------------------------------------------------------------------------
(* Closing, and giving up on an open.                                       *)

\* A logger that closes leaves a CSV with lines behind, unless its flush failed,
\* and then nobody else can have judged the journal too early.
LEMMA CloseKeeps ==
  ASSUME AuditInv, AuditTypeOK', FilesAgree', NEW i \in Loggers, pc[i] \in {"ready", "written"},
         CloseFiles(i), UNCHANGED disk
  PROVE  AuditInv'
<1> USE DEF CloseFiles
<1>h. pc[i] \in Open
  BY DEF Open
<1>0. \A j \in Loggers : pc'[j] \notin Holding /\ pc'[j] \notin Open /\ buf'[j] = <<>> /\ csvOk'[j]
  <2>1. ASSUME NEW j \in Loggers, j # i
        PROVE  /\ pc'[j] = pc[j] /\ pc[j] \notin Holding /\ pc[j] \notin Open
               /\ buf'[j] = <<>> /\ csvOk'[j]
    BY <1>h, <2>1, TheHolder, OthersIdle DEF AuditInv, AuditTypeOK
  <2>2. pc'[i] = "closed" /\ buf'[i] = <<>> /\ csvOk'[i]
    BY DEF AuditInv, AuditTypeOK
  <2>3. QED BY <2>1, <2>2 DEF Holding, Open
<1>b. /\ csv \in Seq(Row) /\ buf[i] \in Seq(Row) /\ csv' \in Seq(Row)
      /\ \/ csv' = csv \o buf[i]
         \/ May("csv") /\ \E n \in 0..(Len(buf[i]) - 1) : csv' = csv \o SubSeq(buf[i], 1, n)
  BY DEF AuditInv, AuditTypeOK, Flushed
<1>1. FlockHeld' /\ Sound(deployment)'
  <2>1. \A j \in Loggers : pc'[j] # "closed" => j \in deployment.loggers
    BY DEF AuditInv, AuditTypeOK, FlockHeld
  <2>2. QED BY <1>0, <2>1, AuditAssumption DEF AuditInv, FlockHeld
<1>2. ASSUME NEW j \in Loggers PROVE KnowsFile(j)' /\ BufferShape(j)'
  <2>1. pc'[j] \in {"looked", "opened", "new", "header", "dir"} => pc'[j] = pc[j]
    BY DEF AuditInv, AuditTypeOK
  <2>2. QED BY <1>0, <2>1 DEF AuditInv, KnowsFile, BufferShape, Holding, Open
<1>3. SeenEmpty'
  <2>1. \A j \in Loggers : pc'[j] = "opened" => pc[j] = "opened" /\ j # i /\ j \in deployment.loggers
    BY <1>h DEF AuditInv, AuditTypeOK, FlockHeld
  <2>2. ASSUME ~Alone(deployment) PROVE csv' # <<>>
    <3>1. csv' = csv \o buf[i]
      BY <1>h, <1>b, <2>2, TheHolder DEF AuditInv, Sound
    <3>2. csv # <<>> \/ buf[i] # <<>>
      BY <1>h, TheHolder
    <3>3. QED BY <1>b, <3>1, <3>2
  <2>3. ~Alone(deployment) \/ \A j \in Loggers : pc'[j] # "opened"
    BY <1>h, <2>1, TheHolder DEF Alone
  <2>4. QED BY <2>1, <2>2, <2>3 DEF AuditInv, SeenEmpty
<1>4. EntryKept'
  <2>1. entry # "none" /\ (~deployment.persists /\ May("power") => entry = "durable")
    BY <1>h, TheHolder
  <2>2. \A j \in Loggers : pc'[j] # "export"
    BY <1>0 DEF Open
  <2>3. QED BY <2>1, <2>2 DEF AuditInv, EntryKept
<1>5. ReportsKept'
  BY <1>0 DEF AuditInv, ReportsKept, Holding, Open
<1>6. LegacyKept' /\ CsvDerived'
  <2>1. ~deployment.legacy /\ CsvDerived /\ journalled \in SUBSET Chain
    BY <1>h, TheHolder DEF AuditInv, AuditTypeOK
  <2> DEFINE Flush(more) ==
        \/ more \in {<<>>, <<Header>>}
        \/ \E r \in journalled : /\ more \in {<<r>>, <<Header, r>>}
                                 /\ \A k \in 1..Len(csv) : csv[k] # Header => Len(csv[k]) < Len(r)
  <2>2. Flush(buf[i])
    BY DEF AuditInv, BufferShape
  <2>3. \A n \in 0..(Len(buf[i]) - 1) : Flush(SubSeq(buf[i], 1, n))
    <3>1. ASSUME NEW r \in Row, NEW b, b \in {<<>>, <<Header>>, <<r>>, <<Header, r>>},
                 NEW n \in 0..(Len(b) - 1)
          PROVE  SubSeq(b, 1, n) = <<>> \/ SubSeq(b, 1, n) = <<Header>>
      <4>1. \A a \in Row : Len(<<a>>) = 1 /\ Len(<<>>) = 0 /\ Len(<<a, r>>) = 2
        OBVIOUS
      <4>2. Header \in Row
        BY NoRecord DEF Row
      <4>3. Len(b) \in {0, 1} \/ (b = <<Header, r>> /\ Len(b) = 2)
        BY <3>1, <4>1, <4>2, Zenon
      <4>4. n = 0 \/ (b = <<Header, r>> /\ n = 1)
        <5>1. CASE Len(b) \in {0, 1}
          <6>1. ASSUME NEW l \in {0, 1}, n \in 0..(l - 1) PROVE n = 0
            BY <6>1
          <6>2. QED BY <5>1, <6>1
        <5>2. CASE b = <<Header, r>> /\ Len(b) = 2
          <6>1. n \in 0..1
            BY <5>2
          <6>2. QED BY <5>2, <6>1
        <5>3. QED BY <4>3, <5>1, <5>2
      <4>5. SubSeq(b, 1, 0) = <<>> /\ SubSeq(<<Header, r>>, 1, 1) = <<Header>>
        BY LinesOf, SubSeqEmpty
      <4>6. QED BY <4>4, <4>5, Zenon
    <3>2. \E r \in Row : buf[i] \in {<<>>, <<Header>>, <<r>>, <<Header, r>>}
      <4>1. Header \in Row /\ journalled \subseteq Row
        BY <2>1, NoRecord DEF Row
      <4>2. \A r \in journalled : buf[i] \in {<<r>>, <<Header, r>>} =>
              r \in Row /\ buf[i] \in {<<>>, <<Header>>, <<r>>, <<Header, r>>}
        BY <4>1, Zenon
      <4>3. \A r : buf[i] \in {<<>>, <<Header>>} => buf[i] \in {<<>>, <<Header>>, <<r>>, <<Header, r>>}
        BY Zenon
      <4>4. CASE buf[i] \in {<<>>, <<Header>>}
        BY <4>1, <4>3, <4>4, Zenon
      <4>5. CASE \E r \in journalled : buf[i] \in {<<r>>, <<Header, r>>}
        BY <4>2, <4>5, Zenon
      <4>6. \/ buf[i] \in {<<>>, <<Header>>}
            \/ \E r \in journalled : buf[i] \in {<<r>>, <<Header, r>>}
        BY <2>2, Zenon
      <4>7. QED BY <4>4, <4>5, <4>6
    <3>3. PICK r \in Row : buf[i] \in {<<>>, <<Header>>, <<r>>, <<Header, r>>}
      BY <3>2
    <3>4. \A n \in 0..(Len(buf[i]) - 1) :
            SubSeq(buf[i], 1, n) = <<>> \/ SubSeq(buf[i], 1, n) = <<Header>>
      BY <3>1, <3>3, Zenon
    <3>5. \A more : more = <<>> \/ more = <<Header>> => Flush(more)
      BY Zenon
    <3> HIDE DEF Flush
    <3>6. QED BY <3>4, <3>5, Zenon
  <2>4. PICK more : csv' = csv \o more /\ Flush(more)
    BY <1>b, <2>2, <2>3
  <2>5. /\ \A k \in 1..Len(csv') : csv'[k] = Header \/ csv'[k] \in journalled
        /\ \A j, k \in 1..Len(csv') :
             j < k /\ csv'[j] # Header /\ csv'[k] # Header => Len(csv'[j]) < Len(csv'[k])
    BY <1>b, <2>1, <2>4, RowsAppended
  <2>6. QED BY <2>1, <2>5 DEF LegacyKept, CsvDerived
<1>7. QED BY <1>0, <1>1, <1>2, <1>3, <1>4, <1>5, <1>6 DEF AuditInv

\* A logger whose write or fsync fails closes; a torn item is the last one.
LEMMA LogFailsKeep ==
  ASSUME AuditInv, AuditTypeOK', NEW i \in Loggers, LogWriteFails(i) \/ LogSyncFails(i) \/ Close(i)
  PROVE  AuditInv'
<1>1. CASE LogWriteFails(i)
  <2>1. /\ pc[i] = "ready" /\ pc[i] \in Open /\ HasRoom(i) /\ CloseFiles(i) /\ disk' = disk
        /\ file' = file \/ file' = Put(file, WriteAt(i), Torn)
    BY <1>1 DEF LogWriteFails, Open
  <2>2. CASE file' = file
    <3>1. FilesAgree'
      BY <2>1, <2>2 DEF AuditInv, FilesAgree
    <3>2. QED BY <2>1, <3>1, CloseKeeps
  <2>3. CASE file' = Put(file, WriteAt(i), Torn)
    <3>1. file' = Append(file, Torn) /\ Bytes(file') <= Limit /\ Begins(disk, file')
      BY <2>1, <2>3, NoRecord, WritesAtEnd
    <3>2. WellFormed(file')
      BY <2>1, <3>1, TheHolder, AppendItem DEF AuditInv, AuditTypeOK
    <3>3. FilesAgree'
      BY <2>1, <3>1, <3>2 DEF FilesAgree
    <3>4. QED BY <2>1, <3>3, CloseKeeps
  <2>4. QED BY <2>1, <2>2, <2>3
<1>2. CASE LogSyncFails(i) \/ Close(i)
  <2>1. pc[i] \in {"ready", "written"} /\ CloseFiles(i) /\ UNCHANGED <<file, disk>>
    BY <1>2 DEF LogSyncFails, Close
  <2>2. FilesAgree'
    BY <2>1 DEF AuditInv, FilesAgree
  <2>3. QED BY <2>1, <2>2, CloseKeeps
<1>3. QED BY <1>1, <1>2

\* An open that gives up leaves the journal as it found it, but for a torn header;
\* where the directory entry hangs on that open, it does not give up.
LEMMA AbandonKeeps ==
  ASSUME AuditInv, AuditTypeOK', FilesAgree', NEW i \in Loggers,
         pc[i] \in {"opened", "new", "header", "dir", "csv"}, Abandon(i), UNCHANGED <<disk, entry, csv>>,
         file' = file \/ (pc[i] = "new" /\ file' = <<Torn>>),
         ~deployment.persists /\ May("power") /\ entry = "cached" =>
           pc[i] = "csv" \/ (pc[i] = "opened" /\ ~sawEmpty[i])
  PROVE  AuditInv'
<1> USE DEF Abandon
<1>0. /\ pc'[i] = "closed" /\ pc[i] \notin Open /\ pc[i] # "closed"
      /\ \A j \in Loggers : j # i => pc'[j] = pc[j] /\ trail'[j] = trail[j]
      /\ i \in deployment.loggers /\ entry # "none"
  BY HasEntry DEF AuditInv, AuditTypeOK, Open, Holding, FlockHeld
<1>f. ASSUME file' # file
      PROVE  /\ file' = <<Torn>> /\ Blank(file') /\ pc[i] \in Holding /\ ~deployment.legacy
             /\ \A j \in Loggers : j # i => pc[j] \notin Holding
  <2>1. pc[i] = "new" /\ file' = <<Torn>>
    BY <1>f
  <2>2. pc[i] \in Holding
    BY <2>1 DEF Holding
  <2>3. QED BY <2>1, <2>2, OneItem, OthersIdle, HasEntry
<1>1. FlockHeld' /\ Sound(deployment)'
  <2>1. \A j \in Loggers : pc'[j] # "closed" => j \in deployment.loggers
    BY DEF AuditInv, AuditTypeOK, FlockHeld
  <2>2. \A j \in Loggers : pc'[j] \in Holding <=> holder' = j
    <3>1. ASSUME NEW j \in Loggers, j # i PROVE pc'[j] \in Holding <=> holder' = j
      BY <1>0, <3>1, AuditAssumption DEF AuditInv, FlockHeld
    <3>2. pc'[i] \notin Holding /\ holder' # i
      BY <1>0, AuditAssumption DEF Holding, Open
    <3>3. QED BY <3>1, <3>2
  <2>3. QED BY <2>1, <2>2 DEF AuditInv, FlockHeld
<1>2. ASSUME NEW j \in Loggers PROVE KnowsFile(j)' /\ BufferShape(j)'
  <2>1. CASE j = i
    BY <1>0, <2>1 DEF AuditInv, KnowsFile, BufferShape, Open
  <2>2. CASE j # i
    <3>1. BufferShape(j)'
      BY <1>0, <2>2 DEF AuditInv, BufferShape
    <3>2. CASE file' = file
      BY <1>0, <2>2, <3>1, <3>2 DEF AuditInv, KnowsFile
    <3>3. CASE file' # file
      <4>1. pc'[j] = pc[j] /\ pc[j] \notin Holding
        BY <1>0, <1>f, <2>2, <3>3
      <4>2. QED BY <1>0, <2>2, <3>1, <4>1 DEF AuditInv, KnowsFile, Holding, Open
    <3>4. QED BY <3>2, <3>3
  <2>3. QED BY <2>1, <2>2
<1>3. SeenEmpty'
  <2>1. ASSUME NEW j \in Loggers, pc'[j] = "opened", sawEmpty'[j]
        PROVE  /\ disk' # <<Torn>>
               /\ Alone(deployment') => file' = <<>>
               /\ Blank(file') \/ csv' # <<>> \/ \E h \in Loggers : pc'[h] \in Open /\ buf'[h] # <<>>
    <3>1. j # i /\ pc[j] = "opened" /\ sawEmpty[j] /\ j \in deployment.loggers
      BY <1>0, <2>1 DEF AuditInv, FlockHeld
    <3>2. ~Alone(deployment)
      BY <1>0, <3>1 DEF Alone
    <3>3. \A h \in Loggers : pc[h] \in Open => pc'[h] \in Open
      BY <1>0
    <3>4. QED BY <1>f, <3>1, <3>2, <3>3 DEF AuditInv, SeenEmpty
  <2>2. QED BY <2>1 DEF SeenEmpty
<1>4. EntryKept'
  <2>1. \A j \in Loggers : pc'[j] = "export" => pc[j] = "export"
    BY <1>0
  <2>2. ASSUME ~deployment.persists, May("power"), entry = "cached"
        PROVE  \E j \in Loggers : /\ ~existed'[j]
                                  /\ \/ pc'[j] \in {"new", "header", "dir"}
                                     \/ pc'[j] = "opened" /\ sawEmpty'[j]
    <3>1. PICK j \in Loggers : /\ ~existed[j]
                               /\ \/ pc[j] \in {"new", "header", "dir"}
                                  \/ pc[j] = "opened" /\ sawEmpty[j]
      BY <2>2 DEF AuditInv, EntryKept
    <3>2. j # i
      BY <2>2, <3>1
    <3>3. QED BY <1>0, <3>1, <3>2
  <2>3. QED BY <1>0, <2>1, <2>2 DEF AuditInv, EntryKept
<1>5. ReportsKept'
  BY <1>0 DEF AuditInv, ReportsKept
<1>6. LegacyKept' /\ (~deployment'.legacy => CsvDerived')
  <2>1. LegacyKept'
    BY <1>0, <1>f DEF AuditInv, LegacyKept
  <2>2. QED BY <2>1 DEF AuditInv, CsvDerived
<1>7. QED BY <1>1, <1>2, <1>3, <1>4, <1>5, <1>6 DEF AuditInv

\* No open gives up where the directory entry hangs on it.
LEMMA OpenFailsKeep ==
  ASSUME AuditInv, AuditTypeOK', NEW i \in Loggers,
         LockRefused(i) \/ ReplayFails(i) \/ LegacyCsv(i) \/ HeaderTorn(i) \/ OpenFails(i)
  PROVE  AuditInv'
<1>1. ASSUME ~deployment.persists, May("power"), entry = "cached"
      PROVE  Alone(deployment) /\ ~May("io") /\ csv = <<>>
  BY <1>1 DEF AuditInv, Sound, EntryKept
<1>2. CASE HeaderTorn(i)
  <2>1. /\ pc[i] = "new" /\ May("io") /\ Abandon(i) /\ UNCHANGED <<disk, entry, csv>>
        /\ file' = file \/ file' = Put(file, 1, Torn)
    BY <1>2 DEF HeaderTorn
  <2>2. Blank(file) /\ disk # <<Torn>>
    BY <2>1 DEF AuditInv, KnowsFile
  <2>3. disk \in {<<>>, <<Header>>}
    BY <2>2, ReportsInFile
  <2>4. file' = file \/ file' = <<Torn>>
    BY <2>1, <2>2, PutFirst
  <2>5. FilesAgree'
    BY <2>1, <2>3, <2>4, OneItem DEF AuditInv, FilesAgree
  <2>6. QED BY <1>1, <2>1, <2>4, <2>5, AbandonKeeps
<1>3. CASE ~HeaderTorn(i)
  <2>1. /\ pc[i] \in {"opened", "new", "header", "dir", "csv"} /\ Abandon(i)
        /\ UNCHANGED <<file, disk, entry, csv>>
    BY <1>3 DEF LockRefused, ReplayFails, LegacyCsv, OpenFails
  <2>2. FilesAgree'
    BY <2>1 DEF AuditInv, FilesAgree
  <2>3. ASSUME ~deployment.persists, May("power"), entry = "cached"
        PROVE  pc[i] = "csv" \/ (pc[i] = "opened" /\ ~sawEmpty[i])
    <3>1. CASE LockRefused(i)
      <4>1. pc[i] = "opened" /\ holder # NoLogger
        <5>1. Bytes(file) <= Limit /\ Bytes(file) \in Int /\ Limit \in Int
          BY BytesOf, AuditAssumption DEF AuditInv, AuditTypeOK, FilesAgree
        <5>2. QED BY <3>1, <5>1 DEF LockRefused
      <4>2. holder \in Loggers /\ pc[holder] \in Holding
        BY <4>1 DEF AuditInv, AuditTypeOK, FlockHeld
      <4>3. holder \in deployment.loggers /\ i \in deployment.loggers /\ holder # i
        BY <4>1, <4>2 DEF AuditInv, FlockHeld, Holding, Open
      <4>4. QED BY <1>1, <2>3, <4>3 DEF Alone
    <3>2. CASE ReplayFails(i)
      BY <3>2 DEF ReplayFails
    <3>3. CASE LegacyCsv(i)
      BY <1>1, <2>3, <3>3 DEF LegacyCsv
    <3>4. CASE OpenFails(i)
      BY <1>1, <2>3, <3>4 DEF OpenFails
    <3>5. QED BY <1>3, <3>1, <3>2, <3>3, <3>4
  <2>4. QED BY <2>1, <2>2, <2>3, AbandonKeeps
<1>4. QED BY <1>2, <1>3

-----------------------------------------------------------------------------
(* The end of a logger, and of the machine.                                 *)

\* Where a logger can be killed nobody else has judged the journal too early.
LEMMA ExitKeeps ==
  ASSUME AuditInv, AuditTypeOK', NEW i \in Loggers, Exit(i)
  PROVE  AuditInv'
<1> USE DEF Exit
<1>0. /\ pc'[i] = "closed" /\ buf'[i] = <<>> /\ csvOk'[i]
      /\ \A j \in Loggers : j # i => /\ pc'[j] = pc[j] /\ trail'[j] = trail[j]
                                     /\ buf'[j] = buf[j] /\ csvOk'[j] = csvOk[j]
      /\ pc[i] = "closed" \/ May("kill")
      /\ pc[i] # "closed" => i \in deployment.loggers
  BY DEF AuditInv, AuditTypeOK, FlockHeld
<1>1. FlockHeld' /\ FilesAgree' /\ Sound(deployment)'
  <2>1. \A j \in Loggers : pc'[j] # "closed" => j \in deployment.loggers
    BY <1>0 DEF AuditInv, FlockHeld
  <2>2. \A j \in Loggers : pc'[j] \in Holding <=> holder' = j
    <3>1. ASSUME NEW j \in Loggers, j # i PROVE pc'[j] \in Holding <=> holder' = j
      BY <1>0, <3>1, AuditAssumption DEF AuditInv, FlockHeld
    <3>2. pc'[i] \notin Holding /\ holder' # i
      BY <1>0, AuditAssumption DEF Holding, Open
    <3>3. QED BY <3>1, <3>2
  <2>3. QED BY <2>1, <2>2 DEF AuditInv, FlockHeld, FilesAgree
<1>2. ASSUME NEW j \in Loggers PROVE KnowsFile(j)' /\ BufferShape(j)'
  <2>1. CASE j = i
    BY <1>0, <2>1 DEF KnowsFile, BufferShape, Open
  <2>2. CASE j # i
    BY <1>0, <2>2 DEF AuditInv, KnowsFile, BufferShape
  <2>3. QED BY <2>1, <2>2
<1>3. SeenEmpty'
  <2>1. ASSUME NEW j \in Loggers, pc'[j] = "opened", sawEmpty'[j]
        PROVE  /\ disk' # <<Torn>>
               /\ Alone(deployment') => file' = <<>>
               /\ Blank(file') \/ csv' # <<>> \/ \E h \in Loggers : pc'[h] \in Open /\ buf'[h] # <<>>
    <3>1. j # i /\ pc[j] = "opened" /\ sawEmpty[j] /\ j \in deployment.loggers
      BY <1>0, <2>1 DEF AuditInv, FlockHeld
    <3>2. pc[i] \notin Open \/ buf[i] = <<>>
      <4>1. CASE pc[i] = "closed"
        BY <4>1 DEF Open
      <4>2. CASE pc[i] # "closed"
        <5>1. May("kill") /\ ~Alone(deployment)
          BY <1>0, <3>1, <4>2 DEF Alone
        <5>2. deployment.legacy
          BY <5>1 DEF AuditInv, Sound
        <5>3. QED BY <5>2 DEF AuditInv, LegacyKept
      <4>3. QED BY <4>1, <4>2
    <3>3. \A h \in Loggers : pc[h] \in Open /\ buf[h] # <<>> => pc'[h] \in Open /\ buf'[h] # <<>>
      BY <1>0, <3>2
    <3>4. QED BY <3>1, <3>3 DEF AuditInv, SeenEmpty
  <2>2. QED BY <2>1 DEF SeenEmpty
<1>4. EntryKept'
  <2>1. \A j \in Loggers : pc'[j] = "export" => pc[j] = "export"
    BY <1>0
  <2>2. ASSUME ~deployment.persists, May("power"), entry = "cached"
        PROVE  \E j \in Loggers : /\ ~existed'[j]
                                  /\ \/ pc'[j] \in {"new", "header", "dir"}
                                     \/ pc'[j] = "opened" /\ sawEmpty'[j]
    <3>1. PICK j \in Loggers : /\ ~existed[j]
                               /\ \/ pc[j] \in {"new", "header", "dir"}
                                  \/ pc[j] = "opened" /\ sawEmpty[j]
      BY <2>2 DEF AuditInv, EntryKept
    <3>2. ~May("kill")
      BY <2>2 DEF AuditInv, Sound
    <3>3. j # i
      BY <1>0, <3>1, <3>2
    <3>4. QED BY <1>0, <3>1, <3>3
  <2>3. entry = "none" =>
          \A j \in Loggers : pc'[j] \in {"closed", "looked"} /\ (pc'[j] = "looked" => ~existed'[j])
    BY <1>0 DEF AuditInv, EntryKept
  <2>4. QED BY <2>1, <2>2, <2>3 DEF AuditInv, EntryKept
<1>5. ReportsKept'
  BY <1>0 DEF AuditInv, ReportsKept
<1>6. LegacyKept' /\ (~deployment'.legacy => CsvDerived')
  BY <1>0 DEF AuditInv, LegacyKept, CsvDerived
<1>7. QED BY <1>1, <1>2, <1>3, <1>4, <1>5, <1>6 DEF AuditInv

\* A power failure leaves a readable journal with every record that was synced.
LEMMA PowerLossLeaves ==
  ASSUME AuditInv, file' \in Survivors
  PROVE  /\ file' \in Seq(Item) /\ WellFormed(file') /\ Bytes(file') <= Limit
         /\ Records(disk) \subseteq Records(file')
         /\ file = <<>> => file' = <<>>
<1>0. /\ file \in Seq(Item) /\ disk \in Seq(Item) /\ WellFormed(file) /\ Bytes(file) <= Limit
      /\ Len(file) \in Nat /\ Len(disk) \in Nat
  BY DEF AuditInv, AuditTypeOK, FilesAgree
<1>1. CASE Begins(disk, file)
  <2>1. Len(disk) <= Len(file)
    BY <1>1 DEF Begins
  <2>2. ASSUME NEW m \in Len(disk)..Len(file), NEW f,
               \/ f = SubSeq(file, 1, m)
               \/ m < Len(file) /\ f = Append(SubSeq(file, 1, m), Torn)
        PROVE  /\ f \in Seq(Item) /\ WellFormed(f) /\ Bytes(f) <= Limit
               /\ Records(disk) \subseteq Records(f)
               /\ file = <<>> => f = <<>>
    <3> DEFINE cut == SubSeq(file, 1, m)
    <3>1. /\ cut \in Seq(Item) /\ Len(cut) = m /\ \A k \in 1..m : cut[k] = file[k]
          /\ WellFormed(cut) /\ (m < Len(file) => WellFormed(Append(cut, Torn)))
          /\ m \in Nat /\ m <= Len(file) /\ Len(disk) <= m
      BY <1>0, CutShort
    <3>2. f = cut \/ (m < Len(file) /\ f = Append(cut, Torn))
      BY <2>2
    <3> HIDE DEF cut
    <3>3. /\ f \in Seq(Item) /\ WellFormed(f) /\ Len(f) <= Len(file)
          /\ Len(f) >= m /\ \A k \in 1..m : f[k] = file[k]
      <4>1. CASE f = cut
        BY <3>1, <4>1
      <4>2. CASE m < Len(file) /\ f = Append(cut, Torn)
        BY <1>0, <3>1, <4>2, NoRecord
      <4>3. QED BY <3>2, <4>1, <4>2
    <3>4. Begins(disk, f)
      BY <1>0, <1>1, <3>1, <3>3 DEF Begins
    <3>5. Bytes(f) <= Limit
      <4>1. Bytes(f) <= Bytes(file) /\ Bytes(f) \in Int /\ Bytes(file) \in Int /\ Limit \in Int
        BY <1>0, <3>3, BytesOf, AuditAssumption
      <4>2. QED BY <1>0, <4>1
    <3>6. file = <<>> => f = <<>>
      BY <3>3
    <3>7. QED BY <1>0, <3>3, <3>4, <3>5, <3>6, RecordsOf
  <2>3. \/ \E m \in Len(disk)..Len(file) : file' = SubSeq(file, 1, m)
        \/ \E m \in Len(disk)..(Len(file) - 1) : file' = Append(SubSeq(file, 1, m), Torn)
    BY <1>0, <1>1, SurvivorsOfPrefix
  <2>4. \A m \in Len(disk)..(Len(file) - 1) : m \in Len(disk)..Len(file) /\ m < Len(file)
    BY <1>0
  <2>5. QED BY <2>2, <2>3, <2>4
<1>2. CASE disk = <<Header>> /\ file = <<Torn>>
  <2>1. Blank(file') /\ Blank(disk)
    BY <1>2, SurvivorsOfBlank, OneItem
  <2>2. file' \in Seq(Item)
    <3>1. <<>> \in Seq(Item)
      OBVIOUS
    <3>2. QED BY <2>1, <3>1, OneItem, Zenon DEF Blank
  <2>3. file # <<>>
    BY <1>2
  <2>4. QED BY <1>0, <2>1, <2>2, <2>3, RecordsOf, BytesOf
<1>3. QED BY <1>1, <1>2 DEF AuditInv, FilesAgree

\* After a power failure nobody has the journal open.
LEMMA PowerLossKeeps ==
  ASSUME AuditInv, AuditTypeOK', PowerLoss
  PROVE  AuditInv'
<1> USE DEF PowerLoss
<1>0. \A j \in Loggers : pc'[j] = "closed" /\ trail'[j] = <<>> /\ buf'[j] = <<>> /\ csvOk'[j]
  OBVIOUS
<1>1. /\ file' \in Seq(Item) /\ WellFormed(file') /\ Bytes(file') <= Limit
      /\ journalled \subseteq Records(file') /\ disk' = file'
      /\ file = <<>> => file' = <<>>
  <2>1. CASE file' \in Survivors
    BY <2>1, PowerLossLeaves DEF AuditInv, ReportsKept
  <2>2. CASE entry = "cached" /\ file' = <<>>
    <3>1. journalled = {}
      BY <2>2 DEF AuditInv, EntryKept
    <3>2. <<>> \in Seq(Item)
      OBVIOUS
    <3>3. QED BY <2>2, <3>1, <3>2, OneItem
  <2>3. QED BY <2>1, <2>2
<1>2. FlockHeld' /\ FilesAgree' /\ Sound(deployment)'
  <2>1. FlockHeld'
    BY <1>0, AuditAssumption DEF FlockHeld, Holding, Open
  <2>2. FilesAgree'
    BY <1>1, RecordsOf DEF FilesAgree
  <2>3. QED BY <2>1, <2>2 DEF AuditInv
<1>3. ASSUME NEW j \in Loggers PROVE KnowsFile(j)' /\ BufferShape(j)'
  BY <1>0 DEF KnowsFile, BufferShape, Open
<1>4. SeenEmpty'
  BY <1>0 DEF SeenEmpty
<1>5. EntryKept'
  <2>1. entry' # "cached" /\ (entry' = "none" => file' = <<>> /\ entry # "durable")
    <3>1. entry = "none" => file = <<>>
      BY DEF AuditInv, EntryKept
    <3>2. QED BY <1>1, <3>1
  <2>2. journalled # {} => entry = "durable"
    BY DEF AuditInv, EntryKept
  <2>3. ASSUME ~deployment.persists, entry' = "none" PROVE csv' = <<>>
    <3>1. csv = <<>>
      BY <2>1, <2>3 DEF AuditInv, EntryKept
    <3>2. QED BY <3>1
  <2>4. journalled # {} => entry' = "durable"
    BY <2>2
  <2>5. entry' \in {"none", "durable"}
    OBVIOUS
  <2>6. QED BY <1>0, <1>1, <2>1, <2>3, <2>4, <2>5 DEF EntryKept
<1>6. ReportsKept'
  BY <1>0, <1>1 DEF ReportsKept
<1>7. LegacyKept' /\ CsvDerived'
  <2>1. ~deployment.legacy /\ CsvDerived /\ csv \in Seq(Row)
    BY DEF AuditInv, AuditTypeOK, Sound
  <2>2. PICK n \in 0..Len(csv) : csv' = SubSeq(csv, 1, n)
    OBVIOUS
  <2>3. Len(csv') = n /\ \A k \in 1..n : csv'[k] = csv[k] /\ k \in 1..Len(csv)
    BY <2>1, <2>2
  <2>4. QED BY <2>1, <2>3 DEF LegacyKept, CsvDerived
<1>8. QED BY <1>2, <1>3, <1>4, <1>5, <1>6, <1>7 DEF AuditInv

-----------------------------------------------------------------------------
(* The theorems.                                                            *)

\* No step of a sound deployment breaks what the journal, the CSV and the loggers
\* know of each other.
LEMMA AuditStep == ASSUME AuditInv, [AuditNext]_auditVars PROVE AuditInv'
<1>0. AuditTypeOK'
  BY AuditTypesKept
<1>1. ASSUME NEW i \in Loggers, OpenSteps(i) PROVE AuditInv'
  BY <1>0, <1>1, LookKeeps, OpenFileKeeps, LockReplayKeeps, LockNewKeeps, WriteHeaderKeeps,
     SyncHeaderKeeps, SyncDirKeeps, OpenCsvKeeps, OpenFailsKeep
  DEF OpenSteps
<1>2. ASSUME NEW i \in Loggers, LogSteps(i) PROVE AuditInv'
  BY <1>0, <1>2, LogWriteKeeps, LogSyncKeeps, LogFailsKeep, ExportRowKeeps, ExportFailsKeeps
  DEF LogSteps
<1>3. ASSUME NEW i \in Loggers, Close(i) \/ Exit(i) PROVE AuditInv'
  BY <1>0, <1>3, LogFailsKeep, ExitKeeps
<1>4. CASE PowerLoss
  BY <1>0, <1>4, PowerLossKeeps
<1>5. CASE UNCHANGED auditVars
  <2>1. UNCHANGED <<deployment, file, disk, entry, csv, holder, pc, existed, sawEmpty, trail,
                    buf, csvOk, journalled>>
    BY <1>5 DEF auditVars, fileVars, loggerVars
  <2>2. UNCHANGED <<Sound(deployment), FlockHeld, FilesAgree, SeenEmpty>>
    BY <2>1 DEF FlockHeld, FilesAgree, SeenEmpty
  <2>3. UNCHANGED <<EntryKept, ReportsKept, LegacyKept, CsvDerived>>
    BY <2>1 DEF EntryKept, ReportsKept, LegacyKept, CsvDerived
  <2>4. \A j \in Loggers : UNCHANGED <<KnowsFile(j), BufferShape(j)>>
    BY <2>1 DEF KnowsFile, BufferShape
  <2>5. QED BY <1>0, <2>1, <2>2, <2>3, <2>4 DEF AuditInv
<1>6. QED BY <1>1, <1>2, <1>3, <1>4, <1>5 DEF AuditNext

\* What the invariant says of the journal that the next open reads.
LEMMA InvariantMeansWhole == AuditInv => JournalWhole /\ JournalledKept
<1> SUFFICES ASSUME AuditInv PROVE JournalWhole /\ JournalledKept
  OBVIOUS
<1>0. file \in Seq(Item) /\ WellFormed(file) /\ Bytes(file) <= Limit /\ Len(file) \in Nat
  BY DEF AuditInv, AuditTypeOK, FilesAgree
<1>1. JournalReadable
  <2>1. CASE file = <<>>
    BY <2>1 DEF JournalReadable
  <2>2. CASE file # <<>>
    <3>1. Last(file) = file[Len(file)] /\ Len(file) >= 1
      BY <1>0, <2>2 DEF Last
    <3>2. CASE Last(file) # Torn
      BY <1>0, <2>2, <3>1, <3>2, ReplayableMeans DEF JournalReadable
    <3>3. CASE Last(file) = Torn
      <4>1. Len(file) - 1 \in 0..Len(file) /\ Len(file) - 1 < Len(file)
        BY <1>0, <3>1
      <4>2. Front(file) = <<>> \/ Replayable(Front(file))
        BY <1>0, <4>1, CutShort DEF Front
      <4>3. QED BY <3>3, <4>2 DEF JournalReadable
    <3>4. QED BY <3>2, <3>3
  <2>3. QED BY <2>1, <2>2
<1>2. TrailIsJournal
  BY DEF AuditInv, FlockHeld, KnowsFile, TrailIsJournal, Holding, Open
<1>3. CsvExports
  BY DEF AuditInv, LegacyKept, CsvDerived, ReportsKept, CsvExports
<1>4. QED BY <1>1, <1>2, <1>3 DEF AuditInv, JournalWhole, JournalledKept, ReportsKept

\* The inductive invariant of the audit journal, in sound deployments.
THEOREM AuditInvariant ==
  ASSUME \A d \in Deployments : Sound(d)
  PROVE  AuditSpec => []AuditInv
<1>1. ASSUME AuditInit PROVE AuditInv
  <2> USE <1>1 DEF AuditInit
  <2>1. /\ pc \in [Loggers -> Places] /\ trail \in [Loggers -> Chain] /\ buf \in [Loggers -> Seq(Row)]
        /\ existed \in [Loggers -> BOOLEAN] /\ sawEmpty \in [Loggers -> BOOLEAN]
        /\ csvOk \in [Loggers -> BOOLEAN]
    BY DEF Places, Chain
  <2>2. csv \in Seq(Row) /\ file \in Seq(Item) /\ disk \in Seq(Item)
    <3>1. <<Legacy>> \in Seq(Row) /\ <<>> \in Seq(Row) /\ <<>> \in Seq(Item)
      BY DEF Row
    <3>2. QED BY <3>1
  <2>3. AuditTypeOK
    BY <2>1, <2>2 DEF AuditTypeOK
  <2>4. Sound(deployment)
    OBVIOUS
  <2>5. FlockHeld
    BY AuditAssumption DEF FlockHeld, Holding, Open
  <2>6. FilesAgree
    BY OneItem DEF FilesAgree
  <2>7. \A i \in Loggers : KnowsFile(i) /\ BufferShape(i)
    BY DEF KnowsFile, BufferShape, Open
  <2>8. SeenEmpty
    BY DEF SeenEmpty
  <2>9. EntryKept
    <3>1. ~deployment.persists /\ May("power") => ~deployment.legacy
      BY <2>4 DEF Sound
    <3>2. QED BY <3>1 DEF EntryKept
  <2>10. ReportsKept
    BY DEF ReportsKept
  <2>11. LegacyKept
    BY DEF LegacyKept
  <2>12. ~deployment.legacy => CsvDerived
    BY DEF CsvDerived
  <2>13. QED
    BY <2>3, <2>4, <2>5, <2>6, <2>7, <2>8, <2>9, <2>10, <2>11, <2>12 DEF AuditInv
<1>2. QED BY <1>1, AuditStep, PTL DEF AuditSpec

\* In sound deployments the journal can be read again in every state, an open
\* logger's trail is the journal and the CSV is derived from it, whatever is torn,
\* fails, is killed or loses power.
THEOREM JournalStaysWhole ==
  ASSUME \A d \in Deployments : Sound(d)
  PROVE  AuditSpec => []JournalWhole
BY AuditInvariant, InvariantMeansWhole, PTL

\* In sound deployments no record that logDecision reported is lost, through
\* failures, kills, power failures and later opens.
THEOREM ReportsSurvive ==
  ASSUME \A d \in Deployments : Sound(d)
  PROVE  AuditSpec => []JournalledKept
BY AuditInvariant, InvariantMeansWhole, PTL
=============================================================================
