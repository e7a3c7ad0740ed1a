------------------------ MODULE AlpacaSafetyProofs ------------------------
(* Theorems about AlpacaSubmit, for any number of instances and orders, any
   limits and any combination of faults: type correctness, the inductive
   invariant, why every step keeps it, and the safety properties that follow;
   and about IntentReplay: the reading loop of IntentJournal's constructor is
   exact, on journals of any length. *)
EXTENDS AlpacaSubmit, IntentReplay, FiniteSetTheorems, TLAPS

USE DEF Goto

-----------------------------------------------------------------------------
(* The records of a journal: what appending a line and cutting a journal short
   do to the orders that are reserved and acknowledged. *)

\* The lines a writer appends are lines.
LEMMA LineTypes ==
  ASSUME NEW o \in Orders, NEW n \in Nat
  PROVE  /\ PendingLine(o, n) \in Line
         /\ AckLine(o, n) \in Line
         /\ HeaderLine \in Line
         /\ TornLine \in Line
  BY DEF Line, PendingLine, AckLine

\* Appending a line adds at most its own order (append in intent_journal.hpp).
LEMMA AppendRecords ==
  ASSUME NEW text \in Seq(Line), NEW l \in Line
  PROVE  /\ Reserved(Append(text, l)) =
              Reserved(text) \union (IF l.kind = "P" THEN {l.order} ELSE {})
         /\ Acked(Append(text, l)) =
              Acked(text) \union (IF l.kind = "A" THEN {l.order} ELSE {})
  <1> DEFINE new == Append(text, l)
             n == Len(text)
  <1>1. /\ n \in Nat
        /\ DOMAIN text = 1..n
        /\ DOMAIN new = 1..(n + 1)
        /\ new[n + 1] = l
        /\ \A i \in 1..n : new[i] = text[i]
    OBVIOUS
  <1>2. \A k \in {"P", "A"} :
          {new[i].order : i \in {j \in 1..(n + 1) : new[j].kind = k}} =
          {text[i].order : i \in {j \in 1..n : text[j].kind = k}}
            \union (IF l.kind = k THEN {l.order} ELSE {})
    <2> HIDE DEF new, n
    <2> QED BY <1>1
  <1> QED BY <1>1, <1>2 DEF Reserved, Acked

\* A journal whose lines all stand at the same place in another records nothing
\* the other does not.
LEMMA SharedLines ==
  ASSUME NEW short, NEW long,
         DOMAIN short \subseteq DOMAIN long,
         \A i \in DOMAIN short : short[i] = long[i]
  PROVE  Reserved(short) \subseteq Reserved(long) /\ Acked(short) \subseteq Acked(long)
  BY DEF Reserved, Acked

\* A prefix of a journal is a journal, and records nothing the journal does not.
LEMMA PrefixRecords ==
  ASSUME NEW text \in Seq(Line), NEW m \in 0..Len(text), NEW n \in m..Len(text)
  PROVE  /\ SubSeq(text, 1, n) \in Seq(Line)
         /\ Len(SubSeq(text, 1, n)) = n
         /\ SubSeq(SubSeq(text, 1, n), 1, m) = SubSeq(text, 1, m)
         /\ Reserved(SubSeq(text, 1, m)) \subseteq Reserved(SubSeq(text, 1, n))
         /\ Reserved(SubSeq(text, 1, n)) \subseteq Reserved(text)
         /\ Acked(SubSeq(text, 1, n)) \subseteq Acked(text)
  <1> DEFINE prefix(k) == SubSeq(text, 1, k)
  <1>1. ASSUME NEW k \in 0..Len(text)
        PROVE  /\ prefix(k) \in Seq(Line)
               /\ Len(prefix(k)) = k
               /\ DOMAIN prefix(k) = 1..k
               /\ \A i \in 1..k : prefix(k)[i] = text[i]
    OBVIOUS
  <1>2. /\ m \in 0..Len(text) /\ n \in 0..Len(text)
        /\ 1..m \subseteq 1..n /\ 1..n \subseteq DOMAIN text
    OBVIOUS
  <1>3. SubSeq(prefix(n), 1, m) = prefix(m)
    OBVIOUS
  <1> HIDE DEF prefix
  <1>4. Reserved(prefix(m)) \subseteq Reserved(prefix(n))
    BY <1>1, <1>2, SharedLines
  <1>5. Reserved(prefix(n)) \subseteq Reserved(text) /\ Acked(prefix(n)) \subseteq Acked(text)
    BY <1>1, <1>2, SharedLines
  <1> QED BY <1>1, <1>2, <1>3, <1>4, <1>5 DEF prefix

\* Appending a line leaves every prefix of the journal alone.
LEMMA AppendKeepsPrefix ==
  ASSUME NEW text \in Seq(Line), NEW l \in Line, NEW m \in 0..Len(text)
  PROVE  /\ SubSeq(Append(text, l), 1, m) = SubSeq(text, 1, m)
         /\ Append(text, l) \in Seq(Line)
         /\ Len(Append(text, l)) = Len(text) + 1
  OBVIOUS

\* A whole journal is a prefix of itself.
LEMMA WholePrefix ==
  ASSUME NEW text \in Seq(Line)
  PROVE  SubSeq(text, 1, Len(text)) = text
  OBVIOUS

\* The orders of a journal's records are orders, and no journal without records
\* has any.
LEMMA RecordedOrders ==
  ASSUME NEW text \in Seq(Line)
  PROVE  /\ Reserved(text) \subseteq Orders /\ Acked(text) \subseteq Orders
         /\ Reserved(<<>>) = {} /\ Acked(<<>>) = {}
         /\ Reserved(<<HeaderLine>>) = {} /\ Acked(<<HeaderLine>>) = {}
  <1>1. \A i \in DOMAIN text : text[i] \in Line
    OBVIOUS
  <1>2. \A l \in Line : l.kind \in {"P", "A"} => l.order \in Orders
    BY DEF Line, HeaderLine, TornLine
  <1>3. Reserved(text) \subseteq Orders /\ Acked(text) \subseteq Orders
    BY <1>1, <1>2 DEF Reserved, Acked
  <1> QED BY <1>3 DEF Reserved, Acked, HeaderLine

-----------------------------------------------------------------------------
(* Type correctness, in the three parts of TypeOK. *)

\* What survives a power loss is a journal.
LEMMA SurvivorTypes ==
  ASSUME FileOK
  PROVE  SurvivingLogs \subseteq Seq(Line)
  <1>1. \A n \in synced..Len(log) : SubSeq(log, 1, n) \in Seq(Line)
    BY DEF FileOK
  <1>2. \A n \in synced..(Len(log) - 1) : n \in synced..Len(log)
    BY DEF FileOK
  <1>3. \A text \in Seq(Line) : Append(text, TornLine) \in Seq(Line)
    BY DEF Line
  <1>4. <<>> \in Seq(Line)
    OBVIOUS
  <1> QED BY <1>1, <1>2, <1>3, <1>4, Zenon DEF SurvivingLogs

\* The file keeps its shape: what a writer appends, an fsync or a power loss
\* does to the journal leaves a sequence of lines and a synced prefix of it.
LEMMA FileTypes ==
  ASSUME TypeOK, [Next]_vars
  PROVE  FileOK'
<1> USE DEF FileOK
<1>f. FileOK /\ log \in Seq(Line) /\ Len(log) \in Nat
  BY DEF TypeOK
<1>a. \A l \in Line : Append(log, l) \in Seq(Line) /\ synced \in 0..Len(Append(log, l))
  BY <1>f
<1>t. TornWrite => log' \in Seq(Line) /\ synced \in 0..Len(log')
  <2>1. TornLine \in Line
    BY DEF Line
  <2> QED BY <1>a, <1>f, <2>1 DEF TornWrite
<1>s. Fsync => synced' = Len(log) /\ dirSynced' \in BOOLEAN
  BY DEF Fsync
<1>0. CASE UNCHANGED vars
  BY <1>f, <1>0 DEF vars, fileVars
<1>1. ASSUME NEW p \in Procs, Constructor(p) PROVE FileOK'
  <2>1. CASE OpenLocked(p)
    BY <1>f, <2>1 DEF OpenLocked, Disable
  <2>2. CASE OpenNew(p)
    <3>1. <<HeaderLine>> \in Seq(Line) /\ Len(<<HeaderLine>>) = 1
      BY DEF Line
    <3>2. synced \in 0..1
      BY <1>f, <2>2 DEF OpenNew
    <3> QED BY <1>f, <2>2, <3>1, <3>2 DEF OpenNew
  <2>3. CASE OpenNewFails(p)
    BY <1>f, <1>t, <2>3 DEF OpenNewFails, Disable
  <2>4. CASE HeaderFsync(p)
    <3>1. dirSynced' \in BOOLEAN
      BY <1>s, <2>4 DEF HeaderFsync
    <3> QED BY <1>f, <1>s, <2>4, <3>1 DEF HeaderFsync
  <2>5. CASE DirFsync(p)
    BY <1>f, <2>5 DEF DirFsync
  <2>6. CASE CreateFails(p)
    BY <1>f, <2>6 DEF CreateFails, Disable
  <2>7. CASE OpenExisting(p)
    BY <1>f, <2>7 DEF OpenExisting
  <2>8. CASE OpenRejected(p)
    BY <1>f, <2>8 DEF OpenRejected, Disable
  <2> QED BY <1>1, <2>1, <2>2, <2>3, <2>4, <2>5, <2>6, <2>7, <2>8 DEF Constructor
<1>2. ASSUME NEW p \in Procs, Submitting(p) PROVE FileOK'
  <2>0. tail[p] \in Nat /\ (pc[p] \in InCall => cur[p] \in Orders)
    BY DEF TypeOK, InstancesOK
  <2>1. CASE ReserveFsync(p) \/ AckFsync(p)
    <3>1. Fsync /\ UNCHANGED <<log, lock>>
      BY <2>1 DEF ReserveFsync, AckFsync
    <3> QED BY <1>f, <1>s, <3>1
  <2>2. CASE Post(p)
    BY <1>f, <2>2 DEF Post, fileVars
  <2>3. CASE Acknowledge(p)
    <3>1. AckLine(cur[p], tail[p]) \in Line
      BY <2>0, <2>3, LineTypes DEF Acknowledge, InCall
    <3> QED BY <1>f, <1>a, <2>3, <3>1 DEF Acknowledge
  <2>4. CASE AcknowledgeThrows(p)
    BY <1>f, <1>t, <2>4 DEF AcknowledgeThrows, LockOut
  <2>5. CASE ReserveFsyncFails(p) \/ PostFails(p) \/ AckFsyncFails(p) \/ Unconfirmed(p)
    BY <1>f, <2>5 DEF ReserveFsyncFails, PostFails, AckFsyncFails, Unconfirmed, LockOut
  <2> QED BY <1>2, <2>1, <2>2, <2>3, <2>4, <2>5 DEF Submitting
<1>3. ASSUME NEW p \in Procs, Exit(p) PROVE FileOK'
  BY <1>f, <1>3 DEF Exit
<1>4. ASSUME NEW p \in Procs, NEW o \in Orders, Submit(p, o) PROVE FileOK'
  <2>1. CASE SubmitCached(p, o)
    BY <1>f, <2>1 DEF SubmitCached, fileVars
  <2>2. CASE SubmitReserve(p, o)
    <3>1. tail[p] \in Nat /\ PendingLine(o, tail[p]) \in Line
      BY LineTypes DEF TypeOK, InstancesOK
    <3> QED BY <1>f, <1>a, <2>2, <3>1 DEF SubmitReserve
  <2>3. CASE SubmitThrows(p, o)
    BY <1>f, <1>t, <2>3 DEF SubmitThrows, LockOut
  <2> QED BY <1>4, <2>1, <2>2, <2>3 DEF Submit
<1>5. ASSUME NEW o \in Orders, BrokerReceives(o) \/ RequestLost(o) PROVE FileOK'
  <2>1. UNCHANGED <<log, synced, dirSynced, lock>>
    <3>1. CASE BrokerReceives(o)
      BY <3>1 DEF BrokerReceives, fileVars
    <3>2. CASE RequestLost(o)
      BY <3>2 DEF RequestLost, fileVars
    <3> QED BY <1>5, <3>1, <3>2
  <2> QED BY <1>f, <2>1
<1>6. CASE PowerLoss
  <2>1. SurvivingLogs \subseteq Seq(Line)
    BY SurvivorTypes DEF TypeOK
  <2>2. \A text \in Seq(Line) : Len(text) \in 0..Len(text) /\ (text # <<>>) \in BOOLEAN
    OBVIOUS
  <2> QED BY <1>6, <2>1, <2>2 DEF PowerLoss
<1> QED BY <1>0, <1>1, <1>2, <1>3, <1>4, <1>5, <1>6 DEF Next

\* LockOut and Disable keep the types of the instances.
LEMMA FailureTypes ==
  ASSUME InstancesOK, NEW p \in Procs, LockOut(p) \/ Disable(p)
  PROVE  InstancesOK'
<1>1. CASE LockOut(p)
  BY <1>1 DEF LockOut, InstancesOK, Places, InCall
<1>2. CASE Disable(p)
  BY <1>2 DEF Disable, InstancesOK, Places, InCall
<1> QED BY <1>1, <1>2

\* The instances keep their types, and a call in progress has its order.
LEMMA InstanceTypes ==
  ASSUME TypeOK, [Next]_vars
  PROVE  InstancesOK'
<1>i. InstancesOK
  BY DEF TypeOK
<1>f. FileOK /\ Reserved(log) \in SUBSET Orders /\ Acked(log) \in SUBSET Orders /\ Len(log) \in Nat
  BY RecordedOrders DEF TypeOK, FileOK
<1>0. CASE UNCHANGED procVars
  BY <1>i, <1>0 DEF procVars, InstancesOK
<1>1. ASSUME NEW p \in Procs, Constructor(p) PROVE InstancesOK'
  <2>1. CASE OpenLocked(p) \/ OpenNewFails(p) \/ CreateFails(p) \/ OpenRejected(p)
    BY <1>i, <2>1, FailureTypes DEF OpenLocked, OpenNewFails, CreateFails, OpenRejected
  <2>2. CASE OpenNew(p) \/ HeaderFsync(p)
    BY <1>i, <2>2 DEF OpenNew, HeaderFsync, InstancesOK, Places, InCall
  <2>3. CASE DirFsync(p)
    BY <1>i, <1>f, <2>3 DEF DirFsync, InstancesOK, Places, InCall
  <2>4. CASE OpenExisting(p)
    BY <1>i, <1>f, <2>4 DEF OpenExisting, InstancesOK, Places, InCall
  <2> QED BY <1>1, <2>1, <2>2, <2>3, <2>4 DEF Constructor
<1>2. ASSUME NEW p \in Procs, Submitting(p) PROVE InstancesOK'
  <2>1. CASE \/ ReserveFsyncFails(p) \/ PostFails(p) \/ AcknowledgeThrows(p)
             \/ AckFsyncFails(p) \/ Unconfirmed(p)
    BY <1>i, <2>1, FailureTypes
    DEF ReserveFsyncFails, PostFails, AcknowledgeThrows, AckFsyncFails, Unconfirmed
  <2>2. CASE ReserveFsync(p)
    BY <1>i, <2>2 DEF ReserveFsync, InstancesOK, Places, InCall
  <2>3. CASE Post(p)
    BY <1>i, <2>3 DEF Post, InstancesOK, Places, InCall
  <2>4. CASE Acknowledge(p)
    BY <1>i, <2>4 DEF Acknowledge, InstancesOK, Places, InCall
  <2>5. CASE AckFsync(p)
    BY <1>i, <2>5 DEF AckFsync, InstancesOK, Places, InCall
  <2> QED BY <1>2, <2>1, <2>2, <2>3, <2>4, <2>5 DEF Submitting
<1>3. ASSUME NEW p \in Procs, Exit(p) PROVE InstancesOK'
  BY <1>i, <1>3 DEF Exit, InstancesOK, Places, InCall
<1>4. ASSUME NEW p \in Procs, NEW o \in Orders, Submit(p, o) PROVE InstancesOK'
  <2>1. CASE SubmitCached(p, o)
    BY <1>0, <2>1 DEF SubmitCached
  <2>2. CASE SubmitReserve(p, o)
    BY <1>i, <2>2 DEF SubmitReserve, InstancesOK, Places, InCall
  <2>3. CASE SubmitThrows(p, o)
    BY <1>i, <2>3, FailureTypes DEF SubmitThrows
  <2> QED BY <1>4, <2>1, <2>2, <2>3 DEF Submit
<1>5. ASSUME NEW o \in Orders, BrokerReceives(o) PROVE InstancesOK'
  <2>1. reply' \in [Procs -> {"none", "ack", "other"}]
    <3>1. ASSUME NEW A \in SUBSET {"ack", "other"}, Answer(o, A)
          PROVE  reply' \in [Procs -> {"none", "ack", "other"}]
      BY <1>i, <3>1 DEF Answer, InstancesOK
    <3> QED BY <1>5, <3>1 DEF BrokerReceives
  <2> QED BY <1>i, <1>5, <2>1 DEF BrokerReceives, InstancesOK
<1>6. ASSUME NEW o \in Orders, RequestLost(o) PROVE InstancesOK'
  BY <1>0, <1>6 DEF RequestLost
<1>7. CASE PowerLoss
  BY <1>7 DEF PowerLoss, InstancesOK, Places, InCall
<1> QED BY <1>0, <1>1, <1>2, <1>3, <1>4, <1>5, <1>6, <1>7 DEF Next, vars

\* The counters of the outside world stay natural numbers: a request is taken
\* off the wire only when it is there.
LEMMA WorldTypes ==
  ASSUME TypeOK, [Next]_vars
  PROVE  WorldOK'
<1>w. WorldOK /\ InstancesOK
  BY DEF TypeOK
<1>0. CASE UNCHANGED worldVars
  BY <1>w, <1>0 DEF worldVars, WorldOK
<1>1. ASSUME NEW p \in Procs, Constructor(p) PROVE UNCHANGED worldVars
  BY <1>1 DEF Constructor, OpenLocked, OpenNew, OpenNewFails, HeaderFsync, DirFsync,
     CreateFails, OpenExisting, OpenRejected, Disable
<1>2. ASSUME NEW p \in Procs, Submitting(p) PROVE WorldOK'
  <2>1. CASE \/ ReserveFsyncFails(p) \/ PostFails(p) \/ AcknowledgeThrows(p)
             \/ AckFsyncFails(p) \/ Unconfirmed(p) \/ ReserveFsync(p) \/ Acknowledge(p)
    BY <1>0, <2>1 DEF ReserveFsyncFails, PostFails, AcknowledgeThrows, AckFsyncFails,
       Unconfirmed, ReserveFsync, Acknowledge, LockOut
  <2>2. CASE Post(p)
    BY <1>w, <2>2 DEF Post, WorldOK, InstancesOK, InCall
  <2>3. CASE AckFsync(p)
    BY <1>w, <2>3 DEF AckFsync, WorldOK, InstancesOK, InCall
  <2> QED BY <1>2, <2>1, <2>2, <2>3 DEF Submitting
<1>3. ASSUME NEW p \in Procs, NEW o \in Orders, Submit(p, o) PROVE WorldOK'
  <2>1. CASE SubmitCached(p, o)
    BY <1>w, <2>1 DEF SubmitCached, WorldOK
  <2>2. CASE SubmitReserve(p, o) \/ SubmitThrows(p, o)
    BY <1>0, <2>2 DEF SubmitReserve, SubmitThrows, LockOut
  <2> QED BY <1>3, <2>1, <2>2 DEF Submit
<1>4. ASSUME NEW o \in Orders, BrokerReceives(o) \/ RequestLost(o) PROVE WorldOK'
  <2>1. /\ wire[o] > 0 /\ wire' = [wire EXCEPT ![o] = @ - 1]
        /\ accepted' = accepted \/ accepted' = [accepted EXCEPT ![o] = @ + 1]
        /\ UNCHANGED <<posts, returned>>
    <3>1. CASE BrokerReceives(o)
      BY <3>1 DEF BrokerReceives
    <3>2. CASE RequestLost(o)
      BY <3>2 DEF RequestLost
    <3> QED BY <1>4, <3>1, <3>2
  <2>2. wire[o] - 1 \in Nat
    BY <1>w, <2>1 DEF WorldOK
  <2>3. wire' \in [Orders -> Nat]
    BY <1>w, <2>1, <2>2 DEF WorldOK
  <2>4. accepted' \in [Orders -> Nat]
    BY <1>w, <2>1 DEF WorldOK
  <2> QED BY <1>w, <2>1, <2>3, <2>4 DEF WorldOK
<1>5. CASE PowerLoss \/ \E p \in Procs : Exit(p)
  BY <1>0, <1>5 DEF PowerLoss, Exit
<1> QED BY <1>0, <1>1, <1>2, <1>3, <1>4, <1>5 DEF Next, vars

\* The initial state has the types.
LEMMA InitialTypes ==
  ASSUME Init
  PROVE  TypeOK
<1>1. FileOK
  <2>1. <<>> \in Seq(Line) /\ 0 \in 0..Len(<<>>)
    OBVIOUS
  <2>2. log \in Seq(Line) /\ synced \in 0..Len(log)
    BY <2>1 DEF Init
  <2> QED BY <2>2 DEF Init, FileOK
<1>2. InstancesOK
  BY DEF Init, InstancesOK, Places, InCall
<1>3. WorldOK
  BY DEF Init, WorldOK
<1> QED BY <1>1, <1>2, <1>3 DEF TypeOK

\* Every step keeps them.
LEMMA TypeStep ==
  ASSUME TypeOK, [Next]_vars
  PROVE  TypeOK'
  BY FileTypes, InstanceTypes, WorldTypes DEF TypeOK

\* Every variable of the protocol keeps its type, through every fault.
THEOREM TypeCorrect == Spec => []TypeOK
  BY InitialTypes, TypeStep, PTL DEF Spec

-----------------------------------------------------------------------------
(* The inductive invariant. *)

\* No step of the protocol outlives the directory entry of the journal: an
\* fsync of the file persists it, or the machine never dies.
DirEntrySafe == FsyncPersistsEntry \/ "power" \notin Faults

Up(p) == pc[p] \notin {"down", "disabled"}

Sent == {o \in Orders : posts[o] > 0}

\* An instance that has the journal open holds the flock; one that has not, or
\* is creating it, knows no entries.
HoldsJournal(p) ==
  /\ Up(p) <=> lock = p
  /\ ~Up(p) \/ pc[p] \in {"header", "dirsync"} => reserved[p] = {} /\ acked[p] = {}
  /\ pc[p] \in {"header", "dirsync"} => Reserved(log) = {}

\* What an instance may rely on at each place of submitOrder.
KnowsJournal(p) ==
  /\ pc[p] = "idle" /\ ~locked[p] => reserved[p] = Reserved(log) /\ Sent \subseteq acked[p]
  /\ pc[p] = "reserve" =>
       /\ Reserved(log) = reserved[p] \union {cur[p]}
       /\ Sent \subseteq acked[p] \intersect reserved[p]
       /\ \A e \in reserved[p] : ~Conflict(e, cur[p])
       /\ cur[p].notional <= MaxPosition
  /\ pc[p] = "post" =>
       /\ reserved[p] = Reserved(log)
       /\ cur[p] \in Reserved(Durable)
       /\ Sent \subseteq acked[p]
       /\ \A e \in Sent : ~Conflict(e, cur[p])
       /\ cur[p].notional <= MaxPosition
  /\ pc[p] \in {"await", "ack"} =>
       reserved[p] = Reserved(log) /\ Sent \subseteq acked[p] \union {cur[p]}
  /\ pc[p] = "ack" => cur[p] \in Acked(log)
  /\ acked[p] \subseteq Acked(log)

\* The answer an instance holds answers its own request.
KnowsAnswer(p) ==
  /\ reply[p] # "none" => pc[p] = "await"
  /\ reply[p] = "ack" => accepted[cur[p]] >= 1

\* Once an order may leave, no fault can take the journal away.
Secured ==
  Sent # {} \/ (\E p \in Procs : pc[p] = "post") => dirSynced \/ "power" \notin Faults

\* The broker sees no request that was not sent.
Conserved == \A o \in Orders : wire[o] + accepted[o] <= posts[o]

JournalInv ==
  /\ \A p \in Procs : HoldsJournal(p) /\ KnowsJournal(p)
  /\ Secured
  /\ WrittenAhead

WorldInv ==
  /\ \A p \in Procs : KnowsAnswer(p)
  /\ Conserved
  /\ AtMostOncePost
  /\ AcknowledgedWasAccepted

IInv == TypeOK /\ JournalInv /\ WorldInv

-----------------------------------------------------------------------------
(* How the journal may change in a step. *)

SameFile == UNCHANGED <<log, synced, dirSynced>>
Appended(l) == log' = Append(log, l) /\ UNCHANGED <<synced, dirSynced>>
Synced == log' = log /\ Fsync

\* What the journal records is not lost while the machine lives.
LEMMA JournalGrows ==
  ASSUME TypeOK, SameFile \/ Synced \/ \E l \in Line : Appended(l)
  PROVE  /\ Reserved(log) \subseteq Reserved(log')
         /\ Acked(log) \subseteq Acked(log')
         /\ Reserved(Durable) \subseteq Reserved(Durable')
         /\ dirSynced => dirSynced'
  <1>t. log \in Seq(Line) /\ synced \in 0..Len(log) /\ dirSynced \in BOOLEAN
    BY DEF TypeOK, FileOK
  <1>1. CASE SameFile
    BY <1>1 DEF SameFile, Durable
  <1>2. CASE Synced
    <2>1. Durable' = log
      BY <1>t, <1>2, WholePrefix DEF Synced, Fsync, Durable
    <2>2. Reserved(Durable) \subseteq Reserved(log)
      BY <1>t, PrefixRecords DEF Durable
    <2> QED BY <1>2, <2>1, <2>2 DEF Synced, Fsync
  <1>3. ASSUME NEW l \in Line, Appended(l)
        PROVE  /\ Reserved(log) \subseteq Reserved(log')
               /\ Acked(log) \subseteq Acked(log')
               /\ Durable' = Durable
               /\ dirSynced' = dirSynced
    BY <1>t, <1>3, AppendRecords, AppendKeepsPrefix DEF Appended, Durable
  <1> QED BY <1>1, <1>2, <1>3

\* What is on stable storage is part of the journal.
LEMMA DurablePart ==
  ASSUME TypeOK
  PROVE  Durable \in Seq(Line) /\ Reserved(Durable) \subseteq Reserved(log)
  <1>1. log \in Seq(Line) /\ synced \in 0..Len(log)
    BY DEF TypeOK, FileOK
  <1> QED BY <1>1, PrefixRecords DEF Durable

\* A torn line records nothing.
LEMMA TornRecords ==
  ASSUME TypeOK, TornWrite \/ log' = log, UNCHANGED <<synced, dirSynced>>
  PROVE  /\ Reserved(log') = Reserved(log) /\ Acked(log') = Acked(log)
         /\ Reserved(Durable) \subseteq Reserved(Durable')
         /\ dirSynced => dirSynced'
  <1>t. log \in Seq(Line) /\ TornLine \in Line
    BY DEF TypeOK, FileOK, Line
  <1>1. /\ Reserved(Append(log, TornLine)) = Reserved(log)
        /\ Acked(Append(log, TornLine)) = Acked(log)
    BY <1>t, AppendRecords DEF TornLine
  <1>2. SameFile \/ Appended(TornLine)
    BY DEF TornWrite, SameFile, Appended
  <1>3. /\ Reserved(Durable) \subseteq Reserved(Durable')
        /\ dirSynced => dirSynced'
    BY <1>t, <1>2, JournalGrows
  <1> QED BY <1>1, <1>3 DEF TornWrite

\* Without a new POST, what was sent stays written ahead.
LEMMA StaysWrittenAhead ==
  ASSUME WrittenAhead, UNCHANGED posts, Reserved(Durable) \subseteq Reserved(Durable')
  PROVE  WrittenAhead'
  BY DEF WrittenAhead

-----------------------------------------------------------------------------
(* The instances that do not take the step. *)

Others(p) ==
  \A q \in Procs \ {p} :
    /\ pc'[q] = pc[q] /\ (locked'[q] <=> locked[q]) /\ cur'[q] = cur[q] /\ reply'[q] = reply[q]
    /\ reserved'[q] = reserved[q] /\ acked'[q] = acked[q]

\* They have not got the journal when the instance that steps has it, takes it
\* or gives it back.
LEMMA OthersAreOut ==
  ASSUME TypeOK, JournalInv, NEW p \in Procs, Others(p),
         lock \in {p, NoProc}, lock' \in {p, NoProc},
         NEW q \in Procs \ {p}
  PROVE  /\ HoldsJournal(q)' /\ KnowsJournal(q)'
         /\ ~Up(q)
  <1>1. HoldsJournal(q) /\ KnowsJournal(q) /\ q # NoProc /\ lock # q /\ lock' # q
    BY SubmitAssumption DEF JournalInv
  <1>2. ~Up(q) /\ reserved[q] = {} /\ acked[q] = {}
    BY <1>1 DEF HoldsJournal
  <1>3. pc'[q] \in {"down", "disabled"} /\ reserved'[q] = {} /\ acked'[q] = {}
    BY <1>2 DEF Others, Up
  <1>4. HoldsJournal(q)'
    BY <1>1, <1>3 DEF HoldsJournal, Up
  <1>5. KnowsJournal(q)'
    BY <1>3 DEF KnowsJournal
  <1> QED BY <1>2, <1>4, <1>5

\* They keep what they know when the journal and the outside world do not
\* change.
LEMMA OthersKeep ==
  ASSUME JournalInv, NEW p \in Procs, Others(p), SameFile, UNCHANGED <<lock, posts>>,
         NEW q \in Procs \ {p}
  PROVE  HoldsJournal(q)' /\ KnowsJournal(q)'
  <1>1. HoldsJournal(q) /\ KnowsJournal(q)
    BY DEF JournalInv
  <1>2. HoldsJournal(q)'
    BY <1>1 DEF HoldsJournal, Up, Others, SameFile
  <1>3. KnowsJournal(q)'
    BY <1>1 DEF KnowsJournal, Others, SameFile, Sent, Durable
  <1> QED BY <1>2, <1>3

-----------------------------------------------------------------------------
(* The journal part of the invariant, step by step. *)

\* What remains to show for a step of the holder of the journal.
LEMMA HolderStep ==
  ASSUME TypeOK, JournalInv, NEW p \in Procs, Others(p),
         lock \in {p, NoProc}, lock' \in {p, NoProc},
         HoldsJournal(p)', KnowsJournal(p)', Secured', WrittenAhead'
  PROVE  JournalInv'
  BY OthersAreOut DEF JournalInv

\* Without a new POST the journal stays secured, as long as no instance gets to
\* "post".
LEMMA StaysSecured ==
  ASSUME TypeOK, JournalInv, NEW p \in Procs, Others(p), pc'[p] # "post",
         UNCHANGED posts, dirSynced => dirSynced'
  PROVE  Secured'
  <1>1. Sent' = Sent
    BY DEF Sent
  <1>2. (\E q \in Procs : pc'[q] = "post") => \E q \in Procs : pc[q] = "post"
    BY DEF Others
  <1> QED BY <1>1, <1>2 DEF Secured, JournalInv

\* A lockout leaves the journal to its holder, with a torn line at most.
LEMMA LockOutKeepsJournal ==
  ASSUME TypeOK, JournalInv, NEW p \in Procs, LockOut(p), TornWrite \/ log' = log,
         pc[p] \in {"idle"} \union InCall
  PROVE  JournalInv'
<1>p. HoldsJournal(p) /\ KnowsJournal(p) /\ Up(p) /\ lock = p
  BY DEF JournalInv, HoldsJournal, Up, InCall
<1>1. /\ Others(p) /\ UNCHANGED <<posts, lock>>
      /\ pc'[p] = "idle" /\ locked'[p] /\ acked'[p] = acked[p]
  BY DEF LockOut, Others, worldVars, TypeOK, InstancesOK
<1>2. /\ Acked(log) \subseteq Acked(log')
      /\ Reserved(Durable) \subseteq Reserved(Durable')
      /\ dirSynced => dirSynced'
  <2>1. UNCHANGED <<synced, dirSynced>>
    BY DEF LockOut
  <2> QED BY <2>1, TornRecords
<1>3. HoldsJournal(p)'
  BY <1>p, <1>1 DEF HoldsJournal, Up
<1>4. KnowsJournal(p)'
  BY <1>p, <1>1, <1>2 DEF KnowsJournal
<1>5. Secured' /\ WrittenAhead'
  BY <1>1, <1>2, StaysSecured, StaysWrittenAhead DEF JournalInv
<1> QED BY <1>p, <1>1, <1>3, <1>4, <1>5, HolderStep

\* A failed constructor gives the journal back.
LEMMA DisableKeepsJournal ==
  ASSUME TypeOK, JournalInv, NEW p \in Procs, Disable(p), TornWrite \/ log' = log,
         pc[p] \in {"down", "header", "dirsync"},
         \/ lock # NoProc /\ pc[p] = "down" /\ UNCHANGED <<log, lock>>
         \/ lock \in {p, NoProc} /\ lock' = NoProc
  PROVE  JournalInv'
<1>p. HoldsJournal(p) /\ KnowsJournal(p) /\ p # NoProc
  BY SubmitAssumption DEF JournalInv
<1>1. /\ Others(p) /\ UNCHANGED posts
      /\ pc'[p] = "disabled" /\ reserved'[p] = {} /\ acked'[p] = {}
  BY <1>p DEF Disable, Others, worldVars, TypeOK, InstancesOK, HoldsJournal, Up
<1>2. /\ Reserved(Durable) \subseteq Reserved(Durable')
      /\ dirSynced => dirSynced'
  <2>1. UNCHANGED <<synced, dirSynced>>
    BY DEF Disable
  <2> QED BY <2>1, TornRecords
<1>3. Secured' /\ WrittenAhead'
  BY <1>1, <1>2, StaysSecured, StaysWrittenAhead DEF JournalInv
<1>4. KnowsJournal(p)'
  BY <1>1 DEF KnowsJournal
<1>5. CASE lock # NoProc /\ pc[p] = "down" /\ UNCHANGED <<log, lock>>
  <2>1. HoldsJournal(p)'
    BY <1>p, <1>1, <1>5 DEF HoldsJournal, Up
  <2>2. SameFile
    BY <1>5 DEF SameFile, Disable
  <2> QED BY <1>1, <1>3, <1>4, <1>5, <2>1, <2>2, OthersKeep DEF JournalInv
<1>6. CASE lock \in {p, NoProc} /\ lock' = NoProc
  <2>1. HoldsJournal(p)'
    BY <1>p, <1>1, <1>6 DEF HoldsJournal, Up
  <2> QED BY <1>1, <1>3, <1>4, <1>6, <2>1, HolderStep
<1> QED BY <1>5, <1>6

\* The constructor.
LEMMA ConstructorKeepsJournal ==
  ASSUME TypeOK, JournalInv, NEW p \in Procs, Constructor(p)
  PROVE  JournalInv'
<1>p. HoldsJournal(p) /\ KnowsJournal(p) /\ p # NoProc /\ WrittenAhead
  BY SubmitAssumption DEF JournalInv
<1>1. CASE OpenLocked(p) \/ OpenNewFails(p) \/ OpenRejected(p)
  BY <1>1, DisableKeepsJournal DEF OpenLocked, OpenNewFails, OpenRejected
<1>2. CASE CreateFails(p)
  BY <1>p, <1>2, DisableKeepsJournal DEF CreateFails, HoldsJournal, Up
<1>3. CASE OpenNew(p)
  <2>1. /\ Others(p) /\ UNCHANGED <<posts, dirSynced>> /\ lock = NoProc /\ lock' = p
        /\ pc'[p] = "header" /\ reserved'[p] = {} /\ acked'[p] = {}
    BY <1>p, <1>3 DEF OpenNew, Others, worldVars, TypeOK, InstancesOK, HoldsJournal, Up
  <2>2. Reserved(log') = {} /\ Reserved(log) = {}
    BY <1>3, RecordedOrders DEF OpenNew, TypeOK, FileOK
  <2>h. HoldsJournal(p)'
    BY <2>1, <2>2 DEF HoldsJournal, Up
  <2>3. KnowsJournal(p)'
    BY <2>1 DEF KnowsJournal
  <2>4. Reserved(Durable) = {}
    BY <2>2, DurablePart
  <2>5. WrittenAhead'
    BY <1>p, <2>1, <2>4 DEF WrittenAhead
  <2> QED BY <2>1, <2>h, <2>3, <2>5, StaysSecured, HolderStep
<1>4. CASE HeaderFsync(p)
  <2>o. Others(p) /\ pc'[p] = "dirsync"
    BY <1>4 DEF HeaderFsync, Others, TypeOK, InstancesOK
  <2>s. Synced /\ UNCHANGED <<posts, lock>>
    BY <1>4 DEF HeaderFsync, Synced, worldVars
  <2>1. /\ lock = p /\ lock' = p /\ reserved'[p] = {} /\ acked'[p] = {} /\ Reserved(log') = {}
    BY <1>p, <1>4 DEF HeaderFsync, HoldsJournal, Up
  <2>2. HoldsJournal(p)' /\ KnowsJournal(p)'
    BY <2>o, <2>1 DEF HoldsJournal, KnowsJournal, Up
  <2>3. Reserved(Durable) \subseteq Reserved(Durable') /\ (dirSynced => dirSynced')
    BY <2>s, JournalGrows
  <2>4. Secured' /\ WrittenAhead'
    BY <1>p, <2>o, <2>s, <2>3, StaysSecured, StaysWrittenAhead
  <2> QED BY <2>o, <2>1, <2>2, <2>4, HolderStep
<1>5. CASE DirFsync(p)
  <2>1. /\ Others(p) /\ UNCHANGED <<posts, log, synced>> /\ lock = p /\ lock' = p /\ dirSynced'
        /\ pc'[p] = "idle" /\ reserved'[p] = {} /\ acked'[p] = {} /\ Reserved(log') = {}
    BY <1>p, <1>5 DEF DirFsync, Others, worldVars, TypeOK, InstancesOK, HoldsJournal, Up
  <2>2. Sent' = {}
    BY <1>p, <2>1, DurablePart DEF WrittenAhead, Sent
  <2>3. HoldsJournal(p)' /\ KnowsJournal(p)'
    BY <2>1, <2>2 DEF HoldsJournal, KnowsJournal, Up
  <2>4. WrittenAhead'
    BY <1>p, <2>1 DEF WrittenAhead, Durable
  <2> QED BY <2>1, <2>3, <2>4, StaysSecured, HolderStep
<1>6. CASE OpenExisting(p)
  <2>1. /\ Others(p) /\ UNCHANGED <<posts, log, synced, dirSynced>> /\ lock = NoProc /\ lock' = p
        /\ pc'[p] = "idle" /\ reserved'[p] = Reserved(log) /\ acked'[p] = Acked(log)
        /\ (locked'[p] <=> Reserved(log) # Acked(log))
    BY <1>6 DEF OpenExisting, Others, worldVars, TypeOK, InstancesOK
  <2>2. Sent' \subseteq Reserved(log)
    BY <1>p, <2>1, DurablePart DEF WrittenAhead, Sent
  <2>3. ~locked'[p] => Reserved(log) = Acked(log)
    BY <2>1
  <2>4. HoldsJournal(p)' /\ KnowsJournal(p)'
    BY <2>1, <2>2, <2>3 DEF HoldsJournal, KnowsJournal, Up
  <2>5. WrittenAhead'
    BY <1>p, <2>1 DEF WrittenAhead, Durable
  <2> QED BY <2>1, <2>4, <2>5, StaysSecured, HolderStep
<1> QED BY <1>1, <1>2, <1>3, <1>4, <1>5, <1>6 DEF Constructor

\* A call to submitOrder that begins, or that the journal answers.
LEMMA SubmitKeepsJournal ==
  ASSUME TypeOK, JournalInv, NEW p \in Procs, NEW o \in Orders, Submit(p, o)
  PROVE  JournalInv'
<1>p. HoldsJournal(p) /\ KnowsJournal(p) /\ WrittenAhead
  BY DEF JournalInv
<1>1. CASE SubmitCached(p, o)
  <2>1. UNCHANGED <<fileVars, procVars, posts>>
    BY <1>1 DEF SubmitCached
  <2> QED BY <2>1 DEF fileVars, procVars, JournalInv, HoldsJournal, KnowsJournal, Secured,
       WrittenAhead, Up, Sent, Durable
<1>2. CASE SubmitReserve(p, o)
  <2>1. Admitted(p, o) /\ pc[p] = "idle" /\ ~locked[p] /\ o.notional <= MaxPosition /\ lock = p
    BY <1>p, <1>2 DEF SubmitReserve, MayReserve, Admitted, HoldsJournal, Up
  <2>2. \A e \in reserved[p] : ~Conflict(e, o)
    BY <1>2 DEF SubmitReserve, MayReserve, Entry, ContainsSymbol, Conflict
  <2>3. reserved[p] = Reserved(log) /\ Sent \subseteq acked[p] \intersect reserved[p]
    BY <1>p, <2>1, DurablePart DEF KnowsJournal, WrittenAhead, Sent
  <2>4. /\ Others(p) /\ UNCHANGED <<posts, lock>>
        /\ pc'[p] = "reserve" /\ cur'[p] = o
        /\ reserved'[p] = reserved[p] /\ acked'[p] = acked[p]
    BY <1>2 DEF SubmitReserve, Others, worldVars, TypeOK, InstancesOK
  <2>5. PendingLine(o, tail[p]) \in Line /\ Appended(PendingLine(o, tail[p]))
    BY <1>2, LineTypes DEF SubmitReserve, Appended, TypeOK, InstancesOK
  <2>6. Reserved(log') = Reserved(log) \union {o}
    <3>1. log \in Seq(Line) /\ log' = Append(log, PendingLine(o, tail[p]))
      BY <2>5 DEF TypeOK, FileOK, Appended
    <3>2. PendingLine(o, tail[p]).kind = "P" /\ PendingLine(o, tail[p]).order = o
      BY DEF PendingLine
    <3> QED BY <2>5, <3>1, <3>2, AppendRecords
  <2>7. /\ Acked(log) \subseteq Acked(log')
        /\ Reserved(Durable) \subseteq Reserved(Durable') /\ (dirSynced => dirSynced')
    BY <2>5, JournalGrows
  <2>8. HoldsJournal(p)'
    BY <1>p, <2>1, <2>4 DEF HoldsJournal, Up
  <2>9. Sent' = Sent
    BY <2>4 DEF Sent
  <2>10. KnowsJournal(p)'
    BY <1>p, <2>1, <2>2, <2>3, <2>4, <2>6, <2>7, <2>9 DEF KnowsJournal
  <2>11. Secured' /\ WrittenAhead'
    BY <1>p, <2>4, <2>7, StaysSecured, StaysWrittenAhead
  <2> QED BY <2>1, <2>4, <2>8, <2>10, <2>11, HolderStep
<1>3. CASE SubmitThrows(p, o)
  <2>1. pc[p] = "idle" /\ LockOut(p) /\ (TornWrite \/ log' = log)
    BY <1>3 DEF SubmitThrows, MayReserve, Admitted
  <2> QED BY <2>1, LockOutKeepsJournal
<1> QED BY <1>1, <1>2, <1>3 DEF Submit

\* The steps of a call to submitOrder.
LEMMA SubmittingKeepsJournal ==
  ASSUME DirEntrySafe, TypeOK, JournalInv, NEW p \in Procs, Submitting(p)
  PROVE  JournalInv'
<1>p. HoldsJournal(p) /\ KnowsJournal(p) /\ WrittenAhead /\ Secured
  BY DEF JournalInv
<1>c. pc[p] \in InCall => cur[p] \in Orders /\ lock = p
  BY <1>p DEF HoldsJournal, Up, InCall, TypeOK, InstancesOK
<1>1. CASE \/ ReserveFsyncFails(p) \/ PostFails(p) \/ AcknowledgeThrows(p)
           \/ AckFsyncFails(p) \/ Unconfirmed(p)
  <2>1. LockOut(p) /\ (TornWrite \/ log' = log) /\ pc[p] \in InCall
    BY <1>1 DEF ReserveFsyncFails, PostFails, AcknowledgeThrows, AckFsyncFails, Unconfirmed, InCall
  <2> QED BY <2>1, LockOutKeepsJournal
<1>2. CASE ReserveFsync(p)
  <2>1. pc[p] = "reserve" /\ cur[p] \in Orders /\ lock = p
    BY <1>2, <1>c DEF ReserveFsync, InCall
  <2>2. /\ Others(p) /\ UNCHANGED <<posts, lock, log>>
        /\ pc'[p] = "post" /\ cur'[p] = cur[p]
        /\ reserved'[p] = reserved[p] \union {cur[p]} /\ acked'[p] = acked[p]
    BY <1>2 DEF ReserveFsync, Others, worldVars, TypeOK, InstancesOK
  <2>3. Synced /\ Durable' = log
    BY <1>2, WholePrefix DEF ReserveFsync, Synced, Fsync, Durable, TypeOK, FileOK
  <2>4. Reserved(Durable) \subseteq Reserved(Durable')
    BY <2>3, DurablePart
  <2>5. Sent' = Sent
    BY <2>2 DEF Sent
  <2>6. HoldsJournal(p)'
    BY <1>p, <2>1, <2>2 DEF HoldsJournal, Up
  <2>7. KnowsJournal(p)'
    BY <1>p, <2>1, <2>2, <2>3, <2>5 DEF KnowsJournal
  <2>8. Secured'
    BY <2>3 DEF Synced, Fsync, Secured, DirEntrySafe
  <2>9. WrittenAhead'
    BY <1>p, <2>2, <2>4, StaysWrittenAhead
  <2> QED BY <2>1, <2>2, <2>6, <2>7, <2>8, <2>9, HolderStep
<1>3. CASE Post(p)
  <2>1. pc[p] = "post" /\ cur[p] \in Orders /\ lock = p
    BY <1>3, <1>c DEF Post, InCall
  <2>2. /\ Others(p) /\ UNCHANGED <<lock, log, synced, dirSynced>>
        /\ pc'[p] = "await" /\ cur'[p] = cur[p]
        /\ reserved'[p] = reserved[p] /\ acked'[p] = acked[p]
        /\ posts' = [posts EXCEPT ![cur[p]] = @ + 1]
    BY <1>3 DEF Post, Others, fileVars, TypeOK, InstancesOK
  <2>3. Sent' = Sent \union {cur[p]}
    BY <2>1, <2>2 DEF Sent, TypeOK, WorldOK
  <2>4. HoldsJournal(p)'
    BY <1>p, <2>1, <2>2 DEF HoldsJournal, Up
  <2>5. KnowsJournal(p)'
    BY <1>p, <2>1, <2>2, <2>3 DEF KnowsJournal
  <2>6. Secured'
    BY <1>p, <2>1, <2>2 DEF Secured
  <2>7. WrittenAhead'
    <3>1. cur[p] \in Reserved(Durable) /\ Durable' = Durable
      BY <1>p, <2>1, <2>2 DEF KnowsJournal, Durable
    <3>2. Sent \subseteq Reserved(Durable)
      BY <1>p DEF WrittenAhead, Sent
    <3> QED BY <2>3, <3>1, <3>2 DEF WrittenAhead, Sent
  <2> QED BY <2>1, <2>2, <2>4, <2>5, <2>6, <2>7, HolderStep
<1>4. CASE Acknowledge(p)
  <2>1. pc[p] = "await" /\ cur[p] \in Orders /\ lock = p
    BY <1>4, <1>c DEF Acknowledge, InCall
  <2>2. /\ Others(p) /\ UNCHANGED <<posts, lock>>
        /\ pc'[p] = "ack" /\ cur'[p] = cur[p]
        /\ reserved'[p] = reserved[p] /\ acked'[p] = acked[p]
    BY <1>4 DEF Acknowledge, Others, worldVars, TypeOK, InstancesOK
  <2>3. AckLine(cur[p], tail[p]) \in Line /\ Appended(AckLine(cur[p], tail[p]))
    BY <1>4, <2>1, LineTypes DEF Acknowledge, Appended, TypeOK, InstancesOK
  <2>4. Reserved(log') = Reserved(log) /\ Acked(log') = Acked(log) \union {cur[p]}
    <3>1. log \in Seq(Line) /\ log' = Append(log, AckLine(cur[p], tail[p]))
      BY <2>3 DEF TypeOK, FileOK, Appended
    <3>2. AckLine(cur[p], tail[p]).kind = "A" /\ AckLine(cur[p], tail[p]).order = cur[p]
      BY DEF AckLine
    <3> QED BY <2>3, <3>1, <3>2, AppendRecords
  <2>5. Reserved(Durable) \subseteq Reserved(Durable') /\ (dirSynced => dirSynced')
    BY <2>3, JournalGrows
  <2>6. Sent' = Sent
    BY <2>2 DEF Sent
  <2>7. HoldsJournal(p)'
    BY <1>p, <2>1, <2>2 DEF HoldsJournal, Up
  <2>8. KnowsJournal(p)'
    BY <1>p, <2>1, <2>2, <2>4, <2>6 DEF KnowsJournal
  <2>9. Secured' /\ WrittenAhead'
    BY <1>p, <2>2, <2>5, StaysSecured, StaysWrittenAhead
  <2> QED BY <2>1, <2>2, <2>7, <2>8, <2>9, HolderStep
<1>5. CASE AckFsync(p)
  <2>1. pc[p] = "ack" /\ cur[p] \in Orders /\ lock = p
    BY <1>5, <1>c DEF AckFsync, InCall
  <2>2. /\ Others(p) /\ UNCHANGED <<posts, lock, log>>
        /\ pc'[p] = "idle" /\ reserved'[p] = reserved[p]
        /\ acked'[p] = acked[p] \union {cur[p]}
    BY <1>5 DEF AckFsync, Others, TypeOK, InstancesOK
  <2>3. Synced
    BY <1>5 DEF AckFsync, Synced
  <2>4. Reserved(Durable) \subseteq Reserved(Durable') /\ (dirSynced => dirSynced')
    BY <2>3, JournalGrows
  <2>5. Sent' = Sent
    BY <2>2 DEF Sent
  <2>6. HoldsJournal(p)'
    BY <1>p, <2>1, <2>2 DEF HoldsJournal, Up
  <2>7. KnowsJournal(p)'
    BY <1>p, <2>1, <2>2, <2>5 DEF KnowsJournal
  <2>8. Secured' /\ WrittenAhead'
    BY <1>p, <2>2, <2>4, StaysSecured, StaysWrittenAhead
  <2> QED BY <2>1, <2>2, <2>6, <2>7, <2>8, HolderStep
<1> QED BY <1>1, <1>2, <1>3, <1>4, <1>5 DEF Submitting

\* The end of an instance, by itself or by a kill.
LEMMA ExitKeepsJournal ==
  ASSUME TypeOK, JournalInv, NEW p \in Procs, Exit(p)
  PROVE  JournalInv'
<1>p. HoldsJournal(p) /\ p # NoProc
  BY SubmitAssumption DEF JournalInv
<1>1. /\ Others(p) /\ SameFile /\ UNCHANGED posts
      /\ pc'[p] = "down" /\ reserved'[p] = {} /\ acked'[p] = {}
      /\ lock' = IF lock = p THEN NoProc ELSE lock
  BY DEF Exit, Others, SameFile, worldVars, TypeOK, InstancesOK
<1>2. HoldsJournal(p)' /\ KnowsJournal(p)'
  BY <1>p, <1>1 DEF HoldsJournal, KnowsJournal, Up
<1>3. Secured' /\ WrittenAhead'
  <2>1. Reserved(Durable) \subseteq Reserved(Durable') /\ (dirSynced => dirSynced')
    BY <1>1, JournalGrows
  <2> QED BY <1>1, <2>1, StaysSecured, StaysWrittenAhead DEF JournalInv
<1>4. CASE lock = p
  BY <1>1, <1>2, <1>3, <1>4, HolderStep
<1>5. CASE lock # p
  BY <1>1, <1>2, <1>3, <1>5, OthersKeep DEF JournalInv
<1> QED BY <1>4, <1>5

\* What survives the power loss of a journal with a durable directory entry
\* records what was on stable storage.
LEMMA SurvivorsRecord ==
  ASSUME TypeOK, dirSynced, NEW text \in SurvivingLogs
  PROVE  Reserved(Durable) \subseteq Reserved(text)
<1>t. log \in Seq(Line) /\ synced \in 0..Len(log) /\ TornLine \in Line
  BY DEF TypeOK, FileOK, Line
<1>1. ASSUME NEW n \in synced..Len(log)
      PROVE  /\ SubSeq(log, 1, n) \in Seq(Line)
             /\ Reserved(Durable) \subseteq Reserved(SubSeq(log, 1, n))
  BY <1>t, PrefixRecords DEF Durable
<1>2. ASSUME NEW n \in synced..Len(log)
      PROVE  Reserved(Append(SubSeq(log, 1, n), TornLine)) = Reserved(SubSeq(log, 1, n))
  BY <1>t, <1>1, AppendRecords DEF TornLine
<1>3. \A n \in synced..(Len(log) - 1) : n \in synced..Len(log)
  BY <1>t
<1>4. \/ \E n \in synced..Len(log) : text = SubSeq(log, 1, n)
      \/ \E n \in synced..(Len(log) - 1) : text = Append(SubSeq(log, 1, n), TornLine)
  BY DEF SurvivingLogs
<1> QED BY <1>1, <1>2, <1>3, <1>4

\* It acknowledges nothing that was not acknowledged before.
LEMMA SurvivorsAcknowledge ==
  ASSUME TypeOK, NEW text \in SurvivingLogs
  PROVE  Acked(text) \subseteq Acked(log)
<1>t. log \in Seq(Line) /\ synced \in 0..Len(log) /\ TornLine \in Line
  BY DEF TypeOK, FileOK, Line
<1>1. ASSUME NEW n \in synced..Len(log)
      PROVE  /\ SubSeq(log, 1, n) \in Seq(Line)
             /\ Acked(SubSeq(log, 1, n)) \subseteq Acked(log)
  BY <1>t, PrefixRecords
<1>2. ASSUME NEW n \in synced..Len(log)
      PROVE  Acked(Append(SubSeq(log, 1, n), TornLine)) = Acked(SubSeq(log, 1, n))
  BY <1>t, <1>1, AppendRecords DEF TornLine
<1>3. \A n \in synced..(Len(log) - 1) : n \in synced..Len(log)
  BY <1>t
<1>4. Acked(<<>>) = {}
  BY <1>t, RecordedOrders
<1>5. \/ \E n \in synced..Len(log) : text = SubSeq(log, 1, n)
      \/ \E n \in synced..(Len(log) - 1) : text = Append(SubSeq(log, 1, n), TornLine)
      \/ text = <<>>
  BY DEF SurvivingLogs
<1> QED BY <1>1, <1>2, <1>3, <1>4, <1>5

\* A power loss takes no order back that was sent.
LEMMA PowerLossKeepsJournal ==
  ASSUME TypeOK, JournalInv, PowerLoss
  PROVE  JournalInv'
<1>1. \A p \in Procs :
        /\ pc'[p] = "down" /\ reserved'[p] = {} /\ acked'[p] = {} /\ lock' # p
  BY SubmitAssumption DEF PowerLoss
<1>2. \A p \in Procs : HoldsJournal(p)' /\ KnowsJournal(p)'
  BY <1>1 DEF HoldsJournal, KnowsJournal, Up
<1>3. PICK text \in SurvivingLogs :
        log' = text /\ synced' = Len(text) /\ dirSynced' = (text # <<>>)
  BY DEF PowerLoss
<1>4. Durable' = text
  <2>1. text \in Seq(Line)
    BY SurvivorTypes DEF TypeOK
  <2> QED BY <1>3, <2>1, WholePrefix DEF Durable
<1>5. UNCHANGED posts /\ Sent' = Sent /\ (Sent # {} => dirSynced)
  BY DEF PowerLoss, worldVars, Sent, JournalInv, Secured
<1>6. Sent \subseteq Reserved(Durable) /\ (Sent # {} => Reserved(Durable) \subseteq Reserved(text))
  BY <1>5, SurvivorsRecord DEF JournalInv, WrittenAhead, Sent
<1>7. WrittenAhead'
  BY <1>4, <1>5, <1>6 DEF WrittenAhead, Sent
<1>8. Secured'
  <2>1. Sent # {} => text # <<>>
    BY <1>6, RecordedOrders DEF TypeOK, FileOK
  <2>2. Sent # {} => dirSynced'
    BY <1>3, <2>1
  <2> QED BY <1>1, <1>5, <2>2 DEF Secured
<1> QED BY <1>2, <1>7, <1>8 DEF JournalInv

\* The journal part of the invariant is kept by every step.
LEMMA JournalStep ==
  ASSUME DirEntrySafe, TypeOK, JournalInv, [Next]_vars
  PROVE  JournalInv'
<1>1. CASE UNCHANGED <<fileVars, pc, locked, reserved, acked, cur, posts>>
  BY <1>1 DEF fileVars, JournalInv, HoldsJournal, KnowsJournal, Secured, WrittenAhead, Up,
     Sent, Durable
<1>2. ASSUME NEW o \in Orders, BrokerReceives(o) \/ RequestLost(o) PROVE JournalInv'
  <2>1. UNCHANGED <<fileVars, pc, locked, reserved, acked, cur, posts>>
    <3>1. CASE BrokerReceives(o)
      BY <3>1 DEF BrokerReceives
    <3>2. CASE RequestLost(o)
      BY <3>2 DEF RequestLost, procVars
    <3> QED BY <1>2, <3>1, <3>2
  <2> QED BY <1>1, <2>1
<1>3. CASE UNCHANGED vars
  BY <1>1, <1>3 DEF vars, procVars, worldVars
<1> QED BY <1>2, <1>3, ConstructorKeepsJournal, SubmitKeepsJournal, SubmittingKeepsJournal,
      ExitKeepsJournal, PowerLossKeepsJournal DEF Next

-----------------------------------------------------------------------------
(* The world part of the invariant, step by step. *)

\* The broker accepts an order at most once, for it is sent at most once.
LEMMA AcceptedOnce ==
  ASSUME TypeOK, WorldInv, NEW o \in Orders
  PROVE  /\ posts[o] \in {0, 1}
         /\ accepted[o] \in {0, posts[o]}
         /\ wire[o] > 0 => accepted[o] = 0 /\ posts[o] = 1
  <1>1. posts[o] \in Nat /\ wire[o] \in Nat /\ accepted[o] \in Nat
    BY DEF TypeOK, WorldOK
  <1>2. wire[o] + accepted[o] <= posts[o]
    BY DEF WorldInv, Conserved
  <1>3. posts[o] > 0 => posts[o] = 1
    BY DEF WorldInv, AtMostOncePost, Conflict
  <1> QED BY <1>1, <1>2, <1>3

\* No instance gets an answer, and who held one still waits with it.
Quiet == \A q \in Procs :
  reply'[q] = "none" \/ (reply'[q] = reply[q] /\ pc'[q] = pc[q] /\ cur'[q] = cur[q])

\* What remains to show for a step in which nothing is sent or received.
LEMMA QuietStep ==
  ASSUME WorldInv, Quiet, UNCHANGED <<posts, wire, accepted>>,
         \A o \in Acked(log') \union returned' :
            o \in Acked(log) \union returned \/ accepted[o] = 1
  PROVE  WorldInv'
  <1>1. \A q \in Procs : KnowsAnswer(q)'
    BY DEF WorldInv, KnowsAnswer, Quiet
  <1>2. Conserved' /\ AtMostOncePost'
    BY DEF WorldInv, Conserved, AtMostOncePost
  <1>3. AcknowledgedWasAccepted'
    BY DEF WorldInv, AcknowledgedWasAccepted
  <1> QED BY <1>1, <1>2, <1>3 DEF WorldInv

\* Nor does a step of the constructor, or a failure, tell or record anything.
LEMMA ConstructorKeepsWorld ==
  ASSUME TypeOK, WorldInv, NEW p \in Procs, Constructor(p)
  PROVE  WorldInv'
<1>1. pc[p] \in {"down", "header", "dirsync"} /\ reply' = reply /\ cur' = cur /\ UNCHANGED worldVars
  BY DEF Constructor, OpenLocked, OpenNew, OpenNewFails, HeaderFsync, DirFsync, CreateFails,
     OpenExisting, OpenRejected, Disable
<1>2. Acked(log') = Acked(log)
  <2>1. CASE OpenNew(p)
    BY <2>1, RecordedOrders DEF OpenNew, TypeOK, FileOK
  <2>2. CASE OpenNewFails(p)
    BY <2>2, TornRecords DEF OpenNewFails, Disable
  <2>3. CASE log' = log
    BY <2>3
  <2>4. OpenNew(p) \/ OpenNewFails(p) \/ log' = log
    BY DEF Constructor, OpenLocked, HeaderFsync, DirFsync, CreateFails, OpenExisting, OpenRejected
  <2> QED BY <2>1, <2>2, <2>3, <2>4
<1>3. \A q \in Procs \ {p} : pc'[q] = pc[q]
  BY DEF Constructor, OpenLocked, OpenNew, OpenNewFails, HeaderFsync, DirFsync, CreateFails,
     OpenExisting, OpenRejected, Disable, TypeOK, InstancesOK
<1>4. Quiet
  BY <1>1, <1>3 DEF Quiet, WorldInv, KnowsAnswer
<1> QED BY <1>1, <1>2, <1>4, QuietStep DEF worldVars

\* A lockout moves nothing in the world of orders.
LEMMA LockOutKeepsWorld ==
  ASSUME TypeOK, WorldInv, NEW p \in Procs, LockOut(p), TornWrite \/ log' = log
  PROVE  WorldInv'
<1>1. Acked(log') = Acked(log)
  <2>1. UNCHANGED <<synced, dirSynced>>
    BY DEF LockOut
  <2> QED BY <2>1, TornRecords
<1>2. UNCHANGED worldVars
  BY DEF LockOut
<1>3. Quiet
  BY DEF LockOut, Quiet, TypeOK, InstancesOK
<1> QED BY <1>1, <1>2, <1>3, QuietStep DEF worldVars

\* A call begins, or is answered from the journal: with an id that is in it.
LEMMA SubmitKeepsWorld ==
  ASSUME TypeOK, JournalInv, WorldInv, NEW p \in Procs, NEW o \in Orders, Submit(p, o)
  PROVE  WorldInv'
<1>1. CASE SubmitCached(p, o)
  <2>1. UNCHANGED <<fileVars, procVars, posts, wire, accepted>> /\ returned' = returned \union {o}
    BY <1>1 DEF SubmitCached
  <2>2. o \in Acked(log)
    BY <1>1 DEF SubmitCached, JournalInv, KnowsJournal
  <2> QED BY <2>1, <2>2, QuietStep DEF fileVars, procVars, Quiet
<1>2. CASE SubmitReserve(p, o)
  <2>1. pc[p] = "idle" /\ reply' = reply /\ UNCHANGED worldVars
        /\ \A q \in Procs \ {p} : pc'[q] = pc[q] /\ cur'[q] = cur[q]
    BY <1>2 DEF SubmitReserve, MayReserve, Admitted, TypeOK, InstancesOK
  <2>2. Quiet
    BY <2>1 DEF Quiet, WorldInv, KnowsAnswer
  <2>3. Acked(log') = Acked(log)
    <3>1. log \in Seq(Line) /\ log' = Append(log, PendingLine(o, tail[p])) /\ tail[p] \in Nat
      BY <1>2 DEF SubmitReserve, TypeOK, FileOK, InstancesOK
    <3>2. PendingLine(o, tail[p]) \in Line /\ PendingLine(o, tail[p]).kind # "A"
      BY <3>1, LineTypes DEF PendingLine
    <3> QED BY <3>1, <3>2, AppendRecords
  <2> QED BY <2>1, <2>2, <2>3, QuietStep DEF worldVars
<1>3. CASE SubmitThrows(p, o)
  <2>1. LockOut(p) /\ (TornWrite \/ log' = log)
    BY <1>3 DEF SubmitThrows
  <2> QED BY <2>1, LockOutKeepsWorld
<1> QED BY <1>1, <1>2, <1>3 DEF Submit

\* The steps of a call: only Post sends, and only what the broker acknowledged
\* is recorded and returned.
LEMMA SubmittingKeepsWorld ==
  ASSUME TypeOK, JournalInv, WorldInv, NEW p \in Procs, Submitting(p)
  PROVE  WorldInv'
<1>c. pc[p] \in InCall => cur[p] \in Orders
  BY DEF TypeOK, InstancesOK
<1>k. KnowsJournal(p) /\ KnowsAnswer(p)
  BY DEF JournalInv, WorldInv
<1>1. CASE \/ ReserveFsyncFails(p) \/ PostFails(p) \/ AcknowledgeThrows(p)
           \/ AckFsyncFails(p) \/ Unconfirmed(p)
  <2>1. LockOut(p) /\ (TornWrite \/ log' = log)
    BY <1>1 DEF ReserveFsyncFails, PostFails, AcknowledgeThrows, AckFsyncFails, Unconfirmed
  <2> QED BY <2>1, LockOutKeepsWorld
<1>2. CASE ReserveFsync(p)
  <2>1. pc[p] = "reserve" /\ UNCHANGED <<log, cur, reply, worldVars>>
        /\ \A q \in Procs \ {p} : pc'[q] = pc[q]
    BY <1>2 DEF ReserveFsync, TypeOK, InstancesOK
  <2>2. Quiet
    BY <2>1 DEF Quiet, WorldInv, KnowsAnswer
  <2> QED BY <2>1, <2>2, QuietStep DEF worldVars
<1>3. CASE Post(p)
  <2>1. pc[p] = "post" /\ cur[p] \in Orders
    BY <1>3, <1>c DEF Post, InCall
  <2>2. /\ UNCHANGED <<log, cur, reply, accepted, returned>>
        /\ posts' = [posts EXCEPT ![cur[p]] = @ + 1]
        /\ wire' = [wire EXCEPT ![cur[p]] = @ + 1]
        /\ \A q \in Procs \ {p} : pc'[q] = pc[q]
    BY <1>3 DEF Post, fileVars, TypeOK, InstancesOK
  <2>t. posts \in [Orders -> Nat] /\ wire \in [Orders -> Nat] /\ accepted \in [Orders -> Nat]
    BY DEF TypeOK, WorldOK
  <2>3. \A q \in Procs : KnowsAnswer(q)'
    BY <2>1, <2>2 DEF WorldInv, KnowsAnswer
  <2>4. Conserved'
    BY <2>1, <2>2, <2>t DEF WorldInv, Conserved
  <2>5. \A e \in Orders : posts[e] > 0 => ~Conflict(e, cur[p])
    BY <1>k, <2>1 DEF KnowsJournal, Sent
  <2>6. posts[cur[p]] = 0
    BY <2>1, <2>5, <2>t DEF Conflict
  <2>7. AtMostOncePost'
    <3> SUFFICES ASSUME NEW o1 \in Orders, NEW o2 \in Orders,
                        posts'[o1] > 0, posts'[o2] > 0, Conflict(o1, o2)
                 PROVE  o1 = o2 /\ posts'[o1] = 1
      BY DEF AtMostOncePost
    <3>1. Conflict(o2, o1)
      BY DEF Conflict
    <3>2. CASE o1 = cur[p] \/ o2 = cur[p]
      BY <2>1, <2>2, <2>5, <2>6, <2>t, <3>1, <3>2
    <3>3. CASE o1 # cur[p] /\ o2 # cur[p]
      BY <2>2, <2>t, <3>3 DEF WorldInv, AtMostOncePost
    <3> QED BY <3>2, <3>3
  <2>8. AcknowledgedWasAccepted'
    BY <2>2 DEF WorldInv, AcknowledgedWasAccepted
  <2> QED BY <2>3, <2>4, <2>7, <2>8 DEF WorldInv
<1>4. CASE Acknowledge(p)
  <2>1. pc[p] = "await" /\ cur[p] \in Orders /\ reply[p] = "ack" /\ tail[p] \in Nat
    BY <1>4, <1>c DEF Acknowledge, InCall, TypeOK, InstancesOK
  <2>2. accepted[cur[p]] = 1
    BY <1>k, <2>1, AcceptedOnce DEF KnowsAnswer
  <2>3. Quiet /\ UNCHANGED worldVars
    BY <1>4 DEF Acknowledge, Quiet, TypeOK, InstancesOK
  <2>4. Acked(log') = Acked(log) \union {cur[p]}
    <3>1. log \in Seq(Line) /\ log' = Append(log, AckLine(cur[p], tail[p]))
      BY <1>4 DEF Acknowledge, TypeOK, FileOK
    <3>2. /\ AckLine(cur[p], tail[p]) \in Line
          /\ AckLine(cur[p], tail[p]).kind = "A" /\ AckLine(cur[p], tail[p]).order = cur[p]
      BY <2>1, LineTypes DEF AckLine
    <3> QED BY <3>1, <3>2, AppendRecords
  <2> QED BY <2>2, <2>3, <2>4, QuietStep DEF worldVars
<1>5. CASE AckFsync(p)
  <2>1. pc[p] = "ack" /\ cur[p] \in Acked(log)
    BY <1>5, <1>k DEF AckFsync, KnowsJournal
  <2>2. /\ UNCHANGED <<log, reply, posts, wire, accepted>> /\ returned' = returned \union {cur[p]}
        /\ \A q \in Procs \ {p} : pc'[q] = pc[q] /\ cur'[q] = cur[q]
    BY <1>5 DEF AckFsync, TypeOK, InstancesOK
  <2>3. Quiet
    BY <2>1, <2>2 DEF Quiet, WorldInv, KnowsAnswer
  <2> QED BY <2>1, <2>2, <2>3, QuietStep
<1> QED BY <1>1, <1>2, <1>3, <1>4, <1>5 DEF Submitting

\* The broker accepts what is on the wire, and answers who asked.
LEMMA BrokerKeepsWorld ==
  ASSUME TypeOK, WorldInv, NEW o \in Orders, BrokerReceives(o) \/ RequestLost(o)
  PROVE  WorldInv'
<1>t. posts \in [Orders -> Nat] /\ wire \in [Orders -> Nat] /\ accepted \in [Orders -> Nat]
  BY DEF TypeOK, WorldOK
<1>w. wire[o] > 0 /\ accepted[o] = 0 /\ posts[o] = 1
  <2>1. wire[o] > 0
    BY DEF BrokerReceives, RequestLost
  <2> QED BY <2>1, AcceptedOnce
<1>a. o \notin Acked(log) \union returned
  BY <1>w DEF WorldInv, AcknowledgedWasAccepted
<1>1. /\ UNCHANGED <<log, posts, returned, pc, cur>>
      /\ wire' = [wire EXCEPT ![o] = @ - 1]
      /\ accepted' = accepted \/ accepted' = [accepted EXCEPT ![o] = @ + 1]
  <2>1. CASE BrokerReceives(o)
    BY <2>1 DEF BrokerReceives, fileVars
  <2>2. CASE RequestLost(o)
    BY <2>2 DEF RequestLost, fileVars, procVars
  <2> QED BY <2>1, <2>2
<1>2. Conserved' /\ AtMostOncePost'
  BY <1>t, <1>w, <1>1 DEF WorldInv, Conserved, AtMostOncePost
<1>3. AcknowledgedWasAccepted'
  <2>1. \A e \in Orders : e # o /\ accepted[e] = 1 => accepted'[e] = 1
    BY <1>t, <1>1
  <2>2. Acked(log) \union returned \subseteq Orders
    BY RecordedOrders DEF TypeOK, FileOK, WorldOK
  <2> QED BY <1>a, <1>1, <2>1, <2>2 DEF WorldInv, AcknowledgedWasAccepted
<1>4. \A e \in Orders : accepted[e] >= 1 => accepted'[e] >= 1
  BY <1>t, <1>w, <1>1
<1>c. \A q \in Procs : reply[q] # "none" => cur[q] \in Orders
  BY DEF WorldInv, KnowsAnswer, TypeOK, InstancesOK, InCall
<1>5. \A q \in Procs : KnowsAnswer(q)'
  <2>1. CASE reply' = reply
    BY <1>1, <1>4, <1>c, <2>1 DEF WorldInv, KnowsAnswer
  <2>2. ASSUME NEW p \in Procs, NEW a \in {"ack", "other"},
               pc[p] = "await", cur[p] = o, reply' = [reply EXCEPT ![p] = a],
               a = "ack" => accepted'[o] >= 1
        PROVE  \A q \in Procs : KnowsAnswer(q)'
    BY <1>1, <1>4, <1>c, <2>2 DEF WorldInv, KnowsAnswer, TypeOK, InstancesOK
  <2>3. CASE RequestLost(o)
    BY <2>1, <2>3 DEF RequestLost, procVars
  <2>4. CASE BrokerReceives(o)
    <3>1. CASE Answer(o, {"other"})
      BY <2>1, <2>2, <3>1 DEF Answer
    <3>2. ASSUME accepted' = [accepted EXCEPT ![o] = @ + 1],
                 NEW A \in SUBSET {"ack", "other"}, Answer(o, A)
          PROVE  \A q \in Procs : KnowsAnswer(q)'
      <4>1. accepted'[o] >= 1
        BY <1>t, <1>w, <3>2
      <4> QED BY <2>1, <2>2, <3>2, <4>1 DEF Answer
    <3> QED BY <2>4, <3>1, <3>2 DEF BrokerReceives
  <2> QED BY <2>3, <2>4
<1> QED BY <1>2, <1>3, <1>5 DEF WorldInv

\* The world part of the invariant is kept by every step.
LEMMA WorldStep ==
  ASSUME TypeOK, JournalInv, WorldInv, [Next]_vars
  PROVE  WorldInv'
<1>1. ASSUME NEW p \in Procs, Exit(p) PROVE WorldInv'
  <2>1. Quiet /\ UNCHANGED <<log, worldVars>>
    BY <1>1 DEF Exit, Quiet, TypeOK, InstancesOK
  <2> QED BY <2>1, QuietStep DEF worldVars
<1>2. CASE PowerLoss
  <2>1. Quiet /\ UNCHANGED worldVars
    BY <1>2 DEF PowerLoss, Quiet
  <2>2. Acked(log') \subseteq Acked(log)
    BY <1>2, SurvivorsAcknowledge DEF PowerLoss
  <2> QED BY <2>1, <2>2, QuietStep DEF worldVars
<1>3. CASE UNCHANGED vars
  BY <1>3, QuietStep DEF vars, fileVars, procVars, worldVars, Quiet
<1> QED BY <1>1, <1>2, <1>3, ConstructorKeepsWorld, SubmitKeepsWorld, SubmittingKeepsWorld,
      BrokerKeepsWorld DEF Next

-----------------------------------------------------------------------------
(* The theorems. *)

\* The inductive invariant.
THEOREM InductiveInvariant ==
  ASSUME DirEntrySafe
  PROVE  Spec => []IInv
<1>1. Init => IInv
  <2> SUFFICES ASSUME Init PROVE IInv
    OBVIOUS
  <2>1. TypeOK
    BY InitialTypes
  <2>2. Reserved(log) = {} /\ Acked(log) = {}
    BY <2>1, RecordedOrders DEF Init, TypeOK, FileOK
  <2>3. \A p \in Procs : /\ pc[p] = "down" /\ lock # p /\ reply[p] = "none"
                         /\ reserved[p] = {} /\ acked[p] = {}
    BY SubmitAssumption DEF Init
  <2>4. \A o \in Orders : posts[o] = 0 /\ wire[o] = 0 /\ accepted[o] = 0
    BY DEF Init
  <2>5. Sent = {} /\ returned = {}
    BY <2>4 DEF Sent, Init
  <2>6. JournalInv
    BY <2>2, <2>3, <2>4, <2>5 DEF JournalInv, HoldsJournal, KnowsJournal, Up, Secured, WrittenAhead
  <2>7. WorldInv
    BY <2>2, <2>3, <2>4, <2>5 DEF WorldInv, KnowsAnswer, Conserved, AtMostOncePost,
       AcknowledgedWasAccepted
  <2> QED BY <2>1, <2>6, <2>7 DEF IInv
<1>2. IInv /\ [Next]_vars => IInv'
  BY TypeStep, JournalStep, WorldStep DEF IInv
<1> QED BY <1>1, <1>2, PTL DEF Spec

\* Of two conflicting orders at most one is ever sent, and it is sent once.
THEOREM SentAtMostOnce ==
  ASSUME DirEntrySafe
  PROVE  Spec => []AtMostOncePost
<1>1. IInv => AtMostOncePost
  BY DEF IInv, WorldInv
<1> QED BY <1>1, InductiveInvariant, PTL

\* Every order that was sent is reserved on stable storage.
THEOREM SentIsWrittenAhead ==
  ASSUME DirEntrySafe
  PROVE  Spec => []WrittenAhead
<1>1. IInv => WrittenAhead
  BY DEF IInv, JournalInv
<1> QED BY <1>1, InductiveInvariant, PTL

\* An instance that would submit knows every outcome.
THEOREM OpenMeansResolved ==
  ASSUME DirEntrySafe
  PROVE  Spec => []NoAmbiguityWhileOpen
<1>1. IInv => NoAmbiguityWhileOpen
  BY DEF IInv, JournalInv, KnowsJournal, NoAmbiguityWhileOpen, Sent
<1> QED BY <1>1, InductiveInvariant, PTL

\* Ids are journalled and returned for accepted orders only.
THEOREM AcknowledgementIsTrue ==
  ASSUME DirEntrySafe
  PROVE  Spec => []AcknowledgedWasAccepted
<1>1. IInv => AcknowledgedWasAccepted
  BY DEF IInv, WorldInv
<1> QED BY <1>1, InductiveInvariant, PTL

\* Who sends an order: an instance that is about to, and nobody else.
LEMMA OnlyPostSends ==
  ASSUME [Next]_vars, posts' # posts
  PROVE  \E p \in Procs : Post(p)
<1>1. ~(UNCHANGED worldVars) /\ ~(UNCHANGED vars)
  BY DEF worldVars, vars
<1>2. ASSUME NEW p \in Procs, Constructor(p) \/ Exit(p) PROVE FALSE
  BY <1>1, <1>2 DEF Constructor, OpenLocked, OpenNew, OpenNewFails, HeaderFsync, DirFsync,
     CreateFails, OpenExisting, OpenRejected, Disable, Exit
<1>3. ASSUME NEW p \in Procs, NEW o \in Orders, Submit(p, o) PROVE FALSE
  BY <1>1, <1>3 DEF Submit, SubmitCached, SubmitReserve, SubmitThrows, LockOut
<1>4. ASSUME NEW p \in Procs, Submitting(p) PROVE Post(p)
  BY <1>1, <1>4 DEF Submitting, ReserveFsync, ReserveFsyncFails, PostFails, Acknowledge,
     AcknowledgeThrows, AckFsync, AckFsyncFails, Unconfirmed, LockOut
<1>5. ASSUME NEW o \in Orders, BrokerReceives(o) \/ RequestLost(o) PROVE FALSE
  BY <1>1, <1>5 DEF BrokerReceives, RequestLost
<1>6. ~PowerLoss
  BY <1>1 DEF PowerLoss
<1> QED BY <1>1, <1>2, <1>3, <1>4, <1>5, <1>6 DEF Next

\* An order leaves only when every earlier one is acknowledged in the journal.
THEOREM SendsOnlyWhenResolved ==
  ASSUME DirEntrySafe
  PROVE  Spec => PostOnlyWhenResolved
<1>1. IInv /\ [Next]_vars =>
        (posts' # posts => \A o \in Orders : posts[o] > 0 => o \in Acked(log))
  <2> SUFFICES ASSUME IInv, [Next]_vars, posts' # posts
               PROVE  \A o \in Orders : posts[o] > 0 => o \in Acked(log)
    OBVIOUS
  <2>1. PICK p \in Procs : Post(p)
    BY OnlyPostSends
  <2>2. pc[p] = "post" /\ KnowsJournal(p)
    BY <2>1 DEF Post, IInv, JournalInv
  <2> QED BY <2>2 DEF KnowsJournal, Sent
<1> QED BY <1>1, InductiveInvariant, PTL DEF Spec, PostOnlyWhenResolved

\* A step of the provider is a step of the contract, or none: Post is its Send,
\* an accepting BrokerReceives its Accept, and the id is given to the caller by
\* AckFsync or SubmitCached.
LEMMA ContractStep ==
  ASSUME IInv, [Next]_vars
  PROVE  [Contract!Next]_(Contract!vars)
<1>t. TypeOK /\ WorldInv /\ posts \in [Orders -> Nat] /\ accepted \in [Orders -> Nat]
  BY DEF IInv, TypeOK, WorldOK
<1>k. \A p \in Procs : KnowsJournal(p) /\ (pc[p] \in InCall => cur[p] \in Orders)
  BY DEF IInv, JournalInv, TypeOK, InstancesOK
<1>r. \A o \in Acked(log) : o \in Orders /\ accepted[o] = 1
  BY RecordedOrders DEF IInv, TypeOK, FileOK, WorldInv, AcknowledgedWasAccepted
<1>1. CASE UNCHANGED <<posts, accepted, returned>>
  BY <1>1 DEF Contract!vars
<1>2. ASSUME NEW p \in Procs, Post(p) PROVE Contract!Next
  <2>1. pc[p] = "post" /\ cur[p] \in Orders
    BY <1>2, <1>k DEF Post, InCall
  <2>2. /\ cur[p].notional <= MaxPosition
        /\ \A e \in Orders : posts[e] > 0 => e \in Acked(log) /\ ~Conflict(e, cur[p])
    BY <1>k, <2>1 DEF KnowsJournal, Sent
  <2>3. posts[cur[p]] = 0
    BY <1>t, <2>1, <2>2 DEF Conflict
  <2>4. posts' = [posts EXCEPT ![cur[p]] = 1] /\ UNCHANGED <<accepted, returned>>
    BY <1>t, <1>2, <2>1, <2>3 DEF Post
  <2>5. Contract!Send(cur[p])
    BY <1>r, <2>1, <2>2, <2>3, <2>4 DEF Contract!Send
  <2> QED BY <2>1, <2>5 DEF Contract!Next
<1>3. ASSUME NEW o \in Acked(log), returned' = returned \union {o}, UNCHANGED <<posts, accepted>>
      PROVE  Contract!Next
  BY <1>r, <1>3 DEF Contract!Next, Contract!Return
<1>4. ASSUME NEW o \in Orders, BrokerReceives(o) PROVE [Contract!Next]_(Contract!vars)
  <2>1. UNCHANGED <<posts, returned>> /\ wire[o] > 0
        /\ (accepted' = accepted \/ accepted' = [accepted EXCEPT ![o] = @ + 1])
    BY <1>4 DEF BrokerReceives
  <2>2. accepted[o] < posts[o]
    BY <1>t, <2>1, AcceptedOnce
  <2> QED BY <1>1, <2>1, <2>2 DEF Contract!Next, Contract!Accept
<1>5. ASSUME NEW p \in Procs, NEW o \in Orders, Submit(p, o)
      PROVE  [Contract!Next]_(Contract!vars)
  <2>1. CASE SubmitCached(p, o)
    BY <1>3, <1>k, <2>1 DEF SubmitCached, KnowsJournal
  <2>2. CASE SubmitReserve(p, o) \/ SubmitThrows(p, o)
    BY <1>1, <2>2 DEF SubmitReserve, SubmitThrows, LockOut, worldVars
  <2> QED BY <1>5, <2>1, <2>2 DEF Submit
<1>6. ASSUME NEW p \in Procs, Submitting(p) PROVE [Contract!Next]_(Contract!vars)
  <2>1. CASE AckFsync(p)
    BY <1>3, <1>k, <2>1 DEF AckFsync, KnowsJournal
  <2>2. CASE \/ ReserveFsync(p) \/ Acknowledge(p) \/ ReserveFsyncFails(p) \/ PostFails(p)
             \/ AcknowledgeThrows(p) \/ AckFsyncFails(p) \/ Unconfirmed(p)
    BY <1>1, <2>2 DEF ReserveFsync, Acknowledge, ReserveFsyncFails, PostFails,
       AcknowledgeThrows, AckFsyncFails, Unconfirmed, LockOut, worldVars
  <2> QED BY <1>2, <1>6, <2>1, <2>2 DEF Submitting
<1>7. ASSUME NEW p \in Procs, Constructor(p) \/ Exit(p) PROVE [Contract!Next]_(Contract!vars)
  BY <1>1, <1>7 DEF Constructor, OpenLocked, OpenNew, OpenNewFails, HeaderFsync, DirFsync,
     CreateFails, OpenExisting, OpenRejected, Disable, Exit, worldVars
<1>8. CASE UNCHANGED vars \/ PowerLoss \/ \E o \in Orders : RequestLost(o)
  BY <1>1, <1>8 DEF vars, PowerLoss, RequestLost, worldVars
<1> QED BY <1>4, <1>5, <1>6, <1>7, <1>8 DEF Next

\* Directional submission implements OrderContract.
THEOREM Refinement ==
  ASSUME DirEntrySafe
  PROVE  Spec => ImplementsContract
<1>1. Init => Contract!Init
  BY DEF Init, Contract!Init
<1>2. IInv /\ [Next]_vars => [Contract!Next]_(Contract!vars)
  BY ContractStep
<1> QED BY <1>1, <1>2, InductiveInvariant, PTL DEF Spec, ImplementsContract, Contract!Spec
-----------------------------------------------------------------------------
(* The position limit. *)

\* The orders whose dollars count in a symbol.
AcceptedIn(s) == {o \in Orders : o.symbol = s /\ accepted[o] > 0}

\* What the sum of Exposure computes over no order and over one.
LEMMA ExposureMeans ==
  ASSUME NEW s \in Symbols
  PROVE  /\ AcceptedIn(s) = {} => Exposure(s) = 0
         /\ \A a : AcceptedIn(s) = {a} /\ accepted[a] * a.notional \in Nat =>
              Exposure(s) = accepted[a] * a.notional
<1> DEFINE S == {o \in Orders : o.symbol = s /\ accepted[o] > 0}
           body(iter, t) == IF t = {} THEN 0
                            ELSE LET x == CHOOSE y \in t : TRUE
                                 IN  (accepted[x] * x.notional) + iter[t \ {x}]
           defines(iter) == iter = [t \in SUBSET S |-> body(iter, t)]
           sum == CHOOSE iter : defines(iter)
<1>1. Exposure(s) = sum[S]
  BY DEF Exposure, MapThenSumSet, MapThenFoldSet
<1>2. \A iter : body(iter, {}) = 0
  OBVIOUS
<1>3. S = AcceptedIn(s)
  BY DEF AcceptedIn
<1> HIDE DEF S
<1>4. {} \in SUBSET S /\ S \in SUBSET S
  OBVIOUS
<1>5. CASE S = {}
  <2> DEFINE g == [t \in SUBSET S |-> 0]
  <2>1. defines(g)
    <3>1. \A t \in SUBSET S : body(g, t) = 0
      BY <1>2, <1>5
    <3> HIDE DEF body
    <3>2. QED BY <3>1
  <2>2. defines(sum)
    <3> HIDE DEF g, defines
    <3> QED BY <2>1
  <2> HIDE DEF body, sum
  <2>3. sum[S] = 0
    BY <1>2, <1>4, <1>5, <2>2
  <2> QED BY <1>1, <1>3, <1>5, <2>3
<1>6. ASSUME NEW a, S = {a}, accepted[a] * a.notional \in Nat
      PROVE  Exposure(s) = accepted[a] * a.notional
  <2> DEFINE v == accepted[a] * a.notional
             g == [t \in SUBSET S |-> IF t = {} THEN 0 ELSE v]
  <2>1. \A t \in SUBSET S : t = {} \/ t = {a}
    BY <1>6
  <2>2. {a} \ {a} = {} /\ (CHOOSE y \in {a} : TRUE) = a /\ {a} # {}
    OBVIOUS
  <2>3. \A iter : body(iter, {a}) = v + iter[{}]
    BY <2>2
  <2>4. v \in Nat
    BY <1>6
  <2> HIDE DEF v
  <2>5. defines(g)
    <3>1. g[{}] = 0
      BY <1>4
    <3>2. body(g, {}) = 0 /\ body(g, {a}) = v
      BY <1>2, <2>3, <2>4, <3>1
    <3> HIDE DEF body
    <3>3. \A t \in SUBSET S : (IF t = {} THEN 0 ELSE v) = body(g, t)
      BY <2>1, <2>2, <3>2
    <3>4. QED BY <3>3
  <2>6. defines(sum)
    <3> HIDE DEF g, defines
    <3> QED BY <2>5
  <2> HIDE DEF body, sum
  <2>7. sum[{}] = 0
    BY <1>2, <1>4, <2>6
  <2>8. sum[{a}] = v + sum[{}]
    BY <1>4, <1>6, <2>3, <2>6
  <2>9. sum[S] = v
    BY <1>6, <2>4, <2>7, <2>8
  <2> QED BY <1>1, <2>9 DEF v
<1> QED BY <1>3, <1>5, <1>6

\* Only orders within the limit are sent.
SentIsAffordable == \A o \in Orders : posts[o] > 0 => o.notional <= MaxPosition

\* SentIsAffordable is kept: what an instance sends has passed the check of submitOrder.
LEMMA AffordableStep ==
  ASSUME IInv, SentIsAffordable, [Next]_vars
  PROVE  SentIsAffordable'
<1>1. CASE posts' = posts
  BY <1>1 DEF SentIsAffordable
<1>2. CASE posts' # posts
  <2>1. PICK p \in Procs : Post(p)
    BY <1>2, OnlyPostSends
  <2>2. cur[p].notional <= MaxPosition
    BY <2>1 DEF Post, IInv, JournalInv, KnowsJournal
  <2>3. \A o \in Orders : o # cur[p] => posts'[o] = posts[o]
    BY <2>1 DEF Post, IInv, TypeOK, WorldOK
  <2> QED BY <2>2, <2>3 DEF SentIsAffordable
<1> QED BY <1>1, <1>2

\* One order of a symbol at most is accepted, once, and it was within the limit.
LEMMA ExposureOfOne ==
  ASSUME IInv, SentIsAffordable
  PROVE  ExposureWithinLimit
<1> SUFFICES ASSUME NEW s \in Symbols PROVE Exposure(s) <= MaxPosition
  BY DEF ExposureWithinLimit
<1>t. /\ posts \in [Orders -> Nat] /\ accepted \in [Orders -> Nat] /\ wire \in [Orders -> Nat]
      /\ MaxPosition \in Nat /\ \A o \in Orders : o.notional \in Nat
  BY OrdersAssumption, SubmitAssumption DEF IInv, TypeOK, WorldOK
<1>1. \A o \in AcceptedIn(s) :
        /\ o \in Orders /\ o.symbol = s
        /\ posts[o] > 0 /\ accepted[o] <= posts[o] /\ accepted[o] > 0
  BY <1>t DEF IInv, WorldInv, Conserved, AcceptedIn
<1>2. \A o1, o2 \in AcceptedIn(s) : o1 = o2 /\ posts[o1] = 1
  BY <1>1 DEF IInv, WorldInv, AtMostOncePost, Conflict
<1>3. ASSUME NEW a \in AcceptedIn(s) PROVE Exposure(s) <= MaxPosition
  <2>1. AcceptedIn(s) = {a} /\ a \in Orders
    BY <1>1, <1>2, <1>3
  <2>2. accepted[a] = 1
    BY <1>t, <1>1, <1>2, <2>1
  <2>3. accepted[a] * a.notional = a.notional /\ a.notional \in Nat
    BY <1>t, <2>1, <2>2
  <2>4. Exposure(s) = a.notional
    BY <2>1, <2>3, ExposureMeans
  <2>5. a.notional <= MaxPosition
    BY <1>1, <1>3 DEF SentIsAffordable
  <2> QED BY <2>4, <2>5
<1>4. CASE AcceptedIn(s) = {}
  BY <1>t, <1>4, ExposureMeans
<1> QED BY <1>3, <1>4

\* The dollars accepted in a symbol stay within max_position_usd, over all instances,
\* restarts and unknown outcomes, for any orders.
THEOREM ExposureIsLimited ==
  ASSUME DirEntrySafe
  PROVE  Spec => []ExposureWithinLimit
<1>1. Init => SentIsAffordable
  BY DEF Init, SentIsAffordable
<1>2. IInv /\ SentIsAffordable /\ [Next]_vars => SentIsAffordable'
  BY AffordableStep
<1>3. IInv /\ SentIsAffordable => ExposureWithinLimit
  BY ExposureOfOne
<1> QED BY <1>1, <1>2, <1>3, InductiveInvariant, PTL DEF Spec

-----------------------------------------------------------------------------
(* The journal can be replayed.  Nothing here rests on DirEntrySafe. *)

\* A journal records finitely many orders.
LEMMA FiniteRecords ==
  ASSUME NEW text \in Seq(Line)
  PROVE  IsFiniteSet(Reserved(text))
<1> DEFINE S == {j \in DOMAIN text : text[j].kind = "P"}
<1>1. IsFiniteSet(1..Len(text)) /\ DOMAIN text = 1..Len(text)
  BY FS_Interval
<1>2. IsFiniteSet(S)
  BY <1>1, FS_Subset
<1> DEFINE f == [j \in S |-> text[j].order]
<1>3. f \in Surjection(S, Reserved(text))
  BY DEF Surjection, Reserved
<1> QED BY <1>2, <1>3, FS_Surjection

\* A journal that begins like another: a prefix of what can be replayed can be.
LEMMA ReplayablePrefix ==
  ASSUME NEW text \in Seq(Line), Replayable(text), NEW n \in 1..Len(text)
  PROVE  Replayable(SubSeq(text, 1, n))
<1> DEFINE cut == SubSeq(text, 1, n)
<1>1. /\ cut \in Seq(Line) /\ Len(cut) = n /\ n \in Nat /\ n >= 1
      /\ \A i \in 1..n : cut[i] = text[i]
      /\ cut # <<>> /\ 1 \in 1..n
  OBVIOUS
<1>2. Reserved(cut) \subseteq Reserved(text)
  BY PrefixRecords
<1> HIDE DEF cut
<1>3. \A i \in 2..n : i \in 2..Len(text) /\ i \in 1..n /\ 2..(i - 1) \subseteq 1..n
  OBVIOUS
<1>4. Chained(cut)
  BY <1>1, <1>3 DEF Replayable, Chained
<1>5. LegalTransitions(cut)
  <2>1. ASSUME NEW i \in 2..n
        PROVE  /\ cut[i].kind = "P" =>
                    \A j \in 2..(i - 1) : cut[j].kind = "P" => cut[j].order.ref # cut[i].order.ref
               /\ cut[i].kind = "A" =>
                    /\ \E j \in 2..(i - 1) : cut[j].kind = "P" /\ cut[j].order = cut[i].order
                    /\ \A j \in 2..(i - 1) : cut[j].kind = "A" => cut[j].order # cut[i].order
    <3>1. cut[i] = text[i] /\ \A j \in 2..(i - 1) : cut[j] = text[j]
      BY <1>1, <1>3
    <3> QED BY <1>3, <3>1 DEF Replayable, LegalTransitions
  <2> QED BY <1>1, <2>1 DEF LegalTransitions
<1>6. Cardinality(Reserved(cut)) <= MaxEntries
  <2>1. IsFiniteSet(Reserved(text))
    BY FiniteRecords
  <2>2. /\ Cardinality(Reserved(cut)) \in Nat /\ Cardinality(Reserved(text)) \in Nat
        /\ Cardinality(Reserved(cut)) <= Cardinality(Reserved(text))
    BY <1>2, <2>1, FS_Subset, FS_CardinalityType
  <2> QED BY <2>2, CapacityAssumption DEF Replayable
<1> QED BY <1>1, <1>4, <1>5, <1>6 DEF Replayable, cut

\* A P line for a reference without entry, and an A line for an order that is pending,
\* with the number of lines before them, leave a journal that can be replayed.
LEMMA ReplayableAppend ==
  ASSUME NEW text \in Seq(Line), Replayable(text), NEW o \in Orders,
         NEW l \in {PendingLine(o, Len(text)), AckLine(o, Len(text))},
         l.kind = "P" => /\ \A e \in Reserved(text) : e.ref # o.ref
                         /\ Cardinality(Reserved(text)) < MaxEntries,
         l.kind = "A" => o \in Reserved(text) /\ o \notin Acked(text)
  PROVE  Replayable(Append(text, l))
<1> DEFINE new == Append(text, l)
           n == Len(text)
<1>1. l \in Line /\ l.order = o /\ l.prev = n /\ l.kind \in {"P", "A"}
  <2>1. n \in Nat
    OBVIOUS
  <2>2. CASE l = PendingLine(o, Len(text))
    BY <2>1, <2>2, LineTypes DEF PendingLine
  <2>3. CASE l = AckLine(o, Len(text))
    BY <2>1, <2>3, LineTypes DEF AckLine
  <2> QED BY <2>2, <2>3
<1>2. /\ n \in Nat /\ n >= 1 /\ Len(new) = n + 1 /\ new \in Seq(Line)
      /\ new[n + 1] = l /\ \A i \in 1..n : new[i] = text[i]
      /\ new # <<>>
  BY <1>1 DEF Replayable
<1>3. /\ Reserved(new) = Reserved(text) \union (IF l.kind = "P" THEN {o} ELSE {})
  BY <1>1, AppendRecords
<1> HIDE DEF new
<1>4. \A i \in 2..(n + 1) : /\ i = n + 1 \/ i \in 2..n
                            /\ 2..(i - 1) \subseteq 1..n
  BY <1>2
<1>5. new[1].kind = "H"
  BY <1>2 DEF Replayable
<1>6. Chained(new)
  BY <1>1, <1>2, <1>4 DEF Replayable, Chained
<1>7. LegalTransitions(new)
  <2>1. ASSUME NEW i \in 2..n
        PROVE  /\ new[i].kind = "P" =>
                    \A j \in 2..(i - 1) : new[j].kind = "P" => new[j].order.ref # new[i].order.ref
               /\ new[i].kind = "A" =>
                    /\ \E j \in 2..(i - 1) : new[j].kind = "P" /\ new[j].order = new[i].order
                    /\ \A j \in 2..(i - 1) : new[j].kind = "A" => new[j].order # new[i].order
    <3>1. i \in 2..Len(text) /\ new[i] = text[i] /\ \A j \in 2..(i - 1) : new[j] = text[j]
      BY <1>2
    <3> QED BY <3>1 DEF Replayable, LegalTransitions
  <2>2. \A j \in 2..n : /\ new[j] = text[j] /\ j \in DOMAIN text
                        /\ text[j].kind = "P" => text[j].order \in Reserved(text)
                        /\ text[j].kind = "A" => text[j].order \in Acked(text)
    BY <1>2 DEF Reserved, Acked
  <2>3. l.kind = "P" => \A j \in 2..n : new[j].kind = "P" => new[j].order.ref # o.ref
    BY <2>2
  <2>4. l.kind = "A" => \A j \in 2..n : new[j].kind = "A" => new[j].order # o
    BY <2>2
  <2>5. l.kind = "A" => \E j \in 2..n : new[j].kind = "P" /\ new[j].order = o
    <3>1. SUFFICES ASSUME o \in Reserved(text)
                   PROVE  \E j \in 2..n : new[j].kind = "P" /\ new[j].order = o
      OBVIOUS
    <3>2. PICK j \in DOMAIN text : text[j].kind = "P" /\ text[j].order = o
      BY <3>1 DEF Reserved
    <3>3. j \in 2..n
      BY <1>2, <3>2 DEF Replayable
    <3> QED BY <2>2, <3>2, <3>3
  <2>6. n + 1 - 1 = n
    BY <1>2
  <2> QED BY <1>1, <1>2, <1>4, <2>1, <2>3, <2>4, <2>5, <2>6 DEF LegalTransitions
<1>8. Cardinality(Reserved(new)) <= MaxEntries
  <2>1. IsFiniteSet(Reserved(text)) /\ Cardinality(Reserved(text)) \in Nat
    BY FiniteRecords, FS_CardinalityType
  <2>2. CASE l.kind = "P"
    <3>1. Cardinality(Reserved(new)) <= Cardinality(Reserved(text)) + 1
      <4>1. Reserved(new) = Reserved(text) \union {o}
        BY <1>3, <2>2
      <4>2. Cardinality(Reserved(text) \union {o}) =
              IF o \in Reserved(text) THEN Cardinality(Reserved(text))
                                       ELSE Cardinality(Reserved(text)) + 1
        BY <2>1, FS_AddElement
      <4> QED BY <2>1, <4>1, <4>2
    <3>2. Cardinality(Reserved(new)) \in Nat
      BY <1>2, FiniteRecords, FS_CardinalityType
    <3> QED BY <2>1, <2>2, <3>1, <3>2, CapacityAssumption
  <2>3. CASE l.kind # "P"
    BY <1>3, <2>3 DEF Replayable
  <2> QED BY <2>2, <2>3
<1> QED BY <1>2, <1>5, <1>6, <1>7, <1>8 DEF Replayable, new

\* A journal that holds its header and nothing else can be replayed.
LEMMA HeaderIsReplayable ==
  /\ Replayable(<<HeaderLine>>) /\ Len(<<HeaderLine>>) = 1
  /\ Reserved(<<HeaderLine>>) = {} /\ Acked(<<HeaderLine>>) = {}
<1> DEFINE text == <<HeaderLine>>
<1>1. text # <<>> /\ Len(text) = 1 /\ text[1] = HeaderLine /\ DOMAIN text = 1..1
  OBVIOUS
<1>2. HeaderLine.kind = "H"
  BY DEF HeaderLine
<1> HIDE DEF text
<1>3. Reserved(text) = {} /\ Acked(text) = {}
  BY <1>1, <1>2 DEF Reserved, Acked
<1>4. Chained(text) /\ LegalTransitions(text)
  BY <1>1 DEF Chained, LegalTransitions
<1>5. Cardinality(Reserved(text)) <= MaxEntries
  BY <1>3, FS_EmptySet, CapacityAssumption
<1> QED BY <1>1, <1>2, <1>3, <1>4, <1>5 DEF Replayable, text

\* An A line of a replayable journal follows the P line of its order.
LEMMA AckedAreReserved ==
  ASSUME NEW text \in Seq(Line), Replayable(text)
  PROVE  Acked(text) \subseteq Reserved(text)
<1>1. ASSUME NEW i \in DOMAIN text, text[i].kind = "A"
      PROVE  text[i].order \in Reserved(text)
  <2>1. i \in 2..Len(text)
    BY <1>1 DEF Replayable
  <2>2. \E j \in 2..(i - 1) : text[j].kind = "P" /\ text[j].order = text[i].order
    BY <1>1, <2>1 DEF Replayable, LegalTransitions
  <2>3. \A j \in 2..(i - 1) : j \in DOMAIN text
    BY <2>1
  <2> QED BY <2>2, <2>3 DEF Reserved
<1> QED BY <1>1 DEF Acked

\* What the instance that has the journal knows of its last lines; no other has it open.
WriterKnows(p) ==
  /\ Up(p) <=> lock = p
  /\ ~Up(p) \/ pc[p] \in {"header", "dirsync"} => reserved[p] = {}
  /\ pc[p] \in {"header", "dirsync"} => log = <<HeaderLine>>
  /\ pc[p] = "idle" /\ ~locked[p] =>
       Replayable(log) /\ tail[p] = Len(log) /\ reserved[p] = Reserved(log)
  /\ pc[p] = "reserve" =>
       /\ Replayable(log) /\ tail[p] + 1 = Len(log)
       /\ Reserved(log) = reserved[p] \union {cur[p]} /\ cur[p] \notin Acked(log)
  /\ pc[p] \in {"post", "await"} =>
       /\ Replayable(log) /\ tail[p] = Len(log) /\ reserved[p] = Reserved(log)
       /\ cur[p] \in Reserved(log) /\ cur[p] \notin Acked(log)
  /\ pc[p] = "ack" =>
       Replayable(log) /\ tail[p] + 1 = Len(log) /\ reserved[p] = Reserved(log)

WritersInv == TypeOK /\ JournalReplayable /\ \A p \in Procs : WriterKnows(p)

\* A step that only p takes, with the journal in its hands or without touching it.
WriterMoves(p) ==
  /\ \A q \in Procs \ {p} :
       /\ pc'[q] = pc[q] /\ (locked'[q] <=> locked[q]) /\ cur'[q] = cur[q]
       /\ reserved'[q] = reserved[q] /\ tail'[q] = tail[q]
  /\ \/ lock \in {p, NoProc} /\ lock' \in {p, NoProc}
     \/ UNCHANGED <<lock, log>>
  /\ WriterKnows(p)'
  /\ JournalReplayable'

\* Such a step leaves the others what they know.
LEMMA OthersKeepKnowing ==
  ASSUME WritersInv, TypeOK', NEW p \in Procs, WriterMoves(p)
  PROVE  WritersInv'
<1>1. ASSUME NEW q \in Procs \ {p}
      PROVE  WriterKnows(q)'
  <2>k. WriterKnows(q)
    BY DEF WritersInv
  <2>s. /\ pc'[q] = pc[q] /\ (locked'[q] <=> locked[q]) /\ cur'[q] = cur[q]
        /\ reserved'[q] = reserved[q] /\ tail'[q] = tail[q]
    BY DEF WriterMoves
  <2>1. CASE lock \in {p, NoProc} /\ lock' \in {p, NoProc}
    <3>1. lock # q /\ lock' # q
      BY <2>1, SubmitAssumption
    <3>2. ~Up(q) /\ reserved[q] = {} /\ pc[q] \in {"down", "disabled"}
      BY <2>k, <3>1 DEF WriterKnows, Up
    <3>3. pc'[q] \in {"down", "disabled"} /\ reserved'[q] = {} /\ ~Up(q)'
      BY <2>s, <3>2 DEF Up
    <3> QED BY <3>1, <3>3 DEF WriterKnows
  <2>2. CASE UNCHANGED <<lock, log>>
    BY <2>k, <2>s, <2>2 DEF WriterKnows, Up
  <2> QED BY <2>1, <2>2 DEF WriterMoves
<1> QED BY <1>1 DEF WritersInv, WriterMoves

\* A failed write to a journal that can be replayed, or to none.
LEMMA TornIsReplayable ==
  ASSUME log \in Seq(Line), log = <<>> \/ Replayable(log), TornWrite \/ log' = log
  PROVE  JournalReplayable'
<1>1. CASE log' = log
  BY <1>1 DEF JournalReplayable
<1>2. CASE log' = Append(log, TornLine)
  <2>1. /\ Len(Append(log, TornLine)) = Len(log) + 1
        /\ Append(log, TornLine)[Len(log) + 1] = TornLine
        /\ SubSeq(Append(log, TornLine), 1, Len(log) + 1 - 1) = log
    <3>1. TornLine \in Line
      BY DEF Line
    <3>2. Len(log) \in Nat /\ SubSeq(log, 1, Len(log)) = log
          /\ SubSeq(Append(log, TornLine), 1, Len(log)) = SubSeq(log, 1, Len(log))
      BY <3>1, AppendKeepsPrefix, WholePrefix
    <3>3. Len(log) + 1 - 1 = Len(log)
      BY <3>2
    <3>4. /\ Len(Append(log, TornLine)) = Len(log) + 1
          /\ Append(log, TornLine)[Len(log) + 1] = TornLine
      <4> HIDE DEF TornLine
      <4> QED BY <3>1
    <3>5. SubSeq(Append(log, TornLine), 1, Len(log) + 1 - 1) = log
      BY <3>2, <3>3, Zenon
    <3> QED BY <3>4, <3>5, Zenon
  <2>2. Len(log') = Len(log) + 1
    BY <1>2, <2>1, Zenon
  <2>3. log'[Len(log) + 1] = TornLine /\ SubSeq(log', 1, Len(log) + 1 - 1) = log
    BY <1>2, <2>1, Zenon
  <2>4. log'[Len(log')] = TornLine /\ SubSeq(log', 1, Len(log') - 1) = log
    <3> DEFINE n == Len(log')
    <3>1. log'[n] = TornLine /\ SubSeq(log', 1, n - 1) = log
      <4>1. n = Len(log) + 1
        BY <2>2
      <4> HIDE DEF n, TornLine
      <4> QED BY <2>3, <4>1
    <3> QED BY <3>1
  <2> QED BY <2>4 DEF JournalReplayable
<1> QED BY <1>1, <1>2 DEF TornWrite

\* After a lockout nothing more is appended.
LEMMA LockOutKeepsWriters ==
  ASSUME WritersInv, TypeOK', NEW p \in Procs, LockOut(p),
         \/ Replayable(log) /\ TornWrite
         \/ log' = log,
         pc[p] \in {"idle"} \union InCall
  PROVE  WritersInv'
<1>1. WriterKnows(p) /\ log \in Seq(Line) /\ JournalReplayable /\ TypeOK
  BY DEF WritersInv, TypeOK, FileOK
<1>2. Up(p) /\ lock = p /\ lock' = lock
  BY <1>1 DEF WriterKnows, Up, InCall, LockOut
<1>3. pc'[p] = "idle" /\ locked'[p]
  BY <1>1 DEF LockOut, TypeOK, InstancesOK
<1>4. WriterKnows(p)'
  BY <1>2, <1>3 DEF WriterKnows, Up
<1>5. JournalReplayable'
  <2>1. CASE log' = log
    BY <1>1, <2>1 DEF JournalReplayable
  <2>2. CASE Replayable(log) /\ TornWrite
    BY <1>1, <2>2, TornIsReplayable
  <2> QED BY <2>1, <2>2
<1>6. WriterMoves(p)
  BY <1>1, <1>2, <1>4, <1>5 DEF WriterMoves, LockOut, TypeOK, InstancesOK
<1> QED BY <1>6, OthersKeepKnowing

\* A constructor: it creates the journal, replays it, or leaves it alone.
LEMMA ConstructorKeepsWriters ==
  ASSUME WritersInv, TypeOK', NEW p \in Procs, Constructor(p)
  PROVE  WritersInv'
<1>p. WriterKnows(p) /\ log \in Seq(Line) /\ JournalReplayable /\ InstancesOK
  BY DEF WritersInv, TypeOK, FileOK
<1>n. p # NoProc
  BY SubmitAssumption
<1>1. CASE OpenLocked(p) \/ OpenRejected(p)
  <2>1. /\ pc[p] = "down" /\ UNCHANGED <<log, lock, reserved, tail, cur, locked>>
        /\ pc' = [pc EXCEPT ![p] = "disabled"]
    BY <1>1 DEF OpenLocked, OpenRejected, Disable
  <2>2. WriterKnows(p)'
    BY <1>p, <2>1 DEF WriterKnows, Up, InstancesOK
  <2>3. WriterMoves(p)
    BY <1>p, <2>1, <2>2 DEF WriterMoves, JournalReplayable, InstancesOK
  <2> QED BY <2>3, OthersKeepKnowing
<1>2. CASE OpenNew(p)
  <2>1. /\ pc[p] = "down" /\ lock = NoProc /\ lock' = p /\ log' = <<HeaderLine>>
        /\ pc' = [pc EXCEPT ![p] = "header"] /\ UNCHANGED <<locked, reserved, tail, cur>>
    BY <1>2 DEF OpenNew
  <2>2. WriterKnows(p)'
    BY <1>p, <2>1 DEF WriterKnows, Up, InstancesOK
  <2>3. JournalReplayable'
    BY <2>1, HeaderIsReplayable DEF JournalReplayable
  <2>4. WriterMoves(p)
    BY <1>p, <2>1, <2>2, <2>3 DEF WriterMoves, InstancesOK
  <2> QED BY <2>4, OthersKeepKnowing
<1>3. CASE OpenNewFails(p) \/ CreateFails(p)
  <2>1. /\ pc' = [pc EXCEPT ![p] = "disabled"] /\ lock' = NoProc
        /\ UNCHANGED <<locked, reserved, tail, cur>>
        /\ pc[p] \in {"down", "header", "dirsync"}
        /\ lock \in {p, NoProc}
    BY <1>p, <1>3 DEF OpenNewFails, CreateFails, Disable, WriterKnows, Up
  <2>2. WriterKnows(p)'
    BY <1>p, <1>n, <2>1 DEF WriterKnows, Up, InstancesOK
  <2>3. JournalReplayable'
    <3>1. CASE OpenNewFails(p)
      <4>1. log = <<>> /\ TornWrite
        BY <3>1 DEF OpenNewFails
      <4> QED BY <1>p, <4>1, TornIsReplayable
    <3>2. CASE CreateFails(p)
      BY <1>p, <3>2 DEF CreateFails, JournalReplayable
    <3> QED BY <1>3, <3>1, <3>2
  <2>4. WriterMoves(p)
    BY <1>p, <2>1, <2>2, <2>3 DEF WriterMoves, InstancesOK
  <2> QED BY <2>4, OthersKeepKnowing
<1>4. CASE HeaderFsync(p) \/ DirFsync(p)
  <2>1. /\ pc[p] \in {"header", "dirsync"} /\ UNCHANGED <<log, lock, locked, reserved, cur>>
        /\ \A q \in Procs \ {p} : pc'[q] = pc[q] /\ tail'[q] = tail[q]
        /\ \/ pc'[p] = "dirsync"
           \/ pc'[p] = "idle" /\ tail'[p] = Len(log)
    BY <1>p, <1>4 DEF HeaderFsync, DirFsync, InstancesOK
  <2>2. log = <<HeaderLine>> /\ reserved[p] = {} /\ lock = p
    BY <1>p, <2>1 DEF WriterKnows, Up
  <2>3. WriterKnows(p)'
    <3>1. Replayable(log) /\ Reserved(log) = {}
      BY <2>2, HeaderIsReplayable
    <3> HIDE DEF HeaderLine
    <3> QED BY <1>p, <2>1, <2>2, <3>1 DEF WriterKnows, Up
  <2>4. WriterMoves(p)
    BY <1>p, <2>1, <2>3 DEF WriterMoves, JournalReplayable
  <2> QED BY <2>4, OthersKeepKnowing
<1>5. CASE OpenExisting(p)
  <2>1. /\ pc[p] = "down" /\ lock = NoProc /\ lock' = p /\ UNCHANGED <<log, cur>>
        /\ Replayable(log)
        /\ pc'[p] = "idle" /\ reserved'[p] = Reserved(log) /\ tail'[p] = Len(log)
        /\ \A q \in Procs \ {p} :
             /\ pc'[q] = pc[q] /\ tail'[q] = tail[q] /\ reserved'[q] = reserved[q]
             /\ locked'[q] <=> locked[q]
    BY <1>p, <1>5 DEF OpenExisting, InstancesOK
  <2>2. WriterKnows(p)'
    BY <2>1 DEF WriterKnows, Up
  <2>3. WriterMoves(p)
    BY <1>p, <2>1, <2>2 DEF WriterMoves, JournalReplayable
  <2> QED BY <2>3, OthersKeepKnowing
<1> QED BY <1>1, <1>2, <1>3, <1>4, <1>5 DEF Constructor

\* A call of submitOrder: at most one record is appended, and only to a journal
\* that can be replayed.
LEMMA SubmitKeepsWriters ==
  ASSUME WritersInv, TypeOK', NEW p \in Procs, NEW o \in Orders, Submit(p, o)
  PROVE  WritersInv'
<1>p. WriterKnows(p) /\ log \in Seq(Line) /\ JournalReplayable /\ InstancesOK /\ TypeOK
  BY DEF WritersInv, TypeOK, FileOK
<1>1. CASE SubmitCached(p, o)
  <2>1. UNCHANGED <<fileVars, procVars>>
    BY <1>1 DEF SubmitCached
  <2>2. WriterMoves(p)
    BY <1>p, <2>1 DEF WriterMoves, WriterKnows, Up, JournalReplayable, fileVars, procVars
  <2> QED BY <2>2, OthersKeepKnowing
<1>2. CASE SubmitReserve(p, o)
  <2>1. /\ pc[p] = "idle" /\ ~locked[p] /\ Entry(p, o) = {} /\ HasRoom(p)
        /\ log' = Append(log, PendingLine(o, tail[p])) /\ lock' = lock
        /\ pc'[p] = "reserve" /\ cur'[p] = o /\ tail'[p] = tail[p] /\ reserved'[p] = reserved[p]
        /\ \A q \in Procs \ {p} :
             /\ pc'[q] = pc[q] /\ (locked'[q] <=> locked[q]) /\ cur'[q] = cur[q]
             /\ tail'[q] = tail[q] /\ reserved'[q] = reserved[q]
    BY <1>p, <1>2 DEF SubmitReserve, MayReserve, Admitted, InstancesOK
  <2>2. Replayable(log) /\ tail[p] = Len(log) /\ reserved[p] = Reserved(log) /\ lock = p
    BY <1>p, <2>1 DEF WriterKnows, Up
  <2> DEFINE l == PendingLine(o, Len(log))
  <2>3. l.kind = "P" /\ l.order = o /\ l \in Line /\ log' = Append(log, l)
    <3>1. Len(log) \in Nat
      BY <1>p
    <3> QED BY <2>1, <2>2, <3>1, LineTypes DEF PendingLine
  <2>4. /\ \A e \in Reserved(log) : e.ref # o.ref
        /\ Cardinality(Reserved(log)) < MaxEntries
        /\ o \notin Reserved(log)
    BY <2>1, <2>2 DEF Entry, HasRoom
  <2>5. Replayable(log')
    <3> HIDE DEF l
    <3>1. l \in {PendingLine(o, Len(log)), AckLine(o, Len(log))}
      BY DEF l
    <3> QED BY <1>p, <2>2, <2>3, <2>4, <3>1, ReplayableAppend
  <2>6. Reserved(log') = Reserved(log) \union {o} /\ Acked(log') = Acked(log)
        /\ Len(log') = Len(log) + 1
    <3> HIDE DEF l
    <3>1. Reserved(log') = Reserved(log) \union {o} /\ Acked(log') = Acked(log)
      BY <1>p, <2>3, AppendRecords
    <3>2. Len(log') = Len(log) + 1
      BY <1>p, <2>3
    <3> QED BY <3>1, <3>2
  <2>7. o \notin Acked(log)
    BY <1>p, <2>2, <2>4, AckedAreReserved
  <2>8. WriterKnows(p)'
    BY <2>1, <2>2, <2>5, <2>6, <2>7 DEF WriterKnows, Up
  <2>9. WriterMoves(p)
    BY <2>1, <2>2, <2>5, <2>8 DEF WriterMoves, JournalReplayable
  <2> QED BY <2>9, OthersKeepKnowing
<1>3. CASE SubmitThrows(p, o)
  <2>1. pc[p] = "idle" /\ ~locked[p] /\ LockOut(p) /\ (TornWrite \/ log' = log)
    BY <1>3 DEF SubmitThrows, MayReserve, Admitted
  <2>2. Replayable(log)
    BY <1>p, <2>1 DEF WriterKnows
  <2> QED BY <2>1, <2>2, LockOutKeepsWriters
<1> QED BY <1>1, <1>2, <1>3 DEF Submit

\* The steps of submitOrder after its P line.
LEMMA SubmittingKeepsWriters ==
  ASSUME WritersInv, TypeOK', NEW p \in Procs, Submitting(p)
  PROVE  WritersInv'
<1>p. WriterKnows(p) /\ log \in Seq(Line) /\ JournalReplayable /\ InstancesOK /\ TypeOK
  BY DEF WritersInv, TypeOK, FileOK
<1>1. CASE ReserveFsync(p) \/ AckFsync(p)
  <2>1. /\ pc[p] \in {"reserve", "ack"} /\ UNCHANGED <<log, lock, locked>>
        /\ tail'[p] = tail[p] + 1
        /\ \/ /\ pc[p] = "reserve" /\ pc'[p] = "post" /\ cur'[p] = cur[p]
              /\ reserved'[p] = reserved[p] \union {cur[p]}
           \/ pc[p] = "ack" /\ pc'[p] = "idle" /\ reserved'[p] = reserved[p]
        /\ \A q \in Procs \ {p} :
             pc'[q] = pc[q] /\ cur'[q] = cur[q] /\ tail'[q] = tail[q] /\ reserved'[q] = reserved[q]
    BY <1>p, <1>1 DEF ReserveFsync, AckFsync, InstancesOK
  <2>2. WriterKnows(p)'
    BY <1>p, <2>1 DEF WriterKnows, Up
  <2>3. WriterMoves(p)
    BY <1>p, <2>1, <2>2 DEF WriterMoves, JournalReplayable
  <2> QED BY <2>3, OthersKeepKnowing
<1>2. CASE Post(p)
  <2>1. /\ pc[p] = "post" /\ pc'[p] = "await" /\ UNCHANGED <<log, lock, locked, reserved, tail, cur>>
        /\ \A q \in Procs \ {p} : pc'[q] = pc[q]
    BY <1>p, <1>2 DEF Post, InstancesOK, fileVars
  <2>2. WriterKnows(p)'
    BY <1>p, <2>1 DEF WriterKnows, Up
  <2>3. WriterMoves(p)
    BY <1>p, <2>1, <2>2 DEF WriterMoves, JournalReplayable
  <2> QED BY <2>3, OthersKeepKnowing
<1>3. CASE Acknowledge(p)
  <2>1. /\ pc[p] = "await" /\ pc'[p] = "ack" /\ UNCHANGED <<lock, locked, reserved, tail, cur>>
        /\ log' = Append(log, AckLine(cur[p], tail[p]))
        /\ \A q \in Procs \ {p} : pc'[q] = pc[q]
    BY <1>p, <1>3 DEF Acknowledge, InstancesOK
  <2>2. /\ Replayable(log) /\ tail[p] = Len(log) /\ reserved[p] = Reserved(log) /\ lock = p
        /\ cur[p] \in Reserved(log) /\ cur[p] \notin Acked(log) /\ cur[p] \in Orders
    BY <1>p, <2>1 DEF WriterKnows, Up, InstancesOK, InCall
  <2> DEFINE l == AckLine(cur[p], Len(log))
  <2>3. l.kind = "A" /\ l.order = cur[p] /\ l \in Line /\ log' = Append(log, l)
    <3>1. Len(log) \in Nat
      BY <1>p
    <3> QED BY <2>1, <2>2, <3>1, LineTypes DEF AckLine
  <2>4. Replayable(log')
    <3> HIDE DEF l
    <3>1. l \in {PendingLine(cur[p], Len(log)), AckLine(cur[p], Len(log))}
      BY DEF l
    <3> QED BY <1>p, <2>2, <2>3, <3>1, ReplayableAppend
  <2>5. Reserved(log') = Reserved(log) /\ Len(log') = Len(log) + 1
    <3> HIDE DEF l
    <3>1. Reserved(log') = Reserved(log)
      BY <1>p, <2>3, AppendRecords
    <3>2. Len(log') = Len(log) + 1
      BY <1>p, <2>3
    <3> QED BY <3>1, <3>2
  <2>6. WriterKnows(p)'
    BY <2>1, <2>2, <2>4, <2>5 DEF WriterKnows, Up
  <2>7. WriterMoves(p)
    BY <2>1, <2>2, <2>4, <2>6 DEF WriterMoves, JournalReplayable
  <2> QED BY <2>7, OthersKeepKnowing
<1>4. CASE AcknowledgeThrows(p)
  <2>1. pc[p] = "await" /\ LockOut(p) /\ (TornWrite \/ log' = log)
    BY <1>4 DEF AcknowledgeThrows
  <2>2. Replayable(log) /\ pc[p] \in InCall
    BY <1>p, <2>1 DEF WriterKnows, InCall
  <2> QED BY <2>1, <2>2, LockOutKeepsWriters
<1>5. CASE ReserveFsyncFails(p) \/ PostFails(p) \/ AckFsyncFails(p) \/ Unconfirmed(p)
  <2>1. pc[p] \in InCall /\ LockOut(p) /\ log' = log
    BY <1>5 DEF ReserveFsyncFails, PostFails, AckFsyncFails, Unconfirmed, InCall
  <2> QED BY <2>1, LockOutKeepsWriters
<1> QED BY <1>1, <1>2, <1>3, <1>4, <1>5 DEF Submitting

\* An instance that ends gives the journal back as it is.
LEMMA ExitKeepsWriters ==
  ASSUME WritersInv, TypeOK', NEW p \in Procs, Exit(p)
  PROVE  WritersInv'
<1>p. WriterKnows(p) /\ JournalReplayable /\ InstancesOK /\ p # NoProc
  BY SubmitAssumption DEF WritersInv, TypeOK
<1>1. /\ pc'[p] = "down" /\ reserved'[p] = {} /\ log' = log
      /\ lock' = IF lock = p THEN NoProc ELSE lock
      /\ \A q \in Procs \ {p} :
           /\ pc'[q] = pc[q] /\ (locked'[q] <=> locked[q]) /\ cur'[q] = cur[q]
           /\ tail'[q] = tail[q] /\ reserved'[q] = reserved[q]
  BY <1>p DEF Exit, InstancesOK
<1>2. WriterKnows(p)'
  BY <1>p, <1>1 DEF WriterKnows, Up
<1>3. WriterMoves(p)
  BY <1>p, <1>1, <1>2 DEF WriterMoves, JournalReplayable
<1> QED BY <1>3, OthersKeepKnowing

\* What survives a power failure can be replayed, up to a torn line.
LEMMA SurvivorsAreReplayable ==
  ASSUME WritersInv, PowerLoss
  PROVE  JournalReplayable'
<1>t. log \in Seq(Line) /\ JournalReplayable /\ Len(log) \in Nat /\ synced \in Nat
  BY DEF WritersInv, TypeOK, FileOK
<1>1. \A n \in 0..Len(log) :
        \/ n = 0 /\ SubSeq(log, 1, n) = <<>>
        \/ Replayable(SubSeq(log, 1, n))
        \/ n = Len(log) /\ SubSeq(log, 1, n) = log
  <2> SUFFICES ASSUME NEW n \in 0..Len(log), n # 0, n # Len(log)
               PROVE  Replayable(SubSeq(log, 1, n))
    BY <1>t, WholePrefix
  <2>1. n \in 1..Len(log) /\ n \in 1..(Len(log) - 1) /\ log # <<>>
    BY <1>t
  <2>2. CASE Replayable(log)
    BY <1>t, <2>1, <2>2, ReplayablePrefix
  <2>3. CASE ~Replayable(log)
    <3> DEFINE m == Len(log) - 1
               front == SubSeq(log, 1, m)
    <3>1. /\ m \in 0..Len(log) /\ n \in 0..m /\ m \in n..Len(log) /\ m # 0
          /\ front \in Seq(Line) /\ Len(front) = m /\ n \in 0..Len(log) /\ front # <<>>
      <4>1. /\ m \in 0..Len(log) /\ n \in 0..m /\ m \in n..Len(log) /\ m # 0
            /\ n \in 0..Len(log)
        <5> DEFINE k == Len(log)
        <5>1. k \in Nat /\ n \in 1..(k - 1)
          BY <1>t, <2>1
        <5> HIDE DEF k
        <5>2. k - 1 \in 0..k /\ n \in 0..(k - 1) /\ k - 1 \in n..k /\ k - 1 # 0 /\ n \in 0..k
          BY <5>1
        <5> QED BY <5>2 DEF k
      <4>2. front \in Seq(Line) /\ Len(front) = m
        BY <1>t, <4>1, PrefixRecords
      <4> QED BY <4>1, <4>2
    <3>2. Replayable(front)
      BY <1>t, <2>1, <2>3, <3>1 DEF JournalReplayable
    <3>3. SubSeq(front, 1, n) = SubSeq(log, 1, n)
      BY <1>t, <3>1, PrefixRecords
    <3>4. n \in 1..Len(front)
      BY <2>1, <3>1
    <3> HIDE DEF front
    <3> QED BY <3>1, <3>2, <3>3, <3>4, ReplayablePrefix
  <2> QED BY <2>2, <2>3
<1>2. PICK text \in SurvivingLogs : log' = text
  BY DEF PowerLoss
<1>3. CASE \E n \in synced..Len(log) : text = SubSeq(log, 1, n)
  <2>1. PICK n \in synced..Len(log) : text = SubSeq(log, 1, n)
    BY <1>3
  <2>2. n \in 0..Len(log)
    BY <1>t
  <2> QED BY <1>t, <1>1, <1>2, <2>1, <2>2 DEF JournalReplayable
<1>4. CASE \E n \in synced..(Len(log) - 1) : text = Append(SubSeq(log, 1, n), TornLine)
  <2>1. PICK n \in synced..(Len(log) - 1) : text = Append(SubSeq(log, 1, n), TornLine)
    BY <1>4
  <2> DEFINE front == SubSeq(log, 1, n)
  <2>2. n \in 0..Len(log) /\ n # Len(log) /\ front \in Seq(Line) /\ Len(front) = n
    BY <1>t, <2>1
  <2>3. front = <<>> \/ Replayable(front)
    BY <1>1, <2>2
  <2> HIDE DEF front
  <2>4. /\ log' = Append(front, TornLine) /\ TornLine \in Line
        /\ Len(front) \in Nat /\ Len(front) + 1 - 1 = Len(front)
    BY <1>2, <2>1, <2>2 DEF front, Line
  <2>5. Len(log') = Len(front) + 1 /\ log'[Len(front) + 1] = TornLine
    <3> HIDE DEF TornLine
    <3> QED BY <2>2, <2>4
  <2>6. SubSeq(log', 1, Len(front)) = front
    <3>1. SubSeq(Append(front, TornLine), 1, Len(front)) = SubSeq(front, 1, Len(front))
      BY <2>2, <2>4, AppendKeepsPrefix
    <3>2. SubSeq(front, 1, Len(front)) = front
      BY <2>2, WholePrefix
    <3> QED BY <2>4, <3>1, <3>2, Zenon
  <2>7. /\ log'[Len(log')] = TornLine
        /\ SubSeq(log', 1, Len(log') - 1) = front
    <3> HIDE DEF TornLine
    <3> QED BY <2>4, <2>5, <2>6
  <2> QED BY <2>3, <2>7 DEF JournalReplayable
<1>5. CASE text = <<>>
  BY <1>2, <1>5 DEF JournalReplayable
<1> QED BY <1>3, <1>4, <1>5 DEF SurvivingLogs

\* Every step keeps the writers' knowledge.
LEMMA WritersStep ==
  ASSUME WritersInv, [Next]_vars
  PROVE  WritersInv'
<1>t. TypeOK'
  BY TypeStep DEF WritersInv
<1>0. CASE UNCHANGED vars
  BY <1>t, <1>0
     DEF vars, fileVars, procVars, WritersInv, WriterKnows, Up, JournalReplayable
<1>1. ASSUME NEW p \in Procs, Constructor(p) \/ Submitting(p) \/ Exit(p)
      PROVE  WritersInv'
  BY <1>t, <1>1, ConstructorKeepsWriters, SubmittingKeepsWriters, ExitKeepsWriters
<1>2. ASSUME NEW p \in Procs, NEW o \in Orders, Submit(p, o)
      PROVE  WritersInv'
  BY <1>t, <1>2, SubmitKeepsWriters
<1>3. ASSUME NEW o \in Orders, BrokerReceives(o) \/ RequestLost(o)
      PROVE  WritersInv'
  <2>1. UNCHANGED <<fileVars, pc, locked, reserved, tail, cur>>
    BY <1>3 DEF BrokerReceives, RequestLost, procVars
  <2> QED BY <1>t, <2>1 DEF fileVars, WritersInv, WriterKnows, Up, JournalReplayable
<1>4. CASE PowerLoss
  <2>1. JournalReplayable'
    BY <1>4, SurvivorsAreReplayable
  <2>2. \A p \in Procs : pc'[p] = "down" /\ reserved'[p] = {} /\ lock' = NoProc /\ p # NoProc
    BY <1>4, SubmitAssumption DEF PowerLoss
  <2>3. \A p \in Procs : WriterKnows(p)'
    BY <2>2 DEF WriterKnows, Up
  <2> QED BY <1>t, <2>1, <2>3 DEF WritersInv
<1> QED BY <1>0, <1>1, <1>2, <1>3, <1>4 DEF Next

\* Whatever fails to be written, dies or loses power, the next constructor can
\* replay the journal, up to one torn line at its end: for any number of
\* instances and orders, any faults, and whether or not fsync makes a directory
\* entry durable (replay and append of intent_journal.hpp).
THEOREM JournalStaysReplayable == Spec => []JournalReplayable
<1>1. Init => WritersInv
  <2>1. ASSUME Init
        PROVE  JournalReplayable /\ \A p \in Procs : WriterKnows(p)
    BY <2>1, SubmitAssumption DEF Init, JournalReplayable, WriterKnows, Up
  <2> QED BY <2>1, InitialTypes DEF WritersInv
<1>2. WritersInv /\ [Next]_vars => WritersInv'
  BY WritersStep
<1>3. WritersInv => JournalReplayable
  BY DEF WritersInv
<1> QED BY <1>1, <1>2, <1>3, PTL DEF Spec

-----------------------------------------------------------------------------
(* The reading loop. *)

\* What the first k lines of the file record.
ReservedUpTo(k) == {lines[i].order : i \in {j \in 1..k : lines[j].kind = "P"}}
AckedUpTo(k) == {lines[i].order : i \in {j \in 1..k : lines[j].kind = "A"}}

\* A transition the reader accepts at line i.
LegalAt(i) ==
  /\ lines[i].kind = "P" =>
       \A j \in 2..(i - 1) : lines[j].kind = "P" => lines[j].order.ref # lines[i].order.ref
  /\ lines[i].kind = "A" =>
       /\ \E j \in 2..(i - 1) : lines[j].kind = "P" /\ lines[j].order = lines[i].order
       /\ \A j \in 2..(i - 1) : lines[j].kind = "A" => lines[j].order # lines[i].order

\* The lines read so far are replayable, and the table is what they record.
Reading ==
  /\ previous >= 1
  /\ lines[1] = HeaderLine
  /\ lines[Len(lines)] # TornLine
  /\ \A i \in 2..previous : lines[i].kind \in {"P", "A"} /\ lines[i].prev = i - 1 /\ LegalAt(i)
  /\ listed = ReservedUpTo(previous)
  /\ settled = AckedUpTo(previous)
  /\ Cardinality(listed) <= MaxEntries

ReplayInv ==
  /\ ReplayTypeOK
  /\ status \in {"reading", "open"} => Reading
  /\ status = "ends" => previous = 0 /\ listed = {} /\ settled = {}
  /\ status = "open" => previous = Len(lines) /\ lockedOut = HasPending
  /\ status = "rejected" => ~Replayable(lines)

\* Every line of the file is a line.
LEMMA LinesAreLines ==
  ASSUME ReplayTypeOK
  PROVE  /\ Len(lines) \in Nat \ {0}
         /\ DOMAIN lines = 1..Len(lines)
         /\ \A i \in 1..Len(lines) : lines[i] \in Line
         /\ \A i \in 1..Len(lines) : lines[i].kind \in {"P", "A"} =>
              lines[i].order \in Orders /\ lines[i].prev \in Nat
         /\ \A i \in 1..Len(lines) : lines[i].kind = "H" <=> lines[i] = HeaderLine
         /\ \A i \in 1..Len(lines) : lines[i].kind \in {"H", "T", "P", "A"}
  <1>1. Len(lines) \in Nat \ {0} /\ DOMAIN lines = 1..Len(lines)
        /\ \A i \in 1..Len(lines) : lines[i] \in Line
    BY DEF ReplayTypeOK
  <1>2. \A l \in Line : /\ l.kind \in {"P", "A"} => l.order \in Orders /\ l.prev \in Nat
                        /\ l.kind = "H" <=> l = HeaderLine
                        /\ l.kind \in {"H", "T", "P", "A"}
    BY DEF Line, HeaderLine, TornLine
  <1> QED BY <1>1, <1>2

\* Reading one more P or A line extends what has been recorded by its order.
LEMMA OneMoreLine ==
  ASSUME NEW k \in Nat
  PROVE  /\ ReservedUpTo(k + 1) =
              ReservedUpTo(k) \union (IF lines[k + 1].kind = "P" THEN {lines[k + 1].order} ELSE {})
         /\ AckedUpTo(k + 1) =
              AckedUpTo(k) \union (IF lines[k + 1].kind = "A" THEN {lines[k + 1].order} ELSE {})
  <1>1. 1..(k + 1) = (1..k) \union {k + 1}
    OBVIOUS
  <1>2. \A c \in {"P", "A"} :
          {lines[i].order : i \in {j \in 1..(k + 1) : lines[j].kind = c}} =
          {lines[i].order : i \in {j \in 1..k : lines[j].kind = c}}
            \union (IF lines[k + 1].kind = c THEN {lines[k + 1].order} ELSE {})
    BY <1>1
  <1> QED BY <1>2 DEF ReservedUpTo, AckedUpTo

\* The orders reserved in a file are finitely many, and at least those its
\* first lines reserve.
LEMMA ReservedCount ==
  ASSUME ReplayTypeOK, NEW k \in 0..Len(lines)
  PROVE  /\ IsFiniteSet(Reserved(lines))
         /\ ReservedUpTo(k) \subseteq Reserved(lines)
         /\ Cardinality(ReservedUpTo(k)) \in Nat
         /\ Cardinality(ReservedUpTo(k)) <= Cardinality(Reserved(lines))
  <1> DEFINE places == {j \in 1..Len(lines) : lines[j].kind = "P"}
  <1>1. Len(lines) \in Nat /\ DOMAIN lines = 1..Len(lines)
    BY LinesAreLines
  <1>2. IsFiniteSet(places)
    <2>1. IsFiniteSet(1..Len(lines))
      BY <1>1, FS_Interval
    <2> QED BY <2>1, FS_Subset
  <1>3. IsFiniteSet({lines[i].order : i \in places})
    <2> DEFINE image == {lines[i].order : i \in places}
               orderAt == [i \in places |-> lines[i].order]
    <2>1. orderAt \in Surjection(places, image)
      BY DEF Surjection
    <2> QED BY <1>2, <2>1, FS_Surjection
  <1>4. Reserved(lines) = {lines[i].order : i \in places}
    BY <1>1 DEF Reserved
  <1>5. ReservedUpTo(k) \subseteq Reserved(lines)
    BY <1>1, <1>4 DEF ReservedUpTo
  <1> QED BY <1>3, <1>4, <1>5, FS_Subset, FS_CardinalityType

\* Replayable, with its transitions numbered.
LEMMA ReplayableLines ==
  ASSUME ReplayTypeOK
  PROVE  Replayable(lines) <=>
           /\ lines[1] = HeaderLine
           /\ \A i \in 2..Len(lines) :
                lines[i].kind \in {"P", "A"} /\ lines[i].prev = i - 1 /\ LegalAt(i)
           /\ Cardinality(Reserved(lines)) <= MaxEntries
  <1>1. lines # <<>> /\ 1 \in 1..Len(lines)
    BY LinesAreLines DEF ReplayTypeOK
  <1>2. lines[1].kind = "H" <=> lines[1] = HeaderLine
    BY <1>1, LinesAreLines
  <1> QED BY <1>1, <1>2 DEF Replayable, Chained, LegalTransitions, LegalAt

\* While reading, the entry of a reference says what an earlier line says.
LEMMA EntriesAreLines ==
  ASSUME ReplayTypeOK, Reading, MoreLines, current.kind \in {"P", "A"}
  PROVE  /\ LegalPending => LegalAt(previous + 1)
         /\ LegalAck => LegalAt(previous + 1)
         /\ LegalAt(previous + 1) => LegalPending \/ LegalAck
  <1> DEFINE n == previous + 1
  <1>0. /\ previous \in Nat /\ previous >= 1 /\ n \in 1..Len(lines) /\ n - 1 = previous
        /\ 1 \notin 2..previous /\ 2..previous \subseteq 1..previous
        /\ 1..previous = {1} \union 2..previous
    BY LinesAreLines DEF ReplayTypeOK, Reading, MoreLines
  <1>1. lines[1].kind = "H"
    BY DEF Reading, HeaderLine
  <1>2. listed = {lines[j].order : j \in {i \in 2..previous : lines[i].kind = "P"}}
    BY <1>0, <1>1 DEF Reading, ReservedUpTo
  <1>3. settled = {lines[j].order : j \in {i \in 2..previous : lines[i].kind = "A"}}
    BY <1>0, <1>1 DEF Reading, AckedUpTo
  <1>4. current = lines[n]
    BY DEF current
  <1>5. LegalPending => LegalAt(n)
    BY <1>0, <1>2, <1>4 DEF LegalPending, Found, LegalAt
  <1>6. LegalAck => LegalAt(n)
    <2> SUFFICES ASSUME LegalAck PROVE LegalAt(n)
      OBVIOUS
    <2>1. lines[n].order \in listed
      BY <1>4 DEF LegalAck, Found
    <2>2. \E j \in 2..previous : lines[j].kind = "P" /\ lines[j].order = lines[n].order
      BY <1>2, <2>1
    <2>3. \A j \in 2..previous : lines[j].kind = "A" => lines[j].order # lines[n].order
      BY <1>3, <1>4 DEF LegalAck
    <2> QED BY <1>0, <1>4, <2>2, <2>3 DEF LegalAck, LegalAt
  <1>7. LegalAt(n) /\ lines[n].kind = "P" => LegalPending
    BY <1>0, <1>2, <1>4 DEF LegalPending, Found, LegalAt
  <1>8. LegalAt(n) /\ lines[n].kind = "A" => LegalAck
    <2> SUFFICES ASSUME LegalAt(n), lines[n].kind = "A" PROVE LegalAck
      OBVIOUS
    <2>1. lines[n].order \in listed
      BY <1>0, <1>2 DEF LegalAt
    <2>2. lines[n].order \notin settled
      BY <1>0, <1>3 DEF LegalAt
    \* At most one order is reserved for a reference.
    <2>3. \A i, j \in 2..previous :
            /\ lines[i].kind = "P" /\ lines[j].kind = "P"
            /\ lines[i].order.ref = lines[j].order.ref
            => i = j
      <3> SUFFICES ASSUME NEW i \in 2..previous, NEW j \in 2..previous,
                          lines[i].kind = "P", lines[j].kind = "P",
                          lines[i].order.ref = lines[j].order.ref
                   PROVE  i = j
        OBVIOUS
      <3>1. LegalAt(i) /\ LegalAt(j)
        BY DEF Reading
      <3>2. i < j => i \in 2..(j - 1)
        OBVIOUS
      <3>3. j < i => j \in 2..(i - 1)
        OBVIOUS
      <3>4. ~(i < j)
        BY <3>1, <3>2 DEF LegalAt
      <3>5. ~(j < i)
        BY <3>1, <3>3 DEF LegalAt
      <3> QED BY <3>4, <3>5
    <2>4. Found = {lines[n].order}
      BY <1>2, <1>4, <2>1, <2>3 DEF Found
    <2> QED BY <1>4, <2>2, <2>4 DEF LegalAck
  <1> QED BY <1>4, <1>5, <1>6, <1>7, <1>8

\* A line that is read extends the replayable part of the file by one line.
LEMMA ReadingGoesOn ==
  ASSUME ReplayTypeOK, Reading, MoreLines, Verified, LegalAt(previous + 1),
         UNCHANGED lines, previous' = previous + 1,
         listed' = ReservedUpTo(previous + 1), settled' = AckedUpTo(previous + 1),
         Cardinality(listed') <= MaxEntries
  PROVE  Reading'
  <1>1. \A i \in 2..(previous + 1) : i \in 2..previous \/ i = previous + 1
    BY DEF ReplayTypeOK
  <1>2. previous + 1 - 1 = previous /\ previous + 1 >= 1 /\ previous \in Nat
    BY DEF ReplayTypeOK
  <1>3. \A i \in 2..(previous + 1) :
          lines[i].kind \in {"P", "A"} /\ lines[i].prev = i - 1 /\ LegalAt(i)
    BY <1>1, <1>2 DEF Reading, Verified, current
  <1>4. \A i : LegalAt(i)' <=> LegalAt(i)
    BY DEF LegalAt
  <1>5. listed' = ReservedUpTo(previous)' /\ settled' = AckedUpTo(previous)'
    BY DEF ReservedUpTo, AckedUpTo
  <1>6. lines'[1] = HeaderLine /\ lines'[Len(lines')] # TornLine
    BY DEF Reading
  <1> QED BY <1>2, <1>3, <1>4, <1>5, <1>6 DEF Reading

\* The reader throws only at a journal that is not replayable.
LEMMA RejectsRightly ==
  ASSUME ReplayInv, Reject
  PROVE  ~Replayable(lines)
  <1>t. ReplayTypeOK /\ Len(lines) \in Nat \ {0}
    BY LinesAreLines DEF ReplayInv
  <1>1. CASE status = "ends" /\ ~EndsIntact
    <2>1. CASE lines[1] # HeaderLine
      BY <1>t, <2>1, ReplayableLines
    <2>2. CASE lines[1] = HeaderLine /\ lines[Len(lines)] = TornLine
      <3>1. Len(lines) \in 2..Len(lines)
        BY <1>t, <2>2 DEF HeaderLine, TornLine
      <3> QED BY <1>t, <2>2, <3>1, ReplayableLines DEF TornLine
    <2> QED BY <1>1, <2>1, <2>2 DEF EndsIntact
  <1>2. CASE MoreLines
    <2>r. Reading
      BY <1>2 DEF ReplayInv, MoreLines
    <2>1. previous + 1 \in 2..Len(lines) /\ previous + 1 - 1 = previous
      BY <1>2, <1>t, <2>r DEF MoreLines, Reading, ReplayTypeOK
    <2>2. CASE ~Verified
      <3> SUFFICES ASSUME Replayable(lines) PROVE Verified
        BY <2>2
      <3>1. \A i \in 2..Len(lines) : lines[i].kind \in {"P", "A"} /\ lines[i].prev = i - 1
        BY <1>t, ReplayableLines
      <3>2. \A n \in 2..Len(lines) : n = previous + 1 =>
              lines[n].kind \in {"P", "A"} /\ lines[n].prev = previous
        BY <1>t, <3>1 DEF ReplayTypeOK
      <3> QED BY <2>1, <3>2 DEF Verified, current
    <2>3. CASE Verified /\ ~LegalPending /\ ~LegalAck
      BY <1>2, <1>t, <2>r, <2>1, <2>3, EntriesAreLines, ReplayableLines DEF Verified
    <2>4. CASE /\ Verified /\ LegalPending
               /\ ~WithinCapacity(listed \union {current.order})
      <3>1. listed \union {current.order} = ReservedUpTo(previous + 1)
        BY <1>t, <2>r, <2>4, OneMoreLine DEF ReplayTypeOK, Reading, LegalPending, current
      <3>2. previous + 1 \in 0..Len(lines)
        BY <2>1
      <3>3. ~(Cardinality(ReservedUpTo(previous + 1)) <= MaxEntries)
        BY <2>4, <3>1 DEF WithinCapacity
      <3>4. /\ Cardinality(ReservedUpTo(previous + 1)) \in Nat
            /\ Cardinality(Reserved(lines)) \in Nat
            /\ Cardinality(ReservedUpTo(previous + 1)) <= Cardinality(Reserved(lines))
        BY <1>t, <3>2, ReservedCount, FS_CardinalityType
      <3>5. ~(Cardinality(Reserved(lines)) <= MaxEntries)
        BY <3>3, <3>4, CapacityAssumption
      <3> QED BY <1>t, <3>5, ReplayableLines
    <2>5. Verified => \/ ~LegalPending /\ ~LegalAck
                      \/ LegalPending /\ ~WithinCapacity(listed \union {current.order})
      BY <1>2 DEF Reject, MoreLines
    <2> QED BY <2>2, <2>3, <2>4, <2>5
  <1> QED BY <1>1, <1>2 DEF Reject

\* The invariant of the loop.
LEMMA LoopInvariant == ReplaySpec => []ReplayInv
<1>1. ReplayInit => ReplayInv
  <2> SUFFICES ASSUME ReplayInit PROVE ReplayInv
    OBVIOUS
  <2>1. lines \in Seq(Line) \ {<<>>} /\ Len(lines) \in Nat
    BY JournalsAssumption DEF ReplayInit
  <2>2. ReplayTypeOK
    <3>1. previous \in 0..Len(lines) /\ status \in {"ends", "reading", "open", "rejected"}
      BY <2>1 DEF ReplayInit
    <3>2. listed \in SUBSET Orders /\ settled \in SUBSET listed
      BY DEF ReplayInit
    <3> QED BY <2>1, <3>1, <3>2 DEF ReplayInit, ReplayTypeOK
  <2>3. status = "ends" /\ status \notin {"reading", "open", "rejected"}
    BY DEF ReplayInit
  <2>4. previous = 0 /\ listed = {} /\ settled = {}
    BY DEF ReplayInit
  <2> QED BY <2>2, <2>3, <2>4 DEF ReplayInv
<1>2. ReplayInv /\ [ReplayNext]_replayVars => ReplayInv'
  <2> SUFFICES ASSUME ReplayInv, [ReplayNext]_replayVars PROVE ReplayInv'
    OBVIOUS
  <2>t. ReplayTypeOK /\ Len(lines) \in Nat \ {0} /\ previous \in Nat
    BY LinesAreLines DEF ReplayInv, ReplayTypeOK
  <2>0. CASE UNCHANGED replayVars
    <3>1. ReplayTypeOK' /\ (Reading => Reading')
      BY <2>t, <2>0 DEF replayVars, ReplayTypeOK, Reading, LegalAt, ReservedUpTo, AckedUpTo
    <3>2. HasPending' = HasPending
      BY <2>0 DEF replayVars, HasPending
    <3> QED BY <2>0, <3>1, <3>2 DEF replayVars, ReplayInv
  <2>1. CASE CheckEnds
    <3>1. ReplayTypeOK'
      BY <2>t, <2>1 DEF CheckEnds, ReplayTypeOK
    <3>2. ReservedUpTo(1) = {} /\ AckedUpTo(1) = {}
      BY <2>1 DEF CheckEnds, EndsIntact, ReservedUpTo, AckedUpTo, HeaderLine
    <3>3. Cardinality({}) <= MaxEntries
      BY FS_EmptySet, CapacityAssumption
    <3>4. previous' = 1 /\ \A i \in 2..previous' : FALSE
      BY <2>1 DEF CheckEnds
    <3>5. listed' = {} /\ settled' = {}
      BY <2>1 DEF CheckEnds, ReplayInv
    <3>6. listed' = ReservedUpTo(previous)' /\ settled' = AckedUpTo(previous)'
      BY <2>1, <3>2, <3>5 DEF CheckEnds, ReservedUpTo, AckedUpTo
    <3>7. lines'[1] = HeaderLine /\ lines'[Len(lines')] # TornLine
      BY <2>1 DEF CheckEnds, EndsIntact
    <3>8. Reading'
      BY <3>3, <3>4, <3>5, <3>6, <3>7 DEF Reading
    <3> QED BY <2>1, <3>1, <3>8 DEF CheckEnds, ReplayInv
  <2>2. CASE ReadPending
    <3>1. MoreLines /\ Verified /\ LegalPending /\ Reading
      BY <2>2 DEF ReadPending, MoreLines, ReplayInv
    <3>2. current.order \in Orders /\ previous + 1 \in 0..Len(lines)
      BY <2>t, <3>1, LinesAreLines DEF MoreLines, Verified, current
    <3>3. ReplayTypeOK'
      BY <2>t, <2>2, <3>2 DEF ReadPending, ReplayTypeOK
    <3>4. LegalAt(previous + 1)
      BY <2>t, <3>1, EntriesAreLines DEF Verified
    <3>5. listed' = ReservedUpTo(previous + 1) /\ settled' = AckedUpTo(previous + 1)
      BY <2>t, <2>2, <3>1, OneMoreLine DEF ReadPending, Reading, LegalPending, current
    <3>6. Reading'
      BY <2>t, <2>2, <3>1, <3>4, <3>5, ReadingGoesOn DEF ReadPending, WithinCapacity
    <3> QED BY <2>2, <3>1, <3>3, <3>6 DEF ReadPending, MoreLines, ReplayInv
  <2>3. CASE ReadAck
    <3>1. MoreLines /\ Verified /\ LegalAck /\ Reading
      BY <2>3 DEF ReadAck, MoreLines, ReplayInv
    <3>2. current.order \in listed /\ previous + 1 \in 0..Len(lines)
      BY <2>t, <3>1 DEF MoreLines, LegalAck, Found
    <3>3. ReplayTypeOK'
      BY <2>t, <2>3, <3>2 DEF ReadAck, ReplayTypeOK
    <3>4. LegalAt(previous + 1)
      BY <2>t, <3>1, EntriesAreLines DEF Verified
    <3>5. listed' = ReservedUpTo(previous + 1) /\ settled' = AckedUpTo(previous + 1)
      BY <2>t, <2>3, <3>1, OneMoreLine DEF ReadAck, Reading, LegalAck, current
    <3>6. Reading'
      BY <2>t, <2>3, <3>1, <3>4, <3>5, ReadingGoesOn DEF ReadAck, Reading
    <3> QED BY <2>3, <3>1, <3>3, <3>6 DEF ReadAck, MoreLines, ReplayInv
  <2>4. CASE Reject
    <3>1. ~Replayable(lines)
      BY <2>4, RejectsRightly
    <3>2. ReplayTypeOK'
      BY <2>t, <2>4 DEF Reject, ReplayTypeOK
    <3> QED BY <2>4, <3>1, <3>2 DEF Reject, ReplayInv
  <2>5. CASE Open
    <3>1. ReplayTypeOK' /\ Reading /\ HasPending \in BOOLEAN
      BY <2>t, <2>5 DEF Open, ReplayTypeOK, ReplayInv, HasPending
    <3>2. Reading' /\ (HasPending' <=> HasPending)
      BY <2>5, <3>1 DEF Open, Reading, LegalAt, ReservedUpTo, AckedUpTo, HasPending
    <3>3. lockedOut' = HasPending'
      BY <2>5, <3>2 DEF Open, HasPending
    <3> QED BY <2>5, <3>1, <3>2, <3>3 DEF Open, ReplayInv
  <2> QED BY <2>0, <2>1, <2>2, <2>3, <2>4, <2>5 DEF ReplayNext
<1> QED BY <1>1, <1>2, PTL DEF ReplaySpec

\* The constructor opens a journal only when it is replayable and disables the
\* provider only when it is not, on every journal.
THEOREM ReplayExact == ReplaySpec => []AcceptsExactlyReplayable
<1>1. ReplayInv => AcceptsExactlyReplayable
  <2> SUFFICES ASSUME ReplayInv, status = "open" PROVE Replayable(lines)
    BY DEF ReplayInv, AcceptsExactlyReplayable
  <2>1. ReplayTypeOK /\ Reading /\ previous = Len(lines) /\ DOMAIN lines = 1..Len(lines)
    BY LinesAreLines DEF ReplayInv
  <2>2. Cardinality(Reserved(lines)) <= MaxEntries
    BY <2>1 DEF Reading, ReservedUpTo, Reserved
  <2> QED BY <2>1, <2>2, ReplayableLines DEF Reading
<1> QED BY <1>1, LoopInvariant, PTL

\* The table the constructor builds is the journal's, and it locks submission
\* exactly when a reserved order is not acknowledged.
THEOREM ReplayTable == ReplaySpec => []TableIsJournal
<1>1. ReplayInv => TableIsJournal
  <2> SUFFICES ASSUME ReplayInv, status = "open"
               PROVE  /\ listed = Reserved(lines) /\ settled = Acked(lines)
                      /\ lockedOut = (Reserved(lines) # Acked(lines))
    BY DEF TableIsJournal
  <2>1. ReplayTypeOK /\ Reading /\ previous = Len(lines) /\ DOMAIN lines = 1..Len(lines)
    BY LinesAreLines DEF ReplayInv
  <2>2. listed = Reserved(lines) /\ settled = Acked(lines)
    BY <2>1 DEF Reading, ReservedUpTo, AckedUpTo, Reserved, Acked
  <2>3. HasPending <=> listed # settled
    BY <2>1 DEF HasPending, ReplayTypeOK
  <2>4. lockedOut \in BOOLEAN /\ (lockedOut <=> HasPending)
    BY DEF ReplayInv, ReplayTypeOK
  <2>5. lockedOut = (listed # settled)
    BY <2>3, <2>4
  <2> QED BY <2>2, <2>5
<1> QED BY <1>1, LoopInvariant, PTL
=============================================================================
