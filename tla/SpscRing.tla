------------------------------ MODULE SpscRing ------------------------------
(***************************************************************************)
(* The rings between one producer and one consumer: HealthStreamRingBuffer  *)
(* (extensions/aille_observability.hpp) and WNFSChannel                     *)
(* (extensions/aille_wnfs.hpp).  The first keeps wrapped indices and leaves *)
(* a slot empty; the second counts up in a size_t, which wraps much later,  *)
(* and masks. Their atomics are read here one at a time, in the order of    *)
(* the code, as release and acquire pairs promise.                          *)
(***************************************************************************)
EXTENDS Integers, Sequences

CONSTANTS Items,     \* what is sent
          NoItem,    \* the contents of a slot before its first use
          Capacity,  \* slots
          Width      \* values of the type of an index

ASSUME RingAssumption ==
    /\ NoItem \notin Items
    /\ Capacity \in Nat /\ Capacity >= 2
    /\ Width \in Nat /\ Width % Capacity = 0 /\ Width >= 2 * Capacity

VARIABLES
    counted,    \* TRUE: the indices count on (WNFSChannel)
    slots,      \* buffer, ring_buffer_
    writeIdx,   \* write_idx, write_head_
    readIdx,    \* read_idx, read_tail_
    producer,   \* "idle", "check", "store" or "publish"
    item,       \* what it sends
    consumer,   \* "idle", "load" or "release"
    popped        \* what the consumer got last

ringVars == <<counted, slots, writeIdx, readIdx, producer, item, consumer, popped>>

\* Indices run over one lap of slots, or over the whole type.
Lap == IF counted THEN Width ELSE Capacity
After(i) == (i + 1) % Lap
Slot(i) == i % Capacity
Held(w, r) == (w - r) % Lap

\* Mutant: a wrapped index may fill the last slot.
FullAt(w, r) == Held(w, r) >= Capacity

\* The producer's test: one slot of the wrapped ring stays empty.
Full(w, r) == IF counted THEN Held(w, r) >= Capacity ELSE After(w) = r

RingInit ==
    /\ counted \in BOOLEAN
    /\ slots = [i \in 0 .. Capacity - 1 |-> NoItem]
    /\ writeIdx = 0 /\ readIdx = 0
    /\ producer = "idle" /\ item = NoItem
    /\ consumer = "idle" /\ popped = NoItem

-----------------------------------------------------------------------------
\* try_push and push_frame.
Push(i) ==
    /\ producer = "idle"
    /\ producer' = "check" /\ item' = i
    /\ UNCHANGED <<counted, slots, writeIdx, readIdx, consumer, popped>>

\* A full ring drops the item and says so.
PushCheck ==
    /\ producer = "check"
    /\ producer' = IF Full(writeIdx, readIdx) THEN "idle" ELSE "store"
    /\ UNCHANGED <<counted, slots, writeIdx, readIdx, item, consumer, popped>>

PushStore ==
    /\ producer = "store"
    /\ slots' = [slots EXCEPT ![Slot(writeIdx)] = item]
    /\ producer' = "publish"
    /\ UNCHANGED <<counted, writeIdx, readIdx, item, consumer, popped>>

PushPublish ==
    /\ producer = "publish"
    /\ writeIdx' = After(writeIdx)
    /\ producer' = "idle"
    /\ UNCHANGED <<counted, slots, readIdx, item, consumer, popped>>

\* try_pop and pop_frame. An empty ring says so.
Pop ==
    /\ consumer = "idle" /\ readIdx # writeIdx
    /\ consumer' = "load"
    /\ UNCHANGED <<counted, slots, writeIdx, readIdx, producer, item, popped>>

\* The copy out, then the release of the slot.
PopLoad ==
    \/ /\ consumer = "load"
       /\ popped' = slots[Slot(readIdx)]
       /\ consumer' = "release"
       /\ UNCHANGED <<counted, slots, writeIdx, readIdx, producer, item>>
    \/ /\ consumer = "release"
       /\ readIdx' = After(readIdx)
       /\ consumer' = "idle"
       /\ UNCHANGED <<counted, slots, writeIdx, producer, item, popped>>

\* reset, which is no operation of a concurrent ring: both ends are at rest.
ResetRing ==
    /\ counted /\ producer = "idle" /\ consumer = "idle"
    /\ writeIdx' = 0 /\ readIdx' = 0
    /\ UNCHANGED <<counted, slots, producer, item, consumer, popped>>

RingNext == \/ \E i \in Items : Push(i)
            \/ PushCheck \/ PushStore \/ PushPublish \/ Pop \/ PopLoad \/ ResetRing

RingSpec == RingInit /\ [][RingNext]_ringVars

-----------------------------------------------------------------------------
\* What is in the ring: the slots from the read index to the write index, but
\* for one the consumer has copied and not yet given back.
Occupied == LET n == Held(writeIdx, readIdx)
                gone == IF consumer = "release" THEN 1 ELSE 0
            IN  [k \in 1 .. n - gone |-> slots[Slot(readIdx + gone + k - 1)]]

Queue == INSTANCE RingQueue WITH queued <- Occupied, last <- popped, Bound <- Capacity

\* Both rings are bounded queues, whatever the two ends' steps interleave to
\* and wherever the indices wrap (aille_observability.hpp:83,
\* aille_wnfs.hpp:169).
ImplementsQueue == Queue!QueueSpec
=============================================================================
