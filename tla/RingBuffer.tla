------------------------------ MODULE RingBuffer ------------------------------
(***************************************************************************)
(* The lock-free ring between one producer and one consumer                *)
(* (src/src/utils/ring_buffer.h, class RingBuffer).  Push and Pop take     *)
(* several steps each: the look at the other side's index, the copy of the *)
(* element, the store that publishes it.  Only the owner of an index       *)
(* stores it, except for Clear, which stores both.                         *)
(***************************************************************************)
EXTENDS Naturals, Sequences

CONSTANTS Capacity, Items, NoItem

ASSUME CapacityAssumption == Capacity \in Nat /\ Capacity >= 2
ASSUME NoItemAssumption == NoItem \notin Items

VARIABLES
    head,   \* head_: the slot the next Push fills
    tail,   \* tail_: the slot the next Pop reads
    slots,  \* buffer_
    pHead,  \* head, the local variable of Push
    cTail   \* tail, the local variable of Pop

pushVars == <<pHead, slots>>
ringVars == <<head, tail, slots, pHead, cTail>>

Slots == 0..(Capacity - 1)

RingTypeOK ==
    /\ head \in Slots /\ tail \in Slots /\ pHead \in Slots /\ cTail \in Slots
    /\ slots \in [Slots -> Items \cup {NoItem}]

RingInit ==
    /\ head = 0 /\ tail = 0 /\ pHead = 0 /\ cTail = 0
    /\ slots = [i \in Slots |-> NoItem]

\* Mutant: no way back to the first slot.
SuccessorPast(i) == i + 1

\* (i + 1) & (Capacity - 1), of a capacity that is a power of two.
Successor(i) == IF i + 1 = Capacity THEN 0 ELSE i + 1

\* One slot stays free: equal indices mean an empty ring.
Full == Successor(head) = tail

Empty == head = tail

Size == IF head >= tail THEN head - tail ELSE Capacity - (tail - head)

PushRefused == Full /\ UNCHANGED ringVars
PushFindsRoom == ~Full /\ pHead' = head /\ UNCHANGED <<head, tail, slots, cTail>>
PushStores(x) ==
    /\ slots' = [slots EXCEPT ![pHead] = x]
    /\ UNCHANGED <<head, tail, pHead, cTail>>
PushPublishes == head' = Successor(pHead) /\ UNCHANGED <<tail, pushVars, cTail>>

PopRefused == Empty /\ UNCHANGED ringVars
PopFindsItem == ~Empty /\ cTail' = tail /\ UNCHANGED <<head, tail, pushVars>>
PopRead == slots[cTail]
PopReleases == tail' = Successor(cTail) /\ UNCHANGED <<head, pushVars, cTail>>

\* The two stores of Clear.
ClearsHead == head' = 0 /\ UNCHANGED <<tail, pushVars, cTail>>
ClearsTail == tail' = 0 /\ UNCHANGED <<head, pushVars, cTail>>

\* What the ring holds, oldest first.
Contents == [i \in 1..Size |-> slots[(tail + i - 1) % Capacity]]
===============================================================================
