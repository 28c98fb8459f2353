---------------------------- MODULE PreRecordBuffer ----------------------------
(***************************************************************************)
(* The pre-record buffer (src/src/utils/ring_buffer.cpp): the newest GOPs  *)
(* before the record key is pressed, kept in a ring of kMaxGopSlots slots  *)
(* of which the last maxSlots count, to be put at the head of the file.    *)
(* Each operation but Init holds lock_ from its first look at the indices  *)
(* to its end, and is one action.  Init is called while no other runs.     *)
(*                                                                         *)
(* A GOP is its number.  A write may fail, whole or torn.  WriteGop with   *)
(* no data or with too much of it changes nothing and is left out.         *)
(***************************************************************************)
EXTENDS Integers, FiniteSets, SequencesExt

CONSTANTS
    kMaxGopSlots,
    DefaultSlots,  \* max_slots_ of a new object
    NoGop,         \* a slot that is not valid
    Torn,          \* part of a GOP, in the file
    MaxGops,       \* bound: GOPs written to the buffer
    MaxCalls       \* bound: calls of the other operations

ASSUME SlotsAssumption == kMaxGopSlots \in Nat \ {0} /\ DefaultSlots \in 1..kMaxGopSlots
ASSUME GopBounds == MaxGops \in Nat /\ MaxCalls \in Nat
ASSUME MarksAssumption == NoGop \notin 1..MaxGops /\ Torn \notin 1..MaxGops

VARIABLES
    slots,       \* buffer_
    writeIndex,  \* write_index_
    gopCount,    \* gop_count_
    maxSlots,    \* max_slots_, 0 when pre-recording is off
    file,        \* history: what the flushes wrote, oldest first
    broken,      \* history: a write of the last flush failed
    recent,      \* history: GOPs written since the buffer was last emptied
    gops, calls  \* history: for the bounds

fileVars == <<file, broken>>
vars == <<slots, writeIndex, gopCount, maxSlots, fileVars, recent, gops, calls>>

Indices == 0..(kMaxGopSlots - 1)
AllInvalid == [i \in Indices |-> NoGop]

Init ==
    /\ slots = AllInvalid /\ writeIndex = 0 /\ gopCount = 0
    /\ maxSlots = DefaultSlots
    /\ file = <<>> /\ broken = FALSE /\ recent = <<>> /\ gops = 0 /\ calls = 0

Called == calls < MaxCalls /\ calls' = calls + 1

-----------------------------------------------------------------------------
\* PreRecordBuffer::Init with no duration: the slots and the index stay as they are.
Disable ==
    /\ Called
    /\ maxSlots' = 0 /\ gopCount' = 0
    /\ recent' = <<>>
    /\ UNCHANGED <<slots, writeIndex, fileVars, gops>>

\* PreRecordBuffer::Init: as many slots as seconds, up to all.
Enable(seconds) ==
    /\ Called
    /\ maxSlots' = IF seconds > kMaxGopSlots THEN kMaxGopSlots ELSE seconds
    /\ slots' = AllInvalid /\ writeIndex' = 0 /\ gopCount' = 0
    /\ recent' = <<>>
    /\ UNCHANGED <<fileVars, gops>>

Clear ==
    /\ Called
    /\ slots' = AllInvalid /\ writeIndex' = 0 /\ gopCount' = 0
    /\ recent' = <<>>
    /\ UNCHANGED <<maxSlots, fileVars, gops>>

WriteGop ==
    /\ maxSlots > 0
    /\ gops < MaxGops
    /\ gops' = gops + 1
    /\ slots' = [slots EXCEPT ![writeIndex] = gops']
    /\ writeIndex' = (writeIndex + 1) % kMaxGopSlots
    /\ gopCount' = IF gopCount < maxSlots THEN gopCount + 1 ELSE gopCount
    /\ recent' = Append(recent, gops')
    /\ UNCHANGED <<maxSlots, fileVars, calls>>

\* Mutant: the oldest GOP is looked for as if every slot counted.
SlotOfAll(i) == (writeIndex + i) % kMaxGopSlots

\* The slot of the i-th GOP from the oldest.
SlotOf(i) == (writeIndex + kMaxGopSlots - gopCount + i) % kMaxGopSlots

\* s without the slots that are not valid.
OnlyValid(s) ==
    LET valid == {i \in 1..Len(s) : s[i] # NoGop}
        At(k) == CHOOSE i \in valid : Cardinality({j \in valid : j <= i}) = k
    IN  [k \in 1..Cardinality(valid) |-> s[At(k)]]

\* The first n GOPs are written, and their slots given up.  If there are more, the write
\* of the next fails or is torn, and those that follow it are left out; the count is
\* reset and LEAVR_OK returned all the same.
FlushToFile(n) ==
    LET whole == OnlyValid([i \in 1..n |-> slots[SlotOf(i - 1)]])
    IN  /\ Called
        /\ maxSlots > 0 /\ gopCount > 0
        /\ \/ n = gopCount /\ file' = file \o whole /\ broken' = FALSE
           \/ /\ n < gopCount /\ slots[SlotOf(n)] # NoGop
              /\ file' \in {file \o whole, file \o whole \o <<Torn>>}
              /\ broken' = TRUE
        /\ slots' = [i \in Indices |-> IF \E k \in 0..(n - 1) : i = SlotOf(k) THEN NoGop
                                                                           ELSE slots[i]]
        /\ gopCount' = 0
        /\ recent' = <<>>
        /\ UNCHANGED <<writeIndex, maxSlots, gops>>

Next ==
    \/ WriteGop \/ Disable \/ Clear
    \/ \E seconds \in 1..(kMaxGopSlots + 1) : Enable(seconds)
    \/ \E n \in 0..gopCount : FlushToFile(n)

Spec == Init /\ [][Next]_vars

-----------------------------------------------------------------------------
(* Properties *)

\* What the record key is to find: the newest of the GOPs, at most maxSlots.
Newest == IF Len(recent) <= maxSlots THEN recent
          ELSE SubSeq(recent, Len(recent) - maxSlots + 1, Len(recent))

FlushStep == \E n \in 0..gopCount : FlushToFile(n)

\* A flush puts the newest GOPs into the file, all of them, oldest first, wherever the ring
\* wrapped around and whatever earlier flushes left in its slots; one whose write fails
\* puts a prefix of them there, and nothing of what it left out comes back in a later one.
FlushWritesNewest ==
    [][FlushStep =>
         \/ ~broken' /\ file' = file \o Newest
         \/ broken' /\ \E k \in 0..(Len(Newest) - 1) :
                file' \in {file \o SubSeq(Newest, 1, k), file \o SubSeq(Newest, 1, k) \o <<Torn>>}
      ]_vars
================================================================================
