------------------------- MODULE PreRecordBufferProofs -------------------------
(***************************************************************************)
(* Proof that a flush of PreRecordBuffer writes the newest GOPs, for every *)
(* number of slots.  Spot is SlotOf without its remainder; Holding says    *)
(* which GOP each slot that counts holds, and a write moves every spot by  *)
(* one place or adds one.                                                  *)
(***************************************************************************)
EXTENDS PreRecordBuffer, SequenceTheorems, FiniteSetTheorems, TLAPS

USE DEF fileVars, vars

\* The GOPs that may be written.
Gops == 1..MaxGops

Types ==
    /\ slots \in [Indices -> Gops \cup {NoGop}]
    /\ writeIndex \in Indices
    /\ gopCount \in 0..kMaxGopSlots
    /\ maxSlots \in 0..kMaxGopSlots
    /\ recent \in Seq(Gops)
    /\ gops \in 0..MaxGops

\* As many GOPs count as were written since the buffer was emptied, up to maxSlots.
Counted == gopCount = IF Len(recent) <= maxSlots THEN Len(recent) ELSE maxSlots

\* The i-th slot from the oldest holds the i-th of the newest GOPs.
Holding ==
    \A i \in 0..(gopCount - 1) : slots[SlotOf(i)] = recent[Len(recent) - gopCount + 1 + i]

BufferInv == Types /\ Counted /\ Holding

-----------------------------------------------------------------------------
(* Where the slots are *)

\* Where SlotOf is when the index is w and the count c.
Spot(w, c, i) == IF w - c + i < 0 THEN w - c + i + kMaxGopSlots ELSE w - c + i

\* The index behind w.
Following(w) == IF w + 1 = kMaxGopSlots THEN 0 ELSE w + 1

\* A number below twice the modulus goes round at most once.
LEMMA ModTwice ==
    ASSUME NEW k \in Nat \ {0}, NEW n \in Nat, n < 2 * k
    PROVE  n % k = IF n < k THEN n ELSE n - k
<1>1. CASE n < k
  BY <1>1
<1>2. CASE n >= k
  BY <1>2
<1> QED
  BY <1>1, <1>2

\* Spot is the slot number that SlotOf computes with a remainder.
LEMMA SpotIsMod ==
    ASSUME NEW w \in Indices, NEW c \in 0..kMaxGopSlots, NEW i \in 0..(c - 1)
    PROVE  (w + kMaxGopSlots - c + i) % kMaxGopSlots = Spot(w, c, i) /\ Spot(w, c, i) \in Indices
<1> DEFINE n == w + kMaxGopSlots - c + i
<1>1. kMaxGopSlots \in Nat \ {0} /\ n \in Nat /\ n < 2 * kMaxGopSlots
  BY SlotsAssumption DEF Indices
<1>2. n % kMaxGopSlots = IF n < kMaxGopSlots THEN n ELSE n - kMaxGopSlots
  <2> HIDE DEF n
  <2> QED
    BY <1>1, ModTwice
<1>3. (IF n < kMaxGopSlots THEN n ELSE n - kMaxGopSlots) = Spot(w, c, i)
  BY SlotsAssumption DEF Indices, Spot
<1>4. Spot(w, c, i) \in Indices
  BY SlotsAssumption DEF Indices, Spot
<1>5. n = w + kMaxGopSlots - c + i
  OBVIOUS
<1> HIDE DEF n
<1> QED
  BY <1>2, <1>3, <1>4, <1>5

\* The index goes round as Following does.
LEMMA IndexFollows ==
    ASSUME NEW w \in Indices
    PROVE  (w + 1) % kMaxGopSlots = Following(w) /\ Following(w) \in Indices
<1> DEFINE n == w + 1
<1>1. kMaxGopSlots \in Nat \ {0} /\ n \in Nat /\ n < 2 * kMaxGopSlots
  BY SlotsAssumption DEF Indices
<1>2. n % kMaxGopSlots = IF n < kMaxGopSlots THEN n ELSE n - kMaxGopSlots
  <2> HIDE DEF n
  <2> QED
    BY <1>1, ModTwice
<1>3. (IF n < kMaxGopSlots THEN n ELSE n - kMaxGopSlots) = Following(w)
  BY SlotsAssumption DEF Indices, Following
<1>4. Following(w) \in Indices
  BY SlotsAssumption DEF Indices, Following
<1>5. n = w + 1
  OBVIOUS
<1> HIDE DEF n
<1> QED
  BY <1>2, <1>3, <1>4, <1>5

\* While fewer count than there are slots, a write leaves the spots of the older GOPs where
\* they are and takes one that is none of them.
LEMMA SpotsStay ==
    ASSUME NEW w \in Indices, NEW c \in 0..(kMaxGopSlots - 1), NEW i \in 0..(c - 1)
    PROVE  Spot(Following(w), c + 1, i) = Spot(w, c, i) /\ Spot(w, c, i) # w
BY SlotsAssumption DEF Indices, Spot, Following

\* When the count stays, every GOP moves to the place before, the oldest out of it.
LEMMA SpotsShift ==
    ASSUME NEW w \in Indices, NEW c \in 1..kMaxGopSlots, NEW i \in 0..(c - 2)
    PROVE  Spot(Following(w), c, i) = Spot(w, c, i + 1) /\ Spot(w, c, i + 1) # w
BY SlotsAssumption DEF Indices, Spot, Following

\* The last place is the one just written.
LEMMA LastSpot ==
    ASSUME NEW w \in Indices, NEW c \in 1..kMaxGopSlots
    PROVE  Spot(Following(w), c, c - 1) = w
BY SlotsAssumption DEF Indices, Spot, Following

-----------------------------------------------------------------------------
(* The steps *)

\* A new buffer is empty.
LEMMA InitBuffer == Init => BufferInv
<1> SUFFICES ASSUME Init PROVE BufferInv
  OBVIOUS
<1>1. Types
  <2>1. slots \in [Indices -> Gops \cup {NoGop}]
    BY DEF Init, AllInvalid
  <2>2. recent \in Seq(Gops)
    BY DEF Init
  <2>3. writeIndex \in Indices /\ gopCount \in 0..kMaxGopSlots /\ maxSlots \in 0..kMaxGopSlots
    BY SlotsAssumption DEF Init, Indices
  <2>4. gops \in 0..MaxGops
    BY GopBounds DEF Init
  <2> QED
    BY <2>1, <2>2, <2>3, <2>4 DEF Types
<1>2. Counted
  BY SlotsAssumption DEF Init, Counted
<1>3. Holding
  BY DEF Init, Holding
<1> QED
  BY <1>1, <1>2, <1>3 DEF BufferInv

\* A buffer that was emptied holds nothing to compare.
LEMMA EmptyHolds ==
    ASSUME maxSlots' \in 0..kMaxGopSlots, gopCount' = 0, recent' = <<>>
    PROVE  Counted' /\ Holding'
<1>1. Len(recent') = 0
  OBVIOUS
<1>2. Counted'
  BY <1>1, SlotsAssumption DEF Counted
<1>3. Holding'
  BY DEF Holding
<1> QED
  BY <1>2, <1>3

\* A write keeps types: the index goes round, the count stops at maxSlots.
LEMMA WriteTypes ==
    ASSUME BufferInv, WriteGop
    PROVE  /\ Types'
           /\ gops' \in Gops
           /\ writeIndex' = Following(writeIndex)
<1> USE DEF BufferInv, Types
<1>1. gops' = gops + 1 /\ gops' \in Gops
  BY GopBounds DEF WriteGop, Gops
<1>2. writeIndex' = Following(writeIndex) /\ writeIndex' \in Indices
  BY IndexFollows DEF WriteGop
<1>3. slots' \in [Indices -> Gops \cup {NoGop}]
  BY <1>1 DEF WriteGop
<1>4. recent' \in Seq(Gops)
  <2>1. recent' = Append(recent, gops')
    BY DEF WriteGop
  <2> QED
    BY <1>1, <2>1, AppendProperties
<1>5. gopCount' \in 0..kMaxGopSlots /\ maxSlots' \in 0..kMaxGopSlots
  BY SlotsAssumption DEF WriteGop
<1>6. gops' \in 0..MaxGops
  BY <1>1, GopBounds DEF Gops
<1> QED
  BY <1>1, <1>2, <1>3, <1>4, <1>5, <1>6

\* A write keeps the count what it says of the GOPs since the buffer was emptied.
LEMMA WriteCounts ==
    ASSUME BufferInv, WriteGop
    PROVE  Counted' /\ Len(recent') = Len(recent) + 1 /\ gopCount' \in 1..kMaxGopSlots
<1>1. recent \in Seq(Gops) /\ recent' = Append(recent, gops')
  BY DEF BufferInv, Types, WriteGop
<1>2. Len(recent) \in Nat /\ Len(recent') = Len(recent) + 1
  BY <1>1
<1>3. /\ maxSlots' = maxSlots /\ maxSlots > 0 /\ maxSlots \in 0..kMaxGopSlots
      /\ gopCount \in 0..kMaxGopSlots
      /\ gopCount' = IF gopCount < maxSlots THEN gopCount + 1 ELSE gopCount
      /\ gopCount = IF Len(recent) <= maxSlots THEN Len(recent) ELSE maxSlots
  BY DEF BufferInv, Types, Counted, WriteGop
<1>4. gopCount' \in 1..kMaxGopSlots
  BY <1>2, <1>3, SlotsAssumption
<1>5. gopCount' = IF Len(recent') <= maxSlots' THEN Len(recent') ELSE maxSlots'
  BY <1>2, <1>3, SlotsAssumption
<1> QED
  BY <1>2, <1>4, <1>5 DEF Counted

\* A write puts the new GOP behind the others, which stay where they were; if as many count
\* as may, the oldest drops out.
LEMMA WriteHolds ==
    ASSUME BufferInv, WriteGop
    PROVE  Holding'
<1> DEFINE w == writeIndex
           c == gopCount
<1>0. /\ w \in Indices /\ c \in 0..kMaxGopSlots /\ maxSlots \in 1..kMaxGopSlots
      /\ recent \in Seq(Gops) /\ slots \in [Indices -> Gops \cup {NoGop}]
      /\ slots' = [slots EXCEPT ![w] = gops'] /\ recent' = Append(recent, gops')
      /\ gopCount' = IF c < maxSlots THEN c + 1 ELSE c
      /\ c = IF Len(recent) <= maxSlots THEN Len(recent) ELSE maxSlots
  BY SlotsAssumption DEF BufferInv, Types, Counted, WriteGop
<1>1. writeIndex' = Following(w) /\ writeIndex' \in Indices
  BY WriteTypes DEF Types
<1>2. Len(recent) \in Nat /\ Len(recent') = Len(recent) + 1 /\ gopCount' \in 1..kMaxGopSlots
  BY <1>0, WriteCounts
<1>9. c \in Nat /\ maxSlots \in Nat /\ c <= Len(recent)
  BY <1>0, <1>2, SlotsAssumption
<1>3. /\ recent'[Len(recent')] = gops'
      /\ \A j \in 1..Len(recent) : recent'[j] = recent[j]
  BY <1>0, <1>2
<1> SUFFICES ASSUME NEW i \in 0..(gopCount' - 1)
             PROVE  slots'[SlotOf(i)'] = recent'[Len(recent') - gopCount' + 1 + i]
  BY Zenon DEF Holding
<1>4. SlotOf(i)' = Spot(writeIndex', gopCount', i)
  <2>1. SlotOf(i)' = (writeIndex' + kMaxGopSlots - gopCount' + i) % kMaxGopSlots
    BY Zenon DEF SlotOf
  <2>2. gopCount' \in 0..kMaxGopSlots
    BY <1>2
  <2> QED
    BY <1>1, <2>1, <2>2, SpotIsMod, Zenon
<1>5. \A k \in 0..(c - 1) :
          /\ Spot(w, c, k) \in Indices
          /\ slots[Spot(w, c, k)] = recent[Len(recent) - c + 1 + k]
  <2> SUFFICES ASSUME NEW k \in 0..(c - 1)
               PROVE  /\ Spot(w, c, k) \in Indices
                      /\ slots[Spot(w, c, k)] = recent[Len(recent) - c + 1 + k]
    OBVIOUS
  <2>1. SlotOf(k) = Spot(w, c, k) /\ SlotOf(k) \in Indices
    <3>1. SlotOf(k) = (w + kMaxGopSlots - c + k) % kMaxGopSlots
      BY Zenon DEF SlotOf
    <3>2. (w + kMaxGopSlots - c + k) % kMaxGopSlots = Spot(w, c, k) /\ Spot(w, c, k) \in Indices
      BY <1>0, SpotIsMod
    <3> QED
      BY <3>1, <3>2
  <2>2. slots[SlotOf(k)] = recent[Len(recent) - c + 1 + k]
    BY DEF BufferInv, Holding
  <2> QED
    BY <2>1, <2>2, Zenon
<1>6. CASE i = gopCount' - 1
  <2>1. SlotOf(i)' = w
    BY <1>0, <1>1, <1>2, <1>4, <1>6, LastSpot
  <2>2. slots'[w] = gops'
    BY <1>0
  <2>3. Len(recent') - gopCount' + 1 + i = Len(recent')
    BY <1>2, <1>6
  <2> QED
    BY <1>3, <2>1, <2>2, <2>3, Zenon
<1>7. CASE i # gopCount' - 1 /\ c < maxSlots
  <2>1. c \in 0..(kMaxGopSlots - 1) /\ i \in 0..(c - 1) /\ gopCount' = c + 1
    BY <1>0, <1>2, <1>7, SlotsAssumption
  <2>2. SlotOf(i)' = Spot(w, c, i) /\ Spot(w, c, i) # w
    BY <1>0, <1>1, <1>4, <2>1, SpotsStay
  <2>3. slots'[Spot(w, c, i)] = recent[Len(recent) - c + 1 + i]
    BY <1>0, <1>5, <2>1, <2>2
  <2>4. /\ Len(recent') - gopCount' + 1 + i = Len(recent) - c + 1 + i
        /\ Len(recent) - c + 1 + i \in 1..Len(recent)
    BY <1>2, <1>9, <2>1
  <2> QED
    BY <1>3, <2>2, <2>3, <2>4, Zenon
<1>8. CASE i # gopCount' - 1 /\ ~(c < maxSlots)
  <2>1. /\ c \in 1..kMaxGopSlots /\ i \in 0..(c - 2) /\ i + 1 \in 0..(c - 1)
        /\ gopCount' = c
    BY <1>0, <1>2, <1>8, SlotsAssumption
  <2>2. SlotOf(i)' = Spot(w, c, i + 1) /\ Spot(w, c, i + 1) # w
    BY <1>0, <1>1, <1>4, <2>1, SpotsShift
  <2>3. slots'[Spot(w, c, i + 1)] = recent[Len(recent) - c + 1 + (i + 1)]
    BY <1>0, <1>5, <2>1, <2>2
  <2>4. /\ Len(recent') - gopCount' + 1 + i = Len(recent) - c + 1 + (i + 1)
        /\ Len(recent) - c + 1 + (i + 1) \in 1..Len(recent)
    BY <1>2, <1>9, <2>1
  <2> QED
    BY <1>3, <2>2, <2>3, <2>4, Zenon
<1> QED
  BY <1>6, <1>7, <1>8

\* Every step preserves the invariant.
LEMMA StepBuffer == BufferInv /\ [Next]_vars => BufferInv'
<1> SUFFICES ASSUME BufferInv, [Next]_vars PROVE BufferInv'
  OBVIOUS
<1>0. Types /\ <<>> \in Seq(Gops)
  BY DEF BufferInv
<1>1. CASE WriteGop
  BY <1>1, WriteTypes, WriteCounts, WriteHolds, Zenon DEF BufferInv
<1>2. CASE Disable
  <2>1. Types'
    BY <1>0, <1>2, SlotsAssumption DEF Types, Disable
  <2>2. Counted' /\ Holding'
    BY <1>2, <2>1, EmptyHolds DEF Disable, Types
  <2> QED
    BY <2>1, <2>2 DEF BufferInv
<1>3. CASE Clear
  <2>1. Types'
    BY <1>0, <1>3, SlotsAssumption DEF Types, Clear, AllInvalid, Indices
  <2>2. Counted' /\ Holding'
    BY <1>3, <2>1, EmptyHolds DEF Clear, Types
  <2> QED
    BY <2>1, <2>2 DEF BufferInv
<1>4. CASE \E seconds \in 1..(kMaxGopSlots + 1) : Enable(seconds)
  <2> PICK seconds \in 1..(kMaxGopSlots + 1) : Enable(seconds)
    BY <1>4
  <2>1. Types'
    BY <1>0, SlotsAssumption DEF Types, Enable, AllInvalid, Indices
  <2>2. Counted' /\ Holding'
    BY <2>1, EmptyHolds DEF Enable, Types
  <2> QED
    BY <2>1, <2>2 DEF BufferInv
<1>5. CASE \E n \in 0..gopCount : FlushToFile(n)
  <2> PICK n \in 0..gopCount : FlushToFile(n)
    BY <1>5
  <2>1. Types'
    <3>1. slots' \in [Indices -> Gops \cup {NoGop}]
      BY <1>0 DEF Types, FlushToFile
    <3>2. UNCHANGED <<writeIndex, maxSlots, gops>> /\ gopCount' = 0 /\ recent' = <<>>
      BY DEF FlushToFile
    <3> QED
      BY <1>0, <3>1, <3>2, SlotsAssumption DEF Types
  <2>2. Counted' /\ Holding'
    <3>1. gopCount' = 0 /\ recent' = <<>>
      BY DEF FlushToFile
    <3> QED
      BY <2>1, <3>1, EmptyHolds DEF Types
  <2> QED
    BY <2>1, <2>2 DEF BufferInv
<1>6. CASE UNCHANGED vars
  BY <1>6 DEF BufferInv, Types, Counted, Holding, SlotOf
<1> QED
  BY <1>1, <1>2, <1>3, <1>4, <1>5, <1>6 DEF Next

-----------------------------------------------------------------------------
(* What a flush writes *)

\* Where every slot is valid, none is left out.
LEMMA AllAreValid ==
    ASSUME NEW s \in Seq(Gops)
    PROVE  OnlyValid(s) = s
<1> DEFINE valid == {i \in 1..Len(s) : s[i] # NoGop}
           At(k) == CHOOSE i \in valid : Cardinality({j \in valid : j <= i}) = k
<1>1. valid = 1..Len(s)
  <2>1. \A i \in 1..Len(s) : s[i] \in Gops
    OBVIOUS
  <2> QED
    BY <2>1, MarksAssumption, Zenon DEF Gops
<1>2. Len(s) \in Nat /\ s = [k \in 1..Len(s) |-> s[k]]
  OBVIOUS
<1> HIDE DEF valid
<1>3. \A i \in 1..Len(s) : Cardinality({j \in valid : j <= i}) = i
  <2> SUFFICES ASSUME NEW i \in 1..Len(s) PROVE Cardinality({j \in valid : j <= i}) = i
    OBVIOUS
  <2>1. {j \in valid : j <= i} = 1..i
    BY <1>1, <1>2
  <2>2. Cardinality(1..i) = i
    BY FS_Interval
  <2> QED
    BY <2>1, <2>2
<1>4. \A k \in 1..Len(s) : At(k) = k
  BY <1>1, <1>3
<1>5. Cardinality(valid) = Len(s)
  BY <1>1, <1>2, FS_Interval
<1> HIDE DEF At
<1>6. [k \in 1..Cardinality(valid) |-> s[At(k)]] = [k \in 1..Len(s) |-> s[k]]
  BY <1>4, <1>5
<1> QED
  BY <1>2, <1>6, Zenon DEF OnlyValid, valid, At

\* The slots that count hold the newest GOPs, oldest first.
LEMMA SlotsAreNewest ==
    ASSUME BufferInv, NEW n \in 0..gopCount
    PROVE  /\ Newest \in Seq(Gops) /\ Len(Newest) = gopCount
           /\ [i \in 1..n |-> slots[SlotOf(i - 1)]] = SubSeq(Newest, 1, n)
           /\ SubSeq(Newest, 1, n) \in Seq(Gops)
<1>1. /\ recent \in Seq(Gops) /\ gopCount \in Nat /\ maxSlots \in Nat
      /\ Len(recent) \in Nat
      /\ gopCount = IF Len(recent) <= maxSlots THEN Len(recent) ELSE maxSlots
  BY SlotsAssumption DEF BufferInv, Types, Counted
<1>0. gopCount \in Nat /\ maxSlots \in Nat /\ Len(recent) \in Nat
  BY <1>1
<1>2. /\ Newest \in Seq(Gops) /\ Len(Newest) = gopCount
      /\ \A j \in 1..gopCount : Newest[j] = recent[Len(recent) - gopCount + j]
  <2>1. CASE Len(recent) <= maxSlots
    <3>1. Newest = recent /\ gopCount = Len(recent)
      BY <1>1, <2>1 DEF Newest
    <3>2. \A j \in 1..gopCount : Len(recent) - gopCount + j = j
      BY <1>1, <3>1
    <3> QED
      BY <1>1, <3>1, <3>2, Zenon
  <2>2. CASE Len(recent) > maxSlots
    <3> DEFINE m == Len(recent) - gopCount + 1
    <3>0. gopCount = maxSlots /\ Newest = SubSeq(recent, Len(recent) - maxSlots + 1, Len(recent))
      BY <1>1, <2>2 DEF Newest
    <3>1. Newest = SubSeq(recent, m, Len(recent))
      BY <3>0, Zenon
    <3>2. /\ m \in Int /\ Len(recent) \in Int /\ m >= 1 /\ m <= Len(recent) + 1
          /\ Len(recent) - m + 1 = gopCount
          /\ (IF m <= Len(recent) THEN Len(recent) - m + 1 ELSE 0) = gopCount
      <4> DEFINE l == Len(recent)
      <4>1. l \in Nat /\ gopCount \in Nat /\ l > gopCount
        BY <1>0, <2>2, <3>0
      <4> HIDE DEF l
      <4>2. /\ l - gopCount + 1 \in Int /\ l \in Int /\ l - gopCount + 1 >= 1
            /\ l - gopCount + 1 <= l + 1
            /\ l - (l - gopCount + 1) + 1 = gopCount
            /\ (IF l - gopCount + 1 <= l THEN l - (l - gopCount + 1) + 1 ELSE 0) = gopCount
        BY <4>1
      <4> QED
        BY <4>2, Zenon DEF l
    <3>3. \A j \in 1..gopCount : m + j - 1 = Len(recent) - gopCount + j
      BY <1>0
    <3> HIDE DEF m
    <3>4. \A j \in m..Len(recent) : recent[j] \in Gops
      BY <1>1, <3>2
    <3>5. /\ Newest \in Seq(Gops)
          /\ Len(Newest) = IF m <= Len(recent) THEN Len(recent) - m + 1 ELSE 0
          /\ \A j \in 1..(Len(recent) - m + 1) : Newest[j] = recent[m + j - 1]
      BY <3>1, <3>2, <3>4, SubSeqProperties
    <3> QED
      BY <3>2, <3>3, <3>5, Zenon
  <2>3. Len(recent) <= maxSlots \/ Len(recent) > maxSlots
    BY <1>0
  <2> QED
    BY <2>1, <2>2, <2>3, Zenon
<1>3. \A j \in 1..n : slots[SlotOf(j - 1)] = Newest[j]
  <2> SUFFICES ASSUME NEW j \in 1..n PROVE slots[SlotOf(j - 1)] = Newest[j]
    OBVIOUS
  <2>1. j - 1 \in 0..(gopCount - 1) /\ j \in 1..gopCount
    BY <1>1
  <2>2. slots[SlotOf(j - 1)] = recent[Len(recent) - gopCount + 1 + (j - 1)]
    BY <2>1 DEF BufferInv, Holding
  <2>3. Len(recent) - gopCount + 1 + (j - 1) = Len(recent) - gopCount + j
    BY <1>1, <2>1
  <2> QED
    BY <1>2, <2>1, <2>2, <2>3
<1> DEFINE given == [i \in 1..n |-> slots[SlotOf(i - 1)]]
           wanted == SubSeq(Newest, 1, n)
<1>4. /\ wanted \in Seq(Gops)
      /\ wanted = [j \in 1..n |-> Newest[j]]
  <2>1. /\ 1 \in Int /\ n \in Int /\ n \in Nat /\ n - 1 + 1 = n
        /\ \A j \in 1..n : Newest[j] \in Gops
    BY <1>1, <1>2
  <2>2. /\ wanted \in Seq(Gops)
        /\ Len(wanted) = IF 1 <= n THEN n - 1 + 1 ELSE 0
        /\ \A j \in 1..(n - 1 + 1) : wanted[j] = Newest[1 + j - 1]
    BY <2>1, SubSeqProperties
  <2> HIDE DEF wanted
  <2>4. Len(wanted) = n /\ \A j \in 1..n : wanted[j] = Newest[j]
    BY <2>1, <2>2
  <2>3. wanted = [j \in 1..Len(wanted) |-> wanted[j]]
    BY <2>2
  <2> QED
    BY <2>2, <2>3, <2>4, Zenon
<1>5. given = [j \in 1..n |-> Newest[j]]
  BY <1>3, Zenon
<1> QED
  BY <1>2, <1>4, <1>5, Zenon

\* Every reachable state satisfies the invariant.
THEOREM BufferInvariance == Spec => []BufferInv
BY InitBuffer, StepBuffer, PTL DEF Spec

\* A flush puts the newest GOPs into the file, all of them, oldest first; one whose write
\* fails puts a prefix of them there.
THEOREM FlushComplete == Spec => FlushWritesNewest
<1> DEFINE Written ==
        FlushStep =>
          \/ ~broken' /\ file' = file \o Newest
          \/ broken' /\ \E k \in 0..(Len(Newest) - 1) :
                 file' \in {file \o SubSeq(Newest, 1, k),
                            file \o SubSeq(Newest, 1, k) \o <<Torn>>}
<1>1. BufferInv => Written
  <2> SUFFICES ASSUME BufferInv, NEW n \in 0..gopCount, FlushToFile(n)
               PROVE  \/ ~broken' /\ file' = file \o Newest
                      \/ broken' /\ \E k \in 0..(Len(Newest) - 1) :
                             file' \in {file \o SubSeq(Newest, 1, k),
                                        file \o SubSeq(Newest, 1, k) \o <<Torn>>}
    BY Zenon DEF FlushStep
  <2> DEFINE whole == OnlyValid([i \in 1..n |-> slots[SlotOf(i - 1)]])
  <2>1. /\ Newest \in Seq(Gops) /\ Len(Newest) = gopCount
        /\ [i \in 1..n |-> slots[SlotOf(i - 1)]] = SubSeq(Newest, 1, n)
        /\ SubSeq(Newest, 1, n) \in Seq(Gops)
    BY SlotsAreNewest
  <2>2. whole = SubSeq(Newest, 1, n)
    BY <2>1, AllAreValid
  <2>3. gopCount \in Nat
    BY SlotsAssumption DEF BufferInv, Types
  <2>4. \/ n = gopCount /\ file' = file \o whole /\ broken' = FALSE
        \/ /\ n < gopCount
           /\ file' \in {file \o whole, file \o whole \o <<Torn>>}
           /\ broken' = TRUE
    BY Zenon DEF FlushToFile
  <2> HIDE DEF whole
  <2>5. CASE n = gopCount /\ file' = file \o whole /\ broken' = FALSE
    <3>1. SubSeq(Newest, 1, n) = Newest
      BY <2>1, <2>3, <2>5
    <3> QED
      BY <2>2, <2>5, <3>1, Zenon
  <2>6. CASE /\ n < gopCount
             /\ file' \in {file \o whole, file \o whole \o <<Torn>>}
             /\ broken' = TRUE
    <3>1. n \in 0..(Len(Newest) - 1)
      BY <2>1, <2>3, <2>6
    <3> QED
      BY <2>2, <2>6, <3>1, Zenon
  <2> QED
    BY <2>4, <2>5, <2>6
<1>2. BufferInv => [Written]_vars
  BY <1>1
<1> QED
  BY BufferInvariance, <1>2, PTL DEF FlushWritesNewest
================================================================================
