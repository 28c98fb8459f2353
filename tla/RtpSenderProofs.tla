---------------------------- MODULE RtpSenderProofs ----------------------------
(***************************************************************************)
(* Proofs about RtpSender, for every set of frames an encoder may deliver, *)
(* length of a packet, range of the sequence numbers, and number of frames *)
(* and of packets lost: what a player puts together.  The splitter finds   *)
(* the units of the frame; the packets of a unit give the unit back; the   *)
(* units the player has are, in order, some of those that went out.        *)
(***************************************************************************)
EXTENDS RtpSender, SequenceTheorems, TLAPS

USE DEF splitVars, clientVars, loopVars, countVars, cutVars, netVars, encoderVars, vars

-----------------------------------------------------------------------------
(* The splitter *)

\* The bytes of a unit, and the lists of units.
Bytes == Seq(Byte)
Units == Seq(Bytes)

\* Where the i-th unit of a frame starts, behind its start code.
UnitStart(f, i) == f.codes[i + 1] - Len(f.units[i])

\* What IsFrame says of a frame and its i-th unit, with the numbers' types.
LEMMA FrameTypes ==
    ASSUME NEW f \in Frames
    PROVE  /\ f.bytes \in Bytes /\ f.units \in Units /\ Len(f.bytes) \in Nat
           /\ Len(f.units) \in Nat \ {0}
           /\ \A i \in 1..(Len(f.units) + 1) :
                f.codes[i] \in Nat /\ f.codes[i] >= 1 /\ f.codes[i] <= Len(f.bytes) + 1
           /\ f.codes[1] = 1 /\ f.codes[Len(f.units) + 1] = Len(f.bytes) + 1
<1>1. /\ f.bytes \in Seq(Byte) /\ f.units \in Seq(Seq(Byte)) /\ f.units # <<>>
      /\ f.codes \in Seq(1..(Len(f.bytes) + 1)) /\ Len(f.codes) = Len(f.units) + 1
      /\ f.codes[1] = 1 /\ f.codes[Len(f.codes)] = Len(f.bytes) + 1
  BY EncoderAssumption, Zenon DEF IsFrame
<1>2. f.bytes \in Bytes /\ f.units \in Units
  BY <1>1, Zenon DEF Bytes, Units
<1>3. Len(f.bytes) \in Nat
  BY <1>1, LenProperties, Zenon
<1>4. Len(f.units) \in Nat \ {0}
  BY <1>1, EmptySeq, Zenon
<1>5. ASSUME NEW i \in 1..(Len(f.units) + 1)
      PROVE  f.codes[i] \in 1..(Len(f.bytes) + 1)
  <2>1. i \in 1..Len(f.codes)
    BY <1>1
  <2> QED
    BY <1>1, <2>1, ElementOfSeq, Zenon
<1>6. \A i \in 1..(Len(f.units) + 1) :
        f.codes[i] \in Nat /\ f.codes[i] >= 1 /\ f.codes[i] <= Len(f.bytes) + 1
  BY <1>3, <1>5
<1>7. f.codes[1] = 1 /\ f.codes[Len(f.units) + 1] = Len(f.bytes) + 1
  BY <1>1, Zenon
<1> QED
  BY <1>2, <1>3, <1>4, <1>6, <1>7, Zenon

\* A unit has at least a byte, and no start code.
LEMMA UnitTypes ==
    ASSUME NEW u, IsUnit(u)
    PROVE  /\ u \in Bytes /\ Len(u) \in Nat \ {0} /\ u[1] \in Byte /\ u[1] % 32 # 28
           /\ \A k \in 1..(Len(u) - 2) : ~(u[k] = 0 /\ u[k + 1] = 0 /\ u[k + 2] = 1)
           /\ u[Len(u)] # 0
<1>1. /\ u \in Seq(Byte) /\ u # <<>> /\ u[1] % 32 # 28
      /\ \A k \in 1..(Len(u) - 2) : ~(u[k] = 0 /\ u[k + 1] = 0 /\ u[k + 2] = 1)
      /\ u[Len(u)] # 0
  BY Zenon DEF IsUnit
<1>2. Len(u) \in Nat \ {0}
  BY <1>1, EmptySeq, Zenon
<1>3. 1 \in 1..Len(u)
  BY <1>2
<1>4. u[1] \in Byte
  BY <1>1, <1>3, ElementOfSeq, Zenon
<1> QED
  BY <1>1, <1>2, <1>4, Zenon DEF Bytes

\* Where the i-th unit of a frame lies, between its start code and the next.
LEMMA UnitLies ==
    ASSUME NEW f \in Frames, NEW i \in 1..Len(f.units)
    PROVE  /\ IsUnit(f.units[i]) /\ UnitStart(f, i) \in Nat
           /\ UnitStart(f, i) + Len(f.units[i]) = f.codes[i + 1]
           /\ UnitStart(f, i) = f.codes[i] + 3 \/ UnitStart(f, i) = f.codes[i] + 4
           /\ f.bytes[UnitStart(f, i) - 1] = 1
           /\ \A p \in f.codes[i]..(UnitStart(f, i) - 2) : f.bytes[p] = 0
           /\ \A k \in 1..Len(f.units[i]) : f.bytes[UnitStart(f, i) - 1 + k] = f.units[i][k]
<1> DEFINE s == UnitStart(f, i)
<1>1. /\ IsUnit(f.units[i])
      /\ s - f.codes[i] \in {3, 4} /\ f.bytes[s - 1] = 1
      /\ \A p \in f.codes[i]..(s - 2) : f.bytes[p] = 0
      /\ \A k \in 1..Len(f.units[i]) : f.bytes[s - 1 + k] = f.units[i][k]
  BY EncoderAssumption, Zenon DEF IsFrame, UnitStart
<1>2. Len(f.units[i]) \in Nat
  BY <1>1, UnitTypes
<1>3. f.codes[i] \in Nat /\ f.codes[i + 1] \in Nat
  <2>1. i \in 1..(Len(f.units) + 1) /\ i + 1 \in 1..(Len(f.units) + 1)
    BY FrameTypes
  <2> QED
    BY <2>1, FrameTypes
<1>4. s \in Int /\ s + Len(f.units[i]) = f.codes[i + 1]
  BY <1>2, <1>3 DEF UnitStart
<1> HIDE DEF s
<1>5. s \in Nat /\ (s = f.codes[i] + 3 \/ s = f.codes[i] + 4)
  BY <1>1, <1>3, <1>4
<1> QED
  BY <1>1, <1>4, <1>5, Zenon DEF s

\* StartCodeSize finds the start code of every unit, of its length.
LEMMA CodeFound ==
    ASSUME NEW f \in Frames, NEW i \in 1..Len(f.units)
    PROVE  StartCodeSize(f.bytes, f.codes[i]) = UnitStart(f, i) - f.codes[i]
<1> DEFINE s == UnitStart(f, i)
           c == f.codes[i]
           e == f.codes[i + 1]
           d == f.bytes
           l == Len(d)
           n == Len(f.units[i])
<1>1. c \in Nat /\ c >= 1 /\ e \in Nat /\ e <= l + 1 /\ l \in Nat
  <2>1. i \in 1..(Len(f.units) + 1) /\ i + 1 \in 1..(Len(f.units) + 1)
    BY FrameTypes
  <2> QED
    BY <2>1, FrameTypes
<1>2. s \in Nat /\ s + n = e /\ (s = c + 3 \/ s = c + 4) /\ d[s - 1] = 1
      /\ (\A p \in c..(s - 2) : d[p] = 0)
  BY UnitLies
<1>3. n \in Nat \ {0}
  BY UnitLies, UnitTypes
<1> HIDE DEF s, c, e, l, n, d
<1>4. CASE s = c + 3
  <2>1. d[c] = 0 /\ d[c + 1] = 0 /\ d[c + 2] = 1 /\ c + 2 <= l
    BY <1>1, <1>2, <1>3, <1>4
  <2>2. StartCodeSize(d, c) = 3
    BY <2>1 DEF StartCodeSize, l
  <2> QED
    BY <1>1, <1>4, <2>2 DEF s, c, d
<1>5. CASE s = c + 4
  <2>1. d[c] = 0 /\ d[c + 1] = 0 /\ d[c + 2] = 0 /\ d[c + 3] = 1 /\ c + 3 <= l
    BY <1>1, <1>2, <1>3, <1>5
  <2>2. StartCodeSize(d, c) = 4
    BY <2>1 DEF StartCodeSize, l
  <2> QED
    BY <1>1, <1>5, <2>2 DEF s, c, d
<1> QED
  BY <1>2, <1>4, <1>5

\* No start code begins in a unit: it would lie in the unit, or its zeros would be the
\* last of the unit.
LEMMA NoCodeInUnit ==
    ASSUME NEW f \in Frames, NEW i \in 1..Len(f.units),
           NEW q \in UnitStart(f, i)..(f.codes[i + 1] - 1)
    PROVE  StartCodeSize(f.bytes, q) = 0
<1> DEFINE s == UnitStart(f, i)
           u == f.units[i]
           n == Len(u)
           d == f.bytes
           k == q - s + 1
<1>1. s \in Nat /\ (\A j \in 1..n : d[s - 1 + j] = u[j]) /\ s + n = f.codes[i + 1]
  BY UnitLies
<1>2. n \in Nat \ {0} /\ u[n] # 0
      /\ (\A j \in 1..(n - 2) : ~(u[j] = 0 /\ u[j + 1] = 0 /\ u[j + 2] = 1))
  BY UnitLies, UnitTypes
<1>3. q \in s..(s + n - 1)
  BY <1>1
<1> HIDE DEF s, u, n, d
<1>4. k \in 1..n /\ q = s - 1 + k
  BY <1>1, <1>2, <1>3
<1> HIDE DEF k
<1>5. \A j \in 0..3 : k + j <= n => d[q + j] = u[k + j]
  <2> SUFFICES ASSUME NEW j \in 0..3, k + j <= n
               PROVE  d[q + j] = u[k + j]
    OBVIOUS
  <2>1. k + j \in 1..n /\ s - 1 + (k + j) = q + j
    BY <1>1, <1>2, <1>4
  <2> QED
    BY <1>1, <2>1
<1>6. d[q] = u[k]
  BY <1>1, <1>4
<1>7. k + 1 <= n => d[q + 1] = u[k + 1]
  BY <1>5
<1>8. k + 2 <= n => d[q + 2] = u[k + 2]
  BY <1>5
<1>9. k + 3 <= n => d[q + 3] = u[k + 3]
  BY <1>5
<1>10. ~(d[q] = 0 /\ d[q + 1] = 0 /\ d[q + 2] = 1)
  <2>1. CASE k = n
    BY <1>2, <1>6, <2>1
  <2>2. CASE k = n - 1
    BY <1>2, <1>4, <1>7, <2>2
  <2>3. CASE k <= n - 2
    <3>1. k \in 1..(n - 2)
      BY <1>2, <1>4, <2>3
    <3>2. ~(u[k] = 0 /\ u[k + 1] = 0 /\ u[k + 2] = 1)
      BY <1>2, <3>1, Zenon
    <3> QED
      BY <1>2, <1>4, <1>6, <1>7, <1>8, <2>3, <3>2
  <2> QED
    BY <1>2, <1>4, <2>1, <2>2, <2>3
<1>11. ~(d[q] = 0 /\ d[q + 1] = 0 /\ d[q + 2] = 0 /\ d[q + 3] = 1)
  <2>1. CASE k = n
    BY <1>2, <1>6, <2>1
  <2>2. CASE k = n - 1
    BY <1>2, <1>4, <1>7, <2>2
  <2>3. CASE k = n - 2
    BY <1>2, <1>4, <1>8, <2>3
  <2>4. CASE k <= n - 3
    <3>1. k + 1 \in 1..(n - 2)
      BY <1>2, <1>4, <2>4
    <3>2. ~(u[k + 1] = 0 /\ u[(k + 1) + 1] = 0 /\ u[(k + 1) + 2] = 1)
      BY <1>2, <3>1, Zenon
    <3>3. (k + 1) + 1 = k + 2 /\ (k + 1) + 2 = k + 3
      BY <1>4
    <3> QED
      BY <1>2, <1>4, <1>7, <1>8, <1>9, <2>4, <3>2, <3>3
  <2> QED
    BY <1>2, <1>4, <2>1, <2>2, <2>3, <2>4
<1>12. StartCodeSize(d, q) = 0
  BY <1>10, <1>11 DEF StartCodeSize
<1> QED
  BY <1>12 DEF d

\* A place with a start code and none before it is where NextCode stops.
LEMMA NextCodeAt ==
    ASSUME NEW d \in Bytes, NEW p \in Nat, NEW e \in Nat, p <= e, e <= Len(d) + 1,
           \A q \in p..(e - 1) : StartCodeSize(d, q) = 0,
           e # Len(d) + 1 => StartCodeSize(d, e) # 0
    PROVE  NextCode(d, p) = e
<1> DEFINE codes == {q \in p..Len(d) : StartCodeSize(d, q) # 0}
<1>1. Len(d) \in Nat
  BY LenProperties DEF Bytes
<1>2. \A q \in codes : q \in Nat /\ e <= q
  BY <1>1
<1>3. CASE e = Len(d) + 1
  <2>1. codes = {}
    BY <1>1, <1>2, <1>3
  <2> QED
    BY <1>3, <2>1, Zenon DEF NextCode
<1>4. CASE e # Len(d) + 1
  <2>1. e \in codes
    BY <1>1, <1>4
  <2> HIDE DEF codes
  <2>2. \A q \in codes : (\A r \in codes : q <= r) => q = e
    BY <1>2, <2>1
  <2>3. e \in codes /\ \A r \in codes : e <= r
    BY <1>2, <2>1
  <2> DEFINE least == CHOOSE q \in codes : \A r \in codes : q <= r
  <2>4. least \in codes /\ \A r \in codes : least <= r
    BY <2>3, Zenon
  <2>5. least = e
    BY <2>2, <2>4, Zenon
  <2>6. NextCode(d, p) = IF codes = {} THEN Len(d) + 1 ELSE least
    BY Zenon DEF NextCode, codes
  <2> QED
    BY <2>1, <2>5, <2>6, Zenon
<1> QED
  BY <1>3, <1>4, Zenon

\* From a unit the loop goes on to the next start code, or to the end of the frame.
LEMMA NextFound ==
    ASSUME NEW f \in Frames, NEW i \in 1..Len(f.units)
    PROVE  NextCode(f.bytes, UnitStart(f, i)) = f.codes[i + 1]
<1> DEFINE s == UnitStart(f, i)
           e == f.codes[i + 1]
           m == Len(f.units)
<1>1. m \in Nat \ {0} /\ f.bytes \in Bytes /\ Len(f.bytes) \in Nat
  BY FrameTypes
<1>2. i + 1 \in 1..(m + 1)
  BY <1>1
<1>3. e \in Nat /\ e <= Len(f.bytes) + 1
  BY <1>2, FrameTypes
<1>4. s \in Nat /\ s <= e
  BY <1>3, UnitLies, UnitTypes
<1>5. \A q \in s..(e - 1) : StartCodeSize(f.bytes, q) = 0
  BY NoCodeInUnit, Zenon
<1>6. ASSUME e # Len(f.bytes) + 1
      PROVE  StartCodeSize(f.bytes, e) # 0
  <2>1. i # m
    BY <1>6, FrameTypes
  <2>2. i + 1 \in 1..m
    BY <1>1, <2>1
  <2>3. StartCodeSize(f.bytes, e) = UnitStart(f, i + 1) - e
    BY <2>2, CodeFound
  <2>4. UnitStart(f, i + 1) = e + 3 \/ UnitStart(f, i + 1) = e + 4
    BY <2>2, UnitLies
  <2> QED
    BY <1>3, <2>3, <2>4
<1> HIDE DEF s, e
<1>7. NextCode(f.bytes, s) = e
  BY <1>1, <1>3, <1>4, <1>5, <1>6, NextCodeAt
<1> QED
  BY <1>7 DEF s, e

\* The loop begins at the first start code.
LEMMA FirstFound ==
    ASSUME NEW f \in Frames
    PROVE  NextCode(f.bytes, 1) = f.codes[1]
<1>1. f.bytes \in Bytes /\ Len(f.bytes) \in Nat /\ 1 \in 1..Len(f.units) /\ f.codes[1] = 1
  BY FrameTypes
<1>2. StartCodeSize(f.bytes, 1) = UnitStart(f, 1) - 1
  BY <1>1, CodeFound
<1>3. UnitStart(f, 1) = 4 \/ UnitStart(f, 1) = 5
  BY <1>1, UnitLies
<1>4. StartCodeSize(f.bytes, 1) # 0
  BY <1>2, <1>3
<1> QED
  BY <1>1, <1>4, NextCodeAt

\* The bytes between the start code and the next are the unit.
LEMMA UnitCut ==
    ASSUME NEW f \in Frames, NEW i \in 1..Len(f.units)
    PROVE  /\ f.codes[i + 1] > UnitStart(f, i)
           /\ SubSeq(f.bytes, UnitStart(f, i), f.codes[i + 1] - 1) = f.units[i]
<1> DEFINE s == UnitStart(f, i)
           e == f.codes[i + 1]
           u == f.units[i]
           n == Len(u)
           d == f.bytes
           taken == SubSeq(d, s, e - 1)
<1>1. /\ s \in Nat /\ (\A j \in 1..n : d[s - 1 + j] = u[j]) /\ s + n = e
  BY UnitLies
<1>2. n \in Nat \ {0} /\ u \in Seq(Byte)
  BY UnitLies, UnitTypes DEF Bytes
<1>3. \A j \in 1..n : u[j] \in Byte
  BY <1>2, ElementOfSeq
<1> HIDE DEF s, e, u, n, d
<1>4. \A p \in s..(e - 1) : d[p] \in Byte
  <2> SUFFICES ASSUME NEW p \in s..(e - 1)
               PROVE  d[p] \in Byte
    OBVIOUS
  <2>1. p - s + 1 \in 1..n /\ s - 1 + (p - s + 1) = p
    BY <1>1, <1>2
  <2> QED
    BY <1>1, <1>3, <2>1
<1>5. s \in Int /\ e - 1 \in Int /\ (e - 1) - s + 1 = n /\ s <= e - 1
  BY <1>1, <1>2
<1>6. /\ taken \in Seq(Byte) /\ Len(taken) = n
      /\ \A j \in 1..n : taken[j] = d[s + j - 1]
  BY <1>4, <1>5, SubSeqProperties
<1> HIDE DEF taken
<1>7. \A j \in 1..n : taken[j] = u[j]
  BY <1>1, <1>2, <1>6
<1>8. taken = u
  BY <1>2, <1>6, <1>7, SeqEqual DEF n
<1>9. e > s
  BY <1>1, <1>2
<1> QED
  BY <1>8, <1>9, Zenon DEF s, e, u, d, taken

-----------------------------------------------------------------------------
(* A packet *)

\* The header bytes h1 and h2 stand for the byte b, with the marks x of the first fragment
\* and y of the last.
HeaderMade(h1, h2, b, x, y) ==
    /\ b \in Byte /\ x \in {0, 128} /\ y \in {0, 64}
    /\ h1 = (b \div 32) * 32 + 28 /\ h2 = (b % 32) + x + y

\* What the player reads in them.
HeaderRead(h1, h2, b, x, y) ==
    /\ h1 % 32 = 28 /\ (h1 \div 32) * 32 + (h2 % 32) = b
    /\ h2 >= 128 <=> x = 128
    /\ (h2 \div 64) % 2 = 1 <=> y = 64
    /\ h1 \in Byte /\ h2 \in Byte

\* The two header bytes of a fragment give back its type, the byte of the unit they stand
\* for, and the marks of the first and the last.
LEMMA HeaderBits ==
    ASSUME NEW h1, NEW h2, NEW b, NEW x, NEW y, HeaderMade(h1, h2, b, x, y)
    PROVE  HeaderRead(h1, h2, b, x, y)
<1> USE DEF HeaderMade
<1> DEFINE h == b \div 32
           t == b % 32
<1>1. h \in 0..7 /\ t \in 0..31 /\ b = h * 32 + t
  BY DEF Byte
<1> HIDE DEF h, t
<1>2. (h * 32 + 28) % 32 = 28 /\ (h * 32 + 28) \div 32 = h /\ h * 32 + 28 \in Byte
  BY <1>1 DEF Byte
<1>3. /\ (t + x + y) % 32 = t /\ (t + x + y >= 128 <=> x = 128) /\ t + x + y \in Byte
      /\ ((t + x + y) \div 64) % 2 = 1 <=> y = 64
  BY <1>1 DEF Byte
<1>4. h1 = h * 32 + 28 /\ h2 = t + x + y
  BY DEF h, t
<1> QED
  BY <1>1, <1>2, <1>3, <1>4 DEF HeaderRead

\* A fragment takes at least one byte of what is left of the unit.
LEMMA ChunkFits ==
    ASSUME IsUnit(Nalu), ~Whole, offset \in Nat, offset >= 1, offset = 1 \/ offset < Len(Nalu)
    PROVE  /\ Chunk \in Nat /\ Chunk >= 1 /\ offset + Chunk <= Len(Nalu)
           /\ Len(Nalu) \in Nat /\ offset < Len(Nalu)
<1> DEFINE n == Len(Nalu)
<1>1. n \in Nat
  BY UnitTypes
<1>2. kRtpPayloadMax \in Nat /\ kRtpPayloadMax > 2
  BY PayloadAssumption
<1>3. n > kRtpPayloadMax
  BY <1>1, <1>2 DEF Whole
<1>4. Chunk = IF kRtpPayloadMax - 2 <= n - offset THEN kRtpPayloadMax - 2 ELSE n - offset
  BY DEF Chunk
<1>6. offset = 1 \/ offset < n
  OBVIOUS
<1> HIDE DEF n
<1>5. Chunk \in Nat /\ Chunk >= 1 /\ offset + Chunk <= n /\ offset < n
  BY <1>1, <1>2, <1>3, <1>4, <1>6
<1> QED
  BY <1>1, <1>5 DEF n

\* What the player reads in the bytes of a fragment.
LEMMA FragmentRead ==
    ASSUME IsUnit(Nalu), ~Whole, offset \in Nat, offset >= 1, offset = 1 \/ offset < Len(Nalu)
    PROVE  /\ Fragment[1] % 32 = 28
           /\ (Fragment[1] \div 32) * 32 + (Fragment[2] % 32) = Nalu[1]
           /\ Fragment[2] >= 128 <=> offset = 1
           /\ (Fragment[2] \div 64) % 2 = 1 <=> IsLast
           /\ SubSeq(Fragment, 3, Len(Fragment)) = SubSeq(Nalu, offset + 1, offset + Chunk)
<1> DEFINE n == Len(Nalu)
           b == Nalu[1]
           x == IF offset = 1 THEN 128 ELSE 0
           y == IF IsLast THEN 64 ELSE 0
           h1 == (b \div 32) * 32 + 28
           h2 == (b % 32) + x + y
           h == <<h1, h2>>
           t == SubSeq(Nalu, offset + 1, offset + Chunk)
<1>1. /\ Chunk \in Nat /\ Chunk >= 1 /\ offset + Chunk <= n /\ n \in Nat
  BY ChunkFits
<1>2. Nalu \in Seq(Byte) /\ b \in Byte
  BY UnitTypes DEF Bytes
<1>3. x \in {0, 128} /\ y \in {0, 64} /\ (x = 128 <=> offset = 1) /\ (y = 64 <=> IsLast)
  OBVIOUS
<1>4. Fragment = h \o t
  <2>1. Fragment = Header(offset = 1) \o t
    BY Zenon DEF Fragment
  <2>2. Header(offset = 1) = h
    BY Zenon DEF Header
  <2> QED
    BY <2>1, <2>2, Zenon
<1>5. \A i \in (offset + 1)..(offset + Chunk) : Nalu[i] \in Byte
  <2> SUFFICES ASSUME NEW i \in (offset + 1)..(offset + Chunk)
               PROVE  Nalu[i] \in Byte
    OBVIOUS
  <2>1. i \in 1..Len(Nalu)
    BY <1>1
  <2> QED
    BY <1>2, <2>1, ElementOfSeq, Zenon
<1>6. t \in Seq(Byte) /\ Len(t) = Chunk /\ \A i \in 1..Chunk : t[i] = Nalu[offset + 1 + i - 1]
  <2>1. offset + 1 \in Int /\ offset + Chunk \in Int
        /\ (offset + Chunk) - (offset + 1) + 1 = Chunk /\ offset + 1 <= offset + Chunk
    BY <1>1
  <2> QED
    BY <1>5, <2>1, SubSeqProperties
<1>7. /\ h1 % 32 = 28 /\ (h1 \div 32) * 32 + (h2 % 32) = b
      /\ h2 >= 128 <=> x = 128
      /\ (h2 \div 64) % 2 = 1 <=> y = 64
      /\ h1 \in Byte /\ h2 \in Byte
  <2>1. HeaderMade(h1, h2, b, x, y)
    BY <1>2, <1>3, Zenon DEF HeaderMade
  <2> HIDE DEF h1, h2, b, x, y
  <2>2. HeaderRead(h1, h2, b, x, y)
    BY <2>1, HeaderBits, Zenon
  <2> QED
    BY <2>2, Zenon DEF HeaderRead
<1> HIDE DEF h1, h2, t, x, y
<1>8. h \in Seq(Byte) /\ Len(h) = 2 /\ h[1] = h1 /\ h[2] = h2
  BY <1>7
<1> HIDE DEF h
<1>9. /\ h \o t \in Seq(Byte) /\ Len(h \o t) = 2 + Chunk
      /\ \A i \in 1..(2 + Chunk) : (h \o t)[i] = IF i <= 2 THEN h[i] ELSE t[i - 2]
  <2>1. /\ h \o t \in Seq(Byte) /\ Len(h \o t) = Len(h) + Len(t)
        /\ \A i \in 1..(Len(h) + Len(t)) : (h \o t)[i] = IF i <= Len(h) THEN h[i] ELSE t[i - Len(h)]
    BY <1>6, <1>8, ConcatProperties, Zenon
  <2> QED
    BY <1>6, <1>8, <2>1, Zenon
<1> DEFINE w == h \o t
<1> HIDE DEF w
<1>10. w \in Seq(Byte) /\ Len(w) = 2 + Chunk /\ w[1] = h1 /\ w[2] = h2
       /\ \A i \in 1..Chunk : w[i + 2] = t[i]
  BY <1>1, <1>8, <1>9 DEF w
<1>11. SubSeq(w, 3, Len(w)) = t
  <2> DEFINE r == SubSeq(w, 3, Len(w))
  <2>1. \A i \in 3..Len(w) : w[i] \in Byte
    <3> SUFFICES ASSUME NEW i \in 3..Len(w)
                 PROVE  w[i] \in Byte
      OBVIOUS
    <3>1. i \in 1..Len(w)
      BY <1>1, <1>10
    <3> QED
      BY <1>10, <3>1, ElementOfSeq, Zenon
  <2>2. 3 \in Int /\ Len(w) \in Int /\ Len(w) - 3 + 1 = Chunk /\ 3 <= Len(w)
    BY <1>1, <1>10
  <2>3. r \in Seq(Byte) /\ Len(r) = Chunk /\ \A i \in 1..Chunk : r[i] = w[3 + i - 1]
    BY <2>1, <2>2, SubSeqProperties
  <2> HIDE DEF r
  <2>4. \A i \in 1..Chunk : r[i] = t[i]
    BY <1>1, <1>10, <2>3
  <2>5. r = t
    BY <1>6, <2>3, <2>4, SeqEqual
  <2> QED
    BY <2>5, Zenon DEF r
<1>12. Fragment = w
  BY <1>4, Zenon DEF w
<1> QED
  BY <1>3, <1>7, <1>10, <1>11, <1>12, Zenon DEF t

\* The first fragment gives the first bytes of the unit.
LEMMA FirstGrows ==
    ASSUME NEW u \in Bytes, NEW k \in Nat, 1 <= k, k <= Len(u)
    PROVE  <<u[1]>> \o SubSeq(u, 2, k) = SubSeq(u, 1, k)
<1>1. Len(u) \in Nat /\ u \in Seq(Byte)
  BY LenProperties DEF Bytes
<1>2. 1 \in 1..Len(u) /\ k \in 1..Len(u) /\ 1 + 1 = 2
  BY <1>1
<1>3. SubSeq(u, 1, k) = <<u[1]>> \o SubSeq(u, 1 + 1, k)
  BY <1>1, <1>2, SubSeqRecursiveFirst
<1> QED
  BY <1>2, <1>3, Zenon

\* A further fragment gives the bytes behind those the player has.
LEMMA PartGrows ==
    ASSUME NEW u \in Bytes, NEW o \in Nat, NEW k \in Nat, 1 <= o, o <= k, k <= Len(u)
    PROVE  SubSeq(u, 1, o) \o SubSeq(u, o + 1, k) = SubSeq(u, 1, k)
<1>1. Len(u) \in Nat /\ u \in Seq(Byte)
  BY LenProperties DEF Bytes
<1>2. 1 \in 1..(Len(u) + 1) /\ o \in (1 - 1)..Len(u) /\ k \in o..Len(u)
  BY <1>1
<1> QED
  BY <1>1, <1>2, ConcatAdjacentSubSeq

\* What begins a unit is not empty.
LEMMA PrefixNotEmpty ==
    ASSUME NEW u \in Bytes, NEW o \in Nat, 1 <= o, o <= Len(u)
    PROVE  SubSeq(u, 1, o) # NoUnit
<1>1. Len(u) \in Nat /\ u \in Seq(Byte)
  BY LenProperties DEF Bytes
<1>2. \A i \in 1..o : u[i] \in Byte
  BY <1>1, ElementOfSeq
<1>3. Len(SubSeq(u, 1, o)) = o
  BY <1>2, SubSeqProperties
<1>4. Len(<<>>) = 0
  OBVIOUS
<1> QED
  BY <1>3, <1>4 DEF NoUnit

\* What the player holds of a unit when a packet comes: nothing, if its number is not the
\* next one.
Held == IF sequence = player.next THEN player.part ELSE NoUnit

\* What a packet makes of a player that holds nothing or what went out of the unit: a unit
\* is added when it is complete, and it is the one that was sent; what is held stays what
\* went out.  The packet completes or continues the unit when none before it is missing.
LEMMA Reception ==
    ASSUME IsUnit(Nalu), offset \in Nat, offset >= 1,
           offset = 1 \/ (~Whole /\ offset < Len(Nalu)),
           Held = NoUnit \/ (offset > 1 /\ Held = SubSeq(Nalu, 1, offset))
    PROVE  LET new == Receive(player, Packet) IN
           /\ new.next = NumberTaken
           /\ UnitEnds => new.part = NoUnit
           /\ UnitEnds => new.units = player.units \/ new.units = Append(player.units, Nalu)
           /\ ~UnitEnds => new.units = player.units
           /\ ~UnitEnds => new.part = NoUnit \/ new.part = SubSeq(Nalu, 1, offset + Chunk)
           /\ offset = 1 \/ Held # NoUnit =>
                /\ UnitEnds => new.units = Append(player.units, Nalu)
                /\ ~UnitEnds => new.part = SubSeq(Nalu, 1, offset + Chunk)
<1> DEFINE new == Receive(player, Packet)
           p == Packet.payload
           isFragment == p[1] % 32 = 28
           grown == IF p[2] >= 128
                      THEN <<(p[1] \div 32) * 32 + (p[2] % 32)>> \o SubSeq(p, 3, Len(p))
                      ELSE IF Held = NoUnit THEN NoUnit ELSE Held \o SubSeq(p, 3, Len(p))
           complete == IF ~isFragment THEN p
                       ELSE IF (p[2] \div 64) % 2 = 1 THEN grown ELSE NoUnit
           prefix == SubSeq(Nalu, 1, offset + Chunk)
<1>1. Packet.seq = sequence /\ p = IF Whole THEN Nalu ELSE Fragment
  BY DEF Packet
<1>2. /\ new.next = (Packet.seq + 1) % SeqLimit
      /\ new.part = IF isFragment /\ complete = NoUnit THEN grown ELSE NoUnit
      /\ new.units = IF complete = NoUnit THEN player.units ELSE Append(player.units, complete)
  BY <1>1 DEF Receive, Held
<1>3. new.next = NumberTaken
  BY <1>1, <1>2, Zenon DEF NumberTaken
<1>4. Nalu \in Bytes /\ Nalu # NoUnit /\ Nalu[1] % 32 # 28 /\ Len(Nalu) \in Nat
  BY UnitTypes DEF IsUnit, NoUnit
<1>5. CASE Whole
  <2>1. p = Nalu /\ UnitEnds
    BY <1>1, <1>5, Zenon DEF UnitEnds
  <2>2. ~isFragment /\ complete = Nalu
    BY <1>4, <2>1, Zenon
  <2>3. new.part = NoUnit /\ new.units = Append(player.units, Nalu)
    BY <1>2, <1>4, <2>2, Zenon
  <2> QED
    BY <1>3, <2>1, <2>3, Zenon
<1>6. CASE ~Whole
  <2>1. p = Fragment /\ (UnitEnds <=> IsLast)
    BY <1>1, <1>6, Zenon DEF UnitEnds
  <2>2. /\ Chunk \in Nat /\ Chunk >= 1 /\ offset + Chunk <= Len(Nalu)
    BY <1>6, ChunkFits
  <2>3. /\ isFragment
        /\ (p[1] \div 32) * 32 + (p[2] % 32) = Nalu[1]
        /\ p[2] >= 128 <=> offset = 1
        /\ (p[2] \div 64) % 2 = 1 <=> IsLast
        /\ SubSeq(p, 3, Len(p)) = SubSeq(Nalu, offset + 1, offset + Chunk)
    BY <1>6, <2>1, FragmentRead, Zenon
  <2>4. grown = NoUnit \/ grown = prefix
    <3>1. CASE offset = 1
      <4>1. grown = <<Nalu[1]>> \o SubSeq(Nalu, 1 + 1, 1 + Chunk)
        BY <2>3, <3>1, Zenon
      <4>2. 1 + 1 = 2 /\ 1 + Chunk \in Nat /\ 1 <= 1 + Chunk /\ 1 + Chunk <= Len(Nalu)
        BY <2>2, <3>1
      <4>3. grown = SubSeq(Nalu, 1, 1 + Chunk)
        BY <1>4, <4>1, <4>2, FirstGrows, Zenon
      <4> QED
        BY <3>1, <4>3, Zenon
    <3>2. CASE offset # 1 /\ Held = NoUnit
      BY <2>3, <3>2, Zenon
    <3>3. CASE offset # 1 /\ Held # NoUnit
      <4>1. grown = SubSeq(Nalu, 1, offset) \o SubSeq(Nalu, offset + 1, offset + Chunk)
        BY <2>3, <3>3, Zenon
      <4>2. offset + Chunk \in Nat /\ offset <= offset + Chunk /\ 1 <= offset
        BY <2>2
      <4>3. grown = prefix
        BY <1>4, <2>2, <4>1, <4>2, PartGrows
      <4> QED
        BY <4>3, Zenon
    <3> QED
      BY <3>1, <3>2, <3>3, Zenon
  <2>5. prefix # NoUnit
    <3>1. offset + Chunk \in Nat /\ 1 <= offset + Chunk
      BY <2>2
    <3> QED
      BY <1>4, <2>2, <3>1, PrefixNotEmpty
  <2>6. offset = 1 \/ Held # NoUnit => grown = prefix
    <3>1. CASE offset = 1
      <4>1. grown = <<Nalu[1]>> \o SubSeq(p, 3, Len(p))
        BY <2>3, <3>1, Zenon
      <4>2. Len(<<Nalu[1]>>) = 1 /\ 1 + Chunk <= Len(Nalu) /\ 1 + Chunk \in Nat /\ 1 <= 1 + Chunk
        BY <2>2, <3>1
      <4>3. <<Nalu[1]>> \o SubSeq(Nalu, 2, 1 + Chunk) = SubSeq(Nalu, 1, 1 + Chunk)
        BY <1>4, <4>2, FirstGrows, Zenon
      <4>4. offset + 1 = 2 /\ offset + Chunk = 1 + Chunk
        BY <3>1
      <4>5. grown = SubSeq(Nalu, 1, 1 + Chunk)
        BY <2>3, <4>1, <4>3, <4>4, Zenon
      <4> QED
        BY <4>4, <4>5, Zenon
    <3>2. CASE offset # 1 /\ Held # NoUnit
      <4>1. grown = SubSeq(Nalu, 1, offset) \o SubSeq(Nalu, offset + 1, offset + Chunk)
        BY <2>3, <3>2, Zenon
      <4>2. offset + Chunk \in Nat /\ offset <= offset + Chunk /\ 1 <= offset
        BY <2>2
      <4> QED
        BY <1>4, <2>2, <4>1, <4>2, PartGrows
    <3> QED
      BY <3>1, <3>2, Zenon
  <2>7. IsLast => prefix = Nalu
    BY <1>4, SubSeqFull DEF IsLast, Bytes
  <2> HIDE DEF new, grown, prefix, p
  <2>8. IsLast => complete = grown /\ new.part = NoUnit
        /\ new.units = IF grown = NoUnit THEN player.units ELSE Append(player.units, grown)
    BY <1>2, <2>3, Zenon
  <2>9. ~IsLast => complete = NoUnit /\ new.part = grown /\ new.units = player.units
    BY <1>2, <2>3, Zenon
  <2>10. IsLast =>
           /\ new.part = NoUnit
           /\ new.units = player.units \/ new.units = Append(player.units, Nalu)
           /\ offset = 1 \/ Held # NoUnit => new.units = Append(player.units, Nalu)
    BY <1>4, <2>4, <2>5, <2>6, <2>7, <2>8, Zenon
  <2>11. ~IsLast =>
           /\ new.units = player.units
           /\ new.part = NoUnit \/ new.part = prefix
           /\ offset = 1 \/ Held # NoUnit => new.part = prefix
    BY <2>4, <2>6, <2>9, Zenon
  <2> QED
    BY <1>3, <2>1, <2>10, <2>11, Zenon DEF new, prefix
<1> QED
  BY <1>5, <1>6, Zenon

-----------------------------------------------------------------------------
(* The invariant *)

\* The numbers, or the bytes themselves, do not tell the player any more what it missed.
Astray == blind \/ torn

TypesHold ==
    /\ data \in Bytes /\ pos \in Nat /\ nalus \in Units /\ sent \in Units
    /\ sequence \in 0..(SeqLimit - 1) /\ player.next \in 0..(SeqLimit - 1)
    /\ stage \in {"idle", "split", "send"} /\ offset \in Nat
    /\ missing \in Nat /\ blind \in BOOLEAN
    /\ cut.seq \in 0..(SeqLimit - 1) /\ (cut # NoPacket => torn)
    /\ frames \in Nat /\ losses \in Nat /\ refusals \in Nat /\ markers \in Nat

UnitsAreUnits == \A i \in 1..Len(sent) : IsUnit(sent[i])

\* The units of list are the last of those in whole.
IsTailOf(list, whole) ==
    /\ Len(list) <= Len(whole)
    /\ \A i \in 1..Len(list) : whole[Len(whole) - Len(list) + i] = list[i]

\* The units found are the first of the frame's, and the splitter is behind them.
SplitInOrder ==
    stage = "split" =>
        /\ frame \in Frames /\ data = frame.bytes
        /\ IsTailOf(frame.units, sent)
        /\ Len(nalus) <= Len(frame.units)
        /\ \A i \in 1..Len(nalus) : nalus[i] = frame.units[i]
        /\ pos = frame.codes[Len(nalus) + 1]

\* The units that still have to go out are the last of those sent; the first of them may
\* be gone in part.
SendInOrder ==
    /\ stage = "send" =>
         /\ nalus # <<>> /\ IsTailOf(nalus, sent)
         /\ (offset = 1 \/ (~Whole /\ offset > 1 /\ offset < Len(Nalu)))
    /\ stage # "send" => offset = 1

\* The player's next number is as far behind as packets are missing, unless it has read the
\* bytes of a reply as a packet.
NumbersAgree ==
    ~torn /\ missing < SeqLimit =>
        sequence = IF player.next + missing < SeqLimit THEN player.next + missing
                                                       ELSE player.next + missing - SeqLimit

\* What the player has of a unit is what went out of the first of nalus.
PartIsPrefix ==
    ~Astray /\ missing = 0 /\ player.part # NoUnit =>
        stage = "send" /\ offset > 1 /\ player.part = SubSeq(Nalu, 1, offset)

\* How many of the units sent are behind the sender.
Behind == IF stage = "split" THEN Len(sent) - Len(frame.units)
          ELSE IF stage = "send" THEN Len(sent) - Len(nalus)
          ELSE Len(sent)

\* The units of some are, in order, among the first n of whole.
IsAmong(some, whole, n) ==
    \E places \in [1..Len(some) -> 1..n] :
        /\ \A i, j \in 1..Len(some) : i < j => places[i] < places[j]
        /\ \A i \in 1..Len(some) : some[i] = whole[places[i]]

PlayerInOrder == ~Astray => player.units \in Units /\ IsAmong(player.units, sent, Behind)

\* Without a loss the player has all that went out.
PlayerComplete ==
    losses = 0 /\ refusals = 0 =>
        /\ missing = 0 /\ ~Astray
        /\ Len(player.units) = Behind
        /\ \A i \in 1..Behind : player.units[i] = sent[i]
        /\ stage = "send" /\ offset > 1 => player.part = SubSeq(Nalu, 1, offset)
        /\ frames = IF stage = "idle" THEN markers ELSE markers + 1

Inv == /\ TypesHold /\ UnitsAreUnits /\ SplitInOrder /\ SendInOrder
       /\ NumbersAgree /\ PartIsPrefix /\ PlayerInOrder /\ PlayerComplete

-----------------------------------------------------------------------------
(* Facts about the invariant's parts *)

\* A number below the modulus is its own remainder.
LEMMA ModBelow ==
    ASSUME NEW c \in Nat \ {0}, NEW n \in Nat, n < c
    PROVE  n % c = n
OBVIOUS

\* The modulus has no remainder.
LEMMA ModItself ==
    ASSUME NEW c \in Nat \ {0}
    PROVE  c % c = 0
OBVIOUS

\* The number of the packet behind the next, which goes round once.
LEMMA NumberGoesRound ==
    ASSUME sequence \in 0..(SeqLimit - 1)
    PROVE  /\ NumberTaken = IF sequence + 1 < SeqLimit THEN sequence + 1 ELSE 0
           /\ NumberTaken \in 0..(SeqLimit - 1)
<1>1. SeqLimit \in Nat \ {0} /\ sequence \in Nat /\ sequence + 1 \in Nat
  BY SenderBounds
<1>2. CASE sequence + 1 < SeqLimit
  <2>1. (sequence + 1) % SeqLimit = sequence + 1
    BY <1>1, <1>2, ModBelow, Zenon
  <2> QED
    BY <1>1, <1>2, <2>1 DEF NumberTaken
<1>3. CASE ~(sequence + 1 < SeqLimit)
  <2>1. sequence + 1 = SeqLimit
    BY <1>1, <1>3
  <2>2. (sequence + 1) % SeqLimit = 0
    BY <1>1, <2>1, ModItself, Zenon
  <2> QED
    BY <1>1, <1>3, <2>2 DEF NumberTaken
<1> QED
  BY <1>2, <1>3, Zenon

\* The units behind the sender are some of those sent.
LEMMA BehindType ==
    ASSUME TypesHold, SplitInOrder, SendInOrder
    PROVE  /\ Behind \in Nat /\ Behind <= Len(sent) /\ Len(sent) \in Nat
           /\ Len(nalus) \in Nat
<1>1. Len(sent) \in Nat /\ Len(nalus) \in Nat
  BY LenProperties DEF TypesHold, Units
<1>2. CASE stage = "split"
  <2>1. frame \in Frames /\ Len(frame.units) <= Len(sent)
    BY <1>2, Zenon DEF SplitInOrder, IsTailOf
  <2>2. Len(frame.units) \in Nat
    BY <2>1, FrameTypes
  <2>3. Behind = Len(sent) - Len(frame.units)
    BY <1>2, Zenon DEF Behind
  <2> QED
    BY <1>1, <2>1, <2>2, <2>3
<1>3. CASE stage = "send"
  <2>1. Len(nalus) <= Len(sent)
    BY <1>3, Zenon DEF SendInOrder, IsTailOf
  <2>2. Behind = Len(sent) - Len(nalus)
    BY <1>3 DEF Behind
  <2> QED
    BY <1>1, <2>1, <2>2
<1>4. CASE stage = "idle"
  <2>1. Behind = Len(sent)
    BY <1>4 DEF Behind
  <2> QED
    BY <1>1, <2>1
<1> QED
  BY <1>2, <1>3, <1>4 DEF TypesHold

\* More units behind the sender leave the player's among them.
LEMMA AmongStays ==
    ASSUME NEW some, NEW old, NEW new, NEW n \in Nat, NEW m \in Nat, n <= m,
           \A k \in 1..n : new[k] = old[k], IsAmong(some, old, n)
    PROVE  IsAmong(some, new, m)
<1>1. PICK places \in [1..Len(some) -> 1..n] :
         /\ \A i, j \in 1..Len(some) : i < j => places[i] < places[j]
         /\ \A i \in 1..Len(some) : some[i] = old[places[i]]
  BY Zenon DEF IsAmong
<1>2. \A i \in 1..Len(some) : places[i] \in 1..n
  BY <1>1
<1>3. 1..n \subseteq 1..m
  OBVIOUS
<1>4. places \in [1..Len(some) -> 1..m]
  BY <1>3, Zenon
<1>5. \A i \in 1..Len(some) : some[i] = new[places[i]]
  BY <1>1, <1>2, Zenon
<1> QED
  BY <1>1, <1>4, <1>5, Zenon DEF IsAmong

\* The next unit goes behind those the player has.
LEMMA AmongGrows ==
    ASSUME NEW some \in Units, NEW whole, NEW n \in Nat, IsAmong(some, whole, n),
           NEW u \in Bytes, u = whole[n + 1]
    PROVE  IsAmong(Append(some, u), whole, n + 1)
<1> DEFINE l == Len(some)
           grown == Append(some, u)
<1>1. l \in Nat
  BY LenProperties DEF Units
<1>2. Len(grown) = l + 1 /\ grown[l + 1] = u /\ \A i \in 1..l : grown[i] = some[i]
  BY AppendProperties DEF Units
<1>3. PICK places \in [1..l -> 1..n] :
         /\ \A i, j \in 1..l : i < j => places[i] < places[j]
         /\ \A i \in 1..l : some[i] = whole[places[i]]
  BY Zenon DEF IsAmong
<1> HIDE DEF l, grown
<1> DEFINE further == [i \in 1..(l + 1) |-> IF i <= l THEN places[i] ELSE n + 1]
<1>4. \A i \in 1..l : places[i] \in 1..n
  BY <1>3
<1>5. /\ further[l + 1] = n + 1
      /\ \A i \in 1..l : further[i] = places[i]
  BY <1>1
<1>6. \A i \in 1..(l + 1) : i = l + 1 \/ i \in 1..l
  BY <1>1
<1>7. further \in [1..(l + 1) -> 1..(n + 1)]
  BY <1>1, <1>4
<1> HIDE DEF further
<1>8. \A i, j \in 1..(l + 1) : i < j => further[i] < further[j]
  <2> SUFFICES ASSUME NEW i \in 1..(l + 1), NEW j \in 1..(l + 1), i < j
               PROVE  further[i] < further[j]
    OBVIOUS
  <2>1. i \in 1..l
    BY <1>1
  <2>2. CASE j \in 1..l
    BY <1>3, <1>5, <2>1, <2>2
  <2>3. CASE j = l + 1
    <3>1. places[i] \in Nat /\ places[i] <= n
      BY <1>4, <2>1
    <3> QED
      BY <1>5, <2>1, <2>3, <3>1
  <2> QED
    BY <1>6, <2>2, <2>3
<1>9. \A i \in 1..(l + 1) : grown[i] = whole[further[i]]
  BY <1>2, <1>3, <1>5, <1>6, Zenon
<1>10. Len(grown) = l + 1
  BY <1>2
<1>11. IsAmong(grown, whole, n + 1)
  BY <1>7, <1>8, <1>9, <1>10, Zenon DEF IsAmong
<1> QED
  BY <1>11 DEF grown

-----------------------------------------------------------------------------
(* The steps that leave the network alone *)

\* The invariant does not mention whether the client plays.
LEMMA NothingMoves ==
    ASSUME Inv,
           UNCHANGED <<splitVars, sequence, loopVars, netVars, encoderVars, refusals>>
    PROVE  Inv'
BY Zenon DEF Inv, TypesHold, UnitsAreUnits, SplitInOrder, SendInOrder, NumbersAgree, PartIsPrefix,
             PlayerInOrder, PlayerComplete, Astray, Behind, Whole, Nalu

\* Nothing was sent yet.
LEMMA InitInv == Init => Inv
<1> SUFFICES ASSUME Init PROVE Inv
  OBVIOUS
<1> USE DEF Init, InitSplit
<1>1. TypesHold
  <2>1. <<>> \in Bytes /\ <<>> \in Units
    BY EmptySeq DEF Bytes, Units
  <2>2. 0 \in 0..(SeqLimit - 1) /\ 0 \in Nat /\ 1 \in Nat
    BY SenderBounds
  <2>3. blind \in BOOLEAN
    BY Zenon
  <2>4. cut.seq = 0 /\ ~(cut # NoPacket)
    BY DEF NoPacket
  <2> QED
    BY <2>1, <2>2, <2>3, <2>4 DEF TypesHold
<1>2. Len(sent) = 0 /\ Len(player.units) = 0 /\ Behind = 0 /\ 1..0 = {}
  BY DEF Behind
<1>3. UnitsAreUnits
  BY <1>2, Zenon DEF UnitsAreUnits
<1>4. SplitInOrder /\ SendInOrder
  BY DEF SplitInOrder, SendInOrder
<1>5. NumbersAgree
  BY SenderBounds DEF NumbersAgree
<1>6. PartIsPrefix
  BY DEF PartIsPrefix, Astray
<1>7. PlayerInOrder
  <2>1. player.units \in Units
    BY <1>1 DEF TypesHold
  <2>2. [i \in 1..0 |-> 0] \in [1..0 -> 1..0]
    OBVIOUS
  <2>3. IsAmong(player.units, sent, Behind)
    BY <1>2, <2>2 DEF IsAmong
  <2> QED
    BY <2>1, <2>3 DEF PlayerInOrder, Astray
<1>8. PlayerComplete
  BY <1>2 DEF PlayerComplete, Astray
<1> QED
  BY <1>1, <1>3, <1>4, <1>5, <1>6, <1>7, <1>8, Zenon DEF Inv

\* The units of a new frame go behind those sent.
LEMMA BroadcastInv ==
    ASSUME Inv, NEW f \in Frames, Broadcast(f)
    PROVE  Inv'
<1> DEFINE n == Len(sent)
           k == Len(f.units)
<1>1. TypesHold /\ UnitsAreUnits /\ SplitInOrder /\ SendInOrder /\ NumbersAgree /\ PartIsPrefix
      /\ PlayerInOrder /\ PlayerComplete
  BY Zenon DEF Inv
<1>2. /\ stage = "idle" /\ stage' = "split" /\ frame' = f /\ sent' = sent \o f.units
      /\ data' = f.bytes /\ pos' = NextCode(f.bytes, 1) /\ nalus' = <<>> /\ frames' = frames + 1
      /\ UNCHANGED <<sequence, offset, player, missing, blind, losses, markers, cutVars, refusals>>
  BY Zenon DEF Broadcast, SplitBegins
<1>3. /\ f.bytes \in Bytes /\ f.units \in Units /\ k \in Nat \ {0}
      /\ f.codes[1] = 1
  BY FrameTypes
<1>4. n \in Nat /\ Behind = n
  BY <1>1, <1>2, BehindType DEF Behind
<1>5. sent' \in Units /\ Len(sent') = n + k
      /\ (\A i \in 1..(n + k) : sent'[i] = IF i <= n THEN sent[i] ELSE f.units[i - n])
  <2>1. sent \in Seq(Bytes) /\ f.units \in Seq(Bytes)
    BY <1>1, <1>3, Zenon DEF TypesHold, Units
  <2> QED
    BY <1>2, <2>1, ConcatProperties, Zenon DEF Units
<1>6. nalus' \in Units /\ Len(nalus') = 0
  BY <1>2, EmptySeq DEF Units
<1>7. pos' = 1
  BY <1>2, <1>3, FirstFound
<1> HIDE DEF n, k
<1>8. \A i \in 1..n : sent'[i] = sent[i]
  BY <1>3, <1>4, <1>5
<1>9. \A i \in 1..k : sent'[n + i] = f.units[i]
  <2> SUFFICES ASSUME NEW i \in 1..k
               PROVE  sent'[n + i] = f.units[i]
    OBVIOUS
  <2>1. n + i \in 1..(n + k) /\ ~(n + i <= n) /\ (n + i) - n = i
    BY <1>3, <1>4
  <2> QED
    BY <1>5, <2>1
<1>10. Behind' = n
  <2>1. Behind' = Len(sent') - k
    BY <1>2, Zenon DEF Behind, k
  <2> QED
    BY <1>3, <1>4, <1>5, <2>1
<1>11. TypesHold'
  <2>1. data' \in Bytes /\ pos' \in Nat /\ frames' \in Nat /\ stage' \in {"idle", "split", "send"}
    BY <1>1, <1>2, <1>3, <1>7 DEF TypesHold
  <2> QED
    BY <1>1, <1>2, <1>5, <1>6, <2>1, Zenon DEF TypesHold
<1>12. UnitsAreUnits'
  <2> SUFFICES ASSUME NEW i \in 1..(n + k)
               PROVE  IsUnit(sent'[i])
    BY <1>5, Zenon DEF UnitsAreUnits
  <2>1. CASE i <= n
    <3>1. i \in 1..n /\ sent'[i] = sent[i]
      BY <1>4, <1>8, <2>1
    <3> QED
      BY <1>1, <3>1, Zenon DEF UnitsAreUnits, n
  <2>2. CASE ~(i <= n)
    <3>1. i - n \in 1..k /\ sent'[i] = f.units[i - n]
      BY <1>3, <1>4, <1>5, <2>2
    <3>2. IsUnit(f.units[i - n])
      BY <3>1, UnitLies DEF k
    <3> QED
      BY <3>1, <3>2, Zenon
  <2> QED
    BY <2>1, <2>2, Zenon
<1>13. SplitInOrder'
  <2>1. IsTailOf(f.units, sent')
    <3>1. k <= n + k /\ (n + k) - k = n
      BY <1>3, <1>4
    <3>2. \A i \in 1..k : sent'[((n + k) - k) + i] = f.units[i]
      BY <1>9, <3>1, Zenon
    <3> QED
      BY <1>5, <3>1, <3>2, Zenon DEF IsTailOf, k
  <2>2. 0 <= k /\ 1..0 = {} /\ 0 + 1 = 1
    BY <1>3
  <2> QED
    BY <1>2, <1>3, <1>6, <1>7, <2>1, <2>2, Zenon DEF SplitInOrder, k
<1>14. SendInOrder'
  BY <1>1, <1>2 DEF SendInOrder
<1>15. NumbersAgree'
  BY <1>1, <1>2, Zenon DEF NumbersAgree
<1>16. PartIsPrefix'
  BY <1>1, <1>2 DEF PartIsPrefix, Astray
<1>17. PlayerInOrder'
  <2>1. ASSUME ~Astray
        PROVE  player.units \in Units /\ IsAmong(player.units, sent', n)
    <3>1. player.units \in Units /\ IsAmong(player.units, sent, n)
      BY <1>1, <1>4, <2>1, Zenon DEF PlayerInOrder, Astray
    <3>2. n <= n
      BY <1>4
    <3> QED
      BY <1>4, <1>8, <3>1, <3>2, AmongStays, Zenon
  <2> QED
    BY <1>2, <1>10, <2>1, Zenon DEF PlayerInOrder, Astray
<1>18. PlayerComplete'
  BY <1>1, <1>2, <1>4, <1>8, <1>10 DEF PlayerComplete, Astray
<1> QED
  BY <1>11, <1>12, <1>13, <1>14, <1>15, <1>16, <1>17, <1>18, Zenon DEF Inv

\* A round of the splitter cuts the next unit out of the frame.
LEMMA SplitsFinds ==
    ASSUME TypesHold, SplitInOrder, SendInOrder, Splits
    PROVE  /\ frame \in Frames /\ Len(nalus) \in Nat
           /\ Len(nalus) + 1 \in 1..Len(frame.units)
           /\ pos = frame.codes[Len(nalus) + 1] /\ pos' = frame.codes[(Len(nalus) + 1) + 1]
           /\ nalus' = Append(nalus, frame.units[Len(nalus) + 1])
<1> DEFINE m == Len(nalus)
           k == Len(frame.units)
           i == m + 1
           start == pos + StartCodeSize(data, pos)
           next == NextCode(data, start)
<1>2. /\ stage = "split" /\ pos <= Len(data)
      /\ nalus' = IF next > start THEN Append(nalus, SubSeq(data, start, next - 1)) ELSE nalus
      /\ pos' = next
  BY Zenon DEF Splits, SplitTakes
<1>3. /\ frame \in Frames /\ data = frame.bytes /\ IsTailOf(frame.units, sent) /\ m <= k
      /\ (\A j \in 1..m : nalus[j] = frame.units[j])
      /\ pos = frame.codes[m + 1]
  BY <1>2, Zenon DEF SplitInOrder
<1>4. m \in Nat /\ k \in Nat
  BY <1>3, BehindType, FrameTypes
<1>5. i \in 1..k
  <2>1. m # k
    <3>1. frame.codes[k + 1] = Len(frame.bytes) + 1 /\ Len(frame.bytes) \in Nat
      BY <1>3, FrameTypes
    <3>2. m = k => pos = Len(frame.bytes) + 1
      BY <1>3, <3>1, Zenon
    <3> HIDE DEF m, k
    <3> QED
      BY <1>2, <1>3, <3>1, <3>2
  <2> HIDE DEF m, k
  <2> QED
    BY <1>3, <1>4, <2>1
<1>6. start = UnitStart(frame, i)
  <2>1. StartCodeSize(frame.bytes, frame.codes[i]) = UnitStart(frame, i) - frame.codes[i]
    BY <1>3, <1>5, CodeFound
  <2>2. frame.codes[i] \in Nat
    <3>1. i \in 1..(k + 1)
      BY <1>4, <1>5
    <3> QED
      BY <1>3, <3>1, FrameTypes
  <2>3. UnitStart(frame, i) \in Nat
    BY <1>3, <1>5, UnitLies
  <2>4. start = frame.codes[i] + (UnitStart(frame, i) - frame.codes[i])
    BY <1>3, <2>1, Zenon
  <2> HIDE DEF start, i
  <2> QED
    BY <2>2, <2>3, <2>4
<1>7. next = frame.codes[i + 1]
  BY <1>3, <1>5, <1>6, NextFound, Zenon
<1>8. next > start /\ SubSeq(data, start, next - 1) = frame.units[i]
  BY <1>3, <1>5, <1>6, <1>7, UnitCut, Zenon
<1>9. nalus' = Append(nalus, frame.units[i])
  BY <1>2, <1>8, Zenon
<1>10. pos' = frame.codes[i + 1] /\ pos = frame.codes[i]
  BY <1>2, <1>3, <1>7, Zenon
<1> QED
  BY <1>3, <1>4, <1>5, <1>9, <1>10, Zenon

\* The units found are the first of the frame's still.
LEMMA SplitsInv ==
    ASSUME Inv, Splits
    PROVE  Inv'
<1> DEFINE m == Len(nalus)
           k == Len(frame.units)
           i == m + 1
<1>1. TypesHold /\ UnitsAreUnits /\ SplitInOrder /\ SendInOrder /\ NumbersAgree /\ PartIsPrefix
      /\ PlayerInOrder /\ PlayerComplete
  BY Zenon DEF Inv
<1>2. /\ stage = "split"
      /\ UNCHANGED <<data, sequence, offset, stage, player, missing, blind, losses, markers, cutVars,
                     frame, sent, frames, refusals>>
  BY Zenon DEF Splits, SplitTakes
<1>3. /\ frame \in Frames /\ data = frame.bytes /\ IsTailOf(frame.units, sent)
      /\ (\A j \in 1..m : nalus[j] = frame.units[j])
  BY <1>1, <1>2, Zenon DEF SplitInOrder
<1>4. /\ m \in Nat /\ k \in Nat /\ i \in 1..k
      /\ pos' = frame.codes[i + 1] /\ nalus' = Append(nalus, frame.units[i])
  BY <1>1, <1>3, SplitsFinds, FrameTypes
<1>10. frame.units[i] \in Bytes
  BY <1>3, <1>4, UnitLies, UnitTypes
<1>11. nalus' \in Units /\ Len(nalus') = m + 1 /\ nalus'[m + 1] = frame.units[m + 1]
       /\ \A j \in 1..m : nalus'[j] = nalus[j]
  <2>1. nalus \in Seq(Bytes)
    BY <1>1, Zenon DEF TypesHold, Units
  <2>2. /\ Append(nalus, frame.units[i]) \in Seq(Bytes)
        /\ Len(Append(nalus, frame.units[i])) = Len(nalus) + 1
        /\ \A j \in 1..Len(nalus) : Append(nalus, frame.units[i])[j] = nalus[j]
        /\ Append(nalus, frame.units[i])[Len(nalus) + 1] = frame.units[i]
    BY <1>10, <2>1, AppendProperties, Zenon
  <2> QED
    BY <1>4, <2>2, Zenon DEF Units
<1>12. pos' \in Nat
  <2>1. i + 1 \in 1..(k + 1)
    BY <1>4
  <2> QED
    BY <1>3, <1>4, <2>1, FrameTypes
<1>13. pos' = frame.codes[(m + 1) + 1]
  BY <1>4, Zenon
<1> HIDE DEF m, k
<1>14. m + 1 <= k
  BY <1>4
<1>15. \A j \in 1..(m + 1) : nalus'[j] = frame.units[j]
  <2>1. \A j \in 1..(m + 1) : j \in 1..m \/ j = m + 1
    BY <1>4
  <2> QED
    BY <1>3, <1>11, <2>1, Zenon
<1>16. TypesHold'
  BY <1>1, <1>2, <1>11, <1>12, Zenon DEF TypesHold
<1>17. UnitsAreUnits' /\ NumbersAgree'
  BY <1>1, <1>2, Zenon DEF UnitsAreUnits, NumbersAgree
<1>18. SplitInOrder'
  BY <1>2, <1>3, <1>11, <1>13, <1>14, <1>15, Zenon DEF SplitInOrder, k
<1>19. SendInOrder'
  BY <1>1, <1>2 DEF SendInOrder
<1>20. PartIsPrefix'
  BY <1>1, <1>2 DEF PartIsPrefix, Astray
<1>21. Behind' = Behind
  BY <1>2 DEF Behind
<1>22. PlayerInOrder'
  BY <1>1, <1>2, <1>21, Zenon DEF PlayerInOrder, Astray
<1>23. PlayerComplete'
  BY <1>1, <1>2, <1>21 DEF PlayerComplete, Astray
<1> QED
  BY <1>16, <1>17, <1>18, <1>19, <1>20, <1>22, <1>23, Zenon DEF Inv

\* When the splitter is at the end, it has found every unit of the frame.
LEMMA SplitEndsInv ==
    ASSUME Inv, SplitEnds
    PROVE  Inv' /\ nalus = frame.units
<1> DEFINE m == Len(nalus)
           k == Len(frame.units)
<1>1. TypesHold /\ UnitsAreUnits /\ SplitInOrder /\ SendInOrder /\ NumbersAgree /\ PartIsPrefix
      /\ PlayerInOrder /\ PlayerComplete
  BY Zenon DEF Inv
<1>2. /\ stage = "split" /\ pos > Len(data)
      /\ stage' = IF nalus = <<>> THEN "idle" ELSE "send"
      /\ UNCHANGED <<data, pos, nalus, sequence, offset, player, missing, blind, losses, markers,
                     cutVars, frame, sent, frames, refusals>>
  BY Zenon DEF SplitEnds
<1>3. /\ frame \in Frames /\ data = frame.bytes /\ IsTailOf(frame.units, sent) /\ m <= k
      /\ (\A j \in 1..m : nalus[j] = frame.units[j])
      /\ pos = frame.codes[m + 1]
  BY <1>1, <1>2, Zenon DEF SplitInOrder
<1>4. m \in Nat /\ k \in Nat \ {0} /\ frame.units \in Units /\ nalus \in Units
  BY <1>1, <1>3, BehindType, FrameTypes DEF TypesHold
<1>5. m = k
  <2>1. SUFFICES ASSUME m < k
                 PROVE  FALSE
    <3> HIDE DEF m, k
    <3> QED
      BY <1>3, <1>4
  <2>2. m + 1 \in 1..k /\ m + 1 \in 1..(k + 1) /\ (m + 1) + 1 \in 1..(k + 1)
    BY <1>4, <2>1
  <2>3. /\ frame.codes[m + 1] \in Nat /\ frame.codes[(m + 1) + 1] <= Len(frame.bytes) + 1
        /\ frame.codes[(m + 1) + 1] \in Nat /\ Len(frame.bytes) \in Nat
    BY <1>3, <2>2, FrameTypes
  <2>4. UnitStart(frame, m + 1) > frame.codes[m + 1]
    <3>1. \/ UnitStart(frame, m + 1) = frame.codes[m + 1] + 3
          \/ UnitStart(frame, m + 1) = frame.codes[m + 1] + 4
      BY <1>3, <2>2, UnitLies, Zenon
    <3> HIDE DEF m
    <3> QED
      BY <2>3, <3>1
  <2>5. frame.codes[(m + 1) + 1] > UnitStart(frame, m + 1)
    BY <1>3, <2>2, UnitCut
  <2>6. UnitStart(frame, m + 1) \in Nat
    BY <1>3, <2>2, UnitLies
  <2>7. frame.codes[m + 1] > Len(frame.bytes)
    BY <1>2, <1>3, Zenon
  <2> DEFINE a == frame.codes[m + 1]
             b == frame.codes[(m + 1) + 1]
             c == UnitStart(frame, m + 1)
             l == Len(frame.bytes)
  <2>8. a \in Nat /\ b \in Nat /\ c \in Nat /\ l \in Nat /\ c > a /\ b > c /\ a > l /\ b <= l + 1
    BY <2>3, <2>4, <2>5, <2>6, <2>7, Zenon
  <2> HIDE DEF a, b, c, l, m, k
  <2> QED
    BY <2>8
<1>6. nalus = frame.units
  <2>1. nalus \in Seq(Bytes) /\ frame.units \in Seq(Bytes)
    BY <1>4, Zenon DEF Units
  <2> QED
    BY <1>3, <1>5, <2>1, SeqEqual, Zenon
<1>7. nalus # <<>> /\ stage' = "send"
  <2>1. nalus # <<>>
    BY <1>4, <1>5
  <2> QED
    BY <1>2, <2>1, Zenon
<1>8. offset = 1
  BY <1>1, <1>2 DEF SendInOrder
<1>9. TypesHold'
  <2>1. stage' \in {"idle", "split", "send"}
    BY <1>7
  <2> QED
    BY <1>1, <1>2, <2>1, Zenon DEF TypesHold
<1>10. UnitsAreUnits' /\ NumbersAgree'
  BY <1>1, <1>2, Zenon DEF UnitsAreUnits, NumbersAgree
<1>11. SplitInOrder'
  BY <1>7 DEF SplitInOrder
<1>12. SendInOrder'
  BY <1>2, <1>3, <1>6, <1>7, <1>8 DEF SendInOrder
<1>13. PartIsPrefix'
  BY <1>1, <1>2 DEF PartIsPrefix, Astray
<1>14. Behind' = Behind
  BY <1>2, <1>6, <1>7 DEF Behind
<1>15. PlayerInOrder'
  BY <1>1, <1>2, <1>14, Zenon DEF PlayerInOrder, Astray
<1>16. PlayerComplete'
  BY <1>1, <1>2, <1>7, <1>8, <1>14 DEF PlayerComplete, Astray
<1> QED
  BY <1>6, <1>9, <1>10, <1>11, <1>12, <1>13, <1>15, <1>16, Zenon DEF Inv

-----------------------------------------------------------------------------
(* The steps of the sender *)

\* A refused packet ends the frame: all its units are behind the sender, and the player
\* misses a number.
LEMMA FailsInv ==
    ASSUME Inv, SendRtpFails
    PROVE  Inv'
<1>1. TypesHold /\ UnitsAreUnits /\ SplitInOrder /\ SendInOrder /\ NumbersAgree /\ PartIsPrefix
      /\ PlayerInOrder /\ PlayerComplete
  BY Zenon DEF Inv
<1>2. /\ stage = "send" /\ sequence' = NumberTaken /\ nalus' = <<>> /\ offset' = 1
      /\ stage' = "idle" /\ refusals' = refusals + 1 /\ missing' = missing + 1
      /\ UNCHANGED <<data, pos, player, blind, losses, markers, cutVars, frame, sent, frames>>
  BY Zenon DEF SendRtpFails, GivesUpFrame
<1>3. Behind \in Nat /\ Behind <= Len(sent) /\ Len(sent) \in Nat
  BY <1>1, BehindType, Zenon
<1>4. missing \in Nat /\ refusals \in Nat /\ SeqLimit \in Nat \ {0}
  BY <1>1, SenderBounds DEF TypesHold
<1>5. Behind' = Len(sent)
  BY <1>2 DEF Behind
<1>6. TypesHold'
  <2>1. nalus' \in Units
    BY <1>2, EmptySeq DEF Units
  <2>2. stage' \in {"idle", "split", "send"} /\ offset' \in Nat /\ refusals' \in Nat
        /\ missing' \in Nat
    BY <1>2, <1>4
  <2>3. sequence' \in 0..(SeqLimit - 1)
    BY <1>1, <1>2, NumberGoesRound, Zenon DEF TypesHold
  <2> QED
    BY <1>1, <1>2, <2>1, <2>2, <2>3, Zenon DEF TypesHold
<1>7. UnitsAreUnits'
  BY <1>1, <1>2, Zenon DEF UnitsAreUnits
<1>8. SplitInOrder' /\ SendInOrder'
  BY <1>2 DEF SplitInOrder, SendInOrder
<1>9. NumbersAgree'
  BY <1>1, <1>2, <1>4, NumberGoesRound DEF NumbersAgree, TypesHold
<1>10. PartIsPrefix' /\ PlayerComplete'
  <2>1. missing' # 0 /\ refusals' # 0
    BY <1>2, <1>4
  <2> QED
    BY <2>1, Zenon DEF PartIsPrefix, PlayerComplete, Astray
<1>11. PlayerInOrder'
  <2>1. ASSUME ~Astray
        PROVE  player.units \in Units /\ IsAmong(player.units, sent, Len(sent))
    <3>1. player.units \in Units /\ IsAmong(player.units, sent, Behind)
      BY <1>1, <2>1, Zenon DEF PlayerInOrder, Astray
    <3>2. \A i \in 1..Behind : sent[i] = sent[i]
      OBVIOUS
    <3> QED
      BY <1>3, <3>1, <3>2, AmongStays, Zenon
  <2> QED
    BY <1>2, <1>5, <2>1, Zenon DEF PlayerInOrder, Astray
<1> QED
  BY <1>6, <1>7, <1>8, <1>9, <1>10, <1>11, Zenon DEF Inv

\* What a packet that goes out does to the sender, whether it arrives or not.
LEMMA SenderMoves ==
    ASSUME TypesHold, UnitsAreUnits, SplitInOrder, SendInOrder, stage = "send",
           nalus' = IF UnitEnds THEN Tail(nalus) ELSE nalus,
           offset' = IF UnitEnds THEN 1 ELSE offset + Chunk,
           stage' = IF nalus' = <<>> THEN "idle" ELSE "send",
           UNCHANGED <<sent, frame>>
    PROVE  /\ nalus' \in Units /\ offset' \in Nat /\ stage' \in {"idle", "split", "send"}
           /\ SplitInOrder' /\ SendInOrder'
           /\ IsUnit(Nalu) /\ Behind + 1 <= Len(sent) /\ Nalu = sent[Behind + 1]
           /\ offset >= 1
           /\ Behind' = IF UnitEnds THEN Behind + 1 ELSE Behind
           /\ UnitEnds => offset' = 1 /\ (stage' = "idle" <=> Len(nalus) = 1)
           /\ ~UnitEnds =>
                stage' = "send" /\ Nalu' = Nalu /\ offset' = offset + Chunk /\ offset' > 1
<1> DEFINE n == Len(sent)
           k == Len(nalus)
<1>1. /\ nalus # <<>> /\ IsTailOf(nalus, sent)
      /\ (offset = 1 \/ (~Whole /\ offset > 1 /\ offset < Len(Nalu)))
  BY DEF SendInOrder
<1>2. nalus \in Seq(Bytes) /\ offset \in Nat
  BY DEF TypesHold, Units
<1>3. n \in Nat /\ k \in Nat \ {0} /\ Behind = n - k
  <2>1. k # 0
    BY <1>1, <1>2, EmptySeq
  <2>2. Behind = n - k
    BY DEF Behind
  <2> QED
    BY <2>1, <2>2, BehindType
<1>4. k <= n /\ \A i \in 1..k : sent[(n - k) + i] = nalus[i]
  BY <1>1, Zenon DEF IsTailOf
<1>5. Nalu = nalus[1] /\ Tail(nalus) \in Seq(Bytes) /\ Len(Tail(nalus)) = k - 1
      /\ \A i \in 1..(k - 1) : Tail(nalus)[i] = nalus[i + 1]
  <2>1. Nalu = nalus[1]
    BY <1>1, <1>2 DEF Nalu
  <2>2. /\ Tail(nalus) \in Seq(Bytes) /\ Len(Tail(nalus)) = k - 1
        /\ \A i \in 1..Len(Tail(nalus)) : Tail(nalus)[i] = nalus[i + 1]
    BY <1>1, <1>2, HeadTailProperties, Zenon
  <2> QED
    BY <2>1, <2>2, Zenon
<1> HIDE DEF n, k
<1>6. Behind + 1 <= n /\ Nalu = sent[Behind + 1] /\ IsUnit(Nalu)
  <2>1. Behind + 1 \in 1..n /\ 1 \in 1..k
    BY <1>3, <1>4
  <2>2. Nalu = sent[Behind + 1]
    BY <1>3, <1>4, <1>5, <2>1, Zenon
  <2>3. IsUnit(sent[Behind + 1])
    BY <2>1, Zenon DEF UnitsAreUnits, n
  <2> QED
    BY <1>3, <1>4, <2>2, <2>3
<1>7. offset >= 1
  BY <1>1, <1>2
<1>8. CASE UnitEnds
  <2>1. nalus' = Tail(nalus) /\ offset' = 1
    BY <1>8, Zenon
  <2>2. nalus' \in Seq(Bytes) /\ Len(nalus') = k - 1
        /\ \A i \in 1..(k - 1) : nalus'[i] = nalus[i + 1]
    BY <1>5, <2>1, Zenon
  <2>3. nalus' = <<>> <=> k - 1 = 0
    <3>1. nalus' = <<>> => Len(nalus') = 0
      BY EmptySeq
    <3>2. nalus' # <<>> => Len(nalus') # 0
      BY <2>2, EmptySeq
    <3> QED
      BY <2>2, <3>1, <3>2, Zenon
  <2>4. stage' = "idle" <=> k = 1
    BY <1>3, <2>3
  <2>5. Behind' = Behind + 1
    <3>1. CASE stage' = "idle"
      <4>1. Behind' = Len(sent')
        BY <3>1 DEF Behind
      <4> QED
        BY <1>3, <2>4, <3>1, <4>1 DEF n
    <3>2. CASE stage' # "idle"
      <4>1. stage' = "send"
        BY <3>2, Zenon
      <4>2. Behind' = Len(sent') - Len(nalus')
        BY <4>1 DEF Behind
      <4>3. Behind' = n - (k - 1)
        BY <2>2, <4>2, Zenon DEF n
      <4> QED
        BY <1>3, <4>3
    <3> QED
      BY <3>1, <3>2, Zenon
  <2>6. SendInOrder'
    <3>1. ASSUME stage' = "send"
          PROVE  nalus' # <<>> /\ IsTailOf(nalus', sent')
      <4>1. nalus' # <<>>
        BY <3>1
      <4>2. k - 1 <= n
        BY <1>3, <1>4
      <4>3. \A i \in 1..(k - 1) : sent[(n - (k - 1)) + i] = nalus'[i]
        <5> SUFFICES ASSUME NEW i \in 1..(k - 1)
                     PROVE  sent[(n - (k - 1)) + i] = nalus'[i]
          OBVIOUS
        <5>1. i + 1 \in 1..k /\ (n - k) + (i + 1) = (n - (k - 1)) + i
          BY <1>3
        <5>2. sent[(n - k) + (i + 1)] = nalus[i + 1] /\ nalus'[i] = nalus[i + 1]
          BY <1>4, <2>2, <5>1
        <5> QED
          BY <5>1, <5>2, Zenon
      <4>4. IsTailOf(nalus', sent)
        BY <2>2, <4>2, <4>3, Zenon DEF IsTailOf, n
      <4> QED
        BY <4>1, <4>4
    <3> QED
      BY <2>1, <3>1 DEF SendInOrder
  <2>7. SplitInOrder' /\ stage' \in {"idle", "split", "send"} /\ offset' \in Nat
    BY <2>1 DEF SplitInOrder
  <2> QED
    BY <1>6, <1>7, <1>8, <2>1, <2>2, <2>4, <2>5, <2>6, <2>7, Zenon DEF Units, n, k
<1>9. CASE ~UnitEnds
  <2>1. nalus' = nalus /\ offset' = offset + Chunk
    BY <1>9, Zenon
  <2>2. ~Whole /\ ~IsLast
    BY <1>9, Zenon DEF UnitEnds
  <2>3. Chunk \in Nat /\ Chunk >= 1 /\ offset + Chunk <= Len(Nalu) /\ Len(Nalu) \in Nat
    BY <1>1, <1>2, <1>6, <1>7, <2>2, ChunkFits
  <2>4. offset + Chunk < Len(Nalu)
    BY <1>2, <2>2, <2>3 DEF IsLast
  <2>5. stage' = "send" /\ Nalu' = Nalu /\ (Whole' <=> Whole)
    <3>1. stage' = "send"
      BY <1>1, <2>1, Zenon
    <3>2. Nalu' = Nalu /\ (Whole' <=> Whole)
      BY <2>1, Zenon DEF Nalu, Whole
    <3> QED
      BY <3>1, <3>2, Zenon
  <2>6. offset' \in Nat /\ offset' > 1 /\ offset' < Len(Nalu)
    BY <1>2, <1>7, <2>1, <2>3, <2>4
  <2>7. Behind' = Behind
    BY <2>1, <2>5 DEF Behind
  <2>8. SendInOrder'
    BY <1>1, <2>1, <2>2, <2>5, <2>6 DEF SendInOrder
  <2>9. SplitInOrder' /\ stage' \in {"idle", "split", "send"}
    BY <2>5 DEF SplitInOrder
  <2> QED
    BY <1>2, <1>6, <1>7, <1>9, <2>1, <2>5, <2>6, <2>7, <2>8, <2>9, Zenon DEF Units, n
<1> QED
  BY <1>8, <1>9, Zenon

\* A packet the network loses: the player misses one number more.
LEMMA LostInv ==
    ASSUME Inv, SendRtp, IsLost
    PROVE  Inv'
<1>1. TypesHold /\ UnitsAreUnits /\ SplitInOrder /\ SendInOrder /\ NumbersAgree /\ PartIsPrefix
      /\ PlayerInOrder /\ PlayerComplete
  BY Zenon DEF Inv
<1>2. /\ stage = "send" /\ sequence' = NumberTaken
      /\ nalus' = IF UnitEnds THEN Tail(nalus) ELSE nalus
      /\ offset' = IF UnitEnds THEN 1 ELSE offset + Chunk
      /\ stage' = IF nalus' = <<>> THEN "idle" ELSE "send"
      /\ UNCHANGED <<data, pos, frame, sent, frames, refusals>>
  BY Zenon DEF SendRtp
<1>3. /\ losses' = losses + 1 /\ missing' = missing + 1
      /\ UNCHANGED <<player, blind, markers, cutVars>>
  BY Zenon DEF IsLost
<1>4. /\ nalus' \in Units /\ offset' \in Nat /\ stage' \in {"idle", "split", "send"}
      /\ SplitInOrder' /\ SendInOrder'
      /\ Behind' = IF UnitEnds THEN Behind + 1 ELSE Behind
  <2>1. UNCHANGED <<sent, frame>>
    BY <1>2, Zenon
  <2> QED
    BY <1>1, <1>2, <2>1, SenderMoves, Zenon
<1>5. missing \in Nat /\ losses \in Nat /\ Behind \in Nat
  BY <1>1, BehindType DEF TypesHold
<1>6. Behind' \in Nat /\ Behind <= Behind'
  BY <1>4, <1>5
<1>7. TypesHold'
  <2>1. losses' \in Nat /\ missing' \in Nat
    BY <1>3, <1>5
  <2>2. sequence' \in 0..(SeqLimit - 1)
    BY <1>1, <1>2, NumberGoesRound, Zenon DEF TypesHold
  <2> QED
    BY <1>1, <1>2, <1>3, <1>4, <2>1, <2>2, Zenon DEF TypesHold
<1>8. UnitsAreUnits'
  BY <1>1, <1>2, Zenon DEF UnitsAreUnits
<1>9. NumbersAgree'
  <2>1. sequence' = IF sequence + 1 < SeqLimit THEN sequence + 1 ELSE 0
    BY <1>1, <1>2, NumberGoesRound, Zenon DEF TypesHold
  <2>2. missing' = missing + 1 /\ player'.next = player.next
    BY <1>3, Zenon
  <2>3. sequence \in 0..(SeqLimit - 1) /\ player.next \in 0..(SeqLimit - 1)
        /\ SeqLimit \in Nat \ {0}
    BY <1>1, SenderBounds, Zenon DEF TypesHold
  <2>4. torn' = torn
    BY <1>3, Zenon DEF cutVars
  <2>5. SUFFICES ASSUME ~torn, missing' < SeqLimit
                 PROVE  sequence' = IF player.next + missing' < SeqLimit
                                      THEN player.next + missing'
                                      ELSE player.next + missing' - SeqLimit
    BY <2>2, <2>4, Zenon DEF NumbersAgree
  <2>6. missing < SeqLimit
    BY <1>5, <2>2, <2>3, <2>5
  <2>7. sequence = IF player.next + missing < SeqLimit
                     THEN player.next + missing
                     ELSE player.next + missing - SeqLimit
    BY <1>1, <2>5, <2>6, Zenon DEF NumbersAgree
  <2> QED
    BY <1>5, <2>1, <2>2, <2>3, <2>5, <2>6, <2>7
<1>10. PartIsPrefix' /\ PlayerComplete'
  <2>1. missing' # 0 /\ losses' # 0
    BY <1>3, <1>5
  <2> QED
    BY <2>1, Zenon DEF PartIsPrefix, PlayerComplete, Astray
<1>11. PlayerInOrder'
  <2>1. ASSUME ~Astray
        PROVE  player.units \in Units /\ IsAmong(player.units, sent, Behind')
    <3>1. player.units \in Units /\ IsAmong(player.units, sent, Behind)
      BY <1>1, <2>1, Zenon DEF PlayerInOrder, Astray
    <3>2. \A i \in 1..Behind : sent[i] = sent[i]
      OBVIOUS
    <3> QED
      BY <1>5, <1>6, <3>1, <3>2, AmongStays, Zenon
  <2> QED
    BY <1>2, <1>3, <2>1, Zenon DEF PlayerInOrder, Astray
<1> QED
  BY <1>4, <1>7, <1>8, <1>9, <1>10, <1>11, Zenon DEF Inv

\* A packet that arrives: the player drops what it holds when a number is missing, and
\* then adds what the packet completes.
LEMMA ArrivedInv ==
    ASSUME Inv, SendRtp, Arrives(Packet)
    PROVE  Inv'
<1> DEFINE new == Receive(player, Packet)
           n == Len(sent)
<1>1. TypesHold /\ UnitsAreUnits /\ SplitInOrder /\ SendInOrder /\ NumbersAgree /\ PartIsPrefix
      /\ PlayerInOrder /\ PlayerComplete
  BY Zenon DEF Inv
<1>2. /\ stage = "send" /\ sequence' = NumberTaken
      /\ nalus' = IF UnitEnds THEN Tail(nalus) ELSE nalus
      /\ offset' = IF UnitEnds THEN 1 ELSE offset + Chunk
      /\ stage' = IF nalus' = <<>> THEN "idle" ELSE "send"
      /\ UNCHANGED <<data, pos, frame, sent, frames, refusals>>
  BY Zenon DEF SendRtp
<1>3. /\ player' = new /\ blind' = (blind \/ missing >= SeqLimit) /\ missing' = 0
      /\ markers' = IF Packet.marker THEN markers + 1 ELSE markers
      /\ UNCHANGED <<losses, cutVars>>
  BY Zenon DEF Arrives
<1>4. /\ nalus' \in Units /\ offset' \in Nat /\ stage' \in {"idle", "split", "send"}
      /\ SplitInOrder' /\ SendInOrder'
      /\ IsUnit(Nalu) /\ Behind + 1 <= n /\ Nalu = sent[Behind + 1] /\ offset >= 1
      /\ Behind' = IF UnitEnds THEN Behind + 1 ELSE Behind
      /\ UnitEnds => offset' = 1 /\ (stage' = "idle" <=> Len(nalus) = 1)
      /\ ~UnitEnds => stage' = "send" /\ Nalu' = Nalu /\ offset' = offset + Chunk /\ offset' > 1
  <2>1. UNCHANGED <<sent, frame>>
    BY <1>2, Zenon
  <2> QED
    BY <1>1, <1>2, <2>1, SenderMoves, Zenon
<1>5. missing \in Nat /\ markers \in Nat /\ offset \in Nat /\ Behind \in Nat /\ n \in Nat
      /\ SeqLimit \in Nat \ {0} /\ sequence \in 0..(SeqLimit - 1)
      /\ player.next \in 0..(SeqLimit - 1)
  BY <1>1, BehindType, SenderBounds DEF TypesHold
<1>6. offset = 1 \/ (~Whole /\ offset > 1 /\ offset < Len(Nalu))
  BY <1>1, <1>2, Zenon DEF SendInOrder
<1>7. Packet.marker <=> UnitEnds /\ Len(nalus) = 1
  BY DEF Packet
<1> HIDE DEF n
\* What the player holds, as long as the numbers tell it what is missing.
<1>8. ~Astray' => ~Astray /\ ~torn /\ missing < SeqLimit
  <2>1. missing >= SeqLimit \/ missing < SeqLimit
    BY <1>5
  <2> QED
    BY <1>3, <2>1, Zenon DEF Astray
<1>9. ~Astray' /\ sequence = player.next => missing = 0
  BY <1>1, <1>5, <1>8 DEF NumbersAgree
<1>10. ~Astray' => Held = NoUnit \/ (offset > 1 /\ Held = SubSeq(Nalu, 1, offset))
  BY <1>1, <1>8, <1>9, Zenon DEF PartIsPrefix, Held
<1>11. ASSUME ~Astray'
       PROVE  /\ UnitEnds => new.part = NoUnit
              /\ UnitEnds => new.units = player.units \/ new.units = Append(player.units, Nalu)
              /\ ~UnitEnds => new.units = player.units
              /\ ~UnitEnds => new.part = NoUnit \/ new.part = SubSeq(Nalu, 1, offset + Chunk)
              /\ offset = 1 \/ Held # NoUnit =>
                   /\ UnitEnds => new.units = Append(player.units, Nalu)
                   /\ ~UnitEnds => new.part = SubSeq(Nalu, 1, offset + Chunk)
  BY <1>4, <1>5, <1>6, <1>10, <1>11, Reception, Zenon
<1>12. new.next = sequence'
  BY <1>2 DEF Receive, Packet, NumberTaken
<1>13. sequence' \in 0..(SeqLimit - 1)
  BY <1>2, <1>5, NumberGoesRound, Zenon
<1> HIDE DEF new
<1>14. Nalu \in Bytes
  BY <1>4, UnitTypes
<1>15. \A k \in 1..Behind : sent[k] = sent[k]
  OBVIOUS
<1>16. Behind' \in Nat /\ Behind <= Behind'
  BY <1>4, <1>5
<1>17. TypesHold'
  <2>1. markers' \in Nat /\ missing' \in Nat
    BY <1>3, <1>5
  <2>2. blind' \in BOOLEAN
    BY <1>3, Zenon
  <2>3. player'.next \in 0..(SeqLimit - 1)
    BY <1>3, <1>12, <1>13, Zenon
  <2> QED
    BY <1>1, <1>2, <1>3, <1>4, <1>13, <2>1, <2>2, <2>3, Zenon DEF TypesHold
<1>18. UnitsAreUnits'
  BY <1>1, <1>2, Zenon DEF UnitsAreUnits
<1>19. NumbersAgree'
  <2>1. missing' = 0 /\ player'.next = sequence'
    BY <1>3, <1>12, Zenon
  <2>2. \A q \in 0..(SeqLimit - 1) : q + 0 < SeqLimit /\ q + 0 = q
    BY SenderBounds
  <2>3. sequence' + 0 < SeqLimit /\ sequence' + 0 = sequence'
    BY <1>13, <2>2, Zenon
  <2> QED
    BY <2>1, <2>3, Zenon DEF NumbersAgree
<1>20. PartIsPrefix'
  <2>1. ASSUME ~Astray', new.part # NoUnit
        PROVE  stage' = "send" /\ offset' > 1 /\ new.part = SubSeq(Nalu', 1, offset')
    <3>1. ~UnitEnds
      BY <1>11, <2>1, Zenon
    <3>2. new.part = SubSeq(Nalu, 1, offset + Chunk)
      BY <1>11, <2>1, <3>1, Zenon
    <3> QED
      BY <1>4, <3>1, <3>2, Zenon
  <2> QED
    BY <1>3, <2>1, Zenon DEF PartIsPrefix, Astray
<1>21. PlayerInOrder'
  <2>1. ASSUME ~Astray'
        PROVE  new.units \in Units /\ IsAmong(new.units, sent, Behind')
    <3>1. player.units \in Units /\ IsAmong(player.units, sent, Behind)
      BY <1>1, <1>8, <2>1, Zenon DEF PlayerInOrder, Astray
    <3>2. CASE new.units = player.units
      BY <1>5, <1>15, <1>16, <3>1, <3>2, AmongStays, Zenon
    <3>3. CASE UnitEnds /\ new.units = Append(player.units, Nalu)
      <4>1. Behind' = Behind + 1
        BY <1>4, <3>3, Zenon
      <4>2. IsAmong(Append(player.units, Nalu), sent, Behind + 1)
        BY <1>4, <1>5, <1>14, <3>1, AmongGrows, Zenon
      <4>3. player.units \in Seq(Bytes)
        BY <3>1, Zenon DEF Units
      <4>4. Append(player.units, Nalu) \in Seq(Bytes)
        BY <1>14, <4>3, AppendProperties, Zenon
      <4> QED
        BY <3>3, <4>1, <4>2, <4>4, Zenon DEF Units
    <3> QED
      BY <1>11, <2>1, <3>2, <3>3, Zenon
  <2> QED
    BY <1>2, <1>3, <2>1, Zenon DEF PlayerInOrder, Astray
<1>22. PlayerComplete'
  <2> SUFFICES ASSUME losses = 0, refusals = 0
               PROVE  PlayerComplete'
    BY <1>2, <1>3, Zenon DEF PlayerComplete, Astray
  <2>1. /\ missing = 0 /\ ~Astray /\ Len(player.units) = Behind
        /\ (\A i \in 1..Behind : player.units[i] = sent[i])
        /\ (offset > 1 => player.part = SubSeq(Nalu, 1, offset))
        /\ frames = markers + 1
    BY <1>1, <1>2 DEF PlayerComplete, Astray
  <2>2. ~Astray' /\ sequence = player.next
    <3>1. ~(missing >= SeqLimit) /\ missing < SeqLimit /\ player.next + 0 < SeqLimit
          /\ player.next + 0 = player.next
      BY <1>5, <2>1
    <3>2. sequence = player.next
      BY <1>1, <2>1, <3>1, Zenon DEF NumbersAgree, Astray
    <3> QED
      BY <1>3, <2>1, <3>1, <3>2, Zenon DEF Astray
  <2>3. offset = 1 \/ Held # NoUnit
    <3>1. CASE offset = 1
      BY <3>1
    <3>2. CASE ~Whole /\ offset > 1 /\ offset < Len(Nalu)
      <4>1. Held = SubSeq(Nalu, 1, offset)
        BY <2>1, <2>2, <3>2, Zenon DEF Held
      <4>2. Len(Nalu) \in Nat
        BY <1>4, UnitTypes
      <4>3. offset <= Len(Nalu)
        BY <1>5, <3>2, <4>2
      <4>4. SubSeq(Nalu, 1, offset) # NoUnit
        BY <1>4, <1>5, <1>14, <4>3, PrefixNotEmpty
      <4> QED
        BY <4>1, <4>4, Zenon
    <3> QED
      BY <1>6, <3>1, <3>2, Zenon
  <2>4. player.units \in Seq(Bytes)
    BY <1>1, <2>1, Zenon DEF PlayerInOrder, Units
  <2>5. CASE UnitEnds
    <3>1. new.units = Append(player.units, Nalu) /\ Behind' = Behind + 1 /\ offset' = 1
      BY <1>4, <1>11, <2>2, <2>3, <2>5, Zenon
    <3>2. /\ Len(new.units) = Len(player.units) + 1
          /\ (\A i \in 1..Len(player.units) : new.units[i] = player.units[i])
          /\ new.units[Len(player.units) + 1] = Nalu
      <4>1. /\ Len(Append(player.units, Nalu)) = Len(player.units) + 1
            /\ \A i \in 1..Len(player.units) : Append(player.units, Nalu)[i] = player.units[i]
            /\ Append(player.units, Nalu)[Len(player.units) + 1] = Nalu
        BY <1>14, <2>4, AppendProperties
      <4> QED
        BY <3>1, <4>1, Zenon
    <3>3. Len(new.units) = Behind' /\ new.units[Behind + 1] = sent[Behind + 1]
          /\ (\A i \in 1..Behind : new.units[i] = sent[i])
      BY <1>4, <2>1, <3>1, <3>2, Zenon
    <3>4. \A i \in 1..(Behind + 1) : i \in 1..Behind \/ i = Behind + 1
      BY <1>5
    <3>5. \A i \in 1..Behind' : new.units[i] = sent[i]
      BY <3>1, <3>3, <3>4, Zenon
    <3>6. frames' = IF stage' = "idle" THEN markers' ELSE markers' + 1
      BY <1>2, <1>3, <1>4, <1>5, <1>7, <2>1, <2>5
    <3>7. ~(offset' > 1)
      BY <3>1
    <3> QED
      BY <1>2, <1>3, <2>2, <3>3, <3>5, <3>6, <3>7, Zenon DEF PlayerComplete, Astray
  <2>6. CASE ~UnitEnds
    <3>1. /\ new.units = player.units /\ new.part = SubSeq(Nalu, 1, offset + Chunk)
          /\ Behind' = Behind /\ stage' = "send" /\ Nalu' = Nalu /\ offset' = offset + Chunk
      BY <1>4, <1>11, <2>2, <2>3, <2>6, Zenon
    <3>2. frames' = markers' + 1 /\ stage' # "idle"
      BY <1>2, <1>3, <1>7, <2>1, <2>6, <3>1
    <3>3. new.part = SubSeq(Nalu', 1, offset')
      BY <3>1, Zenon
    <3> QED
      BY <1>2, <1>3, <2>1, <2>2, <3>1, <3>2, <3>3, Zenon DEF PlayerComplete, Astray
  <2> QED
    BY <2>5, <2>6, Zenon
<1> QED
  BY <1>4, <1>17, <1>18, <1>19, <1>20, <1>21, <1>22, Zenon DEF Inv

-----------------------------------------------------------------------------
(* A torn packet *)

\* Once a packet was torn, nothing is said of the player but the type of its number.
LEMMA TornInv ==
    ASSUME torn', losses' # 0 \/ refusals' # 0,
           TypesHold', UnitsAreUnits', SplitInOrder', SendInOrder'
    PROVE  Inv'
BY Zenon DEF Inv, NumbersAgree, PartIsPrefix, PlayerInOrder, PlayerComplete, Astray

\* A torn packet was counted as refused.
LEMMA TornIsRefused ==
    ASSUME Inv, torn
    PROVE  losses # 0 \/ refusals # 0
BY Zenon DEF Inv, PlayerComplete, Astray

\* Whatever fills a torn packet up, the player's number stays one.
LEMMA FilledTypes ==
    ASSUME TypesHold, FillsCut
    PROVE  /\ player'.next \in 0..(SeqLimit - 1) /\ cut'.seq \in 0..(SeqLimit - 1)
           /\ cut' # NoPacket => cut # NoPacket
<1>1. /\ cut.seq \in 0..(SeqLimit - 1) /\ player.next \in 0..(SeqLimit - 1)
      /\ SeqLimit \in Nat \ {0}
  BY SenderBounds DEF TypesHold
<1>2. CASE player' = Receive(player, Completed) /\ cut' = NoPacket
  <2>1. player'.next = (cut.seq + 1) % SeqLimit
    BY <1>2 DEF Receive, Completed
  <2>2. (cut.seq + 1) % SeqLimit \in 0..(SeqLimit - 1)
    BY <1>1
  <2>3. cut'.seq = 0
    BY <1>2 DEF NoPacket
  <2>4. 0 \in 0..(SeqLimit - 1)
    BY <1>1
  <2> QED
    BY <1>2, <2>1, <2>2, <2>3, <2>4, Zenon
<1>3. CASE UNCHANGED <<player, cut>>
  BY <1>1, <1>3
<1> QED
  BY <1>2, <1>3, Zenon DEF FillsCut

\* A reply is read as one, unless it fills a torn packet up.
LEMMA RepliesInv ==
    ASSUME Inv, Replies,
           UNCHANGED <<splitVars, sequence, loopVars, encoderVars, refusals>>
    PROVE  Inv'
<1>1. TypesHold /\ UnitsAreUnits /\ SplitInOrder /\ SendInOrder
  BY Zenon DEF Inv
<1>2. UNCHANGED <<countVars, torn>>
  BY Zenon DEF Replies
<1>3. CASE cut = NoPacket
  <2>1. UNCHANGED <<player, cut>>
    BY <1>3, Zenon DEF Replies
  <2>2. UNCHANGED <<splitVars, sequence, loopVars, netVars, encoderVars, refusals>>
    BY <1>2, <2>1, Zenon
  <2> QED
    BY <2>2, NothingMoves, Zenon
<1>4. CASE cut # NoPacket
  <2>1. FillsCut
    BY <1>4, Zenon DEF Replies
  <2>2. torn /\ torn'
    BY <1>1, <1>2, <1>4, Zenon DEF TypesHold
  <2>3. TypesHold'
    BY <1>1, <1>2, <2>1, <2>2, FilledTypes, Zenon DEF TypesHold
  <2>4. UnitsAreUnits' /\ SplitInOrder' /\ SendInOrder'
    BY <1>1, Zenon DEF UnitsAreUnits, SplitInOrder, SendInOrder, Whole, Nalu
  <2>5. losses' # 0 \/ refusals' # 0
    BY <1>2, <2>2, TornIsRefused, Zenon
  <2> QED
    BY <2>2, <2>3, <2>4, <2>5, TornInv, Zenon
<1> QED
  BY <1>3, <1>4, Zenon

\* A packet that goes out inside a torn one.
LEMMA SwallowedInv ==
    ASSUME Inv, SendRtp, IsSwallowed
    PROVE  Inv'
<1>1. TypesHold /\ UnitsAreUnits /\ SplitInOrder /\ SendInOrder
  BY Zenon DEF Inv
<1>2. /\ stage = "send" /\ sequence' = NumberTaken
      /\ nalus' = IF UnitEnds THEN Tail(nalus) ELSE nalus
      /\ offset' = IF UnitEnds THEN 1 ELSE offset + Chunk
      /\ stage' = IF nalus' = <<>> THEN "idle" ELSE "send"
      /\ UNCHANGED <<data, pos, frame, sent, frames, refusals>>
  BY Zenon DEF SendRtp
<1>3. cut # NoPacket /\ FillsCut /\ UNCHANGED <<countVars, torn>>
  BY Zenon DEF IsSwallowed
<1>4. torn /\ torn'
  BY <1>1, <1>3, Zenon DEF TypesHold
<1>5. /\ nalus' \in Units /\ offset' \in Nat /\ stage' \in {"idle", "split", "send"}
      /\ SplitInOrder' /\ SendInOrder'
  <2>1. UNCHANGED <<sent, frame>>
    BY <1>2, Zenon
  <2> QED
    BY <1>1, <1>2, <2>1, SenderMoves, Zenon
<1>6. sequence' \in 0..(SeqLimit - 1)
  BY <1>1, <1>2, NumberGoesRound, Zenon DEF TypesHold
<1>7. TypesHold'
  BY <1>1, <1>2, <1>3, <1>4, <1>5, <1>6, FilledTypes, Zenon DEF TypesHold
<1>8. UnitsAreUnits'
  BY <1>1, <1>2, Zenon DEF UnitsAreUnits
<1>9. losses' # 0 \/ refusals' # 0
  BY <1>2, <1>3, <1>4, TornIsRefused, Zenon
<1> QED
  BY <1>4, <1>5, <1>7, <1>8, <1>9, TornInv, Zenon

\* A packet of which TCP takes a part ends the frame like one that is refused.
LEMMA TearsInv ==
    ASSUME Inv, SendRtpTears
    PROVE  Inv'
<1>1. TypesHold /\ UnitsAreUnits /\ SplitInOrder /\ SendInOrder
  BY Zenon DEF Inv
<1>2. /\ stage = "send" /\ sequence' = NumberTaken /\ nalus' = <<>> /\ offset' = 1
      /\ stage' = "idle" /\ refusals' = refusals + 1 /\ missing' = missing + 1
      /\ UNCHANGED <<data, pos, player, blind, losses, markers, frame, sent, frames>>
  BY Zenon DEF SendRtpTears, GivesUpFrame
<1>3. torn' /\ cut'.seq = sequence
  BY DEF SendRtpTears
<1>4. missing \in Nat /\ refusals \in Nat
  BY <1>1, Zenon DEF TypesHold
<1>5. refusals' \in Nat /\ missing' \in Nat /\ refusals' # 0 /\ offset' \in Nat
      /\ stage' \in {"idle", "split", "send"}
  BY <1>2, <1>4
<1>6. nalus' \in Units
  BY <1>2, EmptySeq DEF Units
<1>7. sequence' \in 0..(SeqLimit - 1)
  BY <1>1, <1>2, NumberGoesRound, Zenon DEF TypesHold
<1>8. TypesHold'
  BY <1>1, <1>2, <1>3, <1>5, <1>6, <1>7, Zenon DEF TypesHold
<1>9. UnitsAreUnits'
  BY <1>1, <1>2, Zenon DEF UnitsAreUnits
<1>10. SplitInOrder' /\ SendInOrder'
  BY <1>2 DEF SplitInOrder, SendInOrder
<1> QED
  BY <1>3, <1>5, <1>8, <1>9, <1>10, TornInv, Zenon

-----------------------------------------------------------------------------
(* The theorems *)

\* Every step keeps the invariant.
LEMMA NextInv == Inv /\ [Next]_vars => Inv'
<1> SUFFICES ASSUME Inv, [Next]_vars PROVE Inv'
  OBVIOUS
<1>1. CASE Play \/ Setup
  BY <1>1, RepliesInv, Zenon DEF Play, Setup
<1>2. ASSUME NEW f \in Frames, Broadcast(f) PROVE Inv'
  BY <1>2, BroadcastInv, Zenon
<1>3. CASE Splits
  BY <1>3, SplitsInv, Zenon
<1>4. CASE SplitEnds
  BY <1>4, SplitEndsInv, Zenon
<1>5. CASE SendRtp
  <2>1. Arrives(Packet) \/ IsLost \/ IsSwallowed
    BY <1>5, Zenon DEF SendRtp
  <2> QED
    BY <1>5, <2>1, ArrivedInv, LostInv, SwallowedInv, Zenon
<1>6. CASE SendRtpFails \/ SendRtpTears
  BY <1>6, FailsInv, TearsInv, Zenon
<1>7. CASE UNCHANGED vars
  <2>1. UNCHANGED <<splitVars, sequence, loopVars, netVars, encoderVars, refusals>>
    BY <1>7, Zenon
  <2> QED
    BY <2>1, NothingMoves, Zenon
<1> QED
  BY <1>1, <1>2, <1>3, <1>4, <1>5, <1>6, <1>7, Zenon DEF Next

\* The invariant holds for every set of frames, length of a packet, range of the numbers,
\* and number of frames and losses: the splitter has the first units of the frame, the
\* sender the last ones that still have to go out, the client's number is as far ahead of
\* the player's as packets are missing, and what the player holds of a unit went out of it.
THEOREM RtpInvariance == Spec => []Inv
<1>1. Init => Inv
  BY InitInv
<1>2. Inv /\ [Next]_vars => Inv'
  BY NextInv
<1> QED
  BY <1>1, <1>2, PTL DEF Spec

\* The units among the first of a list are a subsequence of the list.
LEMMA AmongIsSubsequence ==
    ASSUME NEW some \in Units, NEW whole \in Units, NEW n \in Nat, n <= Len(whole),
           IsAmong(some, whole, n)
    PROVE  IsSubsequence(some, whole)
<1>1. DOMAIN some = 1..Len(some) /\ DOMAIN whole = 1..Len(whole) /\ Len(whole) \in Nat
  BY LenProperties DEF Units
<1>2. n <= Len(whole) /\ \A k \in 1..n : whole[k] = whole[k]
  OBVIOUS
<1>3. IsAmong(some, whole, Len(whole))
  BY <1>1, <1>2, AmongStays, Zenon
<1> QED
  BY <1>1, <1>3, Zenon DEF IsAmong, IsSubsequence

\* ReceiverRebuildsUnits: the player never puts together a unit the encoder did not
\* produce, nor one out of order, wherever UDP loses packets or a socket refuses them whole,
\* and without losses it has all of them.  (Nothing is said of a player whose TCP stream
\* was torn inside a packet.)
THEOREM UnitsRebuilt == Spec => []ReceiverRebuildsUnits
<1>1. ASSUME Inv PROVE ReceiverRebuildsUnits
  <2>1. TypesHold /\ SplitInOrder /\ SendInOrder /\ PlayerInOrder /\ PlayerComplete
    BY <1>1, Zenon DEF Inv
  <2>2. Behind \in Nat /\ Behind <= Len(sent) /\ sent \in Units
    BY <2>1, BehindType, Zenon DEF TypesHold
  <2>3. ~Astray => IsSubsequence(player.units, sent)
    BY <2>1, <2>2, AmongIsSubsequence, Zenon DEF PlayerInOrder, Astray
  <2>4. ASSUME losses = 0, refusals = 0, stage = "idle"
        PROVE  player.units = sent /\ markers = frames
    <3>1. Behind = Len(sent)
      BY <2>4 DEF Behind
    <3>2. /\ ~Astray /\ Len(player.units) = Behind
          /\ (\A i \in 1..Behind : player.units[i] = sent[i])
          /\ frames = markers
      BY <2>1, <2>4, Zenon DEF PlayerComplete, Astray
    <3>3. player.units \in Seq(Bytes) /\ sent \in Seq(Bytes)
      BY <2>1, <2>2, <3>2, Zenon DEF PlayerInOrder, Units
    <3>4. player.units = sent
      BY <3>1, <3>2, <3>3, SeqEqual, Zenon
    <3> QED
      BY <3>2, <3>4, Zenon
  <2> QED
    BY <2>3, <2>4, Zenon DEF ReceiverRebuildsUnits, Astray
<1> QED
  BY <1>1, RtpInvariance, PTL

\* SplitAnnexBNalus finds exactly the units of the frame, in order, whether their start
\* codes have three bytes or four, whenever BroadcastFrame takes its list over.
THEOREM SplitFindsUnits == Spec => [][SplitEnds => nalus = frame.units]_vars
<1>1. Inv /\ [Next]_vars => [SplitEnds => nalus = frame.units]_vars
  BY SplitEndsInv, Zenon
<1> QED
  BY <1>1, RtpInvariance, PTL DEF Spec

\* A round of the splitter ends behind the start code and the unit it cut out.
LEMMA SplitsAdvance ==
    ASSUME Inv, Splits
    PROVE  pos' > pos /\ pos' <= Len(data) + 1
<1> DEFINE i == Len(nalus) + 1
           a == frame.codes[i]
           b == frame.codes[i + 1]
           c == UnitStart(frame, i)
           k == Len(frame.units)
           l == Len(frame.bytes)
<1>1. TypesHold /\ SplitInOrder /\ SendInOrder
  BY Zenon DEF Inv
<1>2. frame \in Frames /\ i \in 1..k /\ pos = a /\ pos' = b
  BY <1>1, SplitsFinds, Zenon
<1>3. data = frame.bytes
  BY <1>1, Zenon DEF SplitInOrder, Splits
<1>4. i \in 1..(k + 1) /\ i + 1 \in 1..(k + 1)
  BY <1>2, FrameTypes
<1>5. a \in Nat /\ b \in Nat /\ b <= l + 1 /\ l \in Nat
  BY <1>2, <1>4, FrameTypes
<1>6. c \in Nat /\ (c = a + 3 \/ c = a + 4)
  BY <1>2, UnitLies, Zenon
<1>7. b > c
  BY <1>2, UnitCut, Zenon
<1> HIDE DEF a, b, c, l
<1>8. b > a /\ b <= l + 1
  BY <1>5, <1>6, <1>7
<1> QED
  BY <1>2, <1>3, <1>8, Zenon DEF l

\* A packet takes a unit off the list, or goes on in the unit.
LEMMA SendAdvances ==
    ASSUME Inv, SendRtp
    PROVE  \/ Len(nalus') < Len(nalus)
           \/ nalus' = nalus /\ offset' > offset /\ offset' < Len(Nalu)
<1>1. TypesHold /\ UnitsAreUnits /\ SplitInOrder /\ SendInOrder
  BY Zenon DEF Inv
<1>2. /\ stage = "send"
      /\ nalus' = IF UnitEnds THEN Tail(nalus) ELSE nalus
      /\ offset' = IF UnitEnds THEN 1 ELSE offset + Chunk
      /\ stage' = IF nalus' = <<>> THEN "idle" ELSE "send"
      /\ UNCHANGED <<sent, frame>>
  BY Zenon DEF SendRtp
<1>3. /\ IsUnit(Nalu) /\ offset >= 1 /\ SendInOrder'
      /\ ~UnitEnds => stage' = "send" /\ Nalu' = Nalu /\ offset' = offset + Chunk /\ offset' > 1
  BY <1>1, <1>2, SenderMoves, Zenon
<1>4. nalus \in Seq(Bytes) /\ nalus # <<>> /\ offset \in Nat
      /\ (offset = 1 \/ (~Whole /\ offset > 1 /\ offset < Len(Nalu)))
  BY <1>1, <1>2, Zenon DEF TypesHold, Units, SendInOrder
<1>5. CASE UnitEnds
  <2>1. nalus' = Tail(nalus)
    BY <1>2, <1>5, Zenon
  <2>2. Len(Tail(nalus)) = Len(nalus) - 1 /\ Len(nalus) \in Nat
    BY <1>4, HeadTailProperties, LenProperties
  <2> QED
    BY <2>1, <2>2
<1>6. CASE ~UnitEnds
  <2>1. nalus' = nalus /\ offset' = offset + Chunk /\ ~Whole /\ ~IsLast
    BY <1>2, <1>6, Zenon DEF UnitEnds
  <2>2. Chunk \in Nat /\ Chunk >= 1 /\ offset + Chunk <= Len(Nalu) /\ Len(Nalu) \in Nat
    BY <1>3, <1>4, <2>1, ChunkFits, Zenon
  <2>3. offset + Chunk # Len(Nalu)
    BY <2>1, Zenon DEF IsLast
  <2>4. offset + Chunk > offset /\ offset + Chunk < Len(Nalu)
    BY <1>4, <2>2, <2>3
  <2> QED
    BY <2>1, <2>4, Zenon
<1> QED
  BY <1>5, <1>6, Zenon

\* Every round brings a loop nearer its end, whatever the frame: the splitter moves on in
\* the bytes and stays in them; a packet leaves fewer units, or less of the same unit.
LoopsAdvance ==
    /\ [][Splits => pos' > pos /\ pos' <= Len(data) + 1]_vars
    /\ [][SendRtp => Len(nalus') < Len(nalus)
                     \/ (nalus' = nalus /\ offset' > offset /\ offset' < Len(Nalu))]_vars

\* Neither the loop of SplitAnnexBNalus nor those of SendNalu and BroadcastFrame can run for
\* ever, so that the server's only thread comes back from a frame whatever its size is.
THEOREM LoopsEnd == Spec => LoopsAdvance
<1> DEFINE Splitter == Splits => pos' > pos /\ pos' <= Len(data) + 1
           Sender == SendRtp => Len(nalus') < Len(nalus)
                                \/ (nalus' = nalus /\ offset' > offset /\ offset' < Len(Nalu))
<1>1. Inv /\ [Next]_vars => [Splitter]_vars /\ [Sender]_vars
  <2>1. Inv => Splitter
    BY SplitsAdvance, Zenon
  <2>2. Inv => Sender
    BY SendAdvances, Zenon
  <2> QED
    BY <2>1, <2>2
<1> QED
  BY <1>1, RtpInvariance, PTL DEF Spec, LoopsAdvance

================================================================================
