--------------------------- MODULE RtspServerProofs ---------------------------
(***************************************************************************)
(* Proofs about the RTSP server for every set of peers, every limit of     *)
(* clients and of queued frames, and every number of sessions and frames.  *)
(*                                                                         *)
(* RtspInv is inductive.  Owned says which descriptor belongs to whom, and *)
(* with it that one is free whenever the server asks for one; Phases and   *)
(* Places go with the controller and with the round of the server thread;  *)
(* Order, Keys and Sessions tell what the queue may hold.                  *)
(***************************************************************************)
EXTENDS RtspServer, SequenceTheorems, FiniteSetTheorems, WellFoundedInduction, TLAPS

USE DEF lifeVars, roundVars, startVars, sendVars, clientVars, queueVars, pushVars, streamVars

-----------------------------------------------------------------------------
(* Lemmas about the descriptors. *)

\* The order of the natural numbers is a well-founded relation.
LEMMA LessIsWellFounded ==
    \E R : IsWellFoundedOn(R, Nat) /\ \A x, y \in Nat : <<x, y>> \in R <=> x < y
<1>1. IsWellFoundedOn(OpToRel(<, Nat), Nat)
  BY NatLessThanWellFounded
<1>2. \A x, y \in Nat : <<x, y>> \in OpToRel(<, Nat) <=> x < y
  BY DEF OpToRel
<1> QED
  BY <1>1, <1>2, Zenon

\* A set of numbers that is not empty has a least one.
LEMMA LeastOf ==
    ASSUME NEW S, S \subseteq Nat, S # {}
    PROVE  Min(S) \in S /\ \A y \in S : Min(S) <= y
<1>1. PICK R : IsWellFoundedOn(R, Nat) /\ \A x, y \in Nat : <<x, y>> \in R <=> x < y
  BY LessIsWellFounded, Zenon
<1>2. IsWellFoundedOn(R, Nat)
  BY <1>1, Zenon
<1>3. PICK x \in S : \A y \in S : ~(<<y, x>> \in R)
  BY <1>2, WFMin, Zenon
<1>4. x \in Nat
  OBVIOUS
<1>5. ASSUME NEW y \in S
      PROVE  x <= y
  <2>1. y \in Nat
    OBVIOUS
  <2>2. ~(y < x)
    BY <1>1, <1>3, <1>4, <2>1, Zenon
  <2> QED
    BY <1>4, <2>1, <2>2
<1> QED
  BY <1>3, <1>5 DEF Min

ClientType ==
    [rtsp : Fds \cup {0}, udp : Fds \cup {0}, playing : BOOLEAN, tcp : BOOLEAN, last : Nat]

\* The clients c and the listening socket l own the open descriptors o, each in one role.
Owned(c, l, o) ==
    /\ \A p \in Peers :
         /\ c[p].rtsp = 0 => c[p] = NoClient
         /\ c[p].rtsp # 0 => c[p].rtsp \in o /\ c[p].rtsp # l /\ c[p].rtsp # c[p].udp
         /\ c[p].udp # 0 => c[p].udp \in o /\ c[p].udp # l
    /\ \A p, q \in Peers : \A x \in {c[p].rtsp, c[p].udp}, y \in {c[q].rtsp, c[q].udp} :
         x = y /\ x # 0 => p = q
    /\ l # 0 => l \in o
    /\ \A x \in o : x = l \/ \E p \in Peers : x \in {c[p].rtsp, c[p].udp}

SlotsOf(c) == {h \in Peers \X {"rtsp", "udp"} : c[h[1]][h[2]] # 0}
ConnectedIn(c) == {p \in Peers : c[p].rtsp # 0}

\* The open descriptors are as many as those that somebody owns.
LEMMA SlotsCounted ==
    ASSUME NEW c \in [Peers -> ClientType], NEW l \in Fds \cup {0}, NEW o \in SUBSET Fds,
           Owned(c, l, o)
    PROVE  /\ o = ({l} \ {0}) \cup {c[h[1]][h[2]] : h \in SlotsOf(c)}
           /\ IsFiniteSet(o) /\ IsFiniteSet(SlotsOf(c))
           /\ Cardinality(o) = Cardinality(SlotsOf(c)) + (IF l = 0 THEN 0 ELSE 1)
<1> DEFINE f == [h \in SlotsOf(c) |-> c[h[1]][h[2]]]
           B == o \ {l}
<1>1. IsFiniteSet(o) /\ IsFiniteSet(B)
  <2>1. IsFiniteSet(Fds)
    BY FS_Interval, RtspAssumption DEF Fds
  <2> QED
    BY <2>1, FS_Subset
<1>2. 0 \notin Fds
  BY RtspAssumption DEF Fds
<1>3. \A h \in SlotsOf(c) : /\ h[1] \in Peers /\ h[2] \in {"rtsp", "udp"}
                            /\ h = <<h[1], h[2]>> /\ c[h[1]][h[2]] # 0
  BY DEF SlotsOf
<1>4. \A h \in SlotsOf(c) : f[h] \in B
  <2> TAKE h \in SlotsOf(c)
  <2>1. CASE h[2] = "rtsp"
    BY <1>3, <2>1 DEF Owned
  <2>2. CASE h[2] = "udp"
    BY <1>3, <2>2 DEF Owned
  <2> QED
    BY <1>3, <2>1, <2>2
<1>5. \A g, h \in SlotsOf(c) : f[g] = f[h] => g = h
  <2> TAKE g, h \in SlotsOf(c)
  <2> HAVE f[g] = f[h]
  <2>1. g[1] = h[1]
    <3>1. /\ c[g[1]][g[2]] \in {c[g[1]].rtsp, c[g[1]].udp}
          /\ c[h[1]][h[2]] \in {c[h[1]].rtsp, c[h[1]].udp}
      BY <1>3
    <3> QED
      BY <1>3, <3>1 DEF Owned
  <2>2. g[2] = h[2]
    <3>1. c[g[1]].rtsp # 0 => c[g[1]].rtsp # c[g[1]].udp
      BY <1>3 DEF Owned
    <3> QED
      BY <1>3, <2>1, <3>1
  <2> QED
    BY <1>3, <2>1, <2>2
<1>6. \A x \in B : \E h \in SlotsOf(c) : f[h] = x
  <2> TAKE x \in B
  <2>1. PICK p \in Peers : x \in {c[p].rtsp, c[p].udp}
    BY DEF Owned
  <2>2. x # 0
    BY <1>2
  <2>3. CASE x = c[p].rtsp
    <3>1. <<p, "rtsp">> \in SlotsOf(c) /\ f[<<p, "rtsp">>] = x
      BY <2>2, <2>3 DEF SlotsOf
    <3> QED
      BY <3>1
  <2>4. CASE x = c[p].udp
    <3>1. <<p, "udp">> \in SlotsOf(c) /\ f[<<p, "udp">>] = x
      BY <2>2, <2>4 DEF SlotsOf
    <3> QED
      BY <3>1
  <2> QED
    BY <2>1, <2>3, <2>4
<1>7. f \in Injection(SlotsOf(c), B) /\ f \in Surjection(SlotsOf(c), B)
  BY <1>4, <1>5, <1>6 DEF Injection, Surjection, IsInjective
<1>8. IsFiniteSet(SlotsOf(c)) /\ Cardinality(SlotsOf(c)) = Cardinality(B)
  BY <1>1, <1>7, FS_Injection
<1>9. Cardinality(o) = Cardinality(B) + (IF l = 0 THEN 0 ELSE 1)
  <2>1. Cardinality(B) = IF l \in o THEN Cardinality(o) - 1 ELSE Cardinality(o)
    BY <1>1, FS_RemoveElement
  <2>2. l \in o <=> l # 0
    BY <1>2 DEF Owned
  <2>3. Cardinality(o) \in Nat /\ Cardinality(B) \in Nat
    BY <1>1, FS_CardinalityType
  <2> QED
    BY <2>1, <2>2, <2>3
<1>10. o = ({l} \ {0}) \cup {c[h[1]][h[2]] : h \in SlotsOf(c)}
  <2>1. B = {c[h[1]][h[2]] : h \in SlotsOf(c)}
    BY <1>4, <1>6
  <2>2. o = B \cup ({l} \ {0})
    BY <1>2 DEF Owned
  <2> QED
    BY <2>1, <2>2
<1> QED
  BY <1>1, <1>8, <1>9, <1>10

\* There are no more slots in use than two for each client.
LEMMA TwoSlotsEach ==
    ASSUME NEW c \in [Peers -> ClientType], NEW l \in Fds \cup {0}, NEW o \in SUBSET Fds,
           Owned(c, l, o)
    PROVE  /\ IsFiniteSet(ConnectedIn(c)) /\ Cardinality(ConnectedIn(c)) \in Nat
           /\ Cardinality(SlotsOf(c)) \in Nat
           /\ Cardinality(SlotsOf(c)) <= 2 * Cardinality(ConnectedIn(c))
           /\ (\E p \in ConnectedIn(c) : c[p].udp = 0)
                => Cardinality(SlotsOf(c)) < 2 * Cardinality(ConnectedIn(c))
<1> DEFINE N == ConnectedIn(c)
           R == {"rtsp", "udp"}
<1>1. IsFiniteSet(o) /\ IsFiniteSet(SlotsOf(c))
  BY SlotsCounted
<1>2. IsFiniteSet(N)
  <2> DEFINE g == [p \in N |-> c[p].rtsp]
  <2>1. \A p \in N : p \in Peers /\ c[p].rtsp # 0 /\ c[p].rtsp \in o
    BY DEF ConnectedIn, Owned
  <2>2. \A p, q \in N : c[p].rtsp = c[q].rtsp => p = q
    BY <2>1 DEF Owned
  <2>3. g \in Injection(N, o)
    BY <2>1, <2>2 DEF Injection, IsInjective
  <2> QED
    BY <1>1, <2>3, FS_Injection
<1>3. IsFiniteSet(R) /\ Cardinality(R) = 2
  <2>1. R = {"rtsp"} \cup {"udp"} /\ "udp" \notin {"rtsp"}
    OBVIOUS
  <2>2. IsFiniteSet({"rtsp"}) /\ Cardinality({"rtsp"}) = 1
    BY FS_Singleton
  <2> QED
    BY <2>1, <2>2, FS_AddElement
<1>4. IsFiniteSet(N \X R) /\ Cardinality(N \X R) = 2 * Cardinality(N) /\ Cardinality(N) \in Nat
  <2>1. IsFiniteSet(N \X R) /\ Cardinality(N \X R) = Cardinality(N) * 2
    BY <1>2, <1>3, FS_Product
  <2>2. Cardinality(N) \in Nat
    BY <1>2, FS_CardinalityType
  <2> QED
    BY <2>1, <2>2
<1>5. SlotsOf(c) \subseteq N \X R
  <2> SUFFICES ASSUME NEW p \in Peers, NEW r \in R, c[p][r] # 0
               PROVE  p \in N
    BY DEF SlotsOf
  <2>1. c[p].rtsp = 0 => c[p] = NoClient
    BY DEF Owned
  <2> QED
    BY <2>1 DEF ConnectedIn, NoClient
<1>6. Cardinality(SlotsOf(c)) <= 2 * Cardinality(N) /\ Cardinality(SlotsOf(c)) \in Nat
  BY <1>1, <1>4, <1>5, FS_Subset, FS_CardinalityType
<1>7. ASSUME NEW p \in N, c[p].udp = 0
      PROVE  Cardinality(SlotsOf(c)) # 2 * Cardinality(N)
  <2>1. <<p, "udp">> \in N \X R /\ <<p, "udp">> \notin SlotsOf(c)
    BY <1>7 DEF SlotsOf
  <2> QED
    BY <1>4, <1>5, <2>1, FS_Subset
<1> QED
  BY <1>2, <1>4, <1>6, <1>7

\* While a client is missing, or one has no UDP socket, there is a descriptor left.
LEMMA OneIsFree ==
    ASSUME NEW c \in [Peers -> ClientType], NEW l \in Fds \cup {0}, NEW o \in SUBSET Fds,
           Owned(c, l, o), Cardinality(ConnectedIn(c)) <= kMaxClients,
           \/ Cardinality(ConnectedIn(c)) < kMaxClients
           \/ \E p \in ConnectedIn(c) : c[p].udp = 0
    PROVE  NewFd(o) \in Fds /\ NewFd(o) \notin o
<1>1. Cardinality(o) <= 2 * kMaxClients /\ Cardinality(o) \in Nat
  BY SlotsCounted, TwoSlotsEach, FS_CardinalityType, RtspAssumption
<1>2. Cardinality(Fds) = 1 + 2 * kMaxClients /\ IsFiniteSet(Fds) /\ Fds \subseteq Nat
  <2> DEFINE b == 1 + 2 * kMaxClients
  <2>1. b \in Nat /\ b >= 1
    BY RtspAssumption
  <2>2. Fds = 1..b
    BY DEF Fds
  <2> HIDE DEF b
  <2>3. IsFiniteSet(1..b) /\ Cardinality(1..b) = IF 1 > b THEN 0 ELSE b - 1 + 1
    BY <2>1, FS_Interval
  <2>4. Cardinality(Fds) = b
    BY <2>1, <2>2, <2>3
  <2>5. 1..b \subseteq Nat
    BY <2>1
  <2> QED
    BY <2>2, <2>3, <2>4, <2>5 DEF b
<1>3. Fds \ o # {}
  <2>1. CASE o = Fds
    BY <1>1, <1>2, <2>1, RtspAssumption
  <2> QED
    BY <2>1
<1> QED
  BY <1>2, <1>3, LeastOf DEF NewFd

\* A client changes its descriptors for others that were free, or none.
LEMMA OwnedChange ==
    ASSUME NEW c \in [Peers -> ClientType], NEW l \in Fds \cup {0}, NEW o \in SUBSET Fds,
           Owned(c, l, o), NEW p \in Peers, NEW d \in ClientType,
           d.rtsp = 0 => d = NoClient,
           d.rtsp # 0 => d.rtsp # d.udp,
           {d.rtsp, d.udp} \cap (o \ {c[p].rtsp, c[p].udp}) = {}
    PROVE  Owned([c EXCEPT ![p] = d], l,
                 (o \ {c[p].rtsp, c[p].udp}) \cup ({d.rtsp, d.udp} \ {0}))
<1> DEFINE c2 == [c EXCEPT ![p] = d]
           o2 == (o \ {c[p].rtsp, c[p].udp}) \cup ({d.rtsp, d.udp} \ {0})
<1>1. c2[p] = d /\ \A q \in Peers : q # p => c2[q] = c[q]
  OBVIOUS
<1>2. 0 \notin Fds
  BY RtspAssumption DEF Fds
<1>3. \A q \in Peers : \A x \in {c[q].rtsp, c[q].udp} :
         q # p /\ x # 0 => x \in o /\ x \notin {c[p].rtsp, c[p].udp}
  BY DEF Owned
<1>4. l # 0 => l \in o /\ l \notin {c[p].rtsp, c[p].udp}
  BY <1>2 DEF Owned
<1> HIDE DEF c2
<1>5. ASSUME NEW q \in Peers
      PROVE  /\ c2[q].rtsp = 0 => c2[q] = NoClient
             /\ c2[q].rtsp # 0 => c2[q].rtsp \in o2 /\ c2[q].rtsp # l /\ c2[q].rtsp # c2[q].udp
             /\ c2[q].udp # 0 => c2[q].udp \in o2 /\ c2[q].udp # l
  <2>1. CASE q = p
    BY <1>1, <1>4, <2>1
  <2>2. CASE q # p
    BY <1>1, <1>3, <2>2 DEF Owned
  <2> QED
    BY <2>1, <2>2
<1>6. ASSUME NEW q \in Peers, NEW r \in Peers,
             NEW x \in {c2[q].rtsp, c2[q].udp}, NEW y \in {c2[r].rtsp, c2[r].udp},
             x = y, x # 0
      PROVE  q = r
  <2>1. CASE q # p /\ r # p
    BY <1>1, <1>6, <2>1 DEF Owned
  <2>2. CASE q = p /\ r # p
    BY <1>1, <1>3, <1>6, <2>2
  <2>3. CASE q # p /\ r = p
    BY <1>1, <1>3, <1>6, <2>3
  <2> QED
    BY <2>1, <2>2, <2>3
<1>7. l # 0 => l \in o2
  BY <1>4
<1>8. ASSUME NEW x \in o2
      PROVE  x = l \/ \E q \in Peers : x \in {c2[q].rtsp, c2[q].udp}
  <2>1. CASE x \in {d.rtsp, d.udp}
    BY <1>1, <2>1
  <2>2. CASE x \in o \ {c[p].rtsp, c[p].udp}
    <3>1. x = l \/ \E q \in Peers : x \in {c[q].rtsp, c[q].udp}
      BY <2>2 DEF Owned
    <3> QED
      BY <1>1, <2>2, <3>1
  <2> QED
    BY <2>1, <2>2
<1>9. Owned(c2, l, o2)
  BY <1>5, <1>6, <1>7, <1>8 DEF Owned
<1> QED
  BY <1>9 DEF c2

-----------------------------------------------------------------------------
(* Lemmas about the queue. *)

\* The queue m is what is left of q, in its order.
LeftOf(m, q) ==
    \E at \in [DOMAIN m -> DOMAIN q] :
        /\ \A i, j \in DOMAIN m : i < j => at[i] < at[j]
        /\ \A i \in DOMAIN m : m[i] = q[at[i]]

\* What is left when one place is taken out of a queue.
LEMMA RemoveLeaves ==
    ASSUME NEW S, NEW q \in Seq(S), NEW n \in DOMAIN q
    PROVE  /\ RemoveAt(q, n) \in Seq(S) /\ Len(RemoveAt(q, n)) = Len(q) - 1
           /\ LeftOf(RemoveAt(q, n), q)
           /\ \A i \in DOMAIN q : i # n => \E j \in DOMAIN RemoveAt(q, n) : RemoveAt(q, n)[j] = q[i]
<1> DEFINE r == RemoveAt(q, n)
           a == SubSeq(q, 1, n - 1)
           b == SubSeq(q, n + 1, Len(q))
<1>1. n \in 1..Len(q) /\ DOMAIN q = 1..Len(q) /\ Len(q) \in Nat
  OBVIOUS
<1>2. a \in Seq(S) /\ Len(a) = n - 1 /\ \A i \in 1..(n - 1) : a[i] = q[i]
  BY <1>1
<1>3. b \in Seq(S) /\ Len(b) = Len(q) - n /\ \A i \in 1..(Len(q) - n) : b[i] = q[n + i]
  BY <1>1
<1>4. r = a \o b
  BY DEF RemoveAt
<1> HIDE DEF a, b, r
<1>5. /\ r \in Seq(S) /\ Len(r) = Len(a) + Len(b)
      /\ \A i \in 1..(Len(a) + Len(b)) : r[i] = IF i <= Len(a) THEN a[i] ELSE b[i - Len(a)]
  BY <1>2, <1>3, <1>4, ConcatProperties
<1>6. Len(r) = Len(q) - 1 /\ DOMAIN r = 1..(Len(q) - 1)
  BY <1>1, <1>2, <1>3, <1>5
<1> DEFINE at == [i \in DOMAIN r |-> IF i < n THEN i ELSE i + 1]
<1>7. ASSUME NEW i \in 1..(Len(q) - 1)
      PROVE  r[i] = IF i < n THEN q[i] ELSE q[i + 1]
  <2>1. CASE i < n
    BY <1>1, <1>2, <1>3, <1>5, <2>1
  <2>2. CASE ~(i < n)
    <3>1. i - (n - 1) \in 1..(Len(q) - n) /\ n + (i - (n - 1)) = i + 1
      BY <1>1, <2>2
    <3>2. r[i] = b[i - (n - 1)]
      BY <1>1, <1>2, <1>3, <1>5, <2>2
    <3> QED
      BY <1>3, <2>2, <3>1, <3>2
  <2> QED
    BY <2>1, <2>2
<1>8. LeftOf(r, q)
  <2>1. at \in [DOMAIN r -> DOMAIN q] /\ \A i, j \in DOMAIN r : i < j => at[i] < at[j]
    BY <1>1, <1>6
  <2>2. \A i \in DOMAIN r : r[i] = q[at[i]]
    BY <1>6, <1>7
  <2> QED
    BY <2>1, <2>2 DEF LeftOf
<1>9. ASSUME NEW i \in DOMAIN q, i # n
      PROVE  \E j \in DOMAIN r : r[j] = q[i]
  <2>1. CASE i < n
    <3>1. i \in DOMAIN r /\ r[i] = q[i]
      BY <1>1, <1>6, <1>7, <2>1
    <3> QED
      BY <3>1
  <2>2. CASE ~(i < n)
    <3>1. i - 1 \in DOMAIN r /\ r[i - 1] = q[i]
      BY <1>1, <1>6, <1>7, <1>9, <2>2
    <3> QED
      BY <3>1
  <2> QED
    BY <2>1, <2>2
<1> QED
  BY <1>5, <1>6, <1>8, <1>9 DEF r

\* A queue is left of itself.
LEMMA LeftOfItself == ASSUME NEW S, NEW q \in Seq(S) PROVE LeftOf(q, q)
<1> DEFINE at == [i \in DOMAIN q |-> i]
<1>1. /\ at \in [DOMAIN q -> DOMAIN q] /\ \A i, j \in DOMAIN q : i < j => at[i] < at[j]
      /\ \A i \in DOMAIN q : q[i] = q[at[i]]
  OBVIOUS
<1> QED
  BY <1>1 DEF LeftOf

\* The server takes the oldest frame and leaves the others.
LEMMA TailLeaves ==
    ASSUME NEW S, NEW q \in Seq(S), q # <<>>
    PROVE  /\ 1 \in DOMAIN q /\ Head(q) = q[1] /\ q[1] \in S
           /\ Tail(q) \in Seq(S) /\ Len(Tail(q)) = Len(q) - 1
           /\ LeftOf(Tail(q), q)
           /\ \A j \in DOMAIN Tail(q) : j + 1 \in DOMAIN q /\ j + 1 > 1 /\ Tail(q)[j] = q[j + 1]
           /\ \A i \in DOMAIN q : i # 1 => \E j \in DOMAIN Tail(q) : Tail(q)[j] = q[i]
<1>1. /\ Len(q) \in Nat /\ Len(q) >= 1 /\ DOMAIN q = 1..Len(q) /\ Head(q) = q[1] /\ q[1] \in S
      /\ Tail(q) \in Seq(S) /\ Len(Tail(q)) = Len(q) - 1 /\ DOMAIN Tail(q) = 1..(Len(q) - 1)
      /\ \A i \in 1..(Len(q) - 1) : Tail(q)[i] = q[i + 1]
  BY HeadTailProperties
<1> DEFINE at == [i \in DOMAIN Tail(q) |-> i + 1]
<1>2. at \in [DOMAIN Tail(q) -> DOMAIN q]
      /\ \A i, j \in DOMAIN Tail(q) : i < j => at[i] < at[j]
  BY <1>1
<1>3. \A i \in DOMAIN Tail(q) : Tail(q)[i] = q[at[i]]
  BY <1>1
<1>4. LeftOf(Tail(q), q)
  BY <1>2, <1>3 DEF LeftOf
<1>5. ASSUME NEW i \in DOMAIN q, i # 1
      PROVE  \E j \in DOMAIN Tail(q) : Tail(q)[j] = q[i]
  <2>1. i - 1 \in DOMAIN Tail(q) /\ Tail(q)[i - 1] = q[i]
    BY <1>1, <1>5
  <2> QED
    BY <2>1
<1>6. \A j \in DOMAIN Tail(q) : j + 1 \in DOMAIN q /\ j + 1 > 1
  BY <1>1
<1> QED
  BY <1>1, <1>4, <1>5, <1>6

\* There is room for a frame afterwards, and what went is a frame that is not a key frame,
\* or the oldest of a queue of key frames.
LEMMA MakeRoomLeaves ==
    ASSUME NEW q \in Seq(Frame), Len(q) <= kMaxQueuedFrames
    PROVE  /\ MakeRoom(q) \in Seq(Frame) /\ Len(MakeRoom(q)) < kMaxQueuedFrames
           /\ LeftOf(MakeRoom(q), q)
           /\ \E n \in Nat :
                /\ n \in DOMAIN q => ~q[n].key \/ (n = 1 /\ 2 \in DOMAIN q /\ q[2].key)
                /\ \A i \in DOMAIN q : i # n => \E j \in DOMAIN MakeRoom(q) : MakeRoom(q)[j] = q[i]
<1>0. kMaxQueuedFrames \in Nat /\ kMaxQueuedFrames >= 2 /\ Len(q) \in Nat
      /\ DOMAIN q = 1..Len(q)
  BY RtspAssumption
<1>1. CASE Len(q) < kMaxQueuedFrames
  <2>1. MakeRoom(q) = q
    BY <1>1 DEF MakeRoom
  <2>2. /\ 0 \in Nat /\ 0 \notin DOMAIN q
        /\ \A i \in DOMAIN q : \E j \in DOMAIN q : q[j] = q[i]
    BY <1>0
  <2> QED
    BY <1>1, <2>1, <2>2, LeftOfItself
<1>2. CASE ~(Len(q) < kMaxQueuedFrames)
  <2> DEFINE disposable == {i \in DOMAIN q : ~q[i].key}
             n == IF disposable = {} THEN 1 ELSE Min(disposable)
  <2>1. MakeRoom(q) = RemoveAt(q, n)
    BY <1>2 DEF MakeRoom
  <2>2. n \in DOMAIN q /\ (~q[n].key \/ (n = 1 /\ 2 \in DOMAIN q /\ q[2].key))
    <3>1. CASE disposable = {}
      <4>1. 1 \in DOMAIN q /\ 2 \in DOMAIN q
        BY <1>0, <1>2
      <4> QED
        BY <3>1, <4>1
    <3>2. CASE disposable # {}
      <4>1. disposable \subseteq Nat
        BY <1>0
      <4>2. Min(disposable) \in disposable
        BY <3>2, <4>1, LeastOf
      <4> QED
        BY <3>2, <4>2
    <3> QED
      BY <3>1, <3>2
  <2> HIDE DEF n
  <2>3. Len(RemoveAt(q, n)) < kMaxQueuedFrames
    BY <1>0, <2>2, RemoveLeaves
  <2>4. n \in Nat
    BY <1>0, <2>2
  <2> QED
    BY <2>1, <2>2, <2>3, <2>4, RemoveLeaves
<1> QED
  BY <1>1, <1>2

\* A frame enters behind those that are there.
LEMMA AppendLeaves ==
    ASSUME NEW S, NEW m \in Seq(S), NEW f \in S
    PROVE  /\ Append(m, f) \in Seq(S) /\ Len(Append(m, f)) = Len(m) + 1
           /\ DOMAIN m = 1..Len(m) /\ DOMAIN Append(m, f) = 1..(Len(m) + 1) /\ Len(m) \in Nat
           /\ \A i \in DOMAIN Append(m, f) : i \in DOMAIN m \/ i = Len(m) + 1
           /\ \A i \in DOMAIN m : i \in DOMAIN Append(m, f) /\ Append(m, f)[i] = m[i]
           /\ Append(m, f)[Len(m) + 1] = f
OBVIOUS

-----------------------------------------------------------------------------
(* The inductive invariant. *)

Descriptors ==
    /\ client \in [Peers -> ClientType]
    /\ open \in SUBSET Fds /\ listen \in Fds \cup {0}
    /\ Cardinality(Connected) <= kMaxClients
    /\ Owned(client, listen, open)

\* What the controller's place says of the thread and of the descriptors.
Phases ==
    /\ spc = "none" => Connected = {}
    /\ ctl = "idle" /\ ~running => spc = "none" /\ open = {}
    /\ ctl = "create" => spc = "none" /\ running
    /\ ctl = "joining" => ~running
    /\ ctl = "clearing" => ~running /\ spc = "none" /\ open = {}

\* The round only comes to connected clients, and no such client waits to be accepted.
Places ==
    /\ spc \notin {"accept", "handle"} => todo = {}
    /\ spc # "send" => targets = {}
    /\ todo \cup targets \subseteq Connected
    /\ backlog \cap Connected = {}

\* Number n belongs to a frame that is older than all that wait.
Passed(n) ==
    n <= frames /\ (\A i \in DOMAIN queue : n < queue[i].id) /\ (pushing => n < copy.id)

\* The queue is in the order of Push, and what was taken or sent came before it.
Order ==
    /\ \A i, j \in DOMAIN queue : i < j => queue[i].id < queue[j].id
    /\ \A i \in DOMAIN queue : queue[i].id <= frames /\ (pushing => queue[i].id < copy.id)
    /\ pushing => copy.id = frames
    /\ Passed(takenKey)
    /\ \A p \in Peers : Passed(client[p].last)
    /\ spc = "send" => Passed(frame.id) /\ \A p \in targets : client[p].last < frame.id

\* The newest key frame is queued as one, or was taken; no later key frame was queued.
Keys ==
    /\ newestKey <= frames /\ (pushing => newestKey < copy.id)
    /\ \A i \in DOMAIN queue : queue[i].key => queue[i].id <= newestKey
    /\ newestKey = 0 \/ newestKey = takenKey
         \/ \E i \in DOMAIN queue : queue[i].id = newestKey /\ queue[i].key

\* A frame of a session that a Stop has ended.
Stale(f) == f.sess <= stopped

\* Only the copy that Push held during a Stop is queued behind it.
Sessions ==
    /\ stopped <= session /\ (running => stopped < session)
    /\ \A i, j \in DOMAIN queue : Stale(queue[i]) /\ Stale(queue[j]) => i = j
    /\ pushing /\ Stale(copy) => \A i \in DOMAIN queue : ~Stale(queue[i])

\* The inductive invariant.
RtspInv == TypeOK /\ Descriptors /\ Phases /\ Places /\ Order /\ Keys /\ Sessions

-----------------------------------------------------------------------------
(* The steps, by what they do to clients and descriptors. *)

ControlSteps == StartListens \/ StartCreates \/ StartCreateFails \/ StopClears \/ StopClearsQueue
RoundSteps ==
    \/ RoundBegins \/ ServerEnds \/ AcceptEnds \/ (\E p \in Peers : NoRequest(p))
    \/ NothingToSend \/ RoundEnds
PushSteps == Push \/ UNCHANGED vars
SendSteps == \E p \in Peers : SendsFrame(p) \/ SendFails(p)

\* Every step is of one of these kinds.
LEMMA StepKinds ==
    [Next]_vars <=> \/ ControlSteps \/ StopJoins \/ RoundSteps \/ PushSteps \/ TakesFrame
                    \/ SendSteps
                    \/ \E p \in Peers : AcceptClient(p) \/ HandleRequest(p) \/ Connects(p)
BY DEF Next, Start, Stop, ServerThread, ControlSteps, RoundSteps, PushSteps, SendSteps

\* A client that changes takes part in what is open with its new descriptors only.
LEMMA ClientChange ==
    ASSUME Descriptors, NEW p \in Peers, NEW d \in ClientType,
           p \in Connected \/ Cardinality(Connected) < kMaxClients,
           d.rtsp = 0 => d = NoClient,
           d.rtsp # 0 => d.rtsp # d.udp,
           {d.rtsp, d.udp} \cap (open \ ClientFds(p)) = {},
           client' = [client EXCEPT ![p] = d], listen' = listen,
           open' = (open \ ClientFds(p)) \cup ({d.rtsp, d.udp} \ {0})
    PROVE  Descriptors'
<1> USE DEF ClientFds
<1>1. client' \in [Peers -> ClientType] /\ listen' \in Fds \cup {0} /\ open' \in SUBSET Fds
  BY DEF Descriptors, ClientType
<1>2. Owned(client', listen', open')
  BY OwnedChange DEF Descriptors
<1>3. Cardinality(Connected') <= kMaxClients
  <2>1. Connected = ConnectedIn(client)
    BY DEF Connected, ConnectedIn
  <2>2. IsFiniteSet(Connected) /\ Cardinality(Connected) \in Nat
    BY <2>1, TwoSlotsEach DEF Descriptors
  <2>3. IsFiniteSet(Connected \cup {p})
        /\ Cardinality(Connected \cup {p}) <= kMaxClients
    <3>1. CASE p \in Connected
      <4>1. Connected \cup {p} = Connected
        BY <3>1
      <4>2. Cardinality(Connected) <= kMaxClients
        BY DEF Descriptors
      <4> QED
        BY <2>2, <4>1, <4>2
    <3>2. CASE p \notin Connected
      <4>1. /\ IsFiniteSet(Connected \cup {p})
            /\ Cardinality(Connected \cup {p}) = Cardinality(Connected) + 1
        BY <2>2, <3>2, FS_AddElement
      <4>2. Cardinality(Connected) < kMaxClients
        BY <3>2
      <4> QED
        BY <2>2, <4>1, <4>2, RtspAssumption
    <3> QED
      BY <3>1, <3>2
  <2>4. Connected' \in SUBSET (Connected \cup {p})
    BY DEF Connected, Descriptors
  <2>5. Cardinality(Connected') <= Cardinality(Connected \cup {p})
        /\ Cardinality(Connected') \in Nat /\ Cardinality(Connected \cup {p}) \in Nat
    BY <2>3, <2>4, FS_Subset, FS_CardinalityType
  <2> QED
    BY <2>3, <2>5, RtspAssumption
<1> QED
  BY <1>1, <1>2, <1>3 DEF Descriptors

\* NoClient is a client without descriptors.
LEMMA NoClientType == NoClient \in ClientType /\ NoClient.rtsp = 0 /\ NoClient.udp = 0 /\ NoClient.last = 0
BY DEF NoClient, ClientType

\* What every request does to its client.
Handled(p) ==
    /\ p \in todo /\ todo' = todo \ {p} /\ spc = "handle"
    /\ \E d \in ClientType :
         /\ client' = [client EXCEPT ![p] = d]
         /\ d = NoClient \/ (d.rtsp = client[p].rtsp /\ d.last = client[p].last)
    /\ UNCHANGED <<lifeVars, spc, sendVars, streamVars>>

\* A response leaves the client with its connection and a UDP socket that was free, or
\* without any.
LEMMA RepliesKeep ==
    ASSUME Descriptors, Places, NEW p \in Peers, Handling(p),
           NEW c \in ClientType, NEW fds, Replies(p, c, fds),
           c.rtsp = client[p].rtsp, c.last = client[p].last, c.udp # c.rtsp,
           c.udp \notin open \ {client[p].udp},
           fds = (open \ {client[p].udp}) \cup ({c.udp} \ {0})
    PROVE  Descriptors' /\ Handled(p)
<1>1. p \in Connected /\ client[p].rtsp # 0 /\ client[p].rtsp \in open
      /\ client[p].rtsp # client[p].udp
      /\ client[p].rtsp \in Fds /\ 0 \notin open
  BY RtspAssumption DEF Handling, Places, Connected, Descriptors, Owned, ClientType, Fds
<1>2. listen' = listen
  BY DEF Replies
<1>3. CASE client' = [client EXCEPT ![p] = c] /\ open' = fds
  <2>1. open' = (open \ ClientFds(p)) \cup ({c.rtsp, c.udp} \ {0})
    BY <1>1, <1>3 DEF ClientFds
  <2>2. Descriptors'
    BY <1>1, <1>2, <1>3, <2>1, ClientChange DEF ClientFds
  <2> QED
    BY <1>3, <2>2 DEF Handled, Handling, Replies
<1>4. CASE client' = [client EXCEPT ![p] = NoClient] /\ open' = fds \ {c.rtsp, c.udp}
  <2>1. open' = (open \ ClientFds(p)) \cup ({NoClient.rtsp, NoClient.udp} \ {0})
    BY <1>1, <1>4, NoClientType DEF ClientFds
  <2>2. {NoClient.rtsp, NoClient.udp} \cap (open \ ClientFds(p)) = {}
        /\ NoClient \in ClientType /\ NoClient.rtsp = 0
    BY <1>1, NoClientType
  <2>3. Descriptors'
    BY <1>1, <1>2, <1>4, <2>1, <2>2, ClientChange
  <2>4. \E d \in ClientType :
          /\ client' = [client EXCEPT ![p] = d]
          /\ d = NoClient \/ (d.rtsp = client[p].rtsp /\ d.last = client[p].last)
    BY <1>4, NoClientType
  <2> QED
    BY <1>4, <2>3, <2>4 DEF Handled, Handling, Replies
<1> QED
  BY <1>3, <1>4 DEF Replies

\* Every request keeps the descriptors in order.
LEMMA RequestsKeep ==
    ASSUME Descriptors, Places, NEW p \in Peers, HandleRequest(p)
    PROVE  Descriptors' /\ Handled(p)
<1>0. Handling(p)
  BY DEF HandleRequest, Answers, SetupTcp, SetupUdp, Play, Leaves
<1>1. /\ client \in [Peers -> ClientType] /\ client[p] \in ClientType
      /\ p \in Connected /\ client[p].rtsp # 0 /\ client[p].udp # client[p].rtsp
      /\ client[p].rtsp \in open /\ (client[p].udp # 0 => client[p].udp \in open)
      /\ 0 \notin open /\ open \in SUBSET Fds
  BY <1>0, RtspAssumption DEF Handling, Places, Connected, Descriptors, Owned, Fds
<1>2. CASE Answers(p)
  <2>1. open = (open \ {client[p].udp}) \cup ({client[p].udp} \ {0})
    BY <1>1
  <2> QED
    BY <1>0, <1>1, <1>2, <2>1, RepliesKeep DEF Answers
<1>3. CASE Play(p)
  <2> DEFINE c == [client[p] EXCEPT !.playing = TRUE]
  <2>1. open = (open \ {client[p].udp}) \cup ({client[p].udp} \ {0})
    BY <1>1
  <2>2. c \in ClientType /\ c.rtsp = client[p].rtsp /\ c.udp = client[p].udp
        /\ c.last = client[p].last
    BY <1>1 DEF ClientType
  <2>3. Replies(p, c, open)
    BY <1>3 DEF Play
  <2> HIDE DEF c
  <2> QED
    BY <1>0, <1>1, <2>1, <2>2, <2>3, RepliesKeep
<1>4. CASE SetupTcp(p)
  <2> DEFINE c == [client[p] EXCEPT !.tcp = TRUE, !.udp = 0]
             fds == open \ {client[p].udp}
  <2>1. fds = (open \ {client[p].udp}) \cup ({0} \ {0})
    OBVIOUS
  <2>2. c \in ClientType /\ c.rtsp = client[p].rtsp /\ c.udp = 0
        /\ c.last = client[p].last
    BY <1>1 DEF ClientType
  <2>3. Replies(p, c, fds)
    BY <1>4 DEF SetupTcp
  <2> HIDE DEF c, fds
  <2> QED
    BY <1>0, <1>1, <2>1, <2>2, <2>3, RepliesKeep
<1>5. CASE SetupUdp(p)
  <2> DEFINE old == open \ {client[p].udp}
  <2>1. PICK fd \in {0, NewFd(old)} :
          Replies(p, [client[p] EXCEPT !.tcp = FALSE, !.udp = fd], old \cup ({fd} \ {0}))
    BY <1>5 DEF SetupUdp
  <2> DEFINE c == [client[p] EXCEPT !.tcp = FALSE, !.udp = fd]
             fds == old \cup ({fd} \ {0})
             d == [client[p] EXCEPT !.udp = 0]
             c1 == [client EXCEPT ![p] = d]
  <2>2. NewFd(old) \in Fds /\ NewFd(old) \notin old
    <3>1. d \in ClientType /\ d.rtsp = client[p].rtsp /\ d.udp = 0
      BY <1>1 DEF ClientType
    <3>2. (open \ {client[p].rtsp, client[p].udp}) \cup ({d.rtsp, d.udp} \ {0}) = old
      BY <1>1, <3>1
    <3>3. Owned(c1, listen, old)
      <4>1. {d.rtsp, d.udp} \cap (open \ {client[p].rtsp, client[p].udp}) = {}
        BY <1>1, <3>1
      <4>2. /\ d.rtsp = 0 => d = NoClient
            /\ d.rtsp # 0 => d.rtsp # d.udp
        BY <1>1, <3>1
      <4>3. listen \in Fds \cup {0} /\ Owned(client, listen, open)
        BY DEF Descriptors
      <4> HIDE DEF d, old
      <4>4. Owned([client EXCEPT ![p] = d], listen,
                  (open \ {client[p].rtsp, client[p].udp}) \cup ({d.rtsp, d.udp} \ {0}))
        BY <1>1, <3>1, <4>1, <4>2, <4>3, OwnedChange
      <4> QED
        BY <3>2, <4>4
    <3>4. c1 \in [Peers -> ClientType] /\ c1[p] = d /\ \A q \in Peers : q # p => c1[q] = client[q]
      BY <1>1, <3>1
    <3>5. ConnectedIn(c1) = Connected
      BY <1>1, <3>1, <3>4 DEF ConnectedIn, Connected
    <3>6. p \in ConnectedIn(c1) /\ c1[p].udp = 0
      BY <1>1, <3>1, <3>4, <3>5
    <3>7. old \in SUBSET Fds
      BY <1>1
    <3> HIDE DEF c1, old
    <3> QED
      BY <3>3, <3>4, <3>5, <3>6, <3>7, OneIsFree DEF Descriptors
  <2>3. fd \in Fds \cup {0} /\ fd \notin old
    BY <1>1, <2>1, <2>2
  <2>4. c \in ClientType /\ c.rtsp = client[p].rtsp /\ c.udp = fd
        /\ c.last = client[p].last
    BY <1>1, <2>3 DEF ClientType
  <2>5. fd # client[p].rtsp
    BY <1>1, <2>3
  <2>6. Replies(p, c, fds)
    BY <2>1
  <2>7. fds = (open \ {client[p].udp}) \cup ({fd} \ {0}) /\ fd \notin open \ {client[p].udp}
    BY <2>3
  <2> HIDE DEF c, fds, old
  <2> QED
    BY <1>0, <2>4, <2>5, <2>6, <2>7, RepliesKeep
<1>6. CASE Leaves(p)
  <2>1. client' = [client EXCEPT ![p] = NoClient] /\ listen' = listen
        /\ open' = (open \ ClientFds(p)) \cup ({NoClient.rtsp, NoClient.udp} \ {0})
    BY <1>6, NoClientType DEF Leaves
  <2>2. {NoClient.rtsp, NoClient.udp} \cap (open \ ClientFds(p)) = {}
        /\ NoClient \in ClientType /\ NoClient.rtsp = 0
    BY <1>1, NoClientType
  <2>3. Descriptors'
    BY <1>1, <2>1, <2>2, ClientChange
  <2>4. \E d \in ClientType :
          /\ client' = [client EXCEPT ![p] = d]
          /\ d = NoClient \/ (d.rtsp = client[p].rtsp /\ d.last = client[p].last)
    BY <1>6, NoClientType DEF Leaves
  <2> QED
    BY <1>6, <2>3, <2>4 DEF Handled, Handling, Leaves
<1> QED
  BY <1>2, <1>3, <1>4, <1>5, <1>6 DEF HandleRequest
\* A client that is accepted gets a descriptor that was free.
LEMMA AcceptKeeps ==
    ASSUME Descriptors, Places, NEW p \in Peers, AcceptClient(p)
    PROVE  /\ Descriptors'
           /\ NewFd(open) \in Fds /\ NewFd(open) # 0
           /\ client' = [client EXCEPT ![p] = [NoClient EXCEPT !.rtsp = NewFd(open)]]
<1> DEFINE fd == NewFd(open)
           d == [NoClient EXCEPT !.rtsp = fd]
<1>1. /\ client' = [client EXCEPT ![p] = d] /\ open' = open \cup {fd} /\ listen' = listen
      /\ p \notin Connected /\ Cardinality(Connected) < kMaxClients
  BY DEF AcceptClient, Places
<1>2. client[p] = NoClient
  BY <1>1 DEF Connected, Descriptors, Owned
<1>3. fd \in Fds /\ fd \notin open
  <2>1. Connected = ConnectedIn(client)
    BY DEF Connected, ConnectedIn
  <2> QED
    BY <1>1, <2>1, OneIsFree DEF Descriptors
<1>4. fd # 0 /\ 0 \notin open
  BY <1>3, RtspAssumption DEF Fds, Descriptors
<1> HIDE DEF fd
<1>5. d \in ClientType /\ d.rtsp = fd /\ d.udp = 0
  BY <1>3 DEF NoClient, ClientType
<1>6. ClientFds(p) = {0}
  BY <1>2, NoClientType DEF ClientFds
<1> HIDE DEF d
<1>7. /\ {d.rtsp, d.udp} \cap (open \ ClientFds(p)) = {}
      /\ open' = (open \ ClientFds(p)) \cup ({d.rtsp, d.udp} \ {0})
  BY <1>1, <1>3, <1>4, <1>5, <1>6
<1>8. Descriptors'
  BY <1>1, <1>4, <1>5, <1>7, ClientChange
<1> QED
  BY <1>1, <1>3, <1>4, <1>8 DEF fd, d

\* What a frame that is sent, or not, leaves of its client.
LEMMA SendKeeps ==
    ASSUME TypeOK, Descriptors, Places, NEW p \in Peers, SendsFrame(p) \/ SendFails(p)
    PROVE  /\ Descriptors'
           /\ p \in targets /\ targets' = targets \ {p} /\ spc = "send"
           /\ UNCHANGED <<lifeVars, spc, todo, frame, streamVars>>
           /\ client'[p].last \in {client[p].last, frame.id}
           /\ client'[p].rtsp = client[p].rtsp
           /\ \A q \in Peers : q # p => client'[q] = client[q]
<1>1. client \in [Peers -> ClientType] /\ client[p] \in ClientType /\ frame.id \in Nat
  BY DEF Descriptors, TypeOK, Frame
<1>2. p \in targets /\ p \in Connected /\ client[p].rtsp # 0
  BY DEF SendsFrame, SendFails, Sending, Places, Connected
<1>4. PICK d \in {[client[p] EXCEPT !.last = frame.id], [client[p] EXCEPT !.playing = FALSE]} :
         client' = [client EXCEPT ![p] = d]
  BY <1>1 DEF SendsFrame, SendFails
<1>5. d \in ClientType /\ d.rtsp = client[p].rtsp /\ d.udp = client[p].udp
      /\ d.last \in {client[p].last, frame.id}
  BY <1>1, <1>4 DEF ClientType
<1>6. /\ {d.rtsp, d.udp} \cap (open \ ClientFds(p)) = {}
      /\ d.rtsp # 0 /\ d.rtsp # d.udp
      /\ open = (open \ ClientFds(p)) \cup ({d.rtsp, d.udp} \ {0})
  <2>1. client[p].rtsp \in open /\ client[p].rtsp # client[p].udp
        /\ (client[p].udp # 0 => client[p].udp \in open)
    BY <1>2 DEF Descriptors, Owned
  <2>2. 0 \notin open
    BY RtspAssumption DEF Descriptors, Fds
  <2> QED
    BY <1>2, <1>5, <2>1, <2>2 DEF ClientFds
<1>7. open' = open /\ listen' = listen
  BY DEF SendsFrame, SendFails
<1>8. Descriptors'
  BY <1>2, <1>4, <1>5, <1>6, <1>7, ClientChange
<1>9. client'[p] = d /\ \A q \in Peers : q # p => client'[q] = client[q]
  BY <1>1, <1>4
<1> QED
  BY <1>2, <1>5, <1>8, <1>9 DEF SendsFrame, SendFails, Sending

\* Where nobody is connected, at most the listening socket is open.
LEMMA NobodyConnected ==
    ASSUME NEW c \in [Peers -> ClientType], NEW l, NEW o,
           Owned(c, l, o), ConnectedIn(c) = {}, 0 \notin o
    PROVE  (\A p \in Peers : c[p] = NoClient) /\ o = {l} \ {0}
<1>1. \A p \in Peers : c[p] = NoClient
  BY DEF ConnectedIn, Owned
<1>2. \A x \in o : x = l
  BY <1>1, NoClientType DEF Owned
<1> QED
  BY <1>1, <1>2 DEF Owned

\* Every step keeps each descriptor with its one owner.
LEMMA DescriptorsStep ==
    ASSUME TypeOK, Descriptors, Phases, Places, [Next]_vars
    PROVE  Descriptors'
<1>0. /\ client \in [Peers -> ClientType] /\ 0 \notin open /\ 0 \notin Fds
      /\ Connected = ConnectedIn(client)
  BY RtspAssumption DEF Descriptors, Fds, Connected, ConnectedIn
<1>1. CASE StartListens
  <2>1. open = {} /\ Connected = {}
    BY <1>1 DEF StartListens, Phases
  <2>2. \A p \in Peers : client[p] = NoClient
    BY <1>0, <2>1, NobodyConnected DEF Descriptors
  <2>3. listen' \in Fds /\ open' = {listen'} /\ client' = client
    <3>1. Cardinality(ConnectedIn(client)) < kMaxClients
      BY <1>0, <2>1, FS_EmptySet, RtspAssumption
    <3>2. NewFd(open) \in Fds
      BY <1>0, <3>1, OneIsFree DEF Descriptors
    <3> QED
      BY <1>1, <2>1, <3>2 DEF StartListens
  <2>4. Owned(client', listen', open')
    BY <1>0, <2>2, <2>3, NoClientType DEF Owned
  <2> QED
    BY <1>0, <2>3, <2>4 DEF Descriptors, Connected
<1>2. CASE StartCreateFails \/ StopJoins
  <2>1. \A p \in Peers : client'[p] = NoClient
    <3>1. CASE StartCreateFails
      <4>1. Connected = {} /\ client' = client
        BY <3>1 DEF StartCreateFails, Phases
      <4> QED
        BY <1>0, <4>1, NobodyConnected DEF Descriptors
    <3>2. CASE StopJoins
      BY <3>2 DEF StopJoins
    <3> QED
      BY <1>2, <3>1, <3>2
  <2>2. client' \in [Peers -> ClientType]
    BY <1>0, <1>2, NoClientType DEF StartCreateFails, StopJoins
  <2>3. open' = {} /\ listen' = 0
    <3>1. CASE StartCreateFails
      <4>1. Connected = {}
        BY <3>1 DEF StartCreateFails, Phases
      <4>2. open = {listen} \ {0}
        BY <1>0, <4>1, NobodyConnected DEF Descriptors
      <4> QED
        BY <3>1, <4>2 DEF StartCreateFails
    <3>2. CASE StopJoins
      <4>1. \A x \in open : x = listen \/ \E p \in Peers : x \in ClientFds(p)
        BY DEF Descriptors, Owned, ClientFds
      <4>2. open' = open \ ({listen} \cup UNION {ClientFds(p) : p \in Peers}) /\ listen' = 0
        BY <3>2 DEF StopJoins
      <4> QED
        BY <4>1, <4>2
    <3> QED
      BY <1>2, <3>1, <3>2
  <2>4. Owned(client', listen', open')
    BY <2>1, <2>3, NoClientType DEF Owned
  <2>5. Connected' = {}
    BY <2>1, NoClientType DEF Connected
  <2>6. Cardinality(Connected') <= kMaxClients
    BY <2>5, FS_EmptySet, RtspAssumption
  <2> QED
    BY <2>2, <2>3, <2>4, <2>6 DEF Descriptors
<1>3. CASE UNCHANGED <<client, open, listen>>
  BY <1>3 DEF Descriptors, Connected
<1>4. CASE SendSteps
  BY <1>4, SendKeeps DEF SendSteps
<1>5. ASSUME NEW p \in Peers, AcceptClient(p)
      PROVE  Descriptors'
  BY <1>5, AcceptKeeps
<1>6. ASSUME NEW p \in Peers, HandleRequest(p)
      PROVE  Descriptors'
  BY <1>6, RequestsKeep
<1>7. StartCreates \/ StopClears \/ StopClearsQueue \/ RoundSteps \/ PushSteps \/ TakesFrame
        \/ (\E p \in Peers : Connects(p))
      => UNCHANGED <<client, open, listen>>
  BY DEF StartCreates, StopClears, StopClearsQueue, RoundSteps, PushSteps, TakesFrame,
     RoundBegins, ServerEnds, AcceptEnds, NoRequest, NothingToSend, RoundEnds, Push,
     PushCopies, PushEnqueues, Connects, vars
<1> QED
  BY <1>1, <1>2, <1>3, <1>4, <1>5, <1>6, <1>7, StepKinds DEF ControlSteps

\* Every step keeps what the controller's place says.
LEMMA PhasesStep ==
    ASSUME TypeOK, Descriptors, Phases, Places, [Next]_vars
    PROVE  Phases'
<1>0. /\ client \in [Peers -> ClientType] /\ 0 \notin open
      /\ Connected = ConnectedIn(client)
  BY RtspAssumption DEF Descriptors, Fds, Connected, ConnectedIn
<1>1. CASE StartCreateFails
  <2>1. Connected = {} /\ client' = client /\ spc = "none"
    BY <1>1 DEF StartCreateFails, Phases
  <2>2. open = {listen} \ {0}
    BY <1>0, <2>1, NobodyConnected DEF Descriptors
  <2> QED
    BY <1>1, <2>1, <2>2 DEF StartCreateFails, Phases, Connected
<1>2. CASE StopJoins
  <2>1. \A x \in open : x = listen \/ \E p \in Peers : x \in ClientFds(p)
    BY DEF Descriptors, Owned, ClientFds
  <2>2. open' = {}
    BY <1>2, <2>1 DEF StopJoins
  <2>3. Connected' = {}
    BY <1>2, NoClientType DEF StopJoins, Connected
  <2> QED
    BY <1>2, <2>2, <2>3 DEF StopJoins, Phases
<1>3. CASE StartListens \/ StartCreates \/ StopClears \/ StopClearsQueue
  BY <1>3 DEF StartListens, StartCreates, StopClears, StopClearsQueue, Phases, Connected
<1>4. CASE RoundSteps \/ PushSteps \/ TakesFrame \/ \E p \in Peers : Connects(p)
  <2>1. /\ UNCHANGED <<ctl, running, clientVars>>
        /\ spc' = spc \/ (spc \notin {"none", "gone"} /\ spc' # "none")
    BY <1>4 DEF RoundSteps, PushSteps, TakesFrame, RoundBegins, ServerEnds, AcceptEnds,
       NoRequest, Handling, NothingToSend, RoundEnds, Push, PushCopies, PushEnqueues, Connects,
       vars
  <2> QED
    BY <2>1 DEF Phases, Connected
<1>5. CASE SendSteps \/ \E p \in Peers : AcceptClient(p) \/ HandleRequest(p)
  <2>1. UNCHANGED <<ctl, running, spc>> /\ spc # "none"
    BY <1>5, SendKeeps, RequestsKeep DEF SendSteps, AcceptClient, Handled
  <2>2. ctl = "joining" \/ (ctl = "idle" /\ running)
    BY <2>1 DEF Phases, TypeOK
  <2> QED
    BY <2>1, <2>2 DEF Phases
<1> QED
  BY <1>1, <1>2, <1>3, <1>4, <1>5, StepKinds DEF ControlSteps

\* Every step keeps the round with the clients that are connected.
LEMMA PlacesStep ==
    ASSUME TypeOK, Descriptors, Phases, Places, [Next]_vars
    PROVE  Places'
<1>0. client \in [Peers -> ClientType]
  BY DEF Descriptors
<1>1. CASE ControlSteps \/ RoundSteps \/ PushSteps \/ TakesFrame \/ \E p \in Peers : Connects(p)
  <2>1. Connected' = Connected
    BY <1>1 DEF ControlSteps, StartListens, StartCreates, StartCreateFails, StopClears,
       StopClearsQueue, RoundSteps, PushSteps, TakesFrame, RoundBegins, ServerEnds, AcceptEnds,
       NoRequest, NothingToSend, RoundEnds, Push, PushCopies, PushEnqueues, Connects, vars,
       Connected
  <2>2. CASE ControlSteps
    BY <2>1, <2>2 DEF ControlSteps, StartListens, StartCreates, StartCreateFails, StopClears,
       StopClearsQueue, Places, Phases
  <2>3. CASE RoundSteps \/ PushSteps
    BY <2>1, <2>3 DEF RoundSteps, PushSteps, RoundBegins, ServerEnds, AcceptEnds, NoRequest,
       Handling, NothingToSend, RoundEnds, Push, PushCopies, PushEnqueues, vars, Places
  <2>4. CASE TakesFrame \/ \E p \in Peers : Connects(p)
    BY <2>1, <2>4 DEF TakesFrame, Connects, Places
  <2> QED
    BY <1>1, <2>2, <2>3, <2>4
<1>2. CASE StopJoins
  <2>1. Connected' = {} /\ backlog' = {}
    BY <1>2, NoClientType DEF StopJoins, Connected
  <2>2. todo' = {} /\ targets' = {}
    BY <1>2 DEF StopJoins, Places
  <2> QED
    BY <2>1, <2>2 DEF Places
<1>3. CASE SendSteps
  <2> PICK p \in Peers : SendsFrame(p) \/ SendFails(p)
    BY <1>3 DEF SendSteps
  <2>1. Connected' = Connected
    BY SendKeeps DEF Connected
  <2> QED
    BY <2>1, SendKeeps DEF Places
<1>4. ASSUME NEW p \in Peers, AcceptClient(p)
      PROVE  Places'
  <2>1. Connected' = Connected \cup {p}
    BY <1>0, <1>4, AcceptKeeps DEF Connected, NoClient
  <2> QED
    BY <1>4, <2>1 DEF AcceptClient, Places
<1>5. ASSUME NEW p \in Peers, HandleRequest(p)
      PROVE  Places'
  <2>1. Handled(p)
    BY <1>5, RequestsKeep
  <2>2. Connected' \subseteq Connected /\ Connected \subseteq Connected' \cup {p}
    BY <1>0, <2>1, NoClientType DEF Handled, Connected
  <2> QED
    BY <2>1, <2>2 DEF Handled, Places
<1> QED
  BY <1>1, <1>2, <1>3, <1>4, <1>5, StepKinds
\* Every step keeps the types of the other variables.
LEMMA TypesStep ==
    ASSUME TypeOK, Descriptors, Places, Descriptors', [Next]_vars
    PROVE  TypeOK'
<1>0. /\ client' \in [Peers -> [rtsp : Fds \cup {0}, udp : Fds \cup {0}, playing : BOOLEAN,
                                tcp : BOOLEAN, last : Nat]]
      /\ listen' \in Fds \cup {0} /\ open' \subseteq Fds /\ Cardinality(Connected') <= kMaxClients
  BY DEF Descriptors, ClientType
<1> USE DEF TypeOK
<1>1. CASE ControlSteps \/ StopJoins
  <2>1. /\ ctl' \in {"idle", "create", "joining", "clearing"}
        /\ spc' \in {"none", "loop", "accept", "handle", "send", "gone"}
        /\ backlog' \subseteq Peers
        /\ UNCHANGED <<todo, targets, frame, copy, pushing, frames, takenKey>>
    BY <1>1 DEF ControlSteps, StartListens, StartCreates, StartCreateFails, StopClears,
       StopClearsQueue, StopJoins
  <2>2. running' \in BOOLEAN
    BY <1>1, Zenon DEF ControlSteps, StartListens, StartCreates, StartCreateFails, StopClears,
       StopClearsQueue, StopJoins
  <2>3. queue' \in {queue, <<>>}
    BY <1>1 DEF ControlSteps, StartListens, StartCreates, StartCreateFails, StopClears,
       StopClearsQueue, StopJoins, ClearedQueue
  <2>4. <<>> \in Seq(Frame) /\ Len(<<>>) = 0
    OBVIOUS
  <2>5. queue' \in Seq(Frame) /\ Len(queue') <= kMaxQueuedFrames
    <3>1. CASE queue' = queue
      BY <3>1
    <3>2. CASE queue' = <<>>
      BY <2>4, <3>2, RtspAssumption
    <3> QED
      BY <2>3, <3>1, <3>2
  <2>6. {session', stopped', newestKey'} \subseteq Nat
    BY <1>1 DEF ControlSteps, StartListens, StartCreates, StartCreateFails, StopClears,
       StopClearsQueue, StopJoins
  <2> QED
    BY <1>0, <2>1, <2>2, <2>5, <2>6
<1>2. CASE RoundSteps \/ \E p \in Peers : Connects(p)
  <2>1. /\ spc' \in {"none", "loop", "accept", "handle", "send", "gone"}
        /\ todo' \subseteq Peers /\ backlog' \subseteq Peers
        /\ UNCHANGED <<lifeVars, targets, queueVars, pushVars>>
    BY <1>2 DEF RoundSteps, RoundBegins, ServerEnds, AcceptEnds, NoRequest, Handling,
       NothingToSend, RoundEnds, Connects, Connected
  <2>2. frame' \in {frame, NoFrame} /\ NoFrame \in Frame
    BY <1>2 DEF RoundSteps, RoundBegins, ServerEnds, AcceptEnds, NoRequest, Handling,
       NothingToSend, RoundEnds, Connects, NoFrame, Frame
  <2> QED
    BY <1>0, <2>1, <2>2
<1>3. CASE PushSteps
  <2>1. CASE \E key \in BOOLEAN : PushCopies(key)
    <3> PICK key \in BOOLEAN : PushCopies(key)
      BY <2>1
    <3>1. frames + 1 \in Nat /\ copy' \in Frame /\ frames' = frames + 1 /\ pushing' = TRUE
      BY DEF PushCopies, Frame
    <3> QED
      BY <1>0, <3>1 DEF PushCopies
  <2>2. CASE PushEnqueues
    <3>1. queue' = Append(MakeRoom(queue), copy) /\ newestKey' \in {copy.id, newestKey}
      BY <2>2 DEF PushEnqueues, Enqueued
    <3>2. MakeRoom(queue) \in Seq(Frame) /\ Len(MakeRoom(queue)) < kMaxQueuedFrames
      BY MakeRoomLeaves
    <3>3. queue' \in Seq(Frame) /\ Len(queue') <= kMaxQueuedFrames
      <4> DEFINE m == MakeRoom(queue)
      <4>1. m \in Seq(Frame) /\ Len(m) < kMaxQueuedFrames /\ copy \in Frame
        BY <3>2
      <4> HIDE DEF m
      <4>2. Append(m, copy) \in Seq(Frame) /\ Len(Append(m, copy)) <= kMaxQueuedFrames
        BY <4>1, AppendLeaves, RtspAssumption
      <4> QED
        BY <3>1, <4>2 DEF m
    <3>4. copy.id \in Nat
      BY DEF Frame
    <3> QED
      BY <1>0, <2>2, <3>1, <3>3, <3>4 DEF PushEnqueues
  <2>3. CASE UNCHANGED vars
    BY <1>0, <2>3 DEF vars
  <2> QED
    BY <1>3, <2>1, <2>2, <2>3 DEF PushSteps, Push
<1>4. CASE TakesFrame
  <2>1. Head(queue) \in Frame /\ Tail(queue) \in Seq(Frame) /\ Len(Tail(queue)) <= kMaxQueuedFrames
    BY <1>4, TailLeaves, RtspAssumption DEF TakesFrame
  <2>2. Head(queue).id \in Nat /\ takenKey' \in {Head(queue).id, takenKey}
    BY <1>4, <2>1 DEF TakesFrame, Frame
  <2>3. targets' \subseteq Peers
    BY <1>4 DEF TakesFrame, Connected
  <2> QED
    BY <1>0, <1>4, <2>1, <2>2, <2>3 DEF TakesFrame
<1>5. CASE SendSteps
  BY <1>0, <1>5, SendKeeps DEF SendSteps
<1>6. CASE \E p \in Peers : AcceptClient(p)
  BY <1>0, <1>6 DEF AcceptClient
<1>7. ASSUME NEW p \in Peers, HandleRequest(p)
      PROVE  TypeOK'
  <2>1. Handled(p)
    BY <1>7, RequestsKeep
  <2> QED
    BY <1>0, <2>1 DEF Handled
<1> QED
  BY <1>1, <1>2, <1>3, <1>4, <1>5, <1>6, <1>7, StepKinds

\* What is left of a queue has its frames in the same order, and nothing older is passed.
LEMMA LeftInOrder ==
    ASSUME NEW q, NEW m, LeftOf(m, q)
    PROVE  /\ (\A i, j \in DOMAIN q : i < j => q[i].id < q[j].id)
                => \A i, j \in DOMAIN m : i < j => m[i].id < m[j].id
           /\ \A i \in DOMAIN m : \E j \in DOMAIN q : m[i] = q[j]
<1>1. PICK at \in [DOMAIN m -> DOMAIN q] :
        /\ \A i, j \in DOMAIN m : i < j => at[i] < at[j]
        /\ \A i \in DOMAIN m : m[i] = q[at[i]]
  BY DEF LeftOf
<1> QED
  BY <1>1

\* A client's last frame stays what it was, becomes the frame in hand, or starts again
\* where the connection does.
LEMMA LastStep ==
    ASSUME TypeOK, Descriptors, Phases, Places, [Next]_vars, NEW p \in Peers
    PROVE  \/ client'[p].last = client[p].last
           \/ client'[p].last = 0 /\ (client'[p].rtsp = 0 \/ client[p].rtsp = 0)
           \/ spc = "send" /\ p \in targets /\ client'[p].last = frame.id
<1>0. client \in [Peers -> ClientType]
  BY DEF Descriptors
<1>1. CASE ControlSteps \/ RoundSteps \/ PushSteps \/ TakesFrame \/ \E q \in Peers : Connects(q)
  <2>1. client' = client
    BY <1>1 DEF ControlSteps, StartListens, StartCreates, StartCreateFails, StopClears,
       StopClearsQueue, RoundSteps, PushSteps, TakesFrame, RoundBegins, ServerEnds, AcceptEnds,
       NoRequest, NothingToSend, RoundEnds, Push, PushCopies, PushEnqueues, Connects, vars
  <2> QED
    BY <2>1
<1>2. CASE StopJoins
  BY <1>2, NoClientType DEF StopJoins
<1>3. CASE SendSteps
  BY <1>3, SendKeeps DEF SendSteps
<1>4. ASSUME NEW q \in Peers, AcceptClient(q)
      PROVE  client'[p].last = client[p].last \/ (client'[p].last = 0 /\ client[p].rtsp = 0)
  <2>1. client[q].rtsp = 0
    BY <1>4 DEF AcceptClient, Places, Connected
  <2> QED
    BY <1>0, <1>4, <2>1, AcceptKeeps DEF NoClient
<1>5. ASSUME NEW q \in Peers, HandleRequest(q)
      PROVE  client'[p].last = client[p].last \/ (client'[p].last = 0 /\ client'[p].rtsp = 0)
  <2>1. Handled(q)
    BY <1>5, RequestsKeep
  <2> QED
    BY <1>0, <2>1, NoClientType DEF Handled
<1> QED
  BY <1>1, <1>2, <1>3, <1>4, <1>5, StepKinds

\* The steps that leave the queue, what is pushed and what was taken alone.
StillSteps ==
    \/ StartListens \/ StartCreates \/ StartCreateFails \/ StopClears \/ StopJoins \/ RoundSteps
    \/ UNCHANGED vars \/ SendSteps
    \/ \E p \in Peers : AcceptClient(p) \/ HandleRequest(p) \/ Connects(p)

\* Only these move frames.
LEMMA FrameKinds ==
    [Next]_vars <=> StillSteps \/ StopClearsQueue \/ TakesFrame \/ PushEnqueues
                    \/ (\E key \in BOOLEAN : PushCopies(key))
BY StepKinds DEF StillSteps, ControlSteps, PushSteps, Push

\* What a still step leaves alone, and what it does to the round.
LEMMA StillKeeps ==
    ASSUME TypeOK, Descriptors, Places, StillSteps
    PROVE  /\ UNCHANGED <<queueVars, pushVars, stopped>>
           /\ session' = session \/ (session' = session + 1 /\ running' = TRUE)
           /\ running' => running \/ session' = session + 1
           /\ spc' = "send" => spc = "send" /\ frame' = frame /\ targets' \subseteq targets
           /\ \A p \in targets' : client'[p].last = client[p].last \/ spc' # "send"
<1>1. CASE StartListens \/ StartCreates \/ StartCreateFails \/ StopClears \/ StopJoins
  BY <1>1 DEF StartListens, StartCreates, StartCreateFails, StopClears, StopJoins, Places
<1>2. CASE RoundSteps \/ UNCHANGED vars \/ \E p \in Peers : Connects(p)
  BY <1>2 DEF RoundSteps, RoundBegins, ServerEnds, AcceptEnds, NoRequest, Handling,
     NothingToSend, RoundEnds, Connects, vars
<1>3. CASE SendSteps
  BY <1>3, SendKeeps DEF SendSteps, Places, Connected
<1>4. CASE \E p \in Peers : AcceptClient(p)
  BY <1>4 DEF AcceptClient
<1>5. ASSUME NEW p \in Peers, HandleRequest(p)
      PROVE  /\ UNCHANGED <<queueVars, pushVars, stopped, session, running>> /\ spc' # "send"
  <2>1. Handled(p)
    BY <1>5, RequestsKeep
  <2> QED
    BY <2>1 DEF Handled
<1> QED
  BY <1>1, <1>2, <1>3, <1>4, <1>5 DEF StillSteps
\* What Push does to a queue from which m is left.
LEMMA PushKeeps ==
    ASSUME TypeOK, PushEnqueues
    PROVE  \E m \in Seq(Frame) :
             /\ m = MakeRoom(queue) /\ LeftOf(m, queue) /\ copy \in Frame
             /\ queue' = Append(m, copy) /\ pushing /\ ~pushing'
             /\ newestKey' = (IF copy.key THEN copy.id ELSE newestKey)
             /\ UNCHANGED <<lifeVars, roundVars, clientVars, copy, backlog, frames, takenKey>>
<1>1. MakeRoom(queue) \in Seq(Frame) /\ LeftOf(MakeRoom(queue), queue)
  BY MakeRoomLeaves DEF TypeOK
<1> QED
  BY <1>1 DEF PushEnqueues, Enqueued, TypeOK

\* Number n belongs to a frame that is older than all that wait after the step.
PassedAfter(n) ==
    n <= frames' /\ (\A i \in DOMAIN queue' : n < queue'[i].id) /\ (pushing' => n < copy'.id)

\* Every step keeps the frames in the order of Push.
LEMMA OrderStep ==
    ASSUME TypeOK, Descriptors, Phases, Places, Order, [Next]_vars
    PROVE  Order'
<1>0. /\ queue \in Seq(Frame) /\ copy \in Frame /\ frame \in Frame
      /\ {frames, takenKey, newestKey} \subseteq Nat
      /\ \A i \in DOMAIN queue : i \in Nat /\ queue[i].id \in Nat
      /\ \A p \in Peers : client[p].last \in Nat
      /\ copy.id \in Nat /\ frame.id \in Nat /\ targets \subseteq Peers
  <2>1. \A i \in DOMAIN queue : i \in Nat /\ queue[i] \in Frame
    BY ElementOfSeq DEF TypeOK
  <2>2. \A f \in Frame : f.id \in Nat
    BY DEF Frame
  <2> QED
    BY <2>1, <2>2 DEF TypeOK
<1>1. Passed(0)
  BY <1>0 DEF Order, Passed
<1>2. \A p \in Peers : Passed(client'[p].last)
  <2>1. \A p \in targets : spc = "send" => Passed(frame.id)
    BY DEF Order
  <2> QED
    BY <1>1, <2>1, LastStep DEF Order
<1>3. CASE StillSteps
  <2>1. UNCHANGED <<queueVars, pushVars>>
    BY <1>3, StillKeeps
  <2>2. \A n : PassedAfter(n) <=> Passed(n)
    BY <2>1 DEF Passed, PassedAfter
  <2>3. spc' = "send" => Passed(frame'.id) /\ \A p \in targets' : client'[p].last < frame'.id
    BY <1>3, StillKeeps DEF Order
  <2>4. \A p \in Peers : PassedAfter(client'[p].last)
    BY <1>2, <2>2
  <2>5. PassedAfter(takenKey')
    BY <2>1, <2>2 DEF Order
  <2>6. spc' = "send" => PassedAfter(frame'.id)
    BY <2>2, <2>3
  <2> QED
    BY <2>1, <2>3, <2>4, <2>5, <2>6 DEF Order, Passed, PassedAfter
<1>4. CASE StopClearsQueue
  <2>1. /\ queue' = <<>> /\ DOMAIN queue' = {}
        /\ UNCHANGED <<pushing, copy, frames, takenKey, spc, frame, targets, client>>
    BY <1>4 DEF StopClearsQueue, ClearedQueue
  <2> QED
    BY <2>1 DEF Order, Passed
<1>5. CASE TakesFrame
  <2> DEFINE h == queue[1]
  <2>1. /\ queue # <<>> /\ frame' = h /\ queue' = Tail(queue) /\ spc' = "send"
        /\ takenKey' \in {h.id, takenKey} /\ targets' \subseteq Peers
        /\ UNCHANGED <<client, pushing, copy, frames>> /\ h \in Frame /\ 1 \in DOMAIN queue
    BY <1>0, <1>5, TailLeaves DEF TakesFrame, Connected
  <2>2. /\ LeftOf(queue', queue)
        /\ \A j \in DOMAIN queue' : j + 1 \in DOMAIN queue /\ j + 1 > 1 /\ queue'[j] = queue[j + 1]
    BY <1>0, <2>1, TailLeaves
  <2>3. /\ \A i, j \in DOMAIN queue' : i < j => queue'[i].id < queue'[j].id
        /\ \A i \in DOMAIN queue' : queue'[i].id <= frames' /\ (pushing' => queue'[i].id < copy'.id)
    BY <2>1, <2>2, LeftInOrder DEF Order
  <2>4. h.id <= frames /\ (pushing => h.id < copy.id) /\ \A j \in DOMAIN queue' : h.id < queue'[j].id
    BY <2>1, <2>2 DEF Order
  <2>5. PassedAfter(h.id)
    BY <2>1, <2>4 DEF PassedAfter
  <2>6. \A n : Passed(n) => PassedAfter(n)
    BY <2>1, <2>2 DEF Passed, PassedAfter
  <2>7. \A p \in Peers : client[p].last < h.id
    BY <2>1 DEF Order, Passed
  <2>8. PassedAfter(takenKey')
    BY <2>1, <2>5, <2>6 DEF Order
  <2>9. \A p \in Peers : PassedAfter(client'[p].last)
    BY <2>1, <2>6 DEF Order
  <2>10. PassedAfter(frame'.id) /\ \A p \in targets' : client'[p].last < frame'.id
    BY <2>1, <2>5, <2>7
  <2>11. pushing' => copy'.id = frames'
    BY <2>1 DEF Order
  <2> QED
    BY <2>3, <2>8, <2>9, <2>10, <2>11 DEF Order, Passed, PassedAfter
<1>6. CASE PushEnqueues
  <2>1. PICK m \in Seq(Frame) :
          /\ m = MakeRoom(queue) /\ LeftOf(m, queue) /\ copy \in Frame
          /\ queue' = Append(m, copy) /\ pushing /\ ~pushing'
          /\ newestKey' = (IF copy.key THEN copy.id ELSE newestKey)
          /\ UNCHANGED <<lifeVars, roundVars, clientVars, copy, backlog, frames, takenKey>>
    BY <1>6, PushKeeps
  <2>2. /\ \A i, j \in DOMAIN m : i < j => m[i].id < m[j].id
        /\ \A i \in DOMAIN m : m[i].id <= frames /\ m[i].id < copy.id
    BY <2>1, LeftInOrder DEF Order
  <2>3. /\ DOMAIN m = 1..Len(m) /\ Len(m) \in Nat /\ DOMAIN queue' = 1..(Len(m) + 1)
        /\ \A i \in DOMAIN queue' : i \in DOMAIN m \/ i = Len(m) + 1
        /\ \A i \in DOMAIN m : queue'[i] = m[i]
        /\ queue'[Len(m) + 1] = copy
    BY <2>1, AppendLeaves
  <2>4. copy.id = frames
    BY <2>1 DEF Order
  <2>5. \A i, j \in DOMAIN queue' : i < j => queue'[i].id < queue'[j].id
    BY <2>2, <2>3
  <2>6. \A i \in DOMAIN queue' : queue'[i].id <= frames
    BY <1>0, <2>2, <2>3, <2>4
  <2>7. \A n : Passed(n) => PassedAfter(n)
    <3> SUFFICES ASSUME NEW n, Passed(n)
                 PROVE  PassedAfter(n)
      OBVIOUS
    <3>1. \A i \in DOMAIN m : n < m[i].id
      BY <2>1, LeftInOrder DEF Passed
    <3>2. n < copy.id
      BY <2>1 DEF Passed
    <3> QED
      BY <2>1, <2>3, <3>1, <3>2 DEF Passed, PassedAfter
  <2>8. PassedAfter(takenKey') /\ (\A p \in Peers : PassedAfter(client'[p].last))
        /\ (spc' = "send" => PassedAfter(frame'.id)
                             /\ \A p \in targets' : client'[p].last < frame'.id)
    BY <2>1, <2>7 DEF Order
  <2> QED
    BY <2>1, <2>5, <2>6, <2>8 DEF Order, Passed, PassedAfter
<1>7. CASE \E key \in BOOLEAN : PushCopies(key)
  <2>1. /\ ~pushing /\ pushing' /\ frames' = frames + 1 /\ copy'.id = frames + 1
        /\ UNCHANGED <<queue, takenKey, client, spc, frame, targets>>
    BY <1>7 DEF PushCopies
  <2>2. ASSUME NEW n \in Nat, Passed(n)
        PROVE  PassedAfter(n)
    BY <1>0, <2>1, <2>2 DEF Passed, PassedAfter
  <2>3. \A i \in DOMAIN queue : queue[i].id <= frames' /\ queue[i].id < copy'.id
    BY <1>0, <2>1 DEF Order
  <2>4. PassedAfter(takenKey') /\ (\A p \in Peers : PassedAfter(client'[p].last))
        /\ (spc' = "send" => PassedAfter(frame'.id)
                             /\ \A p \in targets' : client'[p].last < frame'.id)
    BY <1>0, <2>1, <2>2 DEF Order
  <2> QED
    BY <2>1, <2>3, <2>4 DEF Order, Passed, PassedAfter
<1> QED
  BY <1>3, <1>4, <1>5, <1>6, <1>7, FrameKinds
\* Every step keeps the newest key frame in the queue, or lets the server take it.
LEMMA KeysStep ==
    ASSUME TypeOK, Descriptors, Phases, Places, Order, Keys, [Next]_vars
    PROVE  Keys'
<1>0. /\ queue \in Seq(Frame) /\ {frames, takenKey, newestKey} \subseteq Nat
      /\ \A i \in DOMAIN queue : i \in Nat /\ queue[i].id \in Nat
      /\ copy.id \in Nat /\ (pushing => copy.id = frames)
  <2>1. \A i \in DOMAIN queue : i \in Nat /\ queue[i] \in Frame
    BY ElementOfSeq DEF TypeOK
  <2>2. \A f \in Frame : f.id \in Nat
    BY DEF Frame
  <2> QED
    BY <2>1, <2>2 DEF TypeOK, Order
<1>1. CASE StillSteps
  BY <1>1, StillKeeps DEF Keys
<1>2. CASE StopClearsQueue
  <2>1. /\ DOMAIN queue' = {} /\ newestKey' = 0 /\ UNCHANGED <<pushing, copy, frames>>
    BY <1>2 DEF StopClearsQueue, ClearedQueue
  <2> QED
    BY <1>0, <2>1 DEF Keys
<1>3. CASE TakesFrame
  <2> DEFINE h == queue[1]
  <2>1. /\ queue # <<>> /\ queue' = Tail(queue) /\ 1 \in DOMAIN queue
        /\ takenKey' = (IF h.key THEN h.id ELSE takenKey)
        /\ UNCHANGED <<newestKey, pushing, copy, frames>>
    BY <1>0, <1>3, TailLeaves DEF TakesFrame
  <2>2. /\ \A j \in DOMAIN queue' : \E i \in DOMAIN queue : queue'[j] = queue[i]
        /\ \A i \in DOMAIN queue : i # 1 => \E j \in DOMAIN queue' : queue'[j] = queue[i]
    BY <1>0, <2>1, TailLeaves
  <2>3. \A i \in DOMAIN queue' : queue'[i].key => queue'[i].id <= newestKey
    BY <2>2 DEF Keys
  <2>4. newestKey = takenKey => takenKey' = takenKey
    <3>1. h.key => h.id <= newestKey /\ takenKey < h.id
      BY <2>1 DEF Keys, Order, Passed
    <3>2. h.id \in Nat
      BY <1>0, <2>1
    <3> QED
      BY <1>0, <2>1, <3>1, <3>2
  <2>5. ASSUME NEW i \in DOMAIN queue, queue[i].id = newestKey, queue[i].key
        PROVE  newestKey = takenKey' \/ \E j \in DOMAIN queue' : queue'[j] = queue[i]
    BY <2>1, <2>2, <2>5
  <2>6. newestKey' = 0 \/ newestKey' = takenKey'
          \/ \E i \in DOMAIN queue' : queue'[i].id = newestKey' /\ queue'[i].key
    BY <2>1, <2>4, <2>5 DEF Keys
  <2> QED
    BY <2>1, <2>3, <2>6 DEF Keys
<1>4. CASE PushEnqueues
  <2>1. PICK m \in Seq(Frame) :
          /\ m = MakeRoom(queue) /\ LeftOf(m, queue) /\ copy \in Frame
          /\ queue' = Append(m, copy) /\ pushing /\ ~pushing'
          /\ newestKey' = (IF copy.key THEN copy.id ELSE newestKey)
          /\ UNCHANGED <<lifeVars, roundVars, clientVars, copy, backlog, frames, takenKey>>
    BY <1>4, PushKeeps
  <2>2. \A i \in DOMAIN m : \E j \in DOMAIN queue : m[i] = queue[j]
    BY <2>1, LeftInOrder
  <2>3. /\ DOMAIN m = 1..Len(m) /\ Len(m) \in Nat /\ Len(m) + 1 \in DOMAIN queue'
        /\ \A i \in DOMAIN queue' : i \in DOMAIN m \/ i = Len(m) + 1
        /\ \A i \in DOMAIN m : i \in DOMAIN queue' /\ queue'[i] = m[i]
        /\ queue'[Len(m) + 1] = copy
    BY <2>1, AppendLeaves
  <2>4. newestKey <= frames /\ newestKey < copy.id /\ copy.id = frames
    BY <1>0, <2>1 DEF Keys
  <2>5. \A i \in DOMAIN m : m[i].key => m[i].id <= newestKey /\ m[i].id \in Nat
    BY <1>0, <2>2 DEF Keys
  <2>6. CASE copy.key
    <3>1. newestKey' = copy.id
      BY <2>1, <2>6
    <3>2. \A i \in DOMAIN queue' : queue'[i].key => queue'[i].id <= newestKey'
      BY <1>0, <2>3, <2>4, <2>5, <3>1
    <3>3. \E i \in DOMAIN queue' : queue'[i].id = newestKey' /\ queue'[i].key
      BY <2>3, <2>6, <3>1
    <3> QED
      BY <1>0, <2>1, <2>4, <3>1, <3>2, <3>3 DEF Keys
  <2>7. CASE ~copy.key
    <3>1. newestKey' = newestKey
      BY <2>1, <2>7
    <3>2. \A i \in DOMAIN queue' : queue'[i].key => queue'[i].id <= newestKey'
      BY <2>3, <2>5, <2>7, <3>1
    <3>3. ASSUME NEW i \in DOMAIN queue, queue[i].id = newestKey, queue[i].key
          PROVE  \E j \in DOMAIN queue' : queue'[j] = queue[i]
      <4>1. PICK n \in Nat :
              /\ n \in DOMAIN queue => ~queue[n].key \/ (n = 1 /\ 2 \in DOMAIN queue /\ queue[2].key)
              /\ \A k \in DOMAIN queue : k # n => \E j \in DOMAIN m : m[j] = queue[k]
        BY <2>1, MakeRoomLeaves DEF TypeOK
      <4>2. i # n
        <5>1. CASE i = n
          <6>1. i = 1 /\ 2 \in DOMAIN queue /\ queue[2].key
            BY <3>3, <4>1, <5>1
          <6>2. queue[1].id < queue[2].id
            BY <3>3, <6>1 DEF Order
          <6>3. queue[2].id <= newestKey
            BY <6>1 DEF Keys
          <6> QED
            BY <1>0, <3>3, <6>1, <6>2, <6>3
        <5> QED
          BY <5>1
      <4>3. PICK j \in DOMAIN m : m[j] = queue[i]
        BY <4>1, <4>2
      <4> QED
        BY <2>3, <4>3
    <3>4. newestKey' = 0 \/ newestKey' = takenKey'
            \/ \E i \in DOMAIN queue' : queue'[i].id = newestKey' /\ queue'[i].key
      BY <2>1, <3>1, <3>3 DEF Keys
    <3> QED
      BY <2>1, <2>4, <3>1, <3>2, <3>4 DEF Keys
  <2> QED
    BY <2>6, <2>7
<1>5. CASE \E key \in BOOLEAN : PushCopies(key)
  <2>1. /\ ~pushing /\ pushing' /\ frames' = frames + 1 /\ copy'.id = frames + 1
        /\ UNCHANGED <<queue, takenKey, newestKey>>
    BY <1>5 DEF PushCopies
  <2> QED
    BY <1>0, <2>1 DEF Keys
<1> QED
  BY <1>1, <1>2, <1>3, <1>4, <1>5, FrameKinds

\* Every step keeps all but one frame of the queue in the session that runs.
LEMMA SessionsStep ==
    ASSUME TypeOK, Descriptors, Phases, Places, Sessions, [Next]_vars
    PROVE  Sessions'
<1>0. {session, stopped} \subseteq Nat /\ queue \in Seq(Frame)
  BY DEF TypeOK
<1>1. CASE StillSteps
  <2>1. /\ UNCHANGED <<queueVars, pushVars, stopped>>
        /\ session' = session \/ session' = session + 1
        /\ running' => running \/ session' = session + 1
    BY <1>1, StillKeeps
  <2> QED
    BY <1>0, <2>1 DEF Sessions, Stale
<1>2. CASE StopClearsQueue
  <2>1. /\ DOMAIN queue' = {} /\ ~running' /\ stopped' = session' /\ session' = session
    BY <1>2 DEF StopClearsQueue, ClearedQueue, Phases
  <2> QED
    BY <1>0, <2>1 DEF Sessions
<1>3. ASSUME NEW m \in Seq(Frame), LeftOf(m, queue)
      PROVE  /\ \A i, j \in DOMAIN m : Stale(m[i]) /\ Stale(m[j]) => i = j
             /\ pushing /\ Stale(copy) => \A i \in DOMAIN m : ~Stale(m[i])
  <2>1. PICK at \in [DOMAIN m -> DOMAIN queue] :
          /\ \A i, j \in DOMAIN m : i < j => at[i] < at[j]
          /\ \A i \in DOMAIN m : m[i] = queue[at[i]]
    BY <1>3 DEF LeftOf
  <2>2. \A i \in DOMAIN m : i \in Nat /\ at[i] \in DOMAIN queue /\ at[i] \in Nat
                            /\ m[i] = queue[at[i]]
    BY <1>0, <2>1
  <2>3. \A i, j \in DOMAIN m : Stale(m[i]) /\ Stale(m[j]) => at[i] = at[j]
    BY <2>2 DEF Sessions
  <2>4. pushing /\ Stale(copy) => \A i \in DOMAIN m : ~Stale(m[i])
    BY <2>2 DEF Sessions
  <2>5. \A i, j \in DOMAIN m : at[i] = at[j] => i = j
    BY <2>1, <2>2
  <2> QED
    BY <2>3, <2>4, <2>5
<1>4. CASE TakesFrame
  <2>1. /\ LeftOf(queue', queue) /\ queue' \in Seq(Frame)
        /\ UNCHANGED <<running, session, stopped, pushing, copy>>
    BY <1>0, <1>4, TailLeaves DEF TakesFrame
  <2> QED
    BY <1>3, <2>1 DEF Sessions, Stale
<1>5. CASE PushEnqueues
  <2>1. PICK m \in Seq(Frame) :
          /\ m = MakeRoom(queue) /\ LeftOf(m, queue) /\ copy \in Frame
          /\ queue' = Append(m, copy) /\ pushing /\ ~pushing'
          /\ newestKey' = (IF copy.key THEN copy.id ELSE newestKey)
          /\ UNCHANGED <<lifeVars, roundVars, clientVars, copy, backlog, frames, takenKey>>
    BY <1>5, PushKeeps
  <2>2. /\ \A i, j \in DOMAIN m : Stale(m[i]) /\ Stale(m[j]) => i = j
        /\ Stale(copy) => \A i \in DOMAIN m : ~Stale(m[i])
    BY <1>3, <2>1
  <2>3. /\ \A i \in DOMAIN queue' : i \in DOMAIN m \/ i = Len(m) + 1
        /\ \A i \in DOMAIN m : queue'[i] = m[i]
        /\ queue'[Len(m) + 1] = copy
    BY <2>1, AppendLeaves
  <2>4. \A i, j \in DOMAIN queue' : Stale(queue'[i]) /\ Stale(queue'[j]) => i = j
    BY <2>2, <2>3
  <2> QED
    BY <2>1, <2>4 DEF Sessions, Stale
<1>6. CASE \E key \in BOOLEAN : PushCopies(key)
  <2>1. /\ running /\ copy'.sess = session
        /\ UNCHANGED <<queue, running, session, stopped>>
    BY <1>6 DEF PushCopies
  <2> QED
    BY <1>0, <2>1 DEF Sessions, Stale
<1> QED
  BY <1>1, <1>2, <1>4, <1>5, <1>6, FrameKinds
\* The server begins with nothing open, nobody connected and nothing queued.
LEMMA InitEstablishes == Init => RtspInv
<1> SUFFICES ASSUME Init PROVE RtspInv
  OBVIOUS
<1>1. /\ client \in [Peers -> ClientType] /\ \A p \in Peers : client[p] = NoClient
  BY NoClientType DEF Init
<1>2. Connected = {}
  BY <1>1, NoClientType DEF Connected
<1>3. Descriptors
  <2>1. Cardinality(Connected) <= kMaxClients
    BY <1>2, FS_EmptySet, RtspAssumption
  <2>2. Owned(client, listen, open)
    BY <1>1, NoClientType DEF Init, Owned
  <2> QED
    BY <1>1, <2>1, <2>2 DEF Init, Descriptors
<1>4. NoFrame \in Frame /\ DOMAIN queue = {}
  BY DEF Init, NoFrame, Frame
<1>5. TypeOK
  <2>1. <<>> \in Seq(Frame) /\ Len(<<>>) <= kMaxQueuedFrames
    BY RtspAssumption
  <2>2. /\ client \in [Peers -> [rtsp : Fds \cup {0}, udp : Fds \cup {0}, playing : BOOLEAN,
                                 tcp : BOOLEAN, last : Nat]]
        /\ listen \in Fds \cup {0} /\ open \subseteq Fds /\ Cardinality(Connected) <= kMaxClients
    BY <1>3 DEF Descriptors, ClientType
  <2>3. queue \in Seq(Frame) /\ Len(queue) <= kMaxQueuedFrames
    BY <2>1 DEF Init
  <2>4. frame \in Frame /\ copy \in Frame
    BY <1>4 DEF Init
  <2>5. running \in BOOLEAN /\ pushing \in BOOLEAN
    BY Zenon DEF Init
  <2>6. /\ ctl \in {"idle", "create", "joining", "clearing"}
        /\ spc \in {"none", "loop", "accept", "handle", "send", "gone"}
        /\ todo \subseteq Peers /\ targets \subseteq Peers /\ backlog \subseteq Peers
        /\ {session, stopped, frames, newestKey, takenKey} \subseteq Nat
    BY DEF Init
  <2> QED
    BY <2>2, <2>3, <2>4, <2>5, <2>6 DEF TypeOK
<1>6. Phases /\ Places
  BY <1>2 DEF Init, Phases, Places
<1>7. Order /\ Keys /\ Sessions
  BY <1>1, <1>4, NoClientType DEF Init, Order, Keys, Sessions, Passed
<1> QED
  BY <1>3, <1>5, <1>6, <1>7 DEF RtspInv

\* Every reachable state satisfies RtspInv.
THEOREM RtspInvariance == Spec => []RtspInv
<1>1. RtspInv /\ [Next]_vars => RtspInv'
  BY TypesStep, DescriptorsStep, PhasesStep, PlacesStep, OrderStep, KeysStep, SessionsStep
     DEF RtspInv
<1> QED
  BY <1>1, InitEstablishes, PTL DEF Spec

\* The variables keep their types, and neither the queue nor the clients outgrow their
\* limits.
THEOREM TypesKept == Spec => []TypeOK
<1>1. RtspInv => TypeOK
  BY DEF RtspInv
<1> QED
  BY <1>1, RtspInvariance, PTL

\* No descriptor is lost, shared or closed twice, whatever the clients ask for and however
\* they leave.
THEOREM DescriptorsOwned == Spec => []FdsOwnedOnce
<1>1. RtspInv => FdsOwnedOnce
  <2> SUFFICES ASSUME RtspInv PROVE FdsOwnedOnce
    OBVIOUS
  <2>1. Held = SlotsOf(client)
    BY DEF Held, SlotsOf
  <2> QED
    BY <2>1, SlotsCounted DEF RtspInv, Descriptors, FdsOwnedOnce
<1> QED
  BY <1>1, RtspInvariance, PTL

\* A server that does not run holds no thread, no descriptor and no client.
THEOREM StoppedIsEmpty == Spec => []StoppedHoldsNothing
<1>1. RtspInv => StoppedHoldsNothing
  BY DEF RtspInv, Phases, StoppedHoldsNothing
<1> QED
  BY <1>1, RtspInvariance, PTL

\* Whatever a full queue gives up, it is never the newest key frame.  (What it gives up may
\* be a frame that others behind the key frame refer to.)
THEOREM KeyFrameKept == Spec => []NewestKeyIsKept
<1>1. RtspInv => NewestKeyIsKept
  BY DEF RtspInv, Keys, NewestKeyIsKept
<1> QED
  BY <1>1, RtspInvariance, PTL

\* At most one frame of a stopped session is ever queued behind the Stop.
THEOREM OneStaleFrame == Spec => []StaleAtMostOne
<1>1. RtspInv => StaleAtMostOne
  <2> SUFFICES ASSUME RtspInv PROVE StaleAtMostOne
    OBVIOUS
  <2> DEFINE S == {i \in DOMAIN queue : queue[i].sess <= stopped}
  <2>1. \A i, j \in S : i = j
    BY DEF RtspInv, Sessions, Stale
  <2>2. CASE S = {}
    BY <2>2, FS_EmptySet DEF StaleAtMostOne
  <2>3. CASE S # {}
    <3>1. PICK i \in S : S = {i}
      BY <2>1, <2>3
    <3>2. Cardinality(S) = 1
      BY <3>1, FS_Singleton
    <3> QED
      BY <3>2 DEF StaleAtMostOne
  <2> QED
    BY <2>2, <2>3
<1> QED
  BY <1>1, RtspInvariance, PTL

\* No client is sent a frame twice, or one that was pushed before its last.
THEOREM FramesInOrder == Spec => SentInOrder
<1> DEFINE Step == \A p \in Peers : client'[p].last # client[p].last
                                     /\ client'[p].rtsp = client[p].rtsp
                                     => client'[p].last > client[p].last
<1>1. RtspInv /\ [Next]_vars => [Step]_vars
  <2> SUFFICES ASSUME RtspInv, [Next]_vars, NEW p \in Peers,
                      client'[p].last # client[p].last, client'[p].rtsp = client[p].rtsp
               PROVE  client'[p].last > client[p].last
    OBVIOUS
  <2>1. /\ client[p].last \in Nat /\ frame.id \in Nat
    BY DEF RtspInv, TypeOK, Frame
  <2>2. \/ client'[p].last = 0 /\ client[p].rtsp = 0
        \/ spc = "send" /\ p \in targets /\ client'[p].last = frame.id
    BY LastStep DEF RtspInv
  <2>3. CASE spc = "send" /\ p \in targets /\ client'[p].last = frame.id
    BY <2>1, <2>3 DEF RtspInv, Order
  <2>4. CASE client'[p].last = 0 /\ client[p].rtsp = 0
    BY <2>4, NoClientType DEF RtspInv, Descriptors, Owned
  <2> QED
    BY <2>2, <2>3, <2>4
<1> QED
  BY <1>1, RtspInvariance, PTL DEF Spec, SentInOrder
===============================================================================
