-------------------------- MODULE MediaPipelineProofs --------------------------
(***************************************************************************)
(* Proofs about the media pipeline for every set of sinks, and every       *)
(* number of starts, frames and calls of the clients.                      *)
(*                                                                         *)
(* MediaInv is inductive.  Phases says which stages and which place of the *)
(* stream thread go with each place of the controller; Lists and Round     *)
(* what the thread carries from one sink to the next; Late and Logs what   *)
(* each sink has got, and Due the frame it is to get next.                 *)
(***************************************************************************)
EXTENDS MediaPipeline, SequenceTheorems, TLAPS

USE DEF lifeVars, stageVars, ctlVars, roundVars, threadVars, sinkVars, encVars, dataVars

-----------------------------------------------------------------------------
(* Lemmas about the stages and the lists. *)

\* There are five stages, all different, with the encoders among them.
LEMMA StageNames ==
    /\ Len(Stages) = 5 /\ DOMAIN Stages = 1..5
    /\ \A i, j \in 1..5 : Stages[i] = Stages[j] => i = j
    /\ \A i \in 1..5 : Stages[i] \in Range(Stages)
    /\ \A x \in Range(Stages) : \E i \in 1..5 : x = Stages[i]
    /\ {"venc0", "venc1"} \subseteq Range(Stages)
<1>1. Len(Stages) = 5 /\ DOMAIN Stages = 1..5
  BY DEF Stages
<1>2. /\ Stages[1] = "sys" /\ Stages[2] = "vi" /\ Stages[3] = "vpss"
      /\ Stages[4] = "venc0" /\ Stages[5] = "venc1"
  BY DEF Stages
<1>3. \A i \in 1..5 : i = 1 \/ i = 2 \/ i = 3 \/ i = 4 \/ i = 5
  OBVIOUS
<1>4. \A i, j \in 1..5 : Stages[i] = Stages[j] => i = j
  BY <1>2, <1>3
<1>5. Range(Stages) = {Stages[i] : i \in 1..5}
  BY <1>1 DEF Range
<1>6. {"venc0", "venc1"} \subseteq Range(Stages)
  BY <1>2, <1>5
<1> QED
  BY <1>1, <1>4, <1>5, <1>6

\* No element is in the list twice.
Once(l) == \A i, j \in DOMAIN l : l[i] = l[j] => i = j

\* The empty list holds nothing.
LEMMA EmptyList == \A S : <<>> \in Seq(S) /\ Once(<<>>) /\ Range(<<>>) = {}
BY EmptySeq DEF Once, Range

\* A sink that is not in the list is put at its end.
LEMMA AppendOnce ==
    ASSUME NEW S, NEW l \in Seq(S), NEW s \in S
    PROVE  /\ Append(l, s) \in Seq(S) /\ Range(Append(l, s)) = Range(l) \cup {s}
           /\ Once(l) /\ s \notin Range(l) => Once(Append(l, s))
<1>1. /\ Append(l, s) \in Seq(S) /\ DOMAIN Append(l, s) = 1..(Len(l) + 1)
      /\ \A i \in 1..Len(l) : Append(l, s)[i] = l[i]
      /\ Append(l, s)[Len(l) + 1] = s /\ DOMAIN l = 1..Len(l) /\ Len(l) \in Nat
  OBVIOUS
<1>2. \A i \in 1..(Len(l) + 1) : i = Len(l) + 1 \/ i \in 1..Len(l)
  BY <1>1
<1>3. Range(Append(l, s)) = Range(l) \cup {s}
  <2>1. \A x \in Range(Append(l, s)) : x \in Range(l) \cup {s}
    BY <1>1, <1>2 DEF Range
  <2>2. \A x \in Range(l) \cup {s} : \E i \in 1..(Len(l) + 1) : x = Append(l, s)[i]
    BY <1>1 DEF Range
  <2> QED
    BY <1>1, <2>1, <2>2 DEF Range
<1>4. Once(l) /\ s \notin Range(l) => Once(Append(l, s))
  BY <1>1, <1>2 DEF Once, Range
<1> QED
  BY <1>1, <1>3, <1>4

\* What is left of a list when one place is taken out of it.
LEMMA RemoveOnce ==
    ASSUME NEW S, NEW l \in Seq(S), NEW n \in DOMAIN l
    PROVE  /\ RemoveAt(l, n) \in Seq(S)
           /\ Once(l) => Once(RemoveAt(l, n)) /\ Range(RemoveAt(l, n)) = Range(l) \ {l[n]}
<1> DEFINE r == RemoveAt(l, n)
<1>1. n \in 1..Len(l) /\ DOMAIN l = 1..Len(l) /\ Len(l) \in Nat
  OBVIOUS
<1>2. /\ r \in Seq(S) /\ Len(r) = Len(l) - 1
      /\ \A i \in 1..(Len(l) - 1) : r[i] = IF i < n THEN l[i] ELSE l[i + 1]
  <2> DEFINE a == SubSeq(l, 1, n - 1)
             b == SubSeq(l, n + 1, Len(l))
  <2>1. a \in Seq(S) /\ Len(a) = n - 1 /\ \A i \in 1..(n - 1) : a[i] = l[i]
    BY <1>1
  <2>2. b \in Seq(S) /\ Len(b) = Len(l) - n /\ \A i \in 1..(Len(l) - n) : b[i] = l[n + i]
    BY <1>1
  <2>3. r = a \o b
    BY DEF RemoveAt
  <2> HIDE DEF a, b, r
  <2>4. /\ r \in Seq(S) /\ Len(r) = Len(a) + Len(b)
        /\ \A i \in 1..(Len(a) + Len(b)) :
             r[i] = IF i <= Len(a) THEN a[i] ELSE b[i - Len(a)]
    <3>1. a \in Seq(S) /\ b \in Seq(S)
      BY <2>1, <2>2
    <3> QED
      BY <2>3, <3>1, ConcatProperties
  <2>5. ASSUME NEW i \in 1..(Len(l) - 1)
        PROVE  r[i] = IF i < n THEN l[i] ELSE l[i + 1]
    <3>1. CASE i < n
      BY <1>1, <2>1, <2>2, <2>4, <3>1
    <3>2. CASE ~(i < n)
      <4>1. i - (n - 1) \in 1..(Len(l) - n) /\ n + (i - (n - 1)) = i + 1
        BY <1>1, <3>2
      <4>2. r[i] = b[i - (n - 1)]
        BY <1>1, <2>1, <2>2, <2>4, <3>2
      <4> QED
        BY <2>2, <3>2, <4>1, <4>2
    <3> QED
      BY <3>1, <3>2
  <2> QED
    BY <1>1, <2>1, <2>2, <2>4, <2>5
<1> HIDE DEF r
<1>3. ASSUME Once(l)
      PROVE  Once(r) /\ Range(r) = Range(l) \ {l[n]}
  <2>1. DOMAIN r = 1..(Len(l) - 1)
    BY <1>1, <1>2
  <2> DEFINE at(i) == IF i < n THEN i ELSE i + 1
  <2>2. \A i \in 1..(Len(l) - 1) : at(i) \in 1..Len(l) /\ at(i) # n /\ r[i] = l[at(i)]
    BY <1>1, <1>2
  <2>3. \A i, j \in 1..(Len(l) - 1) : at(i) = at(j) => i = j
    BY <1>1
  <2>4. \A k \in 1..Len(l) : k # n => \E i \in 1..(Len(l) - 1) : k = at(i)
    <3> TAKE k \in 1..Len(l)
    <3> HAVE k # n
    <3>1. CASE k < n
      <4>1. k \in 1..(Len(l) - 1) /\ at(k) = k
        BY <1>1, <3>1
      <4> QED
        BY <4>1
    <3>2. CASE ~(k < n)
      <4>1. k - 1 \in 1..(Len(l) - 1) /\ at(k - 1) = k
        BY <1>1, <3>2
      <4> QED
        BY <4>1
    <3> QED
      BY <3>1, <3>2
  <2> HIDE DEF at
  <2>5. Once(r)
    BY <1>1, <1>3, <2>1, <2>2, <2>3 DEF Once
  <2>6. \A x \in Range(r) : x \in Range(l) /\ x # l[n]
    BY <1>1, <1>3, <2>1, <2>2 DEF Once, Range
  <2>7. \A x \in Range(l) : x # l[n] => x \in Range(r)
    BY <1>1, <2>1, <2>2, <2>4 DEF Range
  <2> QED
    BY <2>5, <2>6, <2>7
<1> QED
  BY <1>2, <1>3 DEF r

\* The first of a list, and the others.
LEMMA TailOnce ==
    ASSUME NEW S, NEW l \in Seq(S), l # <<>>, Once(l)
    PROVE  /\ Head(l) \in S /\ Head(l) \in Range(l)
           /\ Tail(l) \in Seq(S) /\ Once(Tail(l)) /\ Range(Tail(l)) = Range(l) \ {Head(l)}
<1>1. /\ Len(l) \in Nat /\ Len(l) >= 1 /\ DOMAIN l = 1..Len(l) /\ Head(l) = l[1] /\ l[1] \in S
      /\ Tail(l) \in Seq(S) /\ DOMAIN Tail(l) = 1..(Len(l) - 1)
      /\ \A i \in 1..(Len(l) - 1) : Tail(l)[i] = l[i + 1]
  BY HeadTailProperties
<1>2. \A i \in 1..(Len(l) - 1) : i + 1 \in 1..Len(l) /\ i + 1 # 1
  BY <1>1
<1>3. \A k \in 1..Len(l) : k # 1 => k - 1 \in 1..(Len(l) - 1) /\ k = (k - 1) + 1
  BY <1>1
<1>4. 1 \in 1..Len(l)
  BY <1>1
<1>5. Once(Tail(l))
  BY <1>1, <1>2 DEF Once
<1>6. \A x \in Range(Tail(l)) : x \in Range(l) /\ x # Head(l)
  BY <1>1, <1>2, <1>4 DEF Once, Range
<1>7. \A x \in Range(l) : x # Head(l) => x \in Range(Tail(l))
  <2> SUFFICES ASSUME NEW k \in 1..Len(l), l[k] # Head(l)
               PROVE  \E i \in DOMAIN Tail(l) : Tail(l)[i] = l[k]
    BY <1>1 DEF Range
  <2>1. k # 1
    BY <1>1
  <2> QED
    BY <1>1, <1>3, <2>1
<1> QED
  BY <1>1, <1>4, <1>5, <1>6, <1>7 DEF Range

\* The last frame of the channel in the list, if there is one, came before frame n.
LastIs(l, ch, n) ==
    \A i \in DOMAIN l :
        l[i].ch = ch /\ (\A k \in DOMAIN l : k > i => l[k].ch # ch) => l[i].seq + 1 = n

\* A sink that has got nothing is in order, and anything may come next.
LEMMA NothingYet == \A ch, n : <<>> \in Seq(Frame) /\ InOrder(<<>>, ch) /\ LastIs(<<>>, ch, n)
BY EmptySeq DEF InOrder, LastIs

\* The frame that is due keeps a sink's frames in order, on its own channel and the other.
LEMMA AppendInOrder ==
    ASSUME NEW l \in Seq(Frame), NEW f \in Frame, LastIs(l, f.ch, f.seq)
    PROVE  /\ Append(l, f) \in Seq(Frame)
           /\ \A ch \in Channels : InOrder(l, ch) => InOrder(Append(l, f), ch)
           /\ LastIs(Append(l, f), f.ch, f.seq + 1)
           /\ \A ch, n : ch # f.ch /\ LastIs(l, ch, n) => LastIs(Append(l, f), ch, n)
<1> DEFINE m == Append(l, f)
<1>1. /\ m \in Seq(Frame) /\ DOMAIN m = 1..(Len(l) + 1) /\ DOMAIN l = 1..Len(l)
      /\ \A i \in 1..Len(l) : m[i] = l[i]
      /\ m[Len(l) + 1] = f /\ Len(l) \in Nat
  OBVIOUS
<1>2. \A i \in 1..(Len(l) + 1) : i = Len(l) + 1 \/ i \in 1..Len(l)
  BY <1>1
<1> HIDE DEF m
<1>3. ASSUME NEW ch \in Channels, InOrder(l, ch)
      PROVE  InOrder(m, ch)
  <2> SUFFICES ASSUME NEW i \in DOMAIN m, NEW j \in DOMAIN m, i < j, m[i].ch = ch, m[j].ch = ch,
                      \A k \in (i + 1)..(j - 1) : m[k].ch # ch
               PROVE  m[j].seq = m[i].seq + 1
    BY DEF InOrder
  <2>1. i \in 1..Len(l) /\ m[i] = l[i]
    BY <1>1, <1>2
  <2>2. CASE j = Len(l) + 1
    <3>1. \A k \in DOMAIN l : k > i => l[k].ch # ch
      BY <1>1, <2>1, <2>2
    <3>2. l[i].seq + 1 = f.seq
      BY <1>1, <2>1, <2>2, <3>1 DEF LastIs
    <3> QED
      BY <1>1, <2>1, <2>2, <3>2
  <2>3. CASE j \in 1..Len(l)
    <3>1. \A k \in (i + 1)..(j - 1) : l[k].ch # ch
      BY <1>1, <2>1, <2>3
    <3> QED
      BY <1>1, <1>3, <2>1, <2>3, <3>1 DEF InOrder
  <2> QED
    BY <1>1, <1>2, <2>2, <2>3
<1>4. LastIs(m, f.ch, f.seq + 1)
  <2> SUFFICES ASSUME NEW i \in DOMAIN m, m[i].ch = f.ch,
                      \A k \in DOMAIN m : k > i => m[k].ch # f.ch
               PROVE  m[i].seq + 1 = f.seq + 1
    BY DEF LastIs
  <2>1. i = Len(l) + 1
    BY <1>1, <1>2
  <2> QED
    BY <1>1, <2>1
<1>5. ASSUME NEW ch, NEW n, ch # f.ch, LastIs(l, ch, n)
      PROVE  LastIs(m, ch, n)
  <2> SUFFICES ASSUME NEW i \in DOMAIN m, m[i].ch = ch,
                      \A k \in DOMAIN m : k > i => m[k].ch # ch
               PROVE  m[i].seq + 1 = n
    BY DEF LastIs
  <2>1. i \in 1..Len(l) /\ m[i] = l[i]
    BY <1>1, <1>2, <1>5
  <2>2. \A k \in DOMAIN l : k > i => l[k].ch # ch
    BY <1>1, <2>1
  <2> QED
    BY <1>1, <1>5, <2>1, <2>2 DEF LastIs
<1> QED
  BY <1>1, <1>3, <1>4, <1>5 DEF m

-----------------------------------------------------------------------------
(* The inductive invariant. *)

\* The controller's place, the stages that are up, and the stream thread's place.
Phases ==
    /\ \A i, j \in 1..Len(Stages) : i < j /\ Stages[j] \in held => Stages[i] \in held
    /\ ctl = "idle" => IF running THEN spc \notin {"none", "gone"} ELSE held = {} /\ spc = "none"
    /\ ctl # "idle" => ~running
    /\ ctl \in {"starting", "stopping"} => spc = "none"
    /\ spc # "none" => AllHeld

\* Only a thread that delivers has a frame in hand, the newest of its channel.
Round ==
    /\ spc # "deliver" => snap = <<>> /\ ~inHand.held
    /\ spc = "deliver" => inHand.held /\ sequence[inHand.ch] = inHand.seq + 1

\* No list holds a sink twice, and sinks_ holds those whose clients take them for registered.
Lists == Once(sinks) /\ Once(snap) /\ Range(sinks) = members

\* The sinks that may still be called as they should: registered, or in the thread's copy.
Called == members \cup Range(snap)

Late == (\A s \in Sinks : late[s] <= 1) /\ (\A s \in Called : late[s] = 0)

\* The next frame of the channel for a sink: the one in hand, while it waits for it.
Due(s, ch) == IF s \in Range(snap) /\ ch = inHand.ch THEN inHand.seq ELSE sequence[ch]

Logs ==
    /\ SinksSeeEveryFrame
    /\ \A s \in Called, ch \in Channels : LastIs(log[s], ch, Due(s, ch))

\* The inductive invariant.
MediaInv == TypeOK /\ Phases /\ Round /\ Lists /\ Late /\ Logs

\* The kinds of steps: those of the controller and of the encoders, those of the thread
\* that leave the frame in hand and the sinks alone, and the others.
StageSteps == \E i \in 1..Len(Stages) : StageStarts(i) \/ StageFails(i) \/ StageStops(i)
PlaceSteps ==
    \/ Configure \/ StartBegins \/ StartCreateFails \/ StopClears \/ StopJoins \/ StopReturns
    \/ Pause \/ Resume \/ UNCHANGED vars
RoundSteps ==
    \/ Selects \/ StreamEnds \/ NothingToGet \/ RoundEnds
    \/ \E ch \in Channels : EncoderProduces(ch)
QuietSteps == StageSteps \/ PlaceSteps \/ RoundSteps
FrameSteps == GetsStream \/ Delivers \/ ReleasesStream
SinkSteps == \E s \in Sinks : RegisterSink(s) \/ UnregisterSink(s)

\* Every step is of one of the kinds.
LEMMA StepKinds == [Next]_vars <=> QuietSteps \/ StartCreates \/ FrameSteps \/ SinkSteps
BY DEF Next, Start, Stop, StreamThread, DispatchStream, Client, StageSteps, PlaceSteps,
   RoundSteps, QuietSteps, FrameSteps, SinkSteps

\* What the quiet steps leave alone.
LEMMA QuietUnchanged ==
    QuietSteps => UNCHANGED <<inHand, snap, sequence, sinkVars>> /\ (spc' = "deliver" <=> spc = "deliver")
<1>1. StageSteps => UNCHANGED <<inHand, snap, sequence, sinkVars, spc>>
  BY DEF StageSteps, StageStarts, StageFails, StageStops
<1>2. PlaceSteps => UNCHANGED <<inHand, snap, sequence, sinkVars>> /\ (spc' = "deliver" <=> spc = "deliver")
  BY DEF PlaceSteps, Configure, StartBegins, StartCreateFails, StopClears, StopJoins,
     StopReturns, Pause, Resume, CanToggle, vars
<1>3. RoundSteps => UNCHANGED <<inHand, snap, sequence, sinkVars>> /\ (spc' = "deliver" <=> spc = "deliver")
  BY DEF RoundSteps, Selects, StreamEnds, NothingToGet, RoundEnds, EncoderProduces
<1> QED
  BY <1>1, <1>2, <1>3 DEF QuietSteps

\* Every step keeps the types.
LEMMA TypesStep ==
    ASSUME TypeOK, [Next]_vars
    PROVE  TypeOK'
<1> USE DEF TypeOK
<1>1. CASE StageSteps
  <2> PICK i \in 1..Len(Stages) : StageStarts(i) \/ StageFails(i) \/ StageStops(i)
    BY <1>1 DEF StageSteps
  <2>0. Stages[i] \in Range(Stages)
    BY StageNames
  <2>1. /\ bound' \subseteq held' /\ held' \subseteq Range(Stages) /\ ready' \subseteq Channels
        /\ ctl' \in {"idle", "starting", "joining", "stopping"}
    BY <2>0, StageNames DEF StageStarts, StageFails, StageStops, Unbound
  <2>2. UNCHANGED <<lifeVars, threadVars, sinkVars, produced, toggles>>
    BY DEF StageStarts, StageFails, StageStops
  <2> QED
    BY <2>1, <2>2
<1>2. CASE PlaceSteps
  <2>1. UNCHANGED <<stageVars, roundVars, sinkVars, encVars>>
    BY <1>2 DEF PlaceSteps, Configure, StartBegins, StartCreateFails, StopClears, StopJoins,
       StopReturns, Pause, Resume, CanToggle, vars
  <2>2. /\ ctl' \in {"idle", "starting", "joining", "stopping"}
        /\ spc' \in {"none", "loop", "dispatch", "deliver", "gone"}
    BY <1>2 DEF PlaceSteps, Configure, StartBegins, StartCreateFails, StopClears, StopJoins,
       StopReturns, Pause, Resume, CanToggle, vars
  <2>3. starts' \in Nat /\ toggles' \in Nat
    BY <1>2 DEF PlaceSteps, Configure, StartBegins, StartCreateFails, StopClears, StopJoins,
       StopReturns, Pause, Resume, CanToggle, vars
  <2>4. initialized' \in BOOLEAN /\ running' \in BOOLEAN /\ paused' \in BOOLEAN
    BY <1>2, Zenon DEF PlaceSteps, Configure, StartBegins, StartCreateFails, StopClears,
       StopJoins, StopReturns, Pause, Resume, CanToggle, vars
  <2> QED
    BY <2>1, <2>2, <2>3, <2>4
<1>3. CASE RoundSteps
  <2>1. UNCHANGED <<ctlVars, inHand, snap, sequence, sinkVars, toggles>>
    BY <1>3 DEF RoundSteps, Selects, StreamEnds, NothingToGet, RoundEnds, EncoderProduces
  <2>2. /\ spc' \in {"none", "loop", "dispatch", "deliver", "gone"}
        /\ ready' \subseteq Channels /\ produced' \in Nat
    BY <1>3 DEF RoundSteps, Selects, StreamEnds, NothingToGet, RoundEnds, EncoderProduces
  <2>3. todo' \in Seq(Channels)
    <3>1. <<0>> \in Seq(Channels) /\ <<1>> \in Seq(Channels) /\ <<0, 1>> \in Seq(Channels)
      BY DEF Channels
    <3>2. todo # <<>> => Tail(todo) \in Seq(Channels)
      BY HeadTailProperties
    <3> QED
      BY <1>3, <3>1, <3>2 DEF RoundSteps, Selects, StreamEnds, NothingToGet, RoundEnds,
         EncoderProduces
  <2> QED
    BY <2>1, <2>2, <2>3
<1>4. CASE StartCreates
  <2>1. sequence' \in [Channels -> Nat] /\ log' \in [Sinks -> Seq(Frame)]
    BY <1>4, NothingYet DEF StartCreates
  <2> QED
    BY <1>4, <2>1 DEF StartCreates
<1>5. CASE GetsStream
  <2> DEFINE ch == Head(todo)
  <2>1. ch \in Channels /\ Tail(todo) \in Seq(Channels)
    BY <1>5, HeadTailProperties DEF GetsStream
  <2>2. sequence[ch] \in Nat /\ sequence[ch] + 1 \in Nat
    BY <2>1
  <2>3. inHand' \in [ch : Channels, seq : Nat, held : BOOLEAN]
    BY <1>5, <2>1, <2>2 DEF GetsStream
  <2>4. sequence' \in [Channels -> Nat] /\ ready' \subseteq Channels
    BY <1>5, <2>1, <2>2 DEF GetsStream
  <2> QED
    BY <1>5, <2>1, <2>3, <2>4 DEF GetsStream
<1>6. CASE Delivers
  <2> DEFINE s == Head(snap)
             f == [ch |-> inHand.ch, seq |-> inHand.seq]
  <2>1. s \in Sinks /\ Tail(snap) \in Seq(Sinks)
    BY <1>6, HeadTailProperties DEF Delivers
  <2>2. f \in Frame
    BY DEF Frame
  <2>3. Append(log[s], f) \in Seq(Frame) /\ late[s] + 1 \in Nat
    BY <2>1, <2>2, AppendProperties
  <2>4. log' \in [Sinks -> Seq(Frame)]
    BY <1>6, <2>1, <2>3 DEF Delivers
  <2>5. late' \in [Sinks -> Nat]
    <3>1. late' \in {late, [late EXCEPT ![s] = @ + 1]}
      BY <1>6 DEF Delivers
    <3> QED
      BY <2>3, <3>1
  <2> QED
    BY <1>6, <2>1, <2>4, <2>5 DEF Delivers
<1>7. CASE ReleasesStream
  <2>1. inHand' \in [ch : Channels, seq : Nat, held : BOOLEAN]
    BY <1>7 DEF ReleasesStream, NoFrame, Channels
  <2> QED
    BY <1>7, <2>1 DEF ReleasesStream
<1>8. CASE SinkSteps
  <2> PICK s \in Sinks : RegisterSink(s) \/ UnregisterSink(s)
    BY <1>8 DEF SinkSteps
  <2>1. /\ UNCHANGED <<ctlVars, threadVars, encVars>>
        /\ members' \subseteq Sinks /\ toggles' \in Nat
    BY DEF RegisterSink, UnregisterSink, CanToggle
  <2>2. sinks' \in Seq(Sinks)
    <3>1. With(s) \in Seq(Sinks)
      BY AppendOnce DEF With
    <3>2. Without(s) \in Seq(Sinks)
      <4>1. CASE s \in Range(sinks)
        <5>1. (CHOOSE i \in DOMAIN sinks : sinks[i] = s) \in DOMAIN sinks
          BY <4>1 DEF Range
        <5> QED
          BY <4>1, <5>1, RemoveOnce DEF Without
      <4> QED
        BY <4>1 DEF Without
    <3> QED
      BY <3>1, <3>2 DEF RegisterSink, UnregisterSink
  <2>3. late' \in [Sinks -> Nat] /\ log' \in [Sinks -> Seq(Frame)]
    <3>1. late' \in {late, [late EXCEPT ![s] = 0]} /\ log' \in {log, [log EXCEPT ![s] = <<>>]}
      BY DEF RegisterSink, UnregisterSink
    <3>2. <<>> \in Seq(Frame) /\ 0 \in Nat
      BY NothingYet
    <3>3. [late EXCEPT ![s] = 0] \in [Sinks -> Nat]
      BY <3>2
    <3>4. [log EXCEPT ![s] = <<>>] \in [Sinks -> Seq(Frame)]
      BY <3>2
    <3> QED
      BY <3>1, <3>3, <3>4
  <2> QED
    BY <2>1, <2>2, <2>3
<1> QED
  BY <1>1, <1>2, <1>3, <1>4, <1>5, <1>6, <1>7, <1>8, StepKinds DEF QuietSteps, FrameSteps
\* Every step keeps the order of the stages, and the thread on live ones.
LEMMA PhasesStep ==
    ASSUME TypeOK, Phases, [Next]_vars
    PROVE  Phases'
<1>1. CASE StageSteps
  <2> PICK i \in 1..Len(Stages) : StageStarts(i) \/ StageFails(i) \/ StageStops(i)
    BY <1>1 DEF StageSteps
  <2>0. i \in 1..5 /\ Stages[i] \in Range(Stages)
    BY StageNames
  <2>1. ctl \in {"starting", "stopping"} /\ ctl' \in {ctl, "joining"} /\ UNCHANGED <<spc, running>>
    BY DEF StageStarts, StageFails, StageStops, Comes
  <2>2. spc = "none" /\ ~running
    BY <2>1 DEF Phases
  <2>3. \A k, j \in 1..5 : k < j /\ Stages[j] \in held' => Stages[k] \in held'
    <3>1. CASE StageStops(i)
      <4>1. held' = held \ {Stages[i]} /\ \A j \in 1..5 : Stages[j] \in held => ~(j > i)
        BY <2>0, <3>1, StageNames DEF StageStops, Topmost
      <4>2. \A k, j \in 1..5 : k < j /\ Stages[j] \in held => Stages[k] \in held
        BY StageNames DEF Phases
      <4>3. \A k \in 1..5 : Stages[k] = Stages[i] => k = i
        BY <2>0, StageNames
      <4> QED
        BY <2>0, <4>1, <4>2, <4>3
    <3>2. CASE StageStarts(i) \/ StageFails(i)
      <4>1. held = {Stages[j] : j \in 1..(i - 1)} /\ held' \in {held, held \cup {Stages[i]}}
        BY <3>2 DEF StageStarts, StageFails, Comes
      <4>2. \A j \in 1..5 : Stages[j] \in held => j < i
        BY <2>0, <4>1, StageNames
      <4>3. \A j \in 1..5 : j < i => Stages[j] \in held
        BY <2>0, <4>1
      <4>4. \A j \in 1..5 : Stages[j] \in held' => j < i \/ j = i
        BY <2>0, <4>1, <4>2, StageNames
      <4>5. \A j \in 1..5 : j < i => Stages[j] \in held'
        BY <4>1, <4>3
      <4> QED
        BY <2>0, <4>4, <4>5
    <3> QED
      BY <3>1, <3>2
  <2> QED
    BY <2>1, <2>2, <2>3, StageNames DEF Phases
<1>2. CASE PlaceSteps
  BY <1>2 DEF PlaceSteps, Configure, StartBegins, StartCreateFails, StopClears, StopJoins,
     StopReturns, Pause, Resume, CanToggle, vars, Phases, AllHeld, TypeOK
<1>3. CASE RoundSteps \/ FrameSteps
  <2>1. \/ UNCHANGED <<ctlVars, spc>>
        \/ /\ UNCHANGED ctlVars /\ spc \notin {"none", "gone"}
           /\ spc' # "none" /\ (spc' = "gone" => ~running)
    BY <1>3 DEF RoundSteps, Selects, StreamEnds, NothingToGet, RoundEnds, EncoderProduces,
       FrameSteps, GetsStream, Delivers, ReleasesStream
  <2> QED
    BY <2>1 DEF Phases, AllHeld
<1>4. CASE StartCreates
  BY <1>4 DEF StartCreates, Phases, AllHeld
<1>5. CASE SinkSteps
  BY <1>5 DEF SinkSteps, RegisterSink, UnregisterSink, CanToggle, Phases, AllHeld
<1> QED
  BY <1>1, <1>2, <1>3, <1>4, <1>5, StepKinds DEF QuietSteps

\* Every step keeps the frame in hand and its number together.
LEMMA RoundStep ==
    ASSUME TypeOK, Phases, Round, [Next]_vars
    PROVE  Round'
<1>1. CASE QuietSteps
  BY <1>1, QuietUnchanged DEF Round
<1>2. CASE StartCreates
  BY <1>2 DEF StartCreates, Phases, Round
<1>3. CASE GetsStream
  <2>1. Head(todo) \in Channels
    BY <1>3, HeadTailProperties DEF GetsStream, TypeOK
  <2> QED
    BY <1>3, <2>1 DEF GetsStream, Round, TypeOK
<1>4. CASE Delivers \/ ReleasesStream
  BY <1>4 DEF Delivers, ReleasesStream, Round, NoFrame
<1>5. CASE SinkSteps
  BY <1>5 DEF SinkSteps, RegisterSink, UnregisterSink, Round
<1> QED
  BY <1>1, <1>2, <1>3, <1>4, <1>5, StepKinds DEF FrameSteps

\* Every step keeps the lists free of repetition, and sinks_ what the clients take it for.
LEMMA ListsStep ==
    ASSUME TypeOK, Phases, Lists, [Next]_vars
    PROVE  Lists'
<1>1. CASE QuietSteps
  BY <1>1, QuietUnchanged DEF Lists
<1>2. CASE StartCreates \/ ReleasesStream
  BY <1>2 DEF StartCreates, ReleasesStream, Lists
<1>3. CASE GetsStream
  BY <1>3 DEF GetsStream, Lists
<1>4. CASE Delivers
  BY <1>4, TailOnce DEF Delivers, Lists, TypeOK
<1>5. CASE SinkSteps
  <2> PICK s \in Sinks : RegisterSink(s) \/ UnregisterSink(s)
    BY <1>5 DEF SinkSteps
  <2>1. CASE RegisterSink(s)
    <3>1. sinks' = With(s) /\ members' = members \cup {s} /\ snap' = snap
      BY <2>1 DEF RegisterSink
    <3>2. Once(With(s)) /\ Range(With(s)) = Range(sinks) \cup {s}
      BY AppendOnce DEF With, Lists, TypeOK
    <3> QED
      BY <3>1, <3>2 DEF Lists
  <2>2. CASE UnregisterSink(s)
    <3>1. sinks' = Without(s) /\ members' = members \ {s} /\ snap' = snap
      BY <2>2 DEF UnregisterSink
    <3>2. Once(Without(s)) /\ Range(Without(s)) = Range(sinks) \ {s}
      <4>1. CASE s \in Range(sinks)
        <5> DEFINE n == CHOOSE i \in DOMAIN sinks : sinks[i] = s
        <5>1. n \in DOMAIN sinks /\ sinks[n] = s
          BY <4>1 DEF Range
        <5>2. Without(s) = RemoveAt(sinks, n)
          BY <4>1 DEF Without
        <5> HIDE DEF n
        <5> QED
          BY <5>1, <5>2, RemoveOnce DEF Lists, TypeOK
      <4>2. CASE s \notin Range(sinks)
        BY <4>2 DEF Without, Lists
      <4> QED
        BY <4>1, <4>2
    <3> QED
      BY <3>1, <3>2 DEF Lists
  <2> QED
    BY <2>1, <2>2
<1> QED
  BY <1>1, <1>2, <1>3, <1>4, <1>5, StepKinds DEF FrameSteps

\* A sink gets a late frame only while it is in the thread's copy, and is then out of it.
LEMMA LateStep ==
    ASSUME TypeOK, Round, Lists, Late, [Next]_vars
    PROVE  Late'
<1> USE DEF Called
<1>1. CASE QuietSteps
  BY <1>1, QuietUnchanged DEF Late
<1>2. CASE StartCreates \/ ReleasesStream
  BY <1>2 DEF StartCreates, ReleasesStream, Late
<1>3. CASE GetsStream
  BY <1>3 DEF GetsStream, Late, Lists
<1>4. CASE Delivers
  <2> DEFINE s == Head(snap)
  <2>1. s \in Sinks /\ s \in Range(snap) /\ Range(Tail(snap)) = Range(snap) \ {s}
    BY <1>4, TailOnce DEF Delivers, Lists, TypeOK
  <2>2. snap' = Tail(snap) /\ members' = members
    BY <1>4 DEF Delivers
  <2>3. late' = IF s \in members THEN late ELSE [late EXCEPT ![s] = @ + 1]
    BY <1>4 DEF Delivers
  <2>4. late[s] = 0 /\ late \in [Sinks -> Nat]
    BY <2>1 DEF Late, TypeOK
  <2>5. Range(snap') = Range(snap) \ {s}
    BY <2>1, <2>2
  <2> HIDE DEF s
  <2>6. \A x \in Sinks : late'[x] <= 1
    BY <2>1, <2>3, <2>4 DEF Late
  <2>7. members \subseteq Sinks /\ Range(snap) \subseteq Sinks
    BY ElementOfSeq DEF TypeOK, Range
  <2>8. \A x \in members \cup Range(snap') : late'[x] = 0
    BY <2>1, <2>3, <2>4, <2>5, <2>7 DEF Late
  <2> QED
    BY <2>2, <2>6, <2>8 DEF Late
<1>5. CASE SinkSteps
  <2> PICK s \in Sinks : RegisterSink(s) \/ UnregisterSink(s)
    BY <1>5 DEF SinkSteps
  <2>1. /\ late' \in {late, [late EXCEPT ![s] = 0]}
        /\ members' \subseteq members \cup {s} /\ snap' = snap
        /\ s \in members' => s \in members \/ late' = [late EXCEPT ![s] = 0]
    BY DEF RegisterSink, UnregisterSink
  <2>2. members \subseteq Sinks /\ Range(snap) \subseteq Sinks /\ late \in [Sinks -> Nat]
    BY ElementOfSeq DEF TypeOK, Range
  <2>3. \A x \in Sinks : late'[x] <= 1
    BY <2>1, <2>2 DEF Late
  <2>4. \A x \in members' \cup Range(snap) : late'[x] = 0
    BY <2>1, <2>2 DEF Late
  <2> QED
    BY <2>1, <2>3, <2>4 DEF Late
<1> QED
  BY <1>1, <1>2, <1>3, <1>4, <1>5, StepKinds DEF FrameSteps
\* Every step leaves a sink with the frames it was due, in order.
LEMMA LogsStep ==
    ASSUME TypeOK, Phases, Round, Lists, Logs, [Next]_vars
    PROVE  Logs'
<1>0. members \subseteq Sinks /\ Range(snap) \subseteq Sinks
  BY ElementOfSeq DEF TypeOK, Range
<1>1. CASE QuietSteps
  <2>1. UNCHANGED <<inHand, snap, sequence, sinkVars>>
    BY <1>1, QuietUnchanged
  <2> QED
    BY <2>1 DEF Logs, SinksSeeEveryFrame, Due, Called
<1>2. CASE StartCreates
  <2>1. \A s \in Sinks : log'[s] = <<>>
    BY <1>2 DEF StartCreates
  <2>2. snap' = snap /\ members' = members
    BY <1>2 DEF StartCreates
  <2> QED
    BY <1>0, <2>1, <2>2, NothingYet DEF Logs, SinksSeeEveryFrame, Called
<1>3. CASE GetsStream
  <2> DEFINE ch == Head(todo)
  <2>1. /\ snap = <<>> /\ snap' = sinks /\ Range(sinks) = members
        /\ members' = members /\ log' = log
    BY <1>3 DEF GetsStream, Round, Lists
  <2>2. ch \in Channels /\ inHand'.ch = ch /\ inHand'.seq = sequence[ch]
    BY <1>3, HeadTailProperties DEF GetsStream, TypeOK
  <2>3. sequence' = [sequence EXCEPT ![ch] = @ + 1] /\ sequence \in [Channels -> Nat]
    BY <1>3 DEF GetsStream, TypeOK
  <2> HIDE DEF ch
  <2>4. \A s \in members, c \in Channels : Due(s, c)' = sequence[c]
    <3> TAKE s \in members, c \in Channels
    <3>1. s \in Range(snap')
      BY <2>1
    <3> QED
      BY <2>2, <2>3, <3>1 DEF Due
  <2>5. \A s \in members, c \in Channels : Due(s, c) = sequence[c]
    BY <2>1, EmptyList DEF Due
  <2>6. Called' = members /\ members \subseteq Called
    BY <2>1 DEF Called
  <2> QED
    BY <2>1, <2>4, <2>5, <2>6 DEF Logs, SinksSeeEveryFrame
<1>4. CASE Delivers
  <2> DEFINE s == Head(snap)
             f == [ch |-> inHand.ch, seq |-> inHand.seq]
  <2>1. s \in Sinks /\ s \in Range(snap) /\ Range(Tail(snap)) = Range(snap) \ {s}
    BY <1>4, TailOnce DEF Delivers, Lists, TypeOK
  <2>2. /\ log' = [log EXCEPT ![s] = Append(log[s], f)] /\ snap' = Tail(snap)
        /\ UNCHANGED <<members, inHand, sequence>>
    BY <1>4, <2>1 DEF Delivers, TypeOK
  <2>3. f \in Frame /\ f.ch = inHand.ch /\ f.seq = inHand.seq /\ f.ch \in Channels
    BY DEF Frame, TypeOK
  <2>4. sequence[f.ch] = f.seq + 1
    BY <1>4, <2>3 DEF Delivers, Round
  <2>5. log[s] \in Seq(Frame) /\ log \in [Sinks -> Seq(Frame)]
    BY <2>1 DEF TypeOK
  <2>6. s \in Called /\ Called' \subseteq Called
    BY <2>1, <2>2 DEF Called
  <2> HIDE DEF s, f
  <2>7. LastIs(log[s], f.ch, f.seq)
    <3>1. LastIs(log[s], f.ch, Due(s, f.ch))
      BY <2>3, <2>6 DEF Logs
    <3>2. Due(s, f.ch) = f.seq
      BY <2>1, <2>3 DEF Due
    <3> QED
      BY <3>1, <3>2
  <2>8. /\ \A ch \in Channels : InOrder(log[s], ch) => InOrder(Append(log[s], f), ch)
        /\ LastIs(Append(log[s], f), f.ch, f.seq + 1)
        /\ \A ch, n : ch # f.ch /\ LastIs(log[s], ch, n) => LastIs(Append(log[s], f), ch, n)
    BY <2>3, <2>5, <2>7, AppendInOrder
  <2>9. log'[s] = Append(log[s], f) /\ \A x \in Sinks : x # s => log'[x] = log[x]
    BY <2>1, <2>2, <2>5
  <2>10. SinksSeeEveryFrame'
    BY <2>1, <2>8, <2>9 DEF Logs, SinksSeeEveryFrame
  <2>11. ASSUME NEW x \in Called', NEW ch \in Channels
         PROVE  LastIs(log'[x], ch, Due(x, ch)')
    <3>1. LastIs(log[x], ch, Due(x, ch)) /\ x \in Sinks
      BY <1>0, <2>6, <2>11 DEF Logs, Called
    <3>2. CASE x # s
      <4>1. Due(x, ch)' = Due(x, ch)
        BY <2>1, <2>2, <3>2 DEF Due
      <4> QED
        BY <2>9, <3>1, <3>2, <4>1
    <3>3. CASE x = s /\ ch = f.ch
      <4>1. Due(x, ch)' = sequence[ch]
        BY <2>1, <2>2, <3>3 DEF Due
      <4> QED
        BY <2>4, <2>8, <2>9, <3>3, <4>1
    <3>4. CASE x = s /\ ch # f.ch
      <4>1. Due(x, ch)' = sequence[ch] /\ Due(x, ch) = sequence[ch]
        BY <2>2, <2>3, <3>4 DEF Due
      <4> QED
        BY <2>8, <2>9, <3>1, <3>4, <4>1
    <3> QED
      BY <3>2, <3>3, <3>4
  <2> QED
    BY <2>10, <2>11 DEF Logs
<1>5. CASE ReleasesStream
  <2>1. snap = <<>> /\ UNCHANGED <<snap, sequence, sinkVars>>
    BY <1>5 DEF ReleasesStream
  <2>2. \A s, ch : Due(s, ch) = sequence[ch] /\ Due(s, ch)' = sequence[ch]
    BY <2>1, EmptyList DEF Due
  <2> QED
    BY <2>1, <2>2 DEF Logs, SinksSeeEveryFrame, Called
<1>6. CASE SinkSteps
  <2> PICK s \in Sinks : RegisterSink(s) \/ UnregisterSink(s)
    BY <1>6 DEF SinkSteps
  <2>1. /\ UNCHANGED threadVars /\ members' \subseteq members \cup {s}
        /\ log' \in {log, [log EXCEPT ![s] = <<>>]}
        /\ s \in members' => s \in members \/ log' = [log EXCEPT ![s] = <<>>]
    BY DEF RegisterSink, UnregisterSink
  <2>2. \A x, ch : Due(x, ch)' = Due(x, ch)
    BY <2>1 DEF Due
  <2>3. log \in [Sinks -> Seq(Frame)]
    BY DEF TypeOK
  <2>4. \A x \in Sinks : log'[x] = log[x] \/ log'[x] = <<>>
    BY <2>1, <2>3
  <2>5. SinksSeeEveryFrame'
    BY <2>4, NothingYet DEF Logs, SinksSeeEveryFrame
  <2>6. ASSUME NEW x \in Called', NEW ch \in Channels
        PROVE  LastIs(log'[x], ch, Due(x, ch)')
    <3>1. x \in Sinks /\ (x \in Called \/ log'[x] = <<>>)
      BY <1>0, <2>1, <2>3, <2>6 DEF Called
    <3> QED
      BY <2>2, <2>4, <3>1, NothingYet DEF Logs
  <2> QED
    BY <2>5, <2>6 DEF Logs
<1> QED
  BY <1>1, <1>2, <1>3, <1>4, <1>5, <1>6, StepKinds DEF FrameSteps

\* The pipeline begins with nothing up, no thread and no sink.
LEMMA InitEstablishes == Init => MediaInv
<1> SUFFICES ASSUME Init PROVE MediaInv
  OBVIOUS
<1>1. <<>> \in Seq(Channels) /\ <<>> \in Seq(Sinks) /\ <<>> \in Seq(Frame) /\ 0 \in Nat
  BY EmptyList
<1>2. TypeOK
  <2>1. /\ inHand \in [ch : Channels, seq : Nat, held : BOOLEAN]
        /\ sequence \in [Channels -> Nat]
    BY DEF Init, NoFrame, Channels
  <2>2. late \in [Sinks -> Nat] /\ log \in [Sinks -> Seq(Frame)]
    BY <1>1 DEF Init
  <2> QED
    BY <1>1, <2>1, <2>2 DEF Init, TypeOK
<1>3. Phases /\ Round
  BY StageNames DEF Init, Phases, Round, NoFrame
<1>4. Lists /\ Called = {}
  BY EmptyList DEF Init, Lists, Called
<1>5. Late /\ Logs
  BY <1>4, NothingYet DEF Init, Late, Logs, SinksSeeEveryFrame
<1> QED
  BY <1>2, <1>3, <1>4, <1>5 DEF MediaInv

\* Every reachable state satisfies MediaInv.
THEOREM MediaInvariance == Spec => []MediaInv
<1>1. MediaInv /\ [Next]_vars => MediaInv'
  BY TypesStep, PhasesStep, RoundStep, ListsStep, LateStep, LogsStep DEF MediaInv
<1> QED
  BY <1>1, InitEstablishes, PTL DEF Spec

\* The variables keep their types, and only stages that are up are bound.
THEOREM TypesKept == Spec => []TypeOK
<1>1. MediaInv => TypeOK
  BY DEF MediaInv
<1> QED
  BY <1>1, MediaInvariance, PTL

\* Whichever stage fails and however often the pipeline is started and stopped, no stage is
\* up on one that is down, and between calls everything is up or nothing is.
THEOREM StagesStayNested == Spec => []StagesNest
<1>1. MediaInv => StagesNest
  BY DEF MediaInv, Phases, StagesNest
<1> QED
  BY <1>1, MediaInvariance, PTL

\* Stop never takes an encoder down under the stream thread.
THEOREM ThreadSafe == Spec => []ThreadOnLiveEncoders
<1>1. MediaInv => ThreadOnLiveEncoders
  BY StageNames DEF MediaInv, Phases, Round, AllHeld, ThreadOnLiveEncoders
<1> QED
  BY <1>1, MediaInvariance, PTL

\* A sink gets every frame of a channel, once and in order, from its registration on,
\* however registrations fall between the copy of the list and the calls.
THEOREM FramesInOrder == Spec => []SinksSeeEveryFrame
<1>1. MediaInv => SinksSeeEveryFrame
  BY DEF MediaInv, Logs
<1> QED
  BY <1>1, MediaInvariance, PTL

\* After UnregisterSink at most one frame still reaches the sink.
THEOREM OneLateFrame == Spec => []AtMostOneLateFrame
<1>1. MediaInv => AtMostOneLateFrame
  BY DEF MediaInv, Late, AtMostOneLateFrame
<1> QED
  BY <1>1, MediaInvariance, PTL
================================================================================
