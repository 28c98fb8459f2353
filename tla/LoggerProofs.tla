------------------------------ MODULE LoggerProofs ------------------------------
(***************************************************************************)
(* Proofs about the log for every size of the queue and of a file, and     *)
(* every number of lines.                                                  *)
(*                                                                         *)
(* LogInv is inductive.  Places says which file and which line in hand go  *)
(* with each place of the writer; Newest states KeepsNewestLines with the  *)
(* lines that disappeared as a witness, which is what each step carries    *)
(* along; Quiet remembers where the destructor found the writer.           *)
(***************************************************************************)
EXTENDS Logger, SequenceTheorems, TLAPS

USE DEF diskVars, queueVars, fileVars, writerVars, mainVars

-----------------------------------------------------------------------------
(* Lemmas about the sequences of lines. *)

\* A line is its number.
Line == Nat

\* What follows a sequence in another is its suffix.
LEMMA SuffixOfConcat ==
    ASSUME NEW S, NEW s \in Seq(S), NEW t \in Seq(S)
    PROVE  IsSuffix(t, s \o t)
<1> DEFINE u == s \o t
<1>1. u \in Seq(S) /\ Len(u) = Len(s) + Len(t) /\ Len(s) \in Nat /\ Len(t) \in Nat
  BY ConcatProperties, LenProperties
<1>2. \A i \in 1..Len(t) : u[Len(s) + i] = t[i]
  BY ConcatProperties
<1> DEFINE rt == Reverse(t)
           ru == Reverse(u)
<1>3. rt = [i \in 1..Len(t) |-> t[(Len(t) - i) + 1]]
  BY DEF Reverse
<1>4. ru = [i \in 1..Len(u) |-> u[(Len(u) - i) + 1]]
  BY DEF Reverse
<1> HIDE DEF u, rt, ru
<1>5. rt \in Seq(S) /\ Len(rt) = Len(t)
  <2>1. \A i \in 1..Len(t) : t[(Len(t) - i) + 1] \in S
    BY <1>1, ElementOfSeq
  <2> QED
    BY <1>1, <1>3, <2>1
<1>6. ru \in Seq(S) /\ Len(ru) = Len(u)
  <2>1. \A i \in 1..Len(u) : u[(Len(u) - i) + 1] \in S
    BY <1>1, ElementOfSeq
  <2> QED
    BY <1>1, <1>4, <2>1
<1>7. \A i \in 1..Len(t) : rt[i] = ru[i]
  <2> TAKE i \in 1..Len(t)
  <2>1. (Len(t) - i) + 1 \in 1..Len(t) /\ (Len(u) - i) + 1 = Len(s) + ((Len(t) - i) + 1)
    BY <1>1
  <2>2. u[(Len(u) - i) + 1] = t[(Len(t) - i) + 1]
    BY <1>2, <2>1
  <2> QED
    BY <1>1, <1>3, <1>4, <2>2
<1>8. SubSeq(rt, 1, Len(rt)) = SubSeq(ru, 1, Len(rt))
  <2>1. /\ SubSeq(rt, 1, Len(rt)) \in Seq(S) /\ SubSeq(ru, 1, Len(rt)) \in Seq(S)
        /\ Len(SubSeq(rt, 1, Len(rt))) = Len(t) /\ Len(SubSeq(ru, 1, Len(rt))) = Len(t)
        /\ \A i \in 1..Len(t) : SubSeq(rt, 1, Len(rt))[i] = rt[i]
        /\ \A i \in 1..Len(t) : SubSeq(ru, 1, Len(rt))[i] = ru[i]
    BY <1>1, <1>5, <1>6
  <2> QED
    BY <1>7, <2>1, SeqEqual
<1> QED
  BY <1>1, <1>5, <1>6, <1>8 DEF IsSuffix, IsPrefix, u, rt, ru

\* Concatenation under a name of its own: the lemmas that follow are all the proofs need
\* to know of it.
Joined(a, b) == a \o b

\* Two sequences of lines make one.
LEMMA JoinedClosed == \A a, b \in Seq(Line) : Joined(a, b) \in Seq(Line)
BY ConcatProperties DEF Joined

\* The grouping of three sequences of lines does not matter.
LEMMA JoinedAssociative ==
    \A a, b, c \in Seq(Line) : Joined(Joined(a, b), c) = Joined(a, Joined(b, c))
<1> SUFFICES ASSUME NEW a \in Seq(Line), NEW b \in Seq(Line), NEW c \in Seq(Line)
             PROVE  (a \o b) \o c = a \o (b \o c)
  BY DEF Joined
<1> QED
  BY ConcatAssociative

\* The empty sequence adds no line.
LEMMA NoLines ==
    /\ <<>> \in Seq(Line)
    /\ \A a \in Seq(Line) : Joined(a, <<>>) = a /\ Joined(<<>>, a) = a
BY ConcatEmptySeq DEF Joined

\* A line put into the queue comes after all lines before it.
LEMMA AppendToLast ==
    \A x, q \in Seq(Line) : \A e \in Line :
        Append(q, e) \in Seq(Line) /\ Append(Joined(x, q), e) = Joined(x, Append(q, e))
<1> SUFFICES ASSUME NEW x \in Seq(Line), NEW q \in Seq(Line), NEW e \in Line
             PROVE  Append(q, e) \in Seq(Line) /\ Append(Joined(x, q), e) = Joined(x, Append(q, e))
  OBVIOUS
<1>1. <<e>> \in Seq(Line) /\ x \o q \in Seq(Line)
  BY ConcatProperties
<1>2. Append(x \o q, e) = (x \o q) \o <<e>> /\ Append(q, e) = q \o <<e>>
  BY <1>1, AppendIsConcat
<1>3. (x \o q) \o <<e>> = x \o (q \o <<e>>)
  BY <1>1, ConcatAssociative
<1>4. Append(x \o q, e) = x \o Append(q, e)
  BY <1>2, <1>3
<1> QED
  BY <1>4 DEF Joined

\* A queue is its head, which the writer takes, and the rest.
LEMMA HeadAndTail ==
    \A q \in Seq(Line) : q # <<>> =>
        /\ <<Head(q)>> \in Seq(Line) /\ Tail(q) \in Seq(Line)
        /\ Joined(<<Head(q)>>, Tail(q)) = q
BY HeadTailProperties DEF Joined

-----------------------------------------------------------------------------
(* The inductive invariant. *)

LogTypes ==
    /\ queue \in Seq(Line) /\ accepted \in Seq(Line) /\ logged \in Nat
    /\ log \in Seq(Line) /\ oldLog \in Seq(Line) /\ rotations \in Nat
    /\ hand \in Seq(Line) /\ size \in Nat
    /\ file \in {"null", "open", "closed", "done"}
    /\ wpc \in {"none", "loop", "test", "deciding", "asleep", "write", "close", "reopen", "ended"}
    /\ epc \in {"out", "in", "signal", "join", "gone"}
    /\ running \in BOOLEAN
    /\ clearedAt \in {"nowhere", "none", "loop", "test", "deciding", "asleep", "write", "close",
                      "reopen", "ended"}

\* Which file and which line in hand go with each place of the writer.
Places ==
    /\ epc = "out" => wpc = "none" /\ file = "null"
    /\ wpc = "close" => file = "open"
    /\ wpc = "reopen" <=> file = "closed"
    /\ file = "done" => wpc \in {"none", "ended"}
    /\ wpc # "write" => hand = <<>>
    /\ rotations = 0 => oldLog = <<>>

\* The lines that are left, and the lines d that disappeared before them.
Kept == Joined(Joined(Joined(oldLog, log), hand), queue)
Newest ==
    ~FileLost => \E d \in Seq(Line) : accepted = Joined(d, Kept) /\ (rotations < 2 => d = <<>>)

\* The writer that the destructor found waiting, or about to test, only drains and ends.
QuietWriter ==
    /\ epc \in {"out", "in"} => clearedAt = "nowhere"
    /\ clearedAt \in {"asleep", "deciding", "test"} =>
         /\ ~running /\ wpc \in {"asleep", "deciding", "test", "ended"}
         /\ wpc = "ended" => queue = <<>>

\* The inductive invariant.
LogInv == LogTypes /\ Places /\ Newest /\ QuietWriter

\* The kinds of steps.
IdleSteps ==
    \/ Flush \/ InitOpenFails \/ InitStarts \/ DestroyClears \/ DestroySignals \/ DestroyJoins
    \/ WriterLoops \/ WriterDecides \/ WriterSleeps \/ WriterWakes \/ WriterCloses
    \/ UNCHANGED vars
MovingSteps == WriterDrains \/ WriterTakes \/ WriterWrites \/ WriterReopens

\* Every step is of one of the three kinds.
LEMMA StepKinds == [Next]_vars <=> Log \/ IdleSteps \/ MovingSteps
BY DEF Next, Destroy, Writer, IdleSteps, MovingSteps

\* Every step keeps the types.
LEMMA LogTypesStep ==
    ASSUME LogTypes, [Next]_vars
    PROVE  LogTypes'
<1>1. CASE Log
  <2>0. logged' \in Nat /\ logged' \in Line
    BY <1>1 DEF Log, LogTypes, Line
  <2>1. logged' \in Nat /\ queue' \in Seq(Line) /\ accepted' \in Seq(Line)
    <3>1. Append(queue, logged') \in Seq(Line) /\ Append(accepted, logged') \in Seq(Line)
      BY <2>0, AppendProperties DEF LogTypes
    <3>2. queue' \in {queue, Append(queue, logged')}
          /\ accepted' \in {accepted, Append(accepted, logged')}
      BY <1>1 DEF Log
    <3> QED
      BY <2>0, <3>1, <3>2 DEF LogTypes
  <2> QED
    BY <1>1, <2>1 DEF Log, LogTypes, Signalled
<1>2. CASE IdleSteps
  <2>1. UNCHANGED <<diskVars, queueVars, size, hand>>
    BY <1>2 DEF IdleSteps, Flush, InitOpenFails, InitStarts, DestroyClears, DestroySignals,
       DestroyJoins, WriterLoops, WriterDecides, WriterSleeps, WriterWakes, WriterCloses, vars
  <2>2. /\ file' \in {"null", "open", "closed", "done"}
        /\ wpc' \in {"none", "loop", "test", "deciding", "asleep", "write", "close", "reopen",
                     "ended"}
        /\ epc' \in {"out", "in", "signal", "join", "gone"}
        /\ clearedAt' \in {"nowhere", "none", "loop", "test", "deciding", "asleep", "write",
                           "close", "reopen", "ended"}
    BY <1>2 DEF IdleSteps, Flush, InitOpenFails, InitStarts, DestroyClears, DestroySignals,
       DestroyJoins, WriterLoops, WriterDecides, WriterSleeps, WriterWakes, WriterCloses, vars,
       LogTypes, Signalled
  <2>3. running' \in BOOLEAN
    BY <1>2, Zenon DEF IdleSteps, Flush, InitOpenFails, InitStarts, DestroyClears,
       DestroySignals, DestroyJoins, WriterLoops, WriterDecides, WriterSleeps, WriterWakes,
       WriterCloses, vars, LogTypes
  <2> QED
    BY <2>1, <2>2, <2>3 DEF LogTypes
<1>3. CASE WriterDrains
  <2>1. queue' \in Seq(Line) /\ log' \in Seq(Line)
    BY <1>3, JoinedClosed, NoLines DEF Joined, WriterDrains, LogTypes
  <2> QED
    BY <1>3, <2>1 DEF WriterDrains, LogTypes
<1>4. CASE WriterTakes
  <2>1. queue' \in Seq(Line) /\ hand' \in Seq(Line)
    BY <1>4, HeadTailProperties DEF WriterTakes, LogTypes
  <2> QED
    BY <1>4, <2>1 DEF WriterTakes, LogTypes
<1>5. CASE WriterWrites
  <2>1. hand' \in Seq(Line) /\ log' \in Seq(Line) /\ size' \in Nat
    <3>1. log \o hand \in Seq(Line) /\ size + 1 \in Nat
      BY JoinedClosed DEF LogTypes, Joined
    <3>2. log' \in {log, log \o hand} /\ size' \in {size, size + 1} /\ hand' = <<>>
      BY <1>5 DEF WriterWrites
    <3> QED
      BY <3>1, <3>2, NoLines DEF LogTypes
  <2> QED
    BY <1>5, <2>1 DEF WriterWrites, LogTypes
<1>6. CASE WriterReopens
  <2>1. log' \in Seq(Line) /\ oldLog' \in Seq(Line) /\ rotations' \in Nat /\ size' \in Nat
    <3>1. log' \in {<<>>, log} /\ oldLog' \in {log, oldLog} /\ size' = 0
          /\ rotations' \in {rotations, rotations + 1}
      BY <1>6 DEF WriterReopens
    <3>2. 0 \in Nat /\ rotations + 1 \in Nat
      BY DEF LogTypes
    <3>3. log \in Seq(Line) /\ oldLog \in Seq(Line) /\ rotations \in Nat /\ size \in Nat
      BY DEF LogTypes
    <3>4. <<>> \in Seq(Line)
      BY NoLines
    <3> QED
      BY <3>1, <3>2, <3>3, <3>4, Zenon
  <2> QED
    BY <1>6, <2>1 DEF WriterReopens, LogTypes
<1> QED
  BY <1>1, <1>2, <1>3, <1>4, <1>5, <1>6, StepKinds DEF MovingSteps

\* Every step keeps what belongs to the writer's place.
LEMMA PlacesStep ==
    ASSUME LogTypes, Places, [Next]_vars
    PROVE  Places'
<1>1. CASE Log
  BY <1>1 DEF Log, Places, Signalled
<1>2. CASE IdleSteps
  BY <1>2 DEF IdleSteps, Flush, InitOpenFails, InitStarts, DestroyClears, DestroySignals,
     DestroyJoins, WriterLoops, WriterDecides, WriterSleeps, WriterWakes, WriterCloses, vars,
     Places, Signalled
<1>3. CASE WriterDrains \/ WriterTakes \/ WriterWrites
  BY <1>3 DEF WriterDrains, WriterTakes, WriterWrites, Places
<1>4. CASE WriterReopens
  BY <1>4 DEF WriterReopens, Places, LogTypes
<1> QED
  BY <1>1, <1>2, <1>3, <1>4, StepKinds DEF MovingSteps

\* A log that has lost its file never gets it back.
LEMMA LostForGood ==
    ASSUME LogTypes, Places, FileLost, [Next]_vars
    PROVE  FileLost'
<1>1. CASE Log \/ IdleSteps
  BY <1>1 DEF Log, IdleSteps, Flush, InitOpenFails, InitStarts, DestroyClears, DestroySignals,
     DestroyJoins, WriterLoops, WriterDecides, WriterSleeps, WriterWakes, WriterCloses, vars,
     Places, Signalled, FileLost
<1>2. CASE MovingSteps
  BY <1>2 DEF MovingSteps, WriterDrains, WriterTakes, WriterWrites, WriterReopens, Places,
     FileLost
<1> QED
  BY <1>1, <1>2, StepKinds

\* Lines move towards the files, and only a rotation loses any, from the front.
LEMMA NewestStep ==
    ASSUME LogTypes, Places, Newest, [Next]_vars
    PROVE  Newest'
<1> SUFFICES ASSUME ~FileLost'
             PROVE  \E d \in Seq(Line) : accepted' = Joined(d, Kept') /\ (rotations' < 2 => d = <<>>)
  BY DEF Newest
<1>1. ~FileLost
  BY LostForGood
<1>2. PICK d \in Seq(Line) : accepted = Joined(d, Kept) /\ (rotations < 2 => d = <<>>)
  BY <1>1 DEF Newest
<1>3. d \in Seq(Line) /\ accepted = Joined(d, Kept)
  BY <1>2
<1>4. /\ queue \in Seq(Line) /\ log \in Seq(Line) /\ oldLog \in Seq(Line) /\ hand \in Seq(Line)
      /\ Joined(oldLog, log) \in Seq(Line) /\ Joined(log, queue) \in Seq(Line)
  BY JoinedClosed DEF LogTypes
<1>5. CASE Log
  <2>1. CASE Len(queue) < kMaxQueueSize
    <3>1. queue' = Append(queue, logged') /\ accepted' = Append(accepted, logged')
          /\ UNCHANGED <<oldLog, log, hand, rotations>> /\ logged' \in Line
      BY <1>5, <2>1 DEF Log, LogTypes, Line
    <3> DEFINE x == Joined(Joined(oldLog, log), hand)
    <3>2. x \in Seq(Line)
      BY <1>4, JoinedClosed
    <3>3. Kept = Joined(x, queue) /\ Kept' = Joined(x, Append(queue, logged'))
      BY <3>1 DEF Kept
    <3>4. Kept' = Append(Kept, logged') /\ Kept \in Seq(Line)
      BY <1>4, <3>1, <3>2, <3>3, JoinedClosed, AppendToLast, Zenon
    <3>5. accepted' = Joined(d, Kept')
      BY <1>3, <3>1, <3>4, AppendToLast, Zenon
    <3> QED
      BY <1>2, <3>1, <3>5
  <2>2. CASE ~(Len(queue) < kMaxQueueSize)
    <3>1. UNCHANGED <<diskVars, queue, accepted, hand>>
      BY <1>5, <2>2 DEF Log
    <3> QED
      BY <1>2, <3>1 DEF Kept
  <2> QED
    BY <2>1, <2>2
<1>6. CASE IdleSteps
  <2>1. UNCHANGED <<diskVars, queueVars, hand>>
    BY <1>6 DEF IdleSteps, Flush, InitOpenFails, InitStarts, DestroyClears, DestroySignals,
       DestroyJoins, WriterLoops, WriterDecides, WriterSleeps, WriterWakes, WriterCloses, vars
  <2> QED
    BY <1>2, <2>1 DEF Kept
<1>7. CASE WriterDrains
  <2>1. file = "open" /\ hand = <<>>
    BY <1>1, <1>7 DEF WriterDrains, FileLost, Places, LogTypes
  <2>2. /\ log' = Joined(log, queue) /\ queue' = <<>>
        /\ UNCHANGED <<oldLog, hand, accepted, rotations>>
    BY <1>7, <2>1 DEF WriterDrains, Joined
  <2>3. Joined(Joined(oldLog, log), queue) = Joined(oldLog, Joined(log, queue))
    BY <1>4, JoinedAssociative
  <2>4. Joined(Joined(oldLog, log), hand) = Joined(oldLog, log)
    BY <1>4, <2>1, NoLines
  <2>5. Joined(Joined(Joined(oldLog, log'), hand), <<>>) = Joined(oldLog, log')
    BY <1>4, <2>1, <2>2, NoLines, JoinedClosed
  <2>6. Kept' = Kept
    BY <2>2, <2>3, <2>4, <2>5 DEF Kept
  <2> QED
    BY <1>2, <2>2, <2>6
<1>8. CASE WriterTakes
  <2>1. /\ hand = <<>> /\ queue # <<>> /\ hand' = <<Head(queue)>> /\ queue' = Tail(queue)
        /\ UNCHANGED <<oldLog, log, accepted, rotations>>
    BY <1>8 DEF WriterTakes, Places
  <2> DEFINE y == Joined(oldLog, log)
  <2>2. Joined(hand', queue') = queue /\ hand' \in Seq(Line) /\ queue' \in Seq(Line)
    BY <1>4, <2>1, HeadAndTail
  <2>3. Joined(Joined(y, hand'), queue') = Joined(y, queue)
    BY <1>4, <2>2, JoinedAssociative
  <2>4. Joined(Joined(y, hand), queue) = Joined(y, queue)
    BY <1>4, <2>1, NoLines
  <2>5. Kept' = Kept
    BY <2>1, <2>3, <2>4 DEF Kept
  <2> QED
    BY <1>2, <2>1, <2>5
<1>9. CASE WriterWrites
  <2>1. /\ log' = Joined(log, hand) /\ hand' = <<>>
        /\ UNCHANGED <<oldLog, queue, accepted, rotations>>
    BY <1>1, <1>9 DEF WriterWrites, FileLost, Places, LogTypes, Joined
  <2>2. Joined(Joined(oldLog, log), hand) = Joined(oldLog, Joined(log, hand))
    BY <1>4, JoinedAssociative
  <2>3. Joined(Joined(oldLog, log'), hand') = Joined(oldLog, log')
    BY <1>4, <2>1, NoLines, JoinedClosed
  <2>4. Kept' = Kept
    BY <2>1, <2>2, <2>3 DEF Kept
  <2> QED
    BY <1>2, <2>1, <2>4
<1>10. CASE WriterReopens
  <2>0. hand = <<>> /\ UNCHANGED <<hand, queue, accepted>>
    BY <1>10 DEF WriterReopens, Places
  <2>1. CASE UNCHANGED diskVars
    BY <1>2, <2>0, <2>1 DEF Kept
  <2>2. CASE oldLog' = log /\ log' = <<>> /\ rotations' = rotations + 1
    <3>1. Kept = Joined(Joined(oldLog, log), queue) /\ Kept' = Joined(log, queue)
      BY <1>4, <2>0, <2>2, NoLines DEF Kept
    <3>2. Kept = Joined(oldLog, Kept')
      BY <1>4, <3>1, JoinedAssociative
    <3>3. accepted' = Joined(Joined(d, oldLog), Kept') /\ Joined(d, oldLog) \in Seq(Line)
      BY <1>3, <1>4, <2>0, <3>1, <3>2, JoinedAssociative, JoinedClosed
    <3>4. rotations' < 2 => Joined(d, oldLog) = <<>>
      <4>1. rotations' < 2 => d = <<>> /\ oldLog = <<>>
        BY <1>2, <2>2 DEF Places, LogTypes
      <4> QED
        BY <4>1, NoLines
    <3> QED
      BY <3>3, <3>4
  <2> QED
    BY <1>10, <2>1, <2>2 DEF WriterReopens
<1> QED
  BY <1>5, <1>6, <1>7, <1>8, <1>9, <1>10, StepKinds DEF MovingSteps

\* The writer found quiet drains before it ends, and nobody logs behind it.
LEMMA QuietStep ==
    ASSUME LogTypes, Places, QuietWriter, [Next]_vars
    PROVE  QuietWriter'
<1>1. CASE Log
  BY <1>1 DEF Log, QuietWriter
<1>2. CASE IdleSteps
  BY <1>2 DEF IdleSteps, Flush, InitOpenFails, InitStarts, DestroyClears, DestroySignals,
     DestroyJoins, WriterLoops, WriterDecides, WriterSleeps, WriterWakes, WriterCloses, vars,
     QuietWriter, Signalled
<1>3. CASE MovingSteps
  BY <1>3 DEF MovingSteps, WriterDrains, WriterTakes, WriterWrites, WriterReopens, QuietWriter
<1> QED
  BY <1>1, <1>2, <1>3, StepKinds

\* The program begins with an empty log.
LEMMA LogInitEstablishes == Init => LogInv
<1> SUFFICES ASSUME Init PROVE LogInv
  OBVIOUS
<1>1. <<>> \in Seq(Line) /\ Joined(<<>>, <<>>) = <<>>
  BY NoLines
<1>2. Newest
  BY <1>1 DEF Init, Newest, Kept
<1> QED
  BY <1>1, <1>2 DEF Init, LogInv, LogTypes, Places, QuietWriter

\* Every reachable state satisfies LogInv.
THEOREM LogInvariance == Spec => []LogInv
<1>1. LogInv /\ [Next]_vars => LogInv'
  BY LogTypesStep, PlacesStep, NewestStep, QuietStep DEF LogInv
<1> QED
  BY <1>1, LogInitEstablishes, PTL DEF Spec

\* What remains of two sequences of lines without the last ones.
LEMMA FrontOfJoined ==
    ASSUME NEW a \in Seq(Line), NEW b \in Seq(Line), NEW c, c = Joined(a, b)
    PROVE  SubSeq(c, 1, Len(c) - Len(b)) = a
<1>1. /\ c \in Seq(Line) /\ Len(c) = Len(a) + Len(b) /\ Len(a) \in Nat /\ Len(b) \in Nat
      /\ \A i \in 1..Len(a) : c[i] = a[i]
  BY ConcatProperties, LenProperties DEF Joined
<1>2. Len(c) - Len(b) = Len(a)
  BY <1>1
<1>3. /\ SubSeq(c, 1, Len(a)) \in Seq(Line) /\ Len(SubSeq(c, 1, Len(a))) = Len(a)
      /\ \A i \in 1..Len(a) : SubSeq(c, 1, Len(a))[i] = c[i]
  BY <1>1, SubSeqProperties
<1>4. SubSeq(c, 1, Len(a)) = a
  BY <1>1, <1>3, SeqEqual
<1> QED
  BY <1>2, <1>4

\* The files and the hand hold the newest of the lines taken from the queue, and the queue
\* the accepted ones behind them, in order and without a gap, whichever calls of a rotation
\* fail.  (Of a line refused by a full queue, and of those queued when the writer ends,
\* nothing is said.)
THEOREM NewestKept == Spec => []KeepsNewestLines
<1>1. LogInv => KeepsNewestLines
  <2> DEFINE taken == SubSeq(accepted, 1, Len(accepted) - Len(queue))
             kept == Joined(Joined(oldLog, log), hand)
  <2> SUFFICES ASSUME LogInv, ~FileLost
               PROVE  /\ IsSuffix(queue, accepted)
                      /\ IF rotations < 2 THEN kept = taken ELSE IsSuffix(kept, taken)
    BY DEF KeepsNewestLines, Joined
  <2>1. kept \in Seq(Line) /\ queue \in Seq(Line) /\ Kept = Joined(kept, queue)
    BY JoinedClosed DEF LogInv, LogTypes, Kept
  <2>2. PICK d \in Seq(Line) : accepted = Joined(d, Kept) /\ (rotations < 2 => d = <<>>)
    BY DEF LogInv, Newest
  <2> HIDE DEF kept
  <2>3. accepted = Joined(Joined(d, kept), queue) /\ Joined(d, kept) \in Seq(Line)
    BY <2>1, <2>2, JoinedAssociative, JoinedClosed
  <2>4. taken = Joined(d, kept)
    BY <2>1, <2>3, FrontOfJoined
  <2>5. IsSuffix(queue, accepted)
    BY <2>1, <2>3, SuffixOfConcat DEF Joined
  <2>6. IsSuffix(kept, taken)
    BY <2>1, <2>2, <2>4, SuffixOfConcat DEF Joined
  <2>7. Joined(<<>>, kept) = kept
    BY <2>1, NoLines
  <2> QED
    BY <2>2, <2>4, <2>5, <2>6, <2>7
<1> QED
  BY <1>1, LogInvariance, PTL

\* A program that ends while the writer waits, or is about to test, leaves no line unwritten
\* in the queue.
THEOREM QuietDrains == Spec => []QuietExitDrains
<1>1. LogInv => QuietExitDrains
  BY DEF LogInv, QuietWriter, QuietExitDrains
<1> QED
  BY <1>1, LogInvariance, PTL

-----------------------------------------------------------------------------
(* The wakeups: what ExitReturnsOutsideWindow and LinesAreTaken ask of the steps. *)

\* The writer has tested its predicate and is going to sleep, or sleeps.
Waiting == {"deciding", "asleep"}

\* The writer waits only for lines, and once the destructor has signalled, only if it was
\* between its test and its wait when running_ was cleared.
Wakeups ==
    /\ wpc \in Waiting => queue = <<>>
    /\ epc \in {"signal", "join", "gone"} =>
         /\ ~running
         /\ wpc = "deciding" => clearedAt = "deciding"
    /\ epc \in {"join", "gone"} /\ wpc = "asleep" => clearedAt = "deciding"

\* Whoever puts a line under a sleeping writer signals under the lock.
LEMMA WakeupsStep ==
    ASSUME LogTypes, Wakeups, [Next]_vars
    PROVE  Wakeups'
<1> USE DEF Wakeups, Waiting
<1>1. CASE Log
  BY <1>1 DEF Log, Signalled, LockFree, LogTypes
<1>2. CASE IdleSteps
  BY <1>2 DEF IdleSteps, Flush, InitOpenFails, InitStarts, DestroyClears, DestroySignals,
     DestroyJoins, WriterLoops, WriterDecides, WriterSleeps, WriterWakes, WriterCloses, vars,
     Signalled, LockFree
<1>3. CASE MovingSteps
  BY <1>3 DEF MovingSteps, WriterDrains, WriterTakes, WriterWrites, WriterReopens
<1> QED
  BY <1>1, <1>2, <1>3, StepKinds

\* The writer never sleeps, nor is about to, while a line is queued, whatever is logged,
\* flushed or rotated beside it.
THEOREM NoSleepOnLines == Spec => [](wpc \in Waiting => queue = <<>>)
<1>1. Init => Wakeups
  BY DEF Init, Wakeups, Waiting
<1>2. LogTypes /\ Wakeups /\ [Next]_vars => Wakeups'
  BY WakeupsStep
<1>3. Wakeups => (wpc \in Waiting => queue = <<>>)
  BY DEF Wakeups
<1>4. LogInv => LogTypes
  BY DEF LogInv
<1> QED
  BY <1>1, <1>2, <1>3, <1>4, LogInvariance, PTL DEF Spec

\* The writer that the destructor waits for is asleep only when running_ was cleared between
\* its test of the predicate and its wait: no other order of the steps loses the wakeup.
THEOREM JoinedWriterIsAwake ==
    Spec => [](epc = "join" /\ wpc = "asleep" => clearedAt = "deciding")
<1>1. Init => Wakeups
  BY DEF Init, Wakeups, Waiting
<1>2. LogTypes /\ Wakeups /\ [Next]_vars => Wakeups'
  BY WakeupsStep
<1>3. Wakeups => (epc = "join" /\ wpc = "asleep" => clearedAt = "deciding")
  BY DEF Wakeups
<1>4. LogInv => LogTypes
  BY DEF LogInv
<1> QED
  BY <1>1, <1>2, <1>3, <1>4, LogInvariance, PTL DEF Spec
=================================================================================
