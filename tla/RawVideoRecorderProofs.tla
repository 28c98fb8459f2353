------------------------ MODULE RawVideoRecorderProofs ------------------------
(***************************************************************************)
(* Proofs about the recorder for every number of paths, sessions, frames,  *)
(* power losses and every capacity of the queue.                           *)
(*                                                                         *)
(* The invariants of the runs are not inductive.  IInv strengthens them:   *)
(* Phases says which flags, descriptor and writer go with each place of    *)
(* the controller; Accounting follows the accepted frames through queue,   *)
(* writer and file; Promises follows the frames that Stop owes its caller  *)
(* until they are synced; DiskComplete speaks of the names on the disk as  *)
(* well as of the visible ones; Stale ties the one straggling Push to an   *)
(* empty session.  Each part is preserved by a lemma with one step for     *)
(* each action that can disturb it; the theorems follow from IInv.         *)
(***************************************************************************)
EXTENDS RawVideoRecorder, SequenceTheorems, TLAPS

USE DEF ctlVars, callVars, flagVars, queueVars, writerVars, streamVars, fileVars, diskVars,
    storeVars, HasRoom, Enqueued, ClearedQueue, MayRename

\* A sequence is a prefix of itself (Stop promises all that was accepted so far).
LEMMA PrefixOfItself ==
    ASSUME NEW S, NEW s \in Seq(S)
    PROVE  IsPrefix(s, s)
BY DEF IsPrefix

\* Appending keeps prefixes: what was promised stays promised when Push or a write appends.
LEMMA PrefixOfAppend ==
    ASSUME NEW S, NEW s \in Seq(S), NEW t \in Seq(S), NEW e \in S, IsPrefix(s, t)
    PROVE  IsPrefix(s, Append(t, e))
<1>1. Len(s) <= Len(t) /\ Len(Append(t, e)) = Len(t) + 1
  BY DEF IsPrefix
<1>2. SubSeq(t, 1, Len(s)) = SubSeq(Append(t, e), 1, Len(s))
  BY <1>1
<1> QED
  BY <1>1, <1>2 DEF IsPrefix

\* WriterPops moves the head of the queue into the writer's hand and loses nothing.
LEMMA PopKeepsAll ==
    ASSUME NEW S, NEW c \in Seq(S), NEW q \in Seq(S), q # <<>>
    PROVE  c \o <<>> \o q = c \o <<Head(q)>> \o Tail(q)
<1>1. q = <<Head(q)>> \o Tail(q) /\ Tail(q) \in Seq(S) /\ Head(q) \in S
  BY HeadTailProperties, ConcatProperties
<1> QED
  BY <1>1

\* PushEnqueues appends to the queue exactly what it appends to the accepted frames.
LEMMA AppendKeepsAll ==
    \A c, h, q \in Seq(Frame) : \A e \in Frame :
        Append(c \o h \o q, e) = c \o h \o Append(q, e)
<1> SUFFICES ASSUME NEW c \in Seq(Frame), NEW h \in Seq(Frame), NEW q \in Seq(Frame),
                    NEW e \in Frame
             PROVE  Append(c \o h \o q, e) = c \o h \o Append(q, e)
  OBVIOUS
<1>1. c \o h \in Seq(Frame) /\ (c \o h) \o q \in Seq(Frame) /\ <<e>> \in Seq(Frame)
  BY ConcatProperties
<1>2. Append((c \o h) \o q, e) = ((c \o h) \o q) \o <<e>>
  BY <1>1, AppendIsConcat
<1>3. ((c \o h) \o q) \o <<e>> = (c \o h) \o (q \o <<e>>)
  BY <1>1, ConcatAssociative
<1>4. q \o <<e>> = Append(q, e)
  BY AppendIsConcat
<1> QED
  BY <1>2, <1>3, <1>4

\* What each place of the controller and of the writer means for flags and descriptor.
Phases ==
    /\ ctl = "idle" /\ recording =>
         running /\ fdOpen /\ wpc \in {"test", "deciding", "asleep", "writing"}
    /\ ctl = "idle" /\ ~recording => ~running /\ ~fdOpen /\ wpc = "none"
    /\ ctl = "open" => ~recording /\ ~running /\ ~fdOpen /\ wpc = "none"
    /\ ctl = "create" => recording /\ running /\ fdOpen /\ wpc = "none"
    /\ ctl \in {"signal", "join"} => ~recording /\ ~running /\ fdOpen /\ wpc # "none"
    /\ ctl = "sync" => ~recording /\ ~running /\ fdOpen /\ wpc = "none"
    /\ ctl = "rename" => ~recording /\ ~running /\ ~fdOpen /\ wpc = "none"
    /\ wpc # "writing" => hand = <<>>

\* Every step of the recorder keeps every variable in its type.
LEMMA TypeStep ==
    ASSUME TypeOK, [Next]_vars
    PROVE  TypeOK'
<1> USE DEF TypeOK
<1>1. CASE StartBusy
  BY <1>1 DEF StartBusy
<1>2. ASSUME NEW p \in Paths, StartClear(p) PROVE TypeOK'
  <2>1. queue' \in Seq(Frame) /\ Len(queue') <= kMaxQueuedFrames /\ session' \in Nat
    BY <1>2, QueueAssumption DEF TypeOK, StartClear
  <2> QED
    BY <1>2, <2>1 DEF StartClear
<1>3. CASE StartOpenFails
  BY <1>3 DEF StartOpenFails
<1>4. CASE StartOpens
  <2>1. content' \in Seq(Frame \cup {Torn})
    BY <1>4 DEF TypeOK, StartOpens
  <2> QED
    BY <1>4, <2>1 DEF StartOpens
<1>5. CASE StartCreates
  BY <1>5 DEF StartCreates
<1>6. CASE StartCreateFails
  BY <1>6 DEF StartCreateFails
<1>7. CASE PushCopies
  BY <1>7 DEF PushCopies, Frame
<1>8. CASE PushEnqueues
  <2>1. /\ queue' \in Seq(Frame) /\ Len(queue') <= kMaxQueuedFrames
        /\ accepted' \in Seq(Frame)
    BY <1>8, QueueAssumption DEF TypeOK, PushEnqueues
  <2> QED
    BY <1>8, <2>1 DEF PushEnqueues, Signalled
<1>9. CASE PushDrops
  BY <1>9 DEF PushDrops
<1>10. CASE WriterDecidesToWait
  BY <1>10 DEF WriterDecidesToWait
<1>11. CASE WriterWaits
  BY <1>11 DEF WriterWaits
<1>12. CASE WriterPops
  <2>1. /\ queue' \in Seq(Frame) /\ Len(queue') <= kMaxQueuedFrames
        /\ hand' \in Seq(Frame)
    BY <1>12, QueueAssumption DEF TypeOK, WriterPops
  <2> QED
    BY <1>12, <2>1 DEF WriterPops
<1>13. CASE WriterWrites
  <2>1. content' \in Seq(Frame \cup {Torn}) /\ hand' \in Seq(Frame)
    BY <1>13 DEF TypeOK, WriterWrites
  <2> QED
    BY <1>13, <2>1 DEF WriterWrites
<1>14. CASE WriterFails
  <2>1. Append(content, Torn) \in Seq(Frame \cup {Torn})
    BY AppendProperties DEF TypeOK
  <2>2. content \in Seq(Frame \cup {Torn}) /\ <<>> \in Seq(Frame)
    BY EmptySeq DEF TypeOK
  <2> QED
    BY <1>14, <2>1, <2>2 DEF WriterFails
<1>15. CASE WriterExits
  BY <1>15 DEF WriterExits
<1>16. CASE StopIdle
  BY <1>16 DEF StopIdle
<1>17. CASE StopClearsFlags
  BY <1>17 DEF StopClearsFlags
<1>18. CASE StopSignals
  BY <1>18 DEF StopSignals, Signalled
<1>19. CASE StopJoins
  BY <1>19 DEF StopJoins
<1>20. CASE StopSyncs
  BY <1>20 DEF StopSyncs, StopResult
<1>21. CASE StopRenames
  BY <1>21 DEF StopRenames, ThisFile, File
<1>22. CASE StopRenameFails
  BY <1>22 DEF StopRenameFails
<1>23. CASE StopAbandons
  BY <1>23 DEF StopAbandons
<1>24. CASE SpuriousWakeup
  BY <1>24 DEF SpuriousWakeup
<1>25. ASSUME NEW p \in Paths, Writeback(p) PROVE TypeOK'
  BY <1>25 DEF Writeback
<1>26. CASE Crash
  <2>1. /\ queue' \in Seq(Frame) /\ Len(queue') <= kMaxQueuedFrames /\ hand' \in Seq(Frame)
        /\ content' \in Seq(Frame \cup {Torn}) /\ accepted' \in Seq(Frame)
        /\ promised' \in Seq(Frame)
        /\ crashes' \in Nat /\ copy' \in Frame
    BY <1>26, QueueAssumption DEF TypeOK, Crash, NoFrame, Frame
  <2>2. \A f \in File \cup {NoFile} : AfterPowerLoss(f) \in File \cup {NoFile}
    <3>1. ASSUME NEW f \in File PROVE [f EXCEPT !.frames = <<>>] \in File
      <4>1. <<>> \in Seq(Frame \cup {Torn})
        OBVIOUS
      <4> QED
        BY <4>1 DEF File
    <3> QED
      BY <3>1 DEF AfterPowerLoss
  <2>3. /\ final' \in [Paths -> File \cup {NoFile}]
        /\ durable' \in [Paths -> File \cup {NoFile}]
    BY <1>26, <2>2 DEF Crash
  <2> QED
    BY <1>26, <2>1, <2>3 DEF Crash
<1>27. CASE UNCHANGED vars
  BY <1>27 DEF vars
<1> QED
  BY <1>1, <1>2, <1>3, <1>4, <1>5, <1>6, <1>7, <1>8, <1>9, <1>10, <1>11, <1>12, <1>13,
      <1>14, <1>15, <1>16, <1>17, <1>18, <1>19, <1>20, <1>21, <1>22, <1>23, <1>24,
      <1>25, <1>26, <1>27 DEF Next, Start, Push, WriterThread, Stop, Environment

\* Start arms and Stop disarms flags, writer and descriptor in an order that keeps Phases.
LEMMA PhasesStep ==
    ASSUME TypeOK, Phases, [Next]_vars
    PROVE  Phases'
<1> USE DEF Phases
<1>1. CASE StartBusy
  BY <1>1 DEF StartBusy
<1>2. ASSUME NEW p \in Paths, StartClear(p) PROVE Phases'
  BY <1>2 DEF StartClear
<1>3. CASE StartOpenFails
  BY <1>3 DEF StartOpenFails
<1>4. CASE StartOpens
  BY <1>4 DEF StartOpens
<1>5. CASE StartCreates
  BY <1>5 DEF StartCreates
<1>6. CASE StartCreateFails
  BY <1>6 DEF StartCreateFails
<1>7. CASE PushCopies
  BY <1>7 DEF PushCopies, Frame
<1>8. CASE PushEnqueues
  BY <1>8 DEF PushEnqueues, Signalled
<1>9. CASE PushDrops
  BY <1>9 DEF PushDrops
<1>10. CASE WriterDecidesToWait
  BY <1>10 DEF WriterDecidesToWait
<1>11. CASE WriterWaits
  BY <1>11 DEF WriterWaits
<1>12. CASE WriterPops
  BY <1>12 DEF WriterPops
<1>13. CASE WriterWrites
  BY <1>13 DEF WriterWrites
<1>14. CASE WriterFails
  BY <1>14 DEF WriterFails
<1>15. CASE WriterExits
  BY <1>15 DEF WriterExits
<1>16. CASE StopIdle
  BY <1>16 DEF StopIdle
<1>17. CASE StopClearsFlags
  BY <1>17 DEF StopClearsFlags
<1>18. CASE StopSignals
  BY <1>18 DEF StopSignals, Signalled
<1>19. CASE StopJoins
  BY <1>19 DEF StopJoins
<1>20. CASE StopSyncs
  BY <1>20 DEF StopSyncs, StopResult
<1>21. CASE StopRenames
  BY <1>21 DEF StopRenames, ThisFile, File
<1>22. CASE StopRenameFails
  BY <1>22 DEF StopRenameFails
<1>23. CASE StopAbandons
  BY <1>23 DEF StopAbandons
<1>24. CASE SpuriousWakeup
  BY <1>24 DEF SpuriousWakeup
<1>25. ASSUME NEW p \in Paths, Writeback(p) PROVE Phases'
  BY <1>25 DEF Writeback
<1>26. CASE Crash
  BY <1>26 DEF Crash, AfterPowerLoss, NoFrame, Frame, File
<1>27. CASE UNCHANGED vars
  BY <1>27 DEF vars
<1> QED
  BY <1>1, <1>2, <1>3, <1>4, <1>5, <1>6, <1>7, <1>8, <1>9, <1>10, <1>11, <1>12, <1>13,
      <1>14, <1>15, <1>16, <1>17, <1>18, <1>19, <1>20, <1>21, <1>22, <1>23, <1>24,
      <1>25, <1>26, <1>27 DEF Next, Start, Push, WriterThread, Stop, Environment

\* What was accepted is what the file, the writer and the queue hold, whole.
Accounting ==
    /\ fdOpen /\ ~writeFailed => content \in Seq(Frame) /\ accepted = content \o hand \o queue
    /\ ctl = "open" => accepted = queue

Closing == ctl \in {"signal", "join", "sync", "rename"}

\* The promise of Stop, followed from the queue into the file.
Promises ==
    /\ Closing => IsPrefix(promised, accepted)
    /\ (wpc = "gone" \/ ctl = "sync") /\ ~writeFailed =>
         content \in Seq(Frame) /\ IsPrefix(promised, content)
    /\ ctl = "rename" /\ result = "OK" =>
         synced /\ content \in Seq(Frame) /\ IsPrefix(promised, content)

\* Not only what a path names now, but what it will name after a power loss.
DiskComplete ==
    \A p \in Paths : /\ final[p] # NoFile => Complete(final[p])
                     /\ durable[p] # NoFile => Complete(durable[p])

\* While the stream thread holds a frame of an earlier session, nothing was accepted.
Stale ==
    /\ spc = "copied" /\ copy.sess # session => accepted = <<>>
    /\ StaleFrameOnlyAtHead

\* The inductive invariant.
IInv ==
    /\ TypeOK /\ Phases /\ SleepsOnlyOnEmptyQueue
    /\ Accounting /\ Promises /\ DiskComplete /\ Stale

\* No step puts a frame under a sleeping writer: Push wakes it in the same critical section.
LEMMA SleepsStep ==
    ASSUME TypeOK, Phases, SleepsOnlyOnEmptyQueue, [Next]_vars
    PROVE  SleepsOnlyOnEmptyQueue'
<1> USE DEF Phases, SleepsOnlyOnEmptyQueue
<1>1. ASSUME NEW p \in Paths, StartClear(p) PROVE SleepsOnlyOnEmptyQueue'
  BY <1>1 DEF StartClear
<1>2. CASE StartCreates
  BY <1>2 DEF StartCreates
<1>3. CASE PushEnqueues
  BY <1>3 DEF PushEnqueues, Signalled, LockFree
<1>4. CASE PushDrops
  BY <1>4 DEF PushDrops
<1>5. CASE WriterDecidesToWait
  BY <1>5 DEF WriterDecidesToWait
<1>6. CASE WriterWaits
  BY <1>6 DEF WriterWaits
<1>7. CASE WriterPops
  BY <1>7 DEF WriterPops
<1>8. CASE WriterWrites
  BY <1>8 DEF WriterWrites
<1>9. CASE WriterFails
  BY <1>9 DEF WriterFails
<1>10. CASE WriterExits
  BY <1>10 DEF WriterExits
<1>11. CASE StopSignals
  BY <1>11 DEF StopSignals, Signalled
<1>12. CASE StopJoins
  BY <1>12 DEF StopJoins
<1>13. CASE SpuriousWakeup
  BY <1>13 DEF SpuriousWakeup
<1>14. CASE Crash
  BY <1>14 DEF Crash, AfterPowerLoss, NoFrame, Frame, File
<1>15. CASE \/ StartBusy \/ StartOpenFails \/ StartOpens \/ StartCreateFails \/ PushCopies
            \/ StopIdle \/ StopClearsFlags \/ StopSyncs \/ StopRenames
            \/ StopRenameFails \/ StopAbandons \/ (\E p \in Paths : Writeback(p))
  <2>1. UNCHANGED <<wpc, queue>>
    BY <1>15 DEF StartBusy, StartOpenFails, StartOpens, StartCreateFails, PushCopies,
        StopIdle, StopClearsFlags, StopSyncs, StopRenames, StopRenameFails,
        StopAbandons, Writeback
  <2> QED
    BY <2>1
<1>16. CASE UNCHANGED vars
  BY <1>16 DEF vars
<1> QED
  BY <1>1, <1>2, <1>3, <1>4, <1>5, <1>6, <1>7, <1>8, <1>9, <1>10, <1>11, <1>12, <1>13,
      <1>14, <1>15, <1>16 DEF Next, Start, Push, WriterThread, Stop, Environment

\* Every step moves frames along queue, hand and file without loss, or notes a failed write.
LEMMA AccountingStep ==
    ASSUME TypeOK, Phases, SleepsOnlyOnEmptyQueue, Accounting, [Next]_vars
    PROVE  Accounting'
<1> USE DEF Phases, Accounting
<1>1. CASE StartBusy
  BY <1>1 DEF StartBusy
<1>2. ASSUME NEW p \in Paths, StartClear(p) PROVE Accounting'
  BY <1>2 DEF StartClear
<1>3. CASE StartOpenFails
  BY <1>3 DEF StartOpenFails
<1>4. CASE StartOpens
  BY <1>4 DEF StartOpens, TypeOK
<1>5. CASE StartCreates
  BY <1>5 DEF StartCreates
<1>6. CASE StartCreateFails
  BY <1>6 DEF StartCreateFails
<1>7. CASE PushCopies
  BY <1>7 DEF PushCopies, Frame
<1>8. CASE PushEnqueues
  <2>1. queue \in Seq(Frame) /\ hand \in Seq(Frame) /\ copy \in Frame
    BY DEF TypeOK
  <2>2. fdOpen /\ ~writeFailed => accepted' = content \o hand \o queue'
    <3> SUFFICES ASSUME fdOpen, ~writeFailed
        PROVE  accepted' = content \o hand \o queue'
      OBVIOUS
    <3>1. content \in Seq(Frame) /\ accepted = content \o hand \o queue
      OBVIOUS
    <3>2. accepted' = Append(accepted, copy) /\ queue' = Append(queue, copy)
      BY <1>8 DEF PushEnqueues
    <3>3. Append(content \o hand \o queue, copy) = content \o hand \o Append(queue, copy)
      BY <2>1, <3>1, AppendKeepsAll
    <3> QED
      BY <3>1, <3>2, <3>3
  <2> QED
    BY <1>8, <2>2 DEF PushEnqueues
<1>9. CASE PushDrops
  BY <1>9 DEF PushDrops
<1>10. CASE WriterDecidesToWait
  BY <1>10 DEF WriterDecidesToWait
<1>11. CASE WriterWaits
  BY <1>11 DEF WriterWaits
<1>12. CASE WriterPops
  <2>1. queue \in Seq(Frame)
    BY DEF TypeOK
  <2>2. fdOpen /\ ~writeFailed => accepted = content \o hand' \o queue'
    BY <1>12, <2>1, PopKeepsAll DEF WriterPops
  <2> QED
    BY <1>12, <2>2 DEF WriterPops
<1>13. CASE WriterWrites
  <2>1. queue \in Seq(Frame) /\ hand \in Seq(Frame)
    BY DEF TypeOK
  <2>2. fdOpen /\ ~writeFailed =>
          content' \in Seq(Frame) /\ accepted = content' \o hand' \o queue
    <3> SUFFICES ASSUME fdOpen, ~writeFailed
        PROVE  content' \in Seq(Frame) /\ accepted = content' \o hand' \o queue
      OBVIOUS
    <3>1. content \in Seq(Frame) /\ content \o hand \in Seq(Frame)
      BY <2>1, ConcatProperties
    <3>2. (content \o hand) \o <<>> = content \o hand
      BY <3>1, ConcatEmptySeq
    <3> QED
      BY <1>13, <3>1, <3>2 DEF WriterWrites
  <2> QED
    BY <1>13, <2>2 DEF WriterWrites
<1>14. CASE WriterFails
  BY <1>14 DEF WriterFails
<1>15. CASE WriterExits
  BY <1>15 DEF WriterExits
<1>16. CASE StopIdle
  BY <1>16 DEF StopIdle
<1>17. CASE StopClearsFlags
  BY <1>17 DEF StopClearsFlags
<1>18. CASE StopSignals
  BY <1>18 DEF StopSignals, Signalled
<1>19. CASE StopJoins
  BY <1>19 DEF StopJoins
<1>20. CASE StopSyncs
  BY <1>20 DEF StopSyncs, StopResult
<1>21. CASE StopRenames
  BY <1>21 DEF StopRenames, ThisFile, File
<1>22. CASE StopRenameFails
  BY <1>22 DEF StopRenameFails
<1>23. CASE StopAbandons
  BY <1>23 DEF StopAbandons
<1>24. CASE SpuriousWakeup
  BY <1>24 DEF SpuriousWakeup
<1>25. ASSUME NEW p \in Paths, Writeback(p) PROVE Accounting'
  BY <1>25 DEF Writeback
<1>26. CASE Crash
  BY <1>26 DEF Crash, AfterPowerLoss, NoFrame, Frame, File
<1>27. CASE UNCHANGED vars
  BY <1>27 DEF vars
<1> QED
  BY <1>1, <1>2, <1>3, <1>4, <1>5, <1>6, <1>7, <1>8, <1>9, <1>10, <1>11, <1>12, <1>13,
      <1>14, <1>15, <1>16, <1>17, <1>18, <1>19, <1>20, <1>21, <1>22, <1>23, <1>24,
      <1>25, <1>26, <1>27 DEF Next, Start, Push, WriterThread, Stop, Environment

\* From StopClearsFlags to StopSyncs the frames owed to the caller are kept in order.
LEMMA PromisesStep ==
    ASSUME TypeOK, Phases, SleepsOnlyOnEmptyQueue, Accounting, Promises, [Next]_vars
    PROVE  Promises'
<1> USE DEF Phases, Promises, Closing
<1>1. CASE StartBusy
  BY <1>1 DEF StartBusy
<1>2. ASSUME NEW p \in Paths, StartClear(p) PROVE Promises'
  BY <1>2 DEF StartClear
<1>3. CASE StartOpenFails
  BY <1>3 DEF StartOpenFails
<1>4. CASE StartOpens
  BY <1>4 DEF StartOpens
<1>5. CASE StartCreates
  BY <1>5 DEF StartCreates
<1>6. CASE StartCreateFails
  BY <1>6 DEF StartCreateFails
<1>7. CASE PushCopies
  BY <1>7 DEF PushCopies, Frame
<1>8. CASE PushEnqueues
  <2>1. accepted \in Seq(Frame) /\ promised \in Seq(Frame) /\ copy \in Frame
    BY DEF TypeOK
  <2>2. Closing => IsPrefix(promised, accepted')
    BY <1>8, <2>1, PrefixOfAppend DEF PushEnqueues, Closing
  <2> QED
    BY <1>8, <2>2 DEF PushEnqueues, Closing, Signalled
<1>9. CASE PushDrops
  BY <1>9 DEF PushDrops
<1>10. CASE WriterDecidesToWait
  BY <1>10 DEF WriterDecidesToWait
<1>11. CASE WriterWaits
  BY <1>11 DEF WriterWaits
<1>12. CASE WriterPops
  BY <1>12 DEF WriterPops
<1>13. CASE WriterWrites
  BY <1>13 DEF WriterWrites
<1>14. CASE WriterFails
  BY <1>14 DEF WriterFails
<1>15. CASE WriterExits
  <2>1. fdOpen /\ ~writeFailed => accepted = content /\ content \in Seq(Frame)
    BY <1>15, ConcatEmptySeq, EmptySeq DEF WriterExits, Accounting
  <2>2. fdOpen /\ Closing /\ IsPrefix(promised, accepted)
    BY <1>15 DEF WriterExits, TypeOK
  <2> QED
    BY <1>15, <2>1, <2>2 DEF WriterExits
<1>16. CASE StopIdle
  BY <1>16 DEF StopIdle
<1>17. CASE StopClearsFlags
  <2>1. IsPrefix(accepted, accepted)
    BY PrefixOfItself DEF TypeOK
  <2> QED
    BY <1>17, <2>1 DEF StopClearsFlags, Closing
<1>18. CASE StopSignals
  BY <1>18 DEF StopSignals, Signalled
<1>19. CASE StopJoins
  BY <1>19 DEF StopJoins
<1>20. CASE StopSyncs
  <2>1. result' = "OK" => ~writeFailed /\ synced'
    BY <1>20 DEF StopSyncs, StopResult
  <2> QED
    BY <1>20, <2>1 DEF StopSyncs, Closing
<1>21. CASE StopRenames
  BY <1>21 DEF StopRenames, ThisFile, File
<1>22. CASE StopRenameFails
  BY <1>22 DEF StopRenameFails
<1>23. CASE StopAbandons
  BY <1>23 DEF StopAbandons
<1>24. CASE SpuriousWakeup
  BY <1>24 DEF SpuriousWakeup
<1>25. ASSUME NEW p \in Paths, Writeback(p) PROVE Promises'
  BY <1>25 DEF Writeback
<1>26. CASE Crash
  BY <1>26 DEF Crash, AfterPowerLoss, NoFrame, Frame, File
<1>27. CASE UNCHANGED vars
  BY <1>27 DEF vars
<1> QED
  BY <1>1, <1>2, <1>3, <1>4, <1>5, <1>6, <1>7, <1>8, <1>9, <1>10, <1>11, <1>12, <1>13,
      <1>14, <1>15, <1>16, <1>17, <1>18, <1>19, <1>20, <1>21, <1>22, <1>23, <1>24,
      <1>25, <1>26, <1>27 DEF Next, Start, Push, WriterThread, Stop, Environment

\* Only a rename gives a path a new file, and only a writeback or a power loss moves names.
LEMMA DiskStep ==
    ASSUME TypeOK, Phases, Promises, DiskComplete, [Next]_vars
    PROVE  DiskComplete'
<1> USE DEF DiskComplete
<1>1. CASE StopRenames
  <2>1. Complete(ThisFile)
    <3>1. content \in Seq(Frame) /\ synced /\ IsPrefix(promised, content)
      BY <1>1 DEF StopRenames, Promises
    <3>2. \A i \in DOMAIN content : content[i] # Torn
      BY <3>1, SentinelAssumption
    <3> QED
      BY <3>1, <3>2 DEF Complete, ThisFile
  <2> QED
    BY <1>1, <2>1 DEF StopRenames, TypeOK
<1>2. ASSUME NEW p \in Paths, Writeback(p) PROVE DiskComplete'
  BY <1>2 DEF Writeback, TypeOK
<1>3. CASE Crash
  BY <1>3 DEF Crash, AfterPowerLoss, Complete
<1>4. CASE \/ StartBusy \/ (\E p \in Paths : StartClear(p)) \/ StartOpenFails
           \/ StartOpens \/ StartCreates \/ StartCreateFails \/ PushCopies
           \/ PushEnqueues \/ PushDrops \/ WriterDecidesToWait \/ WriterWaits
           \/ WriterPops \/ WriterWrites \/ WriterFails \/ WriterExits \/ StopIdle
           \/ StopClearsFlags \/ StopSignals \/ StopJoins \/ StopSyncs
           \/ StopRenameFails \/ StopAbandons \/ SpuriousWakeup
  <2>1. UNCHANGED <<final, durable>>
    BY <1>4 DEF StartBusy, StartClear, StartOpenFails, StartOpens, StartCreates,
        StartCreateFails, PushCopies, PushEnqueues, PushDrops, WriterDecidesToWait,
        WriterWaits, WriterPops, WriterWrites, WriterFails, WriterExits, StopIdle,
        StopClearsFlags, StopSignals, StopJoins, StopSyncs, StopRenameFails,
        StopAbandons, SpuriousWakeup
  <2> QED
    BY <2>1
<1>5. CASE UNCHANGED vars
  BY <1>5 DEF vars
<1> QED
  BY <1>1, <1>2, <1>3, <1>4, <1>5 DEF Next, Start, Push, WriterThread, Stop, Environment

\* Only the first frame a session accepts can come from a Push of an earlier session.
LEMMA StaleStep ==
    ASSUME TypeOK, Stale, [Next]_vars
    PROVE  Stale'
<1> USE DEF Stale, StaleFrameOnlyAtHead
<1>1. ASSUME NEW p \in Paths, StartClear(p) PROVE Stale'
  BY <1>1 DEF StartClear
<1>2. CASE PushCopies
  BY <1>2 DEF PushCopies
<1>3. CASE PushEnqueues
  <2>1. accepted \in Seq(Frame) /\ copy \in Frame
    BY DEF TypeOK
  <2>2. /\ DOMAIN accepted' = 1..(Len(accepted) + 1) /\ Len(accepted) \in Nat
        /\ \A i \in 1..Len(accepted) : accepted'[i] = accepted[i]
        /\ accepted'[Len(accepted) + 1] = copy
    BY <1>3, <2>1, AppendProperties DEF PushEnqueues
  <2>3. accepted = <<>> => Len(accepted) = 0
    OBVIOUS
  <2> QED
    BY <1>3, <2>1, <2>2, <2>3 DEF PushEnqueues
<1>4. CASE PushDrops
  BY <1>4 DEF PushDrops
<1>5. CASE Crash
  BY <1>5 DEF Crash, AfterPowerLoss, NoFrame, Frame, File
<1>6. CASE \/ StartBusy \/ StartOpenFails \/ StartOpens \/ StartCreates
           \/ StartCreateFails \/ WriterDecidesToWait \/ WriterWaits \/ WriterPops
           \/ WriterWrites \/ WriterFails \/ WriterExits \/ StopIdle \/ StopClearsFlags
           \/ StopSignals \/ StopJoins \/ StopSyncs \/ StopRenames
           \/ StopRenameFails \/ StopAbandons \/ SpuriousWakeup
           \/ (\E p \in Paths : Writeback(p))
  <2>1. UNCHANGED <<spc, copy, session, accepted>>
    BY <1>6 DEF StartBusy, StartOpenFails, StartOpens, StartCreates, StartCreateFails,
        WriterDecidesToWait, WriterWaits, WriterPops, WriterWrites, WriterFails,
        WriterExits, StopIdle, StopClearsFlags, StopSignals, StopJoins,
        StopSyncs, StopRenames, StopRenameFails, StopAbandons, SpuriousWakeup, Writeback
  <2> QED
    BY <2>1
<1>7. CASE UNCHANGED vars
  BY <1>7 DEF vars
<1> QED
  BY <1>1, <1>2, <1>3, <1>4, <1>5, <1>6, <1>7 DEF Next, Start, Push, WriterThread, Stop,
      Environment

\* A freshly constructed recorder on an empty disk satisfies the inductive invariant.
LEMMA InitEstablishes == Init => IInv
<1> SUFFICES ASSUME Init PROVE IInv
  OBVIOUS
<1>1. TypeOK
  <2>1. <<>> \in Seq(Frame) /\ <<>> \in Seq(Frame \cup {Torn}) /\ Len(<<>>) <= kMaxQueuedFrames
    BY QueueAssumption
  <2>2. NoFrame \in Frame
    BY DEF NoFrame, Frame
  <2> QED
    BY <2>1, <2>2 DEF Init, TypeOK
<1>2. Accounting
  BY DEF Init, Accounting
<1> QED
  BY <1>1, <1>2 DEF Init, IInv, Phases, SleepsOnlyOnEmptyQueue, Promises, Closing,
                    DiskComplete, Stale, StaleFrameOnlyAtHead

\* No step of any thread, failure or power loss leaves the inductive invariant.
LEMMA StepPreserves == IInv /\ [Next]_vars => IInv'
<1> SUFFICES ASSUME IInv, [Next]_vars PROVE IInv'
  OBVIOUS
<1> QED
  BY TypeStep, PhasesStep, SleepsStep, AccountingStep, PromisesStep, DiskStep, StaleStep
  DEF IInv

\* Every reachable state satisfies the inductive invariant.
THEOREM Invariance == Spec => []IInv
BY InitEstablishes, StepPreserves, PTL DEF Spec

\* Every reachable state is well typed; in particular the queue never exceeds its
\* capacity (raw_video_recorder.cpp:94).
THEOREM TypeCorrect == Spec => []TypeOK
<1>1. IInv => TypeOK
  BY DEF IInv
<1> QED
  BY <1>1, Invariance, PTL

\* The writer never sleeps, nor is about to, on a queue that holds a frame.
THEOREM NoSleepOnFrames == Spec => []SleepsOnlyOnEmptyQueue
<1>1. IInv => SleepsOnlyOnEmptyQueue
  BY DEF IInv
<1> QED
  BY <1>1, Invariance, PTL

\* Between open and close the file, the writer and the queue hold all that was accepted.
THEOREM SessionConserves == Spec => []NothingLostInSession
<1>1. IInv => NothingLostInSession
  BY DEF IInv, Accounting, NothingLostInSession
<1> QED
  BY <1>1, Invariance, PTL

\* A record path names nothing or a complete, synced file, after any failures of the
\* system calls and any power losses.
THEOREM SavedComplete == Spec => []SavedFilesAreComplete
<1>1. IInv => SavedFilesAreComplete
  BY DEF IInv, DiskComplete, SavedFilesAreComplete
<1> QED
  BY <1>1, Invariance, PTL

\* At most one frame of an earlier session enters a session, as its first.
THEOREM StaleAtHead == Spec => []StaleFrameOnlyAtHead
<1>1. IInv => StaleFrameOnlyAtHead
  BY DEF IInv, Stale
<1> QED
  BY <1>1, Invariance, PTL

\* The writer thread only ever runs with its session's descriptor open; outside a
\* recording, and outside the calls, there is no writer thread and fd_ is unset.  (The
\* queue, and descriptors that a failed fsync made fd_ forget, are not part of it.)
THEOREM SessionOwnsAll == Spec => []NothingOutlivesSession
<1>1. IInv => NothingOutlivesSession
  <2>1. IInv => (wpc # "none" => fdOpen /\ (recording \/ ctl \in {"signal", "join"}))
    BY DEF IInv, Phases, TypeOK
  <2>2. IInv => (ctl = "idle" /\ ~recording => wpc = "none" /\ ~fdOpen /\ ~running)
    BY DEF IInv, Phases
  <2> QED
    BY <2>1, <2>2 DEF NothingOutlivesSession
<1> QED
  BY <1>1, Invariance, PTL

\* A Stop that ends a recording and returns OK has given this session's complete file
\* its name.
THEOREM StopOkSaves == Spec => StopOkMeansSaved
<1> DEFINE Returns == ctl = "rename" /\ ctl' = "idle" /\ result' = "OK" /\ crashes' = crashes
           Saved == final'[path].sess = session /\ Complete(final'[path])
<1>1. IInv /\ IInv' /\ [Next]_vars => [Returns => Saved]_vars
  <2> SUFFICES ASSUME IInv, IInv', Next, Returns PROVE Saved
    BY DEF vars
  <2>1. crashes \in Nat /\ path \in Paths /\ final \in [Paths -> File \cup {NoFile}]
    BY DEF IInv, TypeOK
  <2>2. ~Crash
    BY <2>1 DEF Crash
  <2>3. StopRenames
    <3>1. ~Start /\ ~Push /\ ~WriterThread
      BY DEF Start, StartBusy, StartClear, StartOpenFails, StartOpens, StartCreates,
             StartCreateFails, Push, PushCopies, PushEnqueues, PushDrops, WriterThread,
             WriterDecidesToWait, WriterWaits, WriterPops, WriterWrites, WriterFails,
             WriterExits
    <3>2. ~SpuriousWakeup /\ ~\E p \in Paths : Writeback(p)
      BY DEF SpuriousWakeup, Writeback
    <3> QED
      BY <2>2, <3>1, <3>2 DEF Next, Environment, Stop, StopIdle, StopClearsFlags,
         StopSignals, StopJoins, StopSyncs, StopRenameFails, StopAbandons
  <2>4. final'[path] = ThisFile
    BY <2>1, <2>3 DEF StopRenames
  <2>5. Complete(ThisFile)
    <3>1. content \in Seq(Frame) /\ synced /\ IsPrefix(promised, content)
      BY <2>3 DEF StopRenames, IInv, Promises
    <3>2. \A i \in DOMAIN content : content[i] # Torn
      BY <3>1, SentinelAssumption
    <3> QED
      BY <3>1, <3>2 DEF Complete, ThisFile
  <2> QED
    BY <2>4, <2>5 DEF ThisFile
<1> QED
  BY <1>1, Invariance, PTL DEF Spec, StopOkMeansSaved

\* The writer has tested its predicate and is going to sleep, or sleeps.
Waiting == {"deciding", "asleep"}

\* A writer that is awake when Stop signals, or woken by it, does not go to sleep again
\* before Stop has joined it.
StaysAwake ==
    [][(StopSignals /\ wpc # "deciding") \/ (ctl = "join" /\ wpc \notin Waiting)
         => ctl' # "join" \/ wpc' \notin Waiting]_vars

\* The wakeup of Stop is lost in one order of the steps only: the flags cleared and the
\* signal sent between the writer's test of its predicate and its wait.  (What remains of
\* StopReturnsOutsideWindow is that threads which can go on do.)
THEOREM StopWakesWriter == Spec => StaysAwake
<1> DEFINE Awake == (StopSignals /\ wpc # "deciding") \/ (ctl = "join" /\ wpc \notin Waiting)
<1>1. IInv /\ [Next]_vars => [Awake => ctl' # "join" \/ wpc' \notin Waiting]_vars
  <2> SUFFICES ASSUME IInv, Next, Awake, ctl' = "join"
               PROVE  wpc' \notin Waiting
    BY DEF vars
  <2>1. CASE StopSignals /\ wpc # "deciding"
    BY <2>1 DEF StopSignals, Signalled, Waiting
  <2>2. CASE ctl = "join" /\ wpc \notin Waiting
    <3>1. ~running
      BY <2>2 DEF IInv, Phases
    <3>2. ~WriterDecidesToWait /\ ~WriterWaits
      BY <2>2, <3>1 DEF WriterDecidesToWait, WriterWaits, Waiting
    <3>3. CASE Start
      BY <2>2, <3>3 DEF Start, StartBusy, StartClear, StartOpenFails, StartOpens, StartCreates,
         StartCreateFails
    <3>4. CASE Push
      BY <2>2, <3>4 DEF Push, PushCopies, PushEnqueues, PushDrops, Signalled, Waiting
    <3>5. CASE WriterThread
      BY <2>2, <3>2, <3>5 DEF WriterThread, WriterPops, WriterWrites, WriterFails, WriterExits,
         Waiting
    <3>6. CASE Stop
      BY <2>2, <3>6 DEF Stop, StopIdle, StopClearsFlags, StopSignals, StopJoins, StopSyncs,
         StopRenames, StopRenameFails, StopAbandons, Waiting
    <3>7. CASE Environment
      BY <2>2, <3>7 DEF Environment, SpuriousWakeup, Writeback, Crash, Waiting
    <3> QED
      BY <3>3, <3>4, <3>5, <3>6, <3>7 DEF Next
  <2> QED
    BY <2>1, <2>2
<1> QED
  BY <1>1, Invariance, PTL DEF Spec, StaysAwake

-----------------------------------------------------------------------------
(***************************************************************************)
(* The refinement: the recorder implements DurableRecording.  Besides IInv *)
(* it needs to know that a recording begins with at most the one frame of  *)
(* a straggling Push, and that a file about to get its name holds nothing  *)
(* but accepted frames, in their order.                                    *)
(***************************************************************************)

\* What a recording starts from and what a saved file is made of.
Origins ==
    /\ ctl = "open" => Len(accepted) <= 1 /\ (spc = "copied" => accepted = <<>>)
    /\ ctl = "rename" /\ result = "OK" => IsPrefix(content, accepted)

\* One concatenation is the prefix of another that goes on after it.
LEMMA PrefixOfConcat ==
    ASSUME NEW S, NEW s \in Seq(S), NEW t \in Seq(S)
    PROVE  IsPrefix(s, s \o t)
<1>1. Len(s) <= Len(s \o t)
  BY ConcatProperties, LenProperties
<1>2. SubSeq(s \o t, 1, Len(s)) = SubSeq(s, 1, Len(s))
  BY ConcatProperties, LenProperties
<1> QED
  BY <1>1, <1>2 DEF IsPrefix

\* No step puts a second frame into a recording before its file is open, or a frame into
\* a synced file that was not accepted.
LEMMA OriginsStep ==
    ASSUME IInv, Origins, [Next]_vars
    PROVE  Origins'
<1> USE DEF Origins
<1>1. ASSUME NEW p \in Paths, StartClear(p) PROVE Origins'
  BY <1>1 DEF StartClear
<1>2. CASE PushCopies
  <2>1. ctl # "open"
    BY <1>2 DEF PushCopies, IInv, Phases
  <2> QED
    BY <1>2, <2>1 DEF PushCopies
<1>3. CASE PushEnqueues
  <2>1. accepted \in Seq(Frame) /\ copy \in Frame
    BY DEF IInv, TypeOK
  <2>2. ctl = "open" => Len(accepted') <= 1
    <3>1. ctl = "open" => Len(accepted) = 0
      BY <1>3 DEF PushEnqueues
    <3>2. Len(Append(accepted, copy)) = Len(accepted) + 1
      BY <2>1
    <3> QED
      BY <1>3, <3>1, <3>2 DEF PushEnqueues
  <2>3. ctl = "rename" /\ result = "OK" => IsPrefix(content, accepted')
    <3>1. ctl = "rename" /\ result = "OK" => content \in Seq(Frame)
      BY DEF IInv, Promises
    <3> QED
      BY <1>3, <2>1, <3>1, PrefixOfAppend DEF PushEnqueues
  <2> QED
    BY <1>3, <2>2, <2>3 DEF PushEnqueues
<1>4. CASE PushDrops
  BY <1>4 DEF PushDrops
<1>5. CASE WriterWrites
  BY <1>5 DEF WriterWrites, IInv, Phases, TypeOK
<1>6. CASE WriterFails
  BY <1>6 DEF WriterFails, IInv, Phases, TypeOK
<1>7. CASE StopSyncs
  <2>1. result' = "OK" => ~writeFailed
    BY <1>7 DEF StopSyncs, StopResult
  <2>2. ~writeFailed => IsPrefix(content, accepted)
    <3> SUFFICES ASSUME ~writeFailed PROVE IsPrefix(content, accepted)
      OBVIOUS
    <3>1. fdOpen /\ hand = <<>> /\ queue \in Seq(Frame)
      BY <1>7 DEF StopSyncs, IInv, Phases, TypeOK
    <3>2. content \in Seq(Frame) /\ accepted = content \o hand \o queue
      BY <3>1 DEF IInv, Accounting
    <3>3. accepted = content \o queue
      BY <3>1, <3>2, ConcatEmptySeq
    <3> QED
      BY <3>1, <3>2, <3>3, PrefixOfConcat
  <2> QED
    BY <1>7, <2>1, <2>2 DEF StopSyncs
<1>8. CASE Crash
  BY <1>8 DEF Crash
<1>9. CASE \/ StartBusy \/ StartOpenFails \/ StartOpens \/ StartCreates \/ StartCreateFails
           \/ WriterDecidesToWait \/ WriterWaits \/ WriterPops \/ WriterExits \/ StopIdle
           \/ StopClearsFlags \/ StopSignals \/ StopJoins \/ StopRenames
           \/ StopRenameFails \/ StopAbandons \/ SpuriousWakeup
           \/ (\E p \in Paths : Writeback(p))
  <2>1. /\ ctl' \in {"open", "rename"} => ctl' = ctl
        /\ ctl' = "rename" => result' = result
        /\ UNCHANGED <<accepted, spc, content>> \/ ctl' = "create"
    BY <1>9 DEF StartBusy, StartOpenFails, StartOpens, StartCreates, StartCreateFails,
        WriterDecidesToWait, WriterWaits, WriterPops, WriterExits, StopIdle,
        StopClearsFlags, StopSignals, StopJoins, StopRenames, StopRenameFails,
        StopAbandons, SpuriousWakeup, Writeback
  <2> QED
    BY <2>1
<1>10. CASE UNCHANGED vars
  BY <1>10 DEF vars
<1> QED
  BY <1>1, <1>2, <1>3, <1>4, <1>5, <1>6, <1>7, <1>8, <1>9, <1>10 DEF Next, Start, Push,
      WriterThread, Stop, Environment

\* The mapping of the abstract state, by name.
LogBar == IF PhaseBar = "idle" THEN <<>> ELSE accepted
PromisedBar == IF PhaseBar = "closing" THEN promised ELSE <<>>
LibraryBar == [p \in Paths |-> FramesOf(final[p])]
StoredBar == [p \in Paths |-> FramesOf(durable[p])]

\* A step that leaves the mapped variables alone is a stutter of the promise.
LEMMA MappedStutter ==
    ASSUME UNCHANGED <<PhaseBar, LogBar, PromisedBar, LibraryBar, StoredBar>>
    PROVE  UNCHANGED Promise!vars
BY DEF Promise!vars, LogBar, PromisedBar, LibraryBar, StoredBar

\* What the steps that leave the names on the disk alone do to the mapped state.
LEMMA MappedDiskStays ==
    ASSUME UNCHANGED <<final, durable>>
    PROVE  UNCHANGED <<LibraryBar, StoredBar>>
BY DEF LibraryBar, StoredBar

\* Every step of the recorder is a step of the promise or leaves it as it was.
LEMMA StepRefines ==
    ASSUME IInv, Origins, [Next]_vars
    PROVE  [Promise!Next]_(Promise!vars)
<1> DEFINE Stutters == UNCHANGED <<PhaseBar, LogBar, PromisedBar, LibraryBar, StoredBar>>
<1>a. TypeOK /\ Phases
  BY DEF IInv
<1>1. CASE \/ StartBusy \/ (\E p \in Paths : StartClear(p)) \/ StartOpenFails \/ StartCreates
           \/ PushCopies \/ PushDrops \/ WriterDecidesToWait \/ WriterWaits \/ WriterPops
           \/ WriterWrites \/ WriterFails \/ WriterExits \/ StopIdle \/ StopSignals \/ StopJoins
           \/ StopSyncs \/ SpuriousWakeup \/ UNCHANGED vars
  <2>1. UNCHANGED <<final, durable>>
    BY <1>1 DEF StartBusy, StartClear, StartOpenFails, StartCreates, PushCopies, PushDrops,
        WriterDecidesToWait, WriterWaits, WriterPops, WriterWrites, WriterFails,
        WriterExits, StopIdle, StopSignals, StopJoins, StopSyncs, SpuriousWakeup, vars
  <2>2. UNCHANGED PhaseBar
    BY <1>1, <1>a DEF StartBusy, StartClear, StartOpenFails, StartCreates, PushCopies,
        PushDrops, WriterDecidesToWait, WriterWaits, WriterPops, WriterWrites, WriterFails,
        WriterExits, StopIdle, StopSignals, StopJoins, StopSyncs, SpuriousWakeup, vars,
        PhaseBar, Phases
  <2>3. UNCHANGED <<accepted, promised>> \/ PhaseBar = "idle"
    BY <1>1 DEF StartBusy, StartClear, StartOpenFails, StartCreates, PushCopies,
        PushDrops, WriterDecidesToWait, WriterWaits, WriterPops, WriterWrites, WriterFails,
        WriterExits, StopIdle, StopSignals, StopJoins, StopSyncs, SpuriousWakeup, vars,
        PhaseBar
  <2>4. UNCHANGED <<LogBar, PromisedBar>>
    BY <2>2, <2>3 DEF LogBar, PromisedBar
  <2> QED
    BY <2>1, <2>2, <2>4, MappedDiskStays, MappedStutter
<1>2. CASE StartOpens
  <2>1. PhaseBar = "idle" /\ PhaseBar' = "recording" /\ Len(accepted') <= 1
    BY <1>2, <1>a DEF StartOpens, PhaseBar, Phases, Origins
  <2>2. UNCHANGED <<LibraryBar, StoredBar>>
    BY <1>2, MappedDiskStays DEF StartOpens
  <2>3. Promise!Begin
    BY <2>1, <2>2 DEF Promise!Begin, LibraryBar, StoredBar
  <2> QED
    BY <2>3 DEF Promise!Next
<1>3. CASE PushEnqueues
  <2>1. UNCHANGED <<PhaseBar, PromisedBar, LibraryBar, StoredBar>>
    BY <1>3, MappedDiskStays DEF PushEnqueues, PhaseBar, PromisedBar
  <2>2. CASE PhaseBar = "idle"
    BY <2>1, <2>2, MappedStutter DEF LogBar
  <2>3. CASE PhaseBar # "idle"
    <3>1. accepted \in Seq(Frame) /\ copy \in Frame /\ accepted' = Append(accepted, copy)
      BY <1>3, <1>a DEF PushEnqueues, TypeOK
    <3>2. Len(accepted') = Len(accepted) + 1 /\ IsPrefix(accepted, accepted')
      BY <3>1, PrefixOfItself, PrefixOfAppend
    <3>3. Promise!Accept
      BY <2>1, <2>3, <3>2 DEF Promise!Accept, Promise!IsPrefix, IsPrefix, PromisedBar,
         LibraryBar, StoredBar
    <3> QED
      BY <3>3 DEF Promise!Next
  <2> QED
    BY <2>2, <2>3
<1>4. CASE StopClearsFlags
  <2>1. PhaseBar = "recording" /\ PhaseBar' = "closing"
    BY <1>4 DEF StopClearsFlags, PhaseBar
  <2>2. UNCHANGED accepted /\ promised' = accepted
    BY <1>4 DEF StopClearsFlags
  <2>3. UNCHANGED <<LibraryBar, StoredBar>>
    BY <1>4, MappedDiskStays DEF StopClearsFlags
  <2>4. Promise!Close
    BY <2>1, <2>2, <2>3 DEF Promise!Close, LibraryBar, StoredBar
  <2> QED
    BY <2>4 DEF Promise!Next
<1>5. CASE StartCreateFails \/ StopRenameFails \/ StopAbandons
  <2>1. PhaseBar # "idle" /\ PhaseBar' = "idle"
    BY <1>5, <1>a DEF StartCreateFails, StopRenameFails, StopAbandons, PhaseBar, Phases
  <2>2. UNCHANGED <<LibraryBar, StoredBar>>
    BY <1>5, MappedDiskStays DEF StartCreateFails, StopRenameFails, StopAbandons
  <2>3. Promise!GiveUp
    BY <2>1, <2>2 DEF Promise!GiveUp, Promise!Ends, LibraryBar, StoredBar
  <2> QED
    BY <2>3 DEF Promise!Next
<1>6. CASE StopRenames
  <2>1. PhaseBar = "closing" /\ PhaseBar' = "idle"
    BY <1>6, <1>a DEF StopRenames, PhaseBar, Phases
  <2>2. /\ path \in Paths /\ final \in [Paths -> File \cup {NoFile}] /\ promised \in Seq(Frame)
        /\ accepted \in Seq(Frame)
    BY <1>a DEF TypeOK
  <2>3. content \in Seq(Frame) /\ IsPrefix(promised, content) /\ IsPrefix(content, accepted)
    BY <1>6 DEF StopRenames, IInv, Promises, Origins
  <2>4. Len(content) \in Len(promised)..Len(accepted)
    BY <2>2, <2>3 DEF IsPrefix
  <2>5. content = SubSeq(accepted, 1, Len(content))
    <3>1. SubSeq(content, 1, Len(content)) = content
      BY <2>3
    <3> QED
      BY <2>3, <3>1 DEF IsPrefix
  <2>6. LibraryBar' = [LibraryBar EXCEPT ![path] = content]
    <3>1. final' = [final EXCEPT ![path] = ThisFile]
      BY <1>6 DEF StopRenames
    <3>2. FramesOf(ThisFile) = content
      <4>1. ThisFile \in File
        BY <1>a DEF TypeOK, ThisFile, File
      <4> QED
        BY <4>1, NoFileAssumption DEF FramesOf, ThisFile
    <3> QED
      BY <2>2, <3>1, <3>2 DEF LibraryBar
  <2>7. UNCHANGED StoredBar
    BY <1>6 DEF StopRenames, StoredBar
  <2>8. Promise!Save(path)
    BY <2>1, <2>4, <2>5, <2>6, <2>7 DEF Promise!Save, Promise!Ends, LibraryBar, StoredBar
  <2> QED
    BY <2>2, <2>8 DEF Promise!Next
<1>7. ASSUME NEW p \in Paths, Writeback(p) PROVE Promise!Next
  <2>1. UNCHANGED <<PhaseBar, LogBar, PromisedBar, LibraryBar>>
    BY <1>7 DEF Writeback, PhaseBar, LogBar, PromisedBar, LibraryBar
  <2>2. StoredBar' = [StoredBar EXCEPT ![p] = LibraryBar[p]]
    <3>1. durable' = [durable EXCEPT ![p] = final[p]] /\ durable \in [Paths -> File \cup {NoFile}]
      BY <1>7, <1>a DEF Writeback, TypeOK
    <3> QED
      BY <3>1 DEF StoredBar, LibraryBar
  <2>3. Promise!Store(p)
    BY <2>1, <2>2 DEF Promise!Store, LogBar, PromisedBar, LibraryBar, StoredBar
  <2> QED
    BY <2>3 DEF Promise!Next
<1>8. CASE Crash
  <2>1. PhaseBar' = "idle"
    BY <1>8 DEF Crash, PhaseBar
  <2>2. \A p \in Paths : AfterPowerLoss(durable[p]) = durable[p]
    BY DEF IInv, DiskComplete, Complete, AfterPowerLoss
  <2>3. final' = durable' /\ durable' = [p \in Paths |-> durable[p]]
    BY <1>8, <2>2 DEF Crash
  <2>4. LibraryBar' = StoredBar /\ StoredBar' = StoredBar
    BY <2>3 DEF LibraryBar, StoredBar
  <2>5. Promise!PowerLoss
    BY <2>1, <2>4 DEF Promise!PowerLoss, LibraryBar, StoredBar
  <2> QED
    BY <2>5 DEF Promise!Next
<1> QED
  BY <1>1, <1>2, <1>3, <1>4, <1>5, <1>6, <1>7, <1>8 DEF Next, Start, Push, WriterThread, Stop,
      Environment

\* The recorder keeps the promise of its interface: with its threads, queue, failing
\* system calls and power losses hidden, every behaviour of it is one of
\* DurableRecording.
THEOREM PromiseKept == Spec => KeepsPromise
<1>1. Init => Promise!Init /\ Origins
  BY DEF Init, Promise!Init, Origins, PhaseBar, FramesOf
<1>2. IInv /\ Origins /\ [Next]_vars => Origins'
  BY OriginsStep
<1>3. IInv /\ Origins /\ [Next]_vars => [Promise!Next]_(Promise!vars)
  BY StepRefines
<1> QED
  BY <1>1, <1>2, <1>3, Invariance, PTL DEF Spec, KeepsPromise, Promise!Spec
=============================================================================
