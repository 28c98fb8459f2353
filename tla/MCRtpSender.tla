------------------------------ MODULE MCRtpSender ------------------------------
(* Units of one byte, of just the length of a packet, of two full fragments,  *)
(* and of three with zeros at the cuts; frames of one or two of them.         *)
EXTENDS RtpSender, SequencesExt

MCNalus == {<<101>>, <<65, 1, 0, 2>>, <<65, 0, 0, 3, 1>>, <<103, 1, 0, 0, 3, 2>>}

\* The frame with these units, as many zeros before the 1 of each start code as given.
MCFrame(units, zeros) ==
    LET parts == [i \in DOMAIN units |-> [z \in 1..zeros[i] |-> 0] \o <<1>> \o units[i]]
    IN  [bytes |-> FlattenSeq(parts), units |-> units,
         codes |-> [i \in 1..(Len(units) + 1) |->
                       Len(FlattenSeq(SubSeq(parts, 1, i - 1))) + 1]]

MCFrames == UNION {{MCFrame(u, z) : u \in [1..n -> MCNalus], z \in [1..n -> {2, 3}]} : n \in 1..2}
================================================================================
