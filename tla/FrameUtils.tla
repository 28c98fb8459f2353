------------------------------ MODULE FrameUtils ------------------------------
(***************************************************************************)
(* Splitting an Annex-B stream into its NAL units                          *)
(* (src/src/media/frame_utils.cpp), one action per round of the loop.      *)
(***************************************************************************)
EXTENDS Integers, Sequences

VARIABLES
    data,  \* the bytes of the stream
    pos,   \* where the loop is: at a start code, or one behind the end
    nalus  \* the units found so far (the user of the list may take them out again)

splitVars == <<data, pos, nalus>>

\* The length of the start code at a place, or 0.
StartCodeSize(d, p) ==
    IF p + 2 <= Len(d) /\ d[p] = 0 /\ d[p + 1] = 0 /\ d[p + 2] = 1 THEN 3
    ELSE IF p + 3 <= Len(d) /\ d[p] = 0 /\ d[p + 1] = 0 /\ d[p + 2] = 0 /\ d[p + 3] = 1 THEN 4
    ELSE 0

\* The first start code at or behind a place; the end of the stream when there is none.
NextCode(d, p) ==
    LET codes == {q \in p..Len(d) : StartCodeSize(d, q) # 0}
    IN  IF codes = {} THEN Len(d) + 1 ELSE CHOOSE q \in codes : \A r \in codes : q <= r

InitSplit == data = <<>> /\ pos = 1 /\ nalus = <<>>

\* SplitAnnexBNalus up to the loop, for the bytes d.
SplitBegins(d) == data' = d /\ pos' = NextCode(d, 1) /\ nalus' = <<>>

\* A round of the loop.  Its break is never taken: pos is where a start code was found.
SplitTakes ==
    LET start == pos + StartCodeSize(data, pos)
        next == NextCode(data, start)
    IN  /\ pos <= Len(data)
        /\ nalus' = IF next > start THEN Append(nalus, SubSeq(data, start, next - 1)) ELSE nalus
        /\ pos' = next
        /\ UNCHANGED data
===============================================================================
