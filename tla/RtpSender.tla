------------------------------- MODULE RtpSender -------------------------------
(***************************************************************************)
(* How a frame reaches a player (src/src/network/rtsp_server.cpp, from     *)
(* SendRtp to BroadcastFrame): the frame is split into NAL units, a unit   *)
(* that is too long is sent in fragments (FU-A), and every packet takes    *)
(* the next sequence number of the client, of 16 bits.  Packets go over    *)
(* UDP, or over the TCP connection of the requests, between the replies to *)
(* them.  A packet the socket does not take, or of which TCP takes only a  *)
(* part, ends the frame and the client's playing; the player may ask for   *)
(* PLAY again.  RtspServer models the clients and the queue; here there is *)
(* one client, and the bytes of its packets.                               *)
(*                                                                         *)
(* The encoder, the network and the player are external: the encoder puts  *)
(* NAL units behind start codes of three or four bytes, the network keeps  *)
(* the order of packets but may lose those over UDP, and the player puts   *)
(* together what a receiver of RFC 6184 would.                             *)
(***************************************************************************)
EXTENDS FrameUtils

CONSTANTS
    Frames,          \* what the encoder may deliver
    kRtpPayloadMax,
    SeqLimit,        \* 2^16
    MaxFrames,       \* bound: frames
    MaxLosses        \* bound: packets the network loses

ASSUME PayloadAssumption == kRtpPayloadMax \in Nat /\ kRtpPayloadMax > 2
ASSUME SenderBounds == SeqLimit \in Nat \ {0} /\ MaxFrames \in Nat /\ MaxLosses \in Nat

-----------------------------------------------------------------------------
(* The encoder *)

Byte == 0..255

\* A NAL unit has no start code in it and does not end in a zero (H.264, 7.4.1), and the
\* encoder itself does not produce the type of a fragment.
IsUnit(u) ==
    /\ u \in Seq(Byte) /\ u # <<>>
    /\ \A k \in 1..(Len(u) - 2) : ~(u[k] = 0 /\ u[k + 1] = 0 /\ u[k + 2] = 1)
    /\ u[Len(u)] # 0
    /\ u[1] % 32 # 28

\* A frame: its bytes, and the units in it with the place of the start code of each.
IsFrame(f) ==
    /\ f.bytes \in Seq(Byte) /\ f.units \in Seq(Seq(Byte)) /\ f.units # <<>>
    /\ f.codes \in Seq(1..(Len(f.bytes) + 1)) /\ Len(f.codes) = Len(f.units) + 1
    /\ f.codes[1] = 1 /\ f.codes[Len(f.codes)] = Len(f.bytes) + 1
    /\ \A i \in 1..Len(f.units) :
         LET start == f.codes[i + 1] - Len(f.units[i])
         IN  /\ IsUnit(f.units[i])
             /\ start - f.codes[i] \in {3, 4} /\ f.bytes[start - 1] = 1
             /\ \A p \in f.codes[i]..(start - 2) : f.bytes[p] = 0
             /\ \A k \in 1..Len(f.units[i]) : f.bytes[start - 1 + k] = f.units[i][k]

ASSUME EncoderAssumption == \A f \in Frames : IsFrame(f)

NoFrame == [bytes |-> <<>>, units |-> <<>>, codes |-> <<1>>]

-----------------------------------------------------------------------------
VARIABLES
    playing,   \* client.playing
    tcp_interleaved,  \* of the client: packets go over the connection of the requests
    sequence,  \* client.sequence
    stage,     \* of BroadcastFrame: "idle", "split" or "send"
    offset,    \* of SendNalu: how much of the first of nalus went out, and its first byte
    player,    \* what the player put together
    cut,       \* what it has of a packet of which TCP took only a part
    frame, sent,   \* history: the frame being sent, and the units of all frames begun
    missing,   \* history: packets lost or refused since the last that arrived
    blind,     \* history: so many were missing in a row that the numbers repeated
    torn,      \* history: TCP took only a part of a packet
    frames, losses, refusals, markers  \* history: counts

clientVars == <<playing, tcp_interleaved, sequence>>
loopVars == <<stage, offset>>
countVars == <<missing, blind, losses, markers>>
cutVars == <<cut, torn>>
netVars == <<player, countVars, cutVars>>
encoderVars == <<frame, sent, frames>>
vars == <<splitVars, clientVars, loopVars, netVars, encoderVars, refusals>>

NoUnit == <<>>
NoPacket == [seq |-> 0, payload |-> <<>>, size |-> 0]

Init ==
    /\ InitSplit
    /\ playing = FALSE /\ tcp_interleaved = TRUE /\ sequence = 0 /\ stage = "idle" /\ offset = 1
    /\ player = [next |-> 0, part |-> NoUnit, units |-> <<>>] /\ cut = NoPacket /\ torn = FALSE
    /\ frame = NoFrame /\ sent = <<>> /\ missing = 0 /\ blind = FALSE
    /\ frames = 0 /\ losses = 0 /\ refusals = 0 /\ markers = 0

-----------------------------------------------------------------------------
(* The player *)

\* A receiver takes single units as they are.  It puts fragments together from one marked
\* as the first to one marked as the last, and drops what it has when a number is missing.
Receive(state, packet) ==
    LET p == packet.payload
        part == IF packet.seq = state.next THEN state.part ELSE NoUnit
        isFragment == p[1] % 32 = 28
        grown == IF p[2] >= 128
                   THEN <<(p[1] \div 32) * 32 + (p[2] % 32)>> \o SubSeq(p, 3, Len(p))
                   ELSE IF part = NoUnit THEN NoUnit ELSE part \o SubSeq(p, 3, Len(p))
        complete == IF ~isFragment THEN p
                    ELSE IF (p[2] \div 64) % 2 = 1 THEN grown ELSE NoUnit
    IN  [next |-> (packet.seq + 1) % SeqLimit,
         part |-> IF isFragment /\ complete = NoUnit THEN grown ELSE NoUnit,
         units |-> IF complete = NoUnit THEN state.units ELSE Append(state.units, complete)]

\* Over TCP nothing arrives as it was sent as long as the player reads a packet to its end.
Arrives(packet) ==
    /\ ~tcp_interleaved \/ cut = NoPacket
    /\ player' = Receive(player, packet)
    /\ blind' = (blind \/ missing >= SeqLimit) /\ missing' = 0
    /\ markers' = IF packet.marker THEN markers + 1 ELSE markers
    /\ UNCHANGED <<losses, cutVars>>

IsLost ==
    /\ ~tcp_interleaved /\ losses < MaxLosses
    /\ losses' = losses + 1 /\ missing' = missing + 1
    /\ UNCHANGED <<player, blind, markers, cutVars>>

\* A byte of what follows on the connection: the R of RTSP/1.0, say.
Foreign == 82

\* The rest of the packet the player reads are bytes of what follows.
Completed ==
    [seq |-> cut.seq, payload |-> cut.payload \o [i \in 1..(cut.size - Len(cut.payload)) |-> Foreign]]

\* What follows is as long as the rest, and the player finds the beginning of the next
\* packet behind it, or the rest is longer.
FillsCut ==
    \/ player' = Receive(player, Completed) /\ cut' = NoPacket
    \/ UNCHANGED <<player, cut>>

\* A packet that goes out over TCP inside another one.
IsSwallowed ==
    /\ tcp_interleaved /\ cut # NoPacket
    /\ FillsCut
    /\ UNCHANGED <<countVars, torn>>

\* SendResponse: the reply, which an undisturbed player reads as such.
Replies ==
    /\ IF cut = NoPacket THEN UNCHANGED <<player, cut>> ELSE FillsCut
    /\ UNCHANGED <<countVars, torn>>

-----------------------------------------------------------------------------
(* The server *)

\* HandleRequest comes between two frames, since one thread does both.
Between == stage = "idle" /\ frames < MaxFrames

Play ==
    /\ ~playing /\ Between
    /\ playing' = TRUE
    /\ Replies
    /\ UNCHANGED <<splitVars, tcp_interleaved, sequence, loopVars, encoderVars, refusals>>

\* SETUP, for either transport, whether the client plays or not.  (One for the transport
\* it has brings a reply only, like any request that is not modelled.)
Setup ==
    /\ Between
    /\ tcp_interleaved' \in BOOLEAN
    /\ Replies
    /\ UNCHANGED <<splitVars, playing, sequence, loopVars, encoderVars, refusals>>

\* BroadcastFrame begins.
Broadcast(f) ==
    /\ playing /\ stage = "idle" /\ frames < MaxFrames
    /\ SplitBegins(f.bytes) /\ stage' = "split"
    /\ frame' = f /\ sent' = sent \o f.units /\ frames' = frames + 1
    /\ UNCHANGED <<clientVars, offset, netVars, refusals>>

Splits ==
    /\ stage = "split"
    /\ SplitTakes
    /\ UNCHANGED <<clientVars, loopVars, netVars, encoderVars, refusals>>

SplitEnds ==
    /\ stage = "split" /\ pos > Len(data)
    /\ stage' = IF nalus = <<>> THEN "idle" ELSE "send"
    /\ UNCHANGED <<splitVars, clientVars, offset, netVars, encoderVars, refusals>>

Nalu == Head(nalus)
Whole == Len(Nalu) <= kRtpPayloadMax

\* How much of the unit the next fragment takes.
Chunk == IF kRtpPayloadMax - 2 <= Len(Nalu) - offset THEN kRtpPayloadMax - 2
                                                     ELSE Len(Nalu) - offset
IsLast == offset + Chunk = Len(Nalu)
UnitEnds == Whole \/ IsLast

\* The first byte of the unit is split up between the two bytes each fragment begins with.
Header(first) ==
    <<(Nalu[1] \div 32) * 32 + 28,
      (Nalu[1] % 32) + (IF first THEN 128 ELSE 0) + (IF IsLast THEN 64 ELSE 0)>>

\* Mutant: every fragment is marked as the first of its unit.
FragmentAllFirst == Header(TRUE) \o SubSeq(Nalu, offset + 1, offset + Chunk)

Fragment == Header(offset = 1) \o SubSeq(Nalu, offset + 1, offset + Chunk)

\* The last packet of the frame has the marker.
Packet == [seq |-> sequence, payload |-> IF Whole THEN Nalu ELSE Fragment,
           marker |-> UnitEnds /\ Len(nalus) = 1]

\* client.sequence++, whatever becomes of the packet.
NumberTaken == (sequence + 1) % SeqLimit

\* A packet goes out, and the loops go on to the next fragment, unit or frame.
SendRtp ==
    /\ stage = "send"
    /\ sequence' = NumberTaken
    /\ nalus' = IF UnitEnds THEN Tail(nalus) ELSE nalus
    /\ offset' = IF UnitEnds THEN 1 ELSE offset + Chunk
    /\ stage' = IF nalus' = <<>> THEN "idle" ELSE "send"
    /\ Arrives(Packet) \/ IsLost \/ IsSwallowed
    /\ UNCHANGED <<data, pos, playing, tcp_interleaved, encoderVars, refusals>>

\* The rest of the frame is not sent, and the client does not play any more.
GivesUpFrame ==
    /\ stage = "send"
    /\ sequence' = NumberTaken
    /\ nalus' = <<>> /\ offset' = 1 /\ stage' = "idle"
    /\ playing' = FALSE
    /\ refusals' = refusals + 1 /\ missing' = missing + 1
    /\ UNCHANGED <<data, pos, tcp_interleaved, player, blind, losses, markers, encoderVars>>

\* The socket takes nothing of the packet.
SendRtpFails == GivesUpFrame /\ UNCHANGED cutVars

\* SendAllNonBlocking over TCP: the socket takes a part of the packet, and the connection
\* stays open.  (Where the part ends inside the packet's own header, which the model
\* leaves out, the number the player reads is foreign too.  A part of a packet that goes
\* out inside another torn one is as good as refused.)
SendRtpTears ==
    /\ GivesUpFrame
    /\ tcp_interleaved /\ cut = NoPacket
    /\ torn' = TRUE
    /\ \E n \in 0..(Len(Packet.payload) - 1) :
          cut' = [seq |-> sequence, payload |-> SubSeq(Packet.payload, 1, n),
                  size |-> Len(Packet.payload)]

Next ==
    \/ Play \/ Setup
    \/ \E f \in Frames : Broadcast(f)
    \/ Splits \/ SplitEnds
    \/ SendRtp \/ SendRtpFails \/ SendRtpTears

Spec == Init /\ [][Next]_vars

-----------------------------------------------------------------------------
(* Properties *)

\* s is what is left of t when some of its elements are taken out.
IsSubsequence(s, t) ==
    \E places \in [DOMAIN s -> DOMAIN t] :
        /\ \A i, j \in DOMAIN s : i < j => places[i] < places[j]
        /\ \A i \in DOMAIN s : s[i] = t[places[i]]

\* Whatever UDP loses and wherever a socket refuses a packet in the middle of a unit, a
\* player never puts together a unit the encoder did not produce, nor out of order, as long
\* as fewer packets in a row go missing than there are numbers and TCP never took a part of
\* a packet; and when nothing is lost or refused, it has every unit of the frames sent, and
\* the end of each frame is marked once.
ReceiverRebuildsUnits ==
    /\ ~blind /\ ~torn => IsSubsequence(player.units, sent)
    /\ losses = 0 /\ refusals = 0 /\ stage = "idle" =>
          player.units = sent /\ markers = frames

\* A player is sent H.264 over TCP as well as over UDP ("支持 H.264 RTP、TCP interleaved 和
\* UDP unicast", docs/prototype_status.md:16): over either it gets the encoder's units only.
BothTransportsCarryUnits == ~blind => IsSubsequence(player.units, sent)
================================================================================
