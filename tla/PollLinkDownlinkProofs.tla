------------------------ MODULE PollLinkDownlinkProofs -------------------------
(* As long as the primary does not open the connection a second time, it    *)
(* leaves no byte of the frames of the secondary out, whichever packets get *)
(* lost.  With a poll interval of 0 it never does: the backoff does not     *)
(* reach the interval from which failures reset the connection.             *)
EXTENDS PollLinkTunnelProofs

-----------------------------------------------------------------------------
(* Buffers with a frame after the other, up to the last one that was read.  *)

Numbered(buffer, last) ==
  \A j \in 1..Len(buffer) :
    /\ FrameNo(buffer[j]) = (last - Len(buffer)) + j
    /\ j > 1 => buffer[j][1][2] = 1

LEMMA NumberedAfterAck ==
  ASSUME NEW buffer \in Seq(Frame), GoodBuffer(buffer), NEW last \in Nat,
         Numbered(buffer, last)
  PROVE  Numbered(AfterAck(buffer), last)
<1>1. CASE buffer = <<>>
  BY <1>1 DEF AfterAck
<1>2. CASE buffer # <<>> /\ Len(Head(buffer)) <= kMaxPayloadSize
  <2>1. AfterAck(buffer) = Tail(buffer)
    BY <1>2, EraseLast DEF AfterAck
  <2>2. /\ Len(buffer) \in Nat /\ Len(Tail(buffer)) = Len(buffer) - 1
        /\ \A j \in 1..Len(Tail(buffer)) :
             Tail(buffer)[j] = buffer[j + 1] /\ j + 1 \in 1..Len(buffer)
    <3>1. /\ Len(buffer) \in Nat /\ Len(Tail(buffer)) = Len(buffer) - 1
          /\ \A j \in 1..Len(Tail(buffer)) : Tail(buffer)[j] = buffer[j + 1]
      BY <1>2, HeadTailProperties, LenProperties
    <3>2. \A j \in 1..Len(Tail(buffer)) : j + 1 \in 1..Len(buffer)
      BY <3>1
    <3>3. QED
      BY <3>1, <3>2
  <2>3. ASSUME NEW j \in 1..Len(Tail(buffer))
        PROVE  /\ FrameNo(Tail(buffer)[j]) = (last - Len(Tail(buffer))) + j
               /\ Tail(buffer)[j][1][2] = 1
    <3>1. /\ Tail(buffer)[j] = buffer[j + 1] /\ j + 1 \in 1..Len(buffer) /\ j + 1 > 1
          /\ j \in Nat
      BY <2>2
    <3>2. FrameNo(buffer[j + 1]) = (last - Len(buffer)) + (j + 1) /\ buffer[j + 1][1][2] = 1
      BY <3>1 DEF Numbered
    <3>3. (last - Len(buffer)) + (j + 1) = (last - Len(Tail(buffer))) + j
      <4> DEFINE length == Len(buffer)
      <4>1. Len(Tail(buffer)) = length - 1 /\ length \in Nat /\ j \in Nat
        BY <2>2, <3>1
      <4> HIDE DEF length
      <4>2. (last - length) + (j + 1) = (last - (length - 1)) + j
        BY <4>1
      <4>3. QED
        BY <4>1, <4>2 DEF length
    <3>4. QED
      BY <3>1, <3>2, <3>3
  <2>4. QED
    BY <2>1, <2>3 DEF Numbered
<1>3. CASE buffer # <<>> /\ ~(Len(Head(buffer)) <= kMaxPayloadSize)
  <2> DEFINE left == AfterAck(buffer)
  <2>1. Len(Head(buffer)) > kMaxPayloadSize /\ left = EraseChunk(buffer)
    BY <1>3, HeadGood, ByteTypes, RadioAssumption DEF AfterAck
  <2>2. /\ Len(left) = Len(buffer) /\ FrameNo(left[1]) = FrameNo(Head(buffer))
        /\ \A j \in 1..Len(buffer) : j > 1 => left[j] = buffer[j]
    BY <1>3, <2>1, EraseOther
  <2>3. Head(buffer) = buffer[1] /\ Len(buffer) \in Nat
    BY <1>3, LenProperties
  <2> HIDE DEF left
  <2>4. ASSUME NEW j \in 1..Len(left)
        PROVE  /\ FrameNo(left[j]) = (last - Len(left)) + j
               /\ j > 1 => left[j][1][2] = 1
    <3>1. CASE j = 1
      BY <2>2, <2>3, <3>1 DEF Numbered
    <3>2. CASE j > 1
      BY <2>2, <3>2 DEF Numbered
    <3>3. QED
      BY <2>2, <2>3, <3>1, <3>2
  <2>5. QED
    BY <2>4 DEF Numbered, left
<1>4. QED
  BY <1>1, <1>2, <1>3

\* The frame that is read next has the next number and is whole.
LEMMA NumberedAppend ==
  ASSUME NEW buffer \in Seq(Frame), GoodBuffer(buffer), NEW last \in Nat,
         Numbered(buffer, last),
         NEW frame \in Frame, frame[1] = <<last + 1, 1>>
  PROVE  Numbered(Append(buffer, frame), last + 1)
<1> DEFINE more == Append(buffer, frame)
<1>1. /\ Len(more) = Len(buffer) + 1 /\ Len(buffer) \in Nat
      /\ more[Len(buffer) + 1] = frame
      /\ \A j \in 1..Len(buffer) : more[j] = buffer[j]
  BY AppendProperties, LenProperties
<1>2. FrameNo(frame) = last + 1 /\ frame[1][2] = 1
  BY DEF FrameNo
<1> HIDE DEF more
<1>3. ASSUME NEW j \in 1..Len(more)
      PROVE  /\ FrameNo(more[j]) = ((last + 1) - Len(more)) + j
             /\ j > 1 => more[j][1][2] = 1
  <2>1. CASE j = Len(buffer) + 1
    BY <1>1, <1>2, <2>1
  <2>2. CASE j # Len(buffer) + 1
    <3>1. j \in 1..Len(buffer) /\ more[j] = buffer[j]
      BY <1>1, <2>2
    <3>2. FrameNo(buffer[j]) = (last - Len(buffer)) + j /\ (j > 1 => buffer[j][1][2] = 1)
      BY <3>1 DEF Numbered
    <3>3. last - Len(buffer) = (last + 1) - Len(more)
      BY <1>1
    <3>4. QED
      BY <3>1, <3>2, <3>3
  <2>3. QED
    BY <2>1, <2>2
<1>4. QED
  BY <1>3 DEF Numbered, more

-----------------------------------------------------------------------------
(* The receiver goes on where the sender stands.                            *)

\* The byte that must come next.
NextByte(received, got) ==
  IF received = <<>> THEN <<got + 1, 1>>
  ELSE <<received[1][1], received[1][2] + Len(received)>>

\* No byte is missing between what was received and what is not acknowledged.
GoesOn(received, got, unsent, last) ==
  IF unsent = <<>> THEN received = <<>> /\ got = last
  ELSE Head(unsent)[1] = NextByte(received, got)

\* The frame being received is the one after the last, from its first byte on.
Begun(received, got) == received # <<>> => received[1] = <<got + 1, 1>>

\* A chunk that is accepted leaves no byte out.
LEMMA AcceptGoesOn ==
  ASSUME TypeOK, NEW s \in Side, NEW packet \in Packet,
         ValidateID(last_ack_id[s], packet.id), AcceptPayload(s, packet),
         GoodReassembly(frame_buffer[s], tunnel_out[s]),
         NEW buffer \in Seq(Frame), GoodBuffer(buffer), Carries(packet, buffer),
         Ready(frame_buffer[s], LastNo(tunnel_out[s]), last_ack_id[s] = None, NextPiece(buffer)),
         Begun(frame_buffer[s], LastNo(tunnel_out[s])), NEW last \in Nat,
         Numbered(buffer, last),
         GoesOn(frame_buffer[s], LastNo(tunnel_out[s]), buffer, last)
  PROVE  /\ Begun(frame_buffer'[s], LastNo(tunnel_out'[s]))
         /\ GoesOn(frame_buffer'[s], LastNo(tunnel_out'[s]), AfterAck(buffer), last)
         /\ tunnel_out' # tunnel_out =>
              /\ tunnel_out'[s].frame \in Frame /\ tunnel_out'[s].frame # <<>>
              /\ Piece(tunnel_out'[s].frame)
              /\ tunnel_out'[s].frame[1] = <<LastNo(tunnel_out[s]) + 1, 1>>
<1> DEFINE whole == frame_buffer[s] \o packet.data
           frame == Head(buffer)
           got == LastNo(tunnel_out[s])
<1>1. /\ buffer # <<>> /\ (packet.size <= kMaxPayloadSize <=> Len(frame) <= kMaxPayloadSize)
      /\ AfterAck(buffer) = EraseChunk(buffer) /\ got \in Nat
  BY ReassemblyTypes DEF Carries, AfterAck
<1>2. /\ packet.data \in Frame /\ packet.data # <<>> /\ Piece(packet.data)
      /\ packet.data[1] = frame[1] /\ FrameNo(packet.data) = FrameNo(frame)
  BY CarriedPiece
<1>3. MayCome(frame_buffer[s], got, last_ack_id[s] = None,
              packet.data, packet.size <= kMaxPayloadSize)
  BY CarriedMayCome
<1>4. /\ whole \in Frame /\ whole # <<>> /\ Piece(whole)
      /\ FrameNo(whole) = FrameNo(packet.data)
      /\ IF packet.size <= kMaxPayloadSize
         THEN /\ frame_buffer'[s] = <<>> /\ LastNo(tunnel_out'[s]) = FrameNo(packet.data)
              /\ tunnel_out'[s].frame = whole
         ELSE frame_buffer'[s] = whole /\ UNCHANGED tunnel_out
  BY <1>2, <1>3, AcceptOutcome
<1>5. whole[1] = <<got + 1, 1>>
  <2>1. frame_buffer[s] \in Frame /\ frame[1] = NextByte(frame_buffer[s], got)
    BY <1>1, ReassemblyTypes DEF GoesOn
  <2>2. CASE frame_buffer[s] = <<>>
    <3>1. whole = packet.data
      BY <1>2, <2>2, ConcatEmptySeq DEF Frame
    <3>2. QED
      BY <1>2, <2>1, <2>2, <3>1 DEF NextByte
  <2>3. CASE frame_buffer[s] # <<>>
    <3>1. frame_buffer[s][1] = <<got + 1, 1>>
      BY <2>3 DEF Begun
    <3>2. Len(frame_buffer[s]) >= 1 /\ Len(frame_buffer[s]) \in Nat /\ Len(packet.data) \in Nat
      BY <1>2, <2>1, <2>3, ByteTypes
    <3>3. \A i \in 1..Len(frame_buffer[s]) + Len(packet.data) :
            whole[i] = IF i <= Len(frame_buffer[s]) THEN frame_buffer[s][i]
                       ELSE packet.data[i - Len(frame_buffer[s])]
      BY <1>2, <2>1, ConcatProperties DEF Frame
    <3> DEFINE m == Len(frame_buffer[s])
               k == Len(packet.data)
    <3>4. 1 \in 1..m + k /\ 1 <= m
      <4> m \in Nat /\ m >= 1 /\ k \in Nat
        BY <3>2
      <4> HIDE DEF m, k
      <4>1. QED
        OBVIOUS
    <3>5. whole[1] = frame_buffer[s][1]
      BY <3>3, <3>4
    <3>6. QED
      BY <3>1, <3>5
  <2>4. QED
    BY <2>2, <2>3
<1>6. FrameNo(frame) = got + 1 /\ frame \in Frame /\ Len(frame) \in Nat
  BY <1>1, <1>2, <1>4, <1>5, HeadGood, ByteTypes DEF FrameNo
<1> HIDE DEF whole, frame, got
<1>7. CASE Len(frame) <= kMaxPayloadSize
  <2>1. /\ frame_buffer'[s] = <<>> /\ LastNo(tunnel_out'[s]) = got + 1
        /\ tunnel_out'[s].frame = whole
    BY <1>1, <1>2, <1>4, <1>6, <1>7
  <2>2. AfterAck(buffer) = Tail(buffer)
    BY <1>1, <1>7, EraseLast DEF frame
  <2>3. /\ Len(buffer) \in Nat /\ Len(Tail(buffer)) = Len(buffer) - 1 /\ frame = buffer[1]
        /\ Tail(buffer) \in Seq(Frame) /\ Len(buffer) >= 1
    BY <1>1, HeadTailProperties, EmptySeq DEF frame
  <2>4. got + 1 = (last - Len(buffer)) + 1
    BY <1>6, <2>3 DEF Numbered
  <2>5. GoesOn(<<>>, got + 1, Tail(buffer), last)
    <3>1. CASE Tail(buffer) = <<>>
      <4>1. Len(Tail(buffer)) = 0
        BY <3>1, EmptySeq
      <4>2. got + 1 = last
        <5>1. Len(buffer) \in Nat
          BY <2>3
        <5>2. Len(Tail(buffer)) = Len(buffer) - 1
          BY <2>3
        <5>3. Len(buffer) = 1
          BY <4>1, <5>1, <5>2
        <5>4. (last - 1) + 1 = last
          OBVIOUS
        <5>5. QED
          BY <2>4, <5>3, <5>4
      <4>3. QED
        BY <3>1, <4>2 DEF GoesOn
    <3>2. CASE Tail(buffer) # <<>>
      <4>1. 1 \in 1..Len(Tail(buffer)) /\ Head(Tail(buffer)) = Tail(buffer)[1]
        BY <2>3, <3>2, EmptySeq
      <4>2. Tail(buffer)[1] = buffer[2] /\ 2 \in 1..Len(buffer)
        BY <1>1, <2>3, <4>1, HeadTailProperties
      <4>3. FrameNo(buffer[2]) = (last - Len(buffer)) + 2 /\ buffer[2][1][2] = 1
        BY <4>2 DEF Numbered
      <4>4. buffer[2] \in Frame /\ buffer[2] # <<>>
        BY <4>2, ElementOfSeq DEF GoodBuffer
      <4>5. FrameNo(buffer[2]) \in Nat /\ buffer[2][1] = <<FrameNo(buffer[2]), buffer[2][1][2]>>
        BY <4>4, ByteTypes DEF FrameNo
      <4>6. FrameNo(buffer[2]) = (got + 1) + 1
        <5>1. (last - Len(buffer)) + 2 = ((last - Len(buffer)) + 1) + 1
          BY <2>3
        <5>2. QED
          BY <2>4, <4>3, <5>1
      <4>7. QED
        BY <3>2, <4>1, <4>2, <4>3, <4>5, <4>6 DEF GoesOn, NextByte
    <3>3. QED
      BY <3>1, <3>2
  <2>6. QED
    BY <1>4, <1>5, <2>1, <2>2, <2>5 DEF Begun, got
<1>8. CASE ~(Len(frame) <= kMaxPayloadSize)
  <2>1. frame_buffer'[s] = whole /\ UNCHANGED tunnel_out
    BY <1>1, <1>4, <1>8
  <2>2. /\ NextPiece(AfterAck(buffer)) = Head(AfterAck(buffer)) /\ AfterAck(buffer) # <<>>
        /\ Head(AfterAck(buffer)) # <<>>
    <3>1. Len(frame) > kMaxPayloadSize
      BY <1>6, <1>8, RadioAssumption
    <3>2. AfterAck(buffer) # <<>>
      BY <1>1, <3>1, EraseOther DEF frame
    <3>3. AfterAck(buffer) \in Seq(Frame) /\ GoodBuffer(AfterAck(buffer))
      BY AfterAckGood
    <3>4. QED
      BY <3>2, <3>3, HeadGood
  <2>3. Ready(whole, LastNo(tunnel_out'[s]), FALSE, Head(AfterAck(buffer)))
    BY <2>1, <2>2, AcceptReady
  <2>4. Head(AfterAck(buffer))[1] = <<whole[1][1], whole[1][2] + Len(whole)>>
    BY <1>4, <2>2, <2>3 DEF Ready, MayCome, Follows
  <2>5. QED
    BY <1>4, <1>5, <2>1, <2>2, <2>4 DEF GoesOn, NextByte, Begun, got
<1>9. QED
  BY <1>7, <1>8

-----------------------------------------------------------------------------
(* The inductive invariant.                                                 *)

\* What the secondary still has to send once it learns what the primary has.
Unsent ==
  IF last_ack_id["primary"] = next_id["secondary"] /\ payload_in_flight
  THEN AfterAck(read_buffer["secondary"]) ELSE read_buffer["secondary"]

\* The connection is opened once, before anything is received.
OneSession ==
  connection_reset_required =>
    /\ last_ack_id["primary"] = None /\ frame_buffer["primary"] = <<>>
    /\ \A packet \in Requests : packet = ResetPacket

\* A step that does not end the session.
SessionGoesOn == connection_reset_required' => connection_reset_required

DownlinkWhole ==
  /\ Numbered(read_buffer["secondary"], Len(tunnel_in["secondary"]))
  /\ Begun(frame_buffer["primary"], LastNo(tunnel_out["primary"]))
  /\ GoesOn(frame_buffer["primary"], LastNo(tunnel_out["primary"]), Unsent,
            Len(tunnel_in["secondary"]))

\* What DownlinkWhole depends on.
LEMMA DownlinkUnchanged ==
  ASSUME DownlinkWhole,
         UNCHANGED <<read_buffer["secondary"], tunnel_in["secondary"],
                     frame_buffer["primary"], tunnel_out["primary"], Unsent>>
  PROVE  DownlinkWhole'
BY DEF DownlinkWhole

\* Until the connection is open the primary has acknowledged nothing.
LEMMA UnsentUnopened ==
  ASSUME TypeOK, last_ack_id["primary"] = None
  PROVE  Unsent = read_buffer["secondary"]
BY IdTypes DEF Unsent, Side

LEMMA PollDownlink ==
  ASSUME "late" \notin Faults, TypeOK, TypeOK', Alternate, OneSession, DownlinkWhole, Poll,
         SessionGoesOn
  PROVE  OneSession' /\ DownlinkWhole'
<1>1. CASE ConnectionReset
  <2>1. PICK success \in BOOLEAN :
          phase = "sleeping" /\ Send("secondary", ResetPacket, success)
    BY <1>1 DEF ConnectionReset, Request
  <2>2. Requests' \subseteq {ResetPacket}
    BY <2>1, PollPackets, ResetPacketType
  <2>3. last_ack_id["primary"] = None /\ frame_buffer["primary"] = <<>>
    BY <1>1 DEF OneSession, ConnectionReset
  <2>4. /\ last_ack_id'["primary"] = None /\ frame_buffer'["primary"] = <<>>
        /\ UNCHANGED <<read_buffer, tunnel_in, tunnel_out>>
    BY <1>1 DEF ConnectionReset, OpenSession, TypeOK, RadioTypeOK, Side, historyVars
  <2>5. Unsent = read_buffer["secondary"] /\ Unsent' = read_buffer'["secondary"]
    <3>1. None # next_id'["secondary"]
      BY DEF TypeOK, RadioTypeOK, PacketId, None, Side
    <3>2. QED
      BY <2>3, <2>4, <3>1, UnsentUnopened DEF Unsent
  <2>6. QED
    BY <2>2, <2>3, <2>4, <2>5, DownlinkUnchanged DEF OneSession
<1>2. CASE PerformTunnelTransfer
  <2>1. /\ ~connection_reset_required'
        /\ UNCHANGED <<linkVars, tunnel_in, tunnel_out, payload_in_flight>>
    BY <1>2 DEF PerformTunnelTransfer, Poll, historyVars, secondaryVars, SessionGoesOn
  <2>2. QED
    BY <2>1, DownlinkUnchanged DEF OneSession, Unsent, linkVars
<1>3. QED
  BY <1>1, <1>2 DEF Poll

\* Steps that leave the buffers and the ids alone.
LEMMA OthersDownlink ==
  ASSUME OneSession, DownlinkWhole, SessionGoesOn,
         UNCHANGED <<linkVars, tunnel_in, tunnel_out, payload_in_flight>>,
         Requests' \subseteq Requests
  PROVE  OneSession' /\ DownlinkWhole'
BY DownlinkUnchanged DEF OneSession, SessionGoesOn, Unsent, linkVars

\* A restart of the primary before the connection is open changes nothing.
LEMMA PrimaryRestartDownlink ==
  ASSUME TypeOK, TypeOK', OneSession, DownlinkWhole, SessionGoesOn, PrimaryRestart,
         UNCHANGED secondaryVars
  PROVE  OneSession' /\ DownlinkWhole' /\ tunnel_out' = tunnel_out
<1>1. last_ack_id["primary"] = None /\ frame_buffer["primary"] = <<>> /\ Requests' = Requests
  BY PrimaryRestartPackets DEF PrimaryRestart, OneSession, SessionGoesOn
<1>2. /\ last_ack_id'["primary"] = None /\ frame_buffer'["primary"] = <<>>
      /\ read_buffer'["secondary"] = read_buffer["secondary"]
      /\ UNCHANGED <<tunnel_in, tunnel_out>>
  BY DEF PrimaryRestart, Restart, OpenSession, TypeOK, RadioTypeOK, Side, historyVars
<1>3. Unsent = read_buffer["secondary"] /\ Unsent' = read_buffer'["secondary"]
  <2>1. None # next_id'["secondary"]
    BY DEF TypeOK, RadioTypeOK, PacketId, None, Side
  <2>2. QED
    BY <1>1, <1>2, <2>1, UnsentUnopened DEF Unsent
<1>4. QED
  BY <1>1, <1>2, <1>3, DownlinkUnchanged
     DEF OneSession, PrimaryRestart, SessionGoesOn

\* The response brings the chunk at the front of the buffer of the secondary,
\* or nothing, and what the primary writes is the frame after the last.
LEMMA TransferAnswerDownlink ==
  ASSUME TypeOK, Alternate, Session, FramesInOrder, OneSession, DownlinkWhole, Answer,
         PerformTunnelTransferAnswer
  PROVE  /\ OneSession' /\ DownlinkWhole'
         /\ tunnel_out' # tunnel_out =>
              /\ tunnel_out'["primary"].frame \in Frame /\ tunnel_out'["primary"].frame # <<>>
              /\ Piece(tunnel_out'["primary"].frame)
              /\ tunnel_out'["primary"].frame[1] = <<LastNo(tunnel_out["primary"]) + 1, 1>>
<1> DEFINE response == Head(rx["primary"])
           down == read_buffer["secondary"]
           last == Len(tunnel_in["secondary"])
<1>1. /\ response \in Responses /\ response \in Packet
      /\ phase = "transferring" /\ ~connection_reset_required
      /\ AcceptPayload("primary", response) /\ HandleAck(response)
      /\ ValidateID(last_ack_id["primary"], response.id)
      /\ last_ack_id' = [last_ack_id EXCEPT !["primary"] = next_id["secondary"]]
      /\ next_id' = [next_id EXCEPT !["primary"] = AdvanceID(@)]
      /\ UNCHANGED <<connection_reset_required, payload_in_flight, tunnel_in>>
  BY AnswerPackets, TransferAnswerIds
     DEF PerformTunnelTransferAnswer, Answer, secondaryVars, Session, TransferUnderWay
<1>2. ResponseFits(response) /\ DownlinkReady
  BY <1>1 DEF FramesInOrder, ResponsesFit, SessionReady
<1>3. last_ack_id["primary"] # next_id["secondary"]
  <2>1. AdvanceID(last_ack_id["primary"]) = next_id["secondary"]
    BY <1>1 DEF Session, TransferUnderWay
  <2>2. QED
    BY <2>1, IdTypes, NextIsValid DEF Side
<1>4. /\ Unsent = down
      /\ Ready(frame_buffer["primary"], LastNo(tunnel_out["primary"]),
               last_ack_id["primary"] = None, NextPiece(down))
  BY <1>2, <1>3 DEF Unsent, DownlinkReady
<1>5. /\ read_buffer'["secondary"] = down
      /\ last_ack_id'["primary"] = next_id'["secondary"]
  BY <1>1 DEF HandleAck, TypeOK, RadioTypeOK, Side
<1>6. /\ down \in Seq(Frame) /\ GoodBuffer(down)
      /\ GoodReassembly(frame_buffer["primary"], tunnel_out["primary"])
      /\ last \in Nat /\ "primary" \in Side
  BY ReassemblyTypes, LenProperties
     DEF FramesInOrder, BuffersGood, ReassembliesGood, Side, TypeOK, RadioTypeOK
<1>7. /\ Numbered(down, last)
      /\ Begun(frame_buffer["primary"], LastNo(tunnel_out["primary"]))
      /\ GoesOn(frame_buffer["primary"], LastNo(tunnel_out["primary"]), down, last)
  BY <1>4 DEF DownlinkWhole
<1>9. OneSession'
  BY <1>1 DEF OneSession
<1> HIDE DEF response, down, last
<1>10. CASE payload_in_flight
  <2>1. Carries(response, down)
    BY <1>2, <1>10 DEF ResponseFits, down
  <2>2. /\ Begun(frame_buffer'["primary"], LastNo(tunnel_out'["primary"]))
        /\ GoesOn(frame_buffer'["primary"], LastNo(tunnel_out'["primary"]),
                  AfterAck(down), last)
        /\ tunnel_out' # tunnel_out =>
              /\ tunnel_out'["primary"].frame \in Frame /\ tunnel_out'["primary"].frame # <<>>
              /\ Piece(tunnel_out'["primary"].frame)
              /\ tunnel_out'["primary"].frame[1] = <<LastNo(tunnel_out["primary"]) + 1, 1>>
    BY <1>1, <1>4, <1>6, <1>7, <2>1, AcceptGoesOn
  <2>3. Unsent' = AfterAck(down) /\ Len(tunnel_in'["secondary"]) = last
    BY <1>1, <1>5, <1>10 DEF Unsent, last
  <2>4. DownlinkWhole'
    BY <1>5, <1>7, <2>2, <2>3 DEF DownlinkWhole
  <2>5. QED
    BY <1>9, <2>2, <2>4
<1>11. CASE ~payload_in_flight
  <2>1. response.data = <<>>
    BY <1>2, <1>11 DEF ResponseFits
  <2>2. UNCHANGED <<frame_buffer, tunnel_out>>
    BY <1>1, <2>1 DEF AcceptPayload, Reassemble
  <2>3. Unsent' = down
    BY <1>1, <1>5, <1>11 DEF Unsent
  <2>4. DownlinkWhole'
    BY <1>1, <1>4, <1>5, <2>2, <2>3, DownlinkUnchanged DEF down
  <2>5. QED
    BY <1>9, <2>2, <2>4
<1>12. QED
  BY <1>10, <1>11

\* A request opens the session or acknowledges what Unsent has left out already.
LEMMA HandleRequestDownlink ==
  ASSUME TypeOK, TypeOK', Alternate, Session, FramesInOrder, OneSession, DownlinkWhole,
         HandleRequest, UNCHANGED primaryVars
  PROVE  OneSession' /\ DownlinkWhole' /\ tunnel_out'["primary"] = tunnel_out["primary"]
<1> DEFINE request == Head(rx["secondary"])
<1>1. /\ request \in Requests /\ request \in Packet /\ Requests' = {}
      /\ HandleNetworkTunnelReset(request) \/ HandleNetworkTunnelTxRx(request)
      /\ UNCHANGED <<tunnel_in, connection_reset_required>>
  BY HandlePackets DEF HandleRequest, primaryVars, backoffVars
<1> HIDE DEF request
<1>2. CASE connection_reset_required
  <2>1. request = ResetPacket /\ last_ack_id["primary"] = None
    BY <1>1, <1>2 DEF OneSession
  <2>2. OpenSession("secondary") /\ UNCHANGED <<read_buffer, tunnel_out>>
    BY <1>1, <2>1 DEF HandleNetworkTunnelReset, HandleNetworkTunnelTxRx, ResetPacket
  <2>3. /\ frame_buffer'["primary"] = frame_buffer["primary"]
        /\ last_ack_id'["primary"] = last_ack_id["primary"] /\ next_id'["secondary"] # None
    BY <2>2 DEF OpenSession, TypeOK, RadioTypeOK, Side, PacketId, None
  <2>4. Unsent' = Unsent
    BY <2>1, <2>2, <2>3, UnsentUnopened DEF Unsent
  <2>5. QED
    BY <1>1, <2>2, <2>3, <2>4, DownlinkUnchanged DEF OneSession
<1>3. CASE ~connection_reset_required
  <2>1. OneSession'
    BY <1>1, <1>3 DEF OneSession
  <2>2. request.id # None /\ request.ack = last_ack_id["primary"]
    BY <1>1, <1>3, IdTypes DEF Session, IdsOfSession, Side
  <2>3. HandleNetworkTunnelTxRx(request)
    BY <1>1, <2>2 DEF HandleNetworkTunnelReset
  <2>4. CASE UNCHANGED <<next_id, last_ack_id, frame_buffer, read_buffer, tunnel_out,
                         payload_in_flight>>
    BY <1>1, <2>1, <2>4, DownlinkUnchanged DEF Unsent
  <2>5. CASE /\ AcceptPayload("secondary", request) /\ HandleRequestAck(request)
             /\ last_ack_id' = [last_ack_id EXCEPT !["secondary"] = next_id["primary"]]
             /\ AdvanceID(last_ack_id["primary"]) = next_id'["secondary"]
    <3>1. /\ frame_buffer'["primary"] = frame_buffer["primary"]
          /\ tunnel_out'["primary"] = tunnel_out["primary"]
      BY <1>1, <2>5, RequestAccepted
    <3>2. read_buffer'["secondary"] = Unsent
      BY <2>2, <2>5, RequestAcknowledges DEF Unsent
    <3>3. last_ack_id'["primary"] = last_ack_id["primary"]
      BY <2>5 DEF TypeOK, RadioTypeOK, Side
    <3>4. last_ack_id["primary"] # next_id'["secondary"]
      BY <2>5, IdTypes, NextIsValid DEF Side
    <3>5. Unsent' = Unsent
      BY <3>2, <3>3, <3>4 DEF Unsent
    <3>6. Numbered(Unsent, Len(tunnel_in["secondary"]))
      <4>1. /\ read_buffer["secondary"] \in Seq(Frame) /\ GoodBuffer(read_buffer["secondary"])
            /\ Len(tunnel_in["secondary"]) \in Nat
        BY ReassemblyTypes, LenProperties
           DEF FramesInOrder, BuffersGood, Side, TypeOK, RadioTypeOK
      <4>2. QED
        BY <4>1, NumberedAfterAck DEF DownlinkWhole, Unsent
    <3>7. DownlinkWhole'
      BY <1>1, <3>1, <3>2, <3>5, <3>6 DEF DownlinkWhole
    <3>8. QED
      BY <2>1, <3>1, <3>7
  <2>6. QED
    BY <1>1, <1>3, <2>3, <2>4, <2>5, HandleInSession
<1>4. QED
  BY <1>2, <1>3

\* A frame that is read goes on where the last one stops.
LEMMA AppendGoesOn ==
  ASSUME NEW buffer \in Seq(Frame), GoodBuffer(buffer),
         NEW frame \in Frame, frame # <<>>, Piece(frame),
         \A j \in 1..Len(buffer) : FrameNo(buffer[j]) < FrameNo(frame),
         NEW last \in Nat, frame[1] = <<last + 1, 1>>,
         NEW received, NEW got
  PROVE  /\ GoesOn(received, got, buffer, last)
              => GoesOn(received, got, Append(buffer, frame), last + 1)
         /\ buffer # <<>> /\ GoesOn(received, got, AfterAck(buffer), last)
              => GoesOn(received, got, AfterAck(Append(buffer, frame)), last + 1)
<1> DEFINE more == Append(buffer, frame)
           left == AfterAck(more)
<1>1. /\ more \in Seq(Frame) /\ more # <<>> /\ GoodBuffer(more)
      /\ Head(more) = IF buffer = <<>> THEN frame ELSE Head(buffer)
  BY AppendGood
<1>2. AfterAck(buffer) \in Seq(Frame) /\ GoodBuffer(AfterAck(buffer))
  BY AfterAckGood
<1>3. buffer # <<>> =>
        NextPiece(left) = IF AfterAck(buffer) # <<>> THEN Head(AfterAck(buffer)) ELSE frame
  BY AppendAfterAck, Zenon DEF NextPiece
<1> HIDE DEF more, left
<1>4. GoesOn(received, got, buffer, last) => GoesOn(received, got, more, last + 1)
  BY <1>1 DEF GoesOn, NextByte
<1>5. ASSUME buffer # <<>>, GoesOn(received, got, AfterAck(buffer), last)
      PROVE  GoesOn(received, got, left, last + 1)
  <2>1. CASE AfterAck(buffer) # <<>>
    <3>1. Head(AfterAck(buffer)) # <<>> /\ NextPiece(left) = Head(AfterAck(buffer))
      BY <1>2, <1>3, <1>5, <2>1, HeadGood
    <3>2. left # <<>> /\ Head(left) = Head(AfterAck(buffer))
      BY <3>1 DEF NextPiece
    <3>3. QED
      BY <1>5, <2>1, <3>2 DEF GoesOn
  <2>2. CASE AfterAck(buffer) = <<>>
    <3>1. NextPiece(left) = frame
      BY <1>3, <1>5, <2>2
    <3>2. left # <<>> /\ Head(left) = frame
      BY <3>1 DEF NextPiece
    <3>3. received = <<>> /\ got = last
      BY <1>5, <2>2 DEF GoesOn
    <3>4. QED
      BY <3>2, <3>3 DEF GoesOn, NextByte
  <2>3. QED
    BY <2>1, <2>2
<1>6. QED
  BY <1>4, <1>5 DEF more, left

LEMMA ReadTunnelDownlink ==
  ASSUME TypeOK, FramesTracked, FramesInOrder, InFlightHasFrame, OneSession, DownlinkWhole,
         NEW s \in Side, ReadTunnel(s)
  PROVE  OneSession' /\ DownlinkWhole'
<1>1. PICK length \in FrameLengths :
        /\ tunnel_in' = [tunnel_in EXCEPT ![s] = Append(@, length)]
        /\ read_buffer' = [read_buffer EXCEPT
             ![s] = Append(@, [i \in 1..length |-> <<Len(tunnel_in[s]) + 1, i>>])]
  BY DEF ReadTunnel, TunnelThread
<1>2. /\ UNCHANGED <<next_id, last_ack_id, frame_buffer, tunnel_out, payload_in_flight>>
      /\ UNCHANGED connection_reset_required /\ Requests' = Requests
  BY DEF ReadTunnel, TunnelThread, radioVars, primaryVars, backoffVars, secondaryVars,
         Requests, PacketsIn
<1>3. OneSession'
  BY <1>2 DEF OneSession
<1>4. CASE s = "primary"
  <2>1. UNCHANGED <<read_buffer["secondary"], tunnel_in["secondary"]>>
    BY <1>1, <1>4 DEF TypeOK, RadioTypeOK, Side
  <2>2. QED
    BY <1>2, <1>3, <2>1, DownlinkUnchanged DEF Unsent
<1>5. CASE s = "secondary"
  <2> DEFINE last == Len(tunnel_in["secondary"])
             frame == [i \in 1..length |-> <<last + 1, i>>]
             buffer == read_buffer["secondary"]
             more == Append(buffer, frame)
  <2>1. last \in Nat /\ last + 1 \in Nat /\ length \in Nat \ {0} /\ buffer \in Seq(Frame) /\ GoodBuffer(buffer)
    BY LenProperties, RadioAssumption
       DEF TypeOK, RadioTypeOK, FramesInOrder, BuffersGood, Side
  <2>2. frame \in Frame /\ frame # <<>> /\ Piece(frame) /\ FrameNo(frame) = last + 1
    BY <2>1, NewFrame
  <2>3. frame[1] = <<last + 1, 1>>
    BY <2>1
  <2>4. read_buffer'["secondary"] = more /\ Len(tunnel_in'["secondary"]) = last + 1
    BY <1>1, <1>5, <2>1 DEF TypeOK, RadioTypeOK, Side
  <2> HIDE DEF frame
  <2>5. \A j \in 1..Len(buffer) : FrameNo(buffer[j]) < FrameNo(frame)
    BY <2>2, KnownFrames DEF FramesInOrder, Side
  <2>6. Numbered(more, last + 1)
    BY <2>1, <2>2, <2>3, NumberedAppend DEF DownlinkWhole
  <2> HIDE DEF more, buffer, last
  <2>7. GoesOn(frame_buffer["primary"], LastNo(tunnel_out["primary"]),
               IF last_ack_id["primary"] = next_id["secondary"] /\ payload_in_flight
               THEN AfterAck(more) ELSE more, last + 1)
    <3>1. payload_in_flight => buffer # <<>>
      BY DEF InFlightHasFrame, buffer
    <3>2. GoesOn(frame_buffer["primary"], LastNo(tunnel_out["primary"]), Unsent, last)
      BY DEF DownlinkWhole, last
    <3>3. CASE last_ack_id["primary"] = next_id["secondary"] /\ payload_in_flight
      <4>1. Unsent = AfterAck(buffer)
        BY <3>3 DEF Unsent, buffer
      <4>2. QED
        BY <2>1, <2>2, <2>3, <2>5, <3>1, <3>2, <3>3, <4>1, AppendGoesOn DEF more
    <3>4. CASE ~(last_ack_id["primary"] = next_id["secondary"] /\ payload_in_flight)
      <4>1. Unsent = buffer
        BY <3>4 DEF Unsent, buffer
      <4>2. QED
        BY <2>1, <2>2, <2>3, <2>5, <3>2, <3>4, <4>1, AppendGoesOn DEF more
    <3>5. QED
      BY <3>3, <3>4
  <2>8. DownlinkWhole'
    BY <1>2, <2>4, <2>6, <2>7 DEF DownlinkWhole, Unsent
  <2>9. QED
    BY <1>3, <2>8
<1>6. QED
  BY <1>4, <1>5 DEF Side

LEMMA InitDownlink ==
  ASSUME Init
  PROVE  OneSession /\ DownlinkWhole
<1>1. /\ \A s \in Side : read_buffer[s] = <<>> /\ frame_buffer[s] = <<>> /\ rx[s] = <<>>
      /\ \A s \in Side : tunnel_out[s].frame = <<>> /\ tunnel_in[s] = <<>>
      /\ last_ack_id["primary"] = None
  BY DEF Init, RadioInit, Side
<1>2. PacketsIn(<<>>) = {} /\ Len(<<>>) = 0
  BY PacketsInShort, EmptySeq
<1>3. OneSession
  BY <1>1, <1>2 DEF OneSession, Requests, Side
<1>4. Unsent = <<>>
  BY <1>1 DEF Unsent, AfterAck, Side
<1>5. DownlinkWhole
  <2>1. Numbered(read_buffer["secondary"], Len(tunnel_in["secondary"]))
    BY <1>1, <1>2 DEF Numbered, Side
  <2>2. Begun(frame_buffer["primary"], LastNo(tunnel_out["primary"]))
    BY <1>1 DEF Begun, Side
  <2>3. GoesOn(frame_buffer["primary"], LastNo(tunnel_out["primary"]), Unsent,
               Len(tunnel_in["secondary"]))
    BY <1>1, <1>2, <1>4 DEF GoesOn, LastNo, Side
  <2>4. QED
    BY <2>1, <2>2, <2>3 DEF DownlinkWhole
<1>6. QED
  BY <1>3, <1>5

\* What the primary writes is the next frame of the secondary.
LEMMA NextFrameWritten ==
  ASSUME TypeOK, FramesTracked', UNCHANGED tunnel_in,
         tunnel_out'["primary"].frame \in Frame, tunnel_out'["primary"].frame # <<>>,
         Piece(tunnel_out'["primary"].frame),
         tunnel_out'["primary"].frame[1] = <<LastNo(tunnel_out["primary"]) + 1, 1>>
  PROVE  LET n == IF Written("primary") THEN tunnel_out["primary"].frame[1][1] ELSE 0
         IN  /\ n < Len(tunnel_in["secondary"])
             /\ tunnel_out["primary"].frame' = FrameFrom("secondary", n + 1, 1)
<1> DEFINE lengths == tunnel_in["secondary"]
           whole == tunnel_out'["primary"].frame
           n == LastNo(tunnel_out["primary"])
<1>1. lengths \in Seq(Nat) /\ Len(lengths) \in Nat /\ n \in Nat
  BY LenProperties, ReassemblyTypes DEF TypeOK, RadioTypeOK, Side
<1>2. EndsAtLast(lengths, whole)
  <2>1. EndsAtLast(tunnel_in'["secondary"], whole)
    BY DEF FramesTracked, ReassemblyTracked, Side, Peer
  <2>2. QED
    BY <2>1
<1> HIDE DEF whole, n
<1>3. FrameNo(whole) = n + 1 /\ whole[1][2] = 1
  BY DEF whole, n, FrameNo
<1>4. /\ n + 1 \in 1..Len(lengths)
      /\ whole = [i \in 1..lengths[n + 1] - 1 + 1 |-> <<n + 1, i + 1 - 1>>]
  <2>1. /\ FrameNo(whole) \in 1..Len(lengths)
        /\ whole = [i \in 1..lengths[FrameNo(whole)] - whole[1][2] + 1 |->
                       <<FrameNo(whole), i + whole[1][2] - 1>>]
    BY <1>1, <1>2, WholeFrame DEF whole
  <2>2. QED
    BY <1>3, <2>1, Zenon
<1>5. n < Len(lengths) /\ whole = FrameFrom("secondary", n + 1, 1)
  BY <1>1, <1>4 DEF FrameFrom
<1>6. n = IF Written("primary") THEN tunnel_out["primary"].frame[1][1] ELSE 0
  BY DEF n, LastNo, FrameNo, Written
<1>7. QED
  BY <1>5, <1>6, Zenon DEF whole

\* While the session goes on the downlink stays whole, and each write of the
\* primary is of the next frame.
LEMMA DownlinkStep ==
  ASSUME "late" \notin Faults, "restart_secondary" \notin Faults,
         TypeOK, TypeOK', Alternate, Session, FramesTracked, FramesTracked',
         InFlightHasFrame, FramesInOrder, OneSession, DownlinkWhole, [Next]_vars,
         SessionGoesOn
  PROVE  /\ OneSession' /\ DownlinkWhole'
         /\ tunnel_out["primary"]' # tunnel_out["primary"] =>
              LET n == IF Written("primary") THEN tunnel_out["primary"].frame[1][1] ELSE 0
              IN  /\ n < Len(tunnel_in["secondary"])
                  /\ tunnel_out["primary"].frame' = FrameFrom("secondary", n + 1, 1)
<1>1. CASE Poll
  <2>1. UNCHANGED tunnel_out
    BY <1>1 DEF Poll, ConnectionReset, PerformTunnelTransfer, historyVars
  <2>2. QED
    BY <1>1, <2>1, PollDownlink
<1>2. CASE Timeout
  <2>1. /\ UNCHANGED <<linkVars, tunnel_in, tunnel_out, payload_in_flight>>
        /\ Requests' = Requests
    BY <1>2 DEF Timeout, ReceiveTimeout, radioVars, historyVars, secondaryVars,
                Requests, PacketsIn
  <2>2. QED
    BY <2>1, OthersDownlink
<1>3. CASE Answer /\ ConnectionResetAnswer
  <2>1. /\ UNCHANGED <<linkVars, tunnel_in, tunnel_out, payload_in_flight>>
        /\ Requests' = {}
    BY <1>3, AnswerPackets DEF ConnectionResetAnswer, Answer, historyVars, secondaryVars
  <2>2. QED
    BY <2>1, OthersDownlink
<1>4. CASE Answer /\ PerformTunnelTransferAnswer
  <2>1. /\ OneSession' /\ DownlinkWhole'
        /\ tunnel_out' # tunnel_out =>
              /\ tunnel_out'["primary"].frame \in Frame /\ tunnel_out'["primary"].frame # <<>>
              /\ Piece(tunnel_out'["primary"].frame)
              /\ tunnel_out'["primary"].frame[1] = <<LastNo(tunnel_out["primary"]) + 1, 1>>
    BY <1>4, TransferAnswerDownlink
  <2>2. UNCHANGED tunnel_in
    BY <1>4 DEF PerformTunnelTransferAnswer
  <2>3. CASE tunnel_out' = tunnel_out
    BY <2>1, <2>3
  <2>4. CASE tunnel_out' # tunnel_out
    BY <2>1, <2>2, <2>4, NextFrameWritten
  <2>5. QED
    BY <2>3, <2>4
<1>5. CASE HandleRequest /\ UNCHANGED primaryVars
  BY <1>5, HandleRequestDownlink
<1>6. CASE SendReply /\ UNCHANGED primaryVars
  <2>1. /\ UNCHANGED <<linkVars, tunnel_in, tunnel_out, payload_in_flight>>
        /\ Requests' = Requests
    BY <1>6, SendReplyPackets DEF SendReply, historyVars
  <2>2. QED
    BY <2>1, OthersDownlink
<1>7. CASE \E s \in Side : ReadTunnel(s)
  BY <1>7, ReadTunnelDownlink DEF ReadTunnel, TunnelThread
<1>8. CASE Crash
  <2>1. PrimaryRestart /\ UNCHANGED secondaryVars
    BY <1>8 DEF Crash, SecondaryRestart, May
  <2>2. QED
    BY <2>1, PrimaryRestartDownlink
<1>9. CASE Stabilise \/ UNCHANGED vars
  <2>1. /\ UNCHANGED <<linkVars, tunnel_in, tunnel_out, payload_in_flight>>
        /\ Requests' = Requests
    BY <1>9 DEF Stabilise, vars, radioVars, historyVars, secondaryVars, Requests, PacketsIn
  <2>2. QED
    BY <2>1, OthersDownlink
<1>10. QED
  BY <1>1, <1>2, <1>3, <1>4, <1>5, <1>6, <1>7, <1>8, <1>9
     DEF Next, Primary, Secondary, Answer

\* When answers are in time and the secondary does not restart, the primary
\* writes the frames of the secondary whole, in order, each once and none left
\* out, for as long as it does not open the connection a second time, whichever
\* packets and acknowledgements get lost: the flag payload_in_flight_ and the
\* ids keep a chunk at the front of the buffer of the secondary until the
\* primary has it, and not longer.
THEOREM DownlinkWholeInSession ==
  ASSUME "late" \notin Faults, "restart_secondary" \notin Faults
  PROVE  Spec /\ [][SessionGoesOn]_vars => DownlinkComplete
<1> DEFINE Known == /\ TypeOK /\ ("late" \notin Faults => Alternate) /\ Session
                    /\ FramesTracked /\ InFlightHasFrame /\ FramesInOrder
<1>1. Spec => []Known
  BY TypeCorrect, AlternateAlways, SessionAlways, TrackedAlways, InFlightFrame,
     FramesAlways, PTL
<1>2. Init => OneSession /\ DownlinkWhole
  BY InitDownlink
<1>3. Known /\ Known' /\ OneSession /\ DownlinkWhole /\ [Next]_vars /\ [SessionGoesOn]_vars
      => OneSession' /\ DownlinkWhole'
  <2>1. UNCHANGED vars => SessionGoesOn
    BY DEF vars, primaryVars, backoffVars, SessionGoesOn
  <2>2. QED
    BY <2>1, DownlinkStep
<1>4. Known /\ Known' /\ OneSession /\ DownlinkWhole /\ [Next]_vars /\ [SessionGoesOn]_vars
      => [tunnel_out["primary"]' # tunnel_out["primary"] =>
            LET n == IF Written("primary") THEN tunnel_out["primary"].frame[1][1] ELSE 0
            IN  /\ n < Len(tunnel_in["secondary"])
                /\ tunnel_out["primary"].frame' = FrameFrom("secondary", n + 1, 1)]_vars
  BY DownlinkStep
<1> HIDE DEF Known
<1>5. QED
  BY <1>1, <1>2, <1>3, <1>4, PTL DEF Spec, DownlinkComplete

\* A poll interval of 0 stays 0 when it is doubled.
LEMMA FailureKeepsSession ==
  ASSUME ResetInterval > 0, TypeOK, current_poll_interval = 0, HandleTransactionFailure
  PROVE  current_poll_interval' = 0 /\ UNCHANGED connection_reset_required
<1>1. ~(current_poll_interval >= ResetInterval) /\ current_poll_interval * 2 = 0
  BY PrimaryAssumption
<1>2. QED
  BY <1>1 DEF HandleTransactionFailure

\* A primary that polls without a pause opens the connection once, unless it
\* restarts.
LEMMA NeverResets ==
  ASSUME "restart_primary" \notin Faults, PollInterval = 0, ResetInterval > 0
  PROVE  Spec => [][SessionGoesOn]_vars
<1>1. Init => current_poll_interval = 0
  BY DEF Init, PrimaryInit
<1>2. TypeOK /\ current_poll_interval = 0 /\ [Next]_vars
      => (current_poll_interval = 0)' /\ [SessionGoesOn]_vars
  <2> SUFFICES ASSUME TypeOK, current_poll_interval = 0, [Next]_vars
               PROVE  current_poll_interval' = 0 /\ SessionGoesOn
    OBVIOUS
  <2>1. CASE UNCHANGED backoffVars
    BY <2>1 DEF backoffVars, SessionGoesOn
  <2>2. CASE HandleTransactionFailure
    BY <2>2, FailureKeepsSession DEF SessionGoesOn
  <2>3. CASE Poll \/ Timeout
    BY <2>1, <2>2, <2>3
       DEF Poll, ConnectionReset, PerformTunnelTransfer, Request, Timeout, ReceiveTimeout
  <2>4. CASE Answer
    BY <2>2, <2>4
       DEF Answer, ConnectionResetAnswer, PerformTunnelTransferAnswer, TransferSucceeded,
           SessionGoesOn
  <2>5. ~PrimaryRestart
    BY DEF PrimaryRestart, May
  <2>6. CASE Secondary \/ (\E s \in Side : ReadTunnel(s)) \/ Crash
    BY <2>1, <2>5, <2>6 DEF Secondary, ReadTunnel, Crash, primaryVars
  <2>7. CASE Stabilise \/ UNCHANGED vars
    BY <2>1, <2>7 DEF Stabilise, vars, primaryVars
  <2>8. QED
    BY <2>3, <2>4, <2>6, <2>7 DEF Next, Primary
<1>3. QED
  BY <1>1, <1>2, TypeCorrect, PTL DEF Spec

\* With a poll interval of 0 and no restarts that is so for ever.
THEOREM DownlinkLeavesNothingOut ==
  ASSUME "late" \notin Faults, "restart_primary" \notin Faults,
         "restart_secondary" \notin Faults, PollInterval = 0, ResetInterval > 0
  PROVE  Spec => DownlinkComplete
BY DownlinkWholeInSession, NeverResets, PTL
=============================================================================
