--------------------------- MODULE PollLinkProofs ---------------------------
(* Theorems about the poll link, for every value of the constants.          *)
EXTENDS PollLink, SequenceTheorems, TLAPS

-----------------------------------------------------------------------------
(* The operators of RadioInterface *)

\* AdvanceID stays within the ids a packet can carry.
LEMMA AdvanceIDType ==
  ASSUME NEW id \in PacketId
  PROVE  AdvanceID(id) \in PacketId
BY RadioAssumption DEF AdvanceID, PacketId

\* The chunk at the front of a frame is part of it, and empty only if it is.
LEMMA ChunkType ==
  ASSUME NEW frame \in Frame
  PROVE  /\ GetTransferSize(frame) \in 0..Len(frame)
         /\ GetTransferSize(frame) <= kMaxPayloadSize
         /\ frame # <<>> => GetTransferSize(frame) >= 1
         /\ Chunk(frame) \in Frame
         /\ Len(Chunk(frame)) = GetTransferSize(frame)
         /\ \A i \in 1..Len(Chunk(frame)) : Chunk(frame)[i] = frame[i]
<1>1. /\ GetTransferSize(frame) \in 0..Len(frame)
      /\ GetTransferSize(frame) <= kMaxPayloadSize
      /\ frame # <<>> => GetTransferSize(frame) >= 1
  BY RadioAssumption, LenProperties, EmptySeq DEF GetTransferSize, Frame
<1>2. QED
  BY <1>1, SubSeqProperties, LenProperties DEF Chunk, Frame

\* Acknowledging a chunk leaves a well-formed buffer with no more frames.
LEMMA EraseChunkType ==
  ASSUME NEW buffer \in Seq(Frame), buffer # <<>>
  PROVE  /\ EraseChunk(buffer) \in Seq(Frame)
         /\ Len(EraseChunk(buffer)) <= Len(buffer)
<1> DEFINE frame == Head(buffer)
           rest  == SubSeq(frame, GetTransferSize(frame) + 1, Len(frame))
<1>1. frame \in Frame /\ Tail(buffer) \in Seq(Frame) /\ Len(Tail(buffer)) = Len(buffer) - 1
  BY HeadTailProperties
<1>2. rest \in Frame
  BY <1>1, ChunkType, SubSeqProperties, LenProperties DEF Frame
<1>3. /\ <<rest>> \o Tail(buffer) \in Seq(Frame)
      /\ Len(<<rest>> \o Tail(buffer)) = Len(buffer)
  <2>1. <<rest>> \in Seq(Frame) /\ Len(<<rest>>) = 1
    BY <1>2
  <2>2. QED
    BY <1>1, <2>1, ConcatProperties, LenProperties
<1>4. QED
  BY <1>1, <1>3, LenProperties DEF EraseChunk

\* What the two ends put on the air is a packet.
LEMMA EncodeType ==
  ASSUME NEW id \in PacketId, NEW ack \in PacketId \cup {None}, NEW buffer \in Seq(Frame)
  PROVE  EncodeTunnelTxRxPacket(id, ack, buffer) \in Packet
<1>1. id \in 0..kIDMask /\ ack \in 0..kIDMask
  BY RadioAssumption DEF PacketId, None
<1>2. CASE buffer = <<>>
  BY <1>1, <1>2, RadioAssumption DEF EncodeTunnelTxRxPacket, Packet, Frame
<1>3. CASE buffer # <<>>
  <2>1. Head(buffer) \in Frame
    BY <1>3, HeadTailProperties
  <2>2. Chunk(Head(buffer)) \in Frame
    BY <2>1, ChunkType
  <2>3. (IF Len(Head(buffer)) < UINT8_MAX THEN Len(Head(buffer)) ELSE UINT8_MAX)
          \in 0..UINT8_MAX
    BY <2>1, RadioAssumption, LenProperties DEF Frame
  <2>4. QED
    BY <1>1, <1>3, <2>2, <2>3 DEF EncodeTunnelTxRxPacket, Packet
<1>4. QED
  BY <1>2, <1>3

LEMMA ResetPacketType == ResetPacket \in Packet
BY RadioAssumption DEF ResetPacket, Packet, Frame, None

-----------------------------------------------------------------------------
(* Type correctness: what each part of an action does to the types. *)

\* The secondary holds no response or one.
LEMMA ShortReply ==
  /\ <<>> \in Seq(Packet) /\ Len(<<>>) = 0
  /\ \A packet \in Packet : <<packet>> \in Seq(Packet) /\ Len(<<packet>>) = 1
OBVIOUS

LEMMA SendType ==
  ASSUME NEW to \in Side, NEW packet \in Packet, NEW success \in BOOLEAN,
         RadioTypeOK, Send(to, packet, success)
  PROVE  rx' \in [Side -> Seq(Packet)]
<1>1. Append(rx[to], packet) \in Seq(Packet)
  BY AppendProperties DEF RadioTypeOK
<1>2. QED
  BY <1>1 DEF Send, RadioTypeOK

LEMMA ReceiveType ==
  ASSUME NEW s \in Side, RadioTypeOK, Receive(s)
  PROVE  /\ rx' \in [Side -> Seq(Packet)]
         /\ Head(rx[s]) \in Packet
<1>1. rx[s] \in Seq(Packet) /\ rx[s] # <<>>
  BY DEF RadioTypeOK, Receive
<1>2. Tail(rx[s]) \in Seq(Packet) /\ Head(rx[s]) \in Packet
  BY <1>1, HeadTailProperties
<1>3. QED
  BY <1>2 DEF Receive, RadioTypeOK

LEMMA OpenSessionType ==
  ASSUME NEW s \in Side, RadioTypeOK, OpenSession(s)
  PROVE  /\ next_id' \in [Side -> PacketId]
         /\ last_ack_id' \in [Side -> PacketId \cup {None}]
         /\ frame_buffer' \in [Side -> Frame]
BY RadioAssumption DEF OpenSession, RadioTypeOK, PacketId, Frame

LEMMA AcceptPayloadType ==
  ASSUME NEW s \in Side, NEW packet \in Packet, packet.id # None,
         RadioTypeOK, AcceptPayload(s, packet)
  PROVE  /\ last_ack_id' \in [Side -> PacketId \cup {None}]
         /\ frame_buffer' \in [Side -> Frame]
         /\ tunnel_out' \in [Side -> [frame : Frame, parity : 0..1]]
<1>1. packet.id \in PacketId
  BY RadioAssumption DEF Packet, PacketId, None
<1>2. frame_buffer[s] \o packet.data \in Frame
  BY ConcatProperties DEF RadioTypeOK, Packet, Frame
<1>3. <<>> \in Frame
  BY DEF Frame
<1>4. CASE ValidateID(last_ack_id[s], packet.id)
  <2>1. last_ack_id' \in [Side -> PacketId \cup {None}]
    BY <1>1, <1>4 DEF AcceptPayload, RadioTypeOK
  <2>2. Reassemble(s, packet)
    BY <1>4 DEF AcceptPayload
  <2>3. frame_buffer' \in [Side -> Frame]
    BY <1>2, <1>3, <2>2 DEF Reassemble, RadioTypeOK
  <2>4. tunnel_out' \in [Side -> [frame : Frame, parity : 0..1]]
    <3>1. [frame |-> frame_buffer[s] \o packet.data, parity |-> 1 - tunnel_out[s].parity]
            \in [frame : Frame, parity : 0..1]
      <4>1. tunnel_out[s].parity \in 0..1
        BY DEF RadioTypeOK
      <4>2. 1 - tunnel_out[s].parity \in 0..1
        BY <4>1
      <4>3. QED
        BY <1>2, <4>2
    <3>2. QED
      BY <2>2, <3>1 DEF Reassemble, WriteTunnel, RadioTypeOK
  <2>5. QED
    BY <2>1, <2>3, <2>4
<1>5. CASE ~ValidateID(last_ack_id[s], packet.id)
  BY <1>5 DEF AcceptPayload, RadioTypeOK
<1>6. QED
  BY <1>4, <1>5

LEMMA FailureType ==
  ASSUME PrimaryTypeOK, HandleTransactionFailure
  PROVE  /\ connection_reset_required' \in BOOLEAN
         /\ poll_fail_count' \in 0..FailLimit + 1
         /\ current_poll_interval' \in Nat
<1>1. poll_fail_count' \in 0..FailLimit + 1
  BY PrimaryAssumption DEF HandleTransactionFailure, PrimaryTypeOK
<1>2. connection_reset_required' \in BOOLEAN
  BY Zenon DEF HandleTransactionFailure, PrimaryTypeOK
<1>3. current_poll_interval * 2 \in Nat
  BY DEF PrimaryTypeOK
<1>4. current_poll_interval' \in Nat
  BY <1>3, Zenon DEF HandleTransactionFailure, PrimaryTypeOK
<1>5. QED
  BY <1>1, <1>2, <1>4

LEMMA RequestType ==
  ASSUME NEW packet \in Packet, NEW waiting \in {"resetting", "transferring"},
         RadioTypeOK, PrimaryTypeOK, Request(packet, waiting)
  PROVE  /\ rx' \in [Side -> Seq(Packet)]
         /\ listening' \in BOOLEAN
         /\ PrimaryTypeOK'
<1>1. PICK success \in BOOLEAN :
        /\ Send("secondary", packet, success)
        /\ listening' = success
        /\ IF success
           THEN phase' = waiting /\ UNCHANGED backoffVars
           ELSE UNCHANGED phase /\ HandleTransactionFailure
  BY DEF Request
<1>2. rx' \in [Side -> Seq(Packet)]
  BY <1>1, SendType DEF Side
<1>3. PrimaryTypeOK'
  <2>1. CASE success
    BY <1>1, <2>1 DEF PrimaryTypeOK, backoffVars
  <2>2. CASE ~success
    BY <1>1, <2>2, FailureType DEF PrimaryTypeOK
  <2>3. QED
    BY <2>1, <2>2
<1>4. QED
  BY <1>1, <1>2, <1>3

LEMMA HandleAckType ==
  ASSUME NEW response \in Packet, RadioTypeOK, HandleAck(response)
  PROVE  /\ next_id' \in [Side -> PacketId]
         /\ read_buffer' \in [Side -> Seq(Frame)]
BY AdvanceIDType, EraseChunkType DEF HandleAck, RadioTypeOK, Side

LEMMA HandleRequestAckType ==
  ASSUME NEW request \in Packet, RadioTypeOK, HandleRequestAck(request)
  PROVE  /\ next_id' \in [Side -> PacketId]
         /\ read_buffer' \in [Side -> Seq(Frame)]
BY AdvanceIDType, EraseChunkType DEF HandleRequestAck, RadioTypeOK, Side

LEMMA TunnelThreadType ==
  ASSUME NEW s \in Side, RadioTypeOK, TunnelThread(s)
  PROVE  RadioTypeOK'
<1>1. PICK length \in FrameLengths :
        LET n == Len(tunnel_in[s]) + 1
        IN  /\ tunnel_in' = [tunnel_in EXCEPT ![s] = Append(@, length)]
            /\ read_buffer' = [read_buffer EXCEPT
                 ![s] = Append(@, [i \in 1..length |-> <<n, i>>])]
  BY DEF TunnelThread
<1> DEFINE n == Len(tunnel_in[s]) + 1
           frame == [i \in 1..length |-> <<n, i>>]
<1>2. length \in Nat
  BY RadioAssumption
<1>3. n \in Nat
  BY LenProperties DEF RadioTypeOK
<1>4. frame \in Frame
  <2>1. \A i \in 1..length : <<n, i>> \in Byte
    BY <1>2, <1>3 DEF Byte
  <2>2. QED
    BY <1>2, <2>1 DEF Frame
<1>5. Append(tunnel_in[s], length) \in Seq(Nat)
  BY <1>2, AppendProperties DEF RadioTypeOK
<1>6. Append(read_buffer[s], frame) \in Seq(Frame)
  BY <1>4, AppendProperties DEF RadioTypeOK
<1>7. /\ tunnel_in' \in [Side -> Seq(Nat)]
      /\ read_buffer' \in [Side -> Seq(Frame)]
  BY <1>1, <1>5, <1>6 DEF RadioTypeOK
<1>8. QED
  BY <1>7 DEF TunnelThread, RadioTypeOK, radioVars

-----------------------------------------------------------------------------
\* Every variable keeps its type in every step of the link.
LEMMA TypeInit == ASSUME Init PROVE TypeOK
<1>1. RadioTypeOK
  <2>1. 1 \in PacketId
    BY RadioAssumption DEF PacketId
  <2>2. <<>> \in Frame /\ <<>> \in Seq(Frame) /\ <<>> \in Seq(Packet) /\ <<>> \in Seq(Nat)
    BY DEF Frame
  <2>3. [frame |-> <<>>, parity |-> 0] \in [frame : Frame, parity : 0..1]
    BY <2>2
  <2>4. stable \in BOOLEAN /\ listening \in BOOLEAN
    BY DEF Init, RadioInit
  <2>5. QED
    BY <2>1, <2>2, <2>3, <2>4 DEF Init, RadioInit, RadioTypeOK
<1>2. PrimaryTypeOK
  BY PrimaryAssumption DEF Init, PrimaryInit, PrimaryTypeOK
<1>3. SecondaryTypeOK
  <2>1. payload_in_flight \in BOOLEAN
    BY DEF Init, SecondaryInit
  <2>2. reply \in Seq(Packet) /\ Len(reply) <= 1
    BY ShortReply DEF Init, SecondaryInit
  <2>3. QED
    BY <2>1, <2>2 DEF SecondaryTypeOK
<1>4. QED
  BY <1>1, <1>2, <1>3 DEF TypeOK

LEMMA PollType ==
  ASSUME TypeOK, Poll
  PROVE  TypeOK'
<1>1. SecondaryTypeOK'
  BY DEF TypeOK, SecondaryTypeOK, Poll, secondaryVars
<1>2. CASE ConnectionReset
  <2>1. /\ next_id' \in [Side -> PacketId]
        /\ last_ack_id' \in [Side -> PacketId \cup {None}]
        /\ frame_buffer' \in [Side -> Frame]
    BY <1>2, OpenSessionType DEF ConnectionReset, TypeOK, Side
  <2>2. /\ rx' \in [Side -> Seq(Packet)]
        /\ listening' \in BOOLEAN
        /\ PrimaryTypeOK'
    BY <1>2, RequestType, ResetPacketType DEF ConnectionReset, TypeOK
  <2>3. RadioTypeOK'
    BY <1>2, <2>1, <2>2 DEF ConnectionReset, TypeOK, RadioTypeOK, historyVars
  <2>4. QED
    BY <1>1, <2>2, <2>3 DEF TypeOK
<1>3. CASE PerformTunnelTransfer
  <2> DEFINE packet == EncodeTunnelTxRxPacket(next_id["primary"],
                         last_ack_id["primary"], read_buffer["primary"])
  <2>1. packet \in Packet
    BY EncodeType DEF TypeOK, RadioTypeOK, Side
  <2>2. Request(packet, "transferring")
    BY <1>3 DEF PerformTunnelTransfer
  <2>3. /\ rx' \in [Side -> Seq(Packet)]
        /\ listening' \in BOOLEAN
        /\ PrimaryTypeOK'
    <3> HIDE DEF packet
    <3> QED BY <2>1, <2>2, RequestType DEF TypeOK
  <2>4. RadioTypeOK'
    BY <1>3, <2>3 DEF PerformTunnelTransfer, TypeOK, RadioTypeOK, linkVars, historyVars
  <2>5. QED
    BY <1>1, <2>3, <2>4 DEF TypeOK
<1>4. QED
  BY <1>2, <1>3 DEF Poll

LEMMA TimeoutType ==
  ASSUME TypeOK, Timeout
  PROVE  TypeOK'
<1>1. PrimaryTypeOK'
  BY FailureType DEF Timeout, ReceiveTimeout, TypeOK, PrimaryTypeOK
<1>2. QED
  BY <1>1 DEF Timeout, ReceiveTimeout, TypeOK, RadioTypeOK, SecondaryTypeOK,
              linkVars, radioVars, historyVars, secondaryVars

LEMMA AnswerType ==
  ASSUME TypeOK, Answer
  PROVE  TypeOK'
<1> DEFINE response == Head(rx["primary"])
<1>1. SecondaryTypeOK'
  BY DEF TypeOK, SecondaryTypeOK, Answer, secondaryVars
<1>2. CASE ConnectionResetAnswer
  <2>1. rx' \in [Side -> Seq(Packet)]
    BY <1>2, ReceiveType DEF ConnectionResetAnswer, TypeOK, Side
  <2>2. PrimaryTypeOK'
    BY <1>2, FailureType DEF ConnectionResetAnswer, TypeOK, PrimaryTypeOK
  <2>3. RadioTypeOK'
    BY <1>2, <2>1 DEF ConnectionResetAnswer, TypeOK, RadioTypeOK, linkVars, historyVars
  <2>4. QED
    BY <1>1, <2>2, <2>3 DEF TypeOK
<1>3. CASE PerformTunnelTransferAnswer
  <2>1. rx' \in [Side -> Seq(Packet)] /\ response \in Packet
    BY <1>3, ReceiveType DEF PerformTunnelTransferAnswer, TypeOK, Side
  <2>2. CASE response.id = None \/ response.ack = None
    <3>1. PrimaryTypeOK'
      BY <1>3, <2>2, FailureType DEF PerformTunnelTransferAnswer, TypeOK, PrimaryTypeOK
    <3>2. RadioTypeOK'
      BY <1>3, <2>1, <2>2 DEF PerformTunnelTransferAnswer, TypeOK, RadioTypeOK, linkVars
    <3>3. QED
      BY <1>1, <3>1, <3>2 DEF TypeOK
  <2>3. CASE ~(response.id = None \/ response.ack = None)
    <3>1. HandleAck(response) /\ AcceptPayload("primary", response)
      BY <1>3, <2>3 DEF PerformTunnelTransferAnswer
    <3>2. TransferSucceeded \/ HandleTransactionFailure
      BY <1>3, <2>3 DEF PerformTunnelTransferAnswer
    <3>3. PrimaryTypeOK'
      BY <1>3, <3>2, FailureType, PrimaryAssumption
         DEF PerformTunnelTransferAnswer, TransferSucceeded, TypeOK, PrimaryTypeOK
    <3>4. /\ next_id' \in [Side -> PacketId]
          /\ read_buffer' \in [Side -> Seq(Frame)]
      BY <2>1, <3>1, HandleAckType DEF TypeOK
    <3>5. /\ last_ack_id' \in [Side -> PacketId \cup {None}]
          /\ frame_buffer' \in [Side -> Frame]
          /\ tunnel_out' \in [Side -> [frame : Frame, parity : 0..1]]
      BY <2>1, <2>3, <3>1, AcceptPayloadType DEF TypeOK, Side
    <3>6. RadioTypeOK'
      BY <1>3, <2>1, <3>4, <3>5 DEF PerformTunnelTransferAnswer, TypeOK, RadioTypeOK
    <3>7. QED
      BY <1>1, <3>3, <3>6 DEF TypeOK
  <2>4. QED
    BY <2>2, <2>3
<1>4. QED
  BY <1>2, <1>3 DEF Answer

LEMMA HandleRequestType ==
  ASSUME TypeOK, HandleRequest, UNCHANGED primaryVars
  PROVE  TypeOK'
<1> DEFINE request == Head(rx["secondary"])
<1>1. PrimaryTypeOK'
  BY DEF TypeOK, PrimaryTypeOK, primaryVars, backoffVars
<1>2. rx' \in [Side -> Seq(Packet)] /\ request \in Packet
  BY ReceiveType DEF HandleRequest, TypeOK, Side
<1>3. CASE HandleNetworkTunnelReset(request)
  <2>1. OpenSession("secondary")
    BY <1>3 DEF HandleNetworkTunnelReset
  <2>2. /\ next_id' \in [Side -> PacketId]
        /\ last_ack_id' \in [Side -> PacketId \cup {None}]
        /\ frame_buffer' \in [Side -> Frame]
    BY <2>1, OpenSessionType DEF TypeOK, Side
  <2>3. RadioTypeOK'
    BY <1>2, <1>3, <2>2 DEF HandleRequest, HandleNetworkTunnelReset, TypeOK, RadioTypeOK
  <2>4. SecondaryTypeOK'
    <3>1. payload_in_flight' \in BOOLEAN
      BY <1>3 DEF HandleNetworkTunnelReset
    <3>2. reply' \in Seq(Packet) /\ Len(reply') <= 1
      BY <1>3, ResetPacketType, ShortReply DEF HandleNetworkTunnelReset
    <3>3. QED
      BY <3>1, <3>2 DEF SecondaryTypeOK
  <2>5. QED
    BY <1>1, <2>3, <2>4 DEF TypeOK
<1>4. CASE HandleNetworkTunnelTxRx(request)
  <2>1. CASE MissingFields(request)
    <3>1. UNCHANGED <<linkVars, tunnel_out, secondaryVars>>
      BY <1>4, <2>1 DEF HandleNetworkTunnelTxRx
    <3>2. QED
      BY <1>1, <1>2, <3>1 DEF HandleRequest, TypeOK, RadioTypeOK,
         SecondaryTypeOK, linkVars, secondaryVars
  <2>2. CASE ~MissingFields(request)
    <3>1. AcceptPayload("secondary", request) /\ HandleRequestAck(request)
      BY <1>4, <2>2 DEF HandleNetworkTunnelTxRx
    <3>2. request.id # None
      BY <2>2 DEF MissingFields
    <3>3. /\ next_id' \in [Side -> PacketId]
          /\ read_buffer' \in [Side -> Seq(Frame)]
      BY <1>2, <3>1, HandleRequestAckType DEF TypeOK
    <3>4. /\ last_ack_id' \in [Side -> PacketId \cup {None}]
          /\ frame_buffer' \in [Side -> Frame]
          /\ tunnel_out' \in [Side -> [frame : Frame, parity : 0..1]]
      BY <1>2, <3>1, <3>2, AcceptPayloadType DEF TypeOK, Side
    <3>5. RadioTypeOK'
      BY <1>2, <3>3, <3>4 DEF HandleRequest, TypeOK, RadioTypeOK
    <3>6. SecondaryTypeOK'
      <4> DEFINE response == EncodeTunnelTxRxPacket(next_id'["secondary"],
                               last_ack_id'["secondary"], read_buffer'["secondary"])
      <4>1. response \in Packet
        BY <3>3, <3>4, EncodeType DEF Side
      <4>2. reply' = <<response>>
        BY <1>4, <2>2 DEF HandleNetworkTunnelTxRx
      <4>3. payload_in_flight' \in BOOLEAN
        BY <1>4, <2>2 DEF HandleNetworkTunnelTxRx
      <4> HIDE DEF response
      <4>4. QED
        BY <4>1, <4>2, <4>3 DEF SecondaryTypeOK
    <3>7. QED
      BY <1>1, <3>5, <3>6 DEF TypeOK
  <2>3. QED
    BY <2>1, <2>2
<1>5. QED
  BY <1>3, <1>4 DEF HandleRequest

LEMMA SendReplyType ==
  ASSUME TypeOK, SendReply, UNCHANGED primaryVars
  PROVE  TypeOK'
<1>1. Head(reply) \in Packet
  BY HeadTailProperties DEF SendReply, TypeOK, SecondaryTypeOK
<1>2. rx' \in [Side -> Seq(Packet)]
  BY <1>1, SendType DEF SendReply, TypeOK, Side
<1>3. reply' = <<>> /\ payload_in_flight' = payload_in_flight
  BY DEF SendReply
<1>4. SecondaryTypeOK'
  BY <1>3, EmptySeq DEF TypeOK, SecondaryTypeOK
<1>5. QED
  BY <1>2, <1>4 DEF SendReply, TypeOK, RadioTypeOK, PrimaryTypeOK, linkVars,
                    historyVars, primaryVars, backoffVars

LEMMA ReadTunnelType ==
  ASSUME TypeOK, NEW s \in Side, ReadTunnel(s)
  PROVE  TypeOK'
<1>1. RadioTypeOK'
  BY TunnelThreadType DEF ReadTunnel, TypeOK
<1>2. QED
  BY <1>1 DEF ReadTunnel, TypeOK, PrimaryTypeOK, SecondaryTypeOK, primaryVars,
              backoffVars, secondaryVars

LEMMA RestartType ==
  ASSUME NEW s \in Side, RadioTypeOK, Restart(s), listening' \in BOOLEAN
  PROVE  RadioTypeOK'
<1>1. /\ next_id' \in [Side -> PacketId]
      /\ last_ack_id' \in [Side -> PacketId \cup {None}]
      /\ frame_buffer' \in [Side -> Frame]
  BY OpenSessionType DEF Restart
<1>2. /\ read_buffer' \in [Side -> Seq(Frame)]
      /\ rx' \in [Side -> Seq(Packet)]
  BY DEF Restart, RadioTypeOK
<1>3. QED
  BY <1>1, <1>2 DEF Restart, RadioTypeOK, historyVars

LEMMA CrashType ==
  ASSUME TypeOK, Crash
  PROVE  TypeOK'
<1>1. CASE PrimaryRestart /\ UNCHANGED secondaryVars
  <2>1. RadioTypeOK'
    BY <1>1, RestartType DEF PrimaryRestart, TypeOK, Side
  <2>2. PrimaryTypeOK'
    BY <1>1, PrimaryAssumption DEF PrimaryRestart, PrimaryTypeOK
  <2>3. SecondaryTypeOK'
    BY <1>1 DEF TypeOK, SecondaryTypeOK, secondaryVars
  <2>4. QED
    BY <2>1, <2>2, <2>3 DEF TypeOK
<1>2. CASE SecondaryRestart /\ UNCHANGED primaryVars
  <2>1. listening' \in BOOLEAN
    BY <1>2 DEF SecondaryRestart, TypeOK, RadioTypeOK
  <2>2. RadioTypeOK'
    BY <1>2, <2>1, RestartType DEF SecondaryRestart, TypeOK, Side
  <2>3. PrimaryTypeOK'
    BY <1>2 DEF TypeOK, PrimaryTypeOK, primaryVars, backoffVars
  <2>4. SecondaryTypeOK'
    <3>1. payload_in_flight' \in BOOLEAN
      BY <1>2 DEF SecondaryRestart
    <3>2. reply' \in Seq(Packet) /\ Len(reply') <= 1
      BY <1>2, ShortReply DEF SecondaryRestart
    <3>3. QED
      BY <3>1, <3>2 DEF SecondaryTypeOK
  <2>5. QED
    BY <2>2, <2>3, <2>4 DEF TypeOK
<1>3. QED
  BY <1>1, <1>2 DEF Crash

LEMMA TypeUnchanged ==
  ASSUME TypeOK, UNCHANGED vars
  PROVE  TypeOK'
BY DEF vars, linkVars, radioVars, historyVars, primaryVars, backoffVars, secondaryVars,
       TypeOK, RadioTypeOK, PrimaryTypeOK, SecondaryTypeOK

LEMMA StabiliseType ==
  ASSUME TypeOK, Stabilise
  PROVE  TypeOK'
BY DEF Stabilise, linkVars, radioVars, historyVars, primaryVars, backoffVars,
       secondaryVars, TypeOK, RadioTypeOK, PrimaryTypeOK, SecondaryTypeOK

\* No step of either end, of a tunnel thread or of the environment takes a
\* variable out of its type: ids stay in 1..kIDMask, queues hold packets and frames.
THEOREM TypeCorrect == Spec => []TypeOK
<1>1. Init => TypeOK
  BY TypeInit
<1>2. TypeOK /\ [Next]_vars => TypeOK'
  <2> SUFFICES ASSUME TypeOK, [Next]_vars PROVE TypeOK'
    OBVIOUS
  <2>1. CASE Primary
    BY <2>1, PollType, TimeoutType, AnswerType DEF Primary
  <2>2. CASE Secondary
    BY <2>2, HandleRequestType, SendReplyType DEF Secondary
  <2>3. CASE \E s \in Side : ReadTunnel(s)
    BY <2>3, ReadTunnelType
  <2>4. CASE Crash
    BY <2>4, CrashType
  <2>5. CASE Stabilise
    BY <2>5, StabiliseType
  <2>6. CASE UNCHANGED vars
    BY <2>6, TypeUnchanged
  <2>7. QED
    BY <2>1, <2>2, <2>3, <2>4, <2>5, <2>6 DEF Next
<1>3. QED
  BY <1>1, <1>2, PTL DEF Spec

-----------------------------------------------------------------------------
(* Frame ends.  lengths stands for tunnel_in of the side the bytes are from.*)

\* The last byte of a frame read from the tunnel is the last of these bytes.
EndsAtLast(lengths, frame) ==
  \A i \in 1..Len(frame) :
    /\ frame[i][1] \in 1..Len(lengths)
    /\ frame[i][2] = lengths[frame[i][1]] <=> i = Len(frame)

\* None of these bytes is the last one of its frame.
NoEnd(lengths, frame) ==
  \A i \in 1..Len(frame) :
    /\ frame[i][1] \in 1..Len(lengths)
    /\ frame[i][2] # lengths[frame[i][1]]

\* The size field tells whether the payload ends its frame.
ChunkMarked(lengths, packet) ==
  IF packet.size <= kMaxPayloadSize
  THEN EndsAtLast(lengths, packet.data)
  ELSE NoEnd(lengths, packet.data)

\* The inductive invariant: the end of a frame is where it should be in all the
\* places a frame passes through.
BuffersTracked ==
  \A s \in Side : \A j \in 1..Len(read_buffer[s]) :
    EndsAtLast(tunnel_in[s], read_buffer[s][j])

RxTracked ==
  \A s \in Side : \A j \in 1..Len(rx[s]) : ChunkMarked(tunnel_in[Peer(s)], rx[s][j])

ReplyTracked == \A j \in 1..Len(reply) : ChunkMarked(tunnel_in["secondary"], reply[j])

ReassemblyTracked ==
  \A s \in Side : /\ NoEnd(tunnel_in[Peer(s)], frame_buffer[s])
                  /\ EndsAtLast(tunnel_in[Peer(s)], tunnel_out[s].frame)

FramesTracked == BuffersTracked /\ RxTracked /\ ReplyTracked /\ ReassemblyTracked

\* A frame read later does not move the end of an earlier one.
LEMMA AppendKeepsEnds ==
  ASSUME NEW lengths \in Seq(Nat), NEW n \in Nat, NEW frame \in Frame
  PROVE  /\ EndsAtLast(lengths, frame) => EndsAtLast(Append(lengths, n), frame)
         /\ NoEnd(lengths, frame) => NoEnd(Append(lengths, n), frame)
<1>1. /\ Len(Append(lengths, n)) = Len(lengths) + 1
      /\ \A i \in 1..Len(lengths) : Append(lengths, n)[i] = lengths[i]
  BY AppendProperties
<1>2. Len(lengths) \in Nat
  BY LenProperties
<1>3. QED
  BY <1>1, <1>2 DEF EndsAtLast, NoEnd

LEMMA AppendKeepsMarks ==
  ASSUME NEW lengths \in Seq(Nat), NEW n \in Nat, NEW packet \in Packet,
         ChunkMarked(lengths, packet)
  PROVE  ChunkMarked(Append(lengths, n), packet)
BY AppendKeepsEnds DEF ChunkMarked, Packet

\* A packet is marked when the frames in the buffer end where they should.
LEMMA EncodeMarks ==
  ASSUME NEW lengths \in Seq(Nat), NEW id \in PacketId, NEW ack \in PacketId \cup {None},
         NEW buffer \in Seq(Frame),
         \A j \in 1..Len(buffer) : EndsAtLast(lengths, buffer[j])
  PROVE  ChunkMarked(lengths, EncodeTunnelTxRxPacket(id, ack, buffer))
<1>1. CASE buffer = <<>>
  BY <1>1, RadioAssumption DEF EncodeTunnelTxRxPacket, ChunkMarked, EndsAtLast
<1>2. CASE buffer # <<>>
  <2> DEFINE frame == Head(buffer)
             packet == EncodeTunnelTxRxPacket(id, ack, buffer)
  <2>1. frame \in Frame /\ EndsAtLast(lengths, frame)
    BY <1>2, HeadTailProperties, LenProperties, EmptySeq
  <2>2. Len(frame) \in Nat
    BY <2>1, LenProperties DEF Frame
  <2>3. /\ Len(Chunk(frame)) = GetTransferSize(frame)
        /\ \A i \in 1..Len(Chunk(frame)) : Chunk(frame)[i] = frame[i]
    BY <2>1, ChunkType
  <2>4. /\ packet.size = IF Len(frame) < UINT8_MAX THEN Len(frame) ELSE UINT8_MAX
        /\ packet.data = Chunk(frame)
    BY <1>2 DEF EncodeTunnelTxRxPacket
  <2> HIDE DEF frame, packet
  <2>5. CASE Len(frame) <= kMaxPayloadSize
    <3>1. packet.size <= kMaxPayloadSize /\ Len(Chunk(frame)) = Len(frame)
      BY <2>2, <2>3, <2>4, <2>5, RadioAssumption DEF GetTransferSize
    <3>2. EndsAtLast(lengths, Chunk(frame))
      BY <2>1, <2>2, <2>3, <3>1 DEF EndsAtLast
    <3>3. QED
      BY <2>4, <3>1, <3>2 DEF ChunkMarked, packet
  <2>6. CASE Len(frame) > kMaxPayloadSize
    <3>1. ~(packet.size <= kMaxPayloadSize) /\ Len(Chunk(frame)) < Len(frame)
      BY <2>2, <2>3, <2>4, <2>6, RadioAssumption DEF GetTransferSize
    <3>2. NoEnd(lengths, Chunk(frame))
      BY <2>1, <2>2, <2>3, <3>1, LenProperties, RadioAssumption
         DEF EndsAtLast, NoEnd, GetTransferSize
    <3>3. QED
      BY <2>4, <3>1, <3>2 DEF ChunkMarked, packet
  <2>7. QED
    BY <2>2, <2>5, <2>6, RadioAssumption
<1>3. QED
  BY <1>1, <1>2

\* What is left of a frame still ends where the frame does.
LEMMA EraseKeepsEnds ==
  ASSUME NEW lengths \in Seq(Nat), NEW buffer \in Seq(Frame), buffer # <<>>,
         \A j \in 1..Len(buffer) : EndsAtLast(lengths, buffer[j])
  PROVE  \A j \in 1..Len(EraseChunk(buffer)) : EndsAtLast(lengths, EraseChunk(buffer)[j])
<1> DEFINE frame == Head(buffer)
           size  == GetTransferSize(frame)
           rest  == SubSeq(frame, size + 1, Len(frame))
<1>1. /\ frame \in Frame /\ EndsAtLast(lengths, frame)
      /\ Tail(buffer) \in Seq(Frame) /\ Len(Tail(buffer)) = Len(buffer) - 1
      /\ \A j \in 1..Len(Tail(buffer)) : Tail(buffer)[j] = buffer[j + 1]
      /\ Len(buffer) \in Nat \ {0}
  BY HeadTailProperties, LenProperties, EmptySeq
<1>2. \A j \in 1..Len(Tail(buffer)) : EndsAtLast(lengths, Tail(buffer)[j])
  BY <1>1
<1>3. size \in 0..Len(frame) /\ Len(frame) \in Nat
  BY <1>1, ChunkType, LenProperties DEF Frame
<1> HIDE DEF size
<1>4. /\ rest \in Frame
      /\ Len(rest) = Len(frame) - size
      /\ \A i \in 1..Len(rest) : rest[i] = frame[size + i]
  BY <1>1, <1>3, SubSeqProperties DEF Frame
<1>5. EndsAtLast(lengths, rest)
  BY <1>1, <1>3, <1>4 DEF EndsAtLast
<1> HIDE DEF rest
<1>6. /\ Len(<<rest>> \o Tail(buffer)) = 1 + Len(Tail(buffer))
      /\ \A j \in 1..Len(<<rest>> \o Tail(buffer)) :
           (<<rest>> \o Tail(buffer))[j] = IF j = 1 THEN rest ELSE Tail(buffer)[j - 1]
  <2>1. <<rest>> \in Seq(Frame) /\ Len(<<rest>>) = 1 /\ <<rest>>[1] = rest
    BY <1>4
  <2>2. QED
    BY <1>1, <2>1, ConcatProperties, LenProperties
<1>7. \A j \in 1..Len(<<rest>> \o Tail(buffer)) : EndsAtLast(lengths, (<<rest>> \o Tail(buffer))[j])
  BY <1>1, <1>2, <1>5, <1>6
<1>8. EraseChunk(buffer) = IF rest = <<>> THEN Tail(buffer) ELSE <<rest>> \o Tail(buffer)
  BY DEF EraseChunk, rest, size
<1>9. QED
  BY <1>2, <1>7, <1>8

LEMMA SendTracked ==
  ASSUME NEW to \in Side, NEW packet \in Packet, NEW success \in BOOLEAN,
         RadioTypeOK, RxTracked, Send(to, packet, success), UNCHANGED tunnel_in,
         ChunkMarked(tunnel_in[Peer(to)], packet)
  PROVE  RxTracked'
<1>1. CASE rx' = rx
  BY <1>1 DEF RxTracked
<1>2. CASE rx' = [rx EXCEPT ![to] = Append(@, packet)]
  <2>1. /\ rx[to] \in Seq(Packet)
        /\ Len(rx[to]) \in Nat
        /\ Len(Append(rx[to], packet)) = Len(rx[to]) + 1
        /\ \A j \in 1..Len(rx[to]) : Append(rx[to], packet)[j] = rx[to][j]
        /\ Append(rx[to], packet)[Len(rx[to]) + 1] = packet
    BY AppendProperties, LenProperties DEF RadioTypeOK
  <2>2. \A j \in 1..Len(rx'[to]) : ChunkMarked(tunnel_in[Peer(to)], rx'[to][j])
    <3>1. rx'[to] = Append(rx[to], packet)
      BY <1>2 DEF RadioTypeOK
    <3>2. TAKE j \in 1..Len(rx'[to])
    <3>3. CASE j = Len(rx[to]) + 1
      BY <2>1, <3>1, <3>3
    <3>4. CASE j \in 1..Len(rx[to])
      <4>1. ChunkMarked(tunnel_in[Peer(to)], rx[to][j])
        BY <3>4 DEF RxTracked
      <4>2. QED
        BY <2>1, <3>1, <3>4, <4>1
    <3>5. QED
      BY <2>1, <3>1, <3>3, <3>4
  <2>3. \A s \in Side \ {to} : rx'[s] = rx[s]
    BY <1>2 DEF RadioTypeOK
  <2>4. QED
    BY <2>2, <2>3 DEF RxTracked
<1>3. QED
  BY <1>1, <1>2 DEF Send

LEMMA ReceiveTracked ==
  ASSUME NEW to \in Side, RadioTypeOK, RxTracked, Receive(to), UNCHANGED tunnel_in
  PROVE  /\ RxTracked'
         /\ ChunkMarked(tunnel_in[Peer(to)], Head(rx[to]))
<1>1. /\ rx[to] \in Seq(Packet)
      /\ Len(rx[to]) \in Nat \ {0}
      /\ Head(rx[to]) = rx[to][1]
      /\ Len(Tail(rx[to])) = Len(rx[to]) - 1
      /\ \A j \in 1..Len(Tail(rx[to])) : Tail(rx[to])[j] = rx[to][j + 1]
  BY HeadTailProperties, LenProperties, EmptySeq DEF RadioTypeOK, Receive
<1>2. rx'[to] = Tail(rx[to]) /\ \A s \in Side \ {to} : rx'[s] = rx[s]
  BY DEF RadioTypeOK, Receive
<1>3. \A j \in 1..Len(rx'[to]) : ChunkMarked(tunnel_in[Peer(to)], rx'[to][j])
  BY <1>1, <1>2 DEF RxTracked
<1>4. ChunkMarked(tunnel_in[Peer(to)], rx[to][1])
  BY <1>1 DEF RxTracked
<1>5. RxTracked'
  BY <1>2, <1>3 DEF RxTracked
<1>6. QED
  BY <1>1, <1>4, <1>5

\* A marked chunk joins a frame without an end.
LEMMA AcceptTracked ==
  ASSUME NEW to \in Side, NEW packet \in Packet, RadioTypeOK, ReassemblyTracked,
         AcceptPayload(to, packet), UNCHANGED tunnel_in,
         ChunkMarked(tunnel_in[Peer(to)], packet)
  PROVE  ReassemblyTracked'
<1> DEFINE lengths   == tunnel_in[Peer(to)]
           before    == frame_buffer[to]
           assembled == before \o packet.data
<1>1. before \in Frame /\ packet.data \in Frame
  BY DEF RadioTypeOK, Packet
<1>2. /\ Len(before) \in Nat /\ Len(packet.data) \in Nat
      /\ Len(assembled) = Len(before) + Len(packet.data)
      /\ \A i \in 1..Len(assembled) :
           assembled[i] = IF i <= Len(before) THEN before[i]
                          ELSE packet.data[i - Len(before)]
  BY <1>1, ConcatProperties, LenProperties DEF Frame
<1>3. NoEnd(lengths, before)
  BY DEF ReassemblyTracked
<1> HIDE DEF lengths, before, assembled
<1>4. packet.size > kMaxPayloadSize => NoEnd(lengths, assembled)
  <2>1. SUFFICES ASSUME packet.size > kMaxPayloadSize PROVE NoEnd(lengths, assembled)
    OBVIOUS
  <2>2. NoEnd(lengths, packet.data)
    BY <2>1, RadioAssumption DEF ChunkMarked, Packet, lengths
  <2>3. \A i \in 1..Len(assembled) : /\ assembled[i][1] \in 1..Len(lengths)
                                     /\ assembled[i][2] # lengths[assembled[i][1]]
    <3>1. TAKE i \in 1..Len(assembled)
    <3>2. CASE i <= Len(before)
      BY <1>2, <1>3, <3>2 DEF NoEnd
    <3>3. CASE i > Len(before)
      <4>1. i - Len(before) \in 1..Len(packet.data)
        BY <1>2, <3>3
      <4>2. assembled[i] = packet.data[i - Len(before)]
        BY <1>2, <3>3
      <4>3. QED
        BY <2>2, <4>1, <4>2 DEF NoEnd
    <3>4. QED
      BY <1>2, <3>2, <3>3
  <2>4. QED
    BY <2>3 DEF NoEnd
<1>5. packet.size <= kMaxPayloadSize /\ packet.data # <<>> => EndsAtLast(lengths, assembled)
  <2>1. SUFFICES ASSUME packet.size <= kMaxPayloadSize, packet.data # <<>>
                 PROVE  EndsAtLast(lengths, assembled)
    OBVIOUS
  <2>2. EndsAtLast(lengths, packet.data)
    BY <2>1 DEF ChunkMarked, lengths
  <2>3. Len(packet.data) >= 1
    BY <1>1, <1>2, <2>1, EmptySeq DEF Frame
  <2>4. \A i \in 1..Len(assembled) :
          /\ assembled[i][1] \in 1..Len(lengths)
          /\ assembled[i][2] = lengths[assembled[i][1]] <=> i = Len(assembled)
    <3>1. TAKE i \in 1..Len(assembled)
    <3>2. CASE i <= Len(before)
      <4>1. assembled[i] = before[i] /\ i # Len(assembled)
        BY <1>2, <2>3, <3>2
      <4>2. QED
        BY <1>2, <1>3, <3>2, <4>1 DEF NoEnd
    <3>3. CASE i > Len(before)
      <4>1. /\ i - Len(before) \in 1..Len(packet.data)
            /\ i - Len(before) = Len(packet.data) <=> i = Len(assembled)
        BY <1>2, <3>3
      <4>2. assembled[i] = packet.data[i - Len(before)]
        BY <1>2, <3>3
      <4>3. QED
        BY <2>2, <4>1, <4>2 DEF EndsAtLast
    <3>4. QED
      BY <1>2, <3>2, <3>3
  <2>5. QED
    BY <2>4 DEF EndsAtLast
<1>6. CASE UNCHANGED <<frame_buffer, tunnel_out>>
  BY <1>6 DEF ReassemblyTracked
<1>7. CASE /\ packet.size > kMaxPayloadSize
           /\ frame_buffer' = [frame_buffer EXCEPT ![to] = assembled]
           /\ UNCHANGED tunnel_out
  <2>1. frame_buffer'[to] = assembled /\ \A s \in Side \ {to} : frame_buffer'[s] = frame_buffer[s]
    BY <1>7 DEF RadioTypeOK
  <2>2. QED
    BY <1>4, <1>7, <2>1 DEF ReassemblyTracked, lengths
<1>8. CASE /\ packet.data # <<>> /\ packet.size <= kMaxPayloadSize
           /\ WriteTunnel(to, assembled)
           /\ frame_buffer' = [frame_buffer EXCEPT ![to] = <<>>]
  <2>1. /\ frame_buffer'[to] = <<>>
        /\ \A s \in Side \ {to} : frame_buffer'[s] = frame_buffer[s]
        /\ tunnel_out'[to].frame = assembled
        /\ \A s \in Side \ {to} : tunnel_out'[s] = tunnel_out[s]
    BY <1>8 DEF WriteTunnel, RadioTypeOK
  <2>2. NoEnd(lengths, <<>>)
    BY DEF NoEnd
  <2>3. QED
    BY <1>5, <1>8, <2>1, <2>2 DEF ReassemblyTracked, lengths
<1>9. QED
  BY <1>6, <1>7, <1>8 DEF AcceptPayload, Reassemble, assembled, before

LEMMA OpenSessionTracked ==
  ASSUME NEW side \in Side, RadioTypeOK, ReassemblyTracked,
         OpenSession(side), UNCHANGED <<tunnel_in, tunnel_out>>
  PROVE  ReassemblyTracked'
<1>1. /\ frame_buffer'[side] = <<>>
      /\ \A s \in Side \ {side} : frame_buffer'[s] = frame_buffer[s]
  BY DEF OpenSession, RadioTypeOK
<1>2. \A lengths : NoEnd(lengths, <<>>)
  BY DEF NoEnd
<1>3. QED
  BY <1>1, <1>2 DEF ReassemblyTracked

\* Both kinds of acknowledgement erase a chunk or nothing.
LEMMA EraseTracked ==
  ASSUME NEW side \in Side, RadioTypeOK, BuffersTracked, UNCHANGED tunnel_in,
         \/ UNCHANGED read_buffer
         \/ /\ read_buffer[side] # <<>>
            /\ read_buffer' = [read_buffer EXCEPT ![side] = EraseChunk(@)]
  PROVE  BuffersTracked'
<1>1. CASE UNCHANGED read_buffer
  BY <1>1 DEF BuffersTracked
<1>2. CASE /\ read_buffer[side] # <<>>
           /\ read_buffer' = [read_buffer EXCEPT ![side] = EraseChunk(@)]
  <2>1. read_buffer[side] \in Seq(Frame) /\ tunnel_in[side] \in Seq(Nat)
    BY DEF RadioTypeOK
  <2>2. \A j \in 1..Len(read_buffer[side]) : EndsAtLast(tunnel_in[side], read_buffer[side][j])
    BY DEF BuffersTracked
  <2>3. \A j \in 1..Len(EraseChunk(read_buffer[side])) :
          EndsAtLast(tunnel_in[side], EraseChunk(read_buffer[side])[j])
    BY <1>2, <2>1, <2>2, EraseKeepsEnds
  <2>4. /\ read_buffer'[side] = EraseChunk(read_buffer[side])
        /\ \A s \in Side \ {side} : read_buffer'[s] = read_buffer[s]
    BY <1>2 DEF RadioTypeOK
  <2>5. QED
    BY <2>3, <2>4 DEF BuffersTracked
<1>3. QED
  BY <1>1, <1>2

LEMMA ResetPacketMarked == \A lengths : ChunkMarked(lengths, ResetPacket)
BY RadioAssumption DEF ChunkMarked, EndsAtLast, ResetPacket

LEMMA PollTracked ==
  ASSUME TypeOK, FramesTracked, Poll
  PROVE  FramesTracked'
<1>1. UNCHANGED <<reply, tunnel_in, tunnel_out, read_buffer>>
  BY DEF Poll, ConnectionReset, PerformTunnelTransfer, secondaryVars, linkVars, historyVars
<1>2. BuffersTracked' /\ ReplyTracked'
  BY <1>1 DEF FramesTracked, BuffersTracked, ReplyTracked
<1>3. CASE ConnectionReset
  <2>1. ReassemblyTracked'
    BY <1>1, <1>3, OpenSessionTracked DEF ConnectionReset, TypeOK, FramesTracked, Side
  <2>2. PICK success \in BOOLEAN : Send("secondary", ResetPacket, success)
    BY <1>3 DEF ConnectionReset, Request
  <2>3. RxTracked'
    BY <1>1, <2>2, SendTracked, ResetPacketType, ResetPacketMarked DEF TypeOK, FramesTracked, Side
  <2>4. QED
    BY <1>2, <2>1, <2>3 DEF FramesTracked
<1>4. CASE PerformTunnelTransfer
  <2> DEFINE packet == EncodeTunnelTxRxPacket(next_id["primary"], last_ack_id["primary"],
                                              read_buffer["primary"])
  <2>1. /\ next_id["primary"] \in PacketId
        /\ last_ack_id["primary"] \in PacketId \cup {None}
        /\ read_buffer["primary"] \in Seq(Frame)
        /\ tunnel_in["primary"] \in Seq(Nat)
    BY DEF TypeOK, RadioTypeOK, Side
  <2>2. packet \in Packet
    BY <2>1, EncodeType
  <2>3. \A j \in 1..Len(read_buffer["primary"]) :
          EndsAtLast(tunnel_in["primary"], read_buffer["primary"][j])
    BY DEF FramesTracked, BuffersTracked, Side
  <2>4. ChunkMarked(tunnel_in["primary"], packet)
    BY <2>1, <2>3, EncodeMarks
  <2>5. PICK success \in BOOLEAN : Send("secondary", packet, success)
    BY <1>4 DEF PerformTunnelTransfer, Request
  <2> HIDE DEF packet
  <2>6. RxTracked'
    BY <1>1, <2>2, <2>4, <2>5, SendTracked DEF TypeOK, FramesTracked, Side, Peer
  <2>7. ReassemblyTracked'
    BY <1>1, <1>4 DEF PerformTunnelTransfer, linkVars, FramesTracked, ReassemblyTracked
  <2>8. QED
    BY <1>2, <2>6, <2>7 DEF FramesTracked
<1>5. QED
  BY <1>3, <1>4 DEF Poll

LEMMA AnswerTracked ==
  ASSUME TypeOK, FramesTracked, Answer
  PROVE  FramesTracked'
<1> DEFINE response == Head(rx["primary"])
<1>1. UNCHANGED <<reply, tunnel_in>> /\ Receive("primary")
  BY DEF Answer, ConnectionResetAnswer, PerformTunnelTransferAnswer, secondaryVars, historyVars
<1>2. RxTracked' /\ ChunkMarked(tunnel_in["secondary"], response)
  BY <1>1, ReceiveTracked DEF TypeOK, FramesTracked, Side, Peer
<1>3. response \in Packet
  BY <1>1, ReceiveType DEF TypeOK, Side
<1>4. ReplyTracked'
  BY <1>1 DEF FramesTracked, ReplyTracked
<1>5. \/ UNCHANGED <<linkVars, tunnel_out>>
      \/ HandleAck(response) /\ AcceptPayload("primary", response)
  BY DEF Answer, ConnectionResetAnswer, PerformTunnelTransferAnswer, historyVars
<1> HIDE DEF response
<1>6. CASE UNCHANGED <<linkVars, tunnel_out>>
  <2>1. BuffersTracked' /\ ReassemblyTracked'
    BY <1>1, <1>6 DEF FramesTracked, BuffersTracked, ReassemblyTracked, linkVars
  <2>2. QED
    BY <1>2, <1>4, <2>1 DEF FramesTracked
<1>7. CASE HandleAck(response) /\ AcceptPayload("primary", response)
  <2>1. ReassemblyTracked'
    BY <1>1, <1>2, <1>3, <1>7, AcceptTracked DEF TypeOK, FramesTracked, Side, Peer
  <2>2. \/ UNCHANGED read_buffer
        \/ /\ read_buffer["primary"] # <<>>
           /\ read_buffer' = [read_buffer EXCEPT !["primary"] = EraseChunk(@)]
    BY <1>7 DEF HandleAck, TypeOK, RadioTypeOK
  <2>3. BuffersTracked'
    BY <1>1, <2>2, EraseTracked DEF TypeOK, FramesTracked, Side
  <2>4. QED
    BY <1>2, <1>4, <2>1, <2>3 DEF FramesTracked
<1>8. QED
  BY <1>5, <1>6, <1>7

LEMMA HandleRequestTracked ==
  ASSUME TypeOK, TypeOK', FramesTracked, HandleRequest
  PROVE  FramesTracked'
<1> DEFINE request == Head(rx["secondary"])
<1>1. UNCHANGED tunnel_in /\ Receive("secondary")
  BY DEF HandleRequest
<1>2. RxTracked' /\ ChunkMarked(tunnel_in["primary"], request)
  BY <1>1, ReceiveTracked DEF TypeOK, FramesTracked, Side, Peer
<1>3. request \in Packet
  BY <1>1, ReceiveType DEF TypeOK, Side
<1>4. HandleNetworkTunnelReset(request) \/ HandleNetworkTunnelTxRx(request)
  BY DEF HandleRequest
<1> HIDE DEF request
<1>5. CASE HandleNetworkTunnelReset(request)
  <2>1. ReassemblyTracked'
    BY <1>1, <1>5, OpenSessionTracked
       DEF HandleNetworkTunnelReset, TypeOK, FramesTracked, Side
  <2>2. BuffersTracked'
    BY <1>1, <1>5 DEF HandleNetworkTunnelReset, FramesTracked, BuffersTracked
  <2>3. ReplyTracked'
    BY <1>5, ResetPacketMarked DEF HandleNetworkTunnelReset, ReplyTracked
  <2>4. QED
    BY <1>2, <2>1, <2>2, <2>3 DEF FramesTracked
<1>6. CASE UNCHANGED <<linkVars, tunnel_out, secondaryVars>>
  <2>1. BuffersTracked' /\ ReassemblyTracked' /\ ReplyTracked'
    BY <1>1, <1>6 DEF FramesTracked, BuffersTracked, ReassemblyTracked, ReplyTracked,
                      linkVars, secondaryVars
  <2>2. QED
    BY <1>2, <2>1 DEF FramesTracked
<1>7. CASE /\ AcceptPayload("secondary", request)
           /\ HandleRequestAck(request)
           /\ reply' = <<EncodeTunnelTxRxPacket(next_id'["secondary"],
                           last_ack_id'["secondary"], read_buffer'["secondary"])>>
  <2>1. ReassemblyTracked'
    BY <1>1, <1>2, <1>3, <1>7, AcceptTracked DEF TypeOK, FramesTracked, Side, Peer
  <2>2. \/ UNCHANGED read_buffer
        \/ /\ read_buffer["secondary"] # <<>>
           /\ read_buffer' = [read_buffer EXCEPT !["secondary"] = EraseChunk(@)]
    BY <1>7 DEF HandleRequestAck, TypeOK, RadioTypeOK
  <2>3. BuffersTracked'
    BY <1>1, <2>2, EraseTracked DEF TypeOK, FramesTracked, Side
  <2>4. /\ next_id'["secondary"] \in PacketId
        /\ last_ack_id'["secondary"] \in PacketId \cup {None}
        /\ read_buffer'["secondary"] \in Seq(Frame)
        /\ tunnel_in["secondary"] \in Seq(Nat)
    BY DEF TypeOK, RadioTypeOK, Side
  <2>5. \A j \in 1..Len(read_buffer'["secondary"]) :
          EndsAtLast(tunnel_in["secondary"], read_buffer'["secondary"][j])
    BY <1>1, <2>3 DEF BuffersTracked, Side
  <2>6. ChunkMarked(tunnel_in["secondary"], EncodeTunnelTxRxPacket(next_id'["secondary"],
                      last_ack_id'["secondary"], read_buffer'["secondary"]))
    BY <2>4, <2>5, EncodeMarks
  <2>7. ReplyTracked'
    BY <1>1, <1>7, <2>6 DEF ReplyTracked
  <2>8. QED
    BY <1>2, <2>1, <2>3, <2>7 DEF FramesTracked
<1>8. QED
  BY <1>4, <1>5, <1>6, <1>7 DEF HandleNetworkTunnelTxRx

LEMMA SendReplyTracked ==
  ASSUME TypeOK, FramesTracked, SendReply
  PROVE  FramesTracked'
<1>1. UNCHANGED <<tunnel_in, tunnel_out, read_buffer, frame_buffer>> /\ reply' = <<>>
  BY DEF SendReply, linkVars, historyVars
<1>2. /\ Head(reply) \in Packet
      /\ ChunkMarked(tunnel_in["secondary"], Head(reply))
  <2>1. reply \in Seq(Packet) /\ Len(reply) \in Nat \ {0} /\ Head(reply) = reply[1]
    BY HeadTailProperties, LenProperties, EmptySeq DEF SendReply, TypeOK, SecondaryTypeOK
  <2>2. reply[1] \in Packet
    BY <2>1, ElementOfSeq
  <2>3. QED
    BY <2>1, <2>2 DEF FramesTracked, ReplyTracked
<1>3. RxTracked'
  BY <1>1, <1>2, SendTracked DEF SendReply, TypeOK, FramesTracked, Side, Peer
<1>4. BuffersTracked' /\ ReassemblyTracked' /\ ReplyTracked'
  BY <1>1 DEF FramesTracked, BuffersTracked, ReassemblyTracked, ReplyTracked
<1>5. QED
  BY <1>3, <1>4 DEF FramesTracked

\* A new frame ends where the tunnel ended it.
LEMMA NewFrameEnds ==
  ASSUME NEW lengths \in Seq(Nat), NEW length \in Nat
  PROVE  EndsAtLast(Append(lengths, length), [i \in 1..length |-> <<Len(lengths) + 1, i>>])
<1> DEFINE frame == [i \in 1..length |-> <<Len(lengths) + 1, i>>]
           later == Append(lengths, length)
<1>1. /\ Len(lengths) \in Nat
      /\ Len(later) = Len(lengths) + 1
      /\ later[Len(lengths) + 1] = length
  BY AppendProperties, LenProperties
<1>2. Len(frame) = length
  OBVIOUS
<1> HIDE DEF later
<1>3. ASSUME NEW i \in 1..Len(frame)
      PROVE  /\ frame[i][1] \in 1..Len(later)
             /\ frame[i][2] = later[frame[i][1]] <=> i = Len(frame)
  <2>1. frame[i][1] = Len(lengths) + 1 /\ frame[i][2] = i
    BY <1>2
  <2> HIDE DEF frame
  <2>2. QED
    BY <1>1, <1>2, <2>1
<1> HIDE DEF frame
<1>4. QED
  BY <1>3 DEF EndsAtLast, frame, later

LEMMA ReadTunnelTracked ==
  ASSUME TypeOK, TypeOK', FramesTracked, NEW s \in Side, ReadTunnel(s)
  PROVE  FramesTracked'
<1>1. UNCHANGED <<rx, reply, frame_buffer, tunnel_out>>
  BY DEF ReadTunnel, TunnelThread, radioVars, secondaryVars
<1>2. PICK length \in FrameLengths :
        /\ tunnel_in' = [tunnel_in EXCEPT ![s] = Append(@, length)]
        /\ read_buffer' = [read_buffer EXCEPT
             ![s] = Append(@, [i \in 1..length |-> <<Len(tunnel_in[s]) + 1, i>>])]
  BY DEF ReadTunnel, TunnelThread
<1> DEFINE frame == [i \in 1..length |-> <<Len(tunnel_in[s]) + 1, i>>]
<1>3. /\ length \in Nat
      /\ \A t \in Side : tunnel_in[t] \in Seq(Nat) /\ read_buffer[t] \in Seq(Frame)
      /\ \A t \in Side : rx[t] \in Seq(Packet) /\ frame_buffer[t] \in Frame
      /\ \A t \in Side : tunnel_out[t].frame \in Frame
      /\ reply \in Seq(Packet)
  BY RadioAssumption DEF TypeOK, RadioTypeOK, SecondaryTypeOK
<1>4. /\ tunnel_in'[s] = Append(tunnel_in[s], length)
      /\ read_buffer'[s] = Append(read_buffer[s], frame)
      /\ \A t \in Side \ {s} : tunnel_in'[t] = tunnel_in[t] /\ read_buffer'[t] = read_buffer[t]
  BY <1>2 DEF TypeOK, RadioTypeOK
<1>5. EndsAtLast(tunnel_in'[s], frame)
  BY <1>3, <1>4, NewFrameEnds
<1> HIDE DEF frame
<1>6. \A t \in Side : \A f \in Frame :
        /\ EndsAtLast(tunnel_in[t], f) => EndsAtLast(tunnel_in'[t], f)
        /\ NoEnd(tunnel_in[t], f) => NoEnd(tunnel_in'[t], f)
  BY <1>3, <1>4, AppendKeepsEnds
<1>7. \A t \in Side : \A p \in Packet :
        ChunkMarked(tunnel_in[t], p) => ChunkMarked(tunnel_in'[t], p)
  BY <1>3, <1>4, AppendKeepsMarks
<1>8. BuffersTracked'
  <2>1. \A t \in Side : \A j \in 1..Len(read_buffer[t]) :
          EndsAtLast(tunnel_in'[t], read_buffer[t][j])
    BY <1>3, <1>6, ElementOfSeq DEF FramesTracked, BuffersTracked
  <2>2. /\ Len(read_buffer[s]) \in Nat
        /\ Len(read_buffer'[s]) = Len(read_buffer[s]) + 1
        /\ \A j \in 1..Len(read_buffer[s]) : read_buffer'[s][j] = read_buffer[s][j]
        /\ read_buffer'[s][Len(read_buffer[s]) + 1] = frame
    <3>1. read_buffer'[s] \in Seq(Frame)
      BY DEF TypeOK, RadioTypeOK
    <3>2. QED
      BY <1>3, <1>4, <3>1, AppendProperties, LenProperties
  <2>3. \A j \in 1..Len(read_buffer'[s]) : EndsAtLast(tunnel_in'[s], read_buffer'[s][j])
    <3>1. TAKE j \in 1..Len(read_buffer'[s])
    <3>2. j \in 1..Len(read_buffer[s]) \/ j = Len(read_buffer[s]) + 1
      BY <2>2
    <3>3. QED
      BY <1>5, <2>1, <2>2, <3>2
  <2>4. QED
    BY <1>4, <2>1, <2>3 DEF BuffersTracked
<1>9. RxTracked'
  BY <1>1, <1>3, <1>7, ElementOfSeq DEF FramesTracked, RxTracked, Side, Peer
<1>10. ReplyTracked'
  BY <1>1, <1>3, <1>7, ElementOfSeq DEF FramesTracked, ReplyTracked, Side
<1>11. ReassemblyTracked'
  BY <1>1, <1>3, <1>6 DEF FramesTracked, ReassemblyTracked, Side, Peer
<1>12. QED
  BY <1>8, <1>9, <1>10, <1>11 DEF FramesTracked

LEMMA RestartTracked ==
  ASSUME NEW s \in Side, TypeOK, FramesTracked, Restart(s), UNCHANGED reply \/ reply' = <<>>
  PROVE  FramesTracked'
<1>1. UNCHANGED <<tunnel_in, tunnel_out>>
  BY DEF Restart, historyVars
<1>2. ReassemblyTracked'
  BY <1>1, OpenSessionTracked DEF Restart, TypeOK, FramesTracked
<1>3. /\ read_buffer'[s] = <<>> /\ rx'[s] = <<>>
      /\ \A t \in Side \ {s} : read_buffer'[t] = read_buffer[t] /\ rx'[t] = rx[t]
  BY DEF Restart, TypeOK, RadioTypeOK
<1>4. BuffersTracked'
  BY <1>1, <1>3 DEF FramesTracked, BuffersTracked
<1>5. RxTracked'
  BY <1>1, <1>3 DEF FramesTracked, RxTracked
<1>6. ReplyTracked'
  BY <1>1 DEF FramesTracked, ReplyTracked
<1>7. QED
  BY <1>2, <1>4, <1>5, <1>6 DEF FramesTracked

LEMMA TrackedUnchanged ==
  ASSUME FramesTracked, UNCHANGED <<linkVars, rx, historyVars, reply>>
  PROVE  FramesTracked'
BY DEF linkVars, historyVars, FramesTracked, BuffersTracked, RxTracked, ReplyTracked,
       ReassemblyTracked

LEMMA TrackedInit == ASSUME Init PROVE FramesTracked
BY DEF Init, RadioInit, SecondaryInit, FramesTracked, BuffersTracked, RxTracked,
       ReplyTracked, ReassemblyTracked, NoEnd, EndsAtLast

\* The end of a frame is where it should be, in all states of the link.
LEMMA TrackedAlways == Spec => []FramesTracked
<1>1. Init => FramesTracked
  BY TrackedInit
<1>2. TypeOK /\ TypeOK' /\ FramesTracked /\ [Next]_vars => FramesTracked'
  <2> SUFFICES ASSUME TypeOK, TypeOK', FramesTracked, [Next]_vars PROVE FramesTracked'
    OBVIOUS
  <2>1. CASE Poll
    BY <2>1, PollTracked
  <2>2. CASE Timeout
    BY <2>2, TrackedUnchanged DEF Timeout, ReceiveTimeout, radioVars, secondaryVars
  <2>3. CASE Answer
    BY <2>3, AnswerTracked
  <2>4. CASE Secondary
    BY <2>4, HandleRequestTracked, SendReplyTracked DEF Secondary
  <2>5. CASE \E s \in Side : ReadTunnel(s)
    BY <2>5, ReadTunnelTracked
  <2>6. CASE Crash
    BY <2>6, RestartTracked DEF Crash, PrimaryRestart, SecondaryRestart, Side, secondaryVars
  <2>7. CASE Stabilise
    BY <2>7, TrackedUnchanged DEF Stabilise, radioVars, secondaryVars
  <2>8. CASE UNCHANGED vars
    BY <2>8, TrackedUnchanged DEF vars, radioVars, secondaryVars
  <2>9. QED
    BY <2>1, <2>2, <2>3, <2>4, <2>5, <2>6, <2>7, <2>8 DEF Next, Primary
<1>3. QED
  BY <1>1, <1>2, TypeCorrect, PTL DEF Spec

\* Whatever is lost, late or restarted, a frame is written when the last byte of
\* a frame arrives and only then: bytes_left never misplaces the end of a frame.
THEOREM FrameEnds == Spec => []FrameEndsKept
<1>1. FramesTracked => FrameEndsKept
  BY DEF FramesTracked, ReassemblyTracked, EndsAtLast, FrameEndsKept, IsLastByte
<1>2. QED
  BY <1>1, TrackedAlways, PTL

-----------------------------------------------------------------------------
(* The read buffer: how long it gets, and when it is not empty. *)

\* Only TunnelThread makes the read buffer of a side longer.
NotLonger(s) == Len(read_buffer'[s]) <= Len(read_buffer[s])

LEMMA EraseNotLonger ==
  ASSUME NEW side \in Side, RadioTypeOK,
         \/ UNCHANGED read_buffer
         \/ /\ read_buffer[side] # <<>>
            /\ read_buffer' = [read_buffer EXCEPT ![side] = EraseChunk(@)]
  PROVE  /\ \A s \in Side : NotLonger(s)
         /\ \A s \in Side \ {side} : read_buffer'[s] = read_buffer[s]
<1>1. \A s \in Side : Len(read_buffer[s]) \in Nat
  BY LenProperties DEF RadioTypeOK
<1>2. CASE UNCHANGED read_buffer
  BY <1>1, <1>2 DEF NotLonger
<1>3. CASE /\ read_buffer[side] # <<>>
           /\ read_buffer' = [read_buffer EXCEPT ![side] = EraseChunk(@)]
  <2>1. Len(EraseChunk(read_buffer[side])) <= Len(read_buffer[side])
    BY <1>3, EraseChunkType DEF RadioTypeOK
  <2>2. /\ read_buffer'[side] = EraseChunk(read_buffer[side])
        /\ \A s \in Side \ {side} : read_buffer'[s] = read_buffer[s]
    BY <1>3 DEF RadioTypeOK
  <2>3. QED
    BY <1>1, <2>1, <2>2 DEF NotLonger
<1>4. QED
  BY <1>2, <1>3

\* The steps of the ends, of the environment, and none at all.
LEMMA OthersNotLonger ==
  ASSUME TypeOK, TypeOK', Poll \/ Timeout \/ Answer \/ Secondary \/ Crash \/ Stabilise
                          \/ UNCHANGED vars
  PROVE  \A s \in Side : NotLonger(s)
<1>1. RadioTypeOK /\ \A s \in Side : Len(read_buffer[s]) \in Nat
  BY LenProperties DEF TypeOK, RadioTypeOK
<1>2. UNCHANGED read_buffer => \A s \in Side : NotLonger(s)
  BY <1>1 DEF NotLonger
<1>3. CASE Poll \/ Timeout \/ Stabilise \/ UNCHANGED vars
  BY <1>2, <1>3 DEF Poll, ConnectionReset, PerformTunnelTransfer, Timeout, ReceiveTimeout,
                    Stabilise, vars, linkVars
<1>4. CASE Answer
  <2>1. \/ UNCHANGED read_buffer
        \/ HandleAck(Head(rx["primary"]))
    BY <1>4 DEF Answer, ConnectionResetAnswer, PerformTunnelTransferAnswer, linkVars
  <2>2. \/ UNCHANGED read_buffer
        \/ /\ read_buffer["primary"] # <<>>
           /\ read_buffer' = [read_buffer EXCEPT !["primary"] = EraseChunk(@)]
    BY <1>1, <2>1 DEF HandleAck, RadioTypeOK
  <2>3. QED
    BY <1>1, <2>2, EraseNotLonger DEF Side
<1>5. CASE Secondary
  <2>1. \/ UNCHANGED read_buffer
        \/ HandleRequestAck(Head(rx["secondary"]))
    BY <1>5 DEF Secondary, HandleRequest, SendReply, HandleNetworkTunnelReset,
                HandleNetworkTunnelTxRx, linkVars
  <2>2. \/ UNCHANGED read_buffer
        \/ /\ read_buffer["secondary"] # <<>>
           /\ read_buffer' = [read_buffer EXCEPT !["secondary"] = EraseChunk(@)]
    BY <1>1, <2>1 DEF HandleRequestAck, RadioTypeOK
  <2>3. QED
    BY <1>1, <2>2, EraseNotLonger DEF Side
<1>6. CASE Crash
  <2>1. PICK side \in Side : read_buffer' = [read_buffer EXCEPT ![side] = <<>>]
    BY <1>6 DEF Crash, PrimaryRestart, SecondaryRestart, Restart, Side
  <2>2. QED
    BY <1>1, <2>1 DEF NotLonger, RadioTypeOK
<1>7. QED
  BY <1>3, <1>4, <1>5, <1>6

\* The read buffer of a side never holds more than one frame beyond the limit of
\* TunnelThread: the frame that thread read before it started to wait.
THEOREM BufferBounded == Spec => []BufferBound
<1>1. Init => BufferBound
  BY RadioAssumption DEF Init, RadioInit, BufferBound
<1>2. TypeOK /\ TypeOK' /\ BufferBound /\ [Next]_vars => BufferBound'
  <2> SUFFICES ASSUME TypeOK, TypeOK', BufferBound, [Next]_vars PROVE BufferBound'
    OBVIOUS
  <2>1. \A s \in Side : Len(read_buffer[s]) \in Nat /\ Len(read_buffer'[s]) \in Nat
    BY LenProperties DEF TypeOK, RadioTypeOK
  <2>2. ASSUME NEW side \in Side, ReadTunnel(side) PROVE BufferBound'
    <3>1. PICK frame :
            read_buffer' = [read_buffer EXCEPT ![side] = Append(@, frame)]
      BY <2>2 DEF ReadTunnel, TunnelThread
    <3>2. /\ read_buffer'[side] = Append(read_buffer[side], frame)
          /\ \A s \in Side \ {side} : read_buffer'[s] = read_buffer[s]
      BY <3>1 DEF TypeOK, RadioTypeOK
    <3>3. Len(read_buffer'[side]) = Len(read_buffer[side]) + 1
      BY <3>2 DEF TypeOK, RadioTypeOK
    <3>4. Len(read_buffer[side]) <= kMaxBufferedFrames
      BY <2>2 DEF ReadTunnel, TunnelThread, RoomToRead
    <3>5. QED
      BY <2>1, <3>2, <3>3, <3>4, RadioAssumption DEF BufferBound
  <2>3. CASE Poll \/ Timeout \/ Answer \/ Secondary \/ Crash \/ Stabilise \/ UNCHANGED vars
    BY <2>1, <2>3, OthersNotLonger, RadioAssumption DEF BufferBound, NotLonger
  <2>4. QED
    BY <2>2, <2>3 DEF Next, Primary
<1>3. QED
  BY <1>1, <1>2, TypeCorrect, PTL DEF Spec

\* While payload_in_flight_ is set the secondary has a frame at the front of its
\* buffer, the one whose chunk the next acknowledgement drops.
THEOREM InFlightFrame == Spec => []InFlightHasFrame
<1>1. Init => InFlightHasFrame
  BY DEF Init, SecondaryInit, InFlightHasFrame
<1>2. TypeOK /\ TypeOK' /\ InFlightHasFrame /\ [Next]_vars => InFlightHasFrame'
  <2> SUFFICES ASSUME TypeOK, TypeOK', InFlightHasFrame, [Next]_vars
               PROVE  InFlightHasFrame'
    OBVIOUS
  <2>1. CASE UNCHANGED <<payload_in_flight, read_buffer>>
    BY <2>1 DEF InFlightHasFrame
  <2>2. CASE Poll \/ Timeout \/ Stabilise \/ UNCHANGED vars \/ SendReply
    BY <2>1, <2>2 DEF Poll, ConnectionReset, PerformTunnelTransfer, Timeout, ReceiveTimeout,
                      Stabilise, SendReply, vars, linkVars, secondaryVars
  <2>3. CASE Answer
    <3>1. UNCHANGED payload_in_flight
      BY <2>3 DEF Answer, secondaryVars
    <3>2. read_buffer'["secondary"] = read_buffer["secondary"]
      BY <2>3 DEF Answer, ConnectionResetAnswer, PerformTunnelTransferAnswer, HandleAck,
                  linkVars, TypeOK, RadioTypeOK, Side
    <3>3. QED
      BY <3>1, <3>2 DEF InFlightHasFrame
  <2>4. CASE HandleRequest
    <3> DEFINE request == Head(rx["secondary"])
    <3>1. HandleNetworkTunnelReset(request) \/ HandleNetworkTunnelTxRx(request)
      BY <2>4 DEF HandleRequest
    <3> HIDE DEF request
    <3>2. CASE HandleNetworkTunnelReset(request)
      BY <3>2 DEF HandleNetworkTunnelReset, InFlightHasFrame
    <3>3. CASE UNCHANGED <<linkVars, secondaryVars>>
      BY <2>1, <3>3 DEF linkVars, secondaryVars
    <3>4. CASE /\ HandleRequestAck(request)
               /\ payload_in_flight' =
                    (read_buffer'["secondary"] # <<>> \/ StillInFlight(request))
      <4>1. StillInFlight(request) => read_buffer'["secondary"] # <<>>
        BY <3>4 DEF StillInFlight, HandleRequestAck, InFlightHasFrame
      <4>2. QED
        BY <3>4, <4>1 DEF InFlightHasFrame
    <3>5. QED
      BY <3>1, <3>2, <3>3, <3>4 DEF HandleNetworkTunnelTxRx
  <2>5. ASSUME NEW side \in Side, ReadTunnel(side) PROVE InFlightHasFrame'
    <3>1. UNCHANGED payload_in_flight
      BY <2>5 DEF ReadTunnel, secondaryVars
    <3>2. PICK frame :
            read_buffer' = [read_buffer EXCEPT ![side] = Append(@, frame)]
      BY <2>5 DEF ReadTunnel, TunnelThread
    <3>3. CASE side = "secondary"
      <4>1. Len(read_buffer'[side]) = Len(read_buffer[side]) + 1
        BY <3>2 DEF TypeOK, RadioTypeOK
      <4>2. Len(read_buffer[side]) \in Nat
        BY LenProperties DEF TypeOK, RadioTypeOK
      <4>3. read_buffer'["secondary"] # <<>>
        BY <3>3, <4>1, <4>2
      <4>4. QED
        BY <4>3 DEF InFlightHasFrame
    <3>4. CASE side # "secondary"
      <4>1. read_buffer'["secondary"] = read_buffer["secondary"]
        BY <3>2, <3>4 DEF TypeOK, RadioTypeOK, Side
      <4>2. QED
        BY <3>1, <4>1 DEF InFlightHasFrame
    <3>5. QED
      BY <3>3, <3>4
  <2>6. CASE PrimaryRestart /\ UNCHANGED secondaryVars
    <3>1. read_buffer'["secondary"] = read_buffer["secondary"]
      BY <2>6 DEF PrimaryRestart, Restart, TypeOK, RadioTypeOK, Side
    <3>2. QED
      BY <2>6, <3>1 DEF InFlightHasFrame, secondaryVars
  <2>7. CASE SecondaryRestart
    BY <2>7 DEF SecondaryRestart, InFlightHasFrame
  <2>8. QED
    BY <2>2, <2>3, <2>4, <2>5, <2>6, <2>7 DEF Next, Primary, Secondary, Crash
<1>3. QED
  BY <1>1, <1>2, TypeCorrect, PTL DEF Spec

-----------------------------------------------------------------------------
(* At most one packet on its way.  OneInFlight alone is not inductive: a    *)
(* primary that sleeps might be sent an answer while it writes the next     *)
(* request.  What excludes it is that a primary which sleeps with its radio *)
(* in receive mode waits for nothing any more.                              *)

InPrimary == Len(rx["primary"])
InSecondary == Len(rx["secondary"])
InReply == Len(reply)
Traffic == InPrimary + InSecondary + InReply

Alternate ==
  /\ Traffic <= 1
  /\ phase = "sleeping" => rx["primary"] = <<>>
  /\ phase = "sleeping" /\ listening => Answered

\* The lengths are numbers, and 0 exactly for an empty queue.
LEMMA Lengths ==
  ASSUME TypeOK
  PROVE  /\ InPrimary \in Nat /\ InSecondary \in Nat /\ InReply \in Nat
         /\ rx["primary"] = <<>> <=> InPrimary = 0
         /\ rx["secondary"] = <<>> <=> InSecondary = 0
         /\ reply = <<>> <=> InReply = 0
         /\ InReply <= 1
BY LenProperties, EmptySeq DEF TypeOK, RadioTypeOK, SecondaryTypeOK, Side,
   InPrimary, InSecondary, InReply

\* The same of the next state.
LEMMA NextLengths ==
  ASSUME TypeOK'
  PROVE  /\ InPrimary' \in Nat /\ InSecondary' \in Nat /\ InReply' \in Nat
         /\ rx'["primary"] = <<>> <=> InPrimary' = 0
         /\ rx'["secondary"] = <<>> <=> InSecondary' = 0
         /\ reply' = <<>> <=> InReply' = 0
         /\ InReply' <= 1
BY LenProperties, EmptySeq DEF TypeOK, RadioTypeOK, SecondaryTypeOK, Side,
   InPrimary, InSecondary, InReply

\* A packet that is sent reaches one FIFO or none.
LEMMA SendTraffic ==
  ASSUME TypeOK, NEW to \in Side, NEW packet \in Packet, NEW success, Send(to, packet, success)
  PROVE  /\ \A s \in Side \ {to} : rx'[s] = rx[s]
         /\ rx'[to] = rx[to] \/ (CanHear(to) /\ Len(rx'[to]) = Len(rx[to]) + 1)
<1>1. rx \in [Side -> Seq(Packet)]
  BY DEF TypeOK, RadioTypeOK
<1>2. Len(Append(rx[to], packet)) = Len(rx[to]) + 1
  BY <1>1, AppendProperties
<1>3. QED
  BY <1>1, <1>2 DEF Send

\* A packet that is taken leaves its FIFO.
LEMMA ReceiveTraffic ==
  ASSUME TypeOK, NEW from \in Side, Receive(from)
  PROVE  /\ \A s \in Side \ {from} : rx'[s] = rx[s]
         /\ Len(rx[from]) >= 1 /\ Len(rx'[from]) = Len(rx[from]) - 1
<1>1. rx \in [Side -> Seq(Packet)]
  BY DEF TypeOK, RadioTypeOK
<1>2. rx[from] \in Seq(Packet) /\ rx[from] # <<>>
  BY <1>1 DEF Receive
<1>3. Len(Tail(rx[from])) = Len(rx[from]) - 1 /\ Len(rx[from]) >= 1
  BY <1>2, HeadTailProperties, EmptySeq, LenProperties
<1>4. QED
  BY <1>1, <1>3 DEF Receive

\* A poll that finds the air quiet sends one packet.
LEMMA PollAlternate ==
  ASSUME "late" \notin Faults, TypeOK, TypeOK', Alternate, Poll
  PROVE  Alternate'
<1>1. Answered /\ reply' = reply
  BY DEF Poll, Prompt, May, secondaryVars
<1>2. PICK packet \in Packet, waiting \in {"resetting", "transferring"} :
        Request(packet, waiting)
  <2>1. CASE ConnectionReset
    BY <2>1, ResetPacketType DEF ConnectionReset
  <2>2. CASE PerformTunnelTransfer
    <3>1. EncodeTunnelTxRxPacket(next_id["primary"], last_ack_id["primary"],
                                 read_buffer["primary"]) \in Packet
      BY EncodeType DEF TypeOK, RadioTypeOK, Side
    <3>2. QED
      BY <2>2, <3>1 DEF PerformTunnelTransfer
  <2>3. QED
    BY <2>1, <2>2 DEF Poll
<1>3. PICK success \in BOOLEAN :
        /\ Send("secondary", packet, success)
        /\ listening' = success
        /\ success => phase' = waiting
  BY <1>2 DEF Request
<1>4. phase = "sleeping" /\ rx["primary"] = <<>>
  BY <1>2 DEF Request, Alternate
<1>5. /\ rx'["primary"] = rx["primary"]
      /\ InSecondary' = InSecondary \/ InSecondary' = InSecondary + 1
  BY <1>3, SendTraffic DEF Side, InSecondary
<1>6. Traffic' <= 1
  <2>1. InSecondary = 0 /\ InPrimary' = 0 /\ InReply' = 0
    BY <1>1, <1>4, <1>5, Lengths, NextLengths DEF Answered
  <2>2. QED
    BY <1>5, <2>1 DEF Traffic
<1>7. phase' = "sleeping" => ~listening'
  BY <1>3
<1>8. QED
  BY <1>4, <1>5, <1>6, <1>7 DEF Alternate

\* An answer that is taken was the only packet on its way.
LEMMA AnswerAlternate ==
  ASSUME TypeOK, TypeOK', Alternate, Answer
  PROVE  Alternate'
<1>1. Receive("primary") /\ reply' = reply
  BY DEF Answer, ConnectionResetAnswer, PerformTunnelTransferAnswer, secondaryVars
<1>2. /\ InPrimary >= 1 /\ InPrimary' = InPrimary - 1
      /\ InSecondary' = InSecondary /\ InReply' = InReply
  BY <1>1, ReceiveTraffic DEF Side, InPrimary, InSecondary, InReply
<1>3. InPrimary' = 0 /\ InSecondary' = 0 /\ InReply' = 0
  BY <1>2, Lengths DEF Alternate, Traffic
<1>4. rx'["primary"] = <<>> /\ rx'["secondary"] = <<>> /\ reply' = <<>>
  BY <1>3, NextLengths
<1>5. QED
  BY <1>3, <1>4 DEF Alternate, Traffic, Answered

\* A request that is handled makes way for its response.
LEMMA HandleRequestAlternate ==
  ASSUME TypeOK, TypeOK', Alternate, HandleRequest, UNCHANGED primaryVars
  PROVE  Alternate'
<1>1. Receive("secondary") /\ reply = <<>> /\ UNCHANGED <<listening, phase>>
  BY DEF HandleRequest, primaryVars
<1>2. /\ InSecondary >= 1 /\ InSecondary' = InSecondary - 1
      /\ rx'["primary"] = rx["primary"] /\ InPrimary' = InPrimary
  BY <1>1, ReceiveTraffic DEF Side, InPrimary, InSecondary
<1>3. Traffic' <= 1
  BY <1>1, <1>2, Lengths, NextLengths DEF Alternate, Traffic
<1>4. ~Answered
  BY <1>2, Lengths DEF Answered
<1>5. QED
  BY <1>1, <1>2, <1>3, <1>4 DEF Alternate

\* A response reaches only a primary that still waits for it.
LEMMA SendReplyAlternate ==
  ASSUME TypeOK, TypeOK', Alternate, SendReply, UNCHANGED primaryVars
  PROVE  Alternate'
<1>1. reply # <<>> /\ reply' = <<>> /\ UNCHANGED <<listening, phase>>
  BY DEF SendReply, primaryVars
<1>2. Head(reply) \in Packet
  BY <1>1, HeadTailProperties DEF TypeOK, SecondaryTypeOK
<1>3. PICK success \in BOOLEAN : Send("primary", Head(reply), success)
  BY DEF SendReply
<1>4. /\ InSecondary' = InSecondary
      /\ \/ rx'["primary"] = rx["primary"] /\ InPrimary' = InPrimary
         \/ CanHear("primary") /\ InPrimary' = InPrimary + 1
  BY <1>2, <1>3, SendTraffic DEF Side, InPrimary, InSecondary
<1>5. InReply = 1 /\ InReply' = 0
  BY <1>1, Lengths, NextLengths
<1>6. Traffic' <= 1
  BY <1>4, <1>5, Lengths DEF Alternate, Traffic
<1>7. phase = "sleeping" => ~listening
  BY <1>1 DEF Alternate, Answered
<1>8. QED
  BY <1>1, <1>4, <1>6, <1>7 DEF Alternate, CanHear

\* The radios and what the two ends wait for stay as they are.
LEMMA QuietAlternate ==
  ASSUME Alternate, UNCHANGED <<rx, reply, phase, listening>>
  PROVE  Alternate'
BY DEF Alternate, Traffic, InPrimary, InSecondary, InReply, Answered

\* A process that starts again leaves fewer packets on their way.
LEMMA CrashAlternate ==
  ASSUME TypeOK, TypeOK', Alternate, Crash
  PROVE  Alternate'
<1>1. CASE PrimaryRestart /\ UNCHANGED secondaryVars
  <2>1. /\ rx'["primary"] = <<>> /\ rx'["secondary"] = rx["secondary"]
        /\ reply' = reply /\ ~listening'
    BY <1>1 DEF PrimaryRestart, Restart, secondaryVars, TypeOK, RadioTypeOK, Side
  <2>2. InPrimary' = 0 /\ InSecondary' = InSecondary /\ InReply' = InReply
    BY <2>1, NextLengths DEF InSecondary, InReply
  <2>3. Traffic' <= 1
    BY <2>2, Lengths DEF Alternate, Traffic
  <2>4. QED
    BY <2>1, <2>3 DEF Alternate
<1>2. CASE SecondaryRestart /\ UNCHANGED primaryVars
  <2>1. /\ rx'["secondary"] = <<>> /\ rx'["primary"] = rx["primary"]
        /\ reply' = <<>> /\ phase' = phase
    BY <1>2 DEF SecondaryRestart, Restart, primaryVars, TypeOK, RadioTypeOK, Side
  <2>2. InPrimary' = InPrimary /\ InSecondary' = 0 /\ InReply' = 0
    BY <2>1, NextLengths DEF InPrimary
  <2>3. Traffic' <= 1
    BY <2>2, Lengths DEF Alternate, Traffic
  <2>4. QED
    BY <2>1, <2>3 DEF Alternate, Answered
<1>3. QED
  BY <1>1, <1>2 DEF Crash

\* Without late answers the two ends alternate, in all states of the link.
LEMMA AlternateAlways == Spec => []("late" \notin Faults => Alternate)
<1>1. Init => ("late" \notin Faults => Alternate)
  <2>1. Init => rx["primary"] = <<>> /\ rx["secondary"] = <<>> /\ reply = <<>>
    BY DEF Init, RadioInit, SecondaryInit, Side
  <2>2. Init => InPrimary = 0 /\ InSecondary = 0 /\ InReply = 0
    BY <2>1, TypeInit, Lengths
  <2>3. QED
    BY <2>1, <2>2 DEF Alternate, Traffic, Answered
<1>2. /\ "late" \notin Faults => Alternate
      /\ TypeOK /\ TypeOK' /\ [Next]_vars
      => ("late" \notin Faults => Alternate)'
  <2> SUFFICES ASSUME "late" \notin Faults, Alternate, TypeOK, TypeOK', [Next]_vars
               PROVE  Alternate'
    OBVIOUS
  <2>1. CASE Poll
    BY <2>1, PollAlternate
  <2>2. CASE Timeout
    <3>1. Answered /\ UNCHANGED <<rx, reply>> /\ rx["primary"] = <<>>
      BY <2>2 DEF Timeout, Prompt, May, ReceiveTimeout, GiveUp, radioVars, secondaryVars
    <3>2. QED
      BY <3>1 DEF Alternate, Traffic, InPrimary, InSecondary, InReply, Answered
  <2>3. CASE Answer
    BY <2>3, AnswerAlternate
  <2>4. CASE HandleRequest /\ UNCHANGED primaryVars
    BY <2>4, HandleRequestAlternate
  <2>5. CASE SendReply /\ UNCHANGED primaryVars
    BY <2>5, SendReplyAlternate
  <2>6. CASE \E s \in Side : ReadTunnel(s)
    BY <2>6, QuietAlternate
       DEF ReadTunnel, TunnelThread, radioVars, primaryVars, secondaryVars
  <2>7. CASE Crash
    BY <2>7, CrashAlternate
  <2>8. CASE Stabilise
    BY <2>8, QuietAlternate DEF Stabilise, radioVars, primaryVars, secondaryVars
  <2>9. CASE UNCHANGED vars
    BY <2>9, QuietAlternate DEF vars, radioVars, primaryVars, secondaryVars
  <2>10. QED
    BY <2>1, <2>2, <2>3, <2>4, <2>5, <2>6, <2>7, <2>8, <2>9
       DEF Next, Primary, Secondary
<1>3. QED
  BY <1>1, <1>2, TypeCorrect, PTL DEF Spec

\* Without late answers at most one packet is on its way: no answer is ever
\* taken for the answer to another request.
THEOREM Alternates == Spec => []OneInFlight
<1>1. ("late" \notin Faults => Alternate) => OneInFlight
  BY DEF Alternate, Traffic, InPrimary, InSecondary, InReply, OneInFlight
<1>2. QED
  BY <1>1, AlternateAlways, PTL
=============================================================================
