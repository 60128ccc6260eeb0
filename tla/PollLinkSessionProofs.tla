------------------------ MODULE PollLinkSessionProofs ------------------------
(* The ids of a session of the poll link, for every value of the constants. *)
(* Answers are in time and the secondary does not restart: what "late" and  *)
(* "restart_secondary" do to the ids is shown by runs of their own.         *)
EXTENDS PollLinkProofs

-----------------------------------------------------------------------------
(* Ids.  None is 0, so AdvanceID(None) is the first id of a session.        *)

\* What InStep says, with one case less.
LEMMA InStepCases ==
  ASSUME NEW next \in PacketId, NEW last \in PacketId \cup {None}
  PROVE  InStep(next, last) <=> last = next \/ AdvanceID(last) = next
BY RadioAssumption DEF InStep, AdvanceID, PacketId, None

\* The id after the one accepted last is valid, and no other id equals both.
LEMMA NextIsValid ==
  ASSUME NEW last \in PacketId \cup {None}
  PROVE  ValidateID(last, AdvanceID(last)) /\ AdvanceID(last) # last
BY RadioAssumption DEF ValidateID, AdvanceID, PacketId, None

\* The id accepted last is not valid a second time.
LEMMA RepeatIsInvalid ==
  ASSUME NEW id \in PacketId
  PROVE  ~ValidateID(id, id)
BY RadioAssumption DEF ValidateID, PacketId, None

-----------------------------------------------------------------------------
(* The packets on their way *)

PacketsIn(queue) == {queue[j] : j \in 1..Len(queue)}

Requests == PacketsIn(rx["secondary"])
Responses == PacketsIn(rx["primary"]) \cup PacketsIn(reply)

\* An empty queue holds no packet, one of length 1 its head.
LEMMA PacketsInShort ==
  ASSUME NEW queue \in Seq(Packet)
  PROVE  /\ queue = <<>> => PacketsIn(queue) = {}
         /\ Len(queue) = 1 => PacketsIn(queue) = {Head(queue)} /\ Tail(queue) = <<>>
         /\ Len(queue) = 0 => queue = <<>>
         /\ queue # <<>> => Head(queue) \in PacketsIn(queue)
         /\ PacketsIn(queue) \subseteq Packet
<1>1. Len(queue) \in Nat /\ (queue = <<>> <=> Len(queue) = 0)
  BY LenProperties, EmptySeq
<1>2. \A j \in 1..Len(queue) : queue[j] \in Packet
  BY ElementOfSeq
<1>3. queue # <<>> => /\ Head(queue) = queue[1] /\ 1 \in 1..Len(queue)
                      /\ Len(Tail(queue)) = Len(queue) - 1
                      /\ Tail(queue) \in Seq(Packet)
  BY <1>1, HeadTailProperties
<1>4. Len(queue) = 1 => Tail(queue) = <<>>
  <2> SUFFICES ASSUME Len(queue) = 1 PROVE Tail(queue) = <<>>
    OBVIOUS
  <2>1. Tail(queue) \in Seq(Packet) /\ Len(Tail(queue)) = 0
    BY <1>1, <1>3
  <2>2. QED
    BY <2>1, EmptySeq
<1>5. Len(queue) = 1 => 1..Len(queue) = {1}
  BY <1>1
<1>6. QED
  BY <1>1, <1>2, <1>3, <1>4, <1>5 DEF PacketsIn

\* A queue to which at most one packet was added.
LEMMA PacketsInAppend ==
  ASSUME NEW packet \in Packet
  PROVE  PacketsIn(Append(<<>>, packet)) = {packet} /\ PacketsIn(<<packet>>) = {packet}
<1>1. Append(<<>>, packet) = <<packet>> /\ <<packet>> \in Seq(Packet) /\ Len(<<packet>>) = 1
  OBVIOUS
<1>2. Head(<<packet>>) = packet
  OBVIOUS
<1>3. QED
  BY <1>1, <1>2, PacketsInShort

\* The queues of the link are sequences of packets.
LEMMA QueueTypes ==
  ASSUME TypeOK
  PROVE  /\ rx["primary"] \in Seq(Packet)
         /\ rx["secondary"] \in Seq(Packet)
         /\ reply \in Seq(Packet)
BY DEF TypeOK, RadioTypeOK, SecondaryTypeOK, Side

\* A poll finds no packet on its way, and leaves its own one at most.
LEMMA PollPackets ==
  ASSUME "late" \notin Faults, TypeOK, Alternate, Poll,
         NEW packet \in Packet, NEW success,
         phase = "sleeping", Send("secondary", packet, success)
  PROVE  Responses = {} /\ Responses' = {} /\ Requests' \subseteq {packet}
<1>1. rx["secondary"] = <<>> /\ reply = <<>> /\ reply' = reply /\ rx["primary"] = <<>>
  BY DEF Poll, Prompt, May, Answered, secondaryVars, Alternate
<1>2. /\ rx'["primary"] = rx["primary"]
      /\ rx'["secondary"] = rx["secondary"] \/ rx'["secondary"] = Append(<<>>, packet)
  BY <1>1 DEF Send, TypeOK, RadioTypeOK, Side
<1>3. QED
  BY <1>1, <1>2, PacketsInAppend, QueueTypes, PacketsInShort DEF Requests, Responses

\* An answer that is taken was the only packet.
LEMMA AnswerPackets ==
  ASSUME TypeOK, Alternate, Answer
  PROVE  /\ Head(rx["primary"]) \in Responses /\ Head(rx["primary"]) \in Packet
         /\ Requests' = {} /\ Responses' = {}
<1>1. Receive("primary") /\ reply' = reply
  BY DEF Answer, ConnectionResetAnswer, PerformTunnelTransferAnswer, secondaryVars
<1>2. InPrimary = 1 /\ InSecondary = 0 /\ InReply = 0
  BY <1>1, Lengths DEF Receive, Alternate, Traffic
<1>3. rx["secondary"] = <<>> /\ reply = <<>> /\ rx["primary"] # <<>>
  BY <1>2, Lengths
<1>4. Tail(rx["primary"]) = <<>>
  BY <1>2, QueueTypes, PacketsInShort DEF InPrimary
<1>5. rx'["primary"] = <<>> /\ rx'["secondary"] = <<>>
  BY <1>1, <1>3, <1>4 DEF Receive, TypeOK, RadioTypeOK, Side
<1>6. QED
  BY <1>1, <1>3, <1>5, QueueTypes, PacketsInShort DEF Requests, Responses

\* A request that is handled was the only packet; its response takes its place.
LEMMA HandlePackets ==
  ASSUME TypeOK, Alternate, HandleRequest
  PROVE  /\ Head(rx["secondary"]) \in Requests /\ Head(rx["secondary"]) \in Packet
         /\ Responses = {} /\ Requests' = {} /\ Responses' = PacketsIn(reply')
         /\ reply = <<>>
<1>1. Receive("secondary") /\ reply = <<>>
  BY DEF HandleRequest
<1>2. InPrimary = 0 /\ InSecondary = 1
  BY <1>1, Lengths DEF Receive, Alternate, Traffic
<1>3. rx["primary"] = <<>> /\ rx["secondary"] # <<>>
  BY <1>2, Lengths
<1>4. Tail(rx["secondary"]) = <<>>
  BY <1>2, QueueTypes, PacketsInShort DEF InSecondary
<1>5. rx'["secondary"] = <<>> /\ rx'["primary"] = <<>>
  BY <1>1, <1>3, <1>4 DEF Receive, TypeOK, RadioTypeOK, Side
<1>6. QED
  BY <1>1, <1>3, <1>5, QueueTypes, PacketsInShort, EmptySeq DEF Requests, Responses

\* A response goes to the primary or gets lost.
LEMMA SendReplyPackets ==
  ASSUME TypeOK, Alternate, SendReply
  PROVE  Requests' = Requests /\ Responses' \subseteq Responses
<1>1. reply # <<>> /\ reply' = <<>>
  BY DEF SendReply
<1>2. InPrimary = 0
  BY <1>1, Lengths DEF Alternate, Traffic
<1>3. rx["primary"] = <<>>
  BY <1>2, Lengths
<1>4. Head(reply) \in PacketsIn(reply) /\ Head(reply) \in Packet
  BY <1>1, QueueTypes, PacketsInShort
<1>5. /\ rx'["secondary"] = rx["secondary"]
      /\ rx'["primary"] = <<>> \/ rx'["primary"] = Append(<<>>, Head(reply))
  BY <1>1, <1>3 DEF SendReply, Send, TypeOK, RadioTypeOK, Side
<1>6. PacketsIn(<<>>) = {}
  BY PacketsInShort, EmptySeq
<1>7. PacketsIn(rx["primary"]) = {} /\ PacketsIn(reply') = {}
  BY <1>1, <1>3, <1>6
<1>8. PacketsIn(rx'["primary"]) \subseteq PacketsIn(reply)
  <2>1. CASE rx'["primary"] = <<>>
    BY <1>6, <2>1
  <2>2. CASE rx'["primary"] = Append(<<>>, Head(reply))
    <3>1. PacketsIn(rx'["primary"]) = {Head(reply)}
      BY <1>4, <2>2, PacketsInAppend
    <3>2. QED
      BY <1>4, <3>1
  <2>3. QED
    BY <1>5, <2>1, <2>2
<1>9. QED
  BY <1>5, <1>7, <1>8 DEF Requests, Responses, PacketsIn

\* A restart of the primary empties its radio.
LEMMA PrimaryRestartPackets ==
  ASSUME TypeOK, PrimaryRestart, UNCHANGED secondaryVars
  PROVE  Requests' = Requests /\ Responses' \subseteq Responses
<1>1. /\ rx'["primary"] = <<>> /\ rx'["secondary"] = rx["secondary"]
      /\ reply' = reply
  BY DEF PrimaryRestart, Restart, secondaryVars, TypeOK, RadioTypeOK, Side
<1>2. PacketsIn(<<>>) = {}
  BY PacketsInShort, EmptySeq
<1>3. QED
  BY <1>1, <1>2 DEF Requests, Responses

-----------------------------------------------------------------------------
(* The inductive invariant.  IdsInStep speaks of the moments at which no    *)
(* exchange is under way; in between, what the packets on their way carry   *)
(* decides which ids are accepted.                                          *)

\* While a session is being opened the primary has forgotten the last one, and
\* whoever has answered it has done so too.
ResetUnderWay ==
  phase = "resetting" =>
    /\ connection_reset_required
    /\ next_id["primary"] = 1 /\ last_ack_id["primary"] = None
    /\ \A packet \in Requests \cup Responses : packet = ResetPacket
    /\ Responses # {} => /\ next_id["secondary"] = 1
                         /\ last_ack_id["secondary"] = None

\* The response to a request accepts its id and carries the next new id.
TransferUnderWay ==
  phase = "transferring" =>
    /\ ~connection_reset_required
    /\ \A packet \in Responses :
         /\ packet.id = next_id["secondary"]
         /\ packet.ack = next_id["primary"]
         /\ last_ack_id["secondary"] = next_id["primary"]
         /\ AdvanceID(last_ack_id["primary"]) = next_id["secondary"]

\* In a session the ids are in step, and every request on its way is current.
IdsOfSession ==
  ~connection_reset_required =>
    /\ InStep(next_id["primary"], last_ack_id["secondary"])
    /\ InStep(next_id["secondary"], last_ack_id["primary"])
    /\ \A packet \in Requests :
         packet.id = next_id["primary"] /\ packet.ack = last_ack_id["primary"]

Session == ResetUnderWay /\ TransferUnderWay /\ IdsOfSession

\* The types of the ids, for the lemmas above.
LEMMA IdTypes ==
  ASSUME TypeOK, NEW s \in Side
  PROVE  /\ next_id[s] \in PacketId /\ next_id[s] # None
         /\ last_ack_id[s] \in PacketId \cup {None}
BY DEF TypeOK, RadioTypeOK, PacketId, None

\* The ids a packet carries are those it was made with.
LEMMA EncodeIds ==
  ASSUME NEW id, NEW ack, NEW buffer
  PROVE  /\ EncodeTunnelTxRxPacket(id, ack, buffer).id = id
         /\ EncodeTunnelTxRxPacket(id, ack, buffer).ack = ack
BY DEF EncodeTunnelTxRxPacket

\* A failure never withdraws the wish for a reset.
LEMMA FailureKeepsReset ==
  ASSUME HandleTransactionFailure, TypeOK
  PROVE  connection_reset_required => connection_reset_required'
BY DEF HandleTransactionFailure, TypeOK, PrimaryTypeOK

LEMMA PollSession ==
  ASSUME "late" \notin Faults, TypeOK, TypeOK', Alternate, Session, Poll
  PROVE  Session'
<1>1. CASE ConnectionReset
  <2>1. PICK success \in BOOLEAN :
          /\ phase = "sleeping" /\ Send("secondary", ResetPacket, success)
          /\ IF success THEN phase' = "resetting" /\ UNCHANGED backoffVars
             ELSE UNCHANGED phase /\ HandleTransactionFailure
    BY <1>1 DEF ConnectionReset, Request
  <2>2. Responses' = {} /\ Requests' \subseteq {ResetPacket}
    BY <2>1, PollPackets, ResetPacketType
  <2>3. connection_reset_required'
    BY <1>1, <2>1, FailureKeepsReset DEF ConnectionReset, backoffVars
  <2>4. next_id'["primary"] = 1 /\ last_ack_id'["primary"] = None
    BY <1>1 DEF ConnectionReset, OpenSession, TypeOK, RadioTypeOK, Side
  <2>5. phase' # "transferring"
    BY <2>1
  <2>6. QED
    BY <2>2, <2>3, <2>4, <2>5 DEF Session, ResetUnderWay, TransferUnderWay, IdsOfSession
<1>2. CASE PerformTunnelTransfer
  <2> DEFINE packet == EncodeTunnelTxRxPacket(next_id["primary"], last_ack_id["primary"],
                                              read_buffer["primary"])
  <2>1. packet \in Packet
    BY EncodeType DEF TypeOK, RadioTypeOK, Side
  <2>2. PICK success \in BOOLEAN :
          /\ phase = "sleeping" /\ Send("secondary", packet, success)
          /\ phase' \in {"sleeping", "transferring"}
          /\ phase' = "transferring" => UNCHANGED connection_reset_required
    BY <1>2 DEF PerformTunnelTransfer, Request, backoffVars
  <2>3. packet.id = next_id["primary"] /\ packet.ack = last_ack_id["primary"]
    BY EncodeIds
  <2> HIDE DEF packet
  <2>4. Responses' = {} /\ Requests' \subseteq {packet}
    BY <2>1, <2>2, PollPackets
  <2>5. UNCHANGED <<next_id, last_ack_id>> /\ ~connection_reset_required
    BY <1>2 DEF PerformTunnelTransfer, linkVars
  <2>6. ResetUnderWay' /\ TransferUnderWay'
    BY <2>2, <2>4, <2>5 DEF ResetUnderWay, TransferUnderWay
  <2>7. IdsOfSession'
    BY <2>3, <2>4, <2>5 DEF Session, IdsOfSession, InStep, AdvanceID
  <2>8. QED
    BY <2>6, <2>7 DEF Session
<1>3. QED
  BY <1>1, <1>2 DEF Poll

LEMMA TimeoutSession ==
  ASSUME TypeOK, Session, Timeout
  PROVE  Session'
<1>1. /\ UNCHANGED <<next_id, last_ack_id, rx, reply>> /\ phase' = "sleeping"
      /\ HandleTransactionFailure
  BY DEF Timeout, ReceiveTimeout, linkVars, radioVars, secondaryVars
<1>2. ~connection_reset_required' => ~connection_reset_required
  BY <1>1, FailureKeepsReset
<1>3. QED
  BY <1>1, <1>2 DEF Session, ResetUnderWay, TransferUnderWay, IdsOfSession, InStep, AdvanceID,
                    Requests, Responses, PacketsIn

\* The answer to a reset opens the session on both sides at once.
LEMMA ResetAnswerSession ==
  ASSUME TypeOK, TypeOK', Alternate, Session, Answer, ConnectionResetAnswer
  PROVE  Session'
<1>1. Requests' = {} /\ Responses' = {} /\ Head(rx["primary"]) \in Responses
  BY AnswerPackets
<1>2. phase = "resetting" /\ phase' = "sleeping" /\ UNCHANGED <<next_id, last_ack_id>>
  BY DEF ConnectionResetAnswer, linkVars
<1>3. /\ next_id["primary"] = 1 /\ last_ack_id["primary"] = None
      /\ next_id["secondary"] = 1 /\ last_ack_id["secondary"] = None
  BY <1>1, <1>2 DEF Session, ResetUnderWay
<1>4. QED
  BY <1>1, <1>2, <1>3 DEF Session, ResetUnderWay, TransferUnderWay, IdsOfSession, InStep

\* The answer to a request: the primary accepts its id and moves on to the next.
LEMMA TransferAnswerIds ==
  ASSUME TypeOK, Alternate, Session, Answer, PerformTunnelTransferAnswer
  PROVE  /\ HandleAck(Head(rx["primary"]))
         /\ AcceptPayload("primary", Head(rx["primary"]))
         /\ Head(rx["primary"]).ack = next_id["primary"]
         /\ ValidateID(last_ack_id["primary"], Head(rx["primary"]).id)
         /\ Head(rx["primary"]).id = next_id["secondary"]
         /\ last_ack_id["secondary"] = next_id["primary"]
         /\ next_id' = [next_id EXCEPT !["primary"] = AdvanceID(@)]
         /\ last_ack_id' = [last_ack_id EXCEPT !["primary"] = next_id["secondary"]]
         /\ UNCHANGED connection_reset_required
<1> DEFINE response == Head(rx["primary"])
<1>1. response \in Responses
  BY AnswerPackets
<1>2. phase = "transferring"
  BY DEF PerformTunnelTransferAnswer
<1>3. /\ response.id = next_id["secondary"] /\ response.ack = next_id["primary"]
      /\ last_ack_id["secondary"] = next_id["primary"]
      /\ AdvanceID(last_ack_id["primary"]) = next_id["secondary"]
  BY <1>1, <1>2 DEF Session, TransferUnderWay
<1>4. response.id # None /\ response.ack # None
  BY <1>3, IdTypes DEF Side
<1>5. ValidateID(last_ack_id["primary"], response.id)
  BY <1>3, IdTypes, NextIsValid DEF Side
<1>6. HandleAck(response) /\ AcceptPayload("primary", response) /\ TransferSucceeded
  BY <1>3, <1>4, <1>5 DEF PerformTunnelTransferAnswer
<1> HIDE DEF response
<1>7. QED
  BY <1>3, <1>5, <1>6 DEF HandleAck, AcceptPayload, TransferSucceeded, response

LEMMA TransferAnswerSession ==
  ASSUME TypeOK, TypeOK', Alternate, Session, Answer, PerformTunnelTransferAnswer
  PROVE  Session'
<1>1. Requests' = {} /\ Responses' = {} /\ phase' = "sleeping"
  BY AnswerPackets DEF PerformTunnelTransferAnswer
<1>2. /\ last_ack_id["secondary"] = next_id["primary"]
      /\ next_id' = [next_id EXCEPT !["primary"] = AdvanceID(@)]
      /\ last_ack_id' = [last_ack_id EXCEPT !["primary"] = next_id["secondary"]]
  BY TransferAnswerIds
<1>3. /\ next_id'["primary"] = AdvanceID(last_ack_id["secondary"])
      /\ last_ack_id'["secondary"] = last_ack_id["secondary"]
      /\ last_ack_id'["primary"] = next_id'["secondary"]
  BY <1>2 DEF TypeOK, RadioTypeOK, Side
<1>4. /\ InStep(next_id'["primary"], last_ack_id'["secondary"])
      /\ InStep(next_id'["secondary"], last_ack_id'["primary"])
  BY <1>3 DEF InStep
<1>5. QED
  BY <1>1, <1>4 DEF Session, ResetUnderWay, TransferUnderWay, IdsOfSession, InStep, AdvanceID

\* A request of the session is accepted when its id is new, and its response
\* carries an id that is new to the primary; or it lacks a field and is dropped.
LEMMA HandleInSession ==
  ASSUME TypeOK, TypeOK', Session, ~connection_reset_required,
         NEW request \in Requests, HandleNetworkTunnelTxRx(request)
  PROVE  \/ UNCHANGED <<next_id, last_ack_id, frame_buffer, read_buffer, tunnel_out,
                        payload_in_flight, reply>>
         \/ /\ AcceptPayload("secondary", request) /\ HandleRequestAck(request)
            /\ last_ack_id' = [last_ack_id EXCEPT !["secondary"] = next_id["primary"]]
            /\ AdvanceID(last_ack_id["primary"]) = next_id'["secondary"]
            /\ next_id'["primary"] = next_id["primary"]
            /\ reply' = <<EncodeTunnelTxRxPacket(next_id'["secondary"],
                            next_id["primary"], read_buffer'["secondary"])>>
            /\ payload_in_flight' =
                 (read_buffer'["secondary"] # <<>> \/ StillInFlight(request))
<1>1. /\ request.id = next_id["primary"] /\ request.ack = last_ack_id["primary"]
      /\ InStep(next_id["primary"], last_ack_id["secondary"])
      /\ InStep(next_id["secondary"], last_ack_id["primary"])
  BY DEF Session, IdsOfSession
<1>2. CASE MissingFields(request)
  BY <1>2 DEF HandleNetworkTunnelTxRx, linkVars, secondaryVars
<1>3. CASE ~MissingFields(request)
  <2>1. AcceptPayload("secondary", request) /\ HandleRequestAck(request)
    BY <1>3 DEF HandleNetworkTunnelTxRx
  <2>2. last_ack_id' = [last_ack_id EXCEPT !["secondary"] = next_id["primary"]]
    <3>1. CASE last_ack_id["secondary"] = next_id["primary"]
      <4>1. ~ValidateID(last_ack_id["secondary"], request.id)
        BY <1>1, <3>1, IdTypes, RepeatIsInvalid DEF Side
      <4>2. QED
        BY <2>1, <3>1, <4>1 DEF AcceptPayload, TypeOK, RadioTypeOK, Side
    <3>2. CASE AdvanceID(last_ack_id["secondary"]) = next_id["primary"]
      <4>1. ValidateID(last_ack_id["secondary"], request.id)
        BY <1>1, <3>2, IdTypes, NextIsValid DEF Side
      <4>2. QED
        BY <1>1, <2>1, <4>1 DEF AcceptPayload
    <3>3. QED
      BY <1>1, <3>1, <3>2, IdTypes, InStepCases DEF Side
  <2>3. /\ AdvanceID(last_ack_id["primary"]) = next_id'["secondary"]
        /\ next_id'["primary"] = next_id["primary"]
    <3>1. CASE request.ack = next_id["secondary"]
      BY <1>1, <2>1, <3>1 DEF HandleRequestAck, TypeOK, RadioTypeOK, Side
    <3>2. CASE request.ack # next_id["secondary"]
      <4>1. UNCHANGED next_id
        BY <2>1, <3>2 DEF HandleRequestAck
      <4>2. QED
        BY <1>1, <3>2, <4>1, IdTypes, InStepCases DEF Side
    <3>3. QED
      BY <3>1, <3>2
  <2>4. last_ack_id'["secondary"] = next_id["primary"]
    BY <2>2 DEF TypeOK, RadioTypeOK, Side
  <2>5. /\ reply' = <<EncodeTunnelTxRxPacket(next_id'["secondary"],
                        next_id["primary"], read_buffer'["secondary"])>>
        /\ payload_in_flight' =
             (read_buffer'["secondary"] # <<>> \/ StillInFlight(request))
    BY <1>3, <2>4 DEF HandleNetworkTunnelTxRx
  <2>6. QED
    BY <2>1, <2>2, <2>3, <2>5
<1>4. QED
  BY <1>2, <1>3

\* A response of the session, as the only packet in the queue.
LEMMA ReplyPackets ==
  ASSUME TypeOK, NEW id \in PacketId, NEW ack \in PacketId,
         NEW buffer \in Seq(Frame)
  PROVE  PacketsIn(<<EncodeTunnelTxRxPacket(id, ack, buffer)>>)
           = {EncodeTunnelTxRxPacket(id, ack, buffer)}
<1>1. EncodeTunnelTxRxPacket(id, ack, buffer) \in Packet
  BY EncodeType DEF PacketId
<1>2. QED
  BY <1>1, PacketsInAppend

LEMMA HandleRequestSession ==
  ASSUME TypeOK, TypeOK', Alternate, Session, HandleRequest, UNCHANGED primaryVars
  PROVE  Session'
<1> DEFINE request == Head(rx["secondary"])
<1>1. /\ request \in Requests /\ request \in Packet /\ reply = <<>>
      /\ Responses = {} /\ Requests' = {} /\ Responses' = PacketsIn(reply')
  BY HandlePackets
<1>2. HandleNetworkTunnelReset(request) \/ HandleNetworkTunnelTxRx(request)
  BY DEF HandleRequest
<1> HIDE DEF request
<1>3. UNCHANGED <<phase, connection_reset_required>>
  BY DEF primaryVars, backoffVars
<1>4. ASSUME phase = "resetting" PROVE Session'
  <2>1. /\ request = ResetPacket /\ connection_reset_required
        /\ next_id["primary"] = 1 /\ last_ack_id["primary"] = None
    BY <1>1, <1>4 DEF Session, ResetUnderWay
  <2>2. OpenSession("secondary") /\ reply' = <<ResetPacket>>
    BY <1>2, <2>1 DEF HandleNetworkTunnelReset, HandleNetworkTunnelTxRx, ResetPacket
  <2>3. /\ next_id'["secondary"] = 1 /\ last_ack_id'["secondary"] = None
        /\ next_id'["primary"] = 1 /\ last_ack_id'["primary"] = None
    BY <2>1, <2>2 DEF OpenSession, TypeOK, RadioTypeOK, Side
  <2>4. Responses' = {ResetPacket}
    BY <1>1, <2>2, ResetPacketType, PacketsInAppend
  <2>5. QED
    BY <1>1, <1>3, <1>4, <2>1, <2>3, <2>4
       DEF Session, ResetUnderWay, TransferUnderWay, IdsOfSession
<1>5. ASSUME phase # "resetting", ~connection_reset_required PROVE Session'
  <2>1. request.id # None
    BY <1>1, <1>5, IdTypes DEF Session, IdsOfSession, Side
  <2>2. HandleNetworkTunnelTxRx(request)
    BY <1>2, <2>1 DEF HandleNetworkTunnelReset
  <2>3. CASE UNCHANGED <<next_id, last_ack_id, frame_buffer, read_buffer, tunnel_out,
                         payload_in_flight, reply>>
    <3>1. Responses' = {}
      BY <1>1, <2>3, PacketsInShort, EmptySeq
    <3>2. QED
      BY <1>1, <1>3, <1>5, <2>3, <3>1
         DEF Session, ResetUnderWay, TransferUnderWay, IdsOfSession, InStep, AdvanceID
  <2>4. CASE /\ last_ack_id' = [last_ack_id EXCEPT !["secondary"] = next_id["primary"]]
             /\ AdvanceID(last_ack_id["primary"]) = next_id'["secondary"]
             /\ next_id'["primary"] = next_id["primary"]
             /\ reply' = <<EncodeTunnelTxRxPacket(next_id'["secondary"],
                             next_id["primary"], read_buffer'["secondary"])>>
    <3> DEFINE packet == EncodeTunnelTxRxPacket(next_id'["secondary"],
                           next_id["primary"], read_buffer'["secondary"])
    <3>1. Responses' = {packet}
      BY <1>1, <2>4, ReplyPackets DEF TypeOK, RadioTypeOK, Side
    <3>2. packet.id = next_id'["secondary"] /\ packet.ack = next_id["primary"]
      BY EncodeIds
    <3>3. /\ last_ack_id'["secondary"] = next_id["primary"]
          /\ last_ack_id'["primary"] = last_ack_id["primary"]
      BY <2>4 DEF TypeOK, RadioTypeOK, Side
    <3>4. /\ InStep(next_id'["primary"], last_ack_id'["secondary"])
          /\ InStep(next_id'["secondary"], last_ack_id'["primary"])
          /\ AdvanceID(last_ack_id'["primary"]) = next_id'["secondary"]
      BY <2>4, <3>3 DEF InStep
    <3> HIDE DEF packet
    <3>5. TransferUnderWay'
      BY <1>3, <1>5, <2>4, <3>1, <3>2, <3>3, <3>4 DEF TransferUnderWay, AdvanceID
    <3>6. QED
      BY <1>1, <1>3, <1>5, <3>4, <3>5
         DEF Session, ResetUnderWay, IdsOfSession, InStep, AdvanceID
  <2>5. QED
    BY <1>1, <1>5, <2>2, <2>3, <2>4, HandleInSession
<1>6. ASSUME phase # "resetting", connection_reset_required PROVE Session'
  BY <1>3, <1>6 DEF Session, ResetUnderWay, TransferUnderWay, IdsOfSession
<1>7. QED
  BY <1>4, <1>5, <1>6

\* The other steps leave the ids alone or end the session.
LEMMA OthersSession ==
  ASSUME TypeOK, Session, Requests' = Requests, Responses' \subseteq Responses,
         \/ UNCHANGED <<next_id, last_ack_id, phase, connection_reset_required>>
         \/ connection_reset_required' /\ phase' = "sleeping"
  PROVE  Session'
BY DEF Session, ResetUnderWay, TransferUnderWay, IdsOfSession, InStep, AdvanceID

\* Without late answers and restarts of the secondary, Session always holds.
LEMMA SessionAlways ==
  ASSUME "late" \notin Faults, "restart_secondary" \notin Faults
  PROVE  Spec => []Session
<1>1. Init => Session
  <2> SUFFICES ASSUME Init PROVE Session
    OBVIOUS
  <2>1. connection_reset_required /\ phase = "sleeping"
    BY DEF Init, PrimaryInit
  <2>2. QED
    BY <2>1 DEF Session, ResetUnderWay, TransferUnderWay, IdsOfSession
<1>2. TypeOK /\ TypeOK' /\ ("late" \notin Faults => Alternate) /\ Session /\ [Next]_vars
      => Session'
  <2> SUFFICES ASSUME TypeOK, TypeOK', Alternate, Session, [Next]_vars
               PROVE  Session'
    OBVIOUS
  <2>1. CASE Poll
    BY <2>1, PollSession
  <2>2. CASE Timeout
    BY <2>2, TimeoutSession
  <2>3. CASE Answer
    BY <2>3, ResetAnswerSession, TransferAnswerSession DEF Answer
  <2>4. CASE HandleRequest /\ UNCHANGED primaryVars
    BY <2>4, HandleRequestSession
  <2>5. CASE SendReply /\ UNCHANGED primaryVars
    BY <2>5, SendReplyPackets, OthersSession
       DEF SendReply, linkVars, primaryVars, backoffVars
  <2>6. CASE \E s \in Side : ReadTunnel(s)
    BY <2>6, OthersSession
       DEF ReadTunnel, TunnelThread, radioVars, primaryVars, backoffVars, secondaryVars,
           Requests, Responses, PacketsIn
  <2>7. CASE Crash
    <3>1. PrimaryRestart /\ UNCHANGED secondaryVars
      BY <2>7 DEF Crash, SecondaryRestart, May
    <3>2. connection_reset_required' /\ phase' = "sleeping"
      BY <3>1 DEF PrimaryRestart
    <3>3. QED
      BY <3>1, <3>2, PrimaryRestartPackets, OthersSession
  <2>8. CASE Stabilise \/ UNCHANGED vars
    BY <2>8, OthersSession
       DEF Stabilise, vars, linkVars, radioVars, primaryVars, backoffVars, secondaryVars,
           Requests, Responses, PacketsIn
  <2>9. QED
    BY <2>1, <2>2, <2>3, <2>4, <2>5, <2>6, <2>7, <2>8 DEF Next, Primary, Secondary
<1>3. QED
  BY <1>1, <1>2, TypeCorrect, AlternateAlways, PTL DEF Spec

\* Without late answers and restarts of the secondary, the ids are in step in a
\* session whenever no exchange is under way: whichever packets get lost, and
\* also across the wrap of the ids, a retransmission is recognised as one and a
\* new packet is taken for new.
THEOREM IdsStayInStep ==
  ASSUME "late" \notin Faults, "restart_secondary" \notin Faults
  PROVE  Spec => []IdsInStep
<1>1. Session => IdsInStep
  BY DEF Session, IdsOfSession, IdsInStep
<1>2. QED
  BY <1>1, SessionAlways, PTL
=============================================================================
