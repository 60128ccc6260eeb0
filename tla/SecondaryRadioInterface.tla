----------------------- MODULE SecondaryRadioInterface -----------------------
(* The secondary end of the poll link (src/secondary_radio_interface.{h,cc}):*)
(* it answers the requests of the primary.  Handling a request and sending   *)
(* its response are two steps, between which the primary may go on.          *)
EXTENDS RadioInterface

VARIABLES
  payload_in_flight,  \* payload_in_flight_
  reply               \* the response about to be sent, a sequence of at most one

secondaryVars == <<payload_in_flight, reply>>

SecondaryInit == payload_in_flight = FALSE /\ reply = <<>>

\* HandleNetworkTunnelReset up to its Send.
HandleNetworkTunnelReset(request) ==
  /\ request.id = None /\ request.ack = None
  /\ OpenSession("secondary")
  /\ payload_in_flight' = FALSE
  /\ reply' = <<ResetPacket>>
  /\ UNCHANGED <<read_buffer, tunnel_out>>

\* Faulty: wants an acknowledgement in the first request of a session too.
MissingFieldsStrict(request) == request.id = None \/ request.ack = None

MissingFields(request) ==
  \/ request.id = None
  \/ last_ack_id["secondary"] # None /\ request.ack = None

\* Faulty: drops a chunk for every acknowledgement, as the primary does.
HandleRequestAckUnsent(request) ==
  IF request.ack # next_id["secondary"]
  THEN UNCHANGED <<next_id, read_buffer>>
  ELSE /\ next_id' = [next_id EXCEPT !["secondary"] = AdvanceID(@)]
       /\ read_buffer' = [read_buffer EXCEPT
            !["secondary"] = IF @ # <<>> THEN EraseChunk(@) ELSE @]

\* The acknowledgement in a request: the buffer moves on only when a payload
\* was sent since the last acknowledged one.
HandleRequestAck(request) ==
  IF request.ack # next_id["secondary"]
  THEN UNCHANGED <<next_id, read_buffer>>
  ELSE /\ next_id' = [next_id EXCEPT !["secondary"] = AdvanceID(@)]
       /\ read_buffer' = [read_buffer EXCEPT
            !["secondary"] = IF payload_in_flight /\ @ # <<>>
                             THEN EraseChunk(@) ELSE @]

\* Faulty: the flag is never cleared.
StillInFlightForever(request) == payload_in_flight

\* The flag survives a request that does not acknowledge the last response.
StillInFlight(request) == payload_in_flight /\ request.ack # next_id["secondary"]

\* HandleNetworkTunnelTxRx up to its Send.
HandleNetworkTunnelTxRx(request) ==
  /\ ~(request.id = None /\ request.ack = None)
  /\ IF MissingFields(request)
     THEN UNCHANGED <<linkVars, tunnel_out, secondaryVars>>
     ELSE /\ AcceptPayload("secondary", request)
          /\ HandleRequestAck(request)
          /\ reply' = <<EncodeTunnelTxRxPacket(next_id'["secondary"],
                          last_ack_id'["secondary"], read_buffer'["secondary"])>>
          /\ payload_in_flight' =
               (read_buffer'["secondary"] # <<>> \/ StillInFlight(request))

HandleRequest ==
  /\ reply = <<>>
  /\ Receive("secondary")
  /\ LET request == Head(rx["secondary"])
     IN  \/ HandleNetworkTunnelReset(request)
         \/ HandleNetworkTunnelTxRx(request)
  /\ UNCHANGED <<listening, tunnel_in, stable>>

\* The Send at the end of both handlers, whose failure is only logged.
SendReply ==
  /\ reply # <<>>
  /\ \E success \in BOOLEAN : Send("primary", Head(reply), success)
  /\ reply' = <<>>
  /\ UNCHANGED <<linkVars, listening, historyVars, stable, payload_in_flight>>

\* HandleNetworkTunnelTxRx sends while it holds the lock of the read buffer,
\* HandleNetworkTunnelReset does not take it.
SecondaryLocked == reply # <<>> /\ Head(reply) # ResetPacket

SecondaryRestart ==
  /\ May("restart_secondary")
  /\ Restart("secondary")
  /\ payload_in_flight' = FALSE
  /\ reply' = <<>>
  /\ UNCHANGED listening

SecondaryTypeOK ==
  /\ payload_in_flight \in BOOLEAN
  /\ reply \in Seq(Packet)
  /\ Len(reply) <= 1
=============================================================================
