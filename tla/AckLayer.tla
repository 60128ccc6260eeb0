------------------------------ MODULE AckLayer ------------------------------
(* src/layers/ack_handling_layer.{h,cc}: a packet is sent again until a     *)
(* copy of it comes back as an acknowledgement.  main disables the layer:   *)
(* then it passes packets through in both directions.                       *)
EXTENDS MeshDataPackets

CONSTANTS
  MaxNumberOfPackets,  \* main: 1
  kMaxTimesSent        \* 30: what was sent more often is dropped

ASSUME AckAssumption ==
  /\ MaxNumberOfPackets \in Nat /\ MaxNumberOfPackets >= 1
  /\ kMaxTimesSent \in Nat

VARIABLES
  enabled,          \* enabled_, set before the layers run
  ack_queue,        \* fragmented_packets_: not yet sent
  pending_packets   \* sent and not acknowledged, with the times they were sent

ackVars == <<enabled, ack_queue, pending_packets>>

AckReceiveFromUpstream(n, packets) ==
  \/ /\ ~enabled
     /\ ReceiveFromUpstream(n, packets)
     /\ UNCHANGED ack_queue
  \/ /\ enabled
     /\ ack_queue' = [ack_queue EXCEPT ![n] = @ \o packets]
     /\ UNCHANGED packets_to_send

-----------------------------------------------------------------------------
(* ReceiveFromDownstream *)

PassesUp(packet) == ~enabled \/ packet.type = "Data"

\* Faulty: takes the first packet that is pending, whatever was acknowledged.
AcknowledgedFirst(n, packet) == 1..Len(pending_packets[n])

Acknowledged(n, packet) ==
  {i \in 1..Len(pending_packets[n]) :
     SameContents(pending_packets[n][i].packet.payload, packet.payload)}

\* The acknowledgement is the packet itself, but for its type.  It goes where
\* all packets go: to the first neighbor.
SendAck(n, packet) ==
  ReceiveFromUpstream(n, <<[packet EXCEPT !.type = "DataAck"]>>)

HandleAck(n, packet) ==
  \/ /\ Acknowledged(n, packet) = {}
     /\ UNCHANGED pending_packets
  \/ /\ Acknowledged(n, packet) # {}
     /\ pending_packets' = [pending_packets EXCEPT
          ![n] = RemoveAt(@, Min(Acknowledged(n, packet)))]

AckReceiveFromDownstream(n, packet) ==
  /\ \/ ~enabled /\ UNCHANGED <<pending_packets, packets_to_send>>
     \/ /\ enabled /\ packet.type = "Data"
        /\ SendAck(n, packet)
        /\ UNCHANGED pending_packets
     \/ /\ enabled /\ packet.type = "DataAck"
        /\ HandleAck(n, packet)
        /\ UNCHANGED packets_to_send
  /\ UNCHANGED <<enabled, ack_queue>>

-----------------------------------------------------------------------------
(* Run *)

\* Faulty: lets one packet too many become pending.
AdmitsOneMore(n) ==
  ack_queue[n] # <<>> /\ Len(pending_packets[n]) <= MaxNumberOfPackets

\* One more packet becomes pending, if there is room.
Admits(n) == ack_queue[n] # <<>> /\ Len(pending_packets[n]) < MaxNumberOfPackets

Admitted(n) ==
  IF Admits(n) THEN <<[packet |-> Head(ack_queue[n]), times_sent |-> 1]>> ELSE <<>>

\* Faulty: never gives a packet up.
SpentNever(pending) == {}

Spent(pending) == {i \in DOMAIN pending : pending[i].times_sent > kMaxTimesSent}

\* Run drops the first packet that was sent too often, and returns.
Considered(pending) ==
  {i \in DOMAIN pending : \A j \in Spent(pending) : i < j}

\* Without the fault "late" a packet or its acknowledgement arrives within the
\* 80 milliseconds, unless it is lost or nobody will acknowledge it.
Overdue(n, packet) ==
  \/ May("late")
  \/ \A m \in Node : \A other \in Packets(m) :
       CarriesData(other) => other.payload # packet.payload

\* Beyond the limit the exact number makes no difference.
TimesSent(times) == IF times > kMaxTimesSent THEN times ELSE times + 1

Resent(pending, order) == [i \in DOMAIN order |-> pending[order[i]].packet]

AckRun(n) ==
  /\ LET pending == pending_packets[n] \o Admitted(n)
         old == Considered(pending) \cap DOMAIN pending_packets[n]
         new == [i \in DOMAIN Admitted(n) |-> Admitted(n)[i].packet]
     IN  \E resend \in Ascending({i \in old : Overdue(n, pending[i].packet)}) :
           /\ Admits(n) \/ Spent(pending) # {} \/ resend # <<>>
           /\ LET sent == [i \in DOMAIN pending |->
                             IF i \in ToSet(resend)
                             THEN [pending[i] EXCEPT !.times_sent = TimesSent(@)]
                             ELSE pending[i]]
              IN  pending_packets' = [pending_packets EXCEPT
                    ![n] = IF Spent(pending) = {} THEN sent
                                                  ELSE RemoveAt(sent, Min(Spent(pending)))]
           /\ ReceiveFromUpstream(n, new \o Resent(pending, resend))
  /\ ack_queue' = [ack_queue EXCEPT ![n] = IF Admits(n) THEN Tail(@) ELSE @]
  /\ UNCHANGED enabled
=============================================================================
