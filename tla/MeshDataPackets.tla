--------------------------- MODULE MeshDataPackets ---------------------------
(* The mesh radio as the layers above it use it                             *)
(* (src/layers/mesh_radio_interface.cc, src/utils/message_definitions.h):   *)
(* ReceiveFromUpstream addresses every data packet to the first neighbor    *)
(* the unordered set of neighbors yields.                                   *)
(*                                                                          *)
(* A byte is followed by where it comes from, the triple <<n, k, j>>: byte  *)
(* j of the k-th frame that node n read from its tunnel.  Its contents are  *)
(* Value(<<n, k, j>>), and the code compares nothing else.  valid_bytes is  *)
(* the length of the payload, and the number of a packet is left out: it is *)
(* only logged.                                                             *)
EXTENDS MeshRadioInterface

CONSTANT Value(_)  \* the contents of a byte

VARIABLE first_neighbor  \* what *neighbor_node_ids_.begin() is, at each node

NoNeighbor == -1

Byte == Node \X Nat \X Nat

\* memcmp of the valid_bytes of two payloads.
SameContents(payload, other) ==
  /\ Len(payload) = Len(other)
  /\ \A i \in DOMAIN payload : Value(payload[i]) = Value(other[i])

DataPacket == [type : {"Data", "DataAck"}, payload : Seq(Byte), final : BOOLEAN]

\* VectorToDataPacket: what a layer sees of a packet of the air.
Unaddressed(packet) ==
  [type |-> packet.type, payload |-> packet.payload, final |-> packet.final]

Addressed(n, packet) ==
  [type |-> packet.type, payload |-> packet.payload, final |-> packet.final,
   to |-> first_neighbor[n]]

\* The packets that a handler sends down, in their order.  They are dropped
\* while the node knows nobody.
ReceiveFromUpstream(n, packets) ==
  \/ /\ neighbor_node_ids[n] = {}
     /\ UNCHANGED packets_to_send
  \/ /\ neighbor_node_ids[n] # {}
     /\ Len(packets_to_send[n]) + Len(packets) <= MaxQueued
     /\ packets_to_send' = [packets_to_send EXCEPT
          ![n] = @ \o [i \in DOMAIN packets |-> Addressed(n, packets[i])]]

\* An insertion may put the new element, or any other, in front.
NeighborsReorder(n) ==
  \/ /\ neighbor_node_ids'[n] = neighbor_node_ids[n]
     /\ UNCHANGED first_neighbor
  \/ /\ neighbor_node_ids'[n] # neighbor_node_ids[n]
     /\ \E first \in IF neighbor_node_ids'[n] = {} THEN {NoNeighbor}
                                                  ELSE neighbor_node_ids'[n] :
          first_neighbor' = [first_neighbor EXCEPT ![n] = first]
=============================================================================
