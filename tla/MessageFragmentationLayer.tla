---------------------- MODULE MessageFragmentationLayer ----------------------
(* src/layers/message_fragmentation_layer.{h,cc}: frames are cut into       *)
(* packets, and what arrives is collected until a packet is marked final,   *)
(* whoever sent it.                                                         *)
EXTENDS AckLayer

CONSTANT PACKET_PAYLOAD_SIZE

ASSUME FragmentationAssumption == PACKET_PAYLOAD_SIZE \in Nat \ {0}

VARIABLE fragmented_packets  \* received since the last final packet

\* Faulty: leaves out a packet that is not full.
NumberOfPacketsFloor(size) == size \div PACKET_PAYLOAD_SIZE

NumberOfPackets(size) == (size + PACKET_PAYLOAD_SIZE - 1) \div PACKET_PAYLOAD_SIZE

\* Faulty: takes the packet that is not full for the last.
FragmentsFull(data) ==
  [i \in 1..NumberOfPackets(Len(data)) |->
    [type    |-> "Data",
     payload |-> SubSeq(data, (i - 1) * PACKET_PAYLOAD_SIZE + 1,
                        Min({i * PACKET_PAYLOAD_SIZE, Len(data)})),
     final   |-> i * PACKET_PAYLOAD_SIZE > Len(data)]]

Fragments(data) ==
  [i \in 1..NumberOfPackets(Len(data)) |->
    [type    |-> "Data",
     payload |-> SubSeq(data, (i - 1) * PACKET_PAYLOAD_SIZE + 1,
                        Min({i * PACKET_PAYLOAD_SIZE, Len(data)})),
     final   |-> i = NumberOfPackets(Len(data))]]

FragmentationReceiveFromUpstream(n, data) ==
  AckReceiveFromUpstream(n, Fragments(data))

\* Faulty: keeps what it has handed up.
CollectKeeps(n, packet) ==
  fragmented_packets' = [fragmented_packets EXCEPT ![n] = Append(@, packet)]

Collect(n, packet) ==
  fragmented_packets' = [fragmented_packets EXCEPT
    ![n] = IF packet.final THEN <<>> ELSE Append(@, packet)]

\* The message that a final packet completes.
Message(n, packet) ==
  LET packets == Append(fragmented_packets[n], packet)
  IN  FlattenSeq([i \in DOMAIN packets |-> packets[i].payload])
=============================================================================
