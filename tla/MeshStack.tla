------------------------------ MODULE MeshStack ------------------------------
(* Mesh mode as nerfnet_main.cc wires it: on each node the tunnel over the  *)
(* fragmentation over the acknowledgements over the mesh radio, called in   *)
(* turn by the main loop, and a tunnel thread beside it.                    *)
EXTENDS TunnelInterface

CONSTANT Scenarios  \* the situations that are looked at from their beginning on

\* settled: the ids of the nodes that run; gone: ids that they know, of nodes
\* that are there no more; starts, frames: bounds on how often each node may
\* still start and read a frame; quiet: the environment behaves from the start;
\* enabled: the settings of AckLayer.
ASSUME StackAssumption ==
  \A s \in Scenarios :
    /\ DOMAIN s.settled \subseteq Node /\ {s.starts, s.frames} \subseteq [Node -> Nat]
    /\ IsInjective(s.settled) /\ s.quiet \in BOOLEAN
    /\ s.enabled \subseteq BOOLEAN
    /\ Range(s.settled) \cup s.gone \subseteq 0..min_discovery_node_id - 1
    /\ Range(s.settled) \cap s.gone = {}

VARIABLES
  starts_to_come,
  lossless        \* no packet can get lost or be sent to nobody

layerVars == <<ackVars, fragmented_packets, tunnelVars>>
restVars == <<first_neighbor, starts_to_come, lossless>>
stackVars == <<vars, restVars, layerVars>>

Known(s, n) ==
  IF n \in DOMAIN s.settled THEN (Range(s.settled) \ {s.settled[n]}) \cup s.gone ELSE {}

Lossless(s) ==
  /\ s.quiet /\ s.gone = {}
  /\ \A n \in Node : s.frames[n] > 0 => Known(s, n) # {}

RadioInitially(s) ==
  LET InitiallyAt(n, running, otherwise) ==
        IF n \in DOMAIN s.settled THEN running ELSE otherwise
  IN  /\ node_id = [n \in Node |-> IF n \in DOMAIN s.settled THEN s.settled[n] ELSE 0]
      /\ comms_state = [n \in Node |-> InitiallyAt(n, "Running", "CommsNone")]
      /\ radio_state = [n \in Node |-> InitiallyAt(n, "Listening", "RadioNone")]
      /\ neighbor_node_ids = [n \in Node |-> Known(s, n)]
      /\ messages_sent = [n \in Node |-> InitiallyAt(n, max_discovery_messages + 1, 0)]
      /\ stable = (s.quiet \/ Faults = {})
      /\ starts_to_come = s.starts /\ frames_to_come = s.frames
      /\ lossless = Lossless(s)
      /\ enabled \in s.enabled
      /\ \A n \in Node : IF Known(s, n) = {} THEN first_neighbor[n] = NoNeighbor
                                             ELSE first_neighbor[n] \in Known(s, n)

StackInit ==
  /\ first_neighbor \in [Node -> NodeId \cup {NoNeighbor}]
  /\ \E s \in Scenarios : RadioInitially(s)
  /\ due = {}
  /\ ack_wait = [n \in Node |-> "none"]
  /\ packets_to_send = [n \in Node |-> <<>>]
  /\ rx = [n \in Node |-> <<>>]
  /\ ack_queue = [n \in Node |-> <<>>]
  /\ pending_packets = [n \in Node |-> <<>>]
  /\ fragmented_packets = [n \in Node |-> <<>>]
  /\ downstream_buffer = [n \in Node |-> <<>>]
  /\ upstream_buffer = [n \in Node |-> <<>>]
  /\ at_read = Node
  /\ in_run = {}
  /\ tunnel_in = [n \in Node |-> <<>>]
  /\ tunnel_out = [n \in Node |-> <<>>]

-----------------------------------------------------------------------------
(* The main loop *)

\* tunnel_interface.Run
TunnelRun(n) ==
  \/ /\ BeginRun(n)
     /\ UNCHANGED <<idVars, radio_state, discoveryVars, rx, stable, restVars,
                    enabled, pending_packets, fragmented_packets>>
  \/ /\ EndRun(n)
     /\ UNCHANGED <<vars, restVars, ackVars, fragmented_packets>>

\* ack_layer.Run
LayerRun(n) ==
  /\ Alive(n) /\ n \notin in_run
  /\ enabled
  /\ AckRun(n)
  /\ UNCHANGED <<idVars, radio_state, discoveryVars, rx, stable, restVars,
                 fragmented_packets, tunnelVars>>

\* radio_interface.Run, which may send what waits,
RadioSends(n) ==
  /\ n \notin in_run
  /\ Send(n)
  /\ UNCHANGED <<restVars, layerVars>>

\* end a turn, or look at the timers;
RadioRun(n) ==
  /\ n \notin in_run
  /\ EndTurn(n) \/ (Timer(n) /\ Alive(n)')
  /\ UNCHANGED <<restVars, layerVars>>

\* it handles a packet of the discovery,
RadioLearns(n) ==
  /\ n \notin in_run
  /\ Receive(n)
  /\ NeighborsReorder(n)
  /\ UNCHANGED <<starts_to_come, lossless, layerVars>>

\* or hands a data packet up: through the acknowledgements to the fragmentation,
\* and a whole message to the tunnel.  Run has written the message before it.
Climbs(n) ==
  LET packet == Unaddressed(Head(rx[n]))
  IN  /\ AckReceiveFromDownstream(n, packet)
      /\ \/ /\ ~PassesUp(packet)
            /\ UNCHANGED <<fragmented_packets, tunnelVars>>
         \/ /\ PassesUp(packet) /\ ~packet.final
            /\ Collect(n, packet)
            /\ UNCHANGED tunnelVars
         \/ /\ PassesUp(packet) /\ packet.final
            /\ Collect(n, packet)
            /\ TunnelReceiveFromDownstream(n, Message(n, packet))

RadioHandsUp(n) ==
  /\ n \notin in_run
  /\ upstream_buffer[n] = <<>>
  /\ HandUp(n)
  /\ Climbs(n)
  /\ UNCHANGED restVars

-----------------------------------------------------------------------------
(* The other threads and the world *)

TunnelThread(n) ==
  /\ ReadFrame(n) \/ CheckRoom(n)
  /\ UNCHANGED <<vars, restVars, ackVars, fragmented_packets>>

StartStack(n) ==
  /\ starts_to_come[n] > 0
  /\ starts_to_come' = [starts_to_come EXCEPT ![n] = @ - 1]
  /\ Start(n)
  /\ UNCHANGED <<first_neighbor, lossless, layerVars>>

\* A node that finds no free id ends, and its layers with it.
StackEnds(n) ==
  /\ n \notin in_run
  /\ Abort(n)
  /\ first_neighbor' = [first_neighbor EXCEPT ![n] = NoNeighbor]
  /\ ack_queue' = [ack_queue EXCEPT ![n] = <<>>]
  /\ pending_packets' = [pending_packets EXCEPT ![n] = <<>>]
  /\ fragmented_packets' = [fragmented_packets EXCEPT ![n] = <<>>]
  /\ downstream_buffer' = [downstream_buffer EXCEPT ![n] = <<>>]
  /\ upstream_buffer' = [upstream_buffer EXCEPT ![n] = <<>>]
  /\ at_read' = at_read \cup {n}
  /\ UNCHANGED <<starts_to_come, lossless, frames_to_come, in_run, enabled, tunnel_in, tunnel_out>>

Passes == (Tick \/ Stabilise) /\ UNCHANGED <<restVars, layerVars>>

StackNext ==
  \/ \E n \in Node :
       \/ TunnelRun(n) \/ LayerRun(n)
       \/ RadioSends(n) \/ RadioRun(n) \/ RadioLearns(n) \/ RadioHandsUp(n)
       \/ TunnelThread(n) \/ StartStack(n) \/ StackEnds(n)
  \/ Passes

StackSpec == StackInit /\ [][StackNext]_stackVars

\* The main loop of every node comes round, and the environment settles.
FairStackSpec ==
  /\ StackSpec
  /\ WF_stackVars(Passes)
  /\ \A n \in Node :
       /\ WF_stackVars(TunnelRun(n) \/ LayerRun(n))
       /\ WF_stackVars(RadioRun(n)) /\ SF_stackVars(RadioSends(n))
       /\ SF_stackVars(RadioLearns(n) \/ RadioHandsUp(n))

-----------------------------------------------------------------------------

IsData(packets) ==
  \A i \in DOMAIN packets : CarriesData(packets[i]) /\ packets[i].payload # <<>>

\* The layers keep well-formed packets only, and no node counts as its first
\* neighbor one that it does not know.
StackTypeOK ==
  /\ TypeOK
  /\ \A n \in Node :
       /\ first_neighbor[n] \in neighbor_node_ids[n] \/ neighbor_node_ids[n] = {}
       /\ IsData(ack_queue[n]) /\ IsData(fragmented_packets[n])
       /\ \A i \in DOMAIN fragmented_packets[n] : ~fragmented_packets[n][i].final
       /\ Len(pending_packets[n]) <= MaxNumberOfPackets
       /\ n \in in_run => downstream_buffer[n] # <<>>

\* The tunnel thread lets its buffer grow by one frame beyond the limit and no
\* further, although it reads the size while the main loop may be popping.
DownstreamBound ==
  \A n \in Node : Len(downstream_buffer[n]) <= kMaxBufferedFrames + 1

IsLastByte(byte) == byte[3] = tunnel_in[byte[1]][byte[2]]

\* A message is written when, and only when, the last fragment of some frame
\* arrives: however many senders and repeated or lost packets mix, no message
\* ends in the middle of a frame and none goes on beyond the end of one.
EndsKept ==
  \A n \in Node : \A k \in DOMAIN tunnel_out[n] : \A i \in DOMAIN tunnel_out[n][k] :
    IsLastByte(tunnel_out[n][k][i]) <=> i = Len(tunnel_out[n][k])

ChunkOf(byte) == (byte[3] - 1) \div PACKET_PAYLOAD_SIZE

Before(first, second) ==
  \/ first[2] < second[2]
  \/ first[2] = second[2] /\ first[3] < second[3]

\* Of two chunks the later one never comes first, and without acknowledgements
\* no chunk comes twice: with one packet pending at a time, no repetition can
\* overtake or fall behind a packet of the same sender.
InOrder ==
  \A n \in Node : LET got == FlattenSeq(tunnel_out[n]) IN
    \A i, j \in DOMAIN got :
    LET first == got[i]
        second == got[j]
    IN  i < j /\ first[1] = second[1] =>
          \/ Before(first, second)
          \/ /\ enabled
             /\ first[2] = second[2] /\ ChunkOf(first) = ChunkOf(second)

\* The bytes that another node has collected, or written, or is about to.
Arrived(n, payload) ==
  \E m \in Node \ {n} :
    ToSet(payload) \subseteq
      ToSet(FlattenSeq(tunnel_out[m])) \cup ToSet(FlattenSeq(upstream_buffer[m]))
        \cup ToSet(FlattenSeq([i \in DOMAIN fragmented_packets[m] |->
                                 fragmented_packets[m][i].payload]))

\* A packet stops being pending because it was sent too often, or because there
\* is an acknowledgement of a packet that another node has got, and that has the
\* contents of this one: late, repeated or meant for another node as it may be, it
\* is not taken for that of a packet with other contents.  A packet that never
\* arrived does stop being pending after an acknowledgement of an equal one.
AckedArrived ==
  [][\A n \in Node : \A i \in DOMAIN pending_packets[n] :
       LET sent == pending_packets[n][i]
       IN  \/ ~Alive(n)'
           \/ \E j \in DOMAIN pending_packets'[n] :
                pending_packets'[n][j].packet = sent.packet
           \/ sent.times_sent > kMaxTimesSent
           \/ /\ rx[n] # <<>> /\ Head(rx[n]).type = "DataAck"
              /\ SameContents(sent.packet.payload, Head(rx[n]).payload)
              /\ Arrived(n, Head(rx[n]).payload)]_stackVars

NothingOnTheWay ==
  \A n \in Node :
    /\ downstream_buffer[n] = <<>> /\ upstream_buffer[n] = <<>>
    /\ ack_queue[n] = <<>> /\ pending_packets[n] = <<>>
    /\ \A packet \in Packets(n) : ~CarriesData(packet)

\* Where nothing is lost and everybody who is known is there, every byte that was
\* read reaches another node, though not all of a frame the same one: whatever
\* is acknowledged to the wrong node, given up, or sent while a node joins.
Delivered ==
  lossless /\ NothingOnTheWay =>
    \A n \in Node : \A k \in DOMAIN tunnel_in[n] : \A j \in 1..tunnel_in[n][k] :
      Arrived(n, << <<n, k, j>> >>)

\* In the end nothing is left on the way: acknowledgements that reach the first
\* neighbor instead of the sender, or nobody, block the queue for a while only.
StackDrained == <>[]NothingOnTheWay
=============================================================================
