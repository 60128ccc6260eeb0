------------------------- MODULE MeshRadioInterface -------------------------
(* Mesh mode (src/layers/mesh_radio_interface.{h,cc}): how the nodes that   *)
(* share a channel find one another and each give themselves a node id.     *)
(* A node that starts has a random id of the upper range; it asks for the   *)
(* ids in use and takes a free one of the lower range.                      *)
(*                                                                          *)
(* Time goes by in ticks of a second, the period of the discovery messages  *)
(* and of the wait for responses.  Packets take milliseconds: without the   *)
(* fault "late" all of them have been dealt with when the next tick comes,  *)
(* and so have the timers.  The comms state Timing is left out: no code     *)
(* enters it.                                                               *)
EXTENDS Integers, Sequences, FiniteSets, SequencesExt

CONSTANTS
  Node,                    \* the processes
  min_discovery_node_id,   \* ids below are given to nodes, the others are random
  max_node_id,             \* 255
  max_discovery_messages,  \* 3: beyond it a node concludes that it is alone
  kNeighborsInPacket,      \* 29: the neighbors a response has room for
  FifoDepth,               \* packets the RX FIFO of a radio holds
  MaxQueued,               \* bound: the packets that wait to be sent
  Faults                   \* what the environment may do before it is stable

\* "loss": a packet reaches some nodes or none (there is no acknowledgement).
\* "late": a tick comes before all packets and timers have been dealt with.
\* "same_id": two nodes started in the same second draw the same random id.
\* "restart": a process ends and may be started again.
AllFaults == {"loss", "late", "same_id", "restart"}

ASSUME MeshAssumption ==
  /\ IsFiniteSet(Node)
  /\ min_discovery_node_id \in Nat /\ min_discovery_node_id >= 1
  /\ max_node_id \in Nat /\ max_node_id >= min_discovery_node_id
  /\ max_discovery_messages \in Nat
  /\ kNeighborsInPacket \in Nat
  /\ FifoDepth \in Nat /\ FifoDepth >= 1
  /\ MaxQueued \in Nat /\ MaxQueued >= 1
  /\ Faults \subseteq AllFaults

VARIABLES
  node_id,
  comms_state,        \* CommsNone stands for a process that is not running
  radio_state,
  neighbor_node_ids,
  messages_sent,      \* number_of_discovery_messages_sent_
  due,                \* the nodes whose discovery_message_timer_ has run out
  ack_wait,           \* the wait since discovery_ack_received_time_us_
  packets_to_send,
  rx,                 \* the RX FIFO
  stable              \* the environment has stopped misbehaving

idVars == <<node_id, comms_state, neighbor_node_ids>>
discoveryVars == <<messages_sent, due, ack_wait>>
vars == <<idVars, radio_state, discoveryVars, packets_to_send, rx, stable>>

NodeId == 0..max_node_id
DiscoveryId == min_discovery_node_id..max_node_id

\* Where a packet is sent: pipe 0 of every node, or pipe 1 of those with an id.
Everyone == -1

Packet == [type : {"Discovery", "DiscoverResponse", "NodeIdAnnouncement"},
           to : NodeId \cup {Everyone},
           source : NodeId,
           neighbors : SUBSET NodeId,
           num : 0..255]

\* What the layers above send and receive.
CarriesData(packet) == packet.type \in {"Data", "DataAck"}

IdPacket(type, id) ==
  [type |-> type, to |-> Everyone, source |-> id, neighbors |-> {}, num |-> 0]

May(fault) == fault \in Faults /\ ~stable

Init ==
  /\ node_id = [n \in Node |-> 0]
  /\ comms_state = [n \in Node |-> "CommsNone"]
  /\ radio_state = [n \in Node |-> "RadioNone"]
  /\ neighbor_node_ids = [n \in Node |-> {}]
  /\ messages_sent = [n \in Node |-> 0]
  /\ due = {}
  /\ ack_wait = [n \in Node |-> "none"]
  /\ packets_to_send = [n \in Node |-> <<>>]
  /\ rx = [n \in Node |-> <<>>]
  /\ stable = (Faults = {})

-----------------------------------------------------------------------------
(* The process *)

\* The constructor.  Opened stands for Continuous until the radio listens: nothing
\* before the end of the first Send makes it.
Start(n) ==
  /\ comms_state[n] = "CommsNone"
  /\ \E id \in DiscoveryId :
       /\ \/ May("same_id")
          \/ \A m \in Node : comms_state[m] = "Discovery" => node_id[m] # id
       /\ node_id' = [node_id EXCEPT ![n] = id]
  /\ radio_state' = [radio_state EXCEPT ![n] = "Opened"]
  /\ comms_state' = [comms_state EXCEPT ![n] = "Discovery"]
  /\ due' = due \cup {n}
  /\ UNCHANGED <<neighbor_node_ids, messages_sent, ack_wait, packets_to_send, rx, stable>>

\* The process ends: what it knew is gone, and begin() flushes the FIFO.
Exit(n) ==
  /\ comms_state' = [comms_state EXCEPT ![n] = "CommsNone"]
  /\ radio_state' = [radio_state EXCEPT ![n] = "RadioNone"]
  /\ node_id' = [node_id EXCEPT ![n] = 0]
  /\ neighbor_node_ids' = [neighbor_node_ids EXCEPT ![n] = {}]
  /\ messages_sent' = [messages_sent EXCEPT ![n] = 0]
  /\ due' = due \ {n}
  /\ ack_wait' = [ack_wait EXCEPT ![n] = "none"]
  /\ packets_to_send' = [packets_to_send EXCEPT ![n] = <<>>]
  /\ rx' = [rx EXCEPT ![n] = <<>>]
  /\ UNCHANGED stable

Stop(n) == May("restart") /\ comms_state[n] # "CommsNone" /\ Exit(n)

Queue(n, packet) ==
  /\ Len(packets_to_send[n]) < MaxQueued
  /\ packets_to_send' = [packets_to_send EXCEPT ![n] = Append(@, packet)]

-----------------------------------------------------------------------------
(* Sender, and the sending half of ContinuousSenderReceiver *)

\* Up to three packets to the same address leave together.
Batch(queue) ==
  LET Joins(i) == \A j \in 1..i : queue[j].to = queue[1].to
  IN  SubSeq(queue, 1, CHOOSE k \in 1..3 :
        /\ k <= Len(queue) /\ Joins(k)
        /\ k < 3 /\ k < Len(queue) => ~Joins(k + 1))

HasAddress(n, to) ==
  /\ comms_state[n] # "CommsNone" /\ radio_state[n] # "Opened"
  /\ to \in {Everyone, node_id[n]}

\* The ascending sequences of some of the numbers of a set.
Ascending(numbers) ==
  {order \in UNION {[1..k -> numbers] : k \in 0..Cardinality(numbers)} :
     \A i, j \in DOMAIN order : i < j => order[i] < order[j]}

\* The packets of the batch that a radio took.
Taken(batch, order) == [i \in DOMAIN order |-> batch[order[i]]]

Send(n) ==
  /\ radio_state[n] \in {"Sending", "Continuous", "Opened"}
  /\ packets_to_send[n] # <<>>
  /\ LET batch == Batch(packets_to_send[n])
         Recipients == {m \in Node \ {n} : HasAddress(m, batch[1].to)}
     IN  /\ packets_to_send' = [packets_to_send EXCEPT
              ![n] = SubSeq(@, Len(batch) + 1, Len(@))]
         /\ \E taken \in [Recipients -> Ascending(1..Len(batch))] :
              /\ \A m \in Recipients :
                   /\ Len(rx[m]) + Len(taken[m]) <= FifoDepth
                   /\ May("loss") \/ Len(taken[m]) = Len(batch)
              /\ rx' = [m \in Node |-> IF m \in Recipients
                                       THEN rx[m] \o Taken(batch, taken[m])
                                       ELSE rx[m]]
  /\ radio_state' = [radio_state EXCEPT ![n] = IF @ = "Opened" THEN "Continuous" ELSE @]
  /\ UNCHANGED <<idVars, discoveryVars, stable>>

-----------------------------------------------------------------------------
(* Receiver, and the receiving half of ContinuousSenderReceiver *)

\* Faulty: goes on counting its own messages.
YieldNever(n, packet) == UNCHANGED <<messages_sent, due>>

\* Faulty: starts again whoever sent the packet.
YieldAlways(n, packet) ==
  messages_sent' = [messages_sent EXCEPT ![n] = 0] /\ due' = due \cup {n}

\* A discovery packet of a lower id makes the node count from the start and
\* send its next message at once.
Yield(n, packet) ==
  IF packet.source < node_id[n]
  THEN messages_sent' = [messages_sent EXCEPT ![n] = 0] /\ due' = due \cup {n}
  ELSE UNCHANGED <<messages_sent, due>>

\* num says, in a byte, how many neighbors there are, and told is as many of them
\* as its reader will find: no more than there is room for.
Respond(n, packet) ==
  LET num == Cardinality(neighbor_node_ids[n]) % 256
  IN  \E told \in SUBSET neighbor_node_ids[n] :
        /\ Cardinality(told) = IF num <= kNeighborsInPacket THEN num ELSE kNeighborsInPacket
        /\ Queue(n, [type |-> "DiscoverResponse", to |-> packet.source,
                     source |-> node_id[n], neighbors |-> told, num |-> num])

HandleDiscoveryPacket(n, packet) ==
  /\ packet.type = "Discovery"
  /\ \/ /\ comms_state[n] = "Discovery"
        /\ Yield(n, packet)
        /\ UNCHANGED packets_to_send
     \/ /\ comms_state[n] # "Discovery"
        /\ Respond(n, packet)
        /\ UNCHANGED <<messages_sent, due>>
  /\ UNCHANGED <<neighbor_node_ids, ack_wait>>

AfterResponse(wait) == IF wait = "none" THEN "waiting" ELSE wait

\* Beyond the room of the packet the loop reads whatever memory holds.
HandleDiscoveryAckPacket(n, packet) ==
  /\ packet.type = "DiscoverResponse"
  /\ ack_wait' = [ack_wait EXCEPT ![n] = AfterResponse(@)]
  /\ \E garbage \in SUBSET NodeId :
       /\ IF packet.num <= kNeighborsInPacket
          THEN garbage = {}
          ELSE Cardinality(garbage) <= packet.num - kNeighborsInPacket
       /\ neighbor_node_ids' = [neighbor_node_ids EXCEPT
            ![n] = @ \cup {packet.source} \cup packet.neighbors \cup garbage]
  /\ UNCHANGED <<messages_sent, due, packets_to_send>>

\* Faulty: keeps its own id and ignores the others.
AnnouncedSelf(n, packet) == {packet.source} \cap {node_id[n]}

\* Faulty: keeps the address of the packet.
AnnouncedAddress(n, packet) == {packet.to} \ {node_id[n]}

Announced(n, packet) == {packet.source} \ {node_id[n]}

HandleNodeIdAnnouncementPacket(n, packet) ==
  /\ packet.type = "NodeIdAnnouncement"
  /\ neighbor_node_ids' = [neighbor_node_ids EXCEPT ![n] = @ \cup Announced(n, packet)]
  /\ UNCHANGED <<discoveryVars, packets_to_send>>

Receive(n) ==
  /\ radio_state[n] \in {"Listening", "Continuous"}
  /\ rx[n] # <<>>
  /\ LET packet == Head(rx[n])
     IN  \/ HandleDiscoveryPacket(n, packet)
         \/ HandleDiscoveryAckPacket(n, packet)
         \/ HandleNodeIdAnnouncementPacket(n, packet)
  /\ rx' = [rx EXCEPT ![n] = Tail(@)]
  /\ UNCHANGED <<node_id, comms_state, radio_state, stable>>

\* A data packet goes up: what the layers above make of it is theirs to say.
HandUp(n) ==
  /\ radio_state[n] \in {"Listening", "Continuous"}
  /\ rx[n] # <<>> /\ CarriesData(Head(rx[n]))
  /\ rx' = [rx EXCEPT ![n] = Tail(@)]
  /\ UNCHANGED <<idVars, radio_state, discoveryVars, stable>>

\* A running node listens and sends in turns of send_receive_period_us_.
EndTurn(n) ==
  /\ \/ /\ radio_state[n] = "Listening"
        /\ radio_state' = [radio_state EXCEPT ![n] = "Sending"]
     \/ /\ radio_state[n] = "Sending"
        /\ radio_state' = [radio_state EXCEPT ![n] = "Listening"]
  /\ UNCHANGED <<idVars, discoveryVars, packets_to_send, rx, stable>>

-----------------------------------------------------------------------------
(* DiscoveryTask *)

InDiscovery == {n \in Node : comms_state[n] = "Discovery"}

Packets(n) == ToSet(packets_to_send[n]) \cup ToSet(rx[n])

\* The packets of the discovery that are on their way.
OnTheirWay == {packet \in UNION {Packets(n) : n \in Node} : ~CarriesData(packet)}

\* Whose wait is over has taken an id, and who is due has sent its message.
TimersDone == \A n \in InDiscovery : n \notin due /\ ack_wait[n] # "over"

Tick ==
  /\ InDiscovery # {}
  /\ (TimersDone /\ OnTheirWay = {}) \/ May("late")
  /\ due' = InDiscovery
  /\ ack_wait' = [n \in Node |-> IF ack_wait[n] = "waiting" THEN "over" ELSE ack_wait[n]]
  /\ UNCHANGED <<idVars, radio_state, messages_sent, packets_to_send, rx, stable>>

\* Faulty: announces the random id that the node gives up.
SettleAnnouncesOld(n, id) ==
  /\ node_id' = [node_id EXCEPT ![n] = id]
  /\ Queue(n, IdPacket("NodeIdAnnouncement", node_id[n]))
  /\ radio_state' = [radio_state EXCEPT ![n] = "Listening"]
  /\ comms_state' = [comms_state EXCEPT ![n] = "Running"]
  /\ UNCHANGED neighbor_node_ids

\* SetNodeId, and what DiscoveryTask does after it.
Settle(n, id) ==
  /\ node_id' = [node_id EXCEPT ![n] = id]
  /\ Queue(n, IdPacket("NodeIdAnnouncement", id))
  /\ radio_state' = [radio_state EXCEPT ![n] = "Listening"]
  /\ comms_state' = [comms_state EXCEPT ![n] = "Running"]
  /\ UNCHANGED neighbor_node_ids

Alone(n) == messages_sent[n] > max_discovery_messages /\ ack_wait[n] = "none"

SettleAlone(n) ==
  /\ n \in due /\ n \in InDiscovery
  /\ Alone(n)
  /\ Settle(n, 0)
  /\ due' = due \ {n}
  /\ UNCHANGED <<messages_sent, ack_wait, rx, stable>>

SendDiscovery(n) ==
  /\ n \in due /\ n \in InDiscovery
  /\ ~Alone(n)
  /\ Queue(n, IdPacket("Discovery", node_id[n]))
  /\ messages_sent' = [messages_sent EXCEPT
       ![n] = IF @ > max_discovery_messages THEN @ ELSE @ + 1]
  /\ due' = due \ {n}
  /\ UNCHANGED <<idVars, radio_state, ack_wait, rx, stable>>

\* Faulty: does not look at the neighbors.
FreeIdsAny(n) == 0..min_discovery_node_id - 1

FreeIds(n) == (0..min_discovery_node_id - 1) \ neighbor_node_ids[n]

SettleAmongNeighbors(n) ==
  /\ n \in InDiscovery
  /\ ack_wait[n] = "over"
  /\ FreeIds(n) # {}
  /\ Settle(n, CHOOSE id \in FreeIds(n) : \A other \in FreeIds(n) : id <= other)
  /\ ack_wait' = [ack_wait EXCEPT ![n] = "none"]
  /\ UNCHANGED <<messages_sent, due, rx, stable>>

\* CHECK(false) without a free id.
Abort(n) ==
  /\ n \in InDiscovery
  /\ ack_wait[n] = "over"
  /\ FreeIds(n) = {}
  /\ Exit(n)

-----------------------------------------------------------------------------

Timer(n) ==
  SendDiscovery(n) \/ SettleAlone(n) \/ SettleAmongNeighbors(n) \/ Abort(n)

Stabilise ==
  /\ ~stable
  /\ stable' = TRUE
  /\ UNCHANGED <<idVars, radio_state, discoveryVars, packets_to_send, rx>>

Next ==
  \/ \E n \in Node :
       Start(n) \/ Stop(n) \/ Send(n) \/ Receive(n) \/ EndTurn(n) \/ Timer(n)
  \/ Tick
  \/ Stabilise

Spec == Init /\ [][Next]_vars

\* Every process runs, a turn lasts for many rounds of its loop, the clock
\* goes on and the environment settles in the end.
FairSpec ==
  /\ Spec
  /\ WF_vars(Tick) /\ WF_vars(Stabilise)
  /\ \A n \in Node :
       /\ WF_vars(Start(n)) /\ WF_vars(Timer(n)) /\ WF_vars(EndTurn(n))
       /\ SF_vars(Send(n)) /\ SF_vars(Receive(n))

-----------------------------------------------------------------------------

TypeOK ==
  /\ node_id \in [Node -> NodeId]
  /\ comms_state \in [Node -> {"CommsNone", "Discovery", "Running"}]
  /\ radio_state \in [Node -> {"RadioNone", "Opened", "Continuous", "Listening", "Sending"}]
  /\ neighbor_node_ids \in [Node -> SUBSET NodeId]
  /\ messages_sent \in [Node -> 0..max_discovery_messages + 1]
  /\ due \subseteq Node
  /\ ack_wait \in [Node -> {"none", "waiting", "over"}]
  /\ OnTheirWay \subseteq Packet
  /\ \A n \in Node : /\ Len(packets_to_send[n]) <= MaxQueued
                      /\ Len(rx[n]) <= FifoDepth
  /\ stable \in BOOLEAN

Running == {n \in Node : comms_state[n] = "Running"}

\* What n has sent, or has to send, that m has not dealt with.
Between(n, m) == ToSet(packets_to_send[n]) \cup ToSet(rx[m])

Announces(n, m) == IdPacket("NodeIdAnnouncement", node_id[n]) \in Between(n, m)

\* A node takes an id that another one runs with only while that one's
\* announcement is on its way to it.  The lower of two random ids makes the other
\* node wait, and everybody answers who runs: so two nodes share an id when the
\* later takes it before it hears of the earlier, and never for another reason.
TakenUnheard ==
  [][\A n \in Running' \ Running, m \in Running :
       node_id'[n] = node_id[m] => Announces(m, n)]_vars

\* A node knows no id but those of other nodes that run.  Data goes to the first
\* id of its set: never to an id that nobody has, nor back to its own, unless
\* another node runs with that one too.
NeighborsAreOthers ==
  \A n \in Node : \A id \in neighbor_node_ids[n] :
    \E m \in Running \ {n} : node_id[m] = id

\* When no packet is on its way, nodes that run with different ids know one
\* another, whichever came first: the earlier from the announcement, the later
\* from the responses or, if both were about to take an id, the announcement too.
KnowOneAnother ==
  OnTheirWay = {} =>
    \A n, m \in Running : node_id[n] # node_id[m] => node_id[m] \in neighbor_node_ids[n]

\* Every node that is started runs in the end, unless the ids run out: no node
\* makes another one count from the start for ever, or wait for a response for
\* ever, whatever was lost or late and whoever was started again before.
AllRun ==
  <>[](\A n \in Node : FreeIds(n) # {}) => <>[](Running = Node)
=============================================================================
