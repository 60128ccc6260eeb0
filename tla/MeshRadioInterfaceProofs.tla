----------------------- MODULE MeshRadioInterfaceProofs -----------------------
(* Theorems about discovery in the mesh, for any number of nodes and ids    *)
(* and any depth of the FIFOs: the types whatever the faults, the ids and   *)
(* the neighbors without faults.  The lemmas about the types hold for any   *)
(* packets beside those of the discovery, so that they serve for the whole  *)
(* stack too.                                                               *)
EXTENDS MeshRadioInterface, SequenceTheorems, FiniteSetTheorems,
        WellFoundedInduction, TLAPS

(* TypeOK looks at queues through the set of packets that are on their way. *)
(* Its strengthening says what the queues are.                              *)

\* What may be in a queue: packets of the discovery, and others that carry data.
IsMail(Mail) ==
  /\ Packet \subseteq Mail
  /\ \A packet \in Mail : CarriesData(packet) \/ packet \in Packet

RadioTypes ==
  /\ node_id \in [Node -> NodeId]
  /\ comms_state \in [Node -> {"CommsNone", "Discovery", "Running"}]
  /\ radio_state \in [Node -> {"RadioNone", "Opened", "Continuous", "Listening", "Sending"}]
  /\ neighbor_node_ids \in [Node -> SUBSET NodeId]
  /\ messages_sent \in [Node -> 0..max_discovery_messages + 1]
  /\ due \subseteq Node
  /\ ack_wait \in [Node -> {"none", "waiting", "over"}]
  /\ stable \in BOOLEAN

QueueTypes(Mail) ==
  /\ packets_to_send \in [Node -> Seq(Mail)]
  /\ rx \in [Node -> Seq(Mail)]
  /\ \A n \in Node : /\ Len(packets_to_send[n]) <= MaxQueued
                      /\ Len(rx[n]) <= FifoDepth

-----------------------------------------------------------------------------
(* Operators *)

\* A set of numbers that is not empty has a least element.
LEMMA LeastElement ==
  ASSUME NEW T \in SUBSET Nat, T # {}
  PROVE  \E m \in T : \A k \in T : m <= k
<1>1. PICK m \in T : \A k \in T : <<k, m>> \notin OpToRel(<, Nat)
  BY NatLessThanWellFounded, WFMin, Zenon
<1>2. \A k \in T : ~(k < m)
  BY <1>1, Zenon DEF OpToRel
<1>3. QED
  BY <1>2

LEMMA SeqWider ==
  ASSUME NEW S, NEW T, S \subseteq T, NEW s \in Seq(S)
  PROVE  s \in Seq(T)
<1>1. Len(s) \in Nat /\ s = [i \in 1..Len(s) |-> s[i]] /\ \A i \in 1..Len(s) : s[i] \in T
  BY LenProperties, ElementOfSeq
<1>2. QED
  BY <1>1, IsASeq

\* There is a number of packets that leave together: a batch begins the queue.
LEMMA BatchBegins ==
  ASSUME NEW Mail, NEW queue \in Seq(Mail), queue # <<>>
  PROVE  \E k \in 1..Len(queue) :
           /\ k <= 3 /\ Batch(queue) = SubSeq(queue, 1, k)
           /\ \A j \in 1..k : queue[j].to = queue[1].to
<1> DEFINE Joins(i) == \A j \in 1..i : queue[j].to = queue[1].to
           Fits(k) == /\ k <= Len(queue) /\ Joins(k)
                      /\ k < 3 /\ k < Len(queue) => ~Joins(k + 1)
<1>1. Len(queue) \in Nat /\ Len(queue) >= 1
  BY EmptySeq, LenProperties
<1>2. Joins(1)
  OBVIOUS
<1>3. \E k \in 1..3 : Fits(k)
  <2>1. CASE Len(queue) < 2 \/ ~Joins(2)
    BY <1>1, <1>2, <2>1
  <2>2. CASE Len(queue) >= 2 /\ Joins(2) /\ (Len(queue) < 3 \/ ~Joins(3))
    BY <1>1, <2>2
  <2>3. CASE Len(queue) >= 3 /\ Joins(3)
    BY <1>1, <2>3
  <2>4. QED
    BY <1>1, <2>1, <2>2, <2>3
<1>4. PICK k : k = CHOOSE i \in 1..3 : Fits(i)
  OBVIOUS
<1>5. k \in 1..3 /\ k <= Len(queue) /\ Joins(k)
  BY <1>3, <1>4
<1>6. Batch(queue) = SubSeq(queue, 1, k)
  BY <1>4, Zenon DEF Batch
<1>7. QED
  BY <1>1, <1>5, <1>6

LEMMA AscendingType ==
  ASSUME NEW numbers, IsFiniteSet(numbers), NEW order \in Ascending(numbers)
  PROVE  /\ order \in Seq(numbers)
         /\ Len(order) \in Nat /\ DOMAIN order = 1..Len(order)
         /\ \A i, j \in 1..Len(order) : i < j => order[i] < order[j]
<1>1. PICK k \in 0..Cardinality(numbers) :
        /\ order \in [1..k -> numbers]
        /\ \A i, j \in DOMAIN order : i < j => order[i] < order[j]
  BY DEF Ascending
<1>2. k \in Nat
  BY FS_CardinalityType
<1>3. Len(order) = k /\ DOMAIN order = 1..k
  BY <1>1, <1>2
<1>4. order \in Seq(numbers)
  BY <1>1, <1>2
<1>5. QED
  BY <1>1, <1>2, <1>3, <1>4

\* What a radio takes of a batch are packets of the batch.
LEMMA TakenType ==
  ASSUME NEW Mail, NEW batch \in Seq(Mail), NEW order \in Ascending(1..Len(batch))
  PROVE  /\ Taken(batch, order) \in Seq(Mail)
         /\ Len(Taken(batch, order)) = Len(order)
         /\ Len(order) \in Nat
<1>1. IsFiniteSet(1..Len(batch))
  BY LenProperties, FS_Interval
<1>2. /\ order \in Seq(1..Len(batch))
      /\ Len(order) \in Nat /\ DOMAIN order = 1..Len(order)
  BY <1>1, AscendingType
<1>3. \A i \in 1..Len(order) : batch[order[i]] \in Mail
  BY <1>2, ElementOfSeq
<1>4. Taken(batch, order) = [i \in 1..Len(order) |-> batch[order[i]]]
  BY <1>2 DEF Taken
<1>5. QED
  BY <1>2, <1>3, <1>4, IsASeq

\* What a byte says of how many ids there are.
LEMMA IdsCount ==
  ASSUME NEW ids \in SUBSET NodeId
  PROVE  /\ Cardinality(ids) \in Nat
         /\ Cardinality(ids) % 256 \in 0..255
         /\ Cardinality(ids) % 256 <= Cardinality(ids)
<1>1. IsFiniteSet(NodeId)
  BY MeshAssumption, FS_Interval DEF NodeId
<1>2. Cardinality(ids) \in Nat
  BY <1>1, FS_Subset, FS_CardinalityType
<1>3. \A k \in Nat : k % 256 \in 0..255 /\ k % 256 <= k
  OBVIOUS
<1>4. QED
  BY <1>2, <1>3

\* The id that a node takes is free.
LEMMA FreeIdTaken ==
  ASSUME NEW n, FreeIds(n) # {}
  PROVE  (CHOOSE id \in FreeIds(n) : \A other \in FreeIds(n) : id <= other)
           \in FreeIds(n) \cap NodeId
<1>1. FreeIds(n) \subseteq Nat /\ FreeIds(n) \subseteq NodeId
  BY MeshAssumption DEF FreeIds, NodeId
<1>2. \E id \in FreeIds(n) : \A other \in FreeIds(n) : id <= other
  BY <1>1, LeastElement
<1>3. QED
  BY <1>1, <1>2

\* Putting a packet into the queue, and taking the first one from the FIFO.
LEMMA QueueSends ==
  ASSUME NEW Mail, QueueTypes(Mail), NEW n \in Node, NEW packet \in Mail,
         Queue(n, packet)
  PROVE  /\ packets_to_send' \in [Node -> Seq(Mail)]
         /\ \A m \in Node : Len(packets_to_send'[m]) <= MaxQueued
<1>1. /\ Len(packets_to_send[n]) < MaxQueued
      /\ packets_to_send' = [packets_to_send EXCEPT ![n] = Append(@, packet)]
  BY DEF Queue
<1>2. packets_to_send[n] \in Seq(Mail) /\ Len(packets_to_send[n]) \in Nat
  BY LenProperties DEF QueueTypes
<1>3. /\ Append(packets_to_send[n], packet) \in Seq(Mail)
      /\ Len(Append(packets_to_send[n], packet)) = Len(packets_to_send[n]) + 1
  BY <1>2, AppendProperties
<1>4. Len(Append(packets_to_send[n], packet)) <= MaxQueued
  BY <1>1, <1>2, <1>3, MeshAssumption
<1>5. QED
  BY <1>1, <1>3, <1>4 DEF QueueTypes

LEMMA QueueTypesAppend ==
  ASSUME NEW Mail, QueueTypes(Mail), NEW n \in Node, NEW packet \in Mail,
         Queue(n, packet), rx' = rx
  PROVE  QueueTypes(Mail)'
BY QueueSends DEF QueueTypes

LEMMA QueueTypesTail ==
  ASSUME NEW Mail, QueueTypes(Mail), NEW n \in Node, rx[n] # <<>>,
         rx' = [rx EXCEPT ![n] = Tail(@)]
  PROVE  /\ Head(rx[n]) \in Mail
         /\ rx' \in [Node -> Seq(Mail)]
         /\ \A m \in Node : Len(rx'[m]) <= FifoDepth
<1>1. rx[n] \in Seq(Mail) /\ Len(rx[n]) \in Nat /\ Len(rx[n]) <= FifoDepth
  BY LenProperties DEF QueueTypes
<1>2. Head(rx[n]) \in Mail /\ Tail(rx[n]) \in Seq(Mail) /\ Len(Tail(rx[n])) = Len(rx[n]) - 1
  BY <1>1, HeadTailProperties
<1>3. Len(Tail(rx[n])) <= FifoDepth
  BY <1>1, <1>2, MeshAssumption
<1>4. QED
  BY <1>2, <1>3 DEF QueueTypes

\* The packets that say nothing but an id.
LEMMA IdPackets ==
  ASSUME NEW id \in NodeId
  PROVE  /\ IdPacket("Discovery", id) \in Packet
         /\ IdPacket("NodeIdAnnouncement", id) \in Packet
BY DEF IdPacket, Packet

-----------------------------------------------------------------------------
(* The actions *)

LEMMA StartTypes ==
  ASSUME NEW Mail, RadioTypes, QueueTypes(Mail), NEW n \in Node, Start(n)
  PROVE  RadioTypes' /\ QueueTypes(Mail)'
<1>1. PICK id \in DiscoveryId : node_id' = [node_id EXCEPT ![n] = id]
  BY DEF Start
<1>2. id \in NodeId
  BY MeshAssumption DEF DiscoveryId, NodeId
<1>3. RadioTypes'
  BY <1>1, <1>2 DEF Start, RadioTypes
<1>4. QED
  BY <1>3 DEF Start, QueueTypes

LEMMA ExitTypes ==
  ASSUME NEW Mail, RadioTypes, QueueTypes(Mail), NEW n \in Node, Exit(n)
  PROVE  RadioTypes' /\ QueueTypes(Mail)'
<1>1. 0 \in NodeId /\ 0 \in 0..max_discovery_messages + 1
  BY MeshAssumption DEF NodeId
<1>2. RadioTypes'
  BY <1>1 DEF Exit, RadioTypes
<1>3. <<>> \in Seq(Mail) /\ Len(<<>>) = 0
  BY EmptySeq
<1>4. QueueTypes(Mail)'
  BY <1>3, MeshAssumption DEF Exit, QueueTypes
<1>5. QED
  BY <1>2, <1>4

\* What a Send does to the queues: a batch leaves the sender's, and every node
\* that is addressed takes some of it.
LEMMA SendMoves ==
  ASSUME NEW Mail, QueueTypes(Mail), NEW n \in Node, Send(n)
  PROVE  \E k \in 1..Len(packets_to_send[n]) :
           LET batch == SubSeq(packets_to_send[n], 1, k)
           IN  /\ batch \in Seq(Mail) /\ Len(batch) = k
               /\ packets_to_send' = [packets_to_send EXCEPT
                    ![n] = SubSeq(@, k + 1, Len(@))]
               /\ rx' \in [Node -> Seq(Mail)]
               /\ \A m \in Node :
                    \/ rx'[m] = rx[m]
                    \/ /\ m # n
                       /\ HasAddress(m, batch[1].to)
                       /\ \E order \in Ascending(1..k) :
                            /\ rx'[m] = rx[m] \o Taken(batch, order)
                            /\ Len(rx[m]) + Len(order) <= FifoDepth
<1> DEFINE queue == packets_to_send[n]
<1>1. queue \in Seq(Mail) /\ queue # <<>> /\ Len(queue) \in Nat
  BY LenProperties DEF QueueTypes, Send
<1>2. PICK k \in 1..Len(queue) : Batch(queue) = SubSeq(queue, 1, k)
  BY <1>1, BatchBegins
<1> DEFINE batch == SubSeq(queue, 1, k)
           Recipients == {m \in Node \ {n} : HasAddress(m, batch[1].to)}
<1>3. batch \in Seq(Mail) /\ Len(batch) = k
  BY <1>1, SubSeqProperties
<1>4. PICK taken \in [Recipients -> Ascending(1..Len(batch))] :
        /\ packets_to_send' = [packets_to_send EXCEPT
             ![n] = SubSeq(@, Len(batch) + 1, Len(@))]
        /\ \A m \in Recipients : Len(rx[m]) + Len(taken[m]) <= FifoDepth
        /\ rx' = [m \in Node |-> IF m \in Recipients
                                 THEN rx[m] \o Taken(batch, taken[m])
                                 ELSE rx[m]]
  BY <1>2, Zenon DEF Send
<1> HIDE DEF batch, queue
<1>5. rx' \in [Node -> Seq(Mail)]
  <2>1. \A m \in Recipients : Taken(batch, taken[m]) \in Seq(Mail)
    BY <1>3, <1>4, TakenType
  <2>2. \A m \in Recipients : rx[m] \o Taken(batch, taken[m]) \in Seq(Mail)
    BY <2>1, ConcatProperties DEF QueueTypes
  <2>3. QED
    BY <1>4, <2>2 DEF QueueTypes
<1>6. ASSUME NEW m \in Node, rx'[m] # rx[m]
      PROVE  /\ m # n /\ HasAddress(m, batch[1].to)
             /\ \E order \in Ascending(1..k) :
                  /\ rx'[m] = rx[m] \o Taken(batch, order)
                  /\ Len(rx[m]) + Len(order) <= FifoDepth
  BY <1>3, <1>4, <1>6
<1>7. packets_to_send' = [packets_to_send EXCEPT ![n] = SubSeq(@, k + 1, Len(@))]
  BY <1>3, <1>4
<1>8. \A m \in Node :
        \/ rx'[m] = rx[m]
        \/ /\ m # n
           /\ HasAddress(m, batch[1].to)
           /\ \E order \in Ascending(1..k) :
                /\ rx'[m] = rx[m] \o Taken(batch, order)
                /\ Len(rx[m]) + Len(order) <= FifoDepth
  BY <1>6
<1>9. QED
  BY <1>2, <1>3, <1>5, <1>7, <1>8, Zenon DEF batch, queue

LEMMA SendTypes ==
  ASSUME NEW Mail, RadioTypes, QueueTypes(Mail), NEW n \in Node, Send(n)
  PROVE  RadioTypes' /\ QueueTypes(Mail)'
<1> DEFINE queue == packets_to_send[n]
<1>1. PICK k \in 1..Len(queue) :
        /\ SubSeq(queue, 1, k) \in Seq(Mail) /\ Len(SubSeq(queue, 1, k)) = k
        /\ packets_to_send' = [packets_to_send EXCEPT ![n] = SubSeq(@, k + 1, Len(@))]
        /\ rx' \in [Node -> Seq(Mail)]
        /\ \A m \in Node :
             \/ rx'[m] = rx[m]
             \/ \E order \in Ascending(1..k) :
                  /\ rx'[m] = rx[m] \o Taken(SubSeq(queue, 1, k), order)
                  /\ Len(rx[m]) + Len(order) <= FifoDepth
  BY SendMoves, ZenonT(60)
<1>2. queue \in Seq(Mail) /\ Len(queue) \in Nat /\ Len(queue) <= MaxQueued
  BY LenProperties DEF QueueTypes
<1>3. /\ SubSeq(queue, k + 1, Len(queue)) \in Seq(Mail)
      /\ Len(SubSeq(queue, k + 1, Len(queue))) = Len(queue) - k
  BY <1>2, SubSeqProperties
<1>4. Len(SubSeq(queue, k + 1, Len(queue))) <= MaxQueued
  BY <1>2, <1>3, MeshAssumption
<1>5. packets_to_send' \in [Node -> Seq(Mail)]
      /\ \A m \in Node : Len(packets_to_send'[m]) <= MaxQueued
  BY <1>1, <1>3, <1>4 DEF QueueTypes
<1>6. ASSUME NEW m \in Node PROVE Len(rx'[m]) <= FifoDepth
  <2>1. CASE rx'[m] = rx[m]
    BY <2>1 DEF QueueTypes
  <2>2. ASSUME NEW order \in Ascending(1..k),
               rx'[m] = rx[m] \o Taken(SubSeq(queue, 1, k), order),
               Len(rx[m]) + Len(order) <= FifoDepth
        PROVE  Len(rx'[m]) <= FifoDepth
    <3> DEFINE some == Taken(SubSeq(queue, 1, k), order)
    <3>1. some \in Seq(Mail) /\ Len(some) = Len(order)
      BY <1>1, TakenType
    <3>2. rx[m] \in Seq(Mail)
      BY DEF QueueTypes
    <3> HIDE DEF some, queue
    <3>3. Len(rx[m] \o some) = Len(rx[m]) + Len(some)
      BY <3>1, <3>2, ConcatProperties
    <3>4. QED
      BY <2>2, <3>1, <3>3 DEF some
  <2>3. QED
    BY <1>1, <2>1, <2>2
<1>7. QueueTypes(Mail)'
  BY <1>1, <1>5, <1>6 DEF QueueTypes
<1>8. radio_state' \in [Node -> {"RadioNone", "Opened", "Continuous", "Listening", "Sending"}]
  BY Zenon DEF Send, RadioTypes
<1>9. RadioTypes'
  BY <1>8 DEF Send, RadioTypes, idVars, discoveryVars
<1>10. QED
  BY <1>7, <1>9

\* A packet of the discovery: an answer, or something learnt from it.
LEMMA ReceiveTypes ==
  ASSUME NEW Mail, IsMail(Mail), RadioTypes, QueueTypes(Mail), NEW n \in Node, Receive(n)
  PROVE  RadioTypes' /\ QueueTypes(Mail)'
<1> DEFINE packet == Head(rx[n])
<1>1. rx[n] # <<>> /\ rx' = [rx EXCEPT ![n] = Tail(@)]
      /\ UNCHANGED <<node_id, comms_state, radio_state, stable>>
  BY DEF Receive
<1>2. packet \in Mail
  BY <1>1, QueueTypesTail
<1>3. \/ HandleDiscoveryPacket(n, packet)
      \/ HandleDiscoveryAckPacket(n, packet)
      \/ HandleNodeIdAnnouncementPacket(n, packet)
  BY DEF Receive
<1>4. ~CarriesData(packet)
  BY <1>3 DEF HandleDiscoveryPacket, HandleDiscoveryAckPacket,
              HandleNodeIdAnnouncementPacket, CarriesData
<1>5. packet \in Packet
  BY <1>2, <1>4 DEF IsMail
<1>6. packet.source \in NodeId /\ packet.neighbors \subseteq NodeId
  BY <1>5 DEF Packet
<1> HIDE DEF packet
<1>7. ASSUME packets_to_send' \in [Node -> Seq(Mail)],
             \A m \in Node : Len(packets_to_send'[m]) <= MaxQueued
      PROVE  QueueTypes(Mail)'
  BY <1>1, <1>7, QueueTypesTail DEF QueueTypes
<1>8. CASE HandleDiscoveryPacket(n, packet)
  <2>1. UNCHANGED <<neighbor_node_ids, ack_wait>>
    BY <1>8 DEF HandleDiscoveryPacket
  <2>2. messages_sent' \in [Node -> 0..max_discovery_messages + 1] /\ due' \subseteq Node
    <3>1. 0 \in 0..max_discovery_messages + 1
      BY MeshAssumption
    <3>2. \/ UNCHANGED <<messages_sent, due>>
          \/ messages_sent' = [messages_sent EXCEPT ![n] = 0] /\ due' = due \cup {n}
      BY <1>8 DEF HandleDiscoveryPacket, Yield
    <3>3. QED
      BY <3>1, <3>2 DEF RadioTypes
  <2>3. RadioTypes'
    BY <1>1, <2>1, <2>2 DEF RadioTypes
  <2>4. CASE UNCHANGED packets_to_send
    BY <1>7, <2>3, <2>4 DEF QueueTypes
  <2>5. CASE Respond(n, packet)
    <3> DEFINE ids == neighbor_node_ids[n]
    <3>1. PICK told \in SUBSET ids :
            Queue(n, [type |-> "DiscoverResponse", to |-> packet.source,
                      source |-> node_id[n], neighbors |-> told,
                      num |-> Cardinality(ids) % 256])
      BY <2>5 DEF Respond
    <3>2. ids \in SUBSET NodeId /\ node_id[n] \in NodeId
      BY DEF RadioTypes
    <3>3. Cardinality(ids) % 256 \in 0..255
      <4>1. Cardinality(ids) \in Nat
        BY <3>2, IdsCount
      <4> HIDE DEF ids
      <4>2. QED
        BY <4>1
    <3>4. [type |-> "DiscoverResponse", to |-> packet.source,
           source |-> node_id[n], neighbors |-> told, num |-> Cardinality(ids) % 256] \in Packet
      BY <1>6, <3>1, <3>2, <3>3 DEF Packet
    <3>5. packets_to_send' \in [Node -> Seq(Mail)]
          /\ \A m \in Node : Len(packets_to_send'[m]) <= MaxQueued
      BY <3>1, <3>4, QueueSends DEF IsMail
    <3>6. QED
      BY <1>7, <2>3, <3>5
  <2>6. QED
    BY <1>8, <2>4, <2>5 DEF HandleDiscoveryPacket
<1>9. CASE HandleDiscoveryAckPacket(n, packet)
  <2>1. PICK garbage \in SUBSET NodeId :
          neighbor_node_ids' = [neighbor_node_ids EXCEPT
            ![n] = @ \cup {packet.source} \cup packet.neighbors \cup garbage]
    BY <1>9 DEF HandleDiscoveryAckPacket
  <2>2. neighbor_node_ids' \in [Node -> SUBSET NodeId]
    BY <1>6, <2>1 DEF RadioTypes
  <2>3. ack_wait' = [ack_wait EXCEPT ![n] = AfterResponse(@)]
        /\ UNCHANGED <<messages_sent, due, packets_to_send>>
    BY <1>9 DEF HandleDiscoveryAckPacket
  <2>4. ack_wait' \in [Node -> {"none", "waiting", "over"}]
    BY <2>3 DEF RadioTypes, AfterResponse
  <2>5. RadioTypes'
    BY <1>1, <2>2, <2>3, <2>4 DEF RadioTypes
  <2>6. QED
    BY <1>7, <2>3, <2>5 DEF QueueTypes
<1>10. CASE HandleNodeIdAnnouncementPacket(n, packet)
  <2>1. neighbor_node_ids' = [neighbor_node_ids EXCEPT ![n] = @ \cup Announced(n, packet)]
        /\ UNCHANGED <<discoveryVars, packets_to_send>>
    BY <1>10 DEF HandleNodeIdAnnouncementPacket
  <2>2. Announced(n, packet) \subseteq NodeId
    BY <1>6 DEF Announced
  <2>3. neighbor_node_ids' \in [Node -> SUBSET NodeId]
    BY <2>1, <2>2 DEF RadioTypes
  <2>4. RadioTypes'
    BY <1>1, <2>1, <2>3 DEF RadioTypes, discoveryVars
  <2>5. QED
    BY <1>7, <2>1, <2>4 DEF QueueTypes
<1>11. QED
  BY <1>3, <1>8, <1>9, <1>10

LEMMA EndTurnTypes ==
  ASSUME NEW Mail, RadioTypes, QueueTypes(Mail), NEW n \in Node, EndTurn(n)
  PROVE  RadioTypes' /\ QueueTypes(Mail)'
<1>1. radio_state' \in [Node -> {"RadioNone", "Opened", "Continuous", "Listening", "Sending"}]
  BY DEF EndTurn, RadioTypes
<1>2. QED
  BY <1>1 DEF EndTurn, RadioTypes, QueueTypes, idVars, discoveryVars

LEMMA TickTypes ==
  ASSUME NEW Mail, RadioTypes, QueueTypes(Mail), Tick
  PROVE  RadioTypes' /\ QueueTypes(Mail)'
<1>1. /\ due' = InDiscovery
      /\ ack_wait' = [n \in Node |-> IF ack_wait[n] = "waiting" THEN "over" ELSE ack_wait[n]]
      /\ UNCHANGED <<idVars, radio_state, messages_sent, packets_to_send, rx, stable>>
  BY DEF Tick
<1>2. due' \subseteq Node
  BY <1>1 DEF InDiscovery
<1>3. ack_wait' \in [Node -> {"none", "waiting", "over"}]
  BY <1>1 DEF RadioTypes
<1>4. QED
  BY <1>1, <1>2, <1>3 DEF RadioTypes, QueueTypes, idVars

\* A node that has settled tells so.
LEMMA SettleTypes ==
  ASSUME NEW Mail, IsMail(Mail), RadioTypes, QueueTypes(Mail), NEW n \in Node,
         NEW id \in NodeId, Settle(n, id), UNCHANGED <<messages_sent, rx, stable>>,
         due' \subseteq Node, ack_wait' \in [Node -> {"none", "waiting", "over"}]
  PROVE  RadioTypes' /\ QueueTypes(Mail)'
<1>1. IdPacket("NodeIdAnnouncement", id) \in Packet
  BY IdPackets
<1>2. QueueTypes(Mail)'
  BY <1>1, QueueTypesAppend DEF IsMail, Settle
<1>3. RadioTypes'
  BY DEF Settle, RadioTypes
<1>4. QED
  BY <1>2, <1>3

LEMMA TimerTypes ==
  ASSUME NEW Mail, IsMail(Mail), RadioTypes, QueueTypes(Mail), NEW n \in Node, Timer(n)
  PROVE  RadioTypes' /\ QueueTypes(Mail)'
<1>1. CASE SendDiscovery(n)
  <2>1. Queue(n, IdPacket("Discovery", node_id[n]))
        /\ messages_sent' = [messages_sent EXCEPT
             ![n] = IF @ > max_discovery_messages THEN @ ELSE @ + 1]
        /\ due' = due \ {n}
        /\ UNCHANGED <<idVars, radio_state, ack_wait, rx, stable>>
    BY <1>1 DEF SendDiscovery
  <2>2. IdPacket("Discovery", node_id[n]) \in Packet
    BY IdPackets DEF RadioTypes
  <2>3. QueueTypes(Mail)'
    BY <2>1, <2>2, QueueTypesAppend DEF IsMail
  <2>4. messages_sent' \in [Node -> 0..max_discovery_messages + 1]
    BY <2>1, MeshAssumption DEF RadioTypes
  <2>5. RadioTypes'
    BY <2>1, <2>4 DEF RadioTypes, idVars
  <2>6. QED
    BY <2>3, <2>5
<1>2. CASE SettleAlone(n)
  <2>1. 0 \in NodeId
    BY MeshAssumption DEF NodeId
  <2>2. QED
    BY <1>2, <2>1, SettleTypes DEF SettleAlone, RadioTypes
<1>3. CASE SettleAmongNeighbors(n)
  <2>1. PICK id : /\ id = CHOOSE i \in FreeIds(n) : \A other \in FreeIds(n) : i <= other
                  /\ Settle(n, id)
    BY <1>3 DEF SettleAmongNeighbors
  <2>2. id \in NodeId
    BY <1>3, <2>1, FreeIdTaken DEF SettleAmongNeighbors
  <2>3. ack_wait' \in [Node -> {"none", "waiting", "over"}]
    BY <1>3 DEF SettleAmongNeighbors, RadioTypes
  <2>4. UNCHANGED <<messages_sent, due, rx, stable>>
    BY <1>3 DEF SettleAmongNeighbors
  <2>5. due' \subseteq Node
    BY <2>4 DEF RadioTypes
  <2>6. QED
    BY <2>1, <2>2, <2>3, <2>4, <2>5, SettleTypes
<1>4. CASE Abort(n)
  BY <1>4, ExitTypes DEF Abort
<1>5. QED
  BY <1>1, <1>2, <1>3, <1>4 DEF Timer

-----------------------------------------------------------------------------

LEMMA RadioInit ==
  ASSUME Init PROVE RadioTypes /\ QueueTypes(Packet)
<1>1. 0 \in NodeId /\ 0 \in 0..max_discovery_messages + 1
  BY MeshAssumption DEF NodeId
<1>2. <<>> \in Seq(Packet) /\ Len(<<>>) = 0
  BY EmptySeq
<1>3. RadioTypes
  BY <1>1 DEF Init, RadioTypes
<1>4. QueueTypes(Packet)
  BY <1>2, MeshAssumption DEF Init, QueueTypes
<1>5. QED
  BY <1>3, <1>4

LEMMA OnlyPackets == IsMail(Packet)
BY DEF IsMail

LEMMA RadioStep ==
  RadioTypes /\ QueueTypes(Packet) /\ [Next]_vars => (RadioTypes /\ QueueTypes(Packet))'
<1> SUFFICES ASSUME RadioTypes, QueueTypes(Packet), [Next]_vars
             PROVE  RadioTypes' /\ QueueTypes(Packet)'
  OBVIOUS
<1>1. ASSUME NEW n \in Node, Start(n) \/ Stop(n) PROVE RadioTypes' /\ QueueTypes(Packet)'
  BY <1>1, StartTypes, ExitTypes DEF Stop
<1>2. ASSUME NEW n \in Node, Send(n) \/ Receive(n) \/ EndTurn(n) \/ Timer(n)
      PROVE  RadioTypes' /\ QueueTypes(Packet)'
  BY <1>2, OnlyPackets, SendTypes, ReceiveTypes, EndTurnTypes, TimerTypes
<1>3. CASE Tick
  BY <1>3, TickTypes
<1>4. CASE Stabilise \/ UNCHANGED vars
  BY <1>4 DEF Stabilise, vars, idVars, discoveryVars, RadioTypes, QueueTypes
<1>5. QED
  BY <1>1, <1>2, <1>3, <1>4 DEF Next

\* What is on its way is in some queue.
LEMMA TypesSuffice ==
  ASSUME NEW Mail, IsMail(Mail), RadioTypes, QueueTypes(Mail)
  PROVE  TypeOK
<1>1. ASSUME NEW packet \in OnTheirWay PROVE packet \in Packet
  <2>1. PICK n \in Node : packet \in Packets(n)
    BY <1>1 DEF OnTheirWay
  <2>2. packets_to_send[n] \in Seq(Mail) /\ rx[n] \in Seq(Mail)
    BY DEF QueueTypes
  <2>3. packet \in Mail
    BY <2>1, <2>2, ElementOfSeq DEF Packets, ToSet
  <2>4. QED
    BY <1>1, <2>3 DEF OnTheirWay, IsMail
<1>2. QED
  BY <1>1 DEF TypeOK, RadioTypes, QueueTypes

\* Ids, lists, counts and waits stay within their ranges and the queues within
\* their limits, and every packet of the discovery is well-formed: what it counts
\* fits the ids there are, and the id that a node takes is one of them.
THEOREM DiscoveryTypes == Spec => []TypeOK
<1>1. RadioTypes /\ QueueTypes(Packet) => TypeOK
  BY OnlyPackets, TypesSuffice
<1>2. Init => RadioTypes /\ QueueTypes(Packet)
  BY RadioInit
<1>3. QED
  BY <1>1, <1>2, RadioStep, PTL DEF Spec

-----------------------------------------------------------------------------
(* Queues as sets of packets *)

LEMMA AppendElements ==
  ASSUME NEW S, NEW s \in Seq(S), NEW e \in S
  PROVE  ToSet(Append(s, e)) = ToSet(s) \cup {e}
<1>1. Len(s) \in Nat /\ DOMAIN s = 1..Len(s)
  BY LenProperties
<1>2. /\ Append(s, e) \in Seq(S) /\ Len(Append(s, e)) = Len(s) + 1
      /\ \A i \in 1..Len(s) : Append(s, e)[i] = s[i]
      /\ Append(s, e)[Len(s) + 1] = e
  BY AppendProperties
<1>3. DOMAIN Append(s, e) = 1..Len(s) + 1
  BY <1>2, LenProperties
<1>4. \A i \in 1..Len(s) : i \in 1..Len(s) + 1
  BY <1>1
<1>5. ASSUME NEW i \in 1..Len(s) + 1 PROVE Append(s, e)[i] \in ToSet(s) \cup {e}
  BY <1>1, <1>2 DEF ToSet
<1>6. Len(s) + 1 \in 1..Len(s) + 1
  BY <1>1
<1>7. QED
  BY <1>1, <1>2, <1>3, <1>4, <1>5, <1>6 DEF ToSet

LEMMA TailElements ==
  ASSUME NEW S, NEW s \in Seq(S), s # <<>>
  PROVE  ToSet(s) = ToSet(Tail(s)) \cup {Head(s)}
<1>1. Len(s) \in Nat \ {0} /\ DOMAIN s = 1..Len(s)
  BY LenProperties, EmptySeq
<1>2. /\ Tail(s) \in Seq(S) /\ Len(Tail(s)) = Len(s) - 1
      /\ \A i \in 1..Len(Tail(s)) : Tail(s)[i] = s[i + 1]
  BY HeadTailProperties
<1>3. DOMAIN Tail(s) = 1..Len(s) - 1
  BY <1>2, LenProperties
<1>4. Head(s) = s[1] /\ 1 \in 1..Len(s)
  BY <1>1
<1>5. ASSUME NEW i \in 1..Len(s) PROVE s[i] \in ToSet(Tail(s)) \cup {Head(s)}
  <2>1. CASE i = 1
    BY <1>4, <2>1
  <2>2. CASE i # 1
    <3>1. i - 1 \in 1..Len(s) - 1 /\ (i - 1) + 1 = i
      BY <1>1, <2>2
    <3>2. Tail(s)[i - 1] = s[i]
      BY <1>2, <3>1
    <3>3. QED
      BY <1>3, <3>1, <3>2 DEF ToSet
  <2>3. QED
    BY <2>1, <2>2
<1>6. \A i \in 1..Len(s) - 1 : i + 1 \in 1..Len(s)
  BY <1>1
<1>7. QED
  BY <1>1, <1>2, <1>3, <1>4, <1>5, <1>6 DEF ToSet

LEMMA ConcatElements ==
  ASSUME NEW S, NEW s \in Seq(S), NEW t \in Seq(S)
  PROVE  ToSet(s \o t) = ToSet(s) \cup ToSet(t)
<1>1. /\ Len(s) \in Nat /\ DOMAIN s = 1..Len(s)
      /\ Len(t) \in Nat /\ DOMAIN t = 1..Len(t)
  BY LenProperties
<1>2. /\ s \o t \in Seq(S) /\ Len(s \o t) = Len(s) + Len(t)
      /\ \A i \in 1..Len(s) + Len(t) :
           (s \o t)[i] = IF i <= Len(s) THEN s[i] ELSE t[i - Len(s)]
  BY ConcatProperties
<1>3. DOMAIN (s \o t) = 1..Len(s) + Len(t)
  BY <1>2, LenProperties
<1>4. ASSUME NEW i \in 1..Len(s) + Len(t) PROVE (s \o t)[i] \in ToSet(s) \cup ToSet(t)
  <2>1. CASE i <= Len(s)
    BY <1>1, <1>2, <2>1 DEF ToSet
  <2>2. CASE ~(i <= Len(s))
    <3>1. i - Len(s) \in 1..Len(t)
      BY <1>1, <2>2
    <3>2. QED
      BY <1>1, <1>2, <2>2, <3>1 DEF ToSet
  <2>3. QED
    BY <2>1, <2>2
<1>5. ASSUME NEW i \in 1..Len(s) PROVE s[i] \in ToSet(s \o t)
  <2>1. i \in 1..Len(s) + Len(t) /\ (s \o t)[i] = s[i]
    BY <1>1, <1>2
  <2>2. QED
    BY <1>3, <2>1 DEF ToSet
<1>6. ASSUME NEW i \in 1..Len(t) PROVE t[i] \in ToSet(s \o t)
  <2>1. Len(s) + i \in 1..Len(s) + Len(t) /\ (s \o t)[Len(s) + i] = t[i]
    BY <1>1, <1>2
  <2>2. QED
    BY <1>3, <2>1 DEF ToSet
<1>7. QED
  BY <1>1, <1>3, <1>4, <1>5, <1>6 DEF ToSet

\* The first elements of a sequence, and the others.
LEMMA SplitElements ==
  ASSUME NEW S, NEW s \in Seq(S), NEW k \in 1..Len(s)
  PROVE  ToSet(s) = ToSet(SubSeq(s, 1, k)) \cup ToSet(SubSeq(s, k + 1, Len(s)))
<1>1. Len(s) \in Nat /\ \A i \in 1..Len(s) : s[i] \in S
  BY LenProperties, ElementOfSeq
<1>2. SubSeq(s, 1, k) \in Seq(S) /\ SubSeq(s, k + 1, Len(s)) \in Seq(S)
  BY <1>1, SubSeqProperties
<1>3. SubSeq(s, 1, k) \o SubSeq(s, k + 1, Len(s)) = SubSeq(s, 1, Len(s))
  <2>1. 1 \in 1..Len(s) + 1 /\ k \in 1 - 1..Len(s) /\ Len(s) \in k..Len(s)
    BY <1>1
  <2>2. QED
    BY <2>1, ConcatAdjacentSubSeq
<1>4. SubSeq(s, 1, Len(s)) = s
  BY SubSeqFull
<1> DEFINE first == SubSeq(s, 1, k)
           rest == SubSeq(s, k + 1, Len(s))
<1> HIDE DEF first, rest
<1>5. ToSet(first \o rest) = ToSet(first) \cup ToSet(rest)
  <2>1. first \in Seq(S) /\ rest \in Seq(S)
    BY <1>2 DEF first, rest
  <2>2. QED
    BY <2>1, ConcatElements, SMTT(60)
<1>6. first \o rest = s
  BY <1>3, <1>4, Zenon DEF first, rest
<1>7. QED
  BY <1>5, <1>6, Zenon DEF first, rest

\* A node that hears a whole batch takes every packet of it.
LEMMA AllTaken ==
  ASSUME NEW Mail, NEW batch \in Seq(Mail), Len(batch) \in 1..3,
         NEW order \in Ascending(1..Len(batch)), Len(order) = Len(batch)
  PROVE  ToSet(batch) = ToSet(Taken(batch, order))
<1> DEFINE k == Len(batch)
<1>1. IsFiniteSet(1..k)
  BY FS_Interval
<1>2. /\ order \in Seq(1..k) /\ DOMAIN order = 1..k
      /\ \A i, j \in 1..k : i < j => order[i] < order[j]
  BY <1>1, AscendingType
<1>3. \A i \in 1..k : order[i] \in 1..k
  BY <1>2, ElementOfSeq
<1>4. \A i \in 1..k : order[i] = i
  <2>1. CASE k = 1
    BY <1>3, <2>1
  <2>2. CASE k = 2
    <3>1. order[1] \in 1..2 /\ order[2] \in 1..2 /\ order[1] < order[2]
      BY <1>2, <1>3, <2>2
    <3>2. QED
      BY <2>2, <3>1
  <2>3. CASE k = 3
    <3>1. /\ order[1] \in 1..3 /\ order[2] \in 1..3 /\ order[3] \in 1..3
          /\ order[1] < order[2] /\ order[2] < order[3]
      BY <1>2, <1>3, <2>3
    <3>2. QED
      BY <2>3, <3>1
  <2>4. QED
    BY <2>1, <2>2, <2>3
<1>5. DOMAIN batch = 1..k
  BY LenProperties
<1>6. Taken(batch, order) = [i \in 1..k |-> batch[order[i]]]
  BY <1>2 DEF Taken
<1>7. QED
  BY <1>4, <1>5, <1>6 DEF ToSet

LEMMA TakenElements ==
  ASSUME NEW Mail, NEW batch \in Seq(Mail), NEW order \in Ascending(1..Len(batch))
  PROVE  ToSet(Taken(batch, order)) \subseteq ToSet(batch)
<1>1. Len(batch) \in Nat /\ DOMAIN batch = 1..Len(batch)
  BY LenProperties
<1>2. order \in Seq(1..Len(batch)) /\ DOMAIN order = 1..Len(order)
  BY <1>1, FS_Interval, AscendingType
<1>3. \A i \in DOMAIN order : order[i] \in DOMAIN batch
  BY <1>1, <1>2, ElementOfSeq
<1>4. QED
  BY <1>3 DEF ToSet, Taken

\* Without losses everything that leaves the queue reaches all it is sent to.
LEMMA SendDelivers ==
  ASSUME NEW Mail, QueueTypes(Mail), NEW n \in Node, Send(n)
  PROVE  /\ \A m \in Node \ {n} : packets_to_send'[m] = packets_to_send[m]
         /\ ToSet(packets_to_send'[n]) \subseteq ToSet(packets_to_send[n])
         /\ \A m \in Node :
              /\ ToSet(rx[m]) \subseteq ToSet(rx'[m])
              /\ \A packet \in ToSet(rx'[m]) \ ToSet(rx[m]) :
                   packet \in ToSet(packets_to_send[n]) /\ HasAddress(m, packet.to)
         /\ ~May("loss") =>
              \A packet \in ToSet(packets_to_send[n]) \ ToSet(packets_to_send'[n]) :
                \A m \in Node \ {n} : HasAddress(m, packet.to) => packet \in ToSet(rx'[m])
<1> DEFINE queue == packets_to_send[n]
<1>1. queue \in Seq(Mail) /\ queue # <<>> /\ Len(queue) \in Nat
  BY LenProperties DEF QueueTypes, Send
<1>2. PICK k \in 1..Len(queue) :
        /\ k <= 3 /\ Batch(queue) = SubSeq(queue, 1, k)
        /\ \A j \in 1..k : queue[j].to = queue[1].to
  BY <1>1, BatchBegins
<1> DEFINE batch == SubSeq(queue, 1, k)
           rest == SubSeq(queue, k + 1, Len(queue))
           Recipients == {m \in Node \ {n} : HasAddress(m, batch[1].to)}
<1>3. batch \in Seq(Mail) /\ Len(batch) = k /\ \A i \in 1..k : batch[i] = queue[i]
  <2>1. \A i \in 1..k : queue[i] \in Mail
    BY <1>1, ElementOfSeq
  <2>2. QED
    BY <1>1, <2>1, SubSeqProperties
<1>4. PICK taken \in [Recipients -> Ascending(1..Len(batch))] :
        /\ packets_to_send' = [packets_to_send EXCEPT
             ![n] = SubSeq(@, Len(batch) + 1, Len(@))]
        /\ \A m \in Recipients :
             /\ Len(rx[m]) + Len(taken[m]) <= FifoDepth
             /\ May("loss") \/ Len(taken[m]) = Len(batch)
        /\ rx' = [m \in Node |-> IF m \in Recipients
                                 THEN rx[m] \o Taken(batch, taken[m])
                                 ELSE rx[m]]
  BY <1>2, ZenonT(60) DEF Send
<1>5. ToSet(queue) = ToSet(batch) \cup ToSet(rest)
  BY <1>1, SplitElements
<1>6. ASSUME NEW packet \in ToSet(batch) PROVE packet.to = batch[1].to
  <2>1. DOMAIN batch = 1..k /\ 1 \in 1..k
    BY <1>2, <1>3, LenProperties
  <2>2. PICK i \in 1..k : packet = batch[i]
    BY <1>6, <2>1 DEF ToSet
  <2>3. QED
    BY <1>2, <1>3, <2>1, <2>2
<1> HIDE DEF batch, queue, rest
<1>7. packets_to_send' = [packets_to_send EXCEPT ![n] = rest]
  BY <1>3, <1>4 DEF rest, queue
<1>8. ASSUME NEW m \in Recipients
      PROVE  /\ ToSet(rx[m]) \subseteq ToSet(rx'[m])
             /\ ToSet(rx'[m]) \subseteq ToSet(rx[m]) \cup ToSet(batch)
             /\ ~May("loss") => ToSet(batch) \subseteq ToSet(rx'[m])
  <2>1. taken[m] \in Ascending(1..Len(batch)) /\ (~May("loss") => Len(taken[m]) = Len(batch))
    BY <1>4
  <2>2. Len(batch) \in 1..3
    BY <1>2, <1>3
  <2>3. Taken(batch, taken[m]) \in Seq(Mail)
    BY <1>3, <2>1, TakenType
  <2>4. /\ ToSet(Taken(batch, taken[m])) \subseteq ToSet(batch)
        /\ ~May("loss") => ToSet(batch) = ToSet(Taken(batch, taken[m]))
    BY <1>3, <2>1, <2>2, AllTaken, TakenElements
  <2>5. rx[m] \in Seq(Mail) /\ rx'[m] = rx[m] \o Taken(batch, taken[m])
    BY <1>4 DEF QueueTypes
  <2>6. QED
    BY <2>3, <2>4, <2>5, ConcatElements
<1>9. \A m \in Node \ Recipients : rx'[m] = rx[m]
  BY <1>4
<1>10. packets_to_send \in [Node -> Seq(Mail)]
  BY DEF QueueTypes
<1>11. packets_to_send'[n] = rest /\ \A m \in Node \ {n} : packets_to_send'[m] = packets_to_send[m]
  BY <1>7, <1>10
<1>12. ASSUME NEW m \in Node
       PROVE  /\ ToSet(rx[m]) \subseteq ToSet(rx'[m])
              /\ \A packet \in ToSet(rx'[m]) \ ToSet(rx[m]) :
                   packet \in ToSet(queue) /\ HasAddress(m, packet.to)
  BY <1>5, <1>6, <1>8, <1>9
<1>13. ASSUME ~May("loss"), NEW packet \in ToSet(queue) \ ToSet(rest),
              NEW m \in Node \ {n}, HasAddress(m, packet.to)
       PROVE  packet \in ToSet(rx'[m])
  <2>1. packet \in ToSet(batch)
    BY <1>5, <1>13
  <2>2. m \in Recipients
    BY <1>6, <1>13, <2>1
  <2>3. QED
    BY <1>8, <1>13, <2>1, <2>2
<1>14. QED
  BY <1>5, <1>11, <1>12, <1>13 DEF queue

LEMMA QueueElements ==
  ASSUME NEW Mail, QueueTypes(Mail), NEW n \in Node, NEW packet \in Mail, Queue(n, packet)
  PROVE  /\ ToSet(packets_to_send'[n]) = ToSet(packets_to_send[n]) \cup {packet}
         /\ \A m \in Node \ {n} : packets_to_send'[m] = packets_to_send[m]
<1>1. packets_to_send \in [Node -> Seq(Mail)]
  BY DEF QueueTypes
<1>2. packets_to_send' = [packets_to_send EXCEPT ![n] = Append(@, packet)]
  BY DEF Queue
<1>3. packets_to_send'[n] = Append(packets_to_send[n], packet)
  BY <1>1, <1>2
<1>4. ToSet(Append(packets_to_send[n], packet)) = ToSet(packets_to_send[n]) \cup {packet}
  BY <1>1, AppendElements
<1>5. QED
  BY <1>1, <1>2, <1>3, <1>4

LEMMA ReceiveElements ==
  ASSUME NEW Mail, QueueTypes(Mail), NEW n \in Node, Receive(n)
  PROVE  /\ Head(rx[n]) \in Mail
         /\ ToSet(rx[n]) = ToSet(rx'[n]) \cup {Head(rx[n])}
         /\ \A m \in Node \ {n} : rx'[m] = rx[m]
<1>1. rx \in [Node -> Seq(Mail)] /\ rx[n] # <<>> /\ rx' = [rx EXCEPT ![n] = Tail(@)]
  BY DEF QueueTypes, Receive
<1>2. rx'[n] = Tail(rx[n])
  BY <1>1
<1>3. ToSet(rx[n]) = ToSet(Tail(rx[n])) \cup {Head(rx[n])} /\ Head(rx[n]) \in Mail
  BY <1>1, TailElements, HeadTailProperties
<1>4. QED
  BY <1>1, <1>2, <1>3

-----------------------------------------------------------------------------
(* Ids are taken from those that are free                                   *)
(*                                                                          *)
(* A node that takes an id knows every node that runs, or is about to hear  *)
(* of it: who ran when its message arrived has answered, and who took an id *)
(* later has announced it.  Nobody runs when a node concludes that it is    *)
(* alone: of two nodes that both look for an id, the one with the higher    *)
(* random id is told so at least once in a second, and starts to count      *)
(* again; and who takes an id answers from then on.                         *)

Asks(n, m) == IdPacket("Discovery", node_id[n]) \in Between(n, m)

Answers(n, m) ==
  \E packet \in Between(n, m) :
    packet.type = "DiscoverResponse" /\ packet.source = node_id[n] /\ packet.to = node_id[m]

\* n knows m, or will before it takes an id.
Learns(n, m) == node_id[m] \in neighbor_node_ids[n] \/ Announces(m, n)

Blank ==
  \A n \in Node : comms_state[n] = "CommsNone" =>
    /\ packets_to_send[n] = <<>> /\ rx[n] = <<>>
    /\ messages_sent[n] = 0 /\ ack_wait[n] = "none"

IdRanges ==
  /\ \A n \in InDiscovery : node_id[n] \in DiscoveryId
  /\ \A n \in Running : node_id[n] \in 0..min_discovery_node_id - 1
  /\ \A n, m \in InDiscovery : n # m => node_id[n] # node_id[m]

\* A node that counts from the start sends its message at once.
FirstDue == \A n \in InDiscovery : messages_sent[n] = 0 => n \in due

OnlyRunningAnswer ==
  \A n \in Node :
    /\ ack_wait[n] # "none" => Running # {}
    /\ \A packet \in Packets(n) : packet.type = "DiscoverResponse" => Running # {}

\* The messages of a node, the one that it is to send now among them.
Count(n) == messages_sent[n] + IF n \in due THEN 1 ELSE 0

\* While nobody runs, a node has sent at most two messages since it heard of a
\* lower id, and at most one in the second in which it did.
LowerWins ==
  Running = {} =>
    \A n, m \in InDiscovery : node_id[n] < node_id[m] =>
      /\ \/ Count(m) <= 2
         \/ messages_sent[n] = 0
         \/ messages_sent[n] = 1 /\ n \notin due /\ Asks(n, m)
      /\ n \in due \/ Asks(n, m) \/ Count(m) <= 1

\* Once a node runs, every other one gets an answer before it counts too far.
NoneAlone ==
  Running # {} =>
    \A n \in InDiscovery : ack_wait[n] = "none" =>
      \/ messages_sent[n] <= max_discovery_messages
      \/ n \notin due /\ \E m \in Running : Asks(n, m) \/ Answers(m, n)

HearsAll ==
  \A n \in InDiscovery, m \in Running :
    \/ Learns(n, m)
    \/ ack_wait[n] # "over" /\ (messages_sent[n] = 0 \/ Asks(n, m) \/ Answers(m, n))

AllLearn == \A n, m \in Running : node_id[n] # node_id[m] => Learns(n, m)

\* A radio that does not listen yet has its first message before it.
BeforeListening ==
  \A n \in Node : radio_state[n] = "Opened" =>
    /\ comms_state[n] = "Discovery" /\ ack_wait[n] = "none"
    /\ \/ messages_sent[n] = 0
       \/ /\ messages_sent[n] = 1 /\ n \notin due
          /\ IdPacket("Discovery", node_id[n]) \in ToSet(packets_to_send[n])

DiscoveryInv ==
  /\ RadioTypes /\ QueueTypes(Packet)
  /\ Blank /\ IdRanges /\ FirstDue /\ OnlyRunningAnswer /\ BeforeListening

LearnInv == LowerWins /\ NoneAlone /\ HearsAll /\ AllLearn

\* Nothing gets lost between n and m.
Stays(n, m) ==
  \A packet \in Between(n, m) : HasAddress(m, packet.to) => packet \in Between(n, m)'

LEMMA StayingPackets ==
  ASSUME NEW n \in Node, NEW m \in Node, Stays(n, m), comms_state[m] # "CommsNone",
         radio_state[m] # "Opened", node_id'[n] = node_id[n], node_id'[m] = node_id[m]
  PROVE  /\ Asks(n, m) => Asks(n, m)'
         /\ Announces(n, m) => Announces(n, m)'
         /\ Answers(n, m) => Answers(n, m)'
<1>1. /\ IdPacket("Discovery", node_id[n]).to = Everyone
      /\ IdPacket("NodeIdAnnouncement", node_id[n]).to = Everyone
  BY DEF IdPacket
<1>2. Asks(n, m) => Asks(n, m)'
  BY <1>1 DEF Asks, Stays, HasAddress, IdPacket
<1>3. Announces(n, m) => Announces(n, m)'
  BY <1>1 DEF Announces, Stays, HasAddress, IdPacket
<1>4. Answers(n, m) => Answers(n, m)'
  BY DEF Answers, Stays, HasAddress
<1>5. QED
  BY <1>2, <1>3, <1>4

\* A step that only moves packets.
LEMMA MovesKeep ==
  ASSUME DiscoveryInv, LearnInv, UNCHANGED <<idVars, discoveryVars>>,
         \A n, m \in Node : n # m /\ comms_state[m] # "CommsNone" => Stays(n, m)
  PROVE  LearnInv'
<1> DEFINE Opened(n) == radio_state[n] = "Opened"
<1>1. InDiscovery' = InDiscovery /\ Running' = Running /\ \A n \in Node : Count(n)' = Count(n)
  BY DEF InDiscovery, Running, Count, idVars, discoveryVars
<1>2. ASSUME NEW n \in Node, NEW m \in Node, n # m, comms_state[m] # "CommsNone", ~Opened(m)
      PROVE  /\ Asks(n, m) => Asks(n, m)'
             /\ Announces(n, m) => Announces(n, m)'
             /\ Answers(n, m) => Answers(n, m)'
  BY <1>2, StayingPackets DEF idVars
<1>3. \A n \in InDiscovery : n \in Node /\ n \notin Running /\ comms_state[n] # "CommsNone"
  BY DEF InDiscovery, Running
<1>4. \A n \in Running : n \in Node /\ comms_state[n] # "CommsNone" /\ ~Opened(n)
  BY DEF Running, DiscoveryInv, BeforeListening
<1>5. \A n, m \in Node : n # m /\ comms_state[n] # "CommsNone" /\ ~Opened(n) /\ Learns(n, m)
                         => Learns(n, m)'
  BY <1>2 DEF Learns, idVars
<1>6. UNCHANGED <<node_id, messages_sent, due, ack_wait>>
  BY DEF idVars, discoveryVars
<1>7. ASSUME NEW n \in InDiscovery, Opened(n)
      PROVE  /\ ack_wait[n] # "over" /\ Count(n) <= 1
             /\ \/ messages_sent[n] = 0
                \/ messages_sent[n] = 1 /\ n \notin due /\ \A m \in Running : Asks(n, m)'
  <2>1. /\ ack_wait[n] = "none" /\ n \in Node
        /\ \/ messages_sent[n] = 0
           \/ /\ messages_sent[n] = 1 /\ n \notin due
              /\ IdPacket("Discovery", node_id[n]) \in ToSet(packets_to_send[n])
    BY <1>3, <1>7 DEF DiscoveryInv, BeforeListening
  <2>2. Count(n) <= 1
    BY <2>1 DEF Count
  <2>3. ASSUME IdPacket("Discovery", node_id[n]) \in ToSet(packets_to_send[n]), NEW m \in Running
        PROVE  Asks(n, m)'
    <3>1. Asks(n, m)
      BY <2>3 DEF Asks, Between
    <3>2. QED
      BY <1>2, <1>3, <1>4, <3>1
  <2>4. QED
    BY <2>1, <2>2, <2>3
<1>8. LowerWins'
  <2>1. SUFFICES ASSUME Running = {}, NEW n \in InDiscovery, NEW m \in InDiscovery,
                        node_id[n] < node_id[m]
                 PROVE  /\ \/ Count(m) <= 2
                           \/ messages_sent[n] = 0
                           \/ messages_sent[n] = 1 /\ n \notin due /\ Asks(n, m)'
                        /\ n \in due \/ Asks(n, m)' \/ Count(m) <= 1
    BY <1>1, <1>3, <1>6 DEF LowerWins
  <2>2. n # m
    BY <1>3, <2>1 DEF DiscoveryInv, RadioTypes, NodeId
  <2>3. CASE Opened(m)
    <3>1. Count(m) <= 1 /\ Count(m) \in Int
      BY <1>3, <1>7, <2>3 DEF Count, DiscoveryInv, RadioTypes
    <3>2. QED
      BY <3>1
  <2>4. CASE ~Opened(m)
    <3>1. Asks(n, m) => Asks(n, m)'
      BY <1>2, <1>3, <2>2, <2>4
    <3>2. QED
      BY <2>1, <3>1 DEF LearnInv, LowerWins
  <2>5. QED
    BY <2>3, <2>4
<1>9. NoneAlone'
  <2>1. SUFFICES ASSUME Running # {}, NEW n \in InDiscovery, ack_wait[n] = "none"
                 PROVE  \/ messages_sent[n] <= max_discovery_messages
                        \/ n \notin due /\ \E m \in Running : Asks(n, m)' \/ Answers(m, n)'
    BY <1>1, <1>6 DEF NoneAlone
  <2>2. CASE Opened(n)
    BY <1>7, <2>1, <2>2, MeshAssumption
  <2>3. CASE ~Opened(n)
    BY <1>2, <1>3, <1>4, <2>1, <2>3 DEF LearnInv, NoneAlone
  <2>4. QED
    BY <2>2, <2>3
<1>10. HearsAll'
  <2>1. SUFFICES ASSUME NEW n \in InDiscovery, NEW m \in Running
                 PROVE  \/ Learns(n, m)'
                        \/ ack_wait[n] # "over"
                           /\ (messages_sent[n] = 0 \/ Asks(n, m)' \/ Answers(m, n)')
    BY <1>1, <1>6 DEF HearsAll
  <2>2. CASE Opened(n)
    BY <1>7, <2>2
  <2>3. CASE ~Opened(n)
    BY <1>2, <1>3, <1>4, <1>5, <2>3 DEF LearnInv, HearsAll
  <2>4. QED
    BY <2>2, <2>3
<1>11. AllLearn'
  BY <1>1, <1>4, <1>5, <1>6 DEF LearnInv, AllLearn
<1>12. QED
  BY <1>8, <1>9, <1>10, <1>11 DEF LearnInv

LEMMA SendKeepsLearning ==
  ASSUME Faults = {}, DiscoveryInv, LearnInv, NEW x \in Node, Send(x)
  PROVE  LearnInv'
<1>1. UNCHANGED <<idVars, discoveryVars>>
  BY DEF Send
<1>2. ASSUME NEW n \in Node, NEW m \in Node, n # m PROVE Stays(n, m)
  BY <1>2, SendDelivers DEF DiscoveryInv, Stays, Between, May
<1>3. QED
  BY <1>1, <1>2, MovesKeep

LEMMA RespondElements ==
  ASSUME NEW Mail, IsMail(Mail), RadioTypes, QueueTypes(Mail), NEW n \in Node,
         NEW packet \in Packet, Respond(n, packet)
  PROVE  \E response \in Packet :
           /\ response.type = "DiscoverResponse"
           /\ response.to = packet.source /\ response.source = node_id[n]
           /\ response.neighbors \subseteq neighbor_node_ids[n]
           /\ response.num <= Cardinality(neighbor_node_ids[n])
           /\ ToSet(packets_to_send'[n]) = ToSet(packets_to_send[n]) \cup {response}
           /\ \A m \in Node \ {n} : packets_to_send'[m] = packets_to_send[m]
<1> DEFINE ids == neighbor_node_ids[n]
<1>1. PICK told \in SUBSET ids :
        Queue(n, [type |-> "DiscoverResponse", to |-> packet.source,
                  source |-> node_id[n], neighbors |-> told,
                  num |-> Cardinality(ids) % 256])
  BY DEF Respond
<1>2. ids \in SUBSET NodeId /\ node_id[n] \in NodeId /\ packet.source \in NodeId
  BY DEF RadioTypes, Packet
<1>3. Cardinality(ids) % 256 \in 0..255 /\ Cardinality(ids) % 256 <= Cardinality(ids)
  BY <1>2, IdsCount
<1> DEFINE response == [type |-> "DiscoverResponse", to |-> packet.source,
                        source |-> node_id[n], neighbors |-> told,
                        num |-> Cardinality(ids) % 256]
<1>4. response \in Packet
  BY <1>2, <1>3 DEF Packet
<1>5. /\ ToSet(packets_to_send'[n]) = ToSet(packets_to_send[n]) \cup {response}
      /\ \A m \in Node \ {n} : packets_to_send'[m] = packets_to_send[m]
  BY <1>1, <1>4, QueueElements DEF IsMail
<1>6. /\ response.type = "DiscoverResponse" /\ response.to = packet.source
      /\ response.source = node_id[n] /\ response.neighbors \subseteq ids
      /\ response.num <= Cardinality(ids)
  BY <1>3
<1> HIDE DEF response
<1>7. QED
  BY <1>4, <1>5, <1>6

\* Whatever is received, nothing but the packet itself leaves a queue.
LEMMA ReceiveStays ==
  ASSUME RadioTypes, QueueTypes(Packet), NEW x \in Node, Receive(x)
  PROVE  /\ Head(rx[x]) \in Packet /\ Head(rx[x]) \in Packets(x) /\ rx[x] # <<>>
         /\ UNCHANGED <<node_id, comms_state>>
         /\ \A n \in Node : ToSet(packets_to_send[n]) \subseteq ToSet(packets_to_send'[n])
         /\ \A n, m \in Node : \A packet \in Between(n, m) :
              packet \in Between(n, m)' \/ (m = x /\ packet = Head(rx[x]))
<1> DEFINE p == Head(rx[x])
<1>1. p \in Packet /\ ToSet(rx[x]) = ToSet(rx'[x]) \cup {p}
      /\ \A m \in Node \ {x} : rx'[m] = rx[m]
  BY ReceiveElements
<1>2. \A n \in Node : ToSet(packets_to_send[n]) \subseteq ToSet(packets_to_send'[n])
  <2>1. UNCHANGED packets_to_send \/ Respond(x, p)
    BY DEF Receive, HandleDiscoveryPacket, HandleDiscoveryAckPacket,
           HandleNodeIdAnnouncementPacket
  <2>2. QED
    BY <1>1, <2>1, OnlyPackets, RespondElements
<1>3. UNCHANGED <<node_id, comms_state>> /\ rx[x] # <<>>
  BY DEF Receive
<1>4. QED
  BY <1>1, <1>2, <1>3 DEF Between, Packets

LEMMA ReceivedPackets ==
  ASSUME DiscoveryInv, NEW x \in Node, Receive(x), NEW n \in Node, NEW m \in Node
  PROVE  LET p == Head(rx[x]) IN
         /\ Asks(n, m) => \/ Asks(n, m)'
                          \/ m = x /\ p.type = "Discovery" /\ p.source = node_id[n]
         /\ Announces(n, m) =>
              \/ Announces(n, m)'
              \/ m = x /\ p.type = "NodeIdAnnouncement" /\ p.source = node_id[n]
         /\ Answers(n, m) =>
              \/ Answers(n, m)'
              \/ m = x /\ p.type = "DiscoverResponse" /\ p.source = node_id[n]
<1> DEFINE p == Head(rx[x])
<1>1. /\ UNCHANGED <<node_id, comms_state>>
      /\ \A packet \in Between(n, m) : packet \in Between(n, m)' \/ (m = x /\ packet = p)
  BY ReceiveStays DEF DiscoveryInv
<1>2. /\ IdPacket("Discovery", node_id[n]).type = "Discovery"
      /\ IdPacket("Discovery", node_id[n]).source = node_id[n]
      /\ IdPacket("NodeIdAnnouncement", node_id[n]).type = "NodeIdAnnouncement"
      /\ IdPacket("NodeIdAnnouncement", node_id[n]).source = node_id[n]
  BY DEF IdPacket
<1> HIDE DEF p
<1>3. Asks(n, m) => \/ Asks(n, m)'
                    \/ m = x /\ p.type = "Discovery" /\ p.source = node_id[n]
  BY <1>1, <1>2 DEF Asks
<1>4. Announces(n, m) =>
        \/ Announces(n, m)'
        \/ m = x /\ p.type = "NodeIdAnnouncement" /\ p.source = node_id[n]
  BY <1>1, <1>2 DEF Announces
<1>5. Answers(n, m) =>
        \/ Answers(n, m)'
        \/ m = x /\ p.type = "DiscoverResponse" /\ p.source = node_id[n]
  BY <1>1 DEF Answers
<1>6. QED
  BY <1>3, <1>4, <1>5 DEF p

\* Who looks for an id does not run, and both are processes.
LEMMA Apart ==
  /\ \A n \in InDiscovery : n \in Node /\ n \notin Running /\ comms_state[n] = "Discovery"
  /\ \A n \in Running : n \in Node /\ comms_state[n] = "Running"
BY DEF InDiscovery, Running

LEMMA YieldKeepsLearning ==
  ASSUME DiscoveryInv, LearnInv, NEW x \in Node, Receive(x),
         HandleDiscoveryPacket(x, Head(rx[x])), comms_state[x] = "Discovery"
  PROVE  LearnInv'
<1> DEFINE p == Head(rx[x])
<1>1. /\ p.type = "Discovery" /\ Yield(x, p)
      /\ UNCHANGED <<packets_to_send, neighbor_node_ids, ack_wait>>
  BY DEF HandleDiscoveryPacket
<1>2. UNCHANGED <<node_id, comms_state>>
  BY DEF Receive
<1>3. InDiscovery' = InDiscovery /\ Running' = Running
  BY <1>2 DEF InDiscovery, Running
<1>4. ASSUME NEW n \in Node, NEW m \in Node
      PROVE  /\ Asks(n, m) => Asks(n, m)' \/ (m = x /\ p.source = node_id[n])
             /\ Announces(n, m) => Announces(n, m)'
             /\ Answers(n, m) => Answers(n, m)'
  BY <1>1, ReceivedPackets
<1>5. p \in Packet /\ messages_sent \in [Node -> 0..max_discovery_messages + 1]
      /\ due \subseteq Node /\ node_id \in [Node -> NodeId]
  BY ReceiveStays DEF DiscoveryInv, RadioTypes
<1>6. \/ UNCHANGED <<messages_sent, due>> /\ ~(p.source < node_id[x])
      \/ messages_sent' = [messages_sent EXCEPT ![x] = 0] /\ due' = due \cup {x}
  BY <1>1 DEF Yield
<1> HIDE DEF p
<1>7. /\ \A n \in Node \ {x} : messages_sent'[n] = messages_sent[n] /\ Count(n)' = Count(n)
                               /\ (n \in due' <=> n \in due)
      /\ \/ /\ messages_sent'[x] = messages_sent[x] /\ (x \in due' <=> x \in due)
            /\ Count(x)' = Count(x) /\ ~(p.source < node_id[x])
         \/ messages_sent'[x] = 0 /\ x \in due' /\ Count(x)' = 1
  BY <1>5, <1>6 DEF Count
<1>8. \A n, m \in Node : Learns(n, m) => Learns(n, m)'
  BY <1>1, <1>2, <1>4 DEF Learns
<1>9. LowerWins'
  <2>1. SUFFICES ASSUME Running = {}, NEW n \in InDiscovery, NEW m \in InDiscovery,
                        node_id[n] < node_id[m]
                 PROVE  /\ \/ Count(m)' <= 2
                           \/ messages_sent'[n] = 0
                           \/ messages_sent'[n] = 1 /\ n \notin due' /\ Asks(n, m)'
                        /\ n \in due' \/ Asks(n, m)' \/ Count(m)' <= 1
    BY <1>2, <1>3 DEF LowerWins
  <2>2. n \in Node /\ m \in Node /\ n # m
    BY <1>5, <2>1, Apart DEF NodeId
  <2>3. /\ \/ Count(m) <= 2
           \/ messages_sent[n] = 0
           \/ messages_sent[n] = 1 /\ n \notin due /\ Asks(n, m)
        /\ n \in due \/ Asks(n, m) \/ Count(m) <= 1
    BY <2>1 DEF LearnInv, LowerWins
  <2>4. CASE m = x
    BY <1>4, <1>7, <2>1, <2>2, <2>3, <2>4
  <2>5. CASE m # x
    BY <1>4, <1>7, <2>1, <2>2, <2>3, <2>5
  <2>6. QED
    BY <2>4, <2>5
<1>10. x \notin Running
  BY DEF Running
<1>11. \A n \in InDiscovery, m \in Running :
         (Asks(n, m) => Asks(n, m)') /\ (Answers(m, n) => Answers(m, n)')
  BY <1>4, <1>10, Apart
<1>12. NoneAlone'
  <2>1. SUFFICES ASSUME Running # {}, NEW n \in InDiscovery, ack_wait[n] = "none"
                 PROVE  \/ messages_sent'[n] <= max_discovery_messages
                        \/ n \notin due' /\ \E m \in Running : Asks(n, m)' \/ Answers(m, n)'
    BY <1>1, <1>3 DEF NoneAlone
  <2>2. \/ messages_sent[n] <= max_discovery_messages
        \/ n \notin due /\ \E m \in Running : Asks(n, m) \/ Answers(m, n)
    BY <2>1 DEF LearnInv, NoneAlone
  <2>3. n \in Node /\ 0 <= max_discovery_messages
    BY MeshAssumption, Apart
  <2>4. QED
    BY <1>7, <1>11, <2>2, <2>3
<1>13. HearsAll'
  <2>1. SUFFICES ASSUME NEW n \in InDiscovery, NEW m \in Running
                 PROVE  \/ Learns(n, m)'
                        \/ ack_wait[n] # "over"
                           /\ (messages_sent'[n] = 0 \/ Asks(n, m)' \/ Answers(m, n)')
    BY <1>1, <1>3 DEF HearsAll
  <2>2. n \in Node /\ m \in Node
    BY Apart
  <2>3. QED
    BY <1>7, <1>8, <1>11, <2>1, <2>2 DEF LearnInv, HearsAll
<1>14. AllLearn'
  BY <1>2, <1>3, <1>8, Apart DEF LearnInv, AllLearn
<1>15. QED
  BY <1>9, <1>12, <1>13, <1>14 DEF LearnInv

\* A packet that reaches a node outside the discovery.
LEMMA AnswerKeepsLearning ==
  ASSUME DiscoveryInv, LearnInv, NEW x \in Node, Receive(x),
         HandleDiscoveryPacket(x, Head(rx[x])), comms_state[x] # "Discovery"
  PROVE  LearnInv'
<1> DEFINE p == Head(rx[x])
<1>1. /\ p.type = "Discovery" /\ Respond(x, p)
      /\ UNCHANGED <<messages_sent, due, neighbor_node_ids, ack_wait>>
  BY DEF HandleDiscoveryPacket
<1>2. UNCHANGED <<node_id, comms_state>> /\ p \in Packet
  BY ReceiveStays DEF DiscoveryInv
<1>3. InDiscovery' = InDiscovery /\ Running' = Running
  BY <1>2 DEF InDiscovery, Running
<1>4. x \in Running
  <2>1. comms_state[x] # "CommsNone"
    BY ReceiveStays DEF DiscoveryInv, Blank
  <2>2. QED
    BY <2>1 DEF Running, DiscoveryInv, RadioTypes
<1>5. ASSUME NEW n \in Node, NEW m \in Node
      PROVE  /\ Asks(n, m) => Asks(n, m)' \/ (m = x /\ p.source = node_id[n])
             /\ Announces(n, m) => Announces(n, m)'
             /\ Answers(n, m) => Answers(n, m)'
  BY <1>1, ReceivedPackets
<1>6. PICK response \in Packet :
        /\ response.type = "DiscoverResponse"
        /\ response.to = p.source /\ response.source = node_id[x]
        /\ response \in ToSet(packets_to_send'[x])
  BY <1>1, <1>2, OnlyPackets, RespondElements DEF DiscoveryInv
<1> HIDE DEF p
<1>7. \A n \in Node : p.source = node_id[n] => Answers(x, n)'
  BY <1>2, <1>6 DEF Answers, Between
<1>8. \A n, m \in Node : Learns(n, m) => Learns(n, m)'
  BY <1>1, <1>2, <1>5 DEF Learns
<1>9. \A n, m \in Node : Asks(n, m) \/ Answers(m, n) => Asks(n, m)' \/ Answers(m, n)'
  BY <1>5, <1>7
<1>10. LowerWins'
  BY <1>3, <1>4 DEF LowerWins
<1>11. NoneAlone'
  BY <1>1, <1>3, <1>9, Apart DEF LearnInv, NoneAlone
<1>12. HearsAll'
  BY <1>1, <1>3, <1>8, <1>9, Apart DEF LearnInv, HearsAll
<1>13. AllLearn'
  BY <1>2, <1>3, <1>8, Apart DEF LearnInv, AllLearn
<1>14. QED
  BY <1>10, <1>11, <1>12, <1>13 DEF LearnInv

LEMMA ResponseKeepsLearning ==
  ASSUME DiscoveryInv, LearnInv, NEW x \in Node, Receive(x),
         HandleDiscoveryAckPacket(x, Head(rx[x]))
  PROVE  LearnInv'
<1> DEFINE p == Head(rx[x])
<1>1. /\ p.type = "DiscoverResponse" /\ ack_wait' = [ack_wait EXCEPT ![x] = AfterResponse(@)]
      /\ UNCHANGED <<messages_sent, due, packets_to_send>>
  BY DEF HandleDiscoveryAckPacket
<1>2. /\ \A n \in Node : neighbor_node_ids[n] \subseteq neighbor_node_ids'[n]
      /\ p.source \in neighbor_node_ids'[x]
  BY DEF HandleDiscoveryAckPacket, DiscoveryInv, RadioTypes
<1>3. UNCHANGED <<node_id, comms_state>> /\ p \in Packets(x)
  BY ReceiveStays DEF DiscoveryInv
<1>4. InDiscovery' = InDiscovery /\ Running' = Running
  BY <1>3 DEF InDiscovery, Running
<1>5. Running # {}
  BY <1>1, <1>3 DEF DiscoveryInv, OnlyRunningAnswer
<1>6. ASSUME NEW n \in Node, NEW m \in Node
      PROVE  /\ Asks(n, m) => Asks(n, m)'
             /\ Announces(n, m) => Announces(n, m)'
             /\ Answers(n, m) => Answers(n, m)' \/ (m = x /\ p.source = node_id[n])
  BY <1>1, ReceivedPackets
<1>7. /\ ack_wait'[x] # "none" /\ (ack_wait[x] # "over" => ack_wait'[x] # "over")
      /\ \A n \in Node \ {x} : ack_wait'[n] = ack_wait[n]
  BY <1>1 DEF AfterResponse, DiscoveryInv, RadioTypes
<1> HIDE DEF p
<1>8. \A n, m \in Node : Learns(n, m) => Learns(n, m)'
  BY <1>2, <1>3, <1>6 DEF Learns
<1>9. \A n, m \in Node : Answers(m, n) => Answers(m, n)' \/ (n = x /\ Learns(n, m)')
  BY <1>2, <1>3, <1>6 DEF Learns
<1>10. LowerWins'
  BY <1>4, <1>5 DEF LowerWins
<1>11. NoneAlone'
  BY <1>1, <1>4, <1>6, <1>7, <1>9, Apart DEF LearnInv, NoneAlone
<1>12. HearsAll'
  <2>1. SUFFICES ASSUME NEW n \in InDiscovery, NEW m \in Running
                 PROVE  \/ Learns(n, m)'
                        \/ ack_wait'[n] # "over"
                           /\ (messages_sent[n] = 0 \/ Asks(n, m)' \/ Answers(m, n)')
    BY <1>1, <1>4 DEF HearsAll
  <2>2. n \in Node /\ m \in Node
    BY Apart
  <2>3. \/ Learns(n, m)
        \/ ack_wait[n] # "over" /\ (messages_sent[n] = 0 \/ Asks(n, m) \/ Answers(m, n))
    BY <2>1 DEF LearnInv, HearsAll
  <2>4. QED
    BY <1>6, <1>7, <1>8, <1>9, <2>2, <2>3
<1>13. AllLearn'
  BY <1>3, <1>4, <1>8, Apart DEF LearnInv, AllLearn
<1>14. QED
  BY <1>10, <1>11, <1>12, <1>13 DEF LearnInv

LEMMA AnnouncementKeepsLearning ==
  ASSUME DiscoveryInv, LearnInv, NEW x \in Node, Receive(x),
         HandleNodeIdAnnouncementPacket(x, Head(rx[x]))
  PROVE  LearnInv'
<1> DEFINE p == Head(rx[x])
<1>1. /\ p.type = "NodeIdAnnouncement"
      /\ neighbor_node_ids' = [neighbor_node_ids EXCEPT ![x] = @ \cup Announced(x, p)]
      /\ UNCHANGED <<discoveryVars, packets_to_send>>
  BY DEF HandleNodeIdAnnouncementPacket
<1>2. UNCHANGED <<node_id, comms_state, messages_sent, due, ack_wait>>
  BY <1>1 DEF Receive, discoveryVars
<1>3. InDiscovery' = InDiscovery /\ Running' = Running /\ \A n \in Node : Count(n)' = Count(n)
  BY <1>2 DEF InDiscovery, Running, Count
<1>4. ASSUME NEW n \in Node, NEW m \in Node
      PROVE  /\ Asks(n, m) => Asks(n, m)'
             /\ Announces(n, m) => Announces(n, m)' \/ (m = x /\ p.source = node_id[n])
             /\ Answers(n, m) => Answers(n, m)'
  BY <1>1, ReceivedPackets
<1>5. /\ \A n \in Node : neighbor_node_ids[n] \subseteq neighbor_node_ids'[n]
      /\ p.source # node_id[x] => p.source \in neighbor_node_ids'[x]
  BY <1>1 DEF Announced, DiscoveryInv, RadioTypes
<1> HIDE DEF p
<1>6. ASSUME NEW n \in Node, NEW m \in Node, node_id[n] # node_id[m], Learns(n, m)
      PROVE  Learns(n, m)'
  BY <1>2, <1>4, <1>5, <1>6 DEF Learns
<1>7. \A n \in InDiscovery, m \in Running : node_id[n] # node_id[m]
  BY MeshAssumption DEF DiscoveryInv, IdRanges, DiscoveryId
<1>8. LowerWins'
  <2>1. SUFFICES ASSUME Running = {}, NEW n \in InDiscovery, NEW m \in InDiscovery,
                        node_id[n] < node_id[m]
                 PROVE  /\ \/ Count(m) <= 2
                           \/ messages_sent[n] = 0
                           \/ messages_sent[n] = 1 /\ n \notin due /\ Asks(n, m)'
                        /\ n \in due \/ Asks(n, m)' \/ Count(m) <= 1
    BY <1>2, <1>3, Apart DEF LowerWins
  <2>2. Asks(n, m) => Asks(n, m)'
    BY <1>4, Apart
  <2>3. QED
    BY <2>1, <2>2 DEF LearnInv, LowerWins
<1>9. NoneAlone'
  BY <1>2, <1>3, <1>4, Apart DEF LearnInv, NoneAlone
<1>10. HearsAll'
  BY <1>2, <1>3, <1>4, <1>6, <1>7, Apart DEF LearnInv, HearsAll
<1>11. AllLearn'
  BY <1>2, <1>3, <1>6, Apart DEF LearnInv, AllLearn
<1>12. QED
  BY <1>8, <1>9, <1>10, <1>11 DEF LearnInv

\* Packets of the discovery are on their way.
LEMMA MailOnItsWay ==
  ASSUME QueueTypes(Packet), NEW n \in Node, NEW m \in Node, NEW packet \in Between(n, m)
  PROVE  packet \in OnTheirWay
<1>1. packets_to_send[n] \in Seq(Packet) /\ rx[m] \in Seq(Packet)
  BY DEF QueueTypes
<1>2. packet \in Packet
  BY <1>1, ElementOfSeq, LenProperties DEF Between, ToSet
<1>3. ~CarriesData(packet)
  BY <1>2 DEF Packet, CarriesData
<1>4. packet \in Packets(n) \/ packet \in Packets(m)
  BY DEF Between, Packets
<1>5. QED
  BY <1>3, <1>4 DEF OnTheirWay

LEMMA TickKeepsLearning ==
  ASSUME Faults = {}, DiscoveryInv, LearnInv, Tick
  PROVE  LearnInv'
<1>1. /\ TimersDone /\ OnTheirWay = {} /\ due' = InDiscovery
      /\ ack_wait' = [n \in Node |-> IF ack_wait[n] = "waiting" THEN "over" ELSE ack_wait[n]]
      /\ UNCHANGED <<idVars, messages_sent, packets_to_send, rx>>
  BY DEF Tick, May
<1>2. UNCHANGED <<node_id, comms_state, neighbor_node_ids, messages_sent>>
  BY <1>1 DEF idVars
<1>3. InDiscovery' = InDiscovery /\ Running' = Running
  BY <1>2 DEF InDiscovery, Running
<1>4. \A n, m \in Node : ~Asks(n, m) /\ ~Announces(n, m) /\ ~Answers(n, m)
  <2>1. \A n, m \in Node : Between(n, m) = {}
    BY <1>1, MailOnItsWay DEF DiscoveryInv
  <2>2. QED
    BY <2>1 DEF Asks, Announces, Answers
<1>5. \A n \in InDiscovery : n \notin due /\ messages_sent[n] # 0
  BY <1>1 DEF TimersDone, DiscoveryInv, FirstDue
<1>6. \A n \in Node : messages_sent[n] \in Nat
  BY DEF DiscoveryInv, RadioTypes
<1>7. LowerWins'
  <2>1. SUFFICES ASSUME Running = {}, NEW n \in InDiscovery, NEW m \in InDiscovery,
                        node_id[n] < node_id[m]
                 PROVE  Count(m)' <= 2
    BY <1>1, <1>2, <1>3 DEF LowerWins
  <2>2. Count(m) <= 1
    BY <1>4, <1>5, <2>1, Apart DEF LearnInv, LowerWins
  <2>3. QED
    BY <1>1, <1>2, <1>5, <1>6, <2>2, Apart DEF Count
<1>8. NoneAlone'
  <2>1. SUFFICES ASSUME Running # {}, NEW n \in InDiscovery, ack_wait'[n] = "none"
                 PROVE  messages_sent[n] <= max_discovery_messages
    BY <1>2, <1>3 DEF NoneAlone
  <2>2. ack_wait[n] = "none"
    BY <1>1, <2>1, Apart
  <2>3. QED
    BY <1>4, <2>1, <2>2, Apart DEF LearnInv, NoneAlone
<1>9. \A n, m \in Node : Learns(n, m) => Learns(n, m)'
  BY <1>2, <1>4 DEF Learns
<1>10. HearsAll'
  BY <1>3, <1>4, <1>5, <1>9, Apart DEF LearnInv, HearsAll
<1>11. AllLearn'
  BY <1>2, <1>3, <1>9, Apart DEF LearnInv, AllLearn
<1>12. QED
  BY <1>7, <1>8, <1>10, <1>11 DEF LearnInv

\* A packet that joins a queue, and nothing else that moves.
LEMMA QueueStays ==
  ASSUME QueueTypes(Packet), NEW x \in Node, NEW packet \in Packet, Queue(x, packet), rx' = rx
  PROVE  /\ \A n, m \in Node : Between(n, m) \subseteq Between(n, m)'
         /\ \A m \in Node : packet \in Between(x, m)'
BY QueueElements DEF Between

\* What is between two nodes stays there while they keep their ids.
LEMMA BetweenKept ==
  ASSUME NEW n \in Node, NEW m \in Node, Between(n, m) \subseteq Between(n, m)',
         node_id'[n] = node_id[n]
  PROVE  /\ Asks(n, m) => Asks(n, m)'
         /\ Announces(n, m) => Announces(n, m)'
         /\ node_id'[m] = node_id[m] => (Answers(n, m) => Answers(n, m)')
BY DEF Asks, Announces, Answers

LEMMA SendDiscoveryKeepsLearning ==
  ASSUME DiscoveryInv, LearnInv, NEW x \in Node, SendDiscovery(x)
  PROVE  LearnInv'
<1>1. /\ x \in due /\ x \in InDiscovery /\ ~Alone(x)
      /\ Queue(x, IdPacket("Discovery", node_id[x]))
      /\ messages_sent' = [messages_sent EXCEPT
           ![x] = IF @ > max_discovery_messages THEN @ ELSE @ + 1]
      /\ due' = due \ {x} /\ UNCHANGED <<idVars, ack_wait, rx>>
  BY DEF SendDiscovery
<1>2. UNCHANGED <<node_id, comms_state, neighbor_node_ids>>
  BY <1>1 DEF idVars
<1>3. InDiscovery' = InDiscovery /\ Running' = Running
  BY <1>2 DEF InDiscovery, Running
<1>4. IdPacket("Discovery", node_id[x]) \in Packet
  BY IdPackets DEF DiscoveryInv, RadioTypes
<1>5. /\ \A n, m \in Node : Between(n, m) \subseteq Between(n, m)'
      /\ \A m \in Node : IdPacket("Discovery", node_id[x]) \in Between(x, m)'
  BY <1>1, <1>4, QueueStays DEF DiscoveryInv
<1>6. /\ \A n, m \in Node :
           /\ Asks(n, m) => Asks(n, m)'
           /\ Announces(n, m) => Announces(n, m)'
           /\ Answers(n, m) => Answers(n, m)'
      /\ \A m \in Node : Asks(x, m)'
  <2>1. \A m \in Node : Asks(x, m)'
    BY <1>2, <1>5 DEF Asks
  <2>2. QED
    BY <1>2, <1>5, <2>1, BetweenKept
<1>7. \A n, m \in Node : Learns(n, m) => Learns(n, m)'
  BY <1>2, <1>6 DEF Learns
<1>8. /\ x \notin due' /\ messages_sent \in [Node -> Nat]
      /\ messages_sent[x] = 0 => messages_sent'[x] = 1
      /\ \A n \in Node \ {x} : messages_sent'[n] = messages_sent[n] /\ Count(n)' = Count(n)
                               /\ (n \in due' <=> n \in due)
  BY <1>1, MeshAssumption DEF DiscoveryInv, RadioTypes, Count
<1>9. ack_wait[x] = "none" => Count(x)' = Count(x)
  <2>1. SUFFICES ASSUME ack_wait[x] = "none" PROVE Count(x)' = Count(x)
    OBVIOUS
  <2>2. ~(messages_sent[x] > max_discovery_messages)
    BY <1>1, <2>1 DEF Alone
  <2>3. messages_sent'[x] = messages_sent[x] + 1
    BY <1>1, <1>8, <2>2
  <2>4. QED
    BY <1>1, <1>8, <2>3 DEF Count
<1>10. LowerWins'
  <2>1. SUFFICES ASSUME Running = {}, NEW n \in InDiscovery, NEW m \in InDiscovery,
                        node_id[n] < node_id[m]
                 PROVE  /\ \/ Count(m)' <= 2
                           \/ messages_sent'[n] = 0
                           \/ messages_sent'[n] = 1 /\ n \notin due' /\ Asks(n, m)'
                        /\ n \in due' \/ Asks(n, m)' \/ Count(m)' <= 1
    BY <1>2, <1>3 DEF LowerWins
  <2>2. n \in Node /\ m \in Node
    BY Apart
  <2>3. /\ \/ Count(m) <= 2
           \/ messages_sent[n] = 0
           \/ messages_sent[n] = 1 /\ n \notin due /\ Asks(n, m)
        /\ n \in due \/ Asks(n, m) \/ Count(m) <= 1
    BY <2>1 DEF LearnInv, LowerWins
  <2>4. ack_wait[x] = "none"
    BY <2>1 DEF DiscoveryInv, OnlyRunningAnswer
  <2>5. Count(m)' = Count(m)
    BY <1>8, <1>9, <2>2, <2>4
  <2>6. CASE n = x
    BY <1>1, <1>6, <1>8, <2>2, <2>3, <2>5, <2>6
  <2>7. CASE n # x
    BY <1>6, <1>8, <2>2, <2>3, <2>5, <2>7
  <2>8. QED
    BY <2>6, <2>7
<1>11. NoneAlone'
  <2>1. SUFFICES ASSUME Running # {}, NEW n \in InDiscovery, ack_wait[n] = "none"
                 PROVE  \/ messages_sent'[n] <= max_discovery_messages
                        \/ n \notin due' /\ \E m \in Running : Asks(n, m)' \/ Answers(m, n)'
    BY <1>1, <1>3 DEF NoneAlone
  <2>2. CASE n = x
    BY <1>6, <1>8, <2>1, <2>2, Apart
  <2>3. CASE n # x
    BY <1>6, <1>8, <2>1, <2>3, Apart DEF LearnInv, NoneAlone
  <2>4. QED
    BY <2>2, <2>3
<1>12. HearsAll'
  <2>1. SUFFICES ASSUME NEW n \in InDiscovery, NEW m \in Running
                 PROVE  \/ Learns(n, m)'
                        \/ ack_wait[n] # "over"
                           /\ (messages_sent'[n] = 0 \/ Asks(n, m)' \/ Answers(m, n)')
    BY <1>1, <1>3 DEF HearsAll
  <2>2. n \in Node /\ m \in Node
    BY Apart
  <2>3. \/ Learns(n, m)
        \/ ack_wait[n] # "over" /\ (messages_sent[n] = 0 \/ Asks(n, m) \/ Answers(m, n))
    BY <2>1 DEF LearnInv, HearsAll
  <2>4. QED
    BY <1>6, <1>7, <1>8, <2>2, <2>3
<1>13. AllLearn'
  BY <1>2, <1>3, <1>7, Apart DEF LearnInv, AllLearn
<1>14. QED
  BY <1>10, <1>11, <1>12, <1>13 DEF LearnInv

\* A node that takes an id and knows all that run, or is about to hear of them.
LEMMA SettleKeepsLearning ==
  ASSUME DiscoveryInv, LearnInv, NEW x \in InDiscovery, NEW id \in NodeId, Settle(x, id),
         rx' = rx, UNCHANGED messages_sent,
         \A n \in InDiscovery \ {x} : ack_wait'[n] = ack_wait[n] /\ (n \in due' <=> n \in due),
         \A m \in Running : Learns(x, m),
         Running = {} => \A n \in InDiscovery \ {x} : messages_sent[n] <= max_discovery_messages
  PROVE  LearnInv'
<1>1. /\ node_id' = [node_id EXCEPT ![x] = id]
      /\ Queue(x, IdPacket("NodeIdAnnouncement", id))
      /\ comms_state' = [comms_state EXCEPT ![x] = "Running"]
      /\ UNCHANGED neighbor_node_ids
  BY DEF Settle
<1>2. x \in Node /\ x \notin Running
  BY Apart
<1>3. node_id \in [Node -> NodeId]
      /\ comms_state \in [Node -> {"CommsNone", "Discovery", "Running"}]
  BY DEF DiscoveryInv, RadioTypes
<1>4. /\ node_id'[x] = id /\ comms_state'[x] = "Running"
      /\ \A n \in Node \ {x} : node_id'[n] = node_id[n] /\ comms_state'[n] = comms_state[n]
  BY <1>1, <1>2, <1>3
<1>5. InDiscovery' = InDiscovery \ {x} /\ Running' = Running \cup {x}
  BY <1>2, <1>4 DEF InDiscovery, Running
<1>6. /\ \A n, m \in Node : Between(n, m) \subseteq Between(n, m)'
      /\ \A m \in Node : IdPacket("NodeIdAnnouncement", id) \in Between(x, m)'
  <2>1. IdPacket("NodeIdAnnouncement", id) \in Packet
    BY IdPackets
  <2>2. QED
    BY <1>1, <1>2, <2>1, QueueStays DEF DiscoveryInv
<1>7. \A n \in Node \ {x}, m \in Node :
        /\ Asks(n, m) => Asks(n, m)'
        /\ Announces(n, m) => Announces(n, m)'
        /\ m # x /\ Answers(n, m) => Answers(n, m)'
  BY <1>4, <1>6, BetweenKept
<1>8. \A n \in Node : Learns(n, x)'
  BY <1>4, <1>6 DEF Learns, Announces
<1>9. \A n \in Node, m \in Node \ {x} : Learns(n, m) => Learns(n, m)'
  BY <1>1, <1>4, <1>7 DEF Learns
<1>10. \A m \in Running : Learns(x, m)'
  BY <1>2, <1>9, Apart
<1>11. LowerWins'
  BY <1>5 DEF LowerWins
<1>12. NoneAlone'
  <2>1. SUFFICES ASSUME NEW n \in InDiscovery \ {x}, ack_wait[n] = "none"
                 PROVE  \/ messages_sent[n] <= max_discovery_messages
                        \/ n \notin due' /\ \E m \in Running : Asks(n, m)' \/ Answers(m, n)'
    BY <1>5 DEF NoneAlone
  <2>2. CASE Running = {}
    BY <2>1, <2>2
  <2>3. CASE Running # {}
    BY <1>2, <1>7, <2>1, <2>3, Apart DEF LearnInv, NoneAlone
  <2>4. QED
    BY <2>2, <2>3
<1>13. HearsAll'
  <2>1. SUFFICES ASSUME NEW n \in InDiscovery \ {x}, NEW m \in Running
                 PROVE  \/ Learns(n, m)'
                        \/ ack_wait[n] # "over"
                           /\ (messages_sent[n] = 0 \/ Asks(n, m)' \/ Answers(m, n)')
    BY <1>5, <1>8, Apart DEF HearsAll
  <2>2. n \in Node \ {x} /\ m \in Node \ {x}
    BY <1>2, <2>1, Apart
  <2>3. \/ Learns(n, m)
        \/ ack_wait[n] # "over" /\ (messages_sent[n] = 0 \/ Asks(n, m) \/ Answers(m, n))
    BY <2>1 DEF LearnInv, HearsAll
  <2>4. QED
    BY <1>7, <1>9, <2>2, <2>3
<1>14. AllLearn'
  <2>1. SUFFICES ASSUME NEW n \in Running \cup {x}, NEW m \in Running \cup {x},
                        node_id'[n] # node_id'[m]
                 PROVE  Learns(n, m)'
    BY <1>5 DEF AllLearn
  <2>2. CASE m = x
    BY <1>2, <1>8, <2>2, Apart
  <2>3. CASE m # x /\ n = x
    BY <1>10, <2>3
  <2>4. CASE m # x /\ n # x
    BY <1>4, <1>9, <2>1, <2>4, Apart DEF LearnInv, AllLearn
  <2>5. QED
    BY <2>2, <2>3, <2>4
<1>15. QED
  BY <1>11, <1>12, <1>13, <1>14 DEF LearnInv

LEMMA SettleAloneKeepsLearning ==
  ASSUME max_discovery_messages >= 2, DiscoveryInv, LearnInv, NEW x \in Node, SettleAlone(x)
  PROVE  LearnInv' /\ Running = {}
<1>1. /\ x \in due /\ x \in InDiscovery /\ Settle(x, 0) /\ due' = due \ {x}
      /\ messages_sent[x] > max_discovery_messages /\ ack_wait[x] = "none"
      /\ UNCHANGED <<messages_sent, ack_wait, rx>>
  BY DEF SettleAlone, Alone
<1>2. \A n \in Node : messages_sent[n] \in Nat
  BY DEF DiscoveryInv, RadioTypes
<1>3. Running = {}
  <2>1. ~(messages_sent[x] <= max_discovery_messages)
    BY <1>1, <1>2, MeshAssumption
  <2>2. QED
    BY <1>1, <2>1 DEF LearnInv, NoneAlone
<1>4. ASSUME NEW n \in InDiscovery, n # x PROVE messages_sent[n] <= max_discovery_messages
  <2>1. node_id[n] # node_id[x] /\ node_id[n] \in Nat /\ node_id[x] \in Nat
    BY <1>1, <1>4, MeshAssumption, Apart DEF DiscoveryInv, IdRanges, RadioTypes, NodeId
  <2>2. CASE node_id[n] < node_id[x]
    <3>1. \/ Count(x) <= 2
          \/ messages_sent[n] = 0
          \/ messages_sent[n] = 1 /\ n \notin due /\ Asks(n, x)
      BY <1>1, <1>3, <2>2 DEF LearnInv, LowerWins
    <3>2. ~(Count(x) <= 2)
      BY <1>1, <1>2, MeshAssumption DEF Count
    <3>3. QED
      BY <3>1, <3>2, MeshAssumption
  <2>3. CASE node_id[x] < node_id[n]
    <3>1. \/ Count(n) <= 2
          \/ messages_sent[x] = 0
          \/ messages_sent[x] = 1 /\ x \notin due /\ Asks(x, n)
      BY <1>1, <1>3, <2>3 DEF LearnInv, LowerWins
    <3>2. Count(n) <= 2
      BY <1>1, <1>2, <3>1, MeshAssumption
    <3>3. n \in Node
      BY Apart
    <3>4. messages_sent[n] <= 2
      BY <1>2, <3>2, <3>3 DEF Count
    <3>5. QED
      BY <1>2, <3>3, <3>4, MeshAssumption
  <2>4. QED
    BY <2>1, <2>2, <2>3
<1>5. 0 \in NodeId
  BY MeshAssumption DEF NodeId
<1>6. QED
  BY <1>1, <1>3, <1>4, <1>5, SettleKeepsLearning

\* A node whose wait is over knows all that run, or is about to hear of them, and
\* shares the id that it takes with none but those.
LEMMA OverLearns ==
  ASSUME DiscoveryInv, LearnInv, NEW x \in Node, SettleAmongNeighbors(x), NEW m \in Running
  PROVE  Learns(x, m) /\ (node_id'[x] = node_id[m] => Announces(m, x))
<1>1. x \in InDiscovery /\ ack_wait[x] = "over"
  BY DEF SettleAmongNeighbors
<1>2. Learns(x, m)
  BY <1>1 DEF LearnInv, HearsAll
<1>3. node_id'[x] \in FreeIds(x)
  <2>1. PICK id : /\ id = CHOOSE i \in FreeIds(x) : \A other \in FreeIds(x) : i <= other
                  /\ node_id' = [node_id EXCEPT ![x] = id]
    BY DEF SettleAmongNeighbors, Settle
  <2>2. id \in FreeIds(x)
    BY <2>1, FreeIdTaken DEF SettleAmongNeighbors
  <2>3. QED
    BY <2>1, <2>2 DEF DiscoveryInv, RadioTypes
<1>4. QED
  BY <1>2, <1>3 DEF Learns, FreeIds

LEMMA SettleAmongKeepsLearning ==
  ASSUME DiscoveryInv, LearnInv, NEW x \in Node, SettleAmongNeighbors(x)
  PROVE  LearnInv'
<1>1. PICK id : /\ id = CHOOSE i \in FreeIds(x) : \A other \in FreeIds(x) : i <= other
                /\ Settle(x, id)
  BY DEF SettleAmongNeighbors
<1>2. /\ x \in InDiscovery /\ ack_wait[x] = "over" /\ FreeIds(x) # {}
      /\ ack_wait' = [ack_wait EXCEPT ![x] = "none"]
      /\ UNCHANGED <<messages_sent, due, rx>>
  BY DEF SettleAmongNeighbors
<1>3. id \in FreeIds(x) /\ id \in NodeId
  BY <1>1, <1>2, FreeIdTaken
<1>4. \A m \in Running : Learns(x, m)
  BY OverLearns
<1>5. Running # {}
  BY <1>2 DEF DiscoveryInv, OnlyRunningAnswer
<1>6. \A n \in InDiscovery \ {x} : ack_wait'[n] = ack_wait[n]
  BY <1>2, Apart DEF DiscoveryInv, RadioTypes
<1>7. QED
  BY <1>1, <1>2, <1>3, <1>4, <1>5, <1>6, SettleKeepsLearning

\* A node that starts or ends: all others keep what they are and have.
LEMMA OthersKeep ==
  ASSUME DiscoveryInv, NEW x \in Node,
         \A n \in Node \ {x} :
           /\ node_id'[n] = node_id[n] /\ comms_state'[n] = comms_state[n]
           /\ neighbor_node_ids'[n] = neighbor_node_ids[n]
           /\ messages_sent'[n] = messages_sent[n] /\ ack_wait'[n] = ack_wait[n]
           /\ (n \in due' <=> n \in due)
           /\ packets_to_send'[n] = packets_to_send[n] /\ rx'[n] = rx[n]
  PROVE  \A n, m \in Node \ {x} :
           /\ Asks(n, m)' <=> Asks(n, m)
           /\ Answers(n, m)' <=> Answers(n, m)
           /\ Learns(n, m)' <=> Learns(n, m)
           /\ Count(n)' = Count(n)
<1>1. \A n, m \in Node \ {x} : Between(n, m)' = Between(n, m)
  BY DEF Between
<1>2. \A n, m \in Node \ {x} :
        /\ Asks(n, m)' <=> Asks(n, m)
        /\ Announces(n, m)' <=> Announces(n, m)
        /\ Answers(n, m)' <=> Answers(n, m)
  BY <1>1 DEF Asks, Announces, Answers
<1>3. QED
  BY <1>2 DEF Learns, Count

LEMMA AbortKeepsLearning ==
  ASSUME DiscoveryInv, LearnInv, NEW x \in Node, Abort(x)
  PROVE  LearnInv'
<1>1. x \in InDiscovery /\ ack_wait[x] = "over" /\ Exit(x)
  BY DEF Abort
<1>2. Running # {}
  BY <1>1 DEF DiscoveryInv, OnlyRunningAnswer
<1>3. \A n \in Node \ {x} :
        /\ node_id'[n] = node_id[n] /\ comms_state'[n] = comms_state[n]
        /\ neighbor_node_ids'[n] = neighbor_node_ids[n]
        /\ messages_sent'[n] = messages_sent[n] /\ ack_wait'[n] = ack_wait[n]
        /\ (n \in due' <=> n \in due)
        /\ packets_to_send'[n] = packets_to_send[n] /\ rx'[n] = rx[n]
  BY <1>1 DEF Exit, DiscoveryInv, RadioTypes, QueueTypes
<1>4. \A n, m \in Node \ {x} :
        /\ Asks(n, m)' <=> Asks(n, m)
        /\ Answers(n, m)' <=> Answers(n, m)
        /\ Learns(n, m)' <=> Learns(n, m)
  BY <1>3, OthersKeep
<1>5. InDiscovery' = InDiscovery \ {x} /\ Running' = Running /\ x \notin Running
  <2>1. comms_state'[x] = "CommsNone" /\ comms_state[x] = "Discovery"
    BY <1>1, Apart DEF Exit, DiscoveryInv, RadioTypes
  <2>2. QED
    BY <1>3, <2>1 DEF InDiscovery, Running
<1>6. LowerWins'
  BY <1>2, <1>5 DEF LowerWins
<1>7. NoneAlone'
  BY <1>3, <1>4, <1>5, Apart DEF LearnInv, NoneAlone
<1>8. HearsAll'
  BY <1>3, <1>4, <1>5, Apart DEF LearnInv, HearsAll
<1>9. AllLearn'
  BY <1>3, <1>4, <1>5, Apart DEF LearnInv, AllLearn
<1>10. QED
  BY <1>6, <1>7, <1>8, <1>9 DEF LearnInv

LEMMA StartKeepsLearning ==
  ASSUME DiscoveryInv, LearnInv, NEW x \in Node, Start(x)
  PROVE  LearnInv'
<1>1. PICK id \in DiscoveryId : node_id' = [node_id EXCEPT ![x] = id]
  BY DEF Start
<1>2. /\ comms_state[x] = "CommsNone" /\ due' = due \cup {x}
      /\ comms_state' = [comms_state EXCEPT ![x] = "Discovery"]
      /\ UNCHANGED <<neighbor_node_ids, messages_sent, ack_wait, packets_to_send, rx>>
  BY DEF Start
<1>3. \A n \in Node \ {x} :
        /\ node_id'[n] = node_id[n] /\ comms_state'[n] = comms_state[n]
        /\ neighbor_node_ids'[n] = neighbor_node_ids[n]
        /\ messages_sent'[n] = messages_sent[n] /\ ack_wait'[n] = ack_wait[n]
        /\ (n \in due' <=> n \in due)
        /\ packets_to_send'[n] = packets_to_send[n] /\ rx'[n] = rx[n]
  BY <1>1, <1>2 DEF DiscoveryInv, RadioTypes
<1>4. \A n, m \in Node \ {x} :
        /\ Asks(n, m)' <=> Asks(n, m)
        /\ Answers(n, m)' <=> Answers(n, m)
        /\ Learns(n, m)' <=> Learns(n, m)
        /\ Count(n)' = Count(n)
  BY <1>3, OthersKeep
<1>5. InDiscovery' = InDiscovery \cup {x} /\ Running' = Running
      /\ x \notin Running /\ x \notin InDiscovery
  <2>1. comms_state'[x] = "Discovery"
    BY <1>2 DEF DiscoveryInv, RadioTypes
  <2>2. QED
    BY <1>2, <1>3, <2>1 DEF InDiscovery, Running
<1>6. messages_sent'[x] = 0 /\ ack_wait'[x] = "none" /\ x \in due' /\ Count(x)' = 1
  BY <1>2 DEF DiscoveryInv, Blank, Count
<1>7. LowerWins'
  <2>1. SUFFICES ASSUME Running = {}, NEW n \in InDiscovery \cup {x}, NEW m \in InDiscovery \cup {x},
                        node_id'[n] < node_id'[m]
                 PROVE  /\ \/ Count(m)' <= 2
                           \/ messages_sent'[n] = 0
                           \/ messages_sent'[n] = 1 /\ n \notin due' /\ Asks(n, m)'
                        /\ n \in due' \/ Asks(n, m)' \/ Count(m)' <= 1
    BY <1>5 DEF LowerWins
  <2>2. CASE n = x \/ m = x
    BY <1>6, <2>2
  <2>3. CASE n # x /\ m # x
    BY <1>3, <1>4, <2>1, <2>3, Apart DEF LearnInv, LowerWins
  <2>4. QED
    BY <2>2, <2>3
<1>8. NoneAlone'
  <2>1. messages_sent'[x] <= max_discovery_messages
    BY <1>6, MeshAssumption
  <2>2. QED
    BY <1>3, <1>4, <1>5, <2>1, Apart DEF LearnInv, NoneAlone
<1>9. HearsAll'
  BY <1>3, <1>4, <1>5, <1>6, Apart DEF LearnInv, HearsAll
<1>10. AllLearn'
  BY <1>3, <1>4, <1>5, Apart DEF LearnInv, AllLearn
<1>11. QED
  BY <1>7, <1>8, <1>9, <1>10 DEF LearnInv

\* What DiscoveryInv says beside types.
Shape == Blank /\ IdRanges /\ FirstDue /\ OnlyRunningAnswer

\* A step that changes the state of no process.
LEMMA ShapeKept ==
  ASSUME DiscoveryInv, UNCHANGED <<node_id, comms_state>>,
         \A n \in Node : comms_state[n] = "CommsNone" =>
           /\ packets_to_send'[n] = packets_to_send[n] /\ rx'[n] = rx[n]
           /\ messages_sent'[n] = messages_sent[n] /\ ack_wait'[n] = ack_wait[n],
         FirstDue',
         \A n \in Node : ack_wait'[n] # "none" => ack_wait[n] # "none" \/ Running # {},
         \A n \in Node : \A packet \in Packets(n)' : packet.type = "DiscoverResponse" =>
           (\E m \in Node : packet \in Packets(m)) \/ Running # {}
  PROVE  Shape'
<1>1. InDiscovery' = InDiscovery /\ Running' = Running
  BY DEF InDiscovery, Running
<1>2. Blank'
  BY DEF DiscoveryInv, Blank
<1>3. IdRanges'
  BY <1>1 DEF DiscoveryInv, IdRanges
<1>4. OnlyRunningAnswer'
  BY <1>1 DEF DiscoveryInv, OnlyRunningAnswer
<1>5. QED
  BY <1>2, <1>3, <1>4 DEF Shape

LEMMA FirstDueKept ==
  ASSUME DiscoveryInv, UNCHANGED <<comms_state, messages_sent, due>>
  PROVE  FirstDue'
BY DEF DiscoveryInv, FirstDue, InDiscovery

LEMMA SendShape ==
  ASSUME Faults = {}, DiscoveryInv, NEW x \in Node, Send(x)
  PROVE  Shape'
<1>1. UNCHANGED <<node_id, comms_state, messages_sent, due, ack_wait>>
      /\ packets_to_send[x] # <<>>
  BY DEF Send, idVars, discoveryVars
<1>2. comms_state[x] # "CommsNone"
  BY <1>1 DEF DiscoveryInv, Blank
<1>3. \A m \in Node : rx'[m] = rx[m] \/ comms_state[m] # "CommsNone"
  <2>1. PICK k \in 1..Len(packets_to_send[x]) :
          \A m \in Node : \/ rx'[m] = rx[m]
                          \/ HasAddress(m, SubSeq(packets_to_send[x], 1, k)[1].to)
    BY SendMoves, Zenon DEF DiscoveryInv
  <2>2. QED
    BY <2>1 DEF HasAddress
<1>4. \A n \in Node : \A packet \in Packets(n)' : \E m \in Node : packet \in Packets(m)
  BY SendDelivers DEF DiscoveryInv, Packets
<1>5. \A n \in Node : comms_state[n] = "CommsNone" =>
        packets_to_send'[n] = packets_to_send[n] /\ rx'[n] = rx[n]
  BY <1>2, <1>3, SendDelivers DEF DiscoveryInv, May
<1>6. FirstDue'
  BY <1>1, FirstDueKept
<1>7. QED
  BY <1>1, <1>4, <1>5, <1>6, ShapeKept

LEMMA ReceiveShape ==
  ASSUME DiscoveryInv, NEW x \in Node, Receive(x)
  PROVE  Shape'
<1> DEFINE p == Head(rx[x])
<1>1. /\ p \in Packet /\ p \in Packets(x) /\ rx[x] # <<>>
      /\ UNCHANGED <<node_id, comms_state>>
  BY ReceiveStays DEF DiscoveryInv
<1>2. comms_state[x] # "CommsNone"
  BY <1>1 DEF DiscoveryInv, Blank
<1>3. /\ ToSet(rx'[x]) \subseteq ToSet(rx[x])
      /\ \A m \in Node \ {x} : rx'[m] = rx[m]
  BY ReceiveElements DEF DiscoveryInv
<1>4. \/ /\ p.type = "Discovery" /\ UNCHANGED ack_wait
         /\ \/ comms_state[x] = "Discovery" /\ Yield(x, p) /\ UNCHANGED packets_to_send
            \/ /\ comms_state[x] # "Discovery" /\ Respond(x, p)
               /\ UNCHANGED <<messages_sent, due>>
      \/ /\ p.type = "DiscoverResponse" /\ ack_wait' = [ack_wait EXCEPT ![x] = AfterResponse(@)]
         /\ UNCHANGED <<messages_sent, due, packets_to_send>>
      \/ UNCHANGED <<messages_sent, due, ack_wait, packets_to_send>>
  BY DEF Receive, HandleDiscoveryPacket, HandleDiscoveryAckPacket,
         HandleNodeIdAnnouncementPacket, discoveryVars
<1> HIDE DEF p
<1>5. \/ UNCHANGED <<messages_sent, due>>
      \/ messages_sent' = [messages_sent EXCEPT ![x] = 0] /\ due' = due \cup {x}
  BY <1>4 DEF Yield
<1>6. FirstDue'
  BY <1>1, <1>5, Apart DEF DiscoveryInv, FirstDue, RadioTypes, InDiscovery
<1>7. \/ UNCHANGED packets_to_send
      \/ /\ Running # {}
         /\ \A m \in Node \ {x} : packets_to_send'[m] = packets_to_send[m]
  <2>1. ASSUME comms_state[x] # "Discovery", Respond(x, p)
        PROVE  /\ Running # {}
               /\ \A m \in Node \ {x} : packets_to_send'[m] = packets_to_send[m]
    <3>1. x \in Running
      BY <1>2, <2>1 DEF Running, DiscoveryInv, RadioTypes
    <3>2. QED
      BY <1>1, <2>1, <3>1, OnlyPackets, RespondElements DEF DiscoveryInv
  <2>2. QED
    BY <1>4, <2>1
<1>8. \A n \in Node : ack_wait'[n] # "none" => ack_wait[n] # "none" \/ Running # {}
  <2>1. p.type = "DiscoverResponse" => Running # {}
    BY <1>1 DEF DiscoveryInv, OnlyRunningAnswer
  <2>2. QED
    BY <1>4, <2>1
<1>9. \A n \in Node \ {x} : messages_sent'[n] = messages_sent[n] /\ ack_wait'[n] = ack_wait[n]
  BY <1>4, <1>5 DEF DiscoveryInv, RadioTypes
<1>10. \A n \in Node : comms_state[n] = "CommsNone" =>
         /\ packets_to_send'[n] = packets_to_send[n] /\ rx'[n] = rx[n]
         /\ messages_sent'[n] = messages_sent[n] /\ ack_wait'[n] = ack_wait[n]
  BY <1>2, <1>3, <1>7, <1>9
<1>11. \A n \in Node : \A packet \in Packets(n)' : packet.type = "DiscoverResponse" =>
         (\E m \in Node : packet \in Packets(m)) \/ Running # {}
  BY <1>3, <1>7 DEF Packets
<1>12. QED
  BY <1>1, <1>6, <1>8, <1>10, <1>11, ShapeKept

LEMMA TickShape ==
  ASSUME DiscoveryInv, Tick
  PROVE  Shape'
<1>1. /\ due' = InDiscovery
      /\ ack_wait' = [n \in Node |-> IF ack_wait[n] = "waiting" THEN "over" ELSE ack_wait[n]]
      /\ UNCHANGED <<node_id, comms_state, messages_sent, packets_to_send, rx>>
  BY DEF Tick, idVars
<1>2. FirstDue'
  BY <1>1 DEF FirstDue, InDiscovery
<1>3. \A n \in Node : comms_state[n] = "CommsNone" => ack_wait'[n] = ack_wait[n]
  BY <1>1 DEF DiscoveryInv, Blank
<1>4. \A n \in Node : ack_wait'[n] # "none" => ack_wait[n] # "none"
  BY <1>1
<1>5. QED
  BY <1>1, <1>2, <1>3, <1>4, ShapeKept DEF Packets

LEMMA SendDiscoveryShape ==
  ASSUME DiscoveryInv, NEW x \in Node, SendDiscovery(x)
  PROVE  Shape'
<1>1. /\ x \in InDiscovery /\ Queue(x, IdPacket("Discovery", node_id[x]))
      /\ messages_sent' = [messages_sent EXCEPT
           ![x] = IF @ > max_discovery_messages THEN @ ELSE @ + 1]
      /\ due' = due \ {x}
      /\ UNCHANGED <<node_id, comms_state, ack_wait, rx>>
  BY DEF SendDiscovery, idVars
<1>2. IdPacket("Discovery", node_id[x]) \in Packet
      /\ IdPacket("Discovery", node_id[x]).type = "Discovery"
  BY IdPackets DEF DiscoveryInv, RadioTypes, IdPacket
<1>3. /\ ToSet(packets_to_send'[x]) =
           ToSet(packets_to_send[x]) \cup {IdPacket("Discovery", node_id[x])}
      /\ \A m \in Node \ {x} : packets_to_send'[m] = packets_to_send[m]
  BY <1>1, <1>2, QueueElements DEF DiscoveryInv
<1>4. /\ messages_sent'[x] # 0 /\ \A n \in Node \ {x} : messages_sent'[n] = messages_sent[n]
  BY <1>1, MeshAssumption DEF DiscoveryInv, RadioTypes
<1>5. FirstDue'
  BY <1>1, <1>4, Apart DEF DiscoveryInv, FirstDue, InDiscovery
<1>6. \A n \in Node : comms_state[n] = "CommsNone" =>
        packets_to_send'[n] = packets_to_send[n] /\ messages_sent'[n] = messages_sent[n]
  BY <1>1, <1>3, <1>4, Apart
<1>7. \A n \in Node : \A packet \in Packets(n)' : packet.type = "DiscoverResponse" =>
        \E m \in Node : packet \in Packets(m)
  BY <1>1, <1>2, <1>3 DEF Packets
<1>8. QED
  BY <1>1, <1>5, <1>6, <1>7, ShapeKept

LEMMA SettleShape ==
  ASSUME DiscoveryInv, NEW x \in InDiscovery, NEW id \in 0..min_discovery_node_id - 1, Settle(x, id),
         rx' = rx, UNCHANGED messages_sent, due \ {x} \subseteq due',
         \A n \in Node \ {x} : ack_wait'[n] = ack_wait[n]
  PROVE  Shape'
<1>1. /\ node_id' = [node_id EXCEPT ![x] = id]
      /\ Queue(x, IdPacket("NodeIdAnnouncement", id))
      /\ comms_state' = [comms_state EXCEPT ![x] = "Running"]
  BY DEF Settle
<1>2. x \in Node
  BY Apart
<1>3. id \in NodeId
  BY MeshAssumption DEF NodeId
<1>4. /\ node_id'[x] = id /\ comms_state'[x] = "Running"
      /\ \A n \in Node \ {x} : node_id'[n] = node_id[n] /\ comms_state'[n] = comms_state[n]
  BY <1>1, <1>2 DEF DiscoveryInv, RadioTypes
<1>5. InDiscovery' = InDiscovery \ {x} /\ Running' = Running \cup {x}
  BY <1>2, <1>4 DEF InDiscovery, Running
<1>6. \A m \in Node \ {x} : packets_to_send'[m] = packets_to_send[m]
  BY <1>1, <1>2, <1>3, IdPackets, QueueElements DEF DiscoveryInv
<1>7. Blank'
  BY <1>4, <1>6 DEF DiscoveryInv, Blank
<1>8. IdRanges'
  BY <1>4, <1>5, Apart DEF DiscoveryInv, IdRanges
<1>9. FirstDue'
  BY <1>5 DEF DiscoveryInv, FirstDue
<1>10. OnlyRunningAnswer'
  BY <1>5 DEF OnlyRunningAnswer
<1>11. QED
  BY <1>7, <1>8, <1>9, <1>10 DEF Shape

LEMMA AbortShape ==
  ASSUME DiscoveryInv, NEW x \in Node, Abort(x)
  PROVE  Shape'
<1>1. x \in InDiscovery /\ Exit(x)
  BY DEF Abort
<1>2. /\ comms_state'[x] = "CommsNone" /\ messages_sent'[x] = 0 /\ ack_wait'[x] = "none"
      /\ packets_to_send'[x] = <<>> /\ rx'[x] = <<>>
      /\ \A n \in Node \ {x} :
           /\ node_id'[n] = node_id[n] /\ comms_state'[n] = comms_state[n]
           /\ messages_sent'[n] = messages_sent[n] /\ ack_wait'[n] = ack_wait[n]
           /\ (n \in due' <=> n \in due)
           /\ packets_to_send'[n] = packets_to_send[n] /\ rx'[n] = rx[n]
  BY <1>1 DEF Exit, DiscoveryInv, RadioTypes, QueueTypes
<1>3. InDiscovery' = InDiscovery \ {x} /\ Running' = Running /\ x \notin Running
  BY <1>1, <1>2, Apart DEF InDiscovery, Running
<1>4. Blank'
  BY <1>2 DEF DiscoveryInv, Blank
<1>5. IdRanges'
  BY <1>2, <1>3, Apart DEF DiscoveryInv, IdRanges
<1>6. FirstDue'
  BY <1>2, <1>3, Apart DEF DiscoveryInv, FirstDue
<1>7. Packets(x)' = {} /\ \A n \in Node \ {x} : Packets(n)' = Packets(n)
  BY <1>2 DEF Packets, ToSet
<1>8. OnlyRunningAnswer'
  BY <1>2, <1>3, <1>7 DEF DiscoveryInv, OnlyRunningAnswer
<1>9. QED
  BY <1>4, <1>5, <1>6, <1>8 DEF Shape

LEMMA StartShape ==
  ASSUME Faults = {}, DiscoveryInv, NEW x \in Node, Start(x)
  PROVE  Shape'
<1>1. PICK id \in DiscoveryId :
        /\ \A m \in Node : comms_state[m] = "Discovery" => node_id[m] # id
        /\ node_id' = [node_id EXCEPT ![x] = id]
  BY DEF Start, May
<1>2. /\ comms_state[x] = "CommsNone" /\ due' = due \cup {x}
      /\ comms_state' = [comms_state EXCEPT ![x] = "Discovery"]
      /\ UNCHANGED <<messages_sent, ack_wait, packets_to_send, rx>>
  BY DEF Start
<1>3. /\ node_id'[x] = id /\ comms_state'[x] = "Discovery"
      /\ \A n \in Node \ {x} : node_id'[n] = node_id[n] /\ comms_state'[n] = comms_state[n]
  BY <1>1, <1>2 DEF DiscoveryInv, RadioTypes
<1>4. InDiscovery' = InDiscovery \cup {x} /\ Running' = Running
      /\ x \notin Running /\ x \notin InDiscovery
  BY <1>2, <1>3 DEF InDiscovery, Running
<1>5. Blank'
  BY <1>2, <1>3 DEF DiscoveryInv, Blank
<1>6. IdRanges'
  BY <1>1, <1>3, <1>4, Apart DEF DiscoveryInv, IdRanges
<1>7. FirstDue'
  BY <1>2, <1>4 DEF DiscoveryInv, FirstDue
<1>8. OnlyRunningAnswer'
  BY <1>2, <1>4 DEF DiscoveryInv, OnlyRunningAnswer, Packets
<1>9. QED
  BY <1>5, <1>6, <1>7, <1>8 DEF Shape

\* A step of one node.
LEMMA OpenedKept ==
  ASSUME DiscoveryInv, NEW x \in Node,
         \A n \in Node \ {x} :
           /\ radio_state'[n] = radio_state[n] /\ comms_state'[n] = comms_state[n]
           /\ node_id'[n] = node_id[n] /\ ack_wait'[n] = ack_wait[n]
           /\ messages_sent'[n] = messages_sent[n] /\ (n \in due' <=> n \in due)
           /\ packets_to_send'[n] = packets_to_send[n],
         radio_state'[x] = "Opened" =>
           /\ comms_state'[x] = "Discovery" /\ ack_wait'[x] = "none"
           /\ \/ messages_sent'[x] = 0
              \/ /\ messages_sent'[x] = 1 /\ x \notin due'
                 /\ IdPacket("Discovery", node_id'[x]) \in ToSet(packets_to_send'[x])
  PROVE  BeforeListening'
BY DEF DiscoveryInv, BeforeListening

LEMMA BeforeListeningStep ==
  ASSUME Faults = {}, DiscoveryInv, [Next]_vars
  PROVE  BeforeListening'
<1>1. ASSUME NEW x \in Node, Start(x) PROVE BeforeListening'
  <2>1. /\ comms_state'[x] = "Discovery" /\ ack_wait'[x] = "none" /\ messages_sent'[x] = 0
    BY <1>1 DEF Start, DiscoveryInv, RadioTypes, Blank
  <2>2. \A n \in Node \ {x} :
          /\ radio_state'[n] = radio_state[n] /\ comms_state'[n] = comms_state[n]
          /\ node_id'[n] = node_id[n] /\ ack_wait'[n] = ack_wait[n]
          /\ messages_sent'[n] = messages_sent[n] /\ (n \in due' <=> n \in due)
          /\ packets_to_send'[n] = packets_to_send[n]
    BY <1>1 DEF Start, DiscoveryInv, RadioTypes
  <2>3. QED
    BY <2>1, <2>2, OpenedKept
<1>2. ASSUME NEW x \in Node, Send(x) PROVE BeforeListening'
  <2>1. /\ radio_state' = [radio_state EXCEPT ![x] = IF @ = "Opened" THEN "Continuous" ELSE @]
        /\ UNCHANGED <<idVars, discoveryVars>>
    BY <1>2 DEF Send
  <2>2. radio_state'[x] # "Opened" /\ \A n \in Node \ {x} : radio_state'[n] = radio_state[n]
    BY <2>1 DEF DiscoveryInv, RadioTypes
  <2>3. \A n \in Node \ {x} : packets_to_send'[n] = packets_to_send[n]
    BY <1>2, SendDelivers DEF DiscoveryInv
  <2>4. QED
    BY <2>1, <2>2, <2>3, OpenedKept DEF idVars, discoveryVars
<1>3. ASSUME NEW x \in Node, Receive(x) PROVE BeforeListening'
  <2> DEFINE p == Head(rx[x])
  <2>1. /\ radio_state'[x] # "Opened"
        /\ UNCHANGED <<node_id, comms_state, radio_state>> /\ p \in Packet
    BY <1>3, ReceiveStays DEF Receive, DiscoveryInv
  <2>2. \/ /\ UNCHANGED ack_wait
           /\ \/ Yield(x, p) /\ UNCHANGED packets_to_send
              \/ Respond(x, p) /\ UNCHANGED <<messages_sent, due>>
        \/ /\ ack_wait' = [ack_wait EXCEPT ![x] = AfterResponse(@)]
           /\ UNCHANGED <<messages_sent, due, packets_to_send>>
        \/ UNCHANGED <<messages_sent, due, ack_wait, packets_to_send>>
    BY <1>3 DEF Receive, HandleDiscoveryPacket, HandleDiscoveryAckPacket,
                HandleNodeIdAnnouncementPacket, discoveryVars
  <2> HIDE DEF p
  <2>3. \A n \in Node \ {x} : messages_sent'[n] = messages_sent[n] /\ (n \in due' <=> n \in due)
                               /\ ack_wait'[n] = ack_wait[n]
    BY <2>2 DEF Yield, DiscoveryInv, RadioTypes
  <2>4. \A n \in Node \ {x} : packets_to_send'[n] = packets_to_send[n]
    BY <2>1, <2>2, OnlyPackets, RespondElements DEF DiscoveryInv
  <2>5. QED
    BY <2>1, <2>3, <2>4, OpenedKept
<1>4. ASSUME NEW x \in Node, EndTurn(x) PROVE BeforeListening'
  <2>1. /\ radio_state'[x] # "Opened" /\ \A n \in Node \ {x} : radio_state'[n] = radio_state[n]
        /\ UNCHANGED <<idVars, discoveryVars, packets_to_send>>
    BY <1>4 DEF EndTurn, DiscoveryInv, RadioTypes
  <2>2. QED
    BY <2>1, OpenedKept DEF idVars, discoveryVars
<1>5. ASSUME NEW x \in Node, SendDiscovery(x) PROVE BeforeListening'
  <2> DEFINE packet == IdPacket("Discovery", node_id[x])
  <2>1. /\ x \in due /\ Queue(x, packet) /\ due' = due \ {x}
        /\ messages_sent' = [messages_sent EXCEPT
             ![x] = IF @ > max_discovery_messages THEN @ ELSE @ + 1]
        /\ UNCHANGED <<node_id, comms_state, radio_state, ack_wait>>
    BY <1>5 DEF SendDiscovery, idVars
  <2>2. packet \in Packet
    BY IdPackets DEF DiscoveryInv, RadioTypes
  <2>3. /\ packet \in ToSet(packets_to_send'[x])
        /\ \A m \in Node \ {x} : packets_to_send'[m] = packets_to_send[m]
    BY <2>1, <2>2, QueueElements DEF DiscoveryInv
  <2>4. /\ messages_sent[x] = 0 => messages_sent'[x] = 1
        /\ \A n \in Node \ {x} : messages_sent'[n] = messages_sent[n]
    BY <2>1, MeshAssumption DEF DiscoveryInv, RadioTypes
  <2>5. radio_state[x] = "Opened" =>
          comms_state[x] = "Discovery" /\ ack_wait[x] = "none" /\ messages_sent[x] = 0
    BY <2>1 DEF DiscoveryInv, BeforeListening
  <2>6. QED
    BY <2>1, <2>3, <2>4, <2>5, OpenedKept
<1>6. ASSUME NEW x \in Node, NEW id \in NodeId, Settle(x, id), UNCHANGED messages_sent,
             \A n \in Node \ {x} : ack_wait'[n] = ack_wait[n] /\ (n \in due' <=> n \in due)
      PROVE  BeforeListening'
  <2>1. /\ radio_state'[x] = "Listening"
        /\ \A n \in Node \ {x} : /\ radio_state'[n] = radio_state[n]
                                  /\ comms_state'[n] = comms_state[n] /\ node_id'[n] = node_id[n]
    BY <1>6 DEF Settle, DiscoveryInv, RadioTypes
  <2>2. \A m \in Node \ {x} : packets_to_send'[m] = packets_to_send[m]
    BY <1>6, IdPackets, QueueElements DEF Settle, DiscoveryInv
  <2>3. QED
    BY <1>6, <2>1, <2>2, OpenedKept
<1>7. ASSUME NEW x \in Node, SettleAlone(x) PROVE BeforeListening'
  <2>1. 0 \in NodeId
    BY MeshAssumption DEF NodeId
  <2>2. QED
    BY <1>6, <1>7, <2>1 DEF SettleAlone
<1>8. ASSUME NEW x \in Node, SettleAmongNeighbors(x) PROVE BeforeListening'
  <2>1. PICK id : /\ id = CHOOSE i \in FreeIds(x) : \A other \in FreeIds(x) : i <= other
                  /\ Settle(x, id)
    BY <1>8 DEF SettleAmongNeighbors
  <2>2. id \in NodeId
    BY <1>8, <2>1, FreeIdTaken DEF SettleAmongNeighbors
  <2>3. /\ UNCHANGED <<messages_sent, due>>
        /\ \A n \in Node \ {x} : ack_wait'[n] = ack_wait[n]
    BY <1>8 DEF SettleAmongNeighbors, DiscoveryInv, RadioTypes
  <2>4. QED
    BY <1>6, <2>1, <2>2, <2>3
<1>9. ASSUME NEW x \in Node, Abort(x) PROVE BeforeListening'
  <2>1. /\ radio_state'[x] = "RadioNone"
        /\ \A n \in Node \ {x} :
             /\ radio_state'[n] = radio_state[n] /\ comms_state'[n] = comms_state[n]
             /\ node_id'[n] = node_id[n] /\ ack_wait'[n] = ack_wait[n]
             /\ messages_sent'[n] = messages_sent[n] /\ (n \in due' <=> n \in due)
             /\ packets_to_send'[n] = packets_to_send[n]
    BY <1>9 DEF Abort, Exit, DiscoveryInv, RadioTypes, QueueTypes
  <2>2. QED
    BY <2>1, OpenedKept
<1>10. ASSUME Tick PROVE BeforeListening'
  <2>1. TimersDone /\ OnTheirWay = {} /\ UNCHANGED radio_state
    BY <1>10 DEF Tick, May
  <2>2. ASSUME NEW n \in Node, radio_state[n] = "Opened" PROVE FALSE
    <3>1. n \in InDiscovery
      BY <2>2 DEF DiscoveryInv, BeforeListening, InDiscovery
    <3>2. messages_sent[n] # 0
      BY <2>1, <3>1 DEF TimersDone, DiscoveryInv, FirstDue
    <3>3. IdPacket("Discovery", node_id[n]) \in Between(n, n)
      BY <2>2, <3>2 DEF DiscoveryInv, BeforeListening, Between
    <3>4. QED
      BY <2>1, <3>3, MailOnItsWay DEF DiscoveryInv
  <2>3. QED
    BY <2>1, <2>2 DEF BeforeListening
<1>11. CASE Stabilise \/ UNCHANGED vars
  BY <1>11 DEF Stabilise, vars, idVars, discoveryVars, DiscoveryInv, BeforeListening
<1>12. \A x \in Node : ~Stop(x)
  BY DEF Stop, May
<1>13. QED
  BY <1>1, <1>2, <1>3, <1>4, <1>5, <1>7, <1>8, <1>9, <1>10, <1>11, <1>12 DEF Next, Timer

\* Without faults, and if a node sends at least two messages before it concludes
\* that it is alone, both invariants hold.
LEMMA LearnStep ==
  ASSUME Faults = {}, max_discovery_messages >= 2, DiscoveryInv, LearnInv, [Next]_vars
  PROVE  DiscoveryInv' /\ LearnInv'
<1>1. (RadioTypes /\ QueueTypes(Packet))'
  BY RadioStep DEF DiscoveryInv
<1>2. ASSUME NEW x \in Node, Start(x) PROVE Shape' /\ LearnInv'
  BY <1>2, StartShape, StartKeepsLearning
<1>3. ASSUME NEW x \in Node, Send(x) PROVE Shape' /\ LearnInv'
  BY <1>3, SendShape, SendKeepsLearning
<1>4. ASSUME NEW x \in Node, Receive(x) PROVE Shape' /\ LearnInv'
  BY <1>4, ReceiveShape, YieldKeepsLearning, AnswerKeepsLearning, ResponseKeepsLearning,
     AnnouncementKeepsLearning DEF Receive
<1>5. ASSUME UNCHANGED <<idVars, discoveryVars, packets_to_send, rx>>
      PROVE  Shape' /\ LearnInv'
  <2>1. Shape'
    BY <1>5, FirstDueKept, ShapeKept DEF idVars, discoveryVars, Packets
  <2>2. \A n, m \in Node : Stays(n, m)
    BY <1>5 DEF Stays, Between
  <2>3. QED
    BY <1>5, <2>1, <2>2, MovesKeep
<1>6. ASSUME NEW x \in Node, SendDiscovery(x) PROVE Shape' /\ LearnInv'
  BY <1>6, SendDiscoveryShape, SendDiscoveryKeepsLearning
<1>7. ASSUME NEW x \in Node, SettleAlone(x) PROVE Shape' /\ LearnInv'
  <2>1. /\ x \in InDiscovery /\ Settle(x, 0) /\ due' = due \ {x}
        /\ UNCHANGED <<messages_sent, ack_wait, rx>>
    BY <1>7 DEF SettleAlone
  <2>2. 0 \in 0..min_discovery_node_id - 1
    BY MeshAssumption
  <2>3. QED
    BY <1>7, <2>1, <2>2, SettleShape, SettleAloneKeepsLearning
<1>8. ASSUME NEW x \in Node, SettleAmongNeighbors(x) PROVE Shape' /\ LearnInv'
  <2>1. PICK id : /\ id = CHOOSE i \in FreeIds(x) : \A other \in FreeIds(x) : i <= other
                  /\ Settle(x, id)
    BY <1>8 DEF SettleAmongNeighbors
  <2>2. /\ x \in InDiscovery /\ FreeIds(x) # {}
        /\ ack_wait' = [ack_wait EXCEPT ![x] = "none"]
        /\ UNCHANGED <<messages_sent, due, rx>>
    BY <1>8 DEF SettleAmongNeighbors
  <2>3. id \in 0..min_discovery_node_id - 1
    BY <2>1, <2>2, FreeIdTaken DEF FreeIds
  <2>4. \A n \in Node \ {x} : ack_wait'[n] = ack_wait[n]
    BY <2>2 DEF DiscoveryInv, RadioTypes
  <2>5. QED
    BY <1>8, <2>1, <2>2, <2>3, <2>4, SettleShape, SettleAmongKeepsLearning
<1>9. ASSUME NEW x \in Node, Abort(x) PROVE Shape' /\ LearnInv'
  BY <1>9, AbortShape, AbortKeepsLearning
<1>10. ASSUME Tick PROVE Shape' /\ LearnInv'
  BY <1>10, TickShape, TickKeepsLearning
<1>11. Shape' /\ LearnInv'
  <2>1. ASSUME NEW x \in Node, EndTurn(x) PROVE Shape' /\ LearnInv'
    BY <1>5, <2>1 DEF EndTurn
  <2>2. CASE Stabilise \/ UNCHANGED vars
    BY <1>5, <2>2 DEF Stabilise, vars, idVars, discoveryVars
  <2>3. \A x \in Node : ~Stop(x)
    BY DEF Stop, May
  <2>4. QED
    BY <1>2, <1>3, <1>4, <1>6, <1>7, <1>8, <1>9, <1>10, <2>1, <2>2, <2>3 DEF Next, Timer
<1>12. BeforeListening'
  BY BeforeListeningStep
<1>13. QED
  BY <1>1, <1>11, <1>12 DEF DiscoveryInv, Shape

\* A node runs after a step and not before: it has taken an id.
LEMMA SettlesFirst ==
  ASSUME RadioTypes, [Next]_vars, NEW n \in Node,
         comms_state[n] # "Running", comms_state'[n] = "Running"
  PROVE  SettleAlone(n) \/ SettleAmongNeighbors(n)
<1>1. ASSUME NEW x \in Node, Start(x) \/ Stop(x) \/ Abort(x) PROVE FALSE
  BY <1>1 DEF Start, Stop, Abort, Exit, RadioTypes
<1>2. ASSUME NEW x \in Node, SettleAlone(x) \/ SettleAmongNeighbors(x) PROVE x = n
  BY <1>2 DEF SettleAlone, SettleAmongNeighbors, Settle, RadioTypes
<1>3. ~UNCHANGED comms_state
  OBVIOUS
<1>4. \A x \in Node : ~Send(x) /\ ~Receive(x) /\ ~EndTurn(x) /\ ~SendDiscovery(x)
  BY <1>3 DEF Send, Receive, EndTurn, SendDiscovery, idVars
<1>5. ~Tick /\ ~Stabilise /\ ~UNCHANGED vars
  BY <1>3 DEF Tick, Stabilise, vars, idVars
<1>6. QED
  BY <1>1, <1>2, <1>4, <1>5 DEF Next, Timer

LEMMA LearnInit ==
  ASSUME Init
  PROVE  DiscoveryInv /\ LearnInv
<1>1. InDiscovery = {} /\ Running = {}
  BY DEF Init, InDiscovery, Running
<1>2. Blank
  BY DEF Init, Blank
<1>3. \A n \in Node : ack_wait[n] = "none" /\ Packets(n) = {}
  BY DEF Init, Packets, ToSet
<1>4. IdRanges /\ FirstDue /\ OnlyRunningAnswer /\ BeforeListening
  BY <1>1, <1>3 DEF Init, IdRanges, FirstDue, OnlyRunningAnswer, BeforeListening
<1>5. LearnInv
  BY <1>1 DEF LearnInv, LowerWins, NoneAlone, HearsAll, AllLearn
<1>6. QED
  BY <1>2, <1>4, <1>5, RadioInit DEF DiscoveryInv

\* Where nothing is lost, late or started twice, a node takes an id that another
\* one runs with only while that one's announcement is on its way to it, however
\* many nodes there are and whenever they start, if a node sends at least two
\* discovery messages before it concludes that it is alone.
THEOREM IdsTakenUnheard ==
  ASSUME Faults = {}, max_discovery_messages >= 2
  PROVE  Spec => TakenUnheard
<1>1. Init => DiscoveryInv /\ LearnInv
  BY LearnInit
<1>2. DiscoveryInv /\ LearnInv /\ [Next]_vars => (DiscoveryInv /\ LearnInv)'
  BY LearnStep
<1> DEFINE Unheard == \A n \in Running' \ Running, m \in Running :
                        node_id'[n] = node_id[m] => Announces(m, n)
<1>3. ASSUME DiscoveryInv, LearnInv, [Next]_vars PROVE [Unheard]_vars
  <2>1. SUFFICES ASSUME NEW n \in Running' \ Running, NEW m \in Running,
                        node_id'[n] = node_id[m]
                 PROVE  Announces(m, n)
    BY DEF Running
  <2>2. n \in Node /\ comms_state[n] # "Running" /\ comms_state'[n] = "Running"
    BY DEF Running
  <2>3. SettleAlone(n) \/ SettleAmongNeighbors(n)
    BY <1>3, <2>2, SettlesFirst DEF DiscoveryInv
  <2>4. ~SettleAlone(n)
    BY <1>3, <2>2, SettleAloneKeepsLearning
  <2>5. QED
    BY <1>3, <2>1, <2>2, <2>3, <2>4, OverLearns
<1>4. QED
  BY <1>1, <1>2, <1>3, PTL DEF Spec, TakenUnheard

\* Under the same conditions, when no packet is on its way every two nodes that
\* run with different ids know each other, whichever of them came first.
THEOREM NeighborsKnown ==
  ASSUME Faults = {}, max_discovery_messages >= 2
  PROVE  Spec => []KnowOneAnother
<1>1. Init => DiscoveryInv /\ LearnInv
  BY LearnInit
<1>2. DiscoveryInv /\ LearnInv /\ [Next]_vars => (DiscoveryInv /\ LearnInv)'
  BY LearnStep
<1>3. ASSUME DiscoveryInv, LearnInv PROVE KnowOneAnother
  <2>1. SUFFICES ASSUME OnTheirWay = {}, NEW n \in Running, NEW m \in Running,
                        node_id[n] # node_id[m]
                 PROVE  node_id[m] \in neighbor_node_ids[n]
    BY DEF KnowOneAnother
  <2>2. Learns(n, m)
    BY <1>3, <2>1 DEF LearnInv, AllLearn
  <2>3. ~Announces(m, n)
    BY <1>3, <2>1, MailOnItsWay, Apart DEF DiscoveryInv, Announces
  <2>4. QED
    BY <2>2, <2>3 DEF Learns
<1>4. QED
  BY <1>1, <1>2, <1>3, PTL DEF Spec

-----------------------------------------------------------------------------
(* The neighbors of a node are other nodes                                  *)
(*                                                                          *)
(* All that nodes tell one another is ids of nodes that run, and none is    *)
(* told its own: a node does not hear itself, and responses go to random    *)
(* ids, which no node has that runs.                                        *)

OtherIds(n) == {node_id[m] : m \in Running \ {n}}

IdsSplit ==
  /\ \A n \in InDiscovery : node_id[n] \in DiscoveryId
  /\ \A n \in Running : node_id[n] \in 0..min_discovery_node_id - 1

\* Who is not there has nothing to read.
NothingHeard == \A n \in Node : comms_state[n] = "CommsNone" => rx[n] = <<>>

\* What n has to send.
HonestlySent(n, packet) ==
  /\ packet.type = "Discovery" => packet.source \in DiscoveryId
  /\ packet.type # "Discovery" => n \in Running /\ packet.source = node_id[n]
  /\ packet.type = "DiscoverResponse" =>
       /\ packet.to \in DiscoveryId
       /\ packet.neighbors \subseteq OtherIds(n)
       /\ packet.num <= kNeighborsInPacket

\* What n is about to read.
HonestlyHeard(n, packet) ==
  /\ packet.type = "Discovery" => packet.source \in DiscoveryId
  /\ packet.type # "Discovery" => packet.source \in OtherIds(n)
  /\ packet.type = "DiscoverResponse" =>
       packet.neighbors \subseteq OtherIds(n) /\ packet.num <= kNeighborsInPacket

OthersInv ==
  /\ IdsSplit /\ NothingHeard
  /\ \A n \in Node : neighbor_node_ids[n] \subseteq OtherIds(n)
  /\ \A n \in Node : \A packet \in ToSet(packets_to_send[n]) : HonestlySent(n, packet)
  /\ \A n \in Node : \A packet \in ToSet(rx[n]) : HonestlyHeard(n, packet)

\* A response has room for the neighbors of its sender.
LEMMA RoomForOthers ==
  ASSUME Cardinality(Node) <= kNeighborsInPacket + 1, OthersInv, NEW n \in Node
  PROVE  Cardinality(neighbor_node_ids[n]) <= kNeighborsInPacket
<1>1. IsFiniteSet(Node) /\ Cardinality(Node) \in Nat /\ kNeighborsInPacket \in Nat
  BY MeshAssumption, FS_CardinalityType
<1>2. IsFiniteSet(Node \ {n}) /\ Cardinality(Node \ {n}) = Cardinality(Node) - 1
  BY <1>1, FS_RemoveElement
<1>3. /\ IsFiniteSet(Running \ {n})
      /\ Cardinality(Running \ {n}) <= Cardinality(Node \ {n})
  <2>1. Running \ {n} \subseteq Node \ {n}
    BY DEF Running
  <2>2. QED
    BY <1>2, <2>1, FS_Subset
<1>4. IsFiniteSet(OtherIds(n)) /\ Cardinality(OtherIds(n)) <= Cardinality(Running \ {n})
  <2> DEFINE idOf == [m \in Running \ {n} |-> node_id[m]]
  <2>1. idOf \in Surjection(Running \ {n}, OtherIds(n))
    BY DEF Surjection, OtherIds
  <2>2. QED
    BY <1>3, <2>1, FS_Surjection
<1>5. /\ IsFiniteSet(neighbor_node_ids[n])
      /\ Cardinality(neighbor_node_ids[n]) <= Cardinality(OtherIds(n))
  BY <1>4, FS_Subset DEF OthersInv
<1>6. /\ Cardinality(Running \ {n}) \in Nat /\ Cardinality(OtherIds(n)) \in Nat
      /\ Cardinality(neighbor_node_ids[n]) \in Nat
  BY <1>3, <1>4, <1>5, FS_CardinalityType
<1>7. QED
  BY <1>1, <1>2, <1>3, <1>4, <1>5, <1>6

\* A step after which no node that ran has ended or changed its id.
LEMMA OthersKept ==
  ASSUME OthersInv, \A n \in Running : n \in Running' /\ node_id'[n] = node_id[n],
         IdsSplit', NothingHeard',
         \A n \in Node : neighbor_node_ids'[n] \subseteq neighbor_node_ids[n] \cup OtherIds(n),
         \A n \in Node : \A packet \in ToSet(packets_to_send'[n]) :
           packet \in ToSet(packets_to_send[n]) \/ HonestlySent(n, packet)',
         \A n \in Node : \A packet \in ToSet(rx'[n]) :
           packet \in ToSet(rx[n]) \/ HonestlyHeard(n, packet)
  PROVE  OthersInv'
<1>1. \A n : OtherIds(n) \subseteq OtherIds(n)'
  BY DEF OtherIds
<1>2. \A n, packet : HonestlySent(n, packet) => HonestlySent(n, packet)'
  BY <1>1 DEF HonestlySent
<1>3. \A n, packet : HonestlyHeard(n, packet) => HonestlyHeard(n, packet)'
  BY <1>1 DEF HonestlyHeard
<1>4. \A n \in Node : neighbor_node_ids'[n] \subseteq OtherIds(n)'
  BY <1>1 DEF OthersInv
<1>5. QED
  BY <1>2, <1>3, <1>4 DEF OthersInv

\* A step that changes no process.
LEMMA SameProcesses ==
  ASSUME OthersInv, UNCHANGED <<node_id, comms_state>>
  PROVE  /\ IdsSplit' /\ \A n \in Running : n \in Running' /\ node_id'[n] = node_id[n]
         /\ (\A n \in Node : comms_state[n] = "CommsNone" => rx'[n] = rx[n]) => NothingHeard'
<1>1. InDiscovery' = InDiscovery /\ Running' = Running
  BY DEF InDiscovery, Running
<1>2. QED
  BY <1>1 DEF OthersInv, IdsSplit, NothingHeard

LEMMA SendKeepsOthers ==
  ASSUME RadioTypes, QueueTypes(Packet), OthersInv, NEW x \in Node, Send(x)
  PROVE  OthersInv'
<1>1. UNCHANGED <<node_id, comms_state, neighbor_node_ids>>
  BY DEF Send, idVars
<1>2. \A n \in Node : ToSet(packets_to_send'[n]) \subseteq ToSet(packets_to_send[n])
  BY SendDelivers
<1>3. \A m \in Node : rx'[m] = rx[m] \/ (m # x /\ comms_state[m] # "CommsNone")
  <2>1. PICK k \in 1..Len(packets_to_send[x]) :
          \A m \in Node :
            \/ rx'[m] = rx[m]
            \/ m # x /\ HasAddress(m, SubSeq(packets_to_send[x], 1, k)[1].to)
    BY SendMoves, ZenonT(60)
  <2>2. QED
    BY <2>1 DEF HasAddress
<1>4. ASSUME NEW m \in Node, NEW packet \in ToSet(rx'[m]), packet \notin ToSet(rx[m])
      PROVE  HonestlyHeard(m, packet)
  <2>1. packet \in ToSet(packets_to_send[x]) /\ HasAddress(m, packet.to)
    BY <1>4, SendDelivers
  <2>2. HonestlySent(x, packet) /\ m # x
    BY <1>3, <1>4, <2>1 DEF OthersInv
  <2>3. packet.type # "Discovery" => packet.source \in OtherIds(m)
    BY <2>2 DEF HonestlySent, OtherIds
  <2>4. ASSUME packet.type = "DiscoverResponse" PROVE OtherIds(x) \subseteq OtherIds(m)
    <3>1. packet.to \in DiscoveryId /\ packet.to \in {Everyone, node_id[m]}
      BY <2>1, <2>2, <2>4 DEF HonestlySent, HasAddress
    <3>2. \A id \in 0..min_discovery_node_id - 1 : id \notin DiscoveryId
      BY MeshAssumption DEF DiscoveryId
    <3>3. Everyone \notin DiscoveryId
      BY MeshAssumption DEF DiscoveryId, Everyone
    <3>4. m \notin Running
      BY <3>1, <3>2, <3>3 DEF OthersInv, IdsSplit
    <3>5. QED
      BY <3>4 DEF OtherIds
  <2>5. QED
    BY <2>2, <2>3, <2>4 DEF HonestlySent, HonestlyHeard
<1>5. QED
  BY <1>1, <1>2, <1>3, <1>4, SameProcesses, OthersKept

LEMMA ReceiveKeepsOthers ==
  ASSUME Cardinality(Node) <= kNeighborsInPacket + 1,
         RadioTypes, QueueTypes(Packet), OthersInv, NEW x \in Node, Receive(x)
  PROVE  OthersInv'
<1> DEFINE p == Head(rx[x])
<1>1. /\ p \in Packet /\ rx[x] # <<>> /\ UNCHANGED <<node_id, comms_state>>
  BY ReceiveStays
<1>2. /\ ToSet(rx'[x]) \subseteq ToSet(rx[x]) /\ p \in ToSet(rx[x])
      /\ \A m \in Node \ {x} : rx'[m] = rx[m]
  BY ReceiveElements
<1>3. HonestlyHeard(x, p) /\ comms_state[x] # "CommsNone"
  BY <1>1, <1>2 DEF OthersInv, NothingHeard
<1>4. /\ IdsSplit' /\ NothingHeard'
      /\ \A n \in Running : n \in Running' /\ node_id'[n] = node_id[n]
  BY <1>1, <1>2, <1>3, SameProcesses
<1>5. \A n \in Node : ToSet(rx'[n]) \subseteq ToSet(rx[n])
  BY <1>2
<1>6. ASSUME HandleDiscoveryPacket(x, p) PROVE OthersInv'
  <2>1. /\ p.type = "Discovery" /\ UNCHANGED neighbor_node_ids
        /\ \/ UNCHANGED packets_to_send
           \/ comms_state[x] # "Discovery" /\ Respond(x, p)
    BY <1>6 DEF HandleDiscoveryPacket
  <2>2. ASSUME comms_state[x] # "Discovery", Respond(x, p)
        PROVE  \A n \in Node : \A packet \in ToSet(packets_to_send'[n]) :
                 packet \in ToSet(packets_to_send[n]) \/ HonestlySent(n, packet)'
    <3>1. x \in Running /\ Running' = Running
      BY <1>1, <1>3, <2>2 DEF Running, RadioTypes
    <3>2. PICK response \in Packet :
            /\ response.type = "DiscoverResponse"
            /\ response.to = p.source /\ response.source = node_id[x]
            /\ response.neighbors \subseteq neighbor_node_ids[x]
            /\ response.num <= Cardinality(neighbor_node_ids[x])
            /\ ToSet(packets_to_send'[x]) = ToSet(packets_to_send[x]) \cup {response}
            /\ \A m \in Node \ {x} : packets_to_send'[m] = packets_to_send[m]
      BY <1>1, <2>2, OnlyPackets, RespondElements
    <3>3. response.num <= kNeighborsInPacket
      <4>1. /\ Cardinality(neighbor_node_ids[x]) \in Nat /\ response.num \in Nat
            /\ kNeighborsInPacket \in Nat
        BY MeshAssumption, IdsCount DEF RadioTypes, Packet
      <4>2. QED
        BY <3>2, <4>1, RoomForOthers
    <3>4. HonestlySent(x, response)
      BY <1>3, <2>1, <3>1, <3>2, <3>3 DEF HonestlyHeard, HonestlySent, OthersInv
    <3>5. HonestlySent(x, response)'
      BY <1>1, <3>1, <3>4 DEF HonestlySent, OtherIds
    <3>6. QED
      BY <3>2, <3>5
  <2>3. \A n \in Node : \A packet \in ToSet(packets_to_send'[n]) :
          packet \in ToSet(packets_to_send[n]) \/ HonestlySent(n, packet)'
    BY <2>1, <2>2
  <2>4. QED
    BY <1>4, <1>5, <2>1, <2>3, OthersKept
<1>7. ASSUME UNCHANGED packets_to_send, NEW told \in SUBSET OtherIds(x),
             neighbor_node_ids' = [neighbor_node_ids EXCEPT ![x] = @ \cup told]
      PROVE  OthersInv'
  <2>1. \A n \in Node : neighbor_node_ids'[n] \subseteq neighbor_node_ids[n] \cup OtherIds(n)
    BY <1>7 DEF RadioTypes
  <2>2. QED
    BY <1>4, <1>5, <1>7, <2>1, OthersKept
<1>8. ASSUME HandleDiscoveryAckPacket(x, p) PROVE OthersInv'
  <2>1. p.type = "DiscoverResponse" /\ UNCHANGED packets_to_send
    BY <1>8 DEF HandleDiscoveryAckPacket
  <2>2. p.num <= kNeighborsInPacket /\ {p.source} \cup p.neighbors \in SUBSET OtherIds(x)
    BY <1>3, <2>1 DEF HonestlyHeard
  <2>3. neighbor_node_ids' =
          [neighbor_node_ids EXCEPT ![x] = @ \cup ({p.source} \cup p.neighbors)]
    BY <1>8, <2>2 DEF HandleDiscoveryAckPacket
  <2>4. QED
    BY <1>7, <2>1, <2>2, <2>3
<1>9. ASSUME HandleNodeIdAnnouncementPacket(x, p) PROVE OthersInv'
  <2>1. Announced(x, p) \in SUBSET OtherIds(x)
    BY <1>3, <1>9 DEF HandleNodeIdAnnouncementPacket, Announced, HonestlyHeard
  <2>2. QED
    BY <1>7, <1>9, <2>1 DEF HandleNodeIdAnnouncementPacket
<1>10. QED
  BY <1>6, <1>8, <1>9 DEF Receive

LEMMA SettleKeepsOthers ==
  ASSUME RadioTypes, QueueTypes(Packet), OthersInv, NEW x \in InDiscovery,
         NEW id \in 0..min_discovery_node_id - 1, Settle(x, id), rx' = rx
  PROVE  OthersInv'
<1>1. /\ node_id' = [node_id EXCEPT ![x] = id]
      /\ Queue(x, IdPacket("NodeIdAnnouncement", id))
      /\ comms_state' = [comms_state EXCEPT ![x] = "Running"]
      /\ UNCHANGED neighbor_node_ids
  BY DEF Settle
<1>2. x \in Node /\ x \notin Running /\ id \in NodeId
  BY MeshAssumption, Apart DEF NodeId
<1>3. /\ node_id'[x] = id /\ comms_state'[x] = "Running"
      /\ \A n \in Node \ {x} : node_id'[n] = node_id[n] /\ comms_state'[n] = comms_state[n]
  BY <1>1, <1>2 DEF RadioTypes
<1>4. Running' = Running \cup {x} /\ InDiscovery' = InDiscovery \ {x}
  BY <1>2, <1>3 DEF Running, InDiscovery
<1>5. IdsSplit'
  BY <1>3, <1>4, Apart DEF OthersInv, IdsSplit
<1>6. NothingHeard'
  BY <1>3 DEF OthersInv, NothingHeard
<1>7. /\ ToSet(packets_to_send'[x]) =
           ToSet(packets_to_send[x]) \cup {IdPacket("NodeIdAnnouncement", id)}
      /\ \A m \in Node \ {x} : packets_to_send'[m] = packets_to_send[m]
  BY <1>1, <1>2, IdPackets, QueueElements
<1>8. HonestlySent(x, IdPacket("NodeIdAnnouncement", id))'
  BY <1>3, <1>4 DEF HonestlySent, IdPacket
<1>9. \A n \in Running : n \in Running' /\ node_id'[n] = node_id[n]
  BY <1>2, <1>3, <1>4, Apart
<1>10. QED
  BY <1>1, <1>5, <1>6, <1>7, <1>8, <1>9, OthersKept

LEMMA OthersStep ==
  ASSUME "restart" \notin Faults, Cardinality(Node) <= kNeighborsInPacket + 1,
         RadioTypes, QueueTypes(Packet), OthersInv, [Next]_vars
  PROVE  OthersInv'
<1>1. ASSUME UNCHANGED <<idVars, rx>>,
             \A n \in Node : \A packet \in ToSet(packets_to_send'[n]) :
               packet \in ToSet(packets_to_send[n]) \/ HonestlySent(n, packet)'
      PROVE  OthersInv'
  BY <1>1, SameProcesses, OthersKept DEF idVars
<1>2. ASSUME NEW x \in Node, Start(x) PROVE OthersInv'
  <2>1. PICK id \in DiscoveryId : node_id' = [node_id EXCEPT ![x] = id]
    BY <1>2 DEF Start
  <2>2. /\ comms_state[x] = "CommsNone"
        /\ comms_state' = [comms_state EXCEPT ![x] = "Discovery"]
        /\ UNCHANGED <<neighbor_node_ids, packets_to_send, rx>>
    BY <1>2 DEF Start
  <2>3. /\ node_id'[x] = id /\ comms_state'[x] = "Discovery"
        /\ \A n \in Node \ {x} : node_id'[n] = node_id[n] /\ comms_state'[n] = comms_state[n]
    BY <2>1, <2>2 DEF RadioTypes
  <2>4. Running' = Running /\ InDiscovery' = InDiscovery \cup {x} /\ x \notin Running
    BY <2>2, <2>3 DEF Running, InDiscovery
  <2>5. IdsSplit'
    BY <2>3, <2>4, Apart DEF OthersInv, IdsSplit
  <2>6. NothingHeard'
    BY <2>2, <2>3 DEF OthersInv, NothingHeard
  <2>7. \A n \in Running : n \in Running' /\ node_id'[n] = node_id[n]
    BY <2>3, <2>4, Apart
  <2>8. QED
    BY <2>2, <2>5, <2>6, <2>7, OthersKept
<1>3. ASSUME NEW x \in Node, SendDiscovery(x) PROVE OthersInv'
  <2>1. PICK packet :
          /\ packet = IdPacket("Discovery", node_id[x])
          /\ x \in InDiscovery /\ Queue(x, packet) /\ UNCHANGED <<idVars, rx>>
    BY <1>3 DEF SendDiscovery
  <2>2. packet \in Packet /\ HonestlySent(x, packet)'
    <3>1. packet \in Packet
      BY <2>1, IdPackets DEF RadioTypes
    <3>2. node_id[x] \in DiscoveryId
      BY <2>1 DEF OthersInv, IdsSplit
    <3>3. packet.type = "Discovery" /\ packet.source \in DiscoveryId
      BY <2>1, <3>2 DEF IdPacket
    <3>4. QED
      BY <3>1, <3>3 DEF HonestlySent
  <2>3. /\ ToSet(packets_to_send'[x]) = ToSet(packets_to_send[x]) \cup {packet}
        /\ \A m \in Node \ {x} : packets_to_send'[m] = packets_to_send[m]
    BY <2>1, <2>2, QueueElements
  <2>4. \A n \in Node : \A sent \in ToSet(packets_to_send'[n]) :
          sent \in ToSet(packets_to_send[n]) \/ HonestlySent(n, sent)'
    BY <2>2, <2>3
  <2>5. QED
    BY <1>1, <2>1, <2>4
<1>4. ASSUME NEW x \in Node, SettleAlone(x) PROVE OthersInv'
  <2>1. x \in InDiscovery /\ Settle(x, 0) /\ rx' = rx /\ 0 \in 0..min_discovery_node_id - 1
    BY <1>4, MeshAssumption DEF SettleAlone
  <2>2. QED
    BY <2>1, SettleKeepsOthers
<1>5. ASSUME NEW x \in Node, SettleAmongNeighbors(x) PROVE OthersInv'
  <2>1. PICK id : /\ id = CHOOSE i \in FreeIds(x) : \A other \in FreeIds(x) : i <= other
                  /\ Settle(x, id)
    BY <1>5 DEF SettleAmongNeighbors
  <2>2. x \in InDiscovery /\ FreeIds(x) # {} /\ rx' = rx
    BY <1>5 DEF SettleAmongNeighbors
  <2>3. id \in 0..min_discovery_node_id - 1
    BY <2>1, <2>2, FreeIdTaken DEF FreeIds
  <2>4. QED
    BY <2>1, <2>2, <2>3, SettleKeepsOthers
<1>6. ASSUME NEW x \in Node, Abort(x) PROVE OthersInv'
  <2>1. /\ comms_state[x] = "Discovery" /\ comms_state'[x] = "CommsNone"
        /\ neighbor_node_ids'[x] = {} /\ packets_to_send'[x] = <<>> /\ rx'[x] = <<>>
        /\ \A n \in Node \ {x} :
             /\ node_id'[n] = node_id[n] /\ comms_state'[n] = comms_state[n]
             /\ neighbor_node_ids'[n] = neighbor_node_ids[n]
             /\ packets_to_send'[n] = packets_to_send[n] /\ rx'[n] = rx[n]
    BY <1>6, Apart DEF Abort, Exit, RadioTypes, QueueTypes
  <2>2. Running' = Running /\ x \notin Running /\ InDiscovery' = InDiscovery \ {x}
    BY <2>1 DEF Running, InDiscovery
  <2>3. IdsSplit' /\ NothingHeard'
    BY <2>1, <2>2, Apart DEF OthersInv, IdsSplit, NothingHeard
  <2>4. \A n \in Running : n \in Running' /\ node_id'[n] = node_id[n]
    BY <2>1, <2>2, Apart
  <2>5. ToSet(packets_to_send'[x]) = {} /\ ToSet(rx'[x]) = {}
    BY <2>1 DEF ToSet
  <2>6. QED
    BY <2>1, <2>3, <2>4, <2>5, OthersKept
<1>7. ASSUME NEW x \in Node, EndTurn(x) PROVE OthersInv'
  BY <1>1, <1>7 DEF EndTurn
<1>8. CASE Tick \/ Stabilise \/ UNCHANGED vars
  BY <1>1, <1>8 DEF Tick, Stabilise, vars
<1>9. \A x \in Node : ~Stop(x)
  BY DEF Stop, May
<1>10. QED
  BY <1>2, <1>3, <1>4, <1>5, <1>6, <1>7, <1>8, <1>9, SendKeepsOthers, ReceiveKeepsOthers
     DEF Next, Timer

\* As long as no process ends, and if a response has room for all the others, a
\* node knows no id but those of other nodes that run, whatever is lost, late or
\* drawn twice: what a response without that room says beyond its end may be any
\* id.
THEOREM OthersAreNeighbors ==
  ASSUME "restart" \notin Faults, Cardinality(Node) <= kNeighborsInPacket + 1
  PROVE  Spec => []NeighborsAreOthers
<1> DEFINE IInv == RadioTypes /\ QueueTypes(Packet) /\ OthersInv
<1>1. Init => IInv
  <2>1. ASSUME Init PROVE OthersInv
    <3>1. Running = {} /\ InDiscovery = {}
      BY <2>1 DEF Init, Running, InDiscovery
    <3>2. QED
      BY <2>1, <3>1 DEF Init, OthersInv, IdsSplit, NothingHeard, ToSet
  <2>2. QED
    BY <2>1, RadioInit
<1>2. IInv /\ [Next]_vars => IInv'
  BY OthersStep, RadioStep
<1>3. IInv => NeighborsAreOthers
  BY DEF OthersInv, OtherIds, NeighborsAreOthers
<1>4. QED
  BY <1>1, <1>2, <1>3, PTL DEF Spec
=============================================================================
