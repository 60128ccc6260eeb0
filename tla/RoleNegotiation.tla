-------------------------- MODULE RoleNegotiation --------------------------
(* AutoNegotiateRadioInterface (src/nerfnet_main.cc): two nodes that were   *)
(* both started in automatic mode decide who is the primary.  Each writes   *)
(* one discovery packet and listens; who hears a discovery answers it and   *)
(* becomes the secondary, who hears an answer becomes the primary.          *)
EXTENDS Integers, Sequences

CONSTANTS
  Node,       \* the two nodes
  FifoDepth,  \* packets the RX FIFO of a radio holds
  Faults      \* what the environment may do before it is stable

\* "loss": a packet does not arrive.  "slow": a node is held up between the
\* write of its discovery packet and startListening.  "restart": a process is
\* started anew.
AllFaults == {"loss", "slow", "restart"}

ASSUME NegotiationAssumption ==
  /\ \E a, b \in Node : a # b /\ Node = {a, b}
  /\ FifoDepth \in Nat /\ FifoDepth >= 1
  /\ Faults \subseteq AllFaults

VARIABLES
  step,   \* where each node is
  fifo,   \* the RX FIFO of its radio
  stable  \* the environment has stopped misbehaving

vars == <<step, fifo, stable>>

Peer(n) == CHOOSE m \in Node : m # n

Packet == {"Discovery", "DiscoverResponse"}

Role == {"Primary", "Secondary"}

Step == {"starting", "written", "listening", "replying"} \cup Role

May(fault) == fault \in Faults /\ ~stable

Init ==
  /\ step = [n \in Node |-> "starting"]
  /\ fifo = [n \in Node |-> <<>>]
  /\ stable = (Faults = {})

-----------------------------------------------------------------------------

\* Faulty: listens from the start.
HearsFromStart(n) == step[n] \in {"starting", "listening"}

Hears(n) == step[n] = "listening"

\* The result of a write is only logged.
Write(to, packet) ==
  \/ /\ Hears(to) /\ Len(fifo[to]) < FifoDepth
     /\ fifo' = [fifo EXCEPT ![to] = Append(@, packet)]
  \/ /\ Hears(to) /\ Len(fifo[to]) < FifoDepth => May("loss")
     /\ UNCHANGED fifo

WriteDiscovery(n) ==
  /\ step[n] = "starting"
  /\ Write(Peer(n), "Discovery")
  /\ step' = [step EXCEPT ![n] = "written"]
  /\ UNCHANGED stable

StartListening(n) ==
  /\ step[n] = "written"
  /\ step' = [step EXCEPT ![n] = "listening"]
  /\ UNCHANGED <<fifo, stable>>

\* Faulty: looks for another packet after a discovery that it did not answer.
DecideDeaf(packet) == IF packet = "DiscoverResponse" THEN "Primary" ELSE "listening"

\* Faulty: leaves the mode as it was for who answers.
DecideNotSet(packet) == IF packet = "DiscoverResponse" THEN "Primary" ELSE "NotSet"

Decide(packet) == IF packet = "DiscoverResponse" THEN "Primary" ELSE "replying"

\* One turn of the loop that finds a packet available: stopListening comes
\* before the response is written.
ReadPacket(n) ==
  /\ step[n] = "listening" /\ fifo[n] # <<>>
  /\ step' = [step EXCEPT ![n] = Decide(Head(fifo[n]))]
  /\ fifo' = [fifo EXCEPT ![n] = Tail(@)]
  /\ UNCHANGED stable

\* Without the fault "slow" the other node listens by the time the response
\* is on the air.
WriteResponse(n) ==
  /\ step[n] = "replying"
  /\ step[Peer(n)] = "written" => May("slow")
  /\ Write(Peer(n), "DiscoverResponse")
  /\ step' = [step EXCEPT ![n] = "Secondary"]
  /\ UNCHANGED stable

\* A new process: begin() flushes the FIFO.
Restart(n) ==
  /\ May("restart")
  /\ step' = [step EXCEPT ![n] = "starting"]
  /\ fifo' = [fifo EXCEPT ![n] = <<>>]
  /\ UNCHANGED stable

Negotiate(n) ==
  WriteDiscovery(n) \/ StartListening(n) \/ ReadPacket(n) \/ WriteResponse(n)

Stabilise == ~stable /\ stable' = TRUE /\ UNCHANGED <<step, fifo>>

Next == (\E n \in Node : Negotiate(n) \/ Restart(n)) \/ Stabilise

Spec == Init /\ [][Next]_vars

\* Both processes keep running and the environment settles in the end.
FairSpec == Spec /\ WF_vars(Stabilise) /\ \A n \in Node : WF_vars(Negotiate(n))

-----------------------------------------------------------------------------

TypeOK ==
  /\ step \in [Node -> Step]
  /\ fifo \in [Node -> Seq(Packet)]
  /\ \A n \in Node : Len(fifo[n]) <= FifoDepth
  /\ stable \in BOOLEAN

\* The two nodes never take the same role, whichever packets are lost and
\* whoever is started again in the middle: two primaries or two secondaries
\* would never exchange a frame.
RolesDiffer == \A n \in Node : step[n] \in Role => step[n] # step[Peer(n)]

Paired == {step[n] : n \in Node} = Role

\* Once the environment has settled, a discovery packet that a node reads next
\* while the other one waits for the answer settles the roles: the answer finds
\* its way, and nothing older in the FIFOs is taken for it.
HeardPairs ==
  \A n \in Node :
    /\ stable /\ step[n] = "listening" /\ step[Peer(n)] \in {"written", "listening"}
    /\ fifo[n] # <<>> /\ Head(fifo[n]) = "Discovery"
    ~> Paired

\* "Failed to negotiate radio roles" (nerfnet_main.cc:266) is a check on the
\* mode that the negotiation returned: it returns.
NegotiationEnds == \A n \in Node : <>(step[n] \in Role)
=============================================================================
