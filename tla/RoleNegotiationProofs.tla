----------------------- MODULE RoleNegotiationProofs -----------------------
(* Theorems about the negotiation of the roles, for every depth of the RX   *)
(* FIFOs and every set of faults.                                           *)
EXTENDS RoleNegotiation, SequenceTheorems, TLAPS

\* The two nodes are each other's peer.
LEMMA PeerType ==
  ASSUME NEW n \in Node
  PROVE  /\ Peer(n) \in Node /\ Peer(n) # n /\ Peer(Peer(n)) = n
         /\ \A m \in Node : m = n \/ m = Peer(n)
<1>1. PICK a, b \in Node : a # b /\ Node = {a, b}
  BY NegotiationAssumption
<1>2. \A m \in Node : Peer(m) \in Node /\ Peer(m) # m
  BY <1>1 DEF Peer
<1>3. QED
  BY <1>1, <1>2

Has(n, packet) == \E i \in 1..Len(fifo[n]) : fifo[n][i] = packet

\* What node n did or is bound to do because of a discovery, or of an answer.
HeardDiscovery(n) == Has(n, "Discovery") \/ step[n] \in {"replying", "Secondary"}
HeardAnswer(n) == Has(n, "DiscoverResponse") \/ step[n] = "Primary"

(* RolesDiffer is not inductive: it says nothing of the packets that will   *)
(* give a node its role.  Each conjunct closes one way to a common role.    *)

\* Only a node that has begun to listen has packets, because each process
\* starts with an empty FIFO.
HearsLate == \A n \in Node : fifo[n] # <<>> => step[n] \notin {"starting", "written"}

\* A node writes its discovery before it listens, so two discoveries never cross.
OneDiscovers == \A n \in Node : ~(HeardDiscovery(n) /\ HeardDiscovery(Peer(n)))

OneAnswers == \A n \in Node : ~(HeardAnswer(n) /\ HeardAnswer(Peer(n)))

\* A node that acts on a discovery has no answer behind it.
AnswerFirst ==
  \A n \in Node :
    /\ step[n] \in {"replying", "Secondary"} => ~Has(n, "DiscoverResponse")
    /\ \A i, j \in 1..Len(fifo[n]) :
         i < j /\ fifo[n][i] = "Discovery" => fifo[n][j] # "DiscoverResponse"

RolesInv == TypeOK /\ HearsLate /\ OneDiscovers /\ OneAnswers /\ AnswerFirst

\* The types of a write, and of a read.
LEMMA WriteType ==
  ASSUME TypeOK, NEW to \in Node, NEW packet \in Packet, Write(to, packet)
  PROVE  /\ fifo' \in [Node -> Seq(Packet)]
         /\ \A n \in Node : Len(fifo'[n]) <= FifoDepth
         /\ \A n \in Node \ {to} : fifo'[n] = fifo[n]
         /\ \/ fifo'[to] = fifo[to]
            \/ Hears(to) /\ fifo'[to] = Append(fifo[to], packet)
<1>1. fifo[to] \in Seq(Packet) /\ Append(fifo[to], packet) \in Seq(Packet)
  BY AppendProperties DEF TypeOK
<1>2. Len(fifo[to]) < FifoDepth => Len(Append(fifo[to], packet)) <= FifoDepth
  BY <1>1, AppendProperties, LenProperties, NegotiationAssumption
<1>3. QED
  BY <1>1, <1>2 DEF Write, TypeOK

\* A packet that is appended is the only one that a FIFO has more than before.
LEMMA AppendHas ==
  ASSUME NEW old \in Seq(Packet), NEW packet \in Packet, NEW new, new = Append(old, packet)
  PROVE  /\ Len(new) = Len(old) + 1 /\ Len(old) \in Nat
         /\ new[Len(new)] = packet
         /\ \A i \in 1..Len(old) : new[i] = old[i]
BY AppendProperties, LenProperties

\* What the FIFO of node to has after a write of packet.
LEMMA WriteHas ==
  ASSUME TypeOK, NEW to \in Node, NEW packet \in Packet, Write(to, packet)
  PROVE  /\ \A kind : Has(to, kind)' => Has(to, kind) \/ kind = packet
         /\ \A n \in Node \ {to} : \A kind : Has(n, kind)' => Has(n, kind)
<1>1. fifo[to] \in Seq(Packet)
  BY DEF TypeOK
<1>2. \A n \in Node \ {to} : fifo'[n] = fifo[n]
  BY WriteType
<1>3. CASE fifo'[to] = fifo[to]
  BY <1>2, <1>3 DEF Has
<1>4. CASE fifo'[to] = Append(fifo[to], packet)
  <2>1. /\ Len(fifo'[to]) = Len(fifo[to]) + 1 /\ Len(fifo[to]) \in Nat
        /\ fifo'[to][Len(fifo'[to])] = packet
        /\ \A i \in 1..Len(fifo[to]) : fifo'[to][i] = fifo[to][i]
    BY <1>1, <1>4, AppendHas
  <2>2. \A i \in 1..Len(fifo'[to]) : i \in 1..Len(fifo[to]) \/ i = Len(fifo'[to])
    BY <2>1
  <2>3. QED
    BY <1>2, <2>1, <2>2 DEF Has
<1>5. QED
  BY <1>3, <1>4, WriteType

\* A write keeps the answers of a FIFO before its discoveries, unless it puts
\* an answer behind a discovery.
LEMMA WriteOrder ==
  ASSUME TypeOK, AnswerFirst, NEW to \in Node, NEW packet \in Packet, Write(to, packet),
         packet = "DiscoverResponse" => ~Has(to, "Discovery")
  PROVE  \A n \in Node : \A i, j \in 1..Len(fifo'[n]) :
           i < j /\ fifo'[n][i] = "Discovery" => fifo'[n][j] # "DiscoverResponse"
<1> SUFFICES ASSUME NEW n \in Node, NEW i \in 1..Len(fifo'[n]), NEW j \in 1..Len(fifo'[n]),
                    i < j, fifo'[n][i] = "Discovery"
             PROVE  fifo'[n][j] # "DiscoverResponse"
  OBVIOUS
<1>1. CASE fifo'[n] = fifo[n]
  BY <1>1 DEF AnswerFirst
<1>2. CASE n = to /\ fifo'[to] = Append(fifo[to], packet)
  <2>1. fifo[to] \in Seq(Packet)
    BY DEF TypeOK
  <2>2. /\ Len(fifo'[to]) = Len(fifo[to]) + 1 /\ Len(fifo[to]) \in Nat
        /\ fifo'[to][Len(fifo'[to])] = packet
        /\ \A k \in 1..Len(fifo[to]) : fifo'[to][k] = fifo[to][k]
    BY <1>2, <2>1, AppendHas
  <2>3. i \in 1..Len(fifo[to]) /\ fifo[to][i] = "Discovery"
    BY <1>2, <2>2
  <2>4. CASE j \in 1..Len(fifo[to])
    BY <1>2, <2>2, <2>3, <2>4 DEF AnswerFirst
  <2>5. CASE j = Len(fifo'[to])
    <3>1. Has(to, "Discovery")
      BY <2>3 DEF Has
    <3>2. QED
      BY <1>2, <2>2, <2>5, <3>1
  <2>6. QED
    BY <1>2, <2>2, <2>4, <2>5
<1>3. QED
  BY <1>1, <1>2, WriteType

\* If one node neither acts nor will act on a discovery, or on an answer, then
\* the two do not do so both.
LEMMA NotBoth ==
  ASSUME NEW n \in Node
  PROVE  /\ ~HeardDiscovery(n)' => OneDiscovers'
         /\ ~HeardAnswer(n)' => OneAnswers'
BY PeerType DEF OneDiscovers, OneAnswers

-----------------------------------------------------------------------------
(* The actions *)

LEMMA WriteDiscoveryInv ==
  ASSUME RolesInv, NEW n \in Node, WriteDiscovery(n)
  PROVE  RolesInv'
<1> DEFINE p == Peer(n)
<1>1. /\ p \in Node /\ p # n /\ \A m \in Node : m = n \/ m = p
  BY PeerType
<1>2. step[n] = "starting" /\ step' = [step EXCEPT ![n] = "written"] /\ stable' = stable
  BY DEF WriteDiscovery
<1>3. TypeOK /\ Write(p, "Discovery") /\ "Discovery" \in Packet
  BY DEF WriteDiscovery, RolesInv, Packet
<1> HIDE DEF p
<1>4. /\ fifo' \in [Node -> Seq(Packet)]
      /\ \A m \in Node : Len(fifo'[m]) <= FifoDepth
      /\ fifo'[n] = fifo[n]
      /\ fifo'[p] = fifo[p] \/ Hears(p)
  BY <1>1, <1>3, WriteType
<1>5. step'[n] = "written" /\ step'[p] = step[p]
  BY <1>1, <1>2, <1>3 DEF TypeOK
<1>6. TypeOK'
  BY <1>1, <1>2, <1>3, <1>4 DEF TypeOK, Step
<1>7. fifo[n] = <<>>
  BY <1>2 DEF RolesInv, HearsLate
<1>8. HearsLate'
  BY <1>1, <1>4, <1>5, <1>7 DEF HearsLate, Hears, RolesInv
<1>9. \A kind : ~Has(n, kind)'
  BY <1>4, <1>7 DEF Has
<1>10. OneDiscovers' /\ OneAnswers'
  BY <1>5, <1>9, NotBoth DEF HeardDiscovery, HeardAnswer
<1>11. AnswerFirst'
  <2>1. Has(p, "DiscoverResponse")' => Has(p, "DiscoverResponse")
    BY <1>1, <1>3, WriteHas
  <2>2. \A m \in Node : \A i, j \in 1..Len(fifo'[m]) :
          i < j /\ fifo'[m][i] = "Discovery" => fifo'[m][j] # "DiscoverResponse"
    BY <1>1, <1>3, WriteOrder DEF RolesInv
  <2>3. \A m \in Node :
          step'[m] \in {"replying", "Secondary"} => ~Has(m, "DiscoverResponse")'
    BY <1>1, <1>5, <1>9, <2>1 DEF AnswerFirst, RolesInv
  <2>4. QED
    BY <2>2, <2>3 DEF AnswerFirst
<1>12. QED
  BY <1>6, <1>8, <1>10, <1>11 DEF RolesInv

LEMMA WriteResponseInv ==
  ASSUME RolesInv, NEW n \in Node, WriteResponse(n)
  PROVE  RolesInv'
<1> DEFINE p == Peer(n)
<1>1. /\ p \in Node /\ p # n /\ \A m \in Node : m = n \/ m = p
  BY PeerType
<1>2. step[n] = "replying" /\ step' = [step EXCEPT ![n] = "Secondary"] /\ stable' = stable
  BY DEF WriteResponse
<1>3. TypeOK /\ Write(p, "DiscoverResponse") /\ "DiscoverResponse" \in Packet
  BY DEF WriteResponse, RolesInv, Packet
<1>4. ~HeardDiscovery(p)
  BY <1>2 DEF RolesInv, OneDiscovers, HeardDiscovery
<1> HIDE DEF p
<1>5. /\ fifo' \in [Node -> Seq(Packet)]
      /\ \A m \in Node : Len(fifo'[m]) <= FifoDepth
      /\ fifo'[n] = fifo[n]
      /\ fifo'[p] = fifo[p] \/ Hears(p)
  BY <1>1, <1>3, WriteType
<1>6. step'[n] = "Secondary" /\ step'[p] = step[p]
  BY <1>1, <1>2, <1>3 DEF TypeOK
<1>7. TypeOK'
  BY <1>1, <1>2, <1>3, <1>5 DEF TypeOK, Step, Role
<1>8. HearsLate'
  BY <1>1, <1>5, <1>6 DEF HearsLate, Hears, RolesInv
<1>9. OneDiscovers'
  <2>1. Has(p, "Discovery")' => Has(p, "Discovery")
    BY <1>1, <1>3, WriteHas
  <2>2. ~HeardDiscovery(p)'
    BY <1>4, <1>6, <2>1 DEF HeardDiscovery
  <2>3. QED
    BY <1>1, <2>2, NotBoth
<1>10. ~Has(n, "DiscoverResponse")'
  BY <1>1, <1>2, <1>3, WriteHas DEF RolesInv, AnswerFirst
<1>11. OneAnswers'
  BY <1>6, <1>10, NotBoth DEF HeardAnswer
<1>12. AnswerFirst'
  <2>1. \A m \in Node : \A i, j \in 1..Len(fifo'[m]) :
          i < j /\ fifo'[m][i] = "Discovery" => fifo'[m][j] # "DiscoverResponse"
    BY <1>1, <1>3, <1>4, WriteOrder DEF RolesInv, HeardDiscovery
  <2>2. \A m \in Node :
          step'[m] \in {"replying", "Secondary"} => ~Has(m, "DiscoverResponse")'
    BY <1>1, <1>4, <1>6, <1>10 DEF HeardDiscovery
  <2>3. QED
    BY <2>1, <2>2 DEF AnswerFirst
<1>13. QED
  BY <1>7, <1>8, <1>9, <1>11, <1>12 DEF RolesInv

LEMMA ReadPacketInv ==
  ASSUME RolesInv, NEW n \in Node, ReadPacket(n)
  PROVE  RolesInv'
<1>1. /\ step[n] = "listening" /\ fifo[n] # <<>> /\ stable' = stable
      /\ step' = [step EXCEPT ![n] = Decide(Head(fifo[n]))]
      /\ fifo' = [fifo EXCEPT ![n] = Tail(fifo[n])]
  BY DEF ReadPacket
<1>2. TypeOK /\ fifo[n] \in Seq(Packet) /\ Len(fifo[n]) \in Nat
  BY LenProperties DEF RolesInv, TypeOK
<1>3. /\ Head(fifo[n]) = fifo[n][1] /\ Head(fifo[n]) \in Packet
      /\ Len(fifo[n]) >= 1
      /\ Tail(fifo[n]) \in Seq(Packet) /\ Len(Tail(fifo[n])) = Len(fifo[n]) - 1
      /\ \A i \in 1..Len(fifo[n]) - 1 : Tail(fifo[n])[i] = fifo[n][i + 1]
  BY <1>1, <1>2, HeadTailProperties, EmptySeq
<1>4. /\ step'[n] = Decide(Head(fifo[n])) /\ fifo'[n] = Tail(fifo[n])
      /\ \A m \in Node \ {n} : step'[m] = step[m] /\ fifo'[m] = fifo[m]
  BY <1>1, <1>2 DEF TypeOK
<1>5. \/ Head(fifo[n]) = "DiscoverResponse" /\ step'[n] = "Primary"
      \/ Head(fifo[n]) = "Discovery" /\ step'[n] = "replying"
  BY <1>3, <1>4 DEF Decide, Packet
<1>6. TypeOK'
  <2>1. step' \in [Node -> Step]
    BY <1>1, <1>2, <1>4, <1>5 DEF TypeOK, Step, Role
  <2>2. fifo' \in [Node -> Seq(Packet)]
    BY <1>1, <1>2, <1>3 DEF TypeOK
  <2>3. \A m \in Node : Len(fifo'[m]) <= FifoDepth
    <3>1. FifoDepth \in Nat /\ Len(fifo[n]) <= FifoDepth
      BY <1>2, NegotiationAssumption DEF TypeOK
    <3>2. Len(fifo'[n]) <= FifoDepth
      BY <1>2, <1>3, <1>4, <3>1
    <3>3. QED
      BY <1>2, <1>4, <3>2 DEF TypeOK
  <2>4. QED
    BY <1>1, <1>2, <2>1, <2>2, <2>3 DEF TypeOK
<1>7. HearsLate'
  BY <1>4, <1>5 DEF HearsLate, RolesInv
<1>8. \A i \in 1..Len(fifo'[n]) : i + 1 \in 1..Len(fifo[n]) /\ fifo'[n][i] = fifo[n][i + 1]
  BY <1>2, <1>3, <1>4
<1>9. \A m \in Node : \A kind : Has(m, kind)' => Has(m, kind)
  <2>1. \A kind : Has(n, kind)' => Has(n, kind)
    BY <1>8 DEF Has
  <2>2. \A m \in Node \ {n} : \A kind : Has(m, kind)' => Has(m, kind)
    BY <1>4 DEF Has
  <2>3. QED
    BY <2>1, <2>2
<1>10. Has(n, Head(fifo[n]))
  BY <1>2, <1>3 DEF Has
<1>11. \A m \in Node : /\ HeardDiscovery(m)' => HeardDiscovery(m)
                       /\ HeardAnswer(m)' => HeardAnswer(m)
  BY <1>4, <1>5, <1>9, <1>10 DEF HeardDiscovery, HeardAnswer
<1>12. OneDiscovers' /\ OneAnswers'
  BY <1>11, PeerType DEF OneDiscovers, OneAnswers, RolesInv
<1>13. AnswerFirst'
  <2>1. ASSUME NEW m \in Node, step'[m] \in {"replying", "Secondary"}
        PROVE  ~Has(m, "DiscoverResponse")'
    <3>1. CASE m # n
      BY <1>4, <1>9, <2>1, <3>1 DEF AnswerFirst, RolesInv
    <3>2. CASE m = n
      <4>1. fifo[n][1] = "Discovery" /\ 1 \in 1..Len(fifo[n])
        BY <1>2, <1>3, <1>5, <2>1, <3>2
      <4>2. \A j \in 1..Len(fifo[n]) : 1 < j => fifo[n][j] # "DiscoverResponse"
        BY <4>1 DEF AnswerFirst, RolesInv
      <4>3. QED
        BY <1>8, <3>2, <4>2 DEF Has
    <3>3. QED
      BY <3>1, <3>2
  <2>2. ASSUME NEW m \in Node, NEW i \in 1..Len(fifo'[m]), NEW j \in 1..Len(fifo'[m]),
               i < j, fifo'[m][i] = "Discovery"
        PROVE  fifo'[m][j] # "DiscoverResponse"
    <3>1. CASE m # n
      BY <1>4, <2>2, <3>1 DEF AnswerFirst, RolesInv
    <3>2. CASE m = n
      BY <1>8, <2>2, <3>2 DEF AnswerFirst, RolesInv
    <3>3. QED
      BY <3>1, <3>2
  <2>3. QED
    BY <2>1, <2>2 DEF AnswerFirst
<1>14. QED
  BY <1>6, <1>7, <1>12, <1>13 DEF RolesInv

\* A node that begins to listen, or starts again, has heard nothing.
LEMMA EmptyInv ==
  ASSUME RolesInv, NEW n \in Node, StartListening(n) \/ Restart(n)
  PROVE  RolesInv'
<1>1. /\ fifo'[n] = <<>> /\ step'[n] \in {"starting", "listening"} /\ stable' = stable
      /\ \A m \in Node \ {n} : step'[m] = step[m] /\ fifo'[m] = fifo[m]
      /\ step' \in [Node -> Step] /\ fifo' \in [Node -> Seq(Packet)]
  <2>1. CASE StartListening(n)
    <3>1. /\ step[n] = "written" /\ UNCHANGED <<fifo, stable>>
          /\ step' = [step EXCEPT ![n] = "listening"]
      BY <2>1 DEF StartListening
    <3>2. fifo[n] = <<>>
      BY <3>1 DEF RolesInv, HearsLate
    <3>3. QED
      BY <3>1, <3>2 DEF RolesInv, TypeOK, Step
  <2>2. CASE Restart(n)
    BY <2>2 DEF Restart, RolesInv, TypeOK, Step
  <2>3. QED
    BY <2>1, <2>2
<1>2. TypeOK'
  <2>1. Len(<<>>) <= FifoDepth
    BY NegotiationAssumption
  <2>2. QED
    BY <1>1, <2>1 DEF RolesInv, TypeOK
<1>3. \A kind : ~Has(n, kind)'
  BY <1>1 DEF Has
<1>4. OneDiscovers' /\ OneAnswers'
  BY <1>1, <1>3, NotBoth DEF HeardDiscovery, HeardAnswer
<1>5. HearsLate'
  BY <1>1 DEF HearsLate, RolesInv
<1>6. AnswerFirst'
  BY <1>1, <1>3 DEF AnswerFirst, RolesInv, Has
<1>7. QED
  BY <1>2, <1>4, <1>5, <1>6 DEF RolesInv

LEMMA RolesInit == ASSUME Init PROVE RolesInv
<1>1. \A n \in Node : step[n] = "starting" /\ fifo[n] = <<>>
  BY DEF Init
<1>2. TypeOK
  BY NegotiationAssumption DEF Init, TypeOK, Step
<1>3. \A n \in Node : \A kind : ~Has(n, kind)
  BY <1>1 DEF Has
<1>4. QED
  BY <1>1, <1>2, <1>3
     DEF RolesInv, HearsLate, OneDiscovers, OneAnswers, AnswerFirst, HeardDiscovery, HeardAnswer

\* The two nodes never take the same role, under every fault of the environment.
THEOREM NoCommonRole == Spec => [](TypeOK /\ RolesDiffer)
<1>1. Init => RolesInv
  BY RolesInit
<1>2. RolesInv /\ [Next]_vars => RolesInv'
  <2> SUFFICES ASSUME RolesInv, [Next]_vars PROVE RolesInv'
    OBVIOUS
  <2>1. ASSUME NEW n \in Node, Negotiate(n) \/ Restart(n) PROVE RolesInv'
    BY <2>1, WriteDiscoveryInv, WriteResponseInv, ReadPacketInv, EmptyInv DEF Negotiate
  <2>2. CASE Stabilise \/ UNCHANGED vars
    BY <2>2 DEF Stabilise, vars, RolesInv, TypeOK, HearsLate, OneDiscovers, OneAnswers,
                AnswerFirst, HeardDiscovery, HeardAnswer, Has
  <2>3. QED
    BY <2>1, <2>2 DEF Next
<1>3. RolesInv => TypeOK /\ RolesDiffer
  BY PeerType
     DEF RolesInv, RolesDiffer, Role, OneDiscovers, OneAnswers, HeardDiscovery, HeardAnswer
<1>4. QED
  BY <1>1, <1>2, <1>3, PTL DEF Spec

\* Steps, roles and FIFOs keep their types, and no FIFO overflows.
THEOREM NegotiationTypes == Spec => []TypeOK
BY NoCommonRole, PTL
=============================================================================
