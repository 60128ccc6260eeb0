---------------------------- MODULE MeshStackProofs ----------------------------
(* Theorems about the mesh stack, for any number of nodes, of frames and    *)
(* of faults, from every situation the stack may begin with.                *)
EXTENDS MeshStack, MeshRadioInterfaceProofs

-----------------------------------------------------------------------------
(* The buffer of the tunnel thread                                          *)

(* DownstreamBound is not inductive: whether the tunnel thread may read one *)
(* more frame was decided earlier, by a size that may have been stale.      *)

BufferTypes ==
  /\ tunnel_in \in [Node -> Seq(Nat)]
  /\ downstream_buffer \in [Node -> Seq(Seq(Byte))]
  /\ at_read \subseteq Node

\* Run holds a frame that it is going to pop.
RunHasFrame == \A n \in in_run : n \in Node => Len(downstream_buffer[n]) >= 1

\* A thread that is to read a frame will find room for it once it gets the lock:
\* if it read the size during a Run, that Run has still a frame to pop.
RoomToRead ==
  \A n \in at_read :
    /\ n \notin in_run => Len(downstream_buffer[n]) <= kMaxBufferedFrames
    /\ n \in in_run => Len(downstream_buffer[n]) <= kMaxBufferedFrames + 1

BufferInv == BufferTypes /\ DownstreamBound /\ RunHasFrame /\ RoomToRead

\* The length of a buffer after a frame was appended, or the first one popped.
LEMMA BufferLengths ==
  ASSUME NEW buffer \in Seq(Seq(Byte)), NEW frame \in Seq(Byte)
  PROVE  /\ Len(buffer) \in Nat
         /\ Append(buffer, frame) \in Seq(Seq(Byte))
         /\ Len(Append(buffer, frame)) = Len(buffer) + 1
         /\ Len(buffer) >= 1 => /\ Tail(buffer) \in Seq(Seq(Byte))
                                /\ Len(Tail(buffer)) = Len(buffer) - 1
<1>1. Len(buffer) \in Nat
  BY LenProperties
<1>2. Append(buffer, frame) \in Seq(Seq(Byte)) /\ Len(Append(buffer, frame)) = Len(buffer) + 1
  BY AppendProperties
<1>3. ASSUME Len(buffer) >= 1
      PROVE  Tail(buffer) \in Seq(Seq(Byte)) /\ Len(Tail(buffer)) = Len(buffer) - 1
  <2>1. buffer # <<>>
    BY <1>1, <1>3, EmptySeq
  <2>2. QED
    BY <2>1, HeadTailProperties
<1>4. QED
  BY <1>1, <1>2, <1>3

LEMMA BufferNat ==
  ASSUME BufferTypes
  PROVE  \A n \in Node : Len(downstream_buffer[n]) \in Nat
BY LenProperties DEF BufferTypes

LEMMA ReadFrameInv ==
  ASSUME BufferInv, NEW n \in Node, ReadFrame(n)
  PROVE  BufferInv'
<1>1. PICK length \in FrameLengths[n] :
        /\ tunnel_in' = [tunnel_in EXCEPT ![n] = Append(@, length)]
        /\ downstream_buffer' = [downstream_buffer EXCEPT
             ![n] = Append(@, Frame(n, Len(tunnel_in[n]) + 1, length))]
  BY DEF ReadFrame
<1>2. n \in at_read /\ n \notin in_run /\ at_read' = at_read \ {n} /\ in_run' = in_run
  BY DEF ReadFrame
<1>3. length \in Nat /\ Len(tunnel_in[n]) + 1 \in Nat
  BY TunnelAssumption, LenProperties DEF BufferInv, BufferTypes
<1>4. Frame(n, Len(tunnel_in[n]) + 1, length) \in Seq(Byte)
  <2>1. \A j \in 1..length : <<n, Len(tunnel_in[n]) + 1, j>> \in Byte
    BY <1>3 DEF Byte
  <2>2. QED
    BY <1>3, <2>1, IsASeq DEF Frame
<1>5. /\ downstream_buffer' \in [Node -> Seq(Seq(Byte))]
      /\ Len(downstream_buffer'[n]) = Len(downstream_buffer[n]) + 1
      /\ \A m \in Node \ {n} : downstream_buffer'[m] = downstream_buffer[m]
  BY <1>1, <1>4, BufferLengths DEF BufferInv, BufferTypes
<1>6. tunnel_in' \in [Node -> Seq(Nat)]
  BY <1>1, <1>3, AppendProperties DEF BufferInv, BufferTypes
<1>7. Len(downstream_buffer[n]) <= kMaxBufferedFrames /\ Len(downstream_buffer[n]) \in Nat
  BY <1>2, BufferNat DEF BufferInv, RoomToRead
<1>8. BufferTypes'
  BY <1>2, <1>5, <1>6 DEF BufferInv, BufferTypes
<1>9. DownstreamBound'
  <2>1. Len(downstream_buffer'[n]) <= kMaxBufferedFrames + 1
    BY <1>5, <1>7, TunnelAssumption
  <2>2. QED
    BY <1>5, <2>1 DEF BufferInv, DownstreamBound
<1>10. RunHasFrame' /\ RoomToRead'
  BY <1>2, <1>5 DEF BufferInv, BufferTypes, RunHasFrame, RoomToRead
<1>11. QED
  BY <1>8, <1>9, <1>10 DEF BufferInv

\* The size that is read during a Run tells nothing, but the bound holds anyhow.
LEMMA CheckRoomInv ==
  ASSUME BufferInv, NEW n \in Node, CheckRoom(n)
  PROVE  BufferInv'
<1>1. /\ UNCHANGED <<downstream_buffer, in_run, tunnel_in>>
      /\ at_read' = at_read \cup {n}
      /\ Len(downstream_buffer[n]) <= kMaxBufferedFrames \/ n \in in_run
  BY DEF CheckRoom, HasRoom
<1>2. Len(downstream_buffer[n]) <= kMaxBufferedFrames + 1 /\ Len(downstream_buffer[n]) \in Nat
  BY BufferNat DEF BufferInv, DownstreamBound
<1>3. RoomToRead'
  BY <1>1, <1>2, TunnelAssumption DEF BufferInv, RoomToRead
<1>4. QED
  BY <1>1, <1>3 DEF BufferInv, BufferTypes, DownstreamBound, RunHasFrame

LEMMA BeginRunInv ==
  ASSUME BufferInv, NEW n \in Node, BeginRun(n)
  PROVE  BufferInv'
<1>1. /\ UNCHANGED <<downstream_buffer, at_read, tunnel_in>>
      /\ in_run' = in_run \cup {n}
      /\ downstream_buffer[n] # <<>>
  BY DEF BeginRun
<1>2. Len(downstream_buffer[n]) >= 1
  BY <1>1, EmptySeq DEF BufferInv, BufferTypes
<1>3. RunHasFrame'
  BY <1>1, <1>2 DEF BufferInv, RunHasFrame
<1>4. RoomToRead'
  BY <1>1 DEF BufferInv, BufferTypes, DownstreamBound, RoomToRead
<1>5. QED
  BY <1>1, <1>3, <1>4 DEF BufferInv, BufferTypes, DownstreamBound

LEMMA EndRunInv ==
  ASSUME BufferInv, NEW n \in Node, EndRun(n)
  PROVE  BufferInv'
<1>1. UNCHANGED <<at_read, tunnel_in>> /\ in_run' = in_run \ {n}
  BY DEF EndRun
<1>2. CASE n \in in_run /\ downstream_buffer' = [downstream_buffer EXCEPT ![n] = Tail(@)]
  <2>1. Len(downstream_buffer[n]) >= 1 /\ Len(downstream_buffer[n]) \in Nat
        /\ Len(downstream_buffer[n]) <= kMaxBufferedFrames + 1
    BY <1>2, BufferNat DEF BufferInv, RunHasFrame, DownstreamBound
  <2>2. <<>> \in Seq(Byte)
    BY EmptySeq
  <2>3. /\ downstream_buffer' \in [Node -> Seq(Seq(Byte))]
        /\ Len(downstream_buffer'[n]) = Len(downstream_buffer[n]) - 1
        /\ \A m \in Node \ {n} : downstream_buffer'[m] = downstream_buffer[m]
    BY <1>2, <2>1, <2>2, BufferLengths DEF BufferInv, BufferTypes
  <2>4. Len(downstream_buffer'[n]) <= kMaxBufferedFrames
    BY <2>1, <2>3, TunnelAssumption
  <2>5. BufferTypes'
    BY <1>1, <2>3 DEF BufferInv, BufferTypes
  <2>6. DownstreamBound'
    <3>1. Len(downstream_buffer'[n]) <= kMaxBufferedFrames + 1
      BY <2>1, <2>3, <2>4, TunnelAssumption
    <3>2. QED
      BY <2>3, <3>1 DEF BufferInv, DownstreamBound
  <2>7. RunHasFrame' /\ RoomToRead'
    BY <1>1, <2>3, <2>4 DEF BufferInv, BufferTypes, RunHasFrame, RoomToRead
  <2>8. QED
    BY <2>5, <2>6, <2>7 DEF BufferInv
<1>3. CASE n \notin in_run /\ UNCHANGED downstream_buffer
  <2>1. in_run' = in_run
    BY <1>1, <1>3
  <2>2. QED
    BY <1>1, <1>3, <2>1
       DEF BufferInv, BufferTypes, DownstreamBound, RunHasFrame, RoomToRead
<1>4. QED
  BY <1>2, <1>3 DEF EndRun

\* A node whose process ends has empty buffers.
LEMMA StackEndsInv ==
  ASSUME BufferInv, NEW n \in Node, StackEnds(n)
  PROVE  BufferInv'
<1>1. /\ UNCHANGED <<in_run, tunnel_in>> /\ n \notin in_run
      /\ at_read' = at_read \cup {n}
      /\ downstream_buffer' = [downstream_buffer EXCEPT ![n] = <<>>]
  BY DEF StackEnds
<1>2. <<>> \in Seq(Seq(Byte)) /\ Len(<<>>) = 0
  BY EmptySeq
<1>3. /\ downstream_buffer' \in [Node -> Seq(Seq(Byte))]
      /\ Len(downstream_buffer'[n]) = 0
      /\ \A m \in Node \ {n} : downstream_buffer'[m] = downstream_buffer[m]
  BY <1>1, <1>2 DEF BufferInv, BufferTypes
<1>4. BufferTypes' /\ RunHasFrame'
  BY <1>1, <1>3 DEF BufferInv, BufferTypes, RunHasFrame
<1>5. DownstreamBound' /\ RoomToRead'
  BY <1>1, <1>3, TunnelAssumption DEF BufferInv, BufferTypes, DownstreamBound, RoomToRead
<1>6. QED
  BY <1>4, <1>5 DEF BufferInv

\* The layers below, and the clock, leave the buffer and its readers alone.
LEMMA OthersLeaveBuffer ==
  ASSUME NEW n \in Node,
         \/ LayerRun(n) \/ RadioSends(n) \/ RadioRun(n) \/ RadioLearns(n)
         \/ RadioHandsUp(n) \/ StartStack(n) \/ Passes
  PROVE  UNCHANGED <<downstream_buffer, at_read, in_run, tunnel_in>>
<1>1. CASE RadioHandsUp(n)
  BY <1>1 DEF RadioHandsUp, Climbs, TunnelReceiveFromDownstream, tunnelVars
<1>2. CASE LayerRun(n)
  BY <1>2 DEF LayerRun, tunnelVars
<1>3. CASE RadioSends(n) \/ RadioRun(n) \/ Passes
  BY <1>3 DEF RadioSends, RadioRun, Passes, layerVars, tunnelVars
<1>4. CASE RadioLearns(n) \/ StartStack(n)
  BY <1>4 DEF RadioLearns, StartStack, layerVars, tunnelVars
<1>5. QED
  BY <1>1, <1>2, <1>3, <1>4

LEMMA BufferInit == ASSUME StackInit PROVE BufferInv
<1>1. /\ downstream_buffer = [n \in Node |-> <<>>] /\ tunnel_in = [n \in Node |-> <<>>]
      /\ at_read = Node /\ in_run = {}
  BY DEF StackInit
<1>2. <<>> \in Seq(Nat) /\ <<>> \in Seq(Seq(Byte)) /\ Len(<<>>) = 0
  BY EmptySeq
<1>3. QED
  BY <1>1, <1>2, TunnelAssumption
     DEF BufferInv, BufferTypes, DownstreamBound, RunHasFrame, RoomToRead

LEMMA BufferStep == BufferInv /\ [StackNext]_stackVars => BufferInv'
<1> SUFFICES ASSUME BufferInv, [StackNext]_stackVars PROVE BufferInv'
  OBVIOUS
<1>1. ASSUME UNCHANGED <<downstream_buffer, at_read, in_run, tunnel_in>>
      PROVE  BufferInv'
  BY <1>1 DEF BufferInv, BufferTypes, DownstreamBound, RunHasFrame, RoomToRead
<1>2. ASSUME NEW n \in Node, TunnelRun(n) PROVE BufferInv'
  BY <1>2, BeginRunInv, EndRunInv DEF TunnelRun
<1>3. ASSUME NEW n \in Node, TunnelThread(n) PROVE BufferInv'
  BY <1>3, ReadFrameInv, CheckRoomInv DEF TunnelThread
<1>4. ASSUME NEW n \in Node, StackEnds(n) PROVE BufferInv'
  BY <1>4, StackEndsInv
<1>5. ASSUME NEW n \in Node,
             \/ LayerRun(n) \/ RadioSends(n) \/ RadioRun(n) \/ RadioLearns(n)
             \/ RadioHandsUp(n) \/ StartStack(n)
      PROVE  BufferInv'
  BY <1>1, <1>5, OthersLeaveBuffer
<1>6. CASE Passes \/ UNCHANGED stackVars
  BY <1>1, <1>6 DEF Passes, stackVars, layerVars, tunnelVars
<1>7. QED
  BY <1>2, <1>3, <1>4, <1>5, <1>6 DEF StackNext

\* The tunnel thread queues at most one frame beyond kMaxBufferedFrames, although
\* it reads the size of the buffer without the lock.
THEOREM DownstreamBounded == StackSpec => []DownstreamBound
<1>1. BufferInv => DownstreamBound
  BY DEF BufferInv
<1>2. QED
  BY <1>1, BufferInit, BufferStep, PTL DEF StackSpec

-----------------------------------------------------------------------------
(* FlattenSeq, by which messages are put together.  Its recursive function   *)
(* exists, and what it yields is told, by the least number for which it     *)
(* would not (LeastElement).                                                *)

\* The function that FlattenSeq is made of: the first so many sequences, one
\* after the other.
Flattens(f, n, seqs) ==
  f = [i \in 1..n |-> IF i = 1 THEN seqs[i] ELSE f[i - 1] \o seqs[i]]

LEMMA FlattensSteps ==
  \A f, seqs : \A n \in Nat \ {0} : Flattens(f, n, seqs) =>
    /\ DOMAIN f = 1..n
    /\ f[1] = seqs[1]
    /\ \A i \in 2..n : f[i] = f[i - 1] \o seqs[i]
<1> TAKE f, seqs
<1> TAKE n \in Nat \ {0}
<1> HAVE Flattens(f, n, seqs)
<1>1. DOMAIN f = 1..n /\ \A i \in 1..n : f[i] = IF i = 1 THEN seqs[i] ELSE f[i - 1] \o seqs[i]
  BY DEF Flattens
<1>2. 1 \in 1..n
  OBVIOUS
<1>3. \A i \in 2..n : i \in 1..n /\ i # 1
  OBVIOUS
<1>4. QED
  BY <1>1, <1>2, <1>3, Zenon

\* There is such a function, for every number of sequences.
LEMMA FlattensExists ==
  ASSUME NEW seqs, NEW N \in Nat, N >= 1
  PROVE  \E f : Flattens(f, N, seqs)
<1> DEFINE T == {n \in 1..N : ~\E f : Flattens(f, n, seqs)}
<1>1. CASE T = {}
  <2>1. N \in 1..N
    OBVIOUS
  <2>2. QED
    BY <1>1, <2>1, Zenon
<1>2. CASE T # {}
  <2>1. PICK m \in T : \A k \in T : m <= k
    <3>1. T \in SUBSET Nat
      OBVIOUS
    <3>2. QED
      BY <1>2, <3>1, LeastElement
  <2>2. m \in 1..N /\ ~\E f : Flattens(f, m, seqs)
    BY <2>1
  <2>3. m # 1
    <3>1. Flattens([i \in 1..1 |-> seqs[i]], 1, seqs)
      BY DEF Flattens
    <3>2. QED
      BY <2>2, <3>1
  <2>4. m - 1 \in 1..N /\ m - 1 \notin T
    <3>1. m - 1 \in 1..N /\ ~(m <= m - 1)
      BY <2>2, <2>3
    <3>2. QED
      BY <2>1, <3>1
  <2>5. PICK f : Flattens(f, m - 1, seqs)
    BY <2>4
  <2> DEFINE g == [i \in 1..m |-> IF i = m THEN f[m - 1] \o seqs[m] ELSE f[i]]
             Step(i) == IF i = 1 THEN seqs[i] ELSE g[i - 1] \o seqs[i]
  <2>6. \A i \in 1..m : g[i] = Step(i)
    <3>1. f[1] = seqs[1] /\ \A i \in 2..m - 1 : f[i] = f[i - 1] \o seqs[i]
      <4>1. m - 1 \in Nat \ {0}
        BY <2>4
      <4>2. Flattens(f, m - 1, seqs)
        BY <2>5
      <4>3. QED
        BY <4>1, <4>2, FlattensSteps, ZenonT(60)
    <3>2. ASSUME NEW i \in 1..m - 1 PROVE g[i] = f[i]
      <4>1. i \in 1..m /\ i # m
        BY <2>2
      <4>2. QED
        BY <4>1
    <3>3. g[m] = f[m - 1] \o seqs[m]
      <4>1. m \in 1..m
        BY <2>2
      <4>2. QED
        BY <4>1, Zenon
    <3> HIDE DEF g
    <3>4. ASSUME NEW i \in 1..m PROVE g[i] = Step(i)
      <4>1. CASE i = m
        <5>1. g[m - 1] = f[m - 1]
          BY <2>4, <3>2
        <5>2. QED
          BY <2>3, <3>3, <4>1, <5>1
      <4>2. CASE i = 1
        <5>1. 1 \in 1..m - 1
          BY <2>2, <2>3
        <5>2. QED
          BY <3>1, <3>2, <4>2, <5>1
      <4>3. CASE i # m /\ i # 1
        <5>1. i \in 2..m - 1 /\ i \in 1..m - 1 /\ i - 1 \in 1..m - 1
          BY <2>2, <4>3
        <5>2. QED
          BY <3>1, <3>2, <4>3, <5>1
      <4>4. QED
        BY <4>1, <4>2, <4>3
    <3>5. QED
      BY <3>4
  <2>7. g = [i \in 1..m |-> Step(i)]
    BY <2>6
  <2>8. Flattens(g, m, seqs)
    BY <2>7, Zenon DEF Flattens
  <2>9. QED
    BY <2>2, <2>8
<1>3. QED
  BY <1>1, <1>2

LEMMA FlattensFlattenSeq ==
  ASSUME NEW seqs, Len(seqs) \in Nat, Len(seqs) >= 1
  PROVE  \E f : Flattens(f, Len(seqs), seqs) /\ FlattenSeq(seqs) = f[Len(seqs)]
<1>1. PICK g : Flattens(g, Len(seqs), seqs)
  BY FlattensExists
<1>2. Len(seqs) # 0
  OBVIOUS
<1>3. QED
  BY <1>1, <1>2, Zenon DEF FlattenSeq, Flattens

\* Where the elements of flattened sequences come from: the i-th is element
\* col[i] of sequence row[i]; they come in that order, and none is missing.
Places(row, col, flat, n, seqs) ==
  /\ row \in [1..Len(flat) -> 1..n] /\ col \in [1..Len(flat) -> Nat]
  /\ \A i \in 1..Len(flat) : /\ col[i] \in 1..Len(seqs[row[i]])
                             /\ flat[i] = seqs[row[i]][col[i]]
  /\ \A i, j \in 1..Len(flat) : i < j => \/ row[i] < row[j]
                                         \/ row[i] = row[j] /\ col[i] < col[j]
  /\ \A k \in 1..n : \A l \in 1..Len(seqs[k]) :
       \E i \in 1..Len(flat) : row[i] = k /\ col[i] = l

LEMMA PlacesOfOne ==
  ASSUME NEW A, NEW seqs, seqs[1] \in Seq(A)
  PROVE  \E row, col : Places(row, col, seqs[1], 1, seqs)
<1> DEFINE flat == seqs[1]
           row == [i \in 1..Len(flat) |-> 1]
           col == [i \in 1..Len(flat) |-> i]
<1>1. Len(flat) \in Nat
  BY LenProperties
<1> HIDE DEF flat
<1>2. \A i \in 1..Len(flat) : row[i] = 1 /\ col[i] = i /\ i \in Nat
  BY <1>1
<1>3. row \in [1..Len(flat) -> 1..1] /\ col \in [1..Len(flat) -> Nat]
  BY <1>1
<1> HIDE DEF row, col
<1>4. Places(row, col, flat, 1, seqs)
  BY <1>1, <1>2, <1>3 DEF Places, flat
<1>5. QED
  BY <1>4 DEF flat

\* One more sequence.
LEMMA PlacesOfNext ==
  ASSUME NEW A, NEW seqs, NEW n \in Nat, NEW flat \in Seq(A), seqs[n + 1] \in Seq(A),
         NEW row, NEW col, Places(row, col, flat, n, seqs)
  PROVE  \E newRow, newCol : Places(newRow, newCol, flat \o seqs[n + 1], n + 1, seqs)
<1> DEFINE L == Len(flat)
           M == Len(seqs[n + 1])
           longer == flat \o seqs[n + 1]
           newRow == [i \in 1..L + M |-> IF i <= L THEN row[i] ELSE n + 1]
           newCol == [i \in 1..L + M |-> IF i <= L THEN col[i] ELSE i - L]
<1>1. L \in Nat /\ M \in Nat
  BY LenProperties
<1>2. Len(longer) = L + M
      /\ \A i \in 1..L + M : longer[i] = IF i <= L THEN flat[i] ELSE seqs[n + 1][i - L]
  BY ConcatProperties
<1>3. /\ row \in [1..L -> 1..n] /\ col \in [1..L -> Nat]
      /\ \A i \in 1..L : col[i] \in 1..Len(seqs[row[i]]) /\ flat[i] = seqs[row[i]][col[i]]
      /\ \A i, j \in 1..L : i < j => \/ row[i] < row[j]
                                     \/ row[i] = row[j] /\ col[i] < col[j]
      /\ \A k \in 1..n : \A l \in 1..Len(seqs[k]) :
           \E i \in 1..L : row[i] = k /\ col[i] = l
  BY DEF Places
<1> HIDE DEF L, M, longer
<1>4. \A i \in 1..L : i \in 1..L + M /\ newRow[i] = row[i] /\ newCol[i] = col[i]
                      /\ longer[i] = flat[i]
  BY <1>1, <1>2
<1>5. \A i \in L + 1..L + M : /\ i \in 1..L + M /\ newRow[i] = n + 1 /\ newCol[i] = i - L
                              /\ longer[i] = seqs[n + 1][i - L] /\ i - L \in 1..M
  BY <1>1, <1>2
<1>6. \A i \in 1..L + M : i \in 1..L \/ i \in L + 1..L + M
  BY <1>1
<1>7. DOMAIN newRow = 1..L + M /\ DOMAIN newCol = 1..L + M
  OBVIOUS
<1>8. newRow = [i \in 1..L + M |-> newRow[i]] /\ newCol = [i \in 1..L + M |-> newCol[i]]
  BY Zenon
<1> HIDE DEF newRow, newCol
<1>9. newRow \in [1..L + M -> 1..n + 1] /\ newCol \in [1..L + M -> Nat]
  <2>1. ASSUME NEW i \in 1..L + M PROVE newRow[i] \in 1..n + 1 /\ newCol[i] \in Nat
    <3>1. CASE i \in 1..L
      BY <1>3, <1>4, <3>1
    <3>2. CASE i \in L + 1..L + M
      BY <1>1, <1>5, <3>2
    <3>3. QED
      BY <1>6, <3>1, <3>2
  <2>2. QED
    BY <1>8, <2>1
<1>10. ASSUME NEW i \in 1..L + M
       PROVE  newCol[i] \in 1..Len(seqs[newRow[i]]) /\ longer[i] = seqs[newRow[i]][newCol[i]]
  <2>1. CASE i \in 1..L
    BY <1>3, <1>4, <2>1
  <2>2. CASE i \in L + 1..L + M
    BY <1>5, <2>2 DEF M
  <2>3. QED
    BY <1>6, <2>1, <2>2
<1>11. ASSUME NEW i \in 1..L + M, NEW j \in 1..L + M, i < j
       PROVE  newRow[i] < newRow[j] \/ (newRow[i] = newRow[j] /\ newCol[i] < newCol[j])
  <2>1. CASE i \in 1..L /\ j \in 1..L
    BY <1>3, <1>4, <1>11, <2>1
  <2>2. CASE i \in 1..L /\ j \in L + 1..L + M
    <3>1. row[i] \in 1..n
      BY <1>3, <2>2
    <3>2. QED
      BY <1>4, <1>5, <2>2, <3>1
  <2>3. CASE i \in L + 1..L + M /\ j \in L + 1..L + M
    BY <1>1, <1>5, <1>11, <2>3
  <2>4. ~(i \in L + 1..L + M /\ j \in 1..L)
    BY <1>1, <1>11
  <2>5. QED
    BY <1>6, <2>1, <2>2, <2>3, <2>4
<1>12. ASSUME NEW k \in 1..n + 1, NEW l \in 1..Len(seqs[k])
       PROVE  \E i \in 1..L + M : newRow[i] = k /\ newCol[i] = l
  <2>1. CASE k \in 1..n
    BY <1>3, <1>4, <2>1
  <2>2. CASE k = n + 1
    <3>1. l \in 1..M
      BY <1>12, <2>2 DEF M
    <3>2. L + l \in L + 1..L + M /\ (L + l) - L = l
      BY <1>1, <3>1
    <3>3. QED
      BY <1>5, <2>2, <3>2
  <2>3. QED
    BY <2>1, <2>2
<1>13. Places(newRow, newCol, longer, n + 1, seqs)
  BY <1>2, <1>9, <1>10, <1>11, <1>12 DEF Places
<1>14. QED
  BY <1>13 DEF longer

\* Every element of flattened sequences is one of theirs, in their order.
LEMMA FlattenPlaces ==
  ASSUME NEW A, NEW seqs \in Seq(Seq(A)), seqs # <<>>
  PROVE  /\ FlattenSeq(seqs) \in Seq(A)
         /\ \E row, col : Places(row, col, FlattenSeq(seqs), Len(seqs), seqs)
<1> DEFINE N == Len(seqs)
<1>1. N \in Nat \ {0}
  BY LenProperties, EmptySeq
<1>2. PICK f : Flattens(f, N, seqs) /\ FlattenSeq(seqs) = f[N]
  BY <1>1, FlattensFlattenSeq
<1> HIDE DEF N
<1>3. f[1] = seqs[1] /\ \A i \in 2..N : f[i] = f[i - 1] \o seqs[i]
  BY <1>1, <1>2, FlattensSteps, Zenon
<1>4. \A i \in 1..N : seqs[i] \in Seq(A)
  BY ElementOfSeq DEF N
<1> DEFINE Good(n) == f[n] \in Seq(A) /\ \E row, col : Places(row, col, f[n], n, seqs)
           T == {n \in 1..N : ~Good(n)}
<1>5. T = {}
  <2> SUFFICES ASSUME T # {} PROVE FALSE
    OBVIOUS
  <2>1. PICK m \in T : \A k \in T : m <= k
    <3>1. T \in SUBSET Nat
      BY <1>1
    <3>2. QED
      BY <3>1, LeastElement
  <2>2. m \in 1..N /\ ~Good(m)
    BY <2>1
  <2>3. m # 1
    <3>1. Good(1)
      BY <1>1, <1>3, <1>4, PlacesOfOne
    <3>2. QED
      BY <2>2, <3>1
  <2>4. m - 1 \in 1..N /\ m \in 2..N /\ m - 1 \in Nat /\ (m - 1) + 1 = m /\ ~(m <= m - 1)
    BY <1>1, <2>2, <2>3
  <2>5. Good(m - 1)
    BY <2>1, <2>4
  <2>6. PICK k : k = m - 1
    OBVIOUS
  <2>7. k \in Nat /\ k + 1 = m /\ f[m] = f[k] \o seqs[m] /\ seqs[k + 1] \in Seq(A)
    BY <1>3, <1>4, <2>4, <2>6
  <2>8. PICK row, col : Places(row, col, f[k], k, seqs)
    BY <2>5, <2>6
  <2>9. f[k] \in Seq(A)
    BY <2>5, <2>6
  <2>10. \E newRow, newCol : Places(newRow, newCol, f[k] \o seqs[k + 1], k + 1, seqs)
    BY <2>7, <2>8, <2>9, PlacesOfNext
  <2>11. f[m] \in Seq(A)
    BY <2>7, <2>9, ConcatProperties
  <2>12. QED
    BY <2>2, <2>7, <2>10, <2>11
<1>6. Good(N)
  BY <1>1, <1>5
<1>7. QED
  BY <1>2, <1>6 DEF N

-----------------------------------------------------------------------------
(* What the layers hold                                                     *)
(*                                                                          *)
(* A message ends where a frame ends because the packets that it is put     *)
(* together from say truly where frames end.  So the invariant follows      *)
(* every packet, from the fragments of a frame to the message: it speaks of *)
(* the set of chunks that all layers and queues hold (Hold), and of what    *)
(* these chunks are (ReadChunk).                                            *)

\* Bytes of frames that were read from a tunnel.
ReadByte == {byte \in Byte : byte[2] \in 1..Len(tunnel_in[byte[1]])}

Chunk ==
  [type : {"Data", "DataAck"}, payload : Seq(Byte) \ {<<>>}, final : BOOLEAN]

SameChunk(first, second) ==
  first[1] = second[1] /\ first[2] = second[2] /\ ChunkOf(first) = ChunkOf(second)

\* A chunk is a part of one frame, and holds the last byte of the frame at its
\* end, and if it is final only.  Without acknowledgements there are none.
ReadChunk ==
  {chunk \in Chunk :
     /\ chunk.payload \in Seq(ReadByte)
     /\ \A i \in 1..Len(chunk.payload) :
          IsLastByte(chunk.payload[i]) <=> chunk.final /\ i = Len(chunk.payload)
     /\ \A i, j \in 1..Len(chunk.payload) : SameChunk(chunk.payload[i], chunk.payload[j])
     /\ chunk.type = "DataAck" => enabled}

\* A message holds the last byte of a frame at its end only.
ReadMessage ==
  {message \in Seq(ReadByte) :
     \A i \in 1..Len(message) : IsLastByte(message[i]) <=> i = Len(message)}

DataMail ==
  [type : {"Data", "DataAck"}, payload : Seq(Byte) \ {<<>>}, final : BOOLEAN,
   to : NodeId \cup {NoNeighbor}]

StackMail(C) == Packet \cup {packet \in DataMail : Unaddressed(packet) \in C}

\* All packets are of the chunks C, and all messages of the messages M.
LayersHold(C, M) ==
  /\ ack_queue \in [Node -> Seq(C)]
  /\ pending_packets \in [Node -> Seq([packet : C, times_sent : Nat])]
  /\ fragmented_packets \in [Node -> Seq({chunk \in C : ~chunk.final})]
  /\ upstream_buffer \in [Node -> Seq(M)]
  /\ tunnel_out \in [Node -> Seq(M)]

Hold(C, M) == QueueTypes(StackMail(C)) /\ LayersHold(C, M)

\* An acknowledgement is a chunk too, and chunks are put together to messages.
Carriable(C, M) ==
  /\ C \subseteq Chunk
  /\ enabled => \A chunk \in C : [chunk EXCEPT !.type = "DataAck"] \in C
  /\ \A chunks \in Seq({chunk \in C : ~chunk.final}) : \A last \in C :
       last.final =>
         FlattenSeq([i \in DOMAIN Append(chunks, last) |-> Append(chunks, last)[i].payload]) \in M

FirstKnown ==
  /\ first_neighbor \in [Node -> NodeId \cup {NoNeighbor}]
  /\ \A n \in Node : first_neighbor[n] \in neighbor_node_ids[n] \/ neighbor_node_ids[n] = {}

FewPending == \A n \in Node : Len(pending_packets[n]) <= MaxNumberOfPackets

\* The frames that wait are frames that were read, and none of them is empty.
FramesQueued ==
  /\ tunnel_in \in [Node -> Seq(Nat \ {0})]
  /\ \A n \in Node : \A i \in 1..Len(downstream_buffer[n]) :
       \E k \in 1..Len(tunnel_in[n]) : downstream_buffer[n][i] = Frame(n, k, tunnel_in[n][k])

Typed(C, M) == RadioTypes /\ FirstKnown /\ FewPending /\ Hold(C, M)

StackTypes == Typed(ReadChunk, ReadMessage) /\ BufferInv /\ FramesQueued

-----------------------------------------------------------------------------
(* Chunks and mail *)

LEMMA StackMailIsMail == \A C : IsMail(StackMail(C))
BY DEF IsMail, StackMail, DataMail, CarriesData

LEMMA MailOfChunk ==
  ASSUME NEW C, C \subseteq Chunk, NEW chunk \in C, NEW to \in NodeId \cup {NoNeighbor}
  PROVE  [type |-> chunk.type, payload |-> chunk.payload, final |-> chunk.final, to |-> to]
           \in StackMail(C)
<1> DEFINE packet == [type |-> chunk.type, payload |-> chunk.payload,
                      final |-> chunk.final, to |-> to]
<1>1. packet \in DataMail
  BY DEF Chunk, DataMail
<1>2. Unaddressed(packet) = chunk
  BY DEF Unaddressed, Chunk
<1>3. QED
  BY <1>1, <1>2 DEF StackMail

LEMMA ChunkOfMail ==
  ASSUME NEW C, NEW packet \in StackMail(C), CarriesData(packet)
  PROVE  Unaddressed(packet) \in C
BY DEF StackMail, CarriesData, Packet

\* The packets that a handler sends down go to the first neighbor, or nowhere.
LEMMA ReceiveFromUpstreamHolds ==
  ASSUME NEW C, C \subseteq Chunk, QueueTypes(StackMail(C)), FirstKnown, NEW n \in Node,
         NEW packets \in Seq(C), ReceiveFromUpstream(n, packets)
  PROVE  /\ packets_to_send' \in [Node -> Seq(StackMail(C))]
         /\ \A m \in Node : Len(packets_to_send'[m]) <= MaxQueued
<1>1. CASE UNCHANGED packets_to_send
  BY <1>1 DEF QueueTypes
<1>2. CASE /\ Len(packets_to_send[n]) + Len(packets) <= MaxQueued
           /\ packets_to_send' = [packets_to_send EXCEPT
                ![n] = @ \o [i \in DOMAIN packets |-> Addressed(n, packets[i])]]
  <2> DEFINE more == [i \in DOMAIN packets |-> Addressed(n, packets[i])]
  <2>1. DOMAIN packets = 1..Len(packets) /\ Len(packets) \in Nat
    BY LenProperties
  <2>2. first_neighbor[n] \in NodeId \cup {NoNeighbor}
    BY DEF FirstKnown
  <2>3. \A i \in 1..Len(packets) : Addressed(n, packets[i]) \in StackMail(C)
    BY <2>2, MailOfChunk, ElementOfSeq DEF Addressed
  <2>4. more \in Seq(StackMail(C)) /\ Len(more) = Len(packets)
    BY <2>1, <2>3, IsASeq
  <2> HIDE DEF more
  <2>5. packets_to_send[n] \in Seq(StackMail(C))
    BY DEF QueueTypes
  <2>6. packets_to_send[n] \o more \in Seq(StackMail(C))
        /\ Len(packets_to_send[n] \o more) = Len(packets_to_send[n]) + Len(more)
    BY <2>4, <2>5, ConcatProperties
  <2>7. packets_to_send' = [packets_to_send EXCEPT ![n] = packets_to_send[n] \o more]
    BY <1>2 DEF more
  <2>8. Len(packets_to_send'[n]) <= MaxQueued
    BY <1>2, <2>4, <2>6, <2>7 DEF QueueTypes
  <2>9. QED
    BY <2>6, <2>7, <2>8 DEF QueueTypes
<1>3. QED
  BY <1>1, <1>2 DEF ReceiveFromUpstream

-----------------------------------------------------------------------------
(* Helpers of the layers *)

LEMMA MinLeast ==
  ASSUME NEW S \in SUBSET Nat, S # {}
  PROVE  Min(S) \in S /\ \A k \in S : Min(S) <= k
<1>1. \E m \in S : \A k \in S : m <= k
  BY LeastElement
<1>2. QED
  BY <1>1 DEF Min

LEMMA RemoveAtProperties ==
  ASSUME NEW S, NEW s \in Seq(S), NEW i \in 1..Len(s)
  PROVE  /\ RemoveAt(s, i) \in Seq(S)
         /\ Len(RemoveAt(s, i)) = Len(s) - 1
         /\ \A j \in 1..Len(s) - 1 : RemoveAt(s, i)[j] = IF j < i THEN s[j] ELSE s[j + 1]
<1> DEFINE front == SubSeq(s, 1, i - 1)
           back == SubSeq(s, i + 1, Len(s))
           L == Len(s)
<1>1. L \in Nat /\ i \in 1..L
  BY LenProperties
<1>2. \A k \in 1..L : s[k] \in S
  BY ElementOfSeq
<1>3. front \in Seq(S) /\ Len(front) = i - 1 /\ \A j \in 1..i - 1 : front[j] = s[j]
  BY <1>1, <1>2, SubSeqProperties
<1>4. back \in Seq(S) /\ Len(back) = L - i /\ \A j \in 1..L - i : back[j] = s[i + j]
  BY <1>1, <1>2, SubSeqProperties
<1> HIDE DEF front, back, L
<1>5. /\ front \o back \in Seq(S)
      /\ Len(front \o back) = (i - 1) + (L - i)
      /\ \A j \in 1..(i - 1) + (L - i) :
           (front \o back)[j] = IF j <= i - 1 THEN front[j] ELSE back[j - (i - 1)]
  <2>1. /\ front \o back \in Seq(S)
        /\ Len(front \o back) = Len(front) + Len(back)
        /\ \A j \in 1..Len(front) + Len(back) :
             (front \o back)[j] = IF j <= Len(front) THEN front[j] ELSE back[j - Len(front)]
    BY <1>3, <1>4, ConcatProperties
  <2>2. Len(front) = i - 1 /\ Len(back) = L - i
    BY <1>3, <1>4
  <2>3. QED
    BY <2>1, <2>2, Zenon
<1>6. (i - 1) + (L - i) = L - 1
  BY <1>1
<1>7. ASSUME NEW j \in 1..L - 1
      PROVE  (front \o back)[j] = IF j < i THEN s[j] ELSE s[j + 1]
  <2>1. CASE j < i
    BY <1>1, <1>3, <1>5, <1>6, <2>1
  <2>2. CASE ~(j < i)
    <3>1. j - (i - 1) \in 1..L - i /\ i + (j - (i - 1)) = j + 1 /\ ~(j <= i - 1)
      BY <1>1, <2>2
    <3>2. QED
      BY <1>4, <1>5, <1>6, <2>2, <3>1
  <2>3. QED
    BY <2>1, <2>2
<1>8. RemoveAt(s, i) = front \o back
  BY DEF RemoveAt, front, back, L
<1>9. QED
  BY <1>5, <1>6, <1>7, <1>8 DEF L

-----------------------------------------------------------------------------
(* The layers *)

Pending(C) == [packet : C, times_sent : Nat]

LEMMA AckReceiveFromUpstreamHolds ==
  ASSUME NEW C, NEW M, Carriable(C, M), QueueTypes(StackMail(C)), LayersHold(C, M),
         FirstKnown, NEW n \in Node, NEW packets \in Seq(C),
         AckReceiveFromUpstream(n, packets)
  PROVE  /\ packets_to_send' \in [Node -> Seq(StackMail(C))]
         /\ \A m \in Node : Len(packets_to_send'[m]) <= MaxQueued
         /\ ack_queue' \in [Node -> Seq(C)]
<1>1. CASE ~enabled /\ ReceiveFromUpstream(n, packets) /\ UNCHANGED ack_queue
  BY <1>1, ReceiveFromUpstreamHolds DEF Carriable, LayersHold
<1>2. CASE ack_queue' = [ack_queue EXCEPT ![n] = @ \o packets] /\ UNCHANGED packets_to_send
  <2>1. ack_queue[n] \o packets \in Seq(C)
    BY ConcatProperties DEF LayersHold
  <2>2. QED
    BY <1>2, <2>1 DEF LayersHold, QueueTypes
<1>3. QED
  BY <1>1, <1>2 DEF AckReceiveFromUpstream

\* Acknowledged or spent packets are taken out one at a time.
LEMMA PendingRemoved ==
  ASSUME NEW C, NEW pending \in Seq(Pending(C)), NEW S \in SUBSET (1..Len(pending)), S # {}
  PROVE  /\ RemoveAt(pending, Min(S)) \in Seq(Pending(C))
         /\ Len(RemoveAt(pending, Min(S))) = Len(pending) - 1
<1>1. Len(pending) \in Nat
  BY LenProperties
<1>2. S \in SUBSET Nat
  BY <1>1
<1>3. Min(S) \in 1..Len(pending)
  BY <1>2, MinLeast
<1>4. QED
  BY <1>3, RemoveAtProperties

LEMMA AckReceiveFromDownstreamHolds ==
  ASSUME NEW C, NEW M, Carriable(C, M), QueueTypes(StackMail(C)), LayersHold(C, M),
         FirstKnown, FewPending, NEW n \in Node, NEW packet \in C,
         AckReceiveFromDownstream(n, packet)
  PROVE  /\ packets_to_send' \in [Node -> Seq(StackMail(C))]
         /\ \A m \in Node : Len(packets_to_send'[m]) <= MaxQueued
         /\ pending_packets' \in [Node -> Seq(Pending(C))]
         /\ FewPending'
         /\ UNCHANGED <<enabled, ack_queue>>
<1>1. UNCHANGED <<enabled, ack_queue>>
  BY DEF AckReceiveFromDownstream
<1>2. CASE UNCHANGED <<pending_packets, packets_to_send>>
  BY <1>1, <1>2 DEF LayersHold, QueueTypes, FewPending, Pending
<1>3. CASE enabled /\ SendAck(n, packet) /\ UNCHANGED pending_packets
  <2> DEFINE ack == [packet EXCEPT !.type = "DataAck"]
  <2>1. ack \in C
    BY <1>3 DEF Carriable
  <2> HIDE DEF ack
  <2>2. <<ack>> \in Seq(C)
    BY <2>1
  <2>3. ReceiveFromUpstream(n, <<ack>>)
    BY <1>3 DEF SendAck, ack
  <2>4. QED
    BY <1>1, <1>3, <2>2, <2>3, ReceiveFromUpstreamHolds
       DEF Carriable, LayersHold, FewPending, Pending
<1>4. CASE HandleAck(n, packet) /\ UNCHANGED packets_to_send
  <2>1. CASE UNCHANGED pending_packets
    BY <1>1, <1>4, <2>1 DEF LayersHold, QueueTypes, FewPending, Pending
  <2>2. CASE /\ Acknowledged(n, packet) # {}
             /\ pending_packets' = [pending_packets EXCEPT
                  ![n] = RemoveAt(@, Min(Acknowledged(n, packet)))]
    <3> DEFINE pending == pending_packets[n]
               S == Acknowledged(n, packet)
    <3>1. S \in SUBSET (1..Len(pending))
      BY DEF Acknowledged
    <3>2. pending \in Seq(Pending(C))
      BY DEF LayersHold, Pending
    <3>3. Len(pending) \in Nat /\ Len(pending) <= MaxNumberOfPackets
      BY <3>2, LenProperties DEF FewPending
    <3>4. pending_packets' = [pending_packets EXCEPT ![n] = RemoveAt(pending, Min(S))] /\ S # {}
      BY <2>2
    <3> HIDE DEF S, pending
    <3>5. /\ RemoveAt(pending, Min(S)) \in Seq(Pending(C))
          /\ Len(RemoveAt(pending, Min(S))) = Len(pending) - 1
      BY <3>1, <3>2, <3>4, PendingRemoved
    <3>6. Len(RemoveAt(pending, Min(S))) <= MaxNumberOfPackets
      BY <3>3, <3>5, AckAssumption
    <3>7. QED
      BY <1>1, <1>4, <3>4, <3>5, <3>6 DEF LayersHold, QueueTypes, FewPending, Pending
  <2>3. QED
    BY <1>4, <2>1, <2>2 DEF HandleAck
<1>5. QED
  BY <1>2, <1>3, <1>4 DEF AckReceiveFromDownstream

\* The packet that Run lets become pending.
LEMMA AdmittedType ==
  ASSUME NEW C, NEW M, LayersHold(C, M), FewPending, NEW n \in Node
  PROVE  /\ Admitted(n) \in Seq(Pending(C))
         /\ Len(pending_packets[n] \o Admitted(n)) <= MaxNumberOfPackets
         /\ pending_packets[n] \o Admitted(n) \in Seq(Pending(C))
         /\ [i \in DOMAIN Admitted(n) |-> Admitted(n)[i].packet] \in Seq(C)
         /\ Admits(n) => ack_queue[n] # <<>> /\ Tail(ack_queue[n]) \in Seq(C)
<1>1. pending_packets[n] \in Seq(Pending(C)) /\ ack_queue[n] \in Seq(C)
  BY DEF LayersHold, Pending
<1>2. Len(pending_packets[n]) \in Nat /\ Len(pending_packets[n]) <= MaxNumberOfPackets
  BY <1>1, LenProperties DEF FewPending
<1>3. CASE Admits(n)
  <2> DEFINE entry == [packet |-> Head(ack_queue[n]), times_sent |-> 1]
  <2>1. ack_queue[n] # <<>> /\ Len(pending_packets[n]) < MaxNumberOfPackets
    BY <1>3 DEF Admits
  <2>2. Head(ack_queue[n]) \in C /\ Tail(ack_queue[n]) \in Seq(C)
    BY <1>1, <2>1, HeadTailProperties
  <2>3. entry \in Pending(C) /\ entry.packet \in C
    BY <2>2 DEF Pending
  <2>4. Admitted(n) = <<entry>>
    BY <1>3 DEF Admitted
  <2> HIDE DEF entry
  <2>5. <<entry>> \in Seq(Pending(C)) /\ Len(<<entry>>) = 1 /\ DOMAIN <<entry>> = 1..1
    BY <2>3
  <2>6. Len(pending_packets[n] \o <<entry>>) = Len(pending_packets[n]) + 1
        /\ pending_packets[n] \o <<entry>> \in Seq(Pending(C))
    BY <1>1, <2>5, ConcatProperties
  <2>7. [i \in 1..1 |-> <<entry>>[i].packet] \in Seq(C)
    <3>1. \A i \in 1..1 : <<entry>>[i].packet \in C
      BY <2>3
    <3>2. QED
      BY <3>1, IsASeq
  <2>8. QED
    BY <1>2, <2>1, <2>2, <2>4, <2>5, <2>6, <2>7, AckAssumption
<1>4. CASE ~Admits(n)
  <2>1. Admitted(n) = <<>>
    BY <1>4 DEF Admitted
  <2>2. pending_packets[n] \o <<>> = pending_packets[n]
    BY <1>1, ConcatEmptySeq
  <2>3. <<>> \in Seq(Pending(C)) /\ <<>> \in Seq(C) /\ DOMAIN <<>> = {}
    BY EmptySeq
  <2>4. [i \in DOMAIN <<>> |-> <<>>[i].packet] = <<>>
    BY <2>3
  <2>5. QED
    BY <1>1, <1>2, <1>4, <2>1, <2>2, <2>3, <2>4
<1>5. QED
  BY <1>3, <1>4

SentAdmitted(n, packets) ==
  \A i \in DOMAIN Admitted(n) : \E j \in 1..Len(packets) : packets[j] = Admitted(n)[i].packet

OnlySpentGone(pending, left) ==
  \A i \in DOMAIN pending :
    \/ pending[i].times_sent > kMaxTimesSent
    \/ \E j \in 1..Len(left) : left[j].packet = pending[i].packet

\* What Run sends, and what is pending after it, was pending or is admitted.  It
\* sends what is admitted, and forgets only what was sent too often.
LEMMA AckRunSends ==
  ASSUME NEW C, NEW n \in Node, AckRun(n),
         pending_packets[n] \o Admitted(n) \in Seq(Pending(C)),
         Len(pending_packets[n] \o Admitted(n)) <= MaxNumberOfPackets,
         [i \in DOMAIN Admitted(n) |-> Admitted(n)[i].packet] \in Seq(C)
  PROVE  \E packets \in Seq(C), left \in Seq(Pending(C)) :
           /\ ReceiveFromUpstream(n, packets)
           /\ pending_packets' = [pending_packets EXCEPT ![n] = left]
           /\ Len(left) <= MaxNumberOfPackets
           /\ SentAdmitted(n, packets)
           /\ OnlySpentGone(pending_packets[n] \o Admitted(n), left)
<1> DEFINE pending == pending_packets[n] \o Admitted(n)
           old == Considered(pending) \cap DOMAIN pending_packets[n]
           new == [i \in DOMAIN Admitted(n) |-> Admitted(n)[i].packet]
           Overdues == {i \in old : Overdue(n, pending[i].packet)}
           Sent(resend) == [i \in DOMAIN pending |->
                              IF i \in ToSet(resend)
                              THEN [pending[i] EXCEPT !.times_sent = TimesSent(@)]
                              ELSE pending[i]]
<1>1. PICK resend \in Ascending(Overdues) :
        /\ pending_packets' = [pending_packets EXCEPT
             ![n] = IF Spent(pending) = {} THEN Sent(resend)
                    ELSE RemoveAt(Sent(resend), Min(Spent(pending)))]
        /\ ReceiveFromUpstream(n, new \o Resent(pending, resend))
  BY Zenon DEF AckRun
<1>2. /\ pending \in Seq(Pending(C)) /\ Len(pending) <= MaxNumberOfPackets
      /\ new \in Seq(C)
  OBVIOUS
<1> DEFINE L == Len(pending)
<1>3. L \in Nat /\ DOMAIN pending = 1..L /\ \A i \in 1..L : pending[i] \in Pending(C)
  BY <1>2, LenProperties, ElementOfSeq
<1>4. Overdues \subseteq 1..L /\ Spent(pending) \subseteq 1..L
  BY <1>3 DEF Considered, Spent
<1> HIDE DEF pending, L, Overdues, new
<1>5. resend \in Seq(1..L) /\ DOMAIN resend = 1..Len(resend) /\ Len(resend) \in Nat
  <2>1. IsFiniteSet(Overdues)
    <3>1. IsFiniteSet(1..L)
      BY <1>3, FS_Interval
    <3>2. QED
      BY <1>4, <3>1, FS_Subset
  <2>2. resend \in Seq(Overdues) /\ DOMAIN resend = 1..Len(resend) /\ Len(resend) \in Nat
    BY <2>1, AscendingType
  <2>3. QED
    BY <1>4, <2>2, SeqWider
<1>6. Resent(pending, resend) \in Seq(C)
  <2>1. \A i \in 1..Len(resend) : pending[resend[i]].packet \in C
    BY <1>3, <1>5, ElementOfSeq DEF Pending
  <2>2. Resent(pending, resend) = [i \in 1..Len(resend) |-> pending[resend[i]].packet]
    BY <1>5 DEF Resent
  <2>3. QED
    BY <1>5, <2>1, <2>2, IsASeq
<1>7. new \o Resent(pending, resend) \in Seq(C)
  BY <1>2, <1>6, ConcatProperties
<1> DEFINE sent == Sent(resend)
<1>8. sent \in Seq(Pending(C)) /\ Len(sent) = L
  <2>1. ASSUME NEW i \in 1..L
        PROVE  [pending[i] EXCEPT !.times_sent = TimesSent(@)] \in Pending(C)
    <3>1. pending[i].times_sent \in Nat
      BY <1>3 DEF Pending
    <3>2. TimesSent(pending[i].times_sent) \in Nat
      BY <3>1 DEF TimesSent
    <3>3. QED
      BY <1>3, <3>2 DEF Pending
  <2>2. sent = [i \in 1..L |-> IF i \in ToSet(resend)
                               THEN [pending[i] EXCEPT !.times_sent = TimesSent(@)]
                               ELSE pending[i]]
    BY <1>3
  <2>3. QED
    BY <1>3, <2>1, <2>2, IsASeq
<1> DEFINE left == IF Spent(pending) = {} THEN sent ELSE RemoveAt(sent, Min(Spent(pending)))
<1>9. pending_packets' = [pending_packets EXCEPT ![n] = left]
  BY <1>1
<1> HIDE DEF sent
<1>10. left \in Seq(Pending(C)) /\ Len(left) <= MaxNumberOfPackets
  <2>1. CASE Spent(pending) = {}
    BY <1>2, <1>8, <2>1 DEF L
  <2>2. CASE Spent(pending) # {}
    <3>1. left = RemoveAt(sent, Min(Spent(pending)))
      BY <2>2
    <3>2. left \in Seq(Pending(C)) /\ Len(left) = L - 1
      BY <1>4, <1>8, <2>2, <3>1, PendingRemoved
    <3> HIDE DEF left
    <3>3. QED
      BY <1>2, <1>3, <3>2, AckAssumption DEF L
  <2>3. QED
    BY <2>1, <2>2
<1>11. ASSUME NEW i \in 1..L
       PROVE  \/ pending[i].times_sent > kMaxTimesSent
              \/ \E j \in 1..Len(left) : left[j].packet = pending[i].packet
  <2>1. \A j \in 1..L : sent[j].packet = pending[j].packet
    BY <1>3 DEF sent, Pending
  <2>2. CASE Spent(pending) = {}
    BY <1>8, <2>1, <2>2
  <2>3. CASE Spent(pending) # {}
    <3> DEFINE gone == Min(Spent(pending))
    <3>1. Spent(pending) \subseteq Nat
      BY <1>3, <1>4
    <3>2. gone \in Spent(pending)
      BY <2>3, <3>1, MinLeast
    <3>3. gone \in 1..L /\ pending[gone].times_sent > kMaxTimesSent
      BY <1>4, <3>2 DEF Spent
    <3>4. left = RemoveAt(sent, gone)
      BY <2>3
    <3> HIDE DEF gone, left
    <3>5. /\ Len(left) = L - 1
          /\ \A j \in 1..L - 1 : left[j] = IF j < gone THEN sent[j] ELSE sent[j + 1]
      BY <1>8, <3>3, <3>4, RemoveAtProperties
    <3>6. CASE i = gone
      BY <3>3, <3>6
    <3>7. CASE i < gone
      <4>1. i \in 1..L - 1 /\ left[i] = sent[i]
        BY <1>3, <3>3, <3>5, <3>7
      <4>2. QED
        BY <2>1, <3>5, <4>1
    <3>8. CASE i > gone
      <4>1. i - 1 \in 1..L - 1 /\ left[i - 1] = sent[i]
        BY <1>3, <3>3, <3>5, <3>8
      <4>2. QED
        BY <2>1, <3>5, <4>1
    <3>9. QED
      BY <1>3, <3>3, <3>6, <3>7, <3>8
  <2>4. QED
    BY <2>2, <2>3
<1> DEFINE packets == new \o Resent(pending, resend)
<1>12. \A i \in DOMAIN Admitted(n) : \E j \in 1..Len(packets) : packets[j] = Admitted(n)[i].packet
  <2>1. /\ Len(new) \in Nat /\ Len(Resent(pending, resend)) \in Nat /\ DOMAIN new = 1..Len(new)
        /\ Len(packets) = Len(new) + Len(Resent(pending, resend))
        /\ \A j \in 1..Len(new) : packets[j] = new[j]
    BY <1>2, <1>6, LenProperties, ConcatProperties
  <2>2. DOMAIN new = DOMAIN Admitted(n)
        /\ \A i \in DOMAIN Admitted(n) : new[i] = Admitted(n)[i].packet
    BY DEF new
  <2> HIDE DEF packets
  <2>3. QED
    BY <2>1, <2>2
<1> HIDE DEF left, packets
<1>13. packets \in Seq(C) /\ ReceiveFromUpstream(n, packets)
  BY <1>1, <1>7 DEF packets
<1>14. \A i \in DOMAIN pending :
         \/ pending[i].times_sent > kMaxTimesSent
         \/ \E j \in 1..Len(left) : left[j].packet = pending[i].packet
  BY <1>3, <1>11
<1>15. QED
  BY <1>9, <1>10, <1>12, <1>13, <1>14 DEF pending, SentAdmitted, OnlySpentGone

LEMMA AckRunHolds ==
  ASSUME NEW C, NEW M, Carriable(C, M), QueueTypes(StackMail(C)), LayersHold(C, M),
         FirstKnown, FewPending, NEW n \in Node, AckRun(n)
  PROVE  /\ packets_to_send' \in [Node -> Seq(StackMail(C))]
         /\ \A m \in Node : Len(packets_to_send'[m]) <= MaxQueued
         /\ ack_queue' \in [Node -> Seq(C)]
         /\ pending_packets' \in [Node -> Seq(Pending(C))]
         /\ FewPending'
<1>1. PICK packets \in Seq(C), left \in Seq(Pending(C)) :
        /\ ReceiveFromUpstream(n, packets)
        /\ pending_packets' = [pending_packets EXCEPT ![n] = left]
        /\ Len(left) <= MaxNumberOfPackets
  BY AdmittedType, AckRunSends
<1>2. packets_to_send' \in [Node -> Seq(StackMail(C))]
      /\ \A m \in Node : Len(packets_to_send'[m]) <= MaxQueued
  BY <1>1, ReceiveFromUpstreamHolds DEF Carriable
<1>3. ack_queue' \in [Node -> Seq(C)]
  <2>1. ack_queue' = [ack_queue EXCEPT ![n] = IF Admits(n) THEN Tail(@) ELSE @]
    BY DEF AckRun
  <2>2. Admits(n) => Tail(ack_queue[n]) \in Seq(C)
    BY AdmittedType
  <2>3. QED
    BY <2>1, <2>2 DEF LayersHold
<1>4. QED
  BY <1>1, <1>2, <1>3 DEF LayersHold, FewPending, Pending

-----------------------------------------------------------------------------
(* Fragments *)

LEMMA TimesGrows ==
  ASSUME NEW a \in Nat, NEW b \in Nat, NEW p \in Nat, a <= b
  PROVE  a * p <= b * p /\ a * p \in Nat
OBVIOUS

\* So many packets are just enough.
LEMMA NumberOfPacketsFits ==
  ASSUME NEW size \in Nat \ {0}
  PROVE  /\ NumberOfPackets(size) \in Nat \ {0}
         /\ (NumberOfPackets(size) - 1) * PACKET_PAYLOAD_SIZE < size
         /\ size <= NumberOfPackets(size) * PACKET_PAYLOAD_SIZE
<1> DEFINE P == PACKET_PAYLOAD_SIZE
           Q == (size + P - 1) \div P
           R == (size + P - 1) % P
<1>1. P \in Nat \ {0}
  BY FragmentationAssumption
<1> HIDE DEF P
<1>2. Q \in Nat /\ R \in 0..P - 1 /\ size + P - 1 = P * Q + R
  BY <1>1
<1>3. NumberOfPackets(size) = Q
  BY DEF NumberOfPackets, P
<1> HIDE DEF Q, R
<1>4. P * Q = Q * P /\ (Q - 1) * P = Q * P - P
  BY <1>1, <1>2
<1> DEFINE T == Q * P
<1>5. T \in Nat /\ size + P - 1 = T + R
  BY <1>1, <1>2, <1>4
<1>6. Q # 0
  <2>1. CASE Q = 0
    <3>1. T = 0
      BY <1>1, <2>1
    <3>2. QED
      BY <1>1, <1>2, <1>5, <3>1
  <2>2. QED
    BY <2>1
<1>7. (Q - 1) * P = T - P
  BY <1>4
<1> HIDE DEF T
<1>8. T - P < size /\ size <= T
  BY <1>1, <1>2, <1>5
<1>9. QED
  BY <1>2, <1>3, <1>6, <1>7, <1>8 DEF P, T

LEMMA DivOfProduct ==
  ASSUME NEW a \in Nat, NEW p \in Nat \ {0}, NEW r \in 0..p - 1
  PROVE  (a * p + r) \div p = a
<1> DEFINE s == a * p + r
           q == s \div p
<1>1. a * p \in Nat /\ s \in Nat
  OBVIOUS
<1>2. q \in Nat /\ s % p \in 0..p - 1 /\ s = p * q + (s % p)
  BY <1>1
<1>3. p * q = q * p /\ q * p \in Nat
  BY <1>2
<1> HIDE DEF q
<1>4. CASE q < a
  <2>1. q + 1 \in Nat /\ q + 1 <= a /\ (q + 1) * p = q * p + p
    BY <1>2, <1>4
  <2>2. (q + 1) * p <= a * p
    BY <2>1, TimesGrows
  <2>3. QED
    BY <1>1, <1>2, <1>3, <2>1, <2>2
<1>5. CASE a < q
  <2>1. a + 1 \in Nat /\ a + 1 <= q /\ (a + 1) * p = a * p + p
    BY <1>2, <1>5
  <2>2. (a + 1) * p <= q * p
    BY <1>2, <2>1, TimesGrows
  <2>3. QED
    BY <1>1, <1>2, <1>3, <2>1, <2>2
<1>6. QED
  BY <1>2, <1>4, <1>5 DEF q

LEMMA MinOfTwo ==
  ASSUME NEW a \in Nat, NEW b \in Nat
  PROVE  Min({a, b}) = IF a <= b THEN a ELSE b
<1>1. Min({a, b}) \in {a, b} /\ \A k \in {a, b} : Min({a, b}) <= k
  <2>1. {a, b} \in SUBSET Nat /\ {a, b} # {}
    OBVIOUS
  <2>2. QED
    BY <2>1, MinLeast
<1>2. QED
  BY <1>1

\* The i-th fragment is a part of the data from (i - 1) * PACKET_PAYLOAD_SIZE on.
\* Only the last one reaches the end.
FragmentAt(i, fragment, data) ==
  LET begin == (i - 1) * PACKET_PAYLOAD_SIZE
      payload == fragment.payload
      N == NumberOfPackets(Len(data))
  IN  /\ fragment = [type |-> "Data", payload |-> payload, final |-> i = N]
      /\ fragment.type = "Data" /\ (fragment.final <=> i = N)
      /\ begin \in Nat /\ Len(payload) \in 1..PACKET_PAYLOAD_SIZE
      /\ i # N => Len(payload) = PACKET_PAYLOAD_SIZE
      /\ begin + Len(payload) <= Len(data)
      /\ begin + Len(payload) = Len(data) <=> i = N
      /\ \A j \in 1..Len(payload) : payload[j] = data[begin + j]

LEMMA FragmentsProperties ==
  ASSUME NEW A, NEW data \in Seq(A), data # <<>>
  PROVE  /\ Len(Fragments(data)) = NumberOfPackets(Len(data))
         /\ DOMAIN Fragments(data) = 1..NumberOfPackets(Len(data))
         /\ \A i \in 1..NumberOfPackets(Len(data)) :
              /\ Fragments(data)[i].payload \in Seq(A)
              /\ FragmentAt(i, Fragments(data)[i], data)
<1> DEFINE P == PACKET_PAYLOAD_SIZE
           L == Len(data)
           N == NumberOfPackets(L)
           Payload(i) == SubSeq(data, (i - 1) * P + 1, Min({i * P, L}))
<1>1. P \in Nat \ {0} /\ L \in Nat \ {0}
  BY FragmentationAssumption, LenProperties, EmptySeq
<1>2. N \in Nat \ {0} /\ (N - 1) * P < L /\ L <= N * P
  BY <1>1, NumberOfPacketsFits
<1>3. Fragments(data) = [i \in 1..N |-> [type |-> "Data", payload |-> Payload(i), final |-> i = N]]
  BY DEF Fragments
<1> HIDE DEF P, L, N
<1>4. Len(Fragments(data)) = N /\ DOMAIN Fragments(data) = 1..N
  BY <1>2, <1>3
<1>5. \A k \in 1..L : data[k] \in A
  BY ElementOfSeq DEF L
<1>6. ASSUME NEW i \in 1..N
      PROVE  Fragments(data)[i].payload \in Seq(A) /\ FragmentAt(i, Fragments(data)[i], data)
  <2> DEFINE begin == (i - 1) * P
             end == Min({i * P, L})
  <2>1. begin \in Nat /\ begin < L
    <3>1. i - 1 \in Nat /\ N - 1 \in Nat /\ i - 1 <= N - 1
      BY <1>2
    <3>2. begin <= (N - 1) * P /\ begin \in Nat /\ (N - 1) * P \in Nat
      BY <1>1, <3>1, TimesGrows
    <3>3. QED
      BY <1>1, <1>2, <3>2
  <2>2. i * P = begin + P /\ i * P \in Nat
    <3>1. i \in Nat
      BY <1>2
    <3>2. QED
      BY <1>1, <3>1
  <2>3. i = N \/ i * P < L
    <3>1. CASE i # N
      <4>1. i \in Nat /\ N - 1 \in Nat /\ i <= N - 1
        BY <1>2, <3>1
      <4>2. i * P <= (N - 1) * P /\ (N - 1) * P \in Nat
        BY <1>1, <4>1, TimesGrows
      <4>3. QED
        BY <1>1, <1>2, <2>2, <4>2
    <3>2. QED
      BY <3>1
  <2>4. i = N => L <= i * P
    BY <1>2
  <2>5. end = IF i * P <= L THEN i * P ELSE L
    BY <1>1, <2>2, MinOfTwo
  <2> HIDE DEF begin, end
  <2>6. end \in Nat /\ begin < end /\ end <= begin + P /\ end <= L /\ (end = L <=> i = N)
        /\ (i # N => end = begin + P)
    BY <1>1, <2>1, <2>2, <2>3, <2>4, <2>5
  <2> DEFINE payload == SubSeq(data, begin + 1, end)
  <2>7. payload \in Seq(A) /\ Len(payload) = end - begin
        /\ \A j \in 1..end - begin : payload[j] = data[begin + j]
    <3>1. \A k \in begin + 1..end : data[k] \in A
      BY <1>1, <1>5, <2>1, <2>6
    <3>2. /\ payload \in Seq(A)
          /\ Len(payload) = IF begin + 1 <= end THEN end - (begin + 1) + 1 ELSE 0
          /\ \A j \in 1..end - (begin + 1) + 1 : payload[j] = data[(begin + 1) + j - 1]
      <4>1. begin + 1 \in Int /\ end \in Int
        BY <2>1, <2>6
      <4>2. QED
        BY <3>1, <4>1, SubSeqProperties
    <3>3. end - (begin + 1) + 1 = end - begin /\ begin + 1 <= end
      BY <2>1, <2>6
    <3>4. \A j \in 1..end - begin : (begin + 1) + j - 1 = begin + j
      BY <2>1, <2>6
    <3>5. QED
      BY <3>2, <3>3, <3>4
  <2> HIDE DEF payload
  <2>8. Fragments(data)[i] = [type |-> "Data", payload |-> payload, final |-> i = N]
    BY <1>3 DEF payload, begin, end
  <2>9. Len(payload) \in 1..P /\ (i # N => Len(payload) = P) /\ begin + Len(payload) <= L
        /\ (begin + Len(payload) = L <=> i = N)
    BY <1>1, <2>1, <2>6, <2>7
  <2>10. Fragments(data)[i].payload = payload /\ Fragments(data)[i].type = "Data"
    BY <2>8
  <2>11. Fragments(data)[i].final <=> i = N
    <3>1. CASE i = N
      <4>1. Fragments(data)[i] = [type |-> "Data", payload |-> payload, final |-> TRUE]
        BY <2>8, <3>1
      <4>2. QED
        BY <3>1, <4>1
    <3>2. CASE i # N
      <4>1. Fragments(data)[i] = [type |-> "Data", payload |-> payload, final |-> FALSE]
        BY <2>8, <3>2
      <4>2. Fragments(data)[i].final = FALSE
        BY <4>1
      <4>3. QED
        BY <3>2, <4>2
    <3>3. QED
      BY <3>1, <3>2
  <2>12. QED
    BY <2>1, <2>7, <2>8, <2>9, <2>10, <2>11 DEF begin, FragmentAt, P, L, N
<1>7. QED
  BY <1>4, <1>6 DEF L, N

\* The fragments of a frame that was read say truly where the frame ends.
LEMMA FrameFragments ==
  ASSUME FramesQueued, NEW n \in Node, NEW k \in 1..Len(tunnel_in[n])
  PROVE  /\ Frame(n, k, tunnel_in[n][k]) \in Seq(ReadByte)
         /\ Fragments(Frame(n, k, tunnel_in[n][k])) \in Seq(ReadChunk)
<1> DEFINE L == tunnel_in[n][k]
           frame == Frame(n, k, L)
           N == NumberOfPackets(Len(frame))
           P == PACKET_PAYLOAD_SIZE
<1>1. tunnel_in[n] \in Seq(Nat \ {0}) /\ k \in Nat
  BY LenProperties DEF FramesQueued
<1>2. L \in Nat \ {0}
  BY <1>1, ElementOfSeq
<1> HIDE DEF L, N
<1>3. frame = [j \in 1..L |-> <<n, k, j>>]
  BY DEF Frame
<1>4. \A j \in 1..L : <<n, k, j>> \in ReadByte /\ (IsLastByte(<<n, k, j>>) <=> j = L)
  BY <1>1, <1>2 DEF ReadByte, Byte, IsLastByte, L
<1>5. frame \in Seq(ReadByte) /\ Len(frame) = L
  BY <1>2, <1>3, <1>4, IsASeq
<1> HIDE DEF frame
<1>6. frame # <<>>
  BY <1>2, <1>5, EmptySeq
<1>7. /\ DOMAIN Fragments(frame) = 1..N /\ Len(Fragments(frame)) = N
      /\ \A i \in 1..N :
           LET begin == (i - 1) * P
               payload == Fragments(frame)[i].payload
           IN  /\ Fragments(frame)[i] = [type |-> "Data", payload |-> payload, final |-> i = N]
               /\ payload \in Seq(ReadByte) /\ begin \in Nat
               /\ Len(payload) \in 1..P
               /\ begin + Len(payload) <= Len(frame)
               /\ begin + Len(payload) = Len(frame) <=> i = N
               /\ \A j \in 1..Len(payload) : payload[j] = frame[begin + j]
  <2>1. /\ DOMAIN Fragments(frame) = 1..N /\ Len(Fragments(frame)) = N
        /\ \A i \in 1..N : /\ Fragments(frame)[i].payload \in Seq(ReadByte)
                           /\ FragmentAt(i, Fragments(frame)[i], frame)
    BY <1>5, <1>6, FragmentsProperties DEF N
  <2> HIDE DEF N, P
  <2>2. QED
    BY <2>1 DEF FragmentAt, N, P
<1>9. N \in Nat
  BY <1>2, <1>5, NumberOfPacketsFits DEF N
<1>8. ASSUME NEW i \in 1..N PROVE Fragments(frame)[i] \in ReadChunk
  <2> DEFINE begin == (i - 1) * P
             payload == Fragments(frame)[i].payload
  <2>1. /\ Fragments(frame)[i] = [type |-> "Data", payload |-> payload, final |-> i = N]
        /\ payload \in Seq(ReadByte) /\ begin \in Nat
        /\ Len(payload) \in 1..P
        /\ begin + Len(payload) <= L
        /\ begin + Len(payload) = L <=> i = N
        /\ \A j \in 1..Len(payload) : payload[j] = frame[begin + j]
    BY <1>5, <1>7
  <2>2. P \in Nat
    BY FragmentationAssumption
  <2> HIDE DEF begin, payload, P
  <2>3. payload \in Seq(Byte) \ {<<>>}
    <3>1. ReadByte \subseteq Byte
      BY DEF ReadByte
    <3>2. payload \in Seq(Byte)
      BY <2>1, <3>1, SeqWider
    <3>3. payload # <<>>
      BY <2>1, <2>2, EmptySeq
    <3>4. QED
      BY <3>2, <3>3
  <2>4. ASSUME NEW j \in 1..Len(payload)
        PROVE  IsLastByte(payload[j]) <=> i = N /\ j = Len(payload)
    <3>1. begin + j \in 1..L /\ (begin + j = L <=> i = N /\ j = Len(payload))
      BY <1>2, <2>1, <2>2
    <3>2. payload[j] = <<n, k, begin + j>>
      BY <1>3, <2>1, <3>1
    <3>3. QED
      BY <1>4, <3>1, <3>2
  <2>5. ASSUME NEW j \in 1..Len(payload), NEW l \in 1..Len(payload)
        PROVE  SameChunk(payload[j], payload[l])
    <3>1. ASSUME NEW m \in 1..Len(payload)
          PROVE  payload[m] = <<n, k, begin + m>> /\ ChunkOf(payload[m]) = i - 1
      <4>1. begin + m \in 1..L
        BY <1>2, <2>1, <2>2
      <4>2. payload[m] = <<n, k, begin + m>>
        BY <1>3, <2>1, <4>1
      <4>3. i - 1 \in Nat /\ m - 1 \in 0..P - 1 /\ P \in Nat \ {0}
        BY <1>9, <2>1, FragmentationAssumption DEF P
      <4>4. (begin + (m - 1)) \div P = i - 1
        BY <4>3, DivOfProduct DEF begin
      <4>5. payload[m][3] = begin + m
        BY <4>2
      <4>6. ChunkOf(payload[m]) = (payload[m][3] - 1) \div P
        BY DEF ChunkOf, P
      <4>7. (begin + m) - 1 = begin + (m - 1)
        BY <2>1, <4>3
      <4>8. QED
        BY <4>2, <4>4, <4>5, <4>6, <4>7
    <3>2. QED
      BY <3>1 DEF SameChunk
  <2>6. Fragments(frame)[i] \in Chunk
    BY <2>1, <2>3 DEF Chunk
  <2>7. Fragments(frame)[i].payload = payload /\ Fragments(frame)[i].final = (i = N)
        /\ Fragments(frame)[i].type = "Data"
    BY <2>1
  <2>8. QED
    BY <2>1, <2>4, <2>5, <2>6, <2>7 DEF ReadChunk
<1>10. Fragments(frame) = [i \in 1..N |-> Fragments(frame)[i]]
  BY DEF Fragments, N
<1>11. Fragments(frame) \in Seq(ReadChunk)
  BY <1>8, <1>9, <1>10, IsASeq
<1>12. QED
  BY <1>5, <1>11 DEF frame, L

-----------------------------------------------------------------------------
(* What chunks and messages are made of *)

LEMMA AppendChunks ==
  ASSUME NEW C, NEW chunks \in Seq({chunk \in C : ~chunk.final}), NEW last \in C, last.final
  PROVE  /\ Len(chunks) \in Nat
         /\ Append(chunks, last) \in Seq(C)
         /\ Len(Append(chunks, last)) = Len(chunks) + 1
         /\ \A i \in 1..Len(chunks) + 1 : Append(chunks, last)[i].final <=> i = Len(chunks) + 1
<1>1. Len(chunks) \in Nat
  BY LenProperties
<1>2. \A i \in 1..Len(chunks) : chunks[i] \in C /\ ~chunks[i].final
  BY ElementOfSeq
<1>3. chunks \in Seq(C)
  BY SeqWider
<1>4. /\ Append(chunks, last) \in Seq(C)
      /\ Len(Append(chunks, last)) = Len(chunks) + 1
      /\ \A i \in 1..Len(chunks) : Append(chunks, last)[i] = chunks[i]
      /\ Append(chunks, last)[Len(chunks) + 1] = last
  BY <1>3, AppendProperties
<1>5. ASSUME NEW i \in 1..Len(chunks) + 1
      PROVE  Append(chunks, last)[i].final <=> i = Len(chunks) + 1
  <2>1. CASE i = Len(chunks) + 1
    BY <1>4, <2>1
  <2>2. CASE i # Len(chunks) + 1
    <3>1. i \in 1..Len(chunks)
      BY <1>1, <2>2
    <3>2. QED
      BY <1>2, <1>4, <2>2, <3>1
  <2>3. QED
    BY <2>1, <2>2
<1>6. QED
  BY <1>1, <1>4, <1>5

\* A final chunk completes a message: chunks that are not final hold no last
\* byte, and of the final one the last byte is the last of the message.
LEMMA MessageRead ==
  ASSUME NEW chunks \in Seq({chunk \in ReadChunk : ~chunk.final}),
         NEW last \in ReadChunk, last.final
  PROVE  FlattenSeq([i \in DOMAIN Append(chunks, last) |-> Append(chunks, last)[i].payload])
           \in ReadMessage
<1> DEFINE all == Append(chunks, last)
           N == Len(chunks) + 1
           payloads == [i \in 1..N |-> all[i].payload]
           flat == FlattenSeq(payloads)
<1>1. N \in Nat \ {0} /\ all \in Seq(ReadChunk) /\ Len(all) = N
      /\ \A i \in 1..N : all[i].final <=> i = N
  BY AppendChunks
<1> HIDE DEF all, N
<1>2. \A i \in 1..N : /\ all[i] \in ReadChunk
                      /\ all[i].payload \in Seq(ReadByte) \ {<<>>}
  <2>1. \A chunk \in ReadChunk : chunk.payload \in Seq(ReadByte) /\ chunk.payload # <<>>
    BY DEF ReadChunk, Chunk
  <2>2. \A i \in 1..N : all[i] \in ReadChunk
    BY <1>1, ElementOfSeq
  <2>3. QED
    BY <2>1, <2>2
<1>3. payloads \in Seq(Seq(ReadByte)) /\ Len(payloads) = N
  BY <1>1, <1>2, IsASeq
<1>4. \A k \in 1..N : payloads[k] = all[k].payload
  OBVIOUS
<1> HIDE DEF payloads
<1>5. payloads # <<>>
  BY <1>1, <1>3, EmptySeq
<1>6. flat \in Seq(ReadByte)
      /\ \E row, col : Places(row, col, flat, N, payloads)
  BY <1>3, <1>5, FlattenPlaces
<1> HIDE DEF flat
<1>7. PICK row, col : Places(row, col, flat, N, payloads)
  BY <1>6
<1> DEFINE L == Len(flat)
<1>8. L \in Nat
  BY <1>6, LenProperties
<1>9. /\ row \in [1..L -> 1..N] /\ col \in [1..L -> Nat]
      /\ \A i \in 1..L : col[i] \in 1..Len(payloads[row[i]]) /\ flat[i] = payloads[row[i]][col[i]]
      /\ \A i, j \in 1..L : i < j => \/ row[i] < row[j]
                                     \/ row[i] = row[j] /\ col[i] < col[j]
      /\ \A k \in 1..N : \A l \in 1..Len(payloads[k]) :
           \E i \in 1..L : row[i] = k /\ col[i] = l
  BY <1>7 DEF Places
<1> HIDE DEF L
<1>10. \A i \in 1..L : IsLastByte(flat[i]) <=> row[i] = N /\ col[i] = Len(payloads[N])
  <2> TAKE i \in 1..L
  <2>1. row[i] \in 1..N /\ col[i] \in 1..Len(all[row[i]].payload)
        /\ flat[i] = all[row[i]].payload[col[i]]
    BY <1>4, <1>9
  <2>2. IsLastByte(flat[i]) <=> all[row[i]].final /\ col[i] = Len(all[row[i]].payload)
    BY <1>2, <2>1 DEF ReadChunk
  <2>3. 1 \in 1..N /\ N \in 1..N
    BY <1>1
  <2>4. QED
    BY <1>1, <1>4, <2>1, <2>2, <2>3
<1>11. Len(payloads[N]) \in Nat \ {0} /\ N \in 1..N
  <2>1. N \in 1..N
    BY <1>1
  <2>2. payloads[N] \in Seq(ReadByte) \ {<<>>}
    BY <1>2, <1>4, <2>1
  <2>3. QED
    BY <2>1, <2>2, LenProperties, EmptySeq
<1>12. PICK e \in 1..L : row[e] = N /\ col[e] = Len(payloads[N])
  BY <1>9, <1>11
<1>13. e = L
  <2> SUFFICES ASSUME e # L PROVE FALSE
    OBVIOUS
  <2>1. L \in 1..L /\ e < L
    BY <1>8
  <2>2. row[L] \in 1..N /\ col[L] \in 1..Len(payloads[row[L]])
    BY <1>9, <2>1
  <2>3. row[e] < row[L] \/ (row[e] = row[L] /\ col[e] < col[L])
    BY <1>9, <2>1
  <2>4. QED
    BY <1>1, <1>11, <1>12, <2>2, <2>3
<1>14. ASSUME NEW i \in 1..L, row[i] = N, col[i] = Len(payloads[N])
       PROVE  i = L
  <2>1. ~(i < e)
    BY <1>9, <1>11, <1>12, <1>14
  <2>2. QED
    BY <1>8, <1>13, <2>1
<1>15. \A i \in 1..L : IsLastByte(flat[i]) <=> i = L
  BY <1>10, <1>12, <1>13, <1>14
<1>16. flat \in ReadMessage
  BY <1>6, <1>15 DEF ReadMessage, L
<1>17. DOMAIN all = 1..N
  BY <1>1
<1>18. QED
  BY <1>16, <1>17 DEF all, flat, payloads

LEMMA ReadCarriable == Carriable(ReadChunk, ReadMessage)
<1>1. ReadChunk \subseteq Chunk
  BY DEF ReadChunk
<1>2. ASSUME enabled, NEW chunk \in ReadChunk
      PROVE  [chunk EXCEPT !.type = "DataAck"] \in ReadChunk
  <2>1. chunk \in Chunk
    BY <1>1
  <2>2. /\ [chunk EXCEPT !.type = "DataAck"] \in Chunk
        /\ [chunk EXCEPT !.type = "DataAck"].payload = chunk.payload
        /\ [chunk EXCEPT !.type = "DataAck"].final = chunk.final
    BY <2>1 DEF Chunk
  <2>3. QED
    BY <1>2, <2>2 DEF ReadChunk
<1>3. QED
  BY <1>1, <1>2, MessageRead DEF Carriable

-----------------------------------------------------------------------------
(* The actions of the stack *)

\* The frames that wait can be cut into chunks of C.
Cuttable(C) ==
  \A n \in Node : \A i \in 1..Len(downstream_buffer[n]) :
    Fragments(downstream_buffer[n][i]) \in Seq(C)

LEMMA BeginRunTypes ==
  ASSUME NEW C, NEW M, Carriable(C, M), Typed(C, M), Cuttable(C), BufferTypes,
         NEW n \in Node, BeginRun(n),
         UNCHANGED <<idVars, radio_state, discoveryVars, rx, stable, restVars,
                     enabled, pending_packets, fragmented_packets>>
  PROVE  Typed(C, M)'
<1> DEFINE frame == Head(downstream_buffer[n])
<1>1. /\ downstream_buffer[n] # <<>>
      /\ FragmentationReceiveFromUpstream(n, frame)
      /\ UNCHANGED <<upstream_buffer, tunnel_out>>
  BY DEF BeginRun
<1>2. Fragments(frame) \in Seq(C)
  <2>1. downstream_buffer[n] \in Seq(Seq(Byte))
    BY DEF BufferTypes
  <2>2. frame = downstream_buffer[n][1] /\ 1 \in 1..Len(downstream_buffer[n])
    BY <1>1, <2>1, EmptySeq, LenProperties
  <2>3. QED
    BY <2>2 DEF Cuttable
<1>3. /\ packets_to_send' \in [Node -> Seq(StackMail(C))]
      /\ \A m \in Node : Len(packets_to_send'[m]) <= MaxQueued
      /\ ack_queue' \in [Node -> Seq(C)]
  BY <1>1, <1>2, AckReceiveFromUpstreamHolds
     DEF FragmentationReceiveFromUpstream, Typed, Hold
<1>4. RadioTypes' /\ FirstKnown' /\ FewPending'
  BY DEF Typed, RadioTypes, FirstKnown, FewPending, idVars, discoveryVars, restVars
<1>5. QueueTypes(StackMail(C))' /\ LayersHold(C, M)'
  BY <1>1, <1>3 DEF Typed, Hold, QueueTypes, LayersHold
<1>6. QED
  BY <1>4, <1>5 DEF Typed, Hold

\* A message is written.
LEMMA EndRunTypes ==
  ASSUME NEW C, NEW M, Typed(C, M), NEW n \in Node, EndRun(n),
         UNCHANGED <<vars, restVars, ackVars, fragmented_packets>>
  PROVE  Typed(C, M)'
<1>1. /\ upstream_buffer' \in [Node -> Seq(M)]
      /\ tunnel_out' \in [Node -> Seq(M)]
  <2>1. CASE UNCHANGED <<upstream_buffer, tunnel_out>>
    BY <2>1 DEF Typed, Hold, LayersHold
  <2>2. CASE /\ upstream_buffer[n] # <<>>
             /\ tunnel_out' = [tunnel_out EXCEPT ![n] = Append(@, Head(upstream_buffer[n]))]
             /\ upstream_buffer' = [upstream_buffer EXCEPT ![n] = Tail(@)]
    <3>1. upstream_buffer[n] \in Seq(M) /\ tunnel_out[n] \in Seq(M)
      BY DEF Typed, Hold, LayersHold
    <3>2. Head(upstream_buffer[n]) \in M /\ Tail(upstream_buffer[n]) \in Seq(M)
      BY <2>2, <3>1, HeadTailProperties
    <3>3. Append(tunnel_out[n], Head(upstream_buffer[n])) \in Seq(M)
      BY <3>1, <3>2, AppendProperties
    <3>4. QED
      BY <2>2, <3>2, <3>3 DEF Typed, Hold, LayersHold
  <2>3. QED
    BY <2>1, <2>2 DEF EndRun, WriteToTunnel
<1>2. RadioTypes' /\ FirstKnown' /\ FewPending'
  BY DEF Typed, RadioTypes, FirstKnown, FewPending, vars, idVars, discoveryVars,
         restVars, ackVars
<1>3. QueueTypes(StackMail(C))' /\ LayersHold(C, M)'
  BY <1>1 DEF Typed, Hold, QueueTypes, LayersHold, vars, ackVars
<1>4. QED
  BY <1>2, <1>3 DEF Typed, Hold

LEMMA LayerRunTypes ==
  ASSUME NEW C, NEW M, Carriable(C, M), Typed(C, M), NEW n \in Node, LayerRun(n)
  PROVE  Typed(C, M)'
<1>1. /\ packets_to_send' \in [Node -> Seq(StackMail(C))]
      /\ \A m \in Node : Len(packets_to_send'[m]) <= MaxQueued
      /\ ack_queue' \in [Node -> Seq(C)]
      /\ pending_packets' \in [Node -> Seq([packet : C, times_sent : Nat])]
      /\ FewPending'
  BY AckRunHolds DEF LayerRun, Typed, Hold, Pending
<1>2. RadioTypes' /\ FirstKnown'
  BY DEF LayerRun, Typed, RadioTypes, FirstKnown, idVars, discoveryVars, restVars
<1>3. QueueTypes(StackMail(C))' /\ LayersHold(C, M)'
  BY <1>1 DEF LayerRun, Typed, Hold, QueueTypes, LayersHold, tunnelVars
<1>4. QED
  BY <1>1, <1>2, <1>3 DEF Typed, Hold

\* The layers keep what they hold while the radio works.
LEMMA LayersKeep ==
  ASSUME NEW C, NEW M, Typed(C, M), RadioTypes', QueueTypes(StackMail(C))', FirstKnown',
         UNCHANGED layerVars
  PROVE  Typed(C, M)'
BY DEF Typed, Hold, LayersHold, FewPending, layerVars, ackVars, tunnelVars

LEMMA RadioSendsTypes ==
  ASSUME NEW C, NEW M, Typed(C, M), NEW n \in Node, RadioSends(n)
  PROVE  Typed(C, M)'
<1>1. RadioTypes' /\ QueueTypes(StackMail(C))'
  BY SendTypes DEF RadioSends, Typed, Hold
<1>2. FirstKnown'
  BY DEF RadioSends, Send, idVars, restVars, Typed, FirstKnown
<1>3. QED
  BY <1>1, <1>2, LayersKeep DEF RadioSends

LEMMA RadioRunTypes ==
  ASSUME NEW C, NEW M, Typed(C, M), NEW n \in Node, RadioRun(n)
  PROVE  Typed(C, M)'
<1>1. RadioTypes' /\ QueueTypes(StackMail(C))'
  BY StackMailIsMail, EndTurnTypes, TimerTypes DEF RadioRun, Typed, Hold
<1>2. neighbor_node_ids' = neighbor_node_ids
  <2>1. CASE EndTurn(n)
    BY <2>1 DEF EndTurn, idVars
  <2>2. CASE SendDiscovery(n) \/ SettleAlone(n) \/ SettleAmongNeighbors(n)
    BY <2>2 DEF SendDiscovery, SettleAlone, SettleAmongNeighbors, Settle, idVars
  <2>3. CASE Abort(n)
    BY <2>3 DEF RadioRun, Abort, Exit, Alive, EndTurn, idVars, Typed, RadioTypes
  <2>4. QED
    BY <2>1, <2>2, <2>3 DEF RadioRun, Timer
<1>3. FirstKnown'
  BY <1>2 DEF RadioRun, restVars, Typed, FirstKnown
<1>4. QED
  BY <1>1, <1>3, LayersKeep DEF RadioRun

LEMMA RadioLearnsTypes ==
  ASSUME NEW C, NEW M, Typed(C, M), NEW n \in Node, RadioLearns(n)
  PROVE  Typed(C, M)'
<1>1. RadioTypes' /\ QueueTypes(StackMail(C))'
  BY StackMailIsMail, ReceiveTypes DEF RadioLearns, Typed, Hold
<1>2. \A m \in Node \ {n} : neighbor_node_ids'[m] = neighbor_node_ids[m]
  BY DEF RadioLearns, Receive, HandleDiscoveryPacket, HandleDiscoveryAckPacket,
         HandleNodeIdAnnouncementPacket, Typed, RadioTypes
<1>3. FirstKnown'
  <2>1. CASE neighbor_node_ids'[n] = neighbor_node_ids[n] /\ UNCHANGED first_neighbor
    BY <1>2, <2>1 DEF Typed, FirstKnown
  <2>2. ASSUME NEW first \in IF neighbor_node_ids'[n] = {} THEN {NoNeighbor}
                                                          ELSE neighbor_node_ids'[n],
               first_neighbor' = [first_neighbor EXCEPT ![n] = first]
        PROVE  FirstKnown'
    <3>1. first \in NodeId \cup {NoNeighbor}
      BY <1>1 DEF RadioTypes
    <3>2. first_neighbor' \in [Node -> NodeId \cup {NoNeighbor}]
      BY <2>2, <3>1 DEF Typed, FirstKnown
    <3>3. first_neighbor'[n] \in neighbor_node_ids'[n] \/ neighbor_node_ids'[n] = {}
      BY <2>2 DEF Typed, FirstKnown
    <3>4. QED
      BY <1>2, <2>2, <3>2, <3>3 DEF Typed, FirstKnown
  <2>3. QED
    BY <2>1, <2>2 DEF RadioLearns, NeighborsReorder
<1>4. QED
  BY <1>1, <1>3, LayersKeep DEF RadioLearns

LEMMA StartStackTypes ==
  ASSUME NEW C, NEW M, Typed(C, M), NEW n \in Node, StartStack(n)
  PROVE  Typed(C, M)'
<1>1. RadioTypes' /\ QueueTypes(StackMail(C))'
  BY StartTypes DEF StartStack, Typed, Hold
<1>2. FirstKnown'
  BY DEF StartStack, Start, Typed, FirstKnown
<1>3. QED
  BY <1>1, <1>2, LayersKeep DEF StartStack

LEMMA PassesTypes ==
  ASSUME NEW C, NEW M, Typed(C, M), Passes
  PROVE  Typed(C, M)'
<1>1. RadioTypes' /\ QueueTypes(StackMail(C))'
  <2>1. CASE Tick
    BY <2>1, TickTypes DEF Typed, Hold
  <2>2. CASE Stabilise
    BY <2>2 DEF Stabilise, Typed, Hold, RadioTypes, QueueTypes, idVars, discoveryVars
  <2>3. QED
    BY <2>1, <2>2 DEF Passes
<1>2. FirstKnown'
  BY DEF Passes, Tick, Stabilise, idVars, restVars, Typed, FirstKnown
<1>3. QED
  BY <1>1, <1>2, LayersKeep DEF Passes

\* A process that ends leaves empty queues.
LEMMA StackEndsTypes ==
  ASSUME NEW C, NEW M, Typed(C, M), NEW n \in Node, StackEnds(n)
  PROVE  Typed(C, M)'
<1>1. RadioTypes' /\ QueueTypes(StackMail(C))'
  BY ExitTypes DEF StackEnds, Abort, Typed, Hold
<1>2. FirstKnown'
  BY DEF StackEnds, Abort, Exit, Typed, FirstKnown, RadioTypes
<1>3. <<>> \in Seq(C) /\ <<>> \in Seq([packet : C, times_sent : Nat])
      /\ <<>> \in Seq({chunk \in C : ~chunk.final}) /\ <<>> \in Seq(M) /\ Len(<<>>) = 0
  BY EmptySeq
<1>4. LayersHold(C, M)'
  BY <1>3 DEF StackEnds, Typed, Hold, LayersHold
<1>5. FewPending'
  BY <1>3, AckAssumption DEF StackEnds, Typed, Hold, LayersHold, FewPending
<1>6. QED
  BY <1>1, <1>2, <1>4, <1>5 DEF Typed, Hold

\* A data packet goes up as far as it does.
LEMMA RadioHandsUpTypes ==
  ASSUME NEW C, NEW M, Carriable(C, M), Typed(C, M), NEW n \in Node, RadioHandsUp(n)
  PROVE  Typed(C, M)'
<1> DEFINE packet == Unaddressed(Head(rx[n]))
<1>1. /\ rx[n] # <<>> /\ CarriesData(Head(rx[n]))
      /\ rx' = [rx EXCEPT ![n] = Tail(@)]
      /\ UNCHANGED <<idVars, radio_state, discoveryVars, stable, restVars>>
  BY DEF RadioHandsUp, HandUp
<1>2. Head(rx[n]) \in StackMail(C) /\ rx' \in [Node -> Seq(StackMail(C))]
      /\ \A m \in Node : Len(rx'[m]) <= FifoDepth
  BY <1>1, QueueTypesTail DEF Typed, Hold
<1>3. packet \in C
  BY <1>1, <1>2, ChunkOfMail
<1>4. /\ AckReceiveFromDownstream(n, packet)
      /\ \/ UNCHANGED <<fragmented_packets, tunnelVars>>
         \/ /\ ~packet.final /\ Collect(n, packet)
            /\ UNCHANGED tunnelVars
         \/ /\ packet.final /\ Collect(n, packet)
            /\ TunnelReceiveFromDownstream(n, Message(n, packet))
  BY DEF RadioHandsUp, Climbs
<1> HIDE DEF packet
<1>5. /\ packets_to_send' \in [Node -> Seq(StackMail(C))]
      /\ \A m \in Node : Len(packets_to_send'[m]) <= MaxQueued
      /\ pending_packets' \in [Node -> Seq([packet : C, times_sent : Nat])]
      /\ FewPending'
      /\ UNCHANGED <<enabled, ack_queue>>
  BY <1>3, <1>4, AckReceiveFromDownstreamHolds DEF Typed, Hold, Pending
<1>6. RadioTypes' /\ FirstKnown' /\ QueueTypes(StackMail(C))'
  <2>1. RadioTypes' /\ FirstKnown'
    BY <1>1 DEF Typed, RadioTypes, FirstKnown, idVars, discoveryVars, restVars
  <2>2. QueueTypes(StackMail(C))'
    BY <1>2, <1>5 DEF QueueTypes
  <2>3. QED
    BY <2>1, <2>2
<1>7. ASSUME fragmented_packets' \in [Node -> Seq({chunk \in C : ~chunk.final})],
             upstream_buffer' \in [Node -> Seq(M)], UNCHANGED tunnel_out
      PROVE  Typed(C, M)'
  BY <1>5, <1>6, <1>7 DEF Typed, Hold, LayersHold
<1>8. CASE UNCHANGED <<fragmented_packets, tunnelVars>>
  BY <1>7, <1>8 DEF Typed, Hold, LayersHold, tunnelVars
<1>9. fragmented_packets \in [Node -> Seq({chunk \in C : ~chunk.final})]
      /\ upstream_buffer \in [Node -> Seq(M)]
  BY DEF Typed, Hold, LayersHold
<1>10. CASE ~packet.final /\ Collect(n, packet) /\ UNCHANGED tunnelVars
  <2>1. Append(fragmented_packets[n], packet) \in Seq({chunk \in C : ~chunk.final})
    <3>1. packet \in {chunk \in C : ~chunk.final}
      BY <1>3, <1>10
    <3>2. QED
      BY <1>9, <3>1, AppendProperties
  <2>2. fragmented_packets' =
          [fragmented_packets EXCEPT ![n] = Append(fragmented_packets[n], packet)]
    BY <1>10 DEF Collect
  <2>3. fragmented_packets' \in [Node -> Seq({chunk \in C : ~chunk.final})]
    BY <1>9, <2>1, <2>2
  <2>4. QED
    BY <1>7, <1>9, <1>10, <2>3 DEF tunnelVars
<1>11. CASE packet.final /\ Collect(n, packet)
            /\ TunnelReceiveFromDownstream(n, Message(n, packet))
  <2>1. fragmented_packets' = [fragmented_packets EXCEPT ![n] = <<>>]
    BY <1>11 DEF Collect
  <2>2. <<>> \in Seq({chunk \in C : ~chunk.final})
    BY EmptySeq
  <2>3. fragmented_packets' \in [Node -> Seq({chunk \in C : ~chunk.final})]
    BY <1>9, <2>1, <2>2
  <2>4. Message(n, packet) \in M
    BY <1>3, <1>9, <1>11 DEF Carriable, Message
  <2>5. upstream_buffer' \in [Node -> Seq(M)] /\ tunnel_out' = tunnel_out
    <3>1. Append(upstream_buffer[n], Message(n, packet)) \in Seq(M)
      BY <1>9, <2>4, AppendProperties
    <3>2. QED
      BY <1>9, <1>11, <3>1 DEF TunnelReceiveFromDownstream
  <2>6. QED
    BY <1>7, <2>3, <2>5
<1>12. QED
  BY <1>4, <1>8, <1>10, <1>11

-----------------------------------------------------------------------------
(* Frames that are read *)

\* tunnel_in tells what it told, and maybe more.
InGrows ==
  \A m \in Node : /\ Len(tunnel_in[m]) <= Len(tunnel_in'[m])
                  /\ \A k \in 1..Len(tunnel_in[m]) : tunnel_in'[m][k] = tunnel_in[m][k]

LEMMA ReadGrows ==
  ASSUME FramesQueued, FramesQueued', InGrows, UNCHANGED enabled
  PROVE  ReadChunk \subseteq ReadChunk' /\ ReadMessage \subseteq ReadMessage'
<1>1. \A m \in Node : Len(tunnel_in[m]) \in Nat /\ Len(tunnel_in'[m]) \in Nat
  <2>1. tunnel_in \in [Node -> Seq(Nat \ {0})] /\ tunnel_in' \in [Node -> Seq(Nat \ {0})]
    BY DEF FramesQueued
  <2>2. QED
    BY <2>1, LenProperties
<1>2. ASSUME NEW byte \in ReadByte
      PROVE  byte \in ReadByte' /\ (IsLastByte(byte) <=> IsLastByte(byte)')
  <2>1. byte \in Byte /\ byte[1] \in Node /\ byte[2] \in 1..Len(tunnel_in[byte[1]])
    BY DEF ReadByte, Byte
  <2>2. byte[2] \in 1..Len(tunnel_in'[byte[1]])
    BY <1>1, <2>1 DEF InGrows
  <2>3. tunnel_in'[byte[1]][byte[2]] = tunnel_in[byte[1]][byte[2]]
    BY <2>1 DEF InGrows
  <2>4. QED
    BY <2>1, <2>2, <2>3 DEF ReadByte, IsLastByte
<1>3. ReadByte \subseteq ReadByte'
  BY <1>2
<1>4. ASSUME NEW bytes \in Seq(ReadByte)
      PROVE  /\ bytes \in Seq(ReadByte')
             /\ \A i \in 1..Len(bytes) : IsLastByte(bytes[i]) <=> IsLastByte(bytes[i])'
  <2>1. \A i \in 1..Len(bytes) : bytes[i] \in ReadByte
    BY ElementOfSeq
  <2>2. bytes \in Seq(ReadByte')
    BY <1>3, SeqWider
  <2>3. QED
    BY <1>2, <2>1, <2>2
<1>5. ASSUME NEW chunk \in ReadChunk PROVE chunk \in ReadChunk'
  <2>1. /\ chunk \in Chunk /\ chunk.payload \in Seq(ReadByte)
        /\ \A i \in 1..Len(chunk.payload) :
             IsLastByte(chunk.payload[i]) <=> chunk.final /\ i = Len(chunk.payload)
        /\ \A i, j \in 1..Len(chunk.payload) : SameChunk(chunk.payload[i], chunk.payload[j])
        /\ chunk.type = "DataAck" => enabled'
    BY DEF ReadChunk
  <2>2. QED
    BY <1>4, <2>1 DEF ReadChunk, Chunk, SameChunk, ChunkOf
<1>6. ASSUME NEW message \in ReadMessage PROVE message \in ReadMessage'
  <2>1. message \in Seq(ReadByte)
        /\ \A i \in 1..Len(message) : IsLastByte(message[i]) <=> i = Len(message)
    BY DEF ReadMessage
  <2>2. QED
    BY <1>4, <2>1 DEF ReadMessage
<1>7. QED
  BY <1>5, <1>6

LEMMA TypedWider ==
  ASSUME NEW C, NEW M, Typed(C, M), NEW D, C \subseteq D, NEW N, M \subseteq N
  PROVE  Typed(D, N)
<1>1. StackMail(C) \subseteq StackMail(D)
  BY DEF StackMail
<1>2. QueueTypes(StackMail(D))
  <2>1. \A n \in Node : packets_to_send[n] \in Seq(StackMail(D)) /\ rx[n] \in Seq(StackMail(D))
    BY <1>1, SeqWider DEF Typed, Hold, QueueTypes
  <2>2. QED
    BY <2>1 DEF Typed, Hold, QueueTypes
<1>3. LayersHold(D, N)
  <2> DEFINE Entry(S) == [packet : S, times_sent : Nat]
             Open(S) == {chunk \in S : ~chunk.final}
  <2>1. Entry(C) \subseteq Entry(D) /\ Open(C) \subseteq Open(D)
    OBVIOUS
  <2>2. ASSUME NEW n \in Node
        PROVE  /\ ack_queue[n] \in Seq(D)
               /\ upstream_buffer[n] \in Seq(N) /\ tunnel_out[n] \in Seq(N)
    BY SeqWider DEF Typed, Hold, LayersHold
  <2>3. ASSUME NEW n \in Node
        PROVE  pending_packets[n] \in Seq(Entry(D)) /\ fragmented_packets[n] \in Seq(Open(D))
    <3>1. pending_packets[n] \in Seq(Entry(C)) /\ fragmented_packets[n] \in Seq(Open(C))
      BY DEF Typed, Hold, LayersHold
    <3> HIDE DEF Entry, Open
    <3>2. QED
      BY <2>1, <3>1, SeqWider
  <2>4. QED
    BY <2>2, <2>3 DEF Typed, Hold, LayersHold
<1>4. QED
  BY <1>2, <1>3 DEF Typed, Hold

LEMMA ReadFrameQueues ==
  ASSUME FramesQueued, BufferTypes, NEW n \in Node, ReadFrame(n)
  PROVE  FramesQueued' /\ InGrows
<1>1. PICK length \in FrameLengths[n] :
        /\ tunnel_in' = [tunnel_in EXCEPT ![n] = Append(@, length)]
        /\ downstream_buffer' = [downstream_buffer EXCEPT
             ![n] = Append(@, Frame(n, Len(tunnel_in[n]) + 1, length))]
  BY DEF ReadFrame
<1> DEFINE k == Len(tunnel_in[n])
           L == Len(downstream_buffer[n])
           frame == Frame(n, k + 1, length)
<1>2. length \in Nat \ {0}
  BY TunnelAssumption
<1>3. tunnel_in[n] \in Seq(Nat \ {0}) /\ k \in Nat
  BY LenProperties DEF FramesQueued
<1>4. /\ tunnel_in'[n] \in Seq(Nat \ {0}) /\ Len(tunnel_in'[n]) = k + 1
      /\ tunnel_in'[n][k + 1] = length
      /\ \A i \in 1..k : tunnel_in'[n][i] = tunnel_in[n][i]
  <2>1. tunnel_in'[n] = Append(tunnel_in[n], length)
    BY <1>1 DEF FramesQueued
  <2>2. QED
    BY <1>2, <1>3, <2>1, AppendProperties
<1>5. \A m \in Node \ {n} : tunnel_in'[m] = tunnel_in[m] /\ downstream_buffer'[m] = downstream_buffer[m]
  BY <1>1 DEF FramesQueued, BufferTypes
<1>6. tunnel_in' \in [Node -> Seq(Nat \ {0})]
  BY <1>1, <1>4, <1>5 DEF FramesQueued
<1>7. InGrows
  <2>1. Len(tunnel_in[n]) <= Len(tunnel_in'[n])
        /\ \A i \in 1..Len(tunnel_in[n]) : tunnel_in'[n][i] = tunnel_in[n][i]
    BY <1>3, <1>4
  <2>2. ASSUME NEW m \in Node \ {n}
        PROVE  /\ Len(tunnel_in[m]) <= Len(tunnel_in'[m])
               /\ \A i \in 1..Len(tunnel_in[m]) : tunnel_in'[m][i] = tunnel_in[m][i]
    <3>1. Len(tunnel_in[m]) \in Nat
      BY LenProperties DEF FramesQueued
    <3>2. QED
      BY <1>5, <3>1
  <2>3. QED
    BY <2>1, <2>2 DEF InGrows
<1>8. L \in Nat /\ Len(downstream_buffer'[n]) = L + 1
      /\ downstream_buffer'[n][L + 1] = frame
      /\ \A i \in 1..L : downstream_buffer'[n][i] = downstream_buffer[n][i]
  <2>1. downstream_buffer'[n] = Append(downstream_buffer[n], frame)
    BY <1>1 DEF BufferTypes
  <2>2. downstream_buffer[n] \in Seq(Seq(Byte))
    BY DEF BufferTypes
  <2>3. frame \in Seq(Byte)
    <3>1. \A j \in 1..length : <<n, k + 1, j>> \in Byte
      BY <1>2, <1>3 DEF Byte
    <3>2. QED
      BY <1>2, <3>1, IsASeq DEF Frame
  <2> HIDE DEF frame
  <2>4. QED
    BY <2>1, <2>2, <2>3, AppendProperties, LenProperties
<1>9. ASSUME NEW m \in Node, NEW i \in 1..Len(downstream_buffer'[m])
      PROVE  \E j \in 1..Len(tunnel_in'[m]) :
               downstream_buffer'[m][i] = Frame(m, j, tunnel_in'[m][j])
  <2>1. CASE m # n
    <3>1. tunnel_in'[m] = tunnel_in[m] /\ downstream_buffer'[m] = downstream_buffer[m]
      BY <1>5, <2>1
    <3>2. PICK j \in 1..Len(tunnel_in[m]) : downstream_buffer[m][i] = Frame(m, j, tunnel_in[m][j])
      BY <3>1 DEF FramesQueued
    <3>3. QED
      BY <3>1, <3>2
  <2>2. CASE m = n /\ i = L + 1
    <3>1. k + 1 \in 1..Len(tunnel_in'[n])
      BY <1>3, <1>4
    <3>2. QED
      BY <1>4, <1>8, <2>2, <3>1
  <2>3. CASE m = n /\ i # L + 1
    <3>1. i \in 1..L
      BY <1>8, <2>3
    <3>2. PICK j \in 1..k : downstream_buffer[n][i] = Frame(n, j, tunnel_in[n][j])
      BY <3>1 DEF FramesQueued
    <3>3. j \in 1..Len(tunnel_in'[n])
      BY <1>3, <1>4
    <3>4. tunnel_in'[n][j] = tunnel_in[n][j] /\ downstream_buffer'[n][i] = downstream_buffer[n][i]
      BY <1>4, <1>8, <3>1
    <3>5. QED
      BY <2>3, <3>2, <3>3, <3>4
  <2>4. QED
    BY <2>1, <2>2, <2>3
<1>10. QED
  BY <1>6, <1>7, <1>9 DEF FramesQueued

-----------------------------------------------------------------------------
(* The invariant *)

LEMMA FramesStay ==
  ASSUME FramesQueued, UNCHANGED <<tunnel_in, downstream_buffer>>
  PROVE  FramesQueued'
BY DEF FramesQueued

LEMMA EndRunQueues ==
  ASSUME FramesQueued, BufferTypes, RunHasFrame, NEW n \in Node, EndRun(n)
  PROVE  FramesQueued'
<1>1. tunnel_in' = tunnel_in
  BY DEF EndRun
<1>2. CASE UNCHANGED downstream_buffer
  BY <1>1, <1>2, FramesStay
<1>3. CASE n \in in_run /\ downstream_buffer' = [downstream_buffer EXCEPT ![n] = Tail(@)]
  <2> DEFINE L == Len(downstream_buffer[n])
  <2>1. L \in Nat /\ L >= 1
    BY <1>3, LenProperties DEF BufferTypes, RunHasFrame
  <2>2. downstream_buffer'[n] = Tail(downstream_buffer[n])
        /\ \A m \in Node \ {n} : downstream_buffer'[m] = downstream_buffer[m]
    BY <1>3 DEF BufferTypes
  <2>3. Len(downstream_buffer'[n]) = L - 1
        /\ \A i \in 1..L - 1 : downstream_buffer'[n][i] = downstream_buffer[n][i + 1]
    <3>1. downstream_buffer[n] \in Seq(Seq(Byte)) /\ downstream_buffer[n] # <<>>
      BY <2>1, EmptySeq DEF BufferTypes
    <3>2. QED
      BY <2>1, <2>2, <3>1, HeadTailProperties
  <2>4. ASSUME NEW m \in Node, NEW i \in 1..Len(downstream_buffer'[m])
        PROVE  \E k \in 1..Len(tunnel_in[m]) :
                 downstream_buffer'[m][i] = Frame(m, k, tunnel_in[m][k])
    <3>1. CASE m # n
      <4>1. downstream_buffer'[m] = downstream_buffer[m]
        BY <2>2, <3>1
      <4>2. i \in 1..Len(downstream_buffer[m])
        BY <4>1
      <4>3. PICK k \in 1..Len(tunnel_in[m]) : downstream_buffer[m][i] = Frame(m, k, tunnel_in[m][k])
        BY <4>2, ZenonT(60) DEF FramesQueued
      <4>4. QED
        BY <4>1, <4>3
    <3>2. CASE m = n
      <4>1. i + 1 \in 1..Len(downstream_buffer[n])
        BY <2>1, <2>3, <3>2
      <4>2. downstream_buffer'[n][i] = downstream_buffer[n][i + 1]
        BY <2>3, <3>2
      <4>3. PICK k \in 1..Len(tunnel_in[n]) :
              downstream_buffer[n][i + 1] = Frame(n, k, tunnel_in[n][k])
        BY <4>1, ZenonT(60) DEF FramesQueued
      <4>4. QED
        BY <3>2, <4>2, <4>3
    <3>3. QED
      BY <3>1, <3>2
  <2>5. QED
    BY <1>1, <2>4 DEF FramesQueued
<1>4. QED
  BY <1>2, <1>3 DEF EndRun

LEMMA StackEndsQueues ==
  ASSUME FramesQueued, BufferTypes, NEW n \in Node, StackEnds(n)
  PROVE  FramesQueued'
<1>1. tunnel_in' = tunnel_in /\ downstream_buffer' = [downstream_buffer EXCEPT ![n] = <<>>]
  BY DEF StackEnds
<1>2. Len(downstream_buffer'[n]) = 0
      /\ \A m \in Node \ {n} : downstream_buffer'[m] = downstream_buffer[m]
  BY <1>1, EmptySeq DEF BufferTypes
<1>3. QED
  BY <1>1, <1>2 DEF FramesQueued

\* The frames that wait can be cut into chunks that say truly where they end.
LEMMA QueuedCuttable ==
  ASSUME FramesQueued PROVE Cuttable(ReadChunk)
<1>1. ASSUME NEW n \in Node, NEW i \in 1..Len(downstream_buffer[n])
      PROVE  Fragments(downstream_buffer[n][i]) \in Seq(ReadChunk)
  <2>1. PICK k \in 1..Len(tunnel_in[n]) : downstream_buffer[n][i] = Frame(n, k, tunnel_in[n][k])
    BY DEF FramesQueued
  <2>2. QED
    BY <2>1, FrameFragments
<1>2. QED
  BY <1>1 DEF Cuttable

\* The thread of the tunnel leaves the layers alone, but what it reads makes
\* more of the bytes ones that were read.
LEMMA TunnelThreadTypes ==
  ASSUME StackTypes, NEW n \in Node, TunnelThread(n)
  PROVE  Typed(ReadChunk, ReadMessage)' /\ FramesQueued'
<1>1. BufferTypes /\ FramesQueued
  BY DEF StackTypes, BufferInv
<1>2. FramesQueued' /\ InGrows
  <2>1. CASE ReadFrame(n)
    BY <1>1, <2>1, ReadFrameQueues
  <2>2. CASE CheckRoom(n)
    <3>1. UNCHANGED <<tunnel_in, downstream_buffer>>
      BY <2>2 DEF CheckRoom
    <3>2. \A m \in Node : Len(tunnel_in[m]) \in Nat
      BY <1>1, LenProperties DEF BufferTypes
    <3>3. InGrows
      BY <3>1, <3>2 DEF InGrows
    <3>4. QED
      BY <1>1, <3>1, <3>3, FramesStay
  <2>3. QED
    BY <2>1, <2>2 DEF TunnelThread
<1>3. PICK C, M : C = ReadChunk /\ M = ReadMessage
  OBVIOUS
<1>4. PICK D, N : D = ReadChunk' /\ N = ReadMessage'
  OBVIOUS
<1>5. C \subseteq D /\ M \subseteq N
  <2>1. UNCHANGED enabled
    BY DEF TunnelThread, ackVars
  <2>2. QED
    BY <1>1, <1>2, <1>3, <1>4, <2>1, ReadGrows
<1>6. Typed(C, M)
  BY <1>3 DEF StackTypes
<1>7. Typed(D, N)
  BY <1>5, <1>6, TypedWider
<1>8. Typed(D, N)'
  <2>1. UNCHANGED <<vars, restVars, ackVars, fragmented_packets, upstream_buffer, tunnel_out>>
    BY DEF TunnelThread, ReadFrame, CheckRoom
  <2>2. RadioTypes' /\ FirstKnown' /\ FewPending'
    BY <1>7, <2>1 DEF Typed, RadioTypes, FirstKnown, FewPending, vars, idVars, discoveryVars,
           restVars, ackVars
  <2>3. QueueTypes(StackMail(D))' /\ LayersHold(D, N)'
    BY <1>7, <2>1 DEF Typed, Hold, QueueTypes, LayersHold, vars, ackVars
  <2>4. QED
    BY <2>2, <2>3 DEF Typed, Hold
<1>9. QED
  BY <1>2, <1>4, <1>8 DEF Typed, Hold, QueueTypes, LayersHold, StackMail

LEMMA StackTypesInit == ASSUME StackInit PROVE StackTypes
<1>1. PICK s \in Scenarios : RadioInitially(s)
  BY DEF StackInit
<1>2. 0 \in NodeId /\ 0..min_discovery_node_id - 1 \subseteq NodeId
      /\ 0 \in 0..max_discovery_messages + 1
      /\ max_discovery_messages + 1 \in 0..max_discovery_messages + 1
  BY MeshAssumption DEF NodeId
<1>3. /\ \A n \in DOMAIN s.settled : s.settled[n] \in NodeId
      /\ s.gone \subseteq NodeId
      /\ Range(s.settled) \subseteq NodeId
      /\ s.quiet \in BOOLEAN
  BY <1>2, StackAssumption DEF Range
<1>4. \A n \in Node : Known(s, n) \subseteq NodeId
  BY <1>3 DEF Known
<1>5. RadioTypes
  <2>1. node_id \in [Node -> NodeId]
    BY <1>1, <1>2, <1>3 DEF RadioInitially
  <2>2. comms_state \in [Node -> {"CommsNone", "Discovery", "Running"}]
        /\ radio_state \in [Node -> {"RadioNone", "Opened", "Continuous", "Listening", "Sending"}]
    BY <1>1 DEF RadioInitially
  <2>3. neighbor_node_ids \in [Node -> SUBSET NodeId]
    BY <1>1, <1>4 DEF RadioInitially
  <2>4. messages_sent \in [Node -> 0..max_discovery_messages + 1]
    BY <1>1, <1>2 DEF RadioInitially
  <2>5. stable \in BOOLEAN
    BY <1>1, <1>3 DEF RadioInitially
  <2>6. QED
    BY <2>1, <2>2, <2>3, <2>4, <2>5 DEF RadioTypes, StackInit
<1>6. FirstKnown
  BY <1>1 DEF RadioInitially, StackInit, FirstKnown
<1>7. PICK C, M : C = ReadChunk /\ M = ReadMessage
  OBVIOUS
<1>8. /\ <<>> \in Seq(StackMail(C)) /\ <<>> \in Seq(C) /\ <<>> \in Seq(M)
      /\ <<>> \in Seq([packet : C, times_sent : Nat])
      /\ <<>> \in Seq({chunk \in C : ~chunk.final})
      /\ <<>> \in Seq(Nat \ {0}) /\ Len(<<>>) = 0
  BY EmptySeq
<1>9. FewPending
  BY <1>8, AckAssumption DEF StackInit, FewPending
<1>10. QueueTypes(StackMail(C))
  BY <1>8, MeshAssumption DEF StackInit, QueueTypes
<1>11. LayersHold(C, M)
  BY <1>8 DEF StackInit, LayersHold
<1>12. FramesQueued
  BY <1>8 DEF StackInit, FramesQueued
<1>13. Typed(ReadChunk, ReadMessage)
  BY <1>5, <1>6, <1>7, <1>9, <1>10, <1>11 DEF Typed, Hold
<1>14. QED
  BY <1>12, <1>13, BufferInit DEF StackTypes

\* AckLayer is enabled or disabled for good.
LEMMA EnabledStays ==
  ASSUME [StackNext]_stackVars PROVE UNCHANGED enabled
<1>1. ASSUME NEW n \in Node, TunnelRun(n) \/ LayerRun(n) PROVE UNCHANGED enabled
  BY <1>1 DEF TunnelRun, LayerRun, AckRun, ackVars
<1>2. ASSUME NEW n \in Node,
             RadioSends(n) \/ RadioRun(n) \/ RadioLearns(n) \/ StartStack(n) \/ Passes
      PROVE  UNCHANGED enabled
  BY <1>2 DEF RadioSends, RadioRun, RadioLearns, StartStack, Passes, layerVars, ackVars
<1>3. ASSUME NEW n \in Node, RadioHandsUp(n) PROVE UNCHANGED enabled
  BY <1>3 DEF RadioHandsUp, Climbs, AckReceiveFromDownstream
<1>4. ASSUME NEW n \in Node, TunnelThread(n) \/ StackEnds(n) PROVE UNCHANGED enabled
  BY <1>4 DEF TunnelThread, StackEnds, ackVars
<1>5. CASE Passes \/ UNCHANGED stackVars
  BY <1>5 DEF Passes, stackVars, layerVars, ackVars
<1>6. QED
  BY <1>1, <1>2, <1>3, <1>4, <1>5 DEF StackNext

LEMMA StackTypesStep == StackTypes /\ [StackNext]_stackVars => StackTypes'
<1> SUFFICES ASSUME StackTypes, [StackNext]_stackVars PROVE StackTypes'
  OBVIOUS
<1>1. BufferInv'
  BY BufferStep DEF StackTypes
<1>2. BufferInv /\ BufferTypes /\ RunHasFrame /\ FramesQueued
  BY DEF StackTypes, BufferInv
<1>3. PICK C, M : C = ReadChunk /\ M = ReadMessage
  OBVIOUS
<1>4. Typed(C, M) /\ Carriable(C, M) /\ Cuttable(C)
  BY <1>2, <1>3, ReadCarriable, QueuedCuttable DEF StackTypes
<1>5. ASSUME UNCHANGED tunnel_in, Typed(C, M)'
      PROVE  Typed(ReadChunk, ReadMessage)'
  <2>1. C = ReadChunk' /\ M = ReadMessage'
    <3>1. UNCHANGED enabled
      BY EnabledStays
    <3>2. QED
      BY <1>3, <1>5, <3>1 DEF ReadChunk, ReadMessage, ReadByte, IsLastByte, SameChunk, ChunkOf
  <2>2. QED
    BY <1>5, <2>1 DEF Typed, Hold, QueueTypes, LayersHold, StackMail
<1>6. ASSUME NEW n \in Node, TunnelRun(n) PROVE StackTypes'
  <2>1. CASE /\ BeginRun(n)
             /\ UNCHANGED <<idVars, radio_state, discoveryVars, rx, stable, restVars,
                            enabled, pending_packets, fragmented_packets>>
    <3>1. UNCHANGED <<tunnel_in, downstream_buffer>>
      BY <2>1 DEF BeginRun
    <3>2. Typed(C, M)'
      BY <1>2, <1>4, <2>1, BeginRunTypes
    <3>3. QED
      BY <1>1, <1>2, <1>5, <3>1, <3>2, FramesStay DEF StackTypes
  <2>2. CASE EndRun(n) /\ UNCHANGED <<vars, restVars, ackVars, fragmented_packets>>
    <3>1. UNCHANGED tunnel_in
      BY <2>2 DEF EndRun
    <3>2. Typed(C, M)'
      BY <1>4, <2>2, EndRunTypes
    <3>3. QED
      BY <1>1, <1>2, <1>5, <2>2, <3>1, <3>2, EndRunQueues DEF StackTypes
  <2>3. QED
    BY <1>6, <2>1, <2>2 DEF TunnelRun
<1>7. ASSUME NEW n \in Node,
             \/ LayerRun(n) \/ RadioSends(n) \/ RadioRun(n) \/ RadioLearns(n)
             \/ RadioHandsUp(n) \/ StartStack(n) \/ Passes
      PROVE  StackTypes'
  <2>1. UNCHANGED <<tunnel_in, downstream_buffer>>
    BY <1>7, OthersLeaveBuffer
  <2>2. Typed(C, M)'
    BY <1>4, <1>7, LayerRunTypes, RadioSendsTypes, RadioRunTypes, RadioLearnsTypes,
       RadioHandsUpTypes, StartStackTypes, PassesTypes
  <2>3. QED
    BY <1>1, <1>2, <1>5, <2>1, <2>2, FramesStay DEF StackTypes
<1>8. ASSUME NEW n \in Node, TunnelThread(n) PROVE StackTypes'
  BY <1>1, <1>8, TunnelThreadTypes DEF StackTypes
<1>9. ASSUME NEW n \in Node, StackEnds(n) PROVE StackTypes'
  <2>1. UNCHANGED tunnel_in
    BY <1>9 DEF StackEnds
  <2>2. QED
    BY <1>1, <1>2, <1>4, <1>5, <1>9, <2>1, StackEndsTypes, StackEndsQueues DEF StackTypes
<1>10. CASE Passes
  <2>1. UNCHANGED <<tunnel_in, downstream_buffer>>
    BY <1>10 DEF Passes, layerVars, tunnelVars
  <2>2. QED
    BY <1>1, <1>2, <1>4, <1>5, <1>10, <2>1, FramesStay, PassesTypes DEF StackTypes
<1>11. CASE UNCHANGED stackVars
  <2>1. UNCHANGED <<tunnel_in, downstream_buffer>>
    BY <1>11 DEF stackVars, layerVars, tunnelVars
  <2>2. RadioTypes' /\ FirstKnown'
    BY <1>4, <1>11 DEF Typed, RadioTypes, FirstKnown, stackVars, vars, idVars, discoveryVars,
           restVars
  <2>3. QueueTypes(StackMail(C))'
    BY <1>4, <1>11 DEF Typed, Hold, QueueTypes, stackVars, vars
  <2>4. Typed(C, M)'
    BY <1>4, <1>11, <2>2, <2>3, LayersKeep DEF stackVars
  <2>5. QED
    BY <1>1, <1>2, <1>5, <2>1, <2>4, FramesStay DEF StackTypes
<1>12. QED
  BY <1>6, <1>7, <1>8, <1>9, <1>10, <1>11 DEF StackNext

LEMMA ChunksCarryData ==
  ASSUME NEW packets, packets \in Seq(ReadChunk)
  PROVE  IsData(packets)
<1>1. \A chunk \in ReadChunk : CarriesData(chunk) /\ chunk.payload # <<>>
  BY DEF ReadChunk, Chunk, CarriesData
<1>2. \A i \in DOMAIN packets : packets[i] \in ReadChunk
  BY ElementOfSeq, LenProperties
<1>3. QED
  BY <1>1, <1>2 DEF IsData

\* On every node and in every layer packets are well-formed, whatever is lost,
\* late, started again or aborted: no queue of the layers holds a packet without
\* data, no final packet is collected without its message, no more packets are
\* pending than AckLayer admits, Run never pops a frame that is not there, and
\* data goes to a node that is known.
THEOREM StackTypesKept == StackSpec => []StackTypeOK
<1>1. ASSUME StackTypes PROVE StackTypeOK
  <2>1. RadioTypes /\ QueueTypes(StackMail(ReadChunk)) /\ LayersHold(ReadChunk, ReadMessage)
        /\ FirstKnown /\ FewPending /\ BufferInv
    BY <1>1 DEF StackTypes, Typed, Hold
  <2>2. TypeOK
    BY <2>1, StackMailIsMail, TypesSuffice
  <2>3. ASSUME NEW n \in Node
        PROVE  /\ IsData(ack_queue[n]) /\ IsData(fragmented_packets[n])
               /\ \A i \in DOMAIN fragmented_packets[n] : ~fragmented_packets[n][i].final
    <3> DEFINE Open == {chunk \in ReadChunk : ~chunk.final}
    <3>1. ack_queue[n] \in Seq(ReadChunk) /\ fragmented_packets[n] \in Seq(Open)
      BY <2>1 DEF LayersHold
    <3>2. \A i \in DOMAIN fragmented_packets[n] : fragmented_packets[n][i] \in Open
      <4> HIDE DEF Open
      <4>1. QED
        BY <3>1, ElementOfSeq, LenProperties
    <3>3. Open \subseteq ReadChunk
      OBVIOUS
    <3> HIDE DEF Open
    <3>4. fragmented_packets[n] \in Seq(ReadChunk)
      BY <3>1, <3>3, SeqWider
    <3>5. QED
      BY <3>1, <3>2, <3>4, ChunksCarryData DEF Open
  <2>4. ASSUME NEW n \in Node, n \in in_run PROVE downstream_buffer[n] # <<>>
    <3>1. Len(downstream_buffer[n]) >= 1
      BY <2>1, <2>4 DEF BufferInv, RunHasFrame
    <3>2. QED
      BY <3>1, EmptySeq
  <2>5. QED
    BY <2>1, <2>2, <2>3, <2>4 DEF StackTypeOK, FirstKnown, FewPending
<1>2. QED
  BY <1>1, StackTypesInit, StackTypesStep, PTL DEF StackSpec

\* No message that a node writes ends in the middle of a frame or goes on beyond
\* the end of one, whichever senders and losses mixed its fragments, and whatever
\* sizes the frames and fragments have.
THEOREM MessagesEndWithFrames == StackSpec => []EndsKept
<1>1. ASSUME StackTypes PROVE EndsKept
  <2>1. tunnel_out \in [Node -> Seq(ReadMessage)]
    BY <1>1 DEF StackTypes, Typed, Hold, LayersHold
  <2>2. ASSUME NEW n \in Node, NEW k \in DOMAIN tunnel_out[n],
               NEW i \in DOMAIN tunnel_out[n][k]
        PROVE  IsLastByte(tunnel_out[n][k][i]) <=> i = Len(tunnel_out[n][k])
    <3>1. tunnel_out[n][k] \in ReadMessage
      BY <2>1, ElementOfSeq, LenProperties
    <3>2. DOMAIN tunnel_out[n][k] = 1..Len(tunnel_out[n][k])
      BY <3>1, LenProperties DEF ReadMessage
    <3>3. QED
      BY <3>1, <3>2 DEF ReadMessage
  <2>3. QED
    BY <2>2 DEF EndsKept
<1>2. QED
  BY <1>1, StackTypesInit, StackTypesStep, PTL DEF StackSpec

-----------------------------------------------------------------------------
(* The order of bytes *)
(*                                                                          *)
(* What is on the way from one node to another stands in a line: written    *)
(* messages, messages to write, collected chunks, the FIFO, the queue of    *)
(* the sender, what is pending, what waits to become pending, and frames.   *)
(* Bytes of the same sender keep their order along this line.  Each place   *)
(* of the line is a sequence of byte sequences, and most steps move some    *)
(* of these from the front of a place to the end of the one before it.      *)

\* How two bytes may come one after the other; again: chunks may come again.
Follows(again, first, second) ==
  first[1] = second[1] =>
    \/ Before(first, second)
    \/ again /\ first[2] = second[2] /\ ChunkOf(first) = ChunkOf(second)

AllFollow(again, X, Y) == \A b \in X, d \in Y : Follows(again, b, d)

Its(bytes) == {bytes[i] : i \in 1..Len(bytes)}

\* All bytes of a place.
Bytes(s) == UNION {Its(s[a]) : a \in 1..Len(s)}

Ascends(again, bytes) ==
  \A i, j \in 1..Len(bytes) : i < j => Follows(again, bytes[i], bytes[j])

Sorted(again, s) ==
  /\ \A a \in 1..Len(s) : Ascends(again, s[a])
  /\ \A a, b \in 1..Len(s) : a < b => AllFollow(again, Its(s[a]), Its(s[b]))

\* r is s and t after it.
Splits(r, s, t) ==
  /\ Len(s) \in Nat /\ Len(t) \in Nat /\ Len(r) = Len(s) + Len(t)
  /\ \A i \in 1..Len(s) : r[i] = s[i]
  /\ \A i \in 1..Len(t) : r[Len(s) + i] = t[i]

LEMMA SplitBytes ==
  \A r, s, t : Splits(r, s, t) => Bytes(r) = Bytes(s) \cup Bytes(t)
<1> SUFFICES ASSUME NEW r, NEW s, NEW t, Splits(r, s, t)
             PROVE  Bytes(r) = Bytes(s) \cup Bytes(t)
  OBVIOUS
<1>1. /\ Len(s) \in Nat /\ Len(t) \in Nat /\ Len(r) = Len(s) + Len(t)
      /\ \A i \in 1..Len(s) : r[i] = s[i]
      /\ \A i \in 1..Len(t) : r[Len(s) + i] = t[i]
  BY DEF Splits
<1>2. ASSUME NEW b, b \in Bytes(r) PROVE b \in Bytes(s) \cup Bytes(t)
  <2>1. PICK a \in 1..Len(r) : b \in Its(r[a])
    BY <1>2 DEF Bytes
  <2>2. CASE a \in 1..Len(s)
    BY <1>1, <2>1, <2>2 DEF Bytes
  <2>3. CASE a \notin 1..Len(s)
    <3>1. a - Len(s) \in 1..Len(t) /\ Len(s) + (a - Len(s)) = a
      BY <1>1, <2>3
    <3>2. r[a] = t[a - Len(s)]
      BY <1>1, <3>1
    <3>3. QED
      BY <2>1, <3>1, <3>2 DEF Bytes
  <2>4. QED
    BY <2>2, <2>3
<1>3. Bytes(s) \subseteq Bytes(r)
  <2>1. \A a \in 1..Len(s) : a \in 1..Len(r) /\ r[a] = s[a]
    BY <1>1
  <2>2. QED
    BY <2>1 DEF Bytes
<1>4. ASSUME NEW b, b \in Bytes(t) PROVE b \in Bytes(r)
  <2>1. PICK a \in 1..Len(t) : b \in Its(t[a])
    BY <1>4 DEF Bytes
  <2>2. Len(s) + a \in 1..Len(r) /\ r[Len(s) + a] = t[a]
    BY <1>1
  <2>3. QED
    BY <2>1, <2>2 DEF Bytes
<1>5. QED
  BY <1>2, <1>3, <1>4

LEMMA ItsInBytes ==
  \A s : \A a \in 1..Len(s) : Its(s[a]) \subseteq Bytes(s)
BY DEF Bytes

\* What is put together from sorted parts is sorted, and the other way about.
LEMMA SplitSorted ==
  \A again, r, s, t : Splits(r, s, t) =>
    (Sorted(again, r) <=> /\ Sorted(again, s) /\ Sorted(again, t)
                          /\ AllFollow(again, Bytes(s), Bytes(t)))
<1> SUFFICES ASSUME NEW again, NEW r, NEW s, NEW t, Splits(r, s, t)
             PROVE  Sorted(again, r) <=> /\ Sorted(again, s) /\ Sorted(again, t)
                                         /\ AllFollow(again, Bytes(s), Bytes(t))
  OBVIOUS
<1> DEFINE S == Len(s)
           T == Len(t)
<1>1. /\ S \in Nat /\ T \in Nat /\ Len(r) = S + T
      /\ \A i \in 1..S : r[i] = s[i]
      /\ \A i \in 1..T : r[S + i] = t[i]
  BY DEF Splits
<1>2. ASSUME Sorted(again, r)
      PROVE  Sorted(again, s) /\ Sorted(again, t) /\ AllFollow(again, Bytes(s), Bytes(t))
  <2>1. /\ \A a \in 1..S + T : Ascends(again, r[a])
        /\ \A a, b \in 1..S + T : a < b => AllFollow(again, Its(r[a]), Its(r[b]))
    BY <1>1, <1>2 DEF Sorted
  <2> HIDE DEF S, T
  <2>2. \A a \in 1..S : a \in 1..S + T
    BY <1>1
  <2>3. \A a \in 1..T : S + a \in 1..S + T
    BY <1>1
  <2>4. Sorted(again, s)
    BY <1>1, <2>1, <2>2 DEF Sorted, S
  <2>5. Sorted(again, t)
    <3>1. \A a \in 1..T : Ascends(again, t[a])
      BY <1>1, <2>1, <2>3
    <3>2. ASSUME NEW a \in 1..T, NEW b \in 1..T, a < b
          PROVE  AllFollow(again, Its(t[a]), Its(t[b]))
      <4>1. S + a < S + b
        BY <1>1, <3>2
      <4>2. AllFollow(again, Its(r[S + a]), Its(r[S + b]))
        BY <2>1, <2>3, <4>1
      <4>3. QED
        BY <1>1, <4>2
    <3>3. QED
      BY <3>1, <3>2 DEF Sorted, T
  <2>6. ASSUME NEW b \in Bytes(s), NEW d \in Bytes(t) PROVE Follows(again, b, d)
    <3>1. PICK i \in 1..S : b \in Its(s[i])
      BY DEF Bytes, S
    <3>2. PICK j \in 1..T : d \in Its(t[j])
      BY DEF Bytes, T
    <3>3. i < S + j /\ S + j \in 1..S + T /\ i \in 1..S + T
      BY <1>1
    <3>4. AllFollow(again, Its(r[i]), Its(r[S + j]))
      BY <2>1, <3>3
    <3>5. r[i] = s[i] /\ r[S + j] = t[j]
      BY <1>1
    <3>6. QED
      BY <3>1, <3>2, <3>4, <3>5 DEF AllFollow
  <2>7. QED
    BY <2>4, <2>5, <2>6 DEF AllFollow
<1>3. ASSUME Sorted(again, s), Sorted(again, t), AllFollow(again, Bytes(s), Bytes(t))
      PROVE  Sorted(again, r)
  <2> HIDE DEF S, T
  <2>1. ASSUME NEW a \in 1..S + T
        PROVE  \/ a \in 1..S /\ r[a] = s[a]
               \/ a - S \in 1..T /\ r[a] = t[a - S] /\ S < a
    <3>1. CASE a \in 1..S
      BY <1>1, <3>1
    <3>2. CASE a \notin 1..S
      <4>1. a - S \in 1..T /\ S + (a - S) = a /\ S < a
        BY <1>1, <3>2
      <4>2. r[S + (a - S)] = t[a - S]
        BY <1>1, <4>1
      <4>3. QED
        BY <4>1, <4>2
    <3>3. QED
      BY <3>1, <3>2
  <2>2. \A a \in 1..S + T : Ascends(again, r[a])
    BY <1>3, <2>1 DEF Sorted, S, T
  <2>3. ASSUME NEW a \in 1..S + T, NEW b \in 1..S + T, a < b
        PROVE  AllFollow(again, Its(r[a]), Its(r[b]))
    <3>1. CASE b \in 1..S /\ r[b] = s[b]
      <4>1. a \in 1..S /\ r[a] = s[a]
        BY <1>1, <2>1, <2>3, <3>1
      <4>2. QED
        BY <1>3, <2>3, <3>1, <4>1 DEF Sorted, S
    <3>2. CASE /\ a \in 1..S /\ r[a] = s[a]
               /\ b - S \in 1..T /\ r[b] = t[b - S]
      <4>1. Its(r[a]) \subseteq Bytes(s) /\ Its(r[b]) \subseteq Bytes(t)
        BY <3>2, ItsInBytes DEF S, T
      <4>2. QED
        BY <1>3, <4>1 DEF AllFollow
    <3>3. CASE /\ a - S \in 1..T /\ r[a] = t[a - S]
               /\ b - S \in 1..T /\ r[b] = t[b - S]
      <4>1. a - S < b - S
        BY <1>1, <2>3
      <4>2. QED
        BY <1>3, <3>3, <4>1 DEF Sorted, T
    <3>4. QED
      BY <2>1, <3>1, <3>2, <3>3
  <2>4. QED
    BY <1>1, <2>2, <2>3 DEF Sorted
<1>4. QED
  BY <1>2, <1>3

\* So the parts of what is sorted are sorted.
LEMMA SplitRest ==
  \A again, r, s, t : Splits(r, s, t) /\ Sorted(again, r) =>
    /\ Sorted(again, s) /\ Sorted(again, t)
    /\ Bytes(s) \subseteq Bytes(r) /\ Bytes(t) \subseteq Bytes(r)
<1> TAKE again, r, s, t
<1> HAVE Splits(r, s, t) /\ Sorted(again, r)
<1>1. Bytes(r) = Bytes(s) \cup Bytes(t)
  BY SplitBytes
<1>2. Sorted(again, s) /\ Sorted(again, t)
  BY SplitSorted
<1>3. QED
  BY <1>1, <1>2

\* Leaving some out, and emptying some, keeps the order.
LEMMA ThinnedSorted ==
  \A again, s, t, order :
    /\ Sorted(again, s) /\ Len(t) \in Nat
    /\ \A i \in 1..Len(t) : /\ order[i] \in 1..Len(s)
                            /\ t[i] = s[order[i]] \/ Its(t[i]) = {}
    /\ \A i, j \in 1..Len(t) : i < j => order[i] < order[j]
    => Sorted(again, t) /\ Bytes(t) \subseteq Bytes(s)
<1> SUFFICES ASSUME NEW again, NEW s, NEW t, NEW order, Sorted(again, s), Len(t) \in Nat,
                    \A i \in 1..Len(t) : /\ order[i] \in 1..Len(s)
                                         /\ t[i] = s[order[i]] \/ Its(t[i]) = {},
                    \A i, j \in 1..Len(t) : i < j => order[i] < order[j]
             PROVE  Sorted(again, t) /\ Bytes(t) \subseteq Bytes(s)
  BY Zenon
<1>1. \A i \in 1..Len(t) : Its(t[i]) = {} \/ Its(t[i]) = Its(s[order[i]])
  OBVIOUS
<1>2. ASSUME NEW i \in 1..Len(t) PROVE Ascends(again, t[i])
  <2>1. CASE Its(t[i]) = {}
    BY <2>1 DEF Ascends, Its
  <2>2. CASE t[i] = s[order[i]]
    BY <2>2 DEF Sorted
  <2>3. QED
    BY <2>1, <2>2
<1>3. ASSUME NEW i \in 1..Len(t), NEW j \in 1..Len(t), i < j
      PROVE  AllFollow(again, Its(t[i]), Its(t[j]))
  <2>1. AllFollow(again, Its(s[order[i]]), Its(s[order[j]]))
    BY <1>3 DEF Sorted
  <2>2. QED
    BY <1>1, <2>1 DEF AllFollow
<1>4. Bytes(t) \subseteq Bytes(s)
  BY <1>1 DEF Bytes
<1>5. QED
  BY <1>2, <1>3, <1>4 DEF Sorted

LEMMA ConcatSplits ==
  ASSUME NEW A, NEW s \in Seq(A), NEW t \in Seq(A)
  PROVE  Splits(s \o t, s, t)
<1> DEFINE r == s \o t
<1>1. /\ Len(r) = Len(s) + Len(t)
      /\ \A i \in 1..Len(s) + Len(t) : r[i] = IF i <= Len(s) THEN s[i] ELSE t[i - Len(s)]
  BY ConcatProperties
<1>2. Len(s) \in Nat /\ Len(t) \in Nat
  BY LenProperties
<1> HIDE DEF r
<1>3. \A i \in 1..Len(s) : r[i] = s[i]
  BY <1>1, <1>2
<1>4. ASSUME NEW i \in 1..Len(t) PROVE r[Len(s) + i] = t[i]
  <2>1. Len(s) + i \in 1..Len(s) + Len(t) /\ ~(Len(s) + i <= Len(s)) /\ Len(s) + i - Len(s) = i
    BY <1>2
  <2>2. QED
    BY <1>1, <2>1
<1>5. QED
  BY <1>1, <1>2, <1>3, <1>4 DEF Splits, r

LEMMA AppendSplits ==
  ASSUME NEW A, NEW s \in Seq(A), NEW x
  PROVE  Splits(Append(s, x), s, <<x>>)
<1>1. /\ Len(Append(s, x)) = Len(s) + 1 /\ Len(s) \in Nat
      /\ \A i \in 1..Len(s) : Append(s, x)[i] = s[i]
      /\ Append(s, x)[Len(s) + 1] = x
  BY LenProperties, AppendProperties
<1>2. Len(<<x>>) = 1 /\ \A i \in 1..1 : <<x>>[i] = x /\ i = 1
  OBVIOUS
<1>3. QED
  BY <1>1, <1>2 DEF Splits

LEMMA TailSplits ==
  ASSUME NEW A, NEW s \in Seq(A), s # <<>>
  PROVE  Splits(s, <<Head(s)>>, Tail(s))
<1>1. Len(s) \in Nat /\ Len(s) >= 1
  BY LenProperties, EmptySeq
<1>2. /\ Len(Tail(s)) = Len(s) - 1
      /\ \A i \in 1..Len(s) - 1 : Tail(s)[i] = s[i + 1]
      /\ Head(s) = s[1]
  BY <1>1, HeadTailProperties
<1>3. Len(<<Head(s)>>) = 1 /\ \A i \in 1..1 : <<Head(s)>>[i] = Head(s) /\ i = 1
  OBVIOUS
<1>4. QED
  BY <1>1, <1>2, <1>3 DEF Splits

LEMMA SubSeqSplits ==
  ASSUME NEW A, NEW s \in Seq(A), NEW k \in 1..Len(s)
  PROVE  Splits(s, SubSeq(s, 1, k), SubSeq(s, k + 1, Len(s)))
<1> DEFINE L == Len(s)
           front == SubSeq(s, 1, k)
           rest == SubSeq(s, k + 1, L)
<1>1. L \in Nat /\ \A i \in 1..L : s[i] \in A
  BY LenProperties, ElementOfSeq
<1> HIDE DEF L
<1>2. k \in 1..L
  BY DEF L
<1>3. Len(front) = k /\ \A i \in 1..k : front[i] = s[i]
  BY <1>1, <1>2, SubSeqProperties
<1>4. Len(rest) = L - k /\ \A i \in 1..L - k : rest[i] = s[k + i]
  BY <1>1, <1>2, SubSeqProperties
<1> HIDE DEF front, rest
<1>5. Splits(s, front, rest)
  BY <1>1, <1>2, <1>3, <1>4 DEF Splits, L
<1>6. QED
  BY <1>5 DEF front, rest, L

LEMMA OneSorted ==
  \A again, x : /\ Sorted(again, <<x>>) <=> Ascends(again, x)
                /\ Bytes(<<x>>) = Its(x)
                /\ Sorted(again, <<>>) /\ Bytes(<<>>) = {}
<1> TAKE again, x
<1>1. Len(<<x>>) = 1 /\ \A i \in 1..1 : i = 1 /\ <<x>>[i] = x
  OBVIOUS
<1>2. 1 \in 1..1 /\ 1..Len(<<>>) = {}
  BY EmptySeq
<1>3. Sorted(again, <<x>>) <=> Ascends(again, x)
  BY <1>1, <1>2 DEF Sorted
<1>4. Bytes(<<x>>) = Its(x)
  BY <1>1, <1>2 DEF Bytes
<1>5. Sorted(again, <<>>) /\ Bytes(<<>>) = {}
  BY <1>2 DEF Sorted, Bytes
<1>6. QED
  BY <1>3, <1>4, <1>5

-----------------------------------------------------------------------------
(* Places whose bytes are inside packets *)

Payloads(packets) == [i \in 1..Len(packets) |-> packets[i].payload]

\* Acknowledgements hold bytes too, but these do not go up.
DataPayloads(packets) ==
  [i \in 1..Len(packets) |-> IF packets[i].type = "Data" THEN packets[i].payload ELSE <<>>]

PendingPayloads(pending) == [i \in 1..Len(pending) |-> pending[i].packet.payload]

LEMMA PayloadsSplit ==
  \A r, s, t : Splits(r, s, t) =>
    /\ Splits(Payloads(r), Payloads(s), Payloads(t))
    /\ Splits(DataPayloads(r), DataPayloads(s), DataPayloads(t))
<1> SUFFICES ASSUME NEW r, NEW s, NEW t, Splits(r, s, t)
             PROVE  /\ Splits(Payloads(r), Payloads(s), Payloads(t))
                    /\ Splits(DataPayloads(r), DataPayloads(s), DataPayloads(t))
  OBVIOUS
<1>1. /\ Len(s) \in Nat /\ Len(t) \in Nat /\ Len(r) = Len(s) + Len(t)
      /\ \A i \in 1..Len(s) : r[i] = s[i] /\ i \in 1..Len(r)
      /\ \A i \in 1..Len(t) : r[Len(s) + i] = t[i] /\ Len(s) + i \in 1..Len(r)
  BY DEF Splits
<1>2. Splits(Payloads(r), Payloads(s), Payloads(t))
  <2>1. Len(Payloads(r)) = Len(r) /\ Len(Payloads(s)) = Len(s) /\ Len(Payloads(t)) = Len(t)
    BY <1>1 DEF Payloads
  <2>2. /\ \A i \in 1..Len(s) : Payloads(r)[i] = Payloads(s)[i]
        /\ \A i \in 1..Len(t) : Payloads(r)[Len(s) + i] = Payloads(t)[i]
    BY <1>1 DEF Payloads
  <2>3. QED
    BY <1>1, <2>1, <2>2 DEF Splits
<1>3. Splits(DataPayloads(r), DataPayloads(s), DataPayloads(t))
  <2>1. /\ Len(DataPayloads(r)) = Len(r) /\ Len(DataPayloads(s)) = Len(s)
        /\ Len(DataPayloads(t)) = Len(t)
    BY <1>1 DEF DataPayloads
  <2>2. /\ \A i \in 1..Len(s) : DataPayloads(r)[i] = DataPayloads(s)[i]
        /\ \A i \in 1..Len(t) : DataPayloads(r)[Len(s) + i] = DataPayloads(t)[i]
    BY <1>1 DEF DataPayloads
  <2>3. QED
    BY <1>1, <2>1, <2>2 DEF Splits
<1>4. QED
  BY <1>2, <1>3

\* Whole chunks in order make a message in order.
LEMMA FlattenAscends ==
  ASSUME NEW again, NEW A, NEW s \in Seq(Seq(A)), s # <<>>, Sorted(again, s)
  PROVE  Ascends(again, FlattenSeq(s)) /\ Its(FlattenSeq(s)) \subseteq Bytes(s)
<1> DEFINE flat == FlattenSeq(s)
           N == Len(s)
<1>1. PICK row, col : Places(row, col, flat, N, s)
  BY FlattenPlaces
<1> HIDE DEF flat, N
<1>2. /\ \A i \in 1..Len(flat) : row[i] \in 1..N
      /\ \A i \in 1..Len(flat) : col[i] \in 1..Len(s[row[i]]) /\ flat[i] = s[row[i]][col[i]]
      /\ \A i, j \in 1..Len(flat) : i < j => \/ row[i] < row[j]
                                             \/ row[i] = row[j] /\ col[i] < col[j]
  BY <1>1 DEF Places
<1>3. \A i \in 1..Len(flat) : flat[i] \in Its(s[row[i]])
  BY <1>2 DEF Its
<1>4. ASSUME NEW i \in 1..Len(flat), NEW j \in 1..Len(flat), i < j
      PROVE  Follows(again, flat[i], flat[j])
  <2>1. CASE row[i] < row[j]
    <3>1. AllFollow(again, Its(s[row[i]]), Its(s[row[j]]))
      BY <1>2, <2>1 DEF Sorted, N
    <3>2. QED
      BY <1>3, <3>1 DEF AllFollow
  <2>2. CASE row[i] = row[j] /\ col[i] < col[j]
    <3>1. Ascends(again, s[row[i]])
      BY <1>2 DEF Sorted, N
    <3>2. /\ col[i] \in 1..Len(s[row[i]]) /\ flat[i] = s[row[i]][col[i]]
          /\ col[j] \in 1..Len(s[row[i]]) /\ flat[j] = s[row[i]][col[j]]
      BY <1>2, <2>2
    <3>3. QED
      BY <2>2, <3>1, <3>2 DEF Ascends
  <2>3. QED
    BY <1>2, <1>4, <2>1, <2>2
<1>5. Ascends(again, flat)
  BY <1>4 DEF Ascends
<1>6. Its(flat) \subseteq Bytes(s)
  <2>1. ASSUME NEW i \in 1..Len(flat) PROVE flat[i] \in Bytes(s)
    BY <1>2, <1>3, ItsInBytes DEF N
  <2>2. QED
    BY <2>1 DEF Its
<1>7. QED
  BY <1>5, <1>6 DEF flat

\* So do the fragments of a frame.
LEMMA FragmentsSorted ==
  ASSUME NEW again, NEW A, NEW data \in Seq(A), data # <<>>, Ascends(again, data)
  PROVE  /\ Sorted(again, Payloads(Fragments(data)))
         /\ Bytes(Payloads(Fragments(data))) \subseteq Its(data)
         /\ DataPayloads(Fragments(data)) = Payloads(Fragments(data))
<1> DEFINE N == NumberOfPackets(Len(data))
           P == PACKET_PAYLOAD_SIZE
           frag == Fragments(data)
           begin(i) == (i - 1) * P
<1>1. Len(frag) = N
      /\ \A i \in 1..N :
           /\ frag[i] = [type |-> "Data", payload |-> frag[i].payload, final |-> i = N]
           /\ begin(i) \in Nat /\ Len(frag[i].payload) \in 1..P
           /\ begin(i) + Len(frag[i].payload) <= Len(data)
           /\ \A j \in 1..Len(frag[i].payload) : frag[i].payload[j] = data[begin(i) + j]
  BY FragmentsProperties DEF FragmentAt
<1>2. N \in Nat /\ P \in Nat /\ Len(data) \in Nat
  BY NumberOfPacketsFits, FragmentationAssumption, LenProperties, EmptySeq
<1>3. ASSUME NEW a \in 1..N, NEW b \in 1..N, a < b PROVE begin(a) + P <= begin(b)
  <2>1. a \in Nat /\ b - 1 \in Nat /\ a <= b - 1 /\ a - 1 \in Nat
    BY <1>2, <1>3
  <2>2. a * P <= (b - 1) * P
    BY <1>2, <2>1, TimesGrows
  <2>3. (a - 1) * P + P = a * P
    BY <1>2, <2>1
  <2>4. QED
    BY <2>2, <2>3
<1> HIDE DEF N, frag, begin, P
<1>4. /\ \A i \in 1..N : /\ Payloads(frag)[i] = frag[i].payload
                         /\ frag[i].type = "Data"
      /\ Len(Payloads(frag)) = N
  BY <1>1, <1>2 DEF Payloads
<1>5. ASSUME NEW a \in 1..N, NEW j \in 1..Len(Payloads(frag)[a])
      PROVE  /\ Payloads(frag)[a][j] = data[begin(a) + j]
             /\ begin(a) + j \in 1..Len(data) /\ begin(a) + j <= begin(a) + P
             /\ begin(a) \in Nat
  <2>1. Payloads(frag)[a] = frag[a].payload
    BY <1>4
  <2>2. /\ begin(a) \in Nat /\ Len(frag[a].payload) \in 1..P
        /\ begin(a) + Len(frag[a].payload) <= Len(data)
        /\ frag[a].payload[j] = data[begin(a) + j]
    BY <1>1, <2>1
  <2>3. j \in 1..Len(frag[a].payload)
    BY <2>1
  <2>4. begin(a) + j \in 1..Len(data) /\ begin(a) + j <= begin(a) + P
    BY <1>2, <2>2, <2>3
  <2>5. QED
    BY <2>1, <2>2, <2>4
<1>6. ASSUME NEW a \in 1..N PROVE Ascends(again, Payloads(frag)[a])
  <2>1. ASSUME NEW i \in 1..Len(Payloads(frag)[a]), NEW j \in 1..Len(Payloads(frag)[a]), i < j
        PROVE  Follows(again, Payloads(frag)[a][i], Payloads(frag)[a][j])
    <3>1. begin(a) + i < begin(a) + j
      BY <1>5, <2>1
    <3>2. QED
      BY <1>5, <3>1 DEF Ascends
  <2>2. QED
    BY <2>1 DEF Ascends
<1>7. ASSUME NEW a \in 1..N, NEW b \in 1..N, a < b
      PROVE  AllFollow(again, Its(Payloads(frag)[a]), Its(Payloads(frag)[b]))
  <2>1. ASSUME NEW i \in 1..Len(Payloads(frag)[a]), NEW j \in 1..Len(Payloads(frag)[b])
        PROVE  Follows(again, Payloads(frag)[a][i], Payloads(frag)[b][j])
    <3>1. begin(a) + P <= begin(b)
      BY <1>3, <1>7
    <3>2. /\ begin(a) \in Nat /\ begin(b) \in Nat /\ j \in Nat /\ j >= 1 /\ i \in Nat
          /\ begin(a) + i <= begin(a) + P
      <4>1. Len(Payloads(frag)[a]) \in Nat /\ Len(Payloads(frag)[b]) \in Nat
        BY <1>1, <1>2, <1>4
      <4>2. QED
        BY <1>5, <4>1
    <3>3. begin(a) + i < begin(b) + j
      BY <1>2, <3>1, <3>2
    <3>4. QED
      BY <1>5, <3>3 DEF Ascends
  <2>2. QED
    BY <2>1 DEF AllFollow, Its
<1>8. Sorted(again, Payloads(frag))
  BY <1>4, <1>6, <1>7 DEF Sorted
<1>9. Bytes(Payloads(frag)) \subseteq Its(data)
  <2>1. ASSUME NEW a \in 1..N, NEW b \in Its(Payloads(frag)[a]) PROVE b \in Its(data)
    <3>1. PICK j \in 1..Len(Payloads(frag)[a]) : b = Payloads(frag)[a][j]
      BY DEF Its
    <3>2. QED
      BY <1>5, <3>1 DEF Its
  <2>2. QED
    BY <1>4, <2>1 DEF Bytes
<1>10. DataPayloads(frag) = Payloads(frag)
  BY <1>1, <1>4 DEF DataPayloads, Payloads
<1>11. QED
  BY <1>8, <1>9, <1>10 DEF frag

-----------------------------------------------------------------------------
(* Lines of four places *)

InLine(again, a, b, c, d) ==
  /\ Sorted(again, a) /\ Sorted(again, b) /\ Sorted(again, c) /\ Sorted(again, d)
  /\ AllFollow(again, Bytes(a), Bytes(b)) /\ AllFollow(again, Bytes(a), Bytes(c))
  /\ AllFollow(again, Bytes(a), Bytes(d)) /\ AllFollow(again, Bytes(b), Bytes(c))
  /\ AllFollow(again, Bytes(b), Bytes(d)) /\ AllFollow(again, Bytes(c), Bytes(d))

LineBytes(a, b, c, d) == Bytes(a) \cup Bytes(b) \cup Bytes(c) \cup Bytes(d)

LEMMA FollowSubsets ==
  \A again, X, Y, V, W :
    AllFollow(again, X, Y) /\ V \subseteq X /\ W \subseteq Y => AllFollow(again, V, W)
BY DEF AllFollow

LEMMA FollowUnions ==
  \A again, X, Y, Z :
    /\ AllFollow(again, X \cup Y, Z) <=> AllFollow(again, X, Z) /\ AllFollow(again, Y, Z)
    /\ AllFollow(again, Z, X \cup Y) <=> AllFollow(again, Z, X) /\ AllFollow(again, Z, Y)
BY DEF AllFollow

\* A line stays in order when every place loses something, or nothing,
LEMMA LineThins ==
  ASSUME NEW again, NEW a, NEW b, NEW c, NEW d, NEW a2, NEW b2, NEW c2, NEW d2,
         InLine(again, a, b, c, d),
         Sorted(again, a2), Sorted(again, b2), Sorted(again, c2), Sorted(again, d2),
         Bytes(a2) \subseteq Bytes(a), Bytes(b2) \subseteq Bytes(b),
         Bytes(c2) \subseteq Bytes(c), Bytes(d2) \subseteq Bytes(d)
  PROVE  InLine(again, a2, b2, c2, d2) /\ LineBytes(a2, b2, c2, d2) \subseteq LineBytes(a, b, c, d)
<1>1. /\ AllFollow(again, Bytes(a2), Bytes(b2)) /\ AllFollow(again, Bytes(a2), Bytes(c2))
      /\ AllFollow(again, Bytes(a2), Bytes(d2))
  BY FollowSubsets DEF InLine
<1>2. /\ AllFollow(again, Bytes(b2), Bytes(c2)) /\ AllFollow(again, Bytes(b2), Bytes(d2))
      /\ AllFollow(again, Bytes(c2), Bytes(d2))
  BY FollowSubsets DEF InLine
<1>3. LineBytes(a2, b2, c2, d2) \subseteq LineBytes(a, b, c, d)
  BY DEF LineBytes
<1>4. QED
  BY <1>1, <1>2, <1>3 DEF InLine

\* or when the first of the second place moves to the end of the first one,
LEMMA LineMovesToFirst ==
  ASSUME NEW again, NEW a, NEW b, NEW c, NEW d, NEW h, NEW a2, NEW b2,
         InLine(again, a, b, c, d), Splits(b, h, b2), Splits(a2, a, h)
  PROVE  InLine(again, a2, b2, c, d) /\ LineBytes(a2, b2, c, d) \subseteq LineBytes(a, b, c, d)
<1>1. /\ Sorted(again, h) /\ Sorted(again, b2) /\ AllFollow(again, Bytes(h), Bytes(b2))
      /\ Bytes(b) = Bytes(h) \cup Bytes(b2) /\ Bytes(a2) = Bytes(a) \cup Bytes(h)
  BY SplitSorted, SplitBytes DEF InLine
<1>2. /\ AllFollow(again, Bytes(a), Bytes(h)) /\ AllFollow(again, Bytes(a), Bytes(b2))
      /\ AllFollow(again, Bytes(h), Bytes(c)) /\ AllFollow(again, Bytes(b2), Bytes(c))
      /\ AllFollow(again, Bytes(h), Bytes(d)) /\ AllFollow(again, Bytes(b2), Bytes(d))
  BY <1>1, FollowUnions DEF InLine
<1>3. Sorted(again, a2)
  BY <1>1, <1>2, SplitSorted DEF InLine
<1>4. /\ AllFollow(again, Bytes(a2), Bytes(b2)) /\ AllFollow(again, Bytes(a2), Bytes(c))
      /\ AllFollow(again, Bytes(a2), Bytes(d))
  BY <1>1, <1>2, FollowUnions, SMTT(60) DEF InLine
<1>5. LineBytes(a2, b2, c, d) \subseteq LineBytes(a, b, c, d)
  BY <1>1 DEF LineBytes
<1>6. QED
  BY <1>1, <1>2, <1>3, <1>4, <1>5 DEF InLine

\* the first of the third place becomes the second one, which is empty,
LEMMA LineMovesToSecond ==
  ASSUME NEW again, NEW a, NEW c, NEW d, NEW h, NEW c2,
         InLine(again, a, <<>>, c, d), Splits(c, h, c2)
  PROVE  InLine(again, a, h, c2, d) /\ LineBytes(a, h, c2, d) \subseteq LineBytes(a, <<>>, c, d)
<1>1. /\ Sorted(again, h) /\ Sorted(again, c2) /\ AllFollow(again, Bytes(h), Bytes(c2))
      /\ Bytes(c) = Bytes(h) \cup Bytes(c2)
  BY SplitSorted, SplitBytes DEF InLine
<1>2. /\ AllFollow(again, Bytes(a), Bytes(h)) /\ AllFollow(again, Bytes(a), Bytes(c2))
      /\ AllFollow(again, Bytes(h), Bytes(d)) /\ AllFollow(again, Bytes(c2), Bytes(d))
  BY <1>1, FollowUnions DEF InLine
<1>3. QED
  BY <1>1, <1>2 DEF InLine, LineBytes

\* what may come again is repeated in the first place,
LEMMA LineRepeats ==
  ASSUME NEW again, NEW a, NEW b, NEW c, NEW d, NEW a2, NEW b2, NEW t,
         InLine(again, a, b, c, d), Splits(a2, a, t), Sorted(again, t), Sorted(again, b2),
         Bytes(t) \subseteq Bytes(b), Bytes(b2) \subseteq Bytes(b),
         AllFollow(again, Bytes(b), Bytes(b))
  PROVE  InLine(again, a2, b2, c, d) /\ LineBytes(a2, b2, c, d) \subseteq LineBytes(a, b, c, d)
<1>1. Bytes(a2) = Bytes(a) \cup Bytes(t)
  BY SplitBytes
<1>2. /\ AllFollow(again, Bytes(a), Bytes(t)) /\ AllFollow(again, Bytes(t), Bytes(b2))
      /\ AllFollow(again, Bytes(t), Bytes(c)) /\ AllFollow(again, Bytes(t), Bytes(d))
      /\ AllFollow(again, Bytes(a), Bytes(b2)) /\ AllFollow(again, Bytes(b2), Bytes(c))
      /\ AllFollow(again, Bytes(b2), Bytes(d))
  BY FollowSubsets DEF InLine
<1>3. Sorted(again, a2)
  BY <1>2, SplitSorted DEF InLine
<1>4. /\ AllFollow(again, Bytes(a2), Bytes(b2)) /\ AllFollow(again, Bytes(a2), Bytes(c))
      /\ AllFollow(again, Bytes(a2), Bytes(d))
  BY <1>1, <1>2, FollowUnions DEF InLine
<1>5. QED
  BY <1>1, <1>2, <1>3, <1>4 DEF InLine, LineBytes

\* a part of the last place moves to the end of the third one,
LEMMA LineMovesToThird ==
  ASSUME NEW again, NEW a, NEW b, NEW c, NEW d, NEW h, NEW g, NEW c2, NEW d2, NEW d3,
         InLine(again, a, b, c, d), Splits(d, h, d2), Splits(c2, c, g),
         Sorted(again, g), Bytes(g) \subseteq Bytes(h),
         Sorted(again, d3), Bytes(d3) \subseteq Bytes(d2)
  PROVE  InLine(again, a, b, c2, d3) /\ LineBytes(a, b, c2, d3) \subseteq LineBytes(a, b, c, d)
<1>1. /\ AllFollow(again, Bytes(h), Bytes(d2))
      /\ Bytes(d) = Bytes(h) \cup Bytes(d2) /\ Bytes(c2) = Bytes(c) \cup Bytes(g)
  BY SplitSorted, SplitBytes DEF InLine
<1>2. Bytes(g) \subseteq Bytes(d) /\ Bytes(d3) \subseteq Bytes(d)
  BY <1>1
<1>3. /\ AllFollow(again, Bytes(g), Bytes(d3)) /\ AllFollow(again, Bytes(c), Bytes(g))
      /\ AllFollow(again, Bytes(c), Bytes(d3))
      /\ AllFollow(again, Bytes(a), Bytes(g)) /\ AllFollow(again, Bytes(a), Bytes(d3))
      /\ AllFollow(again, Bytes(b), Bytes(g)) /\ AllFollow(again, Bytes(b), Bytes(d3))
  BY <1>1, <1>2, FollowSubsets DEF InLine
<1>4. Sorted(again, c2)
  BY <1>3, SplitSorted DEF InLine
<1>5. /\ AllFollow(again, Bytes(c) \cup Bytes(g), Bytes(d3))
      /\ AllFollow(again, Bytes(a), Bytes(c) \cup Bytes(g))
      /\ AllFollow(again, Bytes(b), Bytes(c) \cup Bytes(g))
  BY <1>3, FollowUnions DEF InLine
<1>6. InLine(again, a, b, c2, d3)
  BY <1>1, <1>3, <1>4, <1>5 DEF InLine
<1>7. QED
  BY <1>1, <1>2, <1>6 DEF LineBytes

\* or to the end of the first one, when the places between are empty.
LEMMA LineMovesAllTheWay ==
  ASSUME NEW again, NEW a, NEW d, NEW h, NEW g, NEW a2, NEW d2, NEW d3,
         InLine(again, a, <<>>, <<>>, d), Splits(d, h, d2), Splits(a2, a, g),
         Sorted(again, g), Bytes(g) \subseteq Bytes(h),
         Sorted(again, d3), Bytes(d3) \subseteq Bytes(d2)
  PROVE  /\ InLine(again, a2, <<>>, <<>>, d3)
         /\ LineBytes(a2, <<>>, <<>>, d3) \subseteq LineBytes(a, <<>>, <<>>, d)
<1>1. /\ AllFollow(again, Bytes(h), Bytes(d2))
      /\ Bytes(d) = Bytes(h) \cup Bytes(d2) /\ Bytes(a2) = Bytes(a) \cup Bytes(g)
  BY SplitSorted, SplitBytes DEF InLine
<1>2. Bytes(g) \subseteq Bytes(d) /\ Bytes(d3) \subseteq Bytes(d) /\ Bytes(<<>>) = {}
      /\ Sorted(again, <<>>)
  BY <1>1, OneSorted
<1>3. /\ AllFollow(again, Bytes(g), Bytes(d3)) /\ AllFollow(again, Bytes(a), Bytes(g))
      /\ AllFollow(again, Bytes(a), Bytes(d3))
  BY <1>1, <1>2, FollowSubsets DEF InLine
<1>4. Sorted(again, a2)
  BY <1>3, SplitSorted DEF InLine
<1>5. \A X : AllFollow(again, {}, X) /\ AllFollow(again, X, {})
  BY DEF AllFollow
<1>6. AllFollow(again, Bytes(a) \cup Bytes(g), Bytes(d3))
  BY <1>3, FollowUnions
<1>7. QED
  BY <1>1, <1>2, <1>4, <1>5, <1>6 DEF InLine, LineBytes

\* What carries no data adds nothing.
LEMMA NoDataAdded ==
  ASSUME NEW again, NEW r, NEW s, NEW t, Splits(r, s, t),
         \A i \in 1..Len(t) : t[i].type # "Data"
  PROVE  /\ Bytes(DataPayloads(r)) = Bytes(DataPayloads(s))
         /\ Sorted(again, DataPayloads(s)) => Sorted(again, DataPayloads(r))
<1>1. Splits(DataPayloads(r), DataPayloads(s), DataPayloads(t))
  BY PayloadsSplit
<1>2. Len(t) \in Nat
  BY DEF Splits
<1>3. /\ Len(DataPayloads(t)) = Len(t)
      /\ \A i \in 1..Len(t) : DataPayloads(t)[i] = <<>>
  BY <1>2 DEF DataPayloads
<1>4. Its(<<>>) = {} /\ Ascends(again, <<>>)
  BY EmptySeq DEF Its, Ascends
<1>5. Bytes(DataPayloads(t)) = {}
  BY <1>3, <1>4 DEF Bytes
<1>6. Sorted(again, DataPayloads(t))
  BY <1>3, <1>4 DEF Sorted, AllFollow
<1>7. AllFollow(again, Bytes(DataPayloads(s)), Bytes(DataPayloads(t)))
  BY <1>5 DEF AllFollow
<1>8. QED
  BY <1>1, <1>5, <1>6, <1>7, SplitBytes, SplitSorted

-----------------------------------------------------------------------------
(* The two lines of a node *)

\* The first frame does not wait any more when Run has sent it and still has
\* to pop it.
Waiting(n) ==
  [i \in 1..Len(downstream_buffer[n]) |->
     IF i = 1 /\ n \in in_run THEN <<>> ELSE downstream_buffer[n][i]]

ReceiveInOrder(n) ==
  InLine(enabled, tunnel_out[n], upstream_buffer[n],
         Payloads(fragmented_packets[n]), DataPayloads(rx[n]))

Received(n) ==
  LineBytes(tunnel_out[n], upstream_buffer[n],
            Payloads(fragmented_packets[n]), DataPayloads(rx[n]))

SendInOrder(n) ==
  InLine(enabled, DataPayloads(packets_to_send[n]), PendingPayloads(pending_packets[n]),
         Payloads(ack_queue[n]), Waiting(n))

ToSend(n) ==
  LineBytes(DataPayloads(packets_to_send[n]), PendingPayloads(pending_packets[n]),
            Payloads(ack_queue[n]), Waiting(n))

\* AckLayer keeps nothing while it is disabled.
AckIdle == ~enabled => \A n \in Node : ack_queue[n] = <<>> /\ pending_packets[n] = <<>>

OrderInv ==
  /\ \A n \in Node : ReceiveInOrder(n) /\ SendInOrder(n)
  /\ \A n, m \in Node : AllFollow(enabled, Received(n), ToSend(m))
  /\ \A n \in Node : \A b \in ToSend(n) : b[1] = n
  /\ AckIdle

-----------------------------------------------------------------------------

ReceivesAs(n) ==
  /\ tunnel_out'[n] = tunnel_out[n] /\ upstream_buffer'[n] = upstream_buffer[n]
  /\ fragmented_packets'[n] = fragmented_packets[n] /\ rx'[n] = rx[n]

SendsAs(n) ==
  /\ packets_to_send'[n] = packets_to_send[n] /\ pending_packets'[n] = pending_packets[n]
  /\ ack_queue'[n] = ack_queue[n] /\ downstream_buffer'[n] = downstream_buffer[n]
  /\ n \in in_run' <=> n \in in_run

\* What a line holds is in order still, and nothing came to it.
Shrinks(n) ==
  /\ ReceiveInOrder(n)' /\ Received(n)' \subseteq Received(n)
  /\ SendInOrder(n)' /\ ToSend(n)' \subseteq ToSend(n)

LEMMA ReceivesAsBefore ==
  ASSUME NEW n, ReceivesAs(n), enabled' = enabled
  PROVE  ReceiveInOrder(n)' = ReceiveInOrder(n) /\ Received(n)' = Received(n)
BY DEF ReceivesAs, ReceiveInOrder, Received

LEMMA SendsAsBefore ==
  ASSUME NEW n, SendsAs(n), enabled' = enabled
  PROVE  /\ SendInOrder(n)' = SendInOrder(n) /\ ToSend(n)' = ToSend(n)
         /\ Waiting(n)' = Waiting(n)
<1>1. Waiting(n)' = Waiting(n)
  BY DEF SendsAs, Waiting
<1>2. QED
  BY <1>1 DEF SendsAs, SendInOrder, ToSend

LEMMA OrderShrinks ==
  ASSUME OrderInv, enabled' = enabled, AckIdle', \A n \in Node : Shrinks(n)
  PROVE  OrderInv'
<1>1. \A n \in Node : ReceiveInOrder(n)' /\ SendInOrder(n)'
  BY DEF Shrinks
<1>2. \A n, m \in Node : AllFollow(enabled', Received(n)', ToSend(m)')
  BY FollowSubsets DEF OrderInv, Shrinks
<1>3. \A n \in Node : \A b \in ToSend(n)' : b[1] = n
  BY DEF OrderInv, Shrinks
<1>4. QED
  BY <1>1, <1>2, <1>3 DEF OrderInv

LEMMA OrderSame ==
  ASSUME OrderInv, enabled' = enabled, \A n \in Node : ReceivesAs(n) /\ SendsAs(n)
  PROVE  OrderInv'
<1>1. \A n \in Node : Shrinks(n)
  BY ReceivesAsBefore, SendsAsBefore DEF Shrinks, OrderInv
<1>2. AckIdle'
  BY DEF OrderInv, AckIdle, SendsAs
<1>3. QED
  BY <1>1, <1>2, OrderShrinks

\* So it is enough to look at the node that takes a step.
LEMMA OrderShrinksAt ==
  ASSUME NEW n \in Node, OrderInv, enabled' = enabled, AckIdle', Shrinks(n),
         \A m \in Node \ {n} : ReceivesAs(m) /\ SendsAs(m)
  PROVE  OrderInv'
<1>1. ASSUME NEW m \in Node \ {n} PROVE Shrinks(m)
  BY <1>1, ReceivesAsBefore, SendsAsBefore DEF Shrinks, OrderInv
<1>2. QED
  BY <1>1, OrderShrinks

-----------------------------------------------------------------------------
(* Steps of the radio *)

LEMMA QueueSequences ==
  ASSUME StackTypes
  PROVE  /\ packets_to_send \in [Node -> Seq(StackMail(ReadChunk))]
         /\ rx \in [Node -> Seq(StackMail(ReadChunk))]
BY DEF StackTypes, Typed, Hold, QueueTypes

LEMMA LayerSequences ==
  ASSUME StackTypes
  PROVE  /\ ack_queue \in [Node -> Seq(ReadChunk)]
         /\ pending_packets \in [Node -> Seq([packet : ReadChunk, times_sent : Nat])]
         /\ fragmented_packets \in [Node -> Seq({chunk \in ReadChunk : ~chunk.final})]
         /\ upstream_buffer \in [Node -> Seq(ReadMessage)]
         /\ tunnel_out \in [Node -> Seq(ReadMessage)]
BY DEF StackTypes, Typed, Hold, LayersHold

QueuesNoData(n) ==
  \/ packets_to_send' = packets_to_send
  \/ \E packet : /\ packet.type # "Data"
                 /\ packets_to_send' = [packets_to_send EXCEPT ![n] = Append(@, packet)]

TakesFirst(n) ==
  \/ rx' = rx
  \/ rx[n] # <<>> /\ rx' = [rx EXCEPT ![n] = Tail(@)]

LEMMA QueuesNoDataOrder ==
  ASSUME NEW n \in Node, StackTypes, OrderInv, QueuesNoData(n),
         enabled' = enabled, pending_packets'[n] = pending_packets[n],
         ack_queue'[n] = ack_queue[n], Waiting(n)' = Waiting(n)
  PROVE  SendInOrder(n)' /\ ToSend(n)' \subseteq ToSend(n)
<1> DEFINE before == packets_to_send[n]
           after == packets_to_send'[n]
<1>1. before \in Seq(StackMail(ReadChunk))
  BY QueueSequences
<1>2. after = before \/ \E packet : packet.type # "Data" /\ after = Append(before, packet)
  BY QueueSequences DEF QueuesNoData
<1>3. CASE after = before
  BY <1>3 DEF OrderInv, SendInOrder, ToSend
<1>4. ASSUME NEW packet, packet.type # "Data", after = Append(before, packet)
      PROVE  SendInOrder(n)' /\ ToSend(n)' \subseteq ToSend(n)
  <2>1. Splits(after, before, <<packet>>)
    BY <1>1, <1>4, AppendSplits
  <2>2. \A i \in 1..Len(<<packet>>) : <<packet>>[i].type # "Data"
    BY <1>4
  <2> HIDE DEF before, after
  <2>3. /\ Bytes(DataPayloads(after)) = Bytes(DataPayloads(before))
        /\ Sorted(enabled, DataPayloads(before)) => Sorted(enabled, DataPayloads(after))
    BY <2>1, <2>2, NoDataAdded
  <2> USE DEF before, after
  <2>4. QED
    BY <2>3 DEF OrderInv, SendInOrder, ToSend, InLine, LineBytes
<1>5. QED
  BY <1>2, <1>3, <1>4

LEMMA TakesFirstOrder ==
  ASSUME NEW n \in Node, StackTypes, OrderInv, TakesFirst(n),
         enabled' = enabled, tunnel_out'[n] = tunnel_out[n],
         upstream_buffer'[n] = upstream_buffer[n],
         fragmented_packets'[n] = fragmented_packets[n]
  PROVE  ReceiveInOrder(n)' /\ Received(n)' \subseteq Received(n)
<1> DEFINE before == rx[n]
           after == rx'[n]
<1>1. before \in Seq(StackMail(ReadChunk))
  BY QueueSequences
<1>2. after = before \/ (before # <<>> /\ after = Tail(before))
  BY QueueSequences DEF TakesFirst
<1>3. CASE after = before
  BY <1>3 DEF OrderInv, ReceiveInOrder, Received
<1>4. CASE before # <<>> /\ after = Tail(before)
  <2>1. Splits(before, <<Head(before)>>, after)
    BY <1>1, <1>4, TailSplits
  <2> HIDE DEF before, after
  <2>2. /\ Bytes(DataPayloads(after)) \subseteq Bytes(DataPayloads(before))
        /\ Sorted(enabled, DataPayloads(before)) => Sorted(enabled, DataPayloads(after))
    <3>1. Splits(DataPayloads(before), DataPayloads(<<Head(before)>>), DataPayloads(after))
      BY <2>1, PayloadsSplit
    <3>2. Sorted(enabled, DataPayloads(before))
      BY DEF OrderInv, ReceiveInOrder, InLine, before
    <3>3. QED
      BY <3>1, <3>2, SplitRest
  <2> USE DEF before, after
  <2>3. QED
    BY <2>2, FollowSubsets DEF OrderInv, ReceiveInOrder, Received, InLine, LineBytes
<1>5. QED
  BY <1>2, <1>3, <1>4

LEMMA RadioStepOrder ==
  ASSUME NEW n \in Node, StackTypes, OrderInv, QueuesNoData(n), TakesFirst(n),
         UNCHANGED layerVars
  PROVE  OrderInv'
<1>1. /\ enabled' = enabled /\ ack_queue' = ack_queue /\ pending_packets' = pending_packets
      /\ fragmented_packets' = fragmented_packets /\ tunnel_out' = tunnel_out
      /\ upstream_buffer' = upstream_buffer /\ downstream_buffer' = downstream_buffer
      /\ in_run' = in_run
  BY DEF layerVars, ackVars, tunnelVars
<1>2. \A m \in Node \ {n} : packets_to_send'[m] = packets_to_send[m] /\ rx'[m] = rx[m]
  BY QueueSequences DEF QueuesNoData, TakesFirst
<1>3. \A m \in Node \ {n} : ReceivesAs(m) /\ SendsAs(m)
  BY <1>1, <1>2 DEF ReceivesAs, SendsAs
<1>4. Waiting(n)' = Waiting(n)
  BY <1>1 DEF Waiting
<1>5. Shrinks(n)
  BY <1>1, <1>4, QueuesNoDataOrder, TakesFirstOrder DEF Shrinks
<1>6. AckIdle'
  BY <1>1 DEF OrderInv, AckIdle
<1>7. QED
  BY <1>1, <1>3, <1>5, <1>6, OrderShrinksAt

LEMMA RadioRunOrder ==
  ASSUME NEW n \in Node, StackTypes, OrderInv, RadioRun(n)
  PROVE  OrderInv'
<1>1. UNCHANGED layerVars
  BY DEF RadioRun
<1>2. QueuesNoData(n) /\ rx' = rx
  <2>1. CASE EndTurn(n)
    BY <2>1 DEF EndTurn, QueuesNoData
  <2>2. CASE SendDiscovery(n)
    BY <2>2 DEF SendDiscovery, Queue, IdPacket, QueuesNoData
  <2>3. CASE SettleAlone(n) \/ SettleAmongNeighbors(n)
    BY <2>3 DEF SettleAlone, SettleAmongNeighbors, Settle, Queue, IdPacket, QueuesNoData
  <2>4. CASE Abort(n) /\ Alive(n)'
    BY <2>4 DEF Abort, Exit, Alive, StackTypes, Typed, RadioTypes
  <2>5. QED
    BY <2>1, <2>2, <2>3, <2>4 DEF RadioRun, Timer
<1>3. QED
  BY <1>1, <1>2, RadioStepOrder DEF TakesFirst

LEMMA RadioLearnsOrder ==
  ASSUME NEW n \in Node, StackTypes, OrderInv, RadioLearns(n)
  PROVE  OrderInv'
<1>1. UNCHANGED layerVars /\ TakesFirst(n)
  BY DEF RadioLearns, Receive, TakesFirst
<1>2. QueuesNoData(n)
  <2>1. ASSUME NEW packet, Respond(n, packet) PROVE QueuesNoData(n)
    BY <2>1 DEF Respond, Queue, QueuesNoData
  <2>2. ASSUME NEW packet, HandleDiscoveryPacket(n, packet) PROVE QueuesNoData(n)
    BY <2>1, <2>2 DEF HandleDiscoveryPacket, QueuesNoData
  <2>3. QED
    BY <2>2 DEF RadioLearns, Receive, HandleDiscoveryAckPacket,
                HandleNodeIdAnnouncementPacket, QueuesNoData
<1>3. QED
  BY <1>1, <1>2, RadioStepOrder

LEMMA StartStackOrder ==
  ASSUME NEW n \in Node, StackTypes, OrderInv, StartStack(n)
  PROVE  OrderInv'
BY RadioStepOrder DEF StartStack, Start, QueuesNoData, TakesFirst

LEMMA PassesOrder == ASSUME OrderInv, Passes PROVE OrderInv'
<1>1. UNCHANGED layerVars /\ rx' = rx /\ packets_to_send' = packets_to_send
  BY DEF Passes, Tick, Stabilise
<1>2. \A n \in Node : ReceivesAs(n) /\ SendsAs(n)
  BY <1>1 DEF ReceivesAs, SendsAs, layerVars, ackVars, tunnelVars
<1>3. QED
  BY <1>1, <1>2, OrderSame DEF layerVars, ackVars

-----------------------------------------------------------------------------
(* What the places hold *)

LEMMA PayloadsTyped ==
  ASSUME NEW A, NEW packets, Len(packets) \in Nat,
         \A i \in 1..Len(packets) : packets[i].payload \in A
  PROVE  Payloads(packets) \in Seq(A) /\ Len(Payloads(packets)) = Len(packets)
BY IsASeq DEF Payloads

LEMMA DataPayloadsTyped ==
  ASSUME NEW C, NEW R, \A chunk \in C : chunk.payload \in Seq(R),
         NEW queue \in Seq(StackMail(C))
  PROVE  DataPayloads(queue) \in Seq(Seq(R))
<1> DEFINE P(packet) == IF packet.type = "Data" THEN packet.payload ELSE <<>>
<1>1. ASSUME NEW packet \in StackMail(C) PROVE P(packet) \in Seq(R)
  <2>1. CASE packet.type = "Data"
    <3>1. Unaddressed(packet) \in C
      BY <2>1, ChunkOfMail DEF CarriesData
    <3>2. QED
      BY <2>1, <3>1 DEF Unaddressed
  <2>2. CASE packet.type # "Data"
    BY <2>2, EmptySeq
  <2>3. QED
    BY <2>1, <2>2
<1>2. Len(queue) \in Nat /\ \A i \in 1..Len(queue) : queue[i] \in StackMail(C)
  BY LenProperties, ElementOfSeq
<1>3. \A i \in 1..Len(queue) : P(queue[i]) \in Seq(R)
  BY <1>1, <1>2
<1>4. DataPayloads(queue) = [i \in 1..Len(queue) |-> P(queue[i])]
  BY DEF DataPayloads
<1> HIDE DEF P
<1>5. QED
  BY <1>2, <1>3, <1>4, IsASeq

LEMMA ReceivePlaces ==
  ASSUME StackTypes, NEW n \in Node
  PROVE  /\ tunnel_out[n] \in Seq(Seq(ReadByte)) /\ upstream_buffer[n] \in Seq(Seq(ReadByte))
         /\ Payloads(fragmented_packets[n]) \in Seq(Seq(ReadByte))
         /\ DataPayloads(rx[n]) \in Seq(Seq(ReadByte))
<1>1. PICK C, M : C = ReadChunk /\ M = ReadMessage
  OBVIOUS
<1>2. PICK R : R = ReadByte
  OBVIOUS
<1>3. /\ \A chunk \in C : chunk.payload \in Seq(R)
      /\ M \subseteq Seq(R)
  BY <1>1, <1>2 DEF ReadChunk, ReadMessage
<1>4. /\ rx[n] \in Seq(StackMail(C)) /\ fragmented_packets[n] \in Seq({chunk \in C : ~chunk.final})
      /\ upstream_buffer[n] \in Seq(M) /\ tunnel_out[n] \in Seq(M)
  BY <1>1, QueueSequences, LayerSequences
<1>5. tunnel_out[n] \in Seq(Seq(R)) /\ upstream_buffer[n] \in Seq(Seq(R))
  BY <1>3, <1>4, SeqWider
<1>6. Payloads(fragmented_packets[n]) \in Seq(Seq(R))
  <2>1. Len(fragmented_packets[n]) \in Nat
        /\ \A i \in 1..Len(fragmented_packets[n]) : fragmented_packets[n][i] \in C
    BY <1>4, LenProperties, ElementOfSeq
  <2>2. QED
    BY <1>3, <2>1, PayloadsTyped
<1>7. DataPayloads(rx[n]) \in Seq(Seq(R))
  BY <1>3, <1>4, DataPayloadsTyped
<1>8. QED
  BY <1>2, <1>5, <1>6, <1>7

LEMMA SendPlaces ==
  ASSUME StackTypes, NEW n \in Node
  PROVE  /\ DataPayloads(packets_to_send[n]) \in Seq(Seq(ReadByte))
         /\ PendingPayloads(pending_packets[n]) \in Seq(Seq(ReadByte))
         /\ Payloads(ack_queue[n]) \in Seq(Seq(ReadByte))
         /\ Waiting(n) \in Seq(Seq(ReadByte))
<1>1. PICK C : C = ReadChunk
  OBVIOUS
<1>2. PICK R : R = ReadByte
  OBVIOUS
<1>3. \A chunk \in C : chunk.payload \in Seq(R)
  BY <1>1, <1>2 DEF ReadChunk
<1>4. /\ packets_to_send[n] \in Seq(StackMail(C)) /\ ack_queue[n] \in Seq(C)
      /\ pending_packets[n] \in Seq([packet : C, times_sent : Nat])
  BY <1>1, QueueSequences, LayerSequences
<1>5. DataPayloads(packets_to_send[n]) \in Seq(Seq(R))
  BY <1>3, <1>4, DataPayloadsTyped
<1>6. PendingPayloads(pending_packets[n]) \in Seq(Seq(R))
  <2>1. /\ Len(pending_packets[n]) \in Nat
        /\ \A i \in 1..Len(pending_packets[n]) : pending_packets[n][i].packet \in C
    <3> DEFINE P == [packet : C, times_sent : Nat]
    <3>1. \A entry \in P : entry.packet \in C
      OBVIOUS
    <3>2. pending_packets[n] \in Seq(P)
      BY <1>4
    <3> HIDE DEF P
    <3>3. QED
      BY <3>1, <3>2, LenProperties, ElementOfSeq
  <2>2. \A i \in 1..Len(pending_packets[n]) : pending_packets[n][i].packet.payload \in Seq(R)
    BY <1>3, <2>1
  <2>3. QED
    BY <2>1, <2>2, IsASeq DEF PendingPayloads
<1>7. Payloads(ack_queue[n]) \in Seq(Seq(R))
  <2>1. Len(ack_queue[n]) \in Nat /\ \A i \in 1..Len(ack_queue[n]) : ack_queue[n][i] \in C
    BY <1>4, LenProperties, ElementOfSeq
  <2>2. QED
    BY <1>3, <2>1, PayloadsTyped
<1>8. Waiting(n) \in Seq(Seq(R))
  <2>1. Len(downstream_buffer[n]) \in Nat
    BY BufferNat DEF StackTypes, BufferInv
  <2>2. ASSUME NEW i \in 1..Len(downstream_buffer[n])
        PROVE  downstream_buffer[n][i] \in Seq(R)
    <3>1. PICK k \in 1..Len(tunnel_in[n]) :
            downstream_buffer[n][i] = Frame(n, k, tunnel_in[n][k])
      BY DEF StackTypes, FramesQueued
    <3>2. k \in Nat /\ tunnel_in[n][k] \in Nat
      BY LenProperties, ElementOfSeq DEF StackTypes, FramesQueued
    <3>3. \A j \in 1..tunnel_in[n][k] : <<n, k, j>> \in R
      BY <1>2, <3>1, <3>2 DEF ReadByte, Byte
    <3>4. QED
      BY <3>1, <3>2, <3>3, IsASeq DEF Frame
  <2>3. \A i \in 1..Len(downstream_buffer[n]) :
          (IF i = 1 /\ n \in in_run THEN <<>> ELSE downstream_buffer[n][i]) \in Seq(R)
    BY <2>2, EmptySeq
  <2>4. QED
    BY <2>1, <2>3, IsASeq DEF Waiting
<1>9. QED
  BY <1>2, <1>5, <1>6, <1>7, <1>8

LEMMA BytesOfPlace ==
  ASSUME NEW A, NEW s \in Seq(Seq(A)) PROVE Bytes(s) \subseteq A
<1>1. ASSUME NEW b \in Bytes(s) PROVE b \in A
  <2>1. PICK a \in 1..Len(s) : b \in Its(s[a])
    BY DEF Bytes
  <2>2. s[a] \in Seq(A)
    BY <2>1, ElementOfSeq
  <2>3. PICK i \in 1..Len(s[a]) : b = s[a][i]
    BY <2>1 DEF Its
  <2>4. QED
    BY <2>2, <2>3, ElementOfSeq
<1>2. QED
  BY <1>1

LEMMA LinesRead ==
  ASSUME StackTypes, NEW n \in Node
  PROVE  Received(n) \subseteq ReadByte /\ ToSend(n) \subseteq ReadByte
BY ReceivePlaces, SendPlaces, BytesOfPlace DEF Received, ToSend, LineBytes

-----------------------------------------------------------------------------
(* Steps of the tunnel *)

\* A line stays in order when what follows all of it comes to its end.
LEMMA LineGrows ==
  ASSUME NEW again, NEW a, NEW b, NEW c, NEW d, NEW t, NEW d2,
         InLine(again, a, b, c, d), Splits(d2, d, t), Sorted(again, t),
         AllFollow(again, LineBytes(a, b, c, d), Bytes(t))
  PROVE  /\ InLine(again, a, b, c, d2)
         /\ LineBytes(a, b, c, d2) = LineBytes(a, b, c, d) \cup Bytes(t)
<1>1. Bytes(d2) = Bytes(d) \cup Bytes(t)
  BY SplitBytes
<1>2. /\ AllFollow(again, Bytes(a), Bytes(t)) /\ AllFollow(again, Bytes(b), Bytes(t))
      /\ AllFollow(again, Bytes(c), Bytes(t)) /\ AllFollow(again, Bytes(d), Bytes(t))
  BY DEF LineBytes, AllFollow
<1>3. Sorted(again, d2)
  BY <1>2, SplitSorted DEF InLine
<1>4. /\ AllFollow(again, Bytes(a), Bytes(d2)) /\ AllFollow(again, Bytes(b), Bytes(d2))
      /\ AllFollow(again, Bytes(c), Bytes(d2))
  BY <1>1, <1>2, FollowUnions DEF InLine
<1>5. InLine(again, a, b, c, d2)
  BY <1>3, <1>4 DEF InLine
<1>6. QED
  BY <1>1, <1>5 DEF LineBytes

LEMMA FrameAscends ==
  ASSUME NEW again, NEW n \in Node, NEW k \in Nat, NEW length \in Nat
  PROVE  /\ Ascends(again, Frame(n, k, length))
         /\ \A b \in Its(Frame(n, k, length)) : b[1] = n /\ b[2] = k
<1>1. Frame(n, k, length) \in Seq(Byte) /\ Len(Frame(n, k, length)) = length
  BY IsASeq DEF Frame, Byte
<1>2. \A i \in 1..length : Frame(n, k, length)[i] = <<n, k, i>>
  BY DEF Frame
<1>3. QED
  BY <1>1, <1>2 DEF Ascends, Its, Follows, Before

LEMMA WaitingFree ==
  ASSUME NEW n, n \notin in_run
  PROVE  /\ Waiting(n) = [i \in 1..Len(downstream_buffer[n]) |-> downstream_buffer[n][i]]
BY DEF Waiting

LEMMA ReadFrameOrder ==
  ASSUME NEW n \in Node, StackTypes, OrderInv, ReadFrame(n),
         UNCHANGED <<vars, restVars, ackVars, fragmented_packets>>
  PROVE  OrderInv'
<1> DEFINE k == Len(tunnel_in[n]) + 1
<1>1. PICK length \in FrameLengths[n] :
        downstream_buffer' = [downstream_buffer EXCEPT ![n] = Append(@, Frame(n, k, length))]
  BY DEF ReadFrame
<1>2. length \in Nat /\ Len(tunnel_in[n]) \in Nat /\ k \in Nat
  BY TunnelAssumption, LenProperties DEF StackTypes, FramesQueued
<1> DEFINE frame == Frame(n, k, length)
<1>3. /\ enabled' = enabled /\ ack_queue' = ack_queue /\ pending_packets' = pending_packets
      /\ fragmented_packets' = fragmented_packets /\ tunnel_out' = tunnel_out
      /\ upstream_buffer' = upstream_buffer /\ in_run' = in_run /\ rx' = rx
      /\ packets_to_send' = packets_to_send /\ n \notin in_run
  BY DEF ReadFrame, vars, ackVars
<1>4. downstream_buffer \in [Node -> Seq(Seq(Byte))]
  BY DEF StackTypes, BufferInv, BufferTypes
<1>5. /\ downstream_buffer'[n] = Append(downstream_buffer[n], frame)
      /\ \A m \in Node \ {n} : downstream_buffer'[m] = downstream_buffer[m]
  BY <1>1, <1>4
<1>6. Ascends(enabled, frame) /\ \A b \in Its(frame) : b[1] = n /\ b[2] = k
  BY <1>2, FrameAscends
<1> HIDE DEF frame
<1>7. Splits(Waiting(n)', Waiting(n), <<frame>>)
  <2>1. Splits(downstream_buffer'[n], downstream_buffer[n], <<frame>>)
    BY <1>4, <1>5, AppendSplits
  <2>2. /\ Waiting(n) = [i \in 1..Len(downstream_buffer[n]) |-> downstream_buffer[n][i]]
        /\ Waiting(n)' = [i \in 1..Len(downstream_buffer'[n]) |-> downstream_buffer'[n][i]]
    BY <1>3 DEF Waiting
  <2>3. QED
    BY <2>1, <2>2 DEF Splits
<1>8. ASSUME NEW X, X \subseteq ReadByte PROVE AllFollow(enabled, X, Its(frame))
  <2>1. ASSUME NEW b \in X, NEW d \in Its(frame), b[1] = d[1] PROVE Before(b, d)
    <3>1. d[1] = n /\ d[2] = k /\ b \in ReadByte
      BY <1>6, <1>8
    <3>2. b[2] \in 1..Len(tunnel_in[n])
      BY <2>1, <3>1 DEF ReadByte
    <3>3. QED
      BY <1>2, <3>1, <3>2 DEF Before
  <2>2. QED
    BY <2>1 DEF AllFollow, Follows
<1>9. /\ Sorted(enabled, <<frame>>) /\ Bytes(<<frame>>) = Its(frame)
  BY <1>6, OneSorted
<1>10. SendInOrder(n)' /\ ToSend(n)' = ToSend(n) \cup Its(frame)
  <2>1. AllFollow(enabled, ToSend(n), Bytes(<<frame>>))
    BY <1>8, <1>9, LinesRead
  <2>2. SendInOrder(n)
    BY DEF OrderInv
  <2>3. PICK a, b, c, d, d2 :
          /\ a = DataPayloads(packets_to_send[n]) /\ b = PendingPayloads(pending_packets[n])
          /\ c = Payloads(ack_queue[n]) /\ d = Waiting(n) /\ d2 = Waiting(n)'
    OBVIOUS
  <2>4. InLine(enabled, a, b, c, d) /\ ToSend(n) = LineBytes(a, b, c, d)
    BY <2>2, <2>3 DEF SendInOrder, ToSend
  <2>5. /\ InLine(enabled, a, b, c, d2)
        /\ LineBytes(a, b, c, d2) = ToSend(n) \cup Bytes(<<frame>>)
    BY <1>7, <1>9, <2>1, <2>3, <2>4, LineGrows
  <2>6. SendInOrder(n)' = InLine(enabled, a, b, c, d2) /\ ToSend(n)' = LineBytes(a, b, c, d2)
    BY <1>3, <2>3 DEF SendInOrder, ToSend
  <2>7. QED
    BY <1>9, <2>5, <2>6
<1>11. ASSUME NEW m \in Node
       PROVE  ReceiveInOrder(m)' = ReceiveInOrder(m) /\ Received(m)' = Received(m)
  BY <1>3, ReceivesAsBefore DEF ReceivesAs
<1>12. ASSUME NEW m \in Node \ {n}
       PROVE  SendInOrder(m)' = SendInOrder(m) /\ ToSend(m)' = ToSend(m)
  BY <1>3, <1>5, SendsAsBefore DEF SendsAs
<1>13. \A m \in Node : ReceiveInOrder(m)' /\ SendInOrder(m)'
  BY <1>10, <1>11, <1>12 DEF OrderInv
<1>14. ASSUME NEW m \in Node, NEW o \in Node
       PROVE  AllFollow(enabled', Received(m)', ToSend(o)')
  <2>1. CASE o = n
    <3>1. AllFollow(enabled, Received(m), ToSend(n)) /\ AllFollow(enabled, Received(m), Its(frame))
      BY <1>8, LinesRead DEF OrderInv
    <3>2. AllFollow(enabled, Received(m), ToSend(n) \cup Its(frame))
      BY <3>1, FollowUnions
    <3>3. QED
      BY <1>3, <1>10, <1>11, <2>1, <3>2
  <2>2. CASE o # n
    BY <1>3, <1>11, <1>12, <2>2 DEF OrderInv
  <2>3. QED
    BY <2>1, <2>2
<1>15. \A m \in Node : \A b \in ToSend(m)' : b[1] = m
  BY <1>6, <1>10, <1>12 DEF OrderInv
<1>16. AckIdle'
  BY <1>3 DEF OrderInv, AckIdle
<1>17. QED
  BY <1>13, <1>14, <1>15, <1>16 DEF OrderInv

LEMMA TunnelThreadOrder ==
  ASSUME NEW n \in Node, StackTypes, OrderInv, TunnelThread(n)
  PROVE  OrderInv'
<1>1. CASE ReadFrame(n)
  BY <1>1, ReadFrameOrder DEF TunnelThread
<1>2. CASE CheckRoom(n)
  <2>1. enabled' = enabled /\ \A m \in Node : ReceivesAs(m) /\ SendsAs(m)
    BY <1>2 DEF TunnelThread, CheckRoom, ReceivesAs, SendsAs, vars, ackVars
  <2>2. QED
    BY <2>1, OrderSame
<1>3. QED
  BY <1>1, <1>2 DEF TunnelThread

\* A message is written, and the frame that was sent is popped.
LEMMA EndRunReceives ==
  ASSUME NEW n \in Node, StackTypes, OrderInv, EndRun(n),
         UNCHANGED <<vars, restVars, ackVars, fragmented_packets>>
  PROVE  ReceiveInOrder(n)' /\ Received(n)' \subseteq Received(n)
<1>1. enabled' = enabled /\ fragmented_packets' = fragmented_packets /\ rx' = rx
  BY DEF vars, ackVars
<1>2. CASE UNCHANGED <<upstream_buffer, tunnel_out>>
  <2>1. ReceivesAs(n)
    BY <1>1, <1>2 DEF ReceivesAs
  <2>2. QED
    BY <1>1, <2>1, ReceivesAsBefore DEF OrderInv
<1>3. CASE /\ upstream_buffer[n] # <<>>
           /\ tunnel_out' = [tunnel_out EXCEPT ![n] = Append(@, Head(upstream_buffer[n]))]
           /\ upstream_buffer' = [upstream_buffer EXCEPT ![n] = Tail(@)]
  <2>1. PICK a, b, c, d, a2, b2 :
          /\ a = tunnel_out[n] /\ b = upstream_buffer[n]
          /\ c = Payloads(fragmented_packets[n]) /\ d = DataPayloads(rx[n])
          /\ a2 = tunnel_out'[n] /\ b2 = upstream_buffer'[n]
    OBVIOUS
  <2>2. /\ InLine(enabled, a, b, c, d) /\ Received(n) = LineBytes(a, b, c, d)
        /\ ReceiveInOrder(n)' = InLine(enabled, a2, b2, c, d)
        /\ Received(n)' = LineBytes(a2, b2, c, d)
    BY <1>1, <2>1 DEF OrderInv, ReceiveInOrder, Received
  <2>3. a2 = Append(a, Head(b)) /\ b2 = Tail(b) /\ b # <<>>
    BY <1>3, <2>1, LayerSequences
  <2>4. /\ a \in Seq(Seq(ReadByte)) /\ b \in Seq(Seq(ReadByte))
    BY <2>1, ReceivePlaces
  <2>5. Splits(b, <<Head(b)>>, b2) /\ Splits(a2, a, <<Head(b)>>)
    BY <2>3, <2>4, TailSplits, AppendSplits
  <2>6. QED
    BY <2>2, <2>5, LineMovesToFirst
<1>4. QED
  BY <1>2, <1>3 DEF EndRun, WriteToTunnel

LEMMA EndRunSends ==
  ASSUME NEW n \in Node, StackTypes, OrderInv, EndRun(n),
         UNCHANGED <<vars, restVars, ackVars, fragmented_packets>>
  PROVE  SendInOrder(n)' /\ ToSend(n)' \subseteq ToSend(n)
<1>1. /\ enabled' = enabled /\ ack_queue' = ack_queue /\ pending_packets' = pending_packets
      /\ packets_to_send' = packets_to_send
  BY DEF vars, ackVars
<1>2. CASE n \notin in_run /\ UNCHANGED downstream_buffer
  <2>1. SendsAs(n)
    BY <1>1, <1>2 DEF SendsAs, EndRun
  <2>2. QED
    BY <1>1, <2>1, SendsAsBefore DEF OrderInv
<1>3. CASE n \in in_run /\ downstream_buffer' = [downstream_buffer EXCEPT ![n] = Tail(@)]
  <2>1. /\ downstream_buffer[n] \in Seq(Seq(Byte)) /\ downstream_buffer[n] # <<>>
        /\ downstream_buffer'[n] = Tail(downstream_buffer[n])
    <3>1. Len(downstream_buffer[n]) >= 1
      BY <1>3 DEF StackTypes, BufferInv, RunHasFrame
    <3>2. QED
      BY <1>3, <3>1, EmptySeq DEF StackTypes, BufferInv, BufferTypes
  <2>2. Splits(downstream_buffer[n], <<Head(downstream_buffer[n])>>, downstream_buffer'[n])
    BY <2>1, TailSplits
  <2>3. n \notin in_run'
    BY DEF EndRun
  <2>4. PICK a, b, c, d, d2 :
          /\ a = DataPayloads(packets_to_send[n]) /\ b = PendingPayloads(pending_packets[n])
          /\ c = Payloads(ack_queue[n]) /\ d = Waiting(n) /\ d2 = Waiting(n)'
    OBVIOUS
  <2>5. /\ InLine(enabled, a, b, c, d) /\ ToSend(n) = LineBytes(a, b, c, d)
        /\ SendInOrder(n)' = InLine(enabled, a, b, c, d2)
        /\ ToSend(n)' = LineBytes(a, b, c, d2)
    BY <1>1, <2>4 DEF OrderInv, SendInOrder, ToSend
  <2>6. Splits(d, << <<>> >>, d2)
    <3>1. /\ Len(d) = Len(downstream_buffer[n]) /\ Len(d2) = Len(downstream_buffer'[n])
          /\ d[1] = <<>>
      BY <1>3, <2>1, <2>2, <2>4, LenProperties DEF Waiting, Splits
    <3>2. \A i \in 1..Len(d2) : d2[i] = d[1 + i]
      <4>1. TAKE i \in 1..Len(d2)
      <4>2. downstream_buffer'[n][i] = downstream_buffer[n][1 + i]
        BY <2>2, <3>1 DEF Splits
      <4>3. 1 + i \in 1..Len(d) /\ 1 + i # 1
        BY <2>2, <3>1 DEF Splits
      <4>4. QED
        BY <2>3, <2>4, <3>1, <4>2, <4>3 DEF Waiting
    <3>3. Len(d2) \in Nat /\ Len(d) = 1 + Len(d2)
      BY <2>2, <3>1 DEF Splits
    <3>4. /\ Len(<< <<>> >>) = 1 /\ \A i \in 1..1 : d[i] = << <<>> >>[i]
          /\ \A i \in 1..Len(d2) : d[1 + i] = d2[i]
      BY <3>1, <3>2
    <3>5. QED
      BY <3>3, <3>4 DEF Splits
  <2>7. Sorted(enabled, d2) /\ Bytes(d2) \subseteq Bytes(d)
    BY <2>5, <2>6, SplitRest DEF InLine
  <2>8. QED
    BY <2>5, <2>7, LineThins DEF InLine
<1>4. QED
  BY <1>2, <1>3 DEF EndRun

LEMMA EndRunOrder ==
  ASSUME NEW n \in Node, StackTypes, OrderInv, EndRun(n),
         UNCHANGED <<vars, restVars, ackVars, fragmented_packets>>
  PROVE  OrderInv'
<1>1. Shrinks(n)
  BY EndRunReceives, EndRunSends DEF Shrinks
<1>2. /\ enabled' = enabled /\ ack_queue' = ack_queue /\ pending_packets' = pending_packets
      /\ packets_to_send' = packets_to_send /\ rx' = rx
      /\ fragmented_packets' = fragmented_packets
  BY DEF vars, ackVars
<1>3. ASSUME NEW m \in Node \ {n}
      PROVE  /\ tunnel_out'[m] = tunnel_out[m] /\ upstream_buffer'[m] = upstream_buffer[m]
             /\ downstream_buffer'[m] = downstream_buffer[m]
             /\ m \in in_run' <=> m \in in_run
  BY LayerSequences DEF EndRun, WriteToTunnel, StackTypes, BufferInv, BufferTypes
<1>4. \A m \in Node \ {n} : ReceivesAs(m) /\ SendsAs(m)
  BY <1>2, <1>3 DEF ReceivesAs, SendsAs
<1>5. AckIdle'
  BY <1>2 DEF OrderInv, AckIdle
<1>6. QED
  BY <1>1, <1>2, <1>4, <1>5, OrderShrinksAt

LEMMA EmptyPlace ==
  \A again, s : Len(s) = 0 => Bytes(s) = {} /\ Sorted(again, s)
BY DEF Bytes, Sorted

LEMMA EmptyPayloads ==
  Len(Payloads(<<>>)) = 0 /\ Len(DataPayloads(<<>>)) = 0 /\ Len(PendingPayloads(<<>>)) = 0
<1>1. Len(<<>>) = 0
  BY EmptySeq
<1>2. QED
  BY <1>1 DEF Payloads, DataPayloads, PendingPayloads

LEMMA StackEndsOrder ==
  ASSUME NEW n \in Node, StackTypes, OrderInv, StackEnds(n)
  PROVE  OrderInv'
<1>1. /\ enabled' = enabled /\ tunnel_out' = tunnel_out /\ in_run' = in_run
      /\ n \notin in_run
  BY DEF StackEnds
<1>2. /\ packets_to_send' = [packets_to_send EXCEPT ![n] = <<>>]
      /\ rx' = [rx EXCEPT ![n] = <<>>]
      /\ ack_queue' = [ack_queue EXCEPT ![n] = <<>>]
      /\ pending_packets' = [pending_packets EXCEPT ![n] = <<>>]
      /\ fragmented_packets' = [fragmented_packets EXCEPT ![n] = <<>>]
      /\ downstream_buffer' = [downstream_buffer EXCEPT ![n] = <<>>]
      /\ upstream_buffer' = [upstream_buffer EXCEPT ![n] = <<>>]
  BY DEF StackEnds, Abort, Exit
<1>3. /\ packets_to_send'[n] = <<>> /\ rx'[n] = <<>> /\ ack_queue'[n] = <<>>
      /\ pending_packets'[n] = <<>> /\ fragmented_packets'[n] = <<>>
      /\ downstream_buffer'[n] = <<>> /\ upstream_buffer'[n] = <<>>
  BY <1>2, QueueSequences, LayerSequences DEF StackTypes, BufferInv, BufferTypes
<1>4. \A m \in Node \ {n} : ReceivesAs(m) /\ SendsAs(m)
  <2>1. TAKE m \in Node \ {n}
  <2>2. /\ packets_to_send'[m] = packets_to_send[m] /\ rx'[m] = rx[m]
        /\ ack_queue'[m] = ack_queue[m] /\ pending_packets'[m] = pending_packets[m]
        /\ fragmented_packets'[m] = fragmented_packets[m]
        /\ downstream_buffer'[m] = downstream_buffer[m]
        /\ upstream_buffer'[m] = upstream_buffer[m]
    BY <1>2, QueueSequences, LayerSequences DEF StackTypes, BufferInv, BufferTypes
  <2>3. QED
    BY <1>1, <2>2 DEF ReceivesAs, SendsAs
<1>5. ReceiveInOrder(n)' /\ Received(n)' \subseteq Received(n)
  <2>1. PICK a, b, c, d, b2, c2, d2 :
          /\ a = tunnel_out[n] /\ b = upstream_buffer[n]
          /\ c = Payloads(fragmented_packets[n]) /\ d = DataPayloads(rx[n])
          /\ b2 = upstream_buffer'[n] /\ c2 = Payloads(fragmented_packets'[n])
          /\ d2 = DataPayloads(rx'[n])
    OBVIOUS
  <2>2. /\ InLine(enabled, a, b, c, d) /\ Received(n) = LineBytes(a, b, c, d)
        /\ ReceiveInOrder(n)' = InLine(enabled, a, b2, c2, d2)
        /\ Received(n)' = LineBytes(a, b2, c2, d2)
    BY <1>1, <2>1 DEF OrderInv, ReceiveInOrder, Received
  <2>3. Len(b2) = 0 /\ Len(c2) = 0 /\ Len(d2) = 0
    BY <1>3, <2>1, EmptyPayloads, EmptySeq
  <2>4. /\ Bytes(b2) = {} /\ Bytes(c2) = {} /\ Bytes(d2) = {}
        /\ Sorted(enabled, b2) /\ Sorted(enabled, c2) /\ Sorted(enabled, d2)
    BY <2>3, EmptyPlace
  <2>5. QED
    BY <2>2, <2>4, LineThins DEF InLine
<1>6. SendInOrder(n)' /\ ToSend(n)' \subseteq ToSend(n)
  <2>1. PICK a, b, c, d :
          /\ a = DataPayloads(packets_to_send[n])' /\ b = PendingPayloads(pending_packets[n])'
          /\ c = Payloads(ack_queue[n])' /\ d = Waiting(n)'
    OBVIOUS
  <2>2. /\ SendInOrder(n)' = InLine(enabled, a, b, c, d)
        /\ ToSend(n)' = LineBytes(a, b, c, d)
    BY <1>1, <2>1 DEF SendInOrder, ToSend
  <2>3. Len(a) = 0 /\ Len(b) = 0 /\ Len(c) = 0
    BY <1>3, <2>1, EmptyPayloads
  <2>4. Len(d) = 0
    BY <1>3, <2>1, EmptySeq DEF Waiting
  <2>5. \A again : InLine(again, a, b, c, d)
    BY <2>3, <2>4, EmptyPlace DEF InLine, AllFollow
  <2>6. LineBytes(a, b, c, d) = {}
    BY <2>3, <2>4, EmptyPlace DEF LineBytes
  <2>7. QED
    BY <2>2, <2>5, <2>6
<1>7. AckIdle'
  BY <1>1, <1>2, LayerSequences DEF OrderInv, AckIdle
<1>8. QED
  BY <1>1, <1>4, <1>5, <1>6, <1>7, OrderShrinksAt DEF Shrinks

-----------------------------------------------------------------------------
(* Steps that send packets down *)

\* What a handler sends down comes to the end of the queue, unless it is dropped.
LEMMA SentDown ==
  ASSUME NEW n \in Node, StackTypes, NEW packets \in Seq(ReadChunk),
         ReceiveFromUpstream(n, packets)
  PROVE  /\ \/ packets_to_send'[n] = packets_to_send[n]
            \/ Splits(DataPayloads(packets_to_send'[n]), DataPayloads(packets_to_send[n]),
                      DataPayloads(packets))
         /\ \A m \in Node \ {n} : packets_to_send'[m] = packets_to_send[m]
<1>1. CASE UNCHANGED packets_to_send
  BY <1>1
<1>2. ASSUME packets_to_send' = [packets_to_send EXCEPT
               ![n] = @ \o [i \in DOMAIN packets |-> Addressed(n, packets[i])]]
      PROVE  /\ Splits(DataPayloads(packets_to_send'[n]), DataPayloads(packets_to_send[n]),
                       DataPayloads(packets))
             /\ \A m \in Node \ {n} : packets_to_send'[m] = packets_to_send[m]
  <2> DEFINE more == [i \in DOMAIN packets |-> Addressed(n, packets[i])]
  <2>1. DOMAIN packets = 1..Len(packets) /\ Len(packets) \in Nat
    BY LenProperties
  <2>2. /\ packets_to_send[n] \in Seq(StackMail(ReadChunk))
        /\ first_neighbor[n] \in NodeId \cup {NoNeighbor}
    BY QueueSequences DEF StackTypes, Typed, FirstKnown
  <2>3. ReadChunk \subseteq Chunk
    BY DEF ReadChunk
  <2>4. \A i \in 1..Len(packets) : Addressed(n, packets[i]) \in StackMail(ReadChunk)
    BY <2>2, <2>3, MailOfChunk, ElementOfSeq DEF Addressed
  <2>5. more \in Seq(StackMail(ReadChunk)) /\ Len(more) = Len(packets)
    BY <2>1, <2>4, IsASeq
  <2>6. \A i \in 1..Len(packets) : /\ more[i].type = packets[i].type
                                   /\ more[i].payload = packets[i].payload
    BY <2>1 DEF Addressed
  <2> HIDE DEF more
  <2>7. DataPayloads(more) = DataPayloads(packets)
    BY <2>5, <2>6 DEF DataPayloads
  <2>8. /\ packets_to_send'[n] = packets_to_send[n] \o more
        /\ \A m \in Node \ {n} : packets_to_send'[m] = packets_to_send[m]
    BY <1>2, QueueSequences DEF more
  <2>9. Splits(packets_to_send'[n], packets_to_send[n], more)
    BY <2>2, <2>5, <2>8, ConcatSplits
  <2>10. QED
    BY <2>7, <2>8, <2>9, PayloadsSplit
<1>3. QED
  BY <1>1, <1>2 DEF ReceiveFromUpstream

LEMMA NothingPending ==
  Payloads(<<>>) = <<>> /\ PendingPayloads(<<>>) = <<>>
<1>1. Len(<<>>) = 0 /\ 1..0 = {}
  BY EmptySeq
<1>2. Payloads(<<>>) \in Seq({}) /\ PendingPayloads(<<>>) \in Seq({})
  BY <1>1, IsASeq DEF Payloads, PendingPayloads
<1>3. QED
  BY <1>2, EmptyPayloads, EmptySeq

\* Run sends the first frame down: it is cut, and waits in AckLayer or goes on
\* to the queue of the radio.
LEMMA BeginRunOrder ==
  ASSUME NEW n \in Node, StackTypes, OrderInv, BeginRun(n),
         UNCHANGED <<idVars, radio_state, discoveryVars, rx, stable, restVars,
                     enabled, pending_packets, fragmented_packets>>
  PROVE  OrderInv'
<1> DEFINE frame == Head(downstream_buffer[n])
           cut == Fragments(frame)
<1>1. /\ enabled' = enabled /\ pending_packets' = pending_packets /\ rx' = rx
      /\ fragmented_packets' = fragmented_packets /\ tunnel_out' = tunnel_out
      /\ upstream_buffer' = upstream_buffer /\ downstream_buffer' = downstream_buffer
      /\ in_run' = in_run \cup {n} /\ n \notin in_run
      /\ downstream_buffer[n] # <<>>
      /\ FragmentationReceiveFromUpstream(n, frame)
  BY DEF BeginRun
<1>2. downstream_buffer[n] \in Seq(Seq(Byte))
  BY DEF StackTypes, BufferInv, BufferTypes
<1>3. /\ Splits(downstream_buffer[n], <<frame>>, Tail(downstream_buffer[n]))
      /\ frame = downstream_buffer[n][1] /\ 1 \in 1..Len(downstream_buffer[n])
      /\ Tail(downstream_buffer[n]) \in Seq(Seq(Byte))
  BY <1>1, <1>2, TailSplits, EmptySeq, LenProperties, HeadTailProperties
<1>4. cut \in Seq(ReadChunk) /\ frame \in Seq(Byte)
  BY <1>2, <1>3, QueuedCuttable, ElementOfSeq DEF Cuttable, StackTypes
<1>5. frame # <<>>
  <2>1. PICK k \in 1..Len(tunnel_in[n]) : frame = Frame(n, k, tunnel_in[n][k])
    BY <1>3 DEF StackTypes, FramesQueued
  <2>2. tunnel_in[n][k] \in Nat \ {0}
    BY LenProperties, ElementOfSeq DEF StackTypes, FramesQueued
  <2>3. frame[1] = <<n, k, 1>> /\ DOMAIN frame = 1..tunnel_in[n][k]
    BY <2>1, <2>2 DEF Frame
  <2>4. DOMAIN frame # {}
    BY <2>2, <2>3
  <2>5. QED
    BY <2>4
<1> HIDE DEF frame, cut
<1>6. PICK a, b, c, d, a2, c2, d2, d3 :
        /\ a = DataPayloads(packets_to_send[n]) /\ b = PendingPayloads(pending_packets[n])
        /\ c = Payloads(ack_queue[n]) /\ d = Waiting(n)
        /\ a2 = DataPayloads(packets_to_send'[n]) /\ c2 = Payloads(ack_queue'[n])
        /\ d2 = Tail(downstream_buffer[n]) /\ d3 = Waiting(n)'
  OBVIOUS
<1>7. /\ InLine(enabled, a, b, c, d) /\ ToSend(n) = LineBytes(a, b, c, d)
      /\ SendInOrder(n)' = InLine(enabled, a2, b, c2, d3)
      /\ ToSend(n)' = LineBytes(a2, b, c2, d3)
  BY <1>1, <1>6 DEF OrderInv, SendInOrder, ToSend
<1>8. /\ Splits(d, <<frame>>, d2) /\ Splits(d3, << <<>> >>, d2)
  <2>1. Len(downstream_buffer[n]) \in Nat
    BY <1>2, LenProperties
  <2>2. d = [i \in 1..Len(downstream_buffer[n]) |-> downstream_buffer[n][i]]
    BY <1>1, <1>6 DEF Waiting
  <2>3. d3 = [i \in 1..Len(downstream_buffer[n]) |->
                IF i = 1 THEN <<>> ELSE downstream_buffer[n][i]]
    BY <1>1, <1>6 DEF Waiting
  <2>4. QED
    BY <1>3, <1>6, <2>1, <2>2, <2>3 DEF Splits
<1>9. Sorted(enabled, d3) /\ Bytes(d3) \subseteq Bytes(d2) /\ Bytes(d2) \subseteq Bytes(d)
  <2>1. Sorted(enabled, d2) /\ Bytes(d2) \subseteq Bytes(d)
    BY <1>7, <1>8, SplitRest DEF InLine
  <2>2. Its(<<>>) = {} /\ Ascends(enabled, <<>>)
    BY EmptySeq DEF Its, Ascends
  <2>3. /\ Sorted(enabled, << <<>> >>) /\ Bytes(<< <<>> >>) = {}
        /\ AllFollow(enabled, Bytes(<< <<>> >>), Bytes(d2))
    BY <2>2, OneSorted DEF AllFollow
  <2>4. Bytes(d3) = Bytes(d2) /\ Sorted(enabled, d3)
    <3>1. Bytes(d3) = Bytes(<< <<>> >>) \cup Bytes(d2)
      BY <1>8, SplitBytes
    <3>2. QED
      BY <1>8, <2>1, <2>3, <3>1, SplitSorted
  <2>5. QED
    BY <2>1, <2>4
<1>10. /\ Sorted(enabled, Payloads(cut)) /\ Bytes(Payloads(cut)) \subseteq Bytes(<<frame>>)
       /\ DataPayloads(cut) = Payloads(cut)
  <2>1. Ascends(enabled, frame) /\ Bytes(<<frame>>) = Its(frame)
    <3>1. Sorted(enabled, <<frame>>)
      BY <1>7, <1>8, SplitRest DEF InLine
    <3>2. QED
      BY <3>1, OneSorted
  <2>2. QED
    BY <1>4, <1>5, <2>1, FragmentsSorted DEF cut
<1>11. SendInOrder(n)' /\ ToSend(n)' \subseteq ToSend(n)
  <2>1. CASE enabled
    <3>1. ack_queue' = [ack_queue EXCEPT ![n] = @ \o cut] /\ a2 = a
      BY <1>1, <1>6, <2>1 DEF FragmentationReceiveFromUpstream, AckReceiveFromUpstream, cut
    <3>2. ack_queue[n] \in Seq(ReadChunk) /\ ack_queue'[n] = ack_queue[n] \o cut
      BY <3>1, LayerSequences
    <3>3. Splits(c2, c, Payloads(cut))
      BY <1>4, <1>6, <3>2, ConcatSplits, PayloadsSplit
    <3>4. InLine(enabled, a, b, c2, d3) /\ LineBytes(a, b, c2, d3) \subseteq LineBytes(a, b, c, d)
      BY <1>7, <1>8, <1>9, <1>10, <3>3, LineMovesToThird
    <3>5. QED
      BY <1>7, <3>1, <3>4
  <2>2. CASE ~enabled
    <3>1. ReceiveFromUpstream(n, cut) /\ c2 = c
      BY <1>1, <1>6, <2>2 DEF FragmentationReceiveFromUpstream, AckReceiveFromUpstream, cut
    <3>2. b = <<>> /\ c = <<>>
      BY <1>6, <2>2, NothingPending DEF OrderInv, AckIdle
    <3>3. a2 = a \/ Splits(a2, a, Payloads(cut))
      BY <1>4, <1>6, <1>10, <3>1, SentDown
    <3>4. CASE a2 = a
      <4>1. Bytes(d3) \subseteq Bytes(d)
        BY <1>9
      <4>2. InLine(enabled, a, b, c, d3) /\ LineBytes(a, b, c, d3) \subseteq LineBytes(a, b, c, d)
        BY <1>7, <1>9, <4>1, LineThins DEF InLine
      <4>3. QED
        BY <1>7, <3>1, <3>4, <4>2
    <3>5. CASE Splits(a2, a, Payloads(cut))
      <4>1. /\ InLine(enabled, a2, <<>>, <<>>, d3)
            /\ LineBytes(a2, <<>>, <<>>, d3) \subseteq LineBytes(a, <<>>, <<>>, d)
        BY <1>7, <1>8, <1>9, <1>10, <3>2, <3>5, LineMovesAllTheWay
      <4>2. QED
        BY <1>7, <3>1, <3>2, <4>1
    <3>6. QED
      BY <3>3, <3>4, <3>5
  <2>3. QED
    BY <2>1, <2>2
<1>12. ReceivesAs(n) /\ \A m \in Node \ {n} : ReceivesAs(m) /\ SendsAs(m)
  <2>1. ReceivesAs(n) /\ \A m \in Node \ {n} : ReceivesAs(m)
    BY <1>1 DEF ReceivesAs
  <2>2. ASSUME NEW m \in Node \ {n}
        PROVE  packets_to_send'[m] = packets_to_send[m] /\ ack_queue'[m] = ack_queue[m]
    <3>1. CASE enabled
      BY <1>1, <3>1, LayerSequences DEF FragmentationReceiveFromUpstream, AckReceiveFromUpstream
    <3>2. CASE ~enabled
      <4>1. ReceiveFromUpstream(n, cut) /\ ack_queue' = ack_queue
        BY <1>1, <3>2 DEF FragmentationReceiveFromUpstream, AckReceiveFromUpstream, cut
      <4>2. QED
        BY <1>4, <4>1, SentDown
    <3>3. QED
      BY <3>1, <3>2
  <2>3. QED
    BY <1>1, <2>1, <2>2 DEF SendsAs
<1>13. AckIdle'
  BY <1>1 DEF OrderInv, AckIdle, FragmentationReceiveFromUpstream, AckReceiveFromUpstream
<1>14. Shrinks(n)
  BY <1>1, <1>11, <1>12, ReceivesAsBefore DEF Shrinks, OrderInv
<1>15. QED
  BY <1>1, <1>12, <1>13, <1>14, OrderShrinksAt

LEMMA TunnelRunOrder ==
  ASSUME NEW n \in Node, StackTypes, OrderInv, TunnelRun(n)
  PROVE  OrderInv'
BY BeginRunOrder, EndRunOrder DEF TunnelRun

-----------------------------------------------------------------------------
(* Repetitions *)

LEMMA ChunkRepeats ==
  ASSUME NEW chunk \in ReadChunk, NEW again, again
  PROVE  AllFollow(again, Its(chunk.payload), Its(chunk.payload))
<1>1. \A i, j \in 1..Len(chunk.payload) : SameChunk(chunk.payload[i], chunk.payload[j])
  BY DEF ReadChunk
<1>2. QED
  BY <1>1 DEF AllFollow, Its, Follows, SameChunk

\* What is pending after Run has admitted a packet: with room for one packet,
\* this one or the one that was pending before, if any.
LEMMA OnePending ==
  ASSUME NEW n \in Node, StackTypes, OrderInv, MaxNumberOfPackets = 1, enabled,
         NEW pending, pending = pending_packets[n] \o Admitted(n),
         ack_queue' = [ack_queue EXCEPT ![n] = IF Admits(n) THEN Tail(@) ELSE @]
  PROVE  /\ Len(pending) \in {0, 1} /\ \A i \in 1..Len(pending) : pending[i].packet \in ReadChunk
         /\ Admits(n) => Len(pending) = 1 /\ pending[1].packet = Head(ack_queue[n])
         /\ InLine(enabled, DataPayloads(packets_to_send[n]), PendingPayloads(pending),
                   Payloads(ack_queue'[n]), Waiting(n))
         /\ LineBytes(DataPayloads(packets_to_send[n]), PendingPayloads(pending),
                      Payloads(ack_queue'[n]), Waiting(n)) \subseteq ToSend(n)
         /\ \A m \in Node \ {n} : ack_queue'[m] = ack_queue[m]
<1> DEFINE P == [packet : ReadChunk, times_sent : Nat]
<1>1. pending_packets[n] \in Seq(P) /\ ack_queue[n] \in Seq(ReadChunk)
  BY LayerSequences
<1>2. \A entry \in P : entry.packet \in ReadChunk
  OBVIOUS
<1> HIDE DEF P
<1>3. Len(pending_packets[n]) \in Nat /\ Len(pending_packets[n]) <= 1
  BY <1>1, LenProperties DEF StackTypes, Typed, FewPending
<1>4. /\ \A m \in Node \ {n} : ack_queue'[m] = ack_queue[m]
      /\ ack_queue'[n] = IF Admits(n) THEN Tail(ack_queue[n]) ELSE ack_queue[n]
  BY LayerSequences
<1>5. PICK a, b, c, d, p, c2 :
        /\ a = DataPayloads(packets_to_send[n]) /\ b = PendingPayloads(pending_packets[n])
        /\ c = Payloads(ack_queue[n]) /\ d = Waiting(n)
        /\ p = PendingPayloads(pending) /\ c2 = Payloads(ack_queue'[n])
  OBVIOUS
<1>6. InLine(enabled, a, b, c, d) /\ ToSend(n) = LineBytes(a, b, c, d)
  BY <1>5 DEF OrderInv, SendInOrder, ToSend
<1>7. CASE Admits(n)
  <2> DEFINE head == Head(ack_queue[n])
             entry == [packet |-> head, times_sent |-> 1]
  <2>1. ack_queue[n] # <<>> /\ pending_packets[n] = <<>>
    BY <1>1, <1>3, <1>7, EmptySeq DEF Admits
  <2>2. pending = <<entry>>
    <3>1. Admitted(n) = <<entry>>
      BY <1>7 DEF Admitted
    <3>2. <<>> \o <<entry>> = <<entry>>
      BY ConcatEmptySeq
    <3>3. QED
      BY <2>1, <3>1, <3>2
  <2>3. head \in ReadChunk
    BY <1>1, <2>1, HeadTailProperties
  <2>4. /\ Len(pending) = 1 /\ \A i \in 1..1 : pending[i].packet = head
    BY <2>2
  <2>5. b = <<>>
    BY <1>5, <2>1, NothingPending
  <2>6. Splits(ack_queue[n], <<head>>, Tail(ack_queue[n]))
    BY <1>1, <2>1, TailSplits
  <2> HIDE DEF head, entry
  <2>7. p = Payloads(<<head>>)
    BY <1>5, <2>4 DEF PendingPayloads, Payloads
  <2>8. Splits(c, p, c2)
    BY <1>4, <1>5, <1>7, <2>6, <2>7, PayloadsSplit
  <2>9. InLine(enabled, a, p, c2, d) /\ LineBytes(a, p, c2, d) \subseteq LineBytes(a, <<>>, c, d)
    BY <1>6, <2>5, <2>8, LineMovesToSecond
  <2>10. /\ Len(pending) = 1 /\ pending[1].packet = Head(ack_queue[n])
         /\ \A i \in 1..Len(pending) : pending[i].packet \in ReadChunk
    BY <2>3, <2>4 DEF head
  <2>11. QED
    BY <1>4, <1>5, <1>6, <2>5, <2>9, <2>10
<1>8. CASE ~Admits(n)
  <2>1. pending = pending_packets[n]
    BY <1>1, <1>8, ConcatEmptySeq DEF Admitted
  <2>2. p = b /\ c2 = c
    BY <1>4, <1>5, <1>8, <2>1
  <2>3. \A i \in 1..Len(pending) : pending[i].packet \in ReadChunk
    BY <1>1, <1>2, <2>1, ElementOfSeq
  <2>4. Len(pending) \in {0, 1}
    <3> DEFINE L == Len(pending_packets[n])
    <3>1. L \in Nat /\ L <= 1
      BY <1>3
    <3> HIDE DEF L
    <3>2. L \in {0, 1}
      BY <3>1
    <3> USE DEF L
    <3>3. QED
      BY <2>1, <3>2
  <2>5. QED
    BY <1>4, <1>5, <1>6, <1>8, <2>2, <2>3, <2>4
<1>9. QED
  BY <1>7, <1>8

\* Bytes of one chunk are in order however often they come.
LEMMA SortedWithin ==
  \A again, X, s : AllFollow(again, X, X) /\ Bytes(s) \subseteq X => Sorted(again, s)
<1> TAKE again, X, s
<1> HAVE AllFollow(again, X, X) /\ Bytes(s) \subseteq X
<1>1. \A a \in 1..Len(s) : Its(s[a]) \subseteq X
  BY ItsInBytes
<1>2. \A a \in 1..Len(s) : Ascends(again, s[a])
  BY <1>1 DEF Ascends, AllFollow, Its
<1>3. \A a, b \in 1..Len(s) : AllFollow(again, Its(s[a]), Its(s[b]))
  BY <1>1 DEF AllFollow
<1>4. QED
  BY <1>2, <1>3 DEF Sorted

LEMMA LayerRunSends ==
  ASSUME NEW n \in Node, StackTypes, OrderInv, MaxNumberOfPackets = 1, enabled, AckRun(n),
         enabled' = enabled, downstream_buffer' = downstream_buffer, in_run' = in_run
  PROVE  /\ SendInOrder(n)' /\ ToSend(n)' \subseteq ToSend(n)
         /\ \A m \in Node \ {n} : SendsAs(m)
<1>1. PICK pending : pending = pending_packets[n] \o Admitted(n)
  OBVIOUS
<1>2. ack_queue' = [ack_queue EXCEPT ![n] = IF Admits(n) THEN Tail(@) ELSE @]
  BY DEF AckRun
<1>3. PICK a, d, p, c2 :
        /\ a = DataPayloads(packets_to_send[n]) /\ d = Waiting(n)
        /\ p = PendingPayloads(pending) /\ c2 = Payloads(ack_queue'[n])
  OBVIOUS
<1>4. /\ Len(pending) \in {0, 1} /\ \A i \in 1..Len(pending) : pending[i].packet \in ReadChunk
      /\ Admits(n) => Len(pending) = 1 /\ pending[1].packet = Head(ack_queue[n])
      /\ InLine(enabled, a, p, c2, d) /\ LineBytes(a, p, c2, d) \subseteq ToSend(n)
      /\ \A m \in Node \ {n} : ack_queue'[m] = ack_queue[m]
  BY <1>1, <1>2, <1>3, OnePending
<1> DEFINE C == {pending[i].packet : i \in 1..Len(pending)}
<1>5. PICK packets \in Seq(C), left \in Seq(Pending(C)) :
        /\ ReceiveFromUpstream(n, packets)
        /\ pending_packets' = [pending_packets EXCEPT ![n] = left]
  <2>1. /\ pending \in Seq(Pending(ReadChunk)) /\ Len(pending) <= MaxNumberOfPackets
    BY <1>1, AdmittedType DEF StackTypes, Typed, Hold
  <2>2. pending \in Seq(Pending(C))
    <3>1. Len(pending) \in Nat /\ \A i \in 1..Len(pending) : pending[i] \in Pending(ReadChunk)
      BY <2>1, LenProperties, ElementOfSeq
    <3>2. \A i \in 1..Len(pending) : pending[i] \in Pending(C)
      BY <3>1 DEF Pending
    <3> HIDE DEF C
    <3>3. [i \in 1..Len(pending) |-> pending[i]] \in Seq(Pending(C))
      BY <3>1, <3>2, IsASeq
    <3>4. QED
      BY <2>1, <3>3, LenProperties
  <2>3. [i \in DOMAIN Admitted(n) |-> Admitted(n)[i].packet] \in Seq(C)
    <3>1. CASE ~Admits(n)
      <4>1. Admitted(n) = <<>>
        BY <3>1 DEF Admitted
      <4>2. QED
        BY <4>1, EmptySeq
    <3>2. CASE Admits(n)
      <4>1. Admitted(n) = <<[packet |-> Head(ack_queue[n]), times_sent |-> 1]>>
        BY <3>2 DEF Admitted
      <4>2. Head(ack_queue[n]) \in C
        BY <1>4, <3>2
      <4> HIDE DEF C
      <4>3. QED
        BY <4>1, <4>2
    <3>3. QED
      BY <3>1, <3>2
  <2> HIDE DEF C
  <2>4. QED
    BY <1>1, <2>1, <2>2, <2>3, AckRunSends
<1> HIDE DEF C
<1>6. C \subseteq ReadChunk /\ \A chunk \in C : Its(chunk.payload) \subseteq Bytes(p)
  <2>1. Len(p) = Len(pending) /\ \A i \in 1..Len(pending) : p[i] = pending[i].packet.payload
    BY <1>3, <1>4 DEF PendingPayloads
  <2>2. QED
    BY <1>4, <2>1, ItsInBytes DEF C
<1>7. AllFollow(enabled, Bytes(p), Bytes(p))
  <2>1. Len(p) = Len(pending) /\ \A i \in 1..Len(pending) : p[i] = pending[i].packet.payload
    BY <1>3, <1>4 DEF PendingPayloads
  <2>2. CASE Len(pending) = 0
    BY <2>1, <2>2 DEF Bytes, AllFollow
  <2>3. CASE Len(pending) = 1
    <3>1. Bytes(p) = Its(pending[1].packet.payload)
      BY <2>1, <2>3 DEF Bytes
    <3>2. pending[1].packet \in ReadChunk
      BY <1>4, <2>3
    <3>3. AllFollow(enabled, Its(pending[1].packet.payload), Its(pending[1].packet.payload))
      BY <3>2, ChunkRepeats
    <3>4. QED
      BY <3>1, <3>3
  <2>4. QED
    BY <1>4, <2>2, <2>3
<1>8. PICK a2, b2, t :
        /\ a2 = DataPayloads(packets_to_send'[n]) /\ b2 = PendingPayloads(left)
        /\ t = DataPayloads(packets)
  OBVIOUS
<1>9. Bytes(t) \subseteq Bytes(p)
  <2>1. Len(packets) \in Nat /\ \A i \in 1..Len(packets) : packets[i] \in C
    BY LenProperties, ElementOfSeq
  <2>2. \A i \in 1..Len(packets) : t[i] = packets[i].payload \/ t[i] = <<>>
    BY <1>8 DEF DataPayloads
  <2>3. Its(<<>>) = {} /\ Len(t) = Len(packets)
    BY <1>8, <2>1, EmptySeq DEF Its, DataPayloads
  <2>4. \A i \in 1..Len(t) : Its(t[i]) \subseteq Bytes(p)
    BY <1>6, <2>1, <2>2, <2>3
  <2>5. QED
    BY <2>4 DEF Bytes
<1>10. Bytes(b2) \subseteq Bytes(p)
  <2>1. Len(left) \in Nat /\ \A i \in 1..Len(left) : left[i] \in Pending(C)
    BY LenProperties, ElementOfSeq
  <2>2. Len(b2) = Len(left) /\ \A i \in 1..Len(left) : b2[i] = left[i].packet.payload
    BY <1>8, <2>1 DEF PendingPayloads
  <2>3. \A i \in 1..Len(b2) : Its(b2[i]) \subseteq Bytes(p)
    BY <1>6, <2>1, <2>2 DEF Pending
  <2>4. QED
    BY <2>3 DEF Bytes
<1>11. Sorted(enabled, t) /\ Sorted(enabled, b2)
  BY <1>7, <1>9, <1>10, SortedWithin
<1>12. /\ a2 = a \/ Splits(a2, a, t)
       /\ \A m \in Node \ {n} : packets_to_send'[m] = packets_to_send[m]
  <2>1. packets \in Seq(ReadChunk)
    BY <1>6, SeqWider
  <2>2. QED
    BY <1>3, <1>5, <1>8, <2>1, SentDown
<1>13. InLine(enabled, a2, b2, c2, d) /\ LineBytes(a2, b2, c2, d) \subseteq LineBytes(a, p, c2, d)
  <2>1. CASE Splits(a2, a, t)
    BY <1>4, <1>7, <1>9, <1>10, <1>11, <2>1, LineRepeats
  <2>2. CASE a2 = a
    <3>1. Sorted(enabled, a) /\ Sorted(enabled, c2) /\ Sorted(enabled, d)
      BY <1>4 DEF InLine
    <3>2. InLine(enabled, a, b2, c2, d) /\ LineBytes(a, b2, c2, d) \subseteq LineBytes(a, p, c2, d)
      BY <1>4, <1>10, <1>11, <3>1, LineThins
    <3>3. QED
      BY <2>2, <3>2
  <2>3. QED
    BY <1>12, <2>1, <2>2
<1>14. Waiting(n)' = Waiting(n)
  BY DEF Waiting
<1>15. /\ pending_packets'[n] = left
       /\ \A m \in Node \ {n} : pending_packets'[m] = pending_packets[m]
  BY <1>5, LayerSequences
<1>16. SendInOrder(n)' /\ ToSend(n)' \subseteq ToSend(n)
  <2>1. /\ SendInOrder(n)' = InLine(enabled, a2, b2, c2, d)
        /\ ToSend(n)' = LineBytes(a2, b2, c2, d)
    BY <1>3, <1>8, <1>14, <1>15 DEF SendInOrder, ToSend
  <2>2. QED
    BY <1>4, <1>13, <2>1
<1>17. QED
  BY <1>4, <1>12, <1>15, <1>16 DEF SendsAs

LEMMA LayerRunOrder ==
  ASSUME MaxNumberOfPackets = 1, NEW n \in Node, StackTypes, OrderInv, LayerRun(n)
  PROVE  OrderInv'
<1>1. /\ enabled /\ enabled' = enabled /\ AckRun(n)
      /\ rx' = rx /\ fragmented_packets' = fragmented_packets /\ tunnel_out' = tunnel_out
      /\ upstream_buffer' = upstream_buffer /\ downstream_buffer' = downstream_buffer
      /\ in_run' = in_run
  BY DEF LayerRun, AckRun, tunnelVars
<1>2. \A m \in Node : ReceivesAs(m)
  BY <1>1 DEF ReceivesAs
<1>3. /\ SendInOrder(n)' /\ ToSend(n)' \subseteq ToSend(n)
      /\ \A m \in Node \ {n} : SendsAs(m)
  BY <1>1, LayerRunSends
<1>4. Shrinks(n)
  BY <1>1, <1>2, <1>3, ReceivesAsBefore DEF Shrinks, OrderInv
<1>5. AckIdle'
  BY <1>1 DEF AckIdle
<1>6. QED
  BY <1>1, <1>2, <1>3, <1>4, <1>5, OrderShrinksAt

-----------------------------------------------------------------------------
(* Steps that hand packets up *)

\* A chunk becomes a part of what the second place gets.
LEMMA LineEndsThird ==
  ASSUME NEW again, NEW a, NEW c, NEW d, NEW g, NEW e,
         InLine(again, a, <<>>, c, d), Sorted(again, g), Bytes(g) \subseteq Bytes(c), Len(e) = 0
  PROVE  InLine(again, a, g, e, d) /\ LineBytes(a, g, e, d) \subseteq LineBytes(a, <<>>, c, d)
<1>1. Bytes(e) = {} /\ Sorted(again, e)
  BY EmptyPlace
<1>2. AllFollow(again, Bytes(a), Bytes(g)) /\ AllFollow(again, Bytes(g), Bytes(d))
  BY FollowSubsets DEF InLine
<1>3. \A X : AllFollow(again, X, {}) /\ AllFollow(again, {}, X)
  BY DEF AllFollow
<1>4. QED
  BY <1>1, <1>2, <1>3 DEF InLine, LineBytes

LEMMA AckIsNoData ==
  \A again, ack : ack.type # "Data" =>
    Bytes(DataPayloads(<<ack>>)) = {} /\ Sorted(again, DataPayloads(<<ack>>))
<1> TAKE again, ack
<1> HAVE ack.type # "Data"
<1>1. Len(DataPayloads(<<ack>>)) = 1 /\ DataPayloads(<<ack>>)[1] = <<>>
  BY DEF DataPayloads
<1>2. Its(<<>>) = {} /\ Ascends(again, <<>>)
  BY EmptySeq DEF Its, Ascends
<1>3. QED
  BY <1>1, <1>2 DEF Bytes, Sorted

\* A packet is acknowledged, or an acknowledgement ends that a packet is pending.
LEMMA AckingSends ==
  ASSUME NEW n \in Node, StackTypes, OrderInv, NEW packet \in ReadChunk,
         AckReceiveFromDownstream(n, packet), Waiting(n)' = Waiting(n)
  PROVE  SendInOrder(n)' /\ ToSend(n)' \subseteq ToSend(n)
<1>1. enabled' = enabled /\ ack_queue' = ack_queue
  BY DEF AckReceiveFromDownstream
<1>2. PICK a, b, c, d, a2, b2 :
        /\ a = DataPayloads(packets_to_send[n]) /\ b = PendingPayloads(pending_packets[n])
        /\ c = Payloads(ack_queue[n]) /\ d = Waiting(n)
        /\ a2 = DataPayloads(packets_to_send'[n]) /\ b2 = PendingPayloads(pending_packets'[n])
  OBVIOUS
<1>3. /\ InLine(enabled, a, b, c, d) /\ ToSend(n) = LineBytes(a, b, c, d)
      /\ SendInOrder(n)' = InLine(enabled, a2, b2, c, d)
      /\ ToSend(n)' = LineBytes(a2, b2, c, d)
  BY <1>1, <1>2 DEF OrderInv, SendInOrder, ToSend
<1>4. SUFFICES /\ Sorted(enabled, a2) /\ Bytes(a2) \subseteq Bytes(a)
               /\ Sorted(enabled, b2) /\ Bytes(b2) \subseteq Bytes(b)
  <2>1. Sorted(enabled, c) /\ Sorted(enabled, d)
    BY <1>3 DEF InLine
  <2>2. InLine(enabled, a2, b2, c, d) /\ LineBytes(a2, b2, c, d) \subseteq LineBytes(a, b, c, d)
    BY <1>3, <1>4, <2>1, LineThins
  <2>3. QED
    BY <1>3, <2>2
<1>5. /\ packets_to_send' = packets_to_send => Sorted(enabled, a2) /\ Bytes(a2) \subseteq Bytes(a)
      /\ pending_packets' = pending_packets => Sorted(enabled, b2) /\ Bytes(b2) \subseteq Bytes(b)
  BY <1>2, <1>3 DEF InLine
<1>6. CASE UNCHANGED <<pending_packets, packets_to_send>>
  BY <1>5, <1>6
<1>7. CASE enabled /\ SendAck(n, packet) /\ UNCHANGED pending_packets
  <2> DEFINE ack == [packet EXCEPT !.type = "DataAck"]
  <2>1. ack \in ReadChunk /\ ack.type = "DataAck"
    BY <1>7, ReadCarriable DEF Carriable, Chunk
  <2>2. ReceiveFromUpstream(n, <<ack>>)
    BY <1>7 DEF SendAck
  <2> HIDE DEF ack
  <2>3. <<ack>> \in Seq(ReadChunk)
    BY <2>1
  <2>4. a2 = a \/ Splits(a2, a, DataPayloads(<<ack>>))
    BY <1>2, <2>2, <2>3, SentDown
  <2>5. CASE Splits(a2, a, DataPayloads(<<ack>>))
    <3>1. ack.type # "Data"
      BY <2>1
    <3>2. /\ Bytes(DataPayloads(<<ack>>)) = {} /\ Sorted(enabled, DataPayloads(<<ack>>))
      BY <3>1, AckIsNoData
    <3>3. AllFollow(enabled, Bytes(a), Bytes(DataPayloads(<<ack>>))) /\ Sorted(enabled, a)
      BY <1>3, <3>2 DEF AllFollow, InLine
    <3>4. Sorted(enabled, a2)
      BY <2>5, <3>2, <3>3, SplitSorted
    <3>5. Bytes(a2) = Bytes(a) \cup Bytes(DataPayloads(<<ack>>))
      BY <2>5, SplitBytes
    <3>6. QED
      BY <1>5, <1>7, <3>2, <3>4, <3>5
  <2>6. CASE a2 = a
    BY <1>3, <1>5, <1>7, <2>6 DEF InLine
  <2>7. QED
    BY <2>4, <2>5, <2>6
<1>8. CASE HandleAck(n, packet) /\ UNCHANGED packets_to_send
  <2>1. CASE UNCHANGED pending_packets
    BY <1>5, <1>8, <2>1
  <2>2. CASE /\ Acknowledged(n, packet) # {}
             /\ pending_packets' = [pending_packets EXCEPT
                  ![n] = RemoveAt(@, Min(Acknowledged(n, packet)))]
    <3> DEFINE before == pending_packets[n]
               after == pending_packets'[n]
               i == Min(Acknowledged(n, packet))
               order == [j \in 1..Len(before) |-> IF j < i THEN j ELSE j + 1]
    <3>1. before \in Seq(Pending(ReadChunk))
      BY LayerSequences DEF Pending
    <3>2. after = RemoveAt(before, i)
      BY <2>2, LayerSequences
    <3>3. Len(before) \in Nat /\ i \in 1..Len(before)
      <4>1. Len(before) \in Nat /\ Acknowledged(n, packet) \subseteq 1..Len(before)
        BY <3>1, LenProperties DEF Acknowledged
      <4>2. QED
        BY <2>2, <4>1, MinLeast
    <3>4. /\ Len(after) = Len(before) - 1
          /\ \A j \in 1..Len(before) - 1 : after[j] = IF j < i THEN before[j] ELSE before[j + 1]
      BY <3>1, <3>2, <3>3, RemoveAtProperties
    <3> HIDE DEF before, after, i
    <3>5. /\ Len(b) = Len(before) /\ Len(b2) = Len(after)
          /\ \A j \in 1..Len(before) : b[j] = before[j].packet.payload
          /\ \A j \in 1..Len(after) : b2[j] = after[j].packet.payload
      BY <1>2, <3>3, <3>4 DEF PendingPayloads, before, after
    <3>6. \A j \in 1..Len(b2) : order[j] \in 1..Len(b) /\ b2[j] = b[order[j]]
      <4>1. TAKE j \in 1..Len(b2)
      <4>2. /\ j \in 1..Len(before) - 1 /\ j \in 1..Len(before) /\ j + 1 \in 1..Len(before)
            /\ b2[j] = after[j].packet.payload
        BY <3>3, <3>4, <3>5
      <4>3. CASE j < i
        BY <3>4, <3>5, <4>2, <4>3
      <4>4. CASE ~(j < i)
        BY <3>4, <3>5, <4>2, <4>4
      <4>5. QED
        BY <4>3, <4>4
    <3>7. \A j, k \in 1..Len(b2) : j < k => order[j] < order[k]
      BY <3>3, <3>4, <3>5
    <3> HIDE DEF order
    <3>8. Sorted(enabled, b) /\ Len(b2) \in Nat
      BY <1>3, <3>3, <3>4, <3>5 DEF InLine
    <3>9. Sorted(enabled, b2) /\ Bytes(b2) \subseteq Bytes(b)
      BY <3>6, <3>7, <3>8, ThinnedSorted
    <3>10. QED
      BY <1>5, <1>8, <3>9
  <2>3. QED
    BY <1>8, <2>1, <2>2 DEF HandleAck
<1>9. QED
  BY <1>6, <1>7, <1>8 DEF AckReceiveFromDownstream

LEMMA HandsUpReceives ==
  ASSUME NEW n \in Node, StackTypes, OrderInv, RadioHandsUp(n)
  PROVE  ReceiveInOrder(n)' /\ Received(n)' \subseteq Received(n)
<1> DEFINE packet == Unaddressed(Head(rx[n]))
<1>1. /\ rx[n] # <<>> /\ CarriesData(Head(rx[n])) /\ upstream_buffer[n] = <<>>
      /\ rx'[n] = Tail(rx[n])
      /\ \/ ~PassesUp(packet) /\ UNCHANGED <<fragmented_packets, tunnelVars>>
         \/ /\ PassesUp(packet) /\ ~packet.final /\ Collect(n, packet)
            /\ UNCHANGED tunnelVars
         \/ /\ PassesUp(packet) /\ packet.final /\ Collect(n, packet)
            /\ TunnelReceiveFromDownstream(n, Message(n, packet))
      /\ enabled' = enabled
  BY QueueSequences DEF RadioHandsUp, HandUp, Climbs, AckReceiveFromDownstream
<1>2. rx[n] \in Seq(StackMail(ReadChunk)) /\ Head(rx[n]) \in StackMail(ReadChunk)
  BY <1>1, QueueSequences, HeadTailProperties
<1>3. packet \in ReadChunk
  BY <1>1, <1>2, ChunkOfMail
<1>4. /\ packet.type = Head(rx[n]).type /\ packet.payload = Head(rx[n]).payload
  BY DEF Unaddressed
<1>5. packet.type \in {"Data", "DataAck"} /\ (packet.type = "DataAck" => enabled)
  BY <1>3 DEF ReadChunk, Chunk
<1>6. PICK a, b, c, d, h, d2 :
        /\ a = tunnel_out[n] /\ b = upstream_buffer[n]
        /\ c = Payloads(fragmented_packets[n]) /\ d = DataPayloads(rx[n])
        /\ h = DataPayloads(<<Head(rx[n])>>) /\ d2 = DataPayloads(Tail(rx[n]))
  OBVIOUS
<1>7. InLine(enabled, a, b, c, d) /\ Received(n) = LineBytes(a, b, c, d)
  BY <1>6 DEF OrderInv, ReceiveInOrder, Received
<1>8. Splits(d, h, d2)
  BY <1>1, <1>2, <1>6, TailSplits, PayloadsSplit
<1>9. Sorted(enabled, d2) /\ Bytes(d2) \subseteq Bytes(d) /\ Sorted(enabled, h)
  BY <1>7, <1>8, SplitRest DEF InLine
<1>10. d2 = DataPayloads(rx'[n])
  BY <1>1, <1>6
<1> DEFINE all == Append(fragmented_packets[n], packet)
<1>11. fragmented_packets[n] \in Seq({chunk \in ReadChunk : ~chunk.final})
  BY LayerSequences
<1>12. ASSUME PassesUp(packet)
       PROVE  /\ InLine(enabled, a, b, Payloads(all), d2)
              /\ LineBytes(a, b, Payloads(all), d2) \subseteq LineBytes(a, b, c, d)
  <2>1. packet.type = "Data"
    BY <1>5, <1>12 DEF PassesUp
  <2>2. h = Payloads(<<packet>>)
    <3>1. /\ Len(<<Head(rx[n])>>) = 1 /\ Len(<<packet>>) = 1
          /\ <<Head(rx[n])>>[1].type = "Data"
          /\ <<Head(rx[n])>>[1].payload = <<packet>>[1].payload
      BY <1>4, <2>1
    <3> HIDE DEF packet
    <3>2. QED
      BY <1>6, <3>1 DEF DataPayloads, Payloads
  <2>3. Splits(all, fragmented_packets[n], <<packet>>)
    BY <1>11, AppendSplits
  <2>4. Splits(Payloads(all), c, h)
    BY <1>6, <2>2, <2>3, PayloadsSplit
  <2>5. PICK c2 : c2 = Payloads(all)
    OBVIOUS
  <2>6. Splits(c2, c, h) /\ Bytes(h) \subseteq Bytes(h) /\ Bytes(d2) \subseteq Bytes(d2)
    BY <2>4, <2>5
  <2> HIDE DEF all, packet
  <2>7. InLine(enabled, a, b, c2, d2) /\ LineBytes(a, b, c2, d2) \subseteq LineBytes(a, b, c, d)
    BY <1>7, <1>8, <1>9, <2>6, LineMovesToThird
  <2>8. QED
    BY <2>5, <2>7
<1>13. CASE ~PassesUp(packet) /\ UNCHANGED <<fragmented_packets, tunnelVars>>
  <2>1. Sorted(enabled, a) /\ Sorted(enabled, b) /\ Sorted(enabled, c)
    BY <1>7 DEF InLine
  <2>2. InLine(enabled, a, b, c, d2) /\ LineBytes(a, b, c, d2) \subseteq LineBytes(a, b, c, d)
    BY <1>7, <1>9, <2>1, LineThins
  <2>3. /\ ReceiveInOrder(n)' = InLine(enabled, a, b, c, d2)
        /\ Received(n)' = LineBytes(a, b, c, d2)
    BY <1>1, <1>6, <1>10, <1>13 DEF tunnelVars, ReceiveInOrder, Received
  <2>4. QED
    BY <1>7, <2>2, <2>3
<1>14. CASE /\ PassesUp(packet) /\ ~packet.final /\ Collect(n, packet)
            /\ UNCHANGED tunnelVars
  <2>1. fragmented_packets'[n] = all
    BY <1>14, LayerSequences DEF Collect
  <2>2. /\ ReceiveInOrder(n)' = InLine(enabled, a, b, Payloads(all), d2)
        /\ Received(n)' = LineBytes(a, b, Payloads(all), d2)
    BY <1>1, <1>6, <1>10, <1>14, <2>1 DEF tunnelVars, ReceiveInOrder, Received
  <2>3. QED
    BY <1>7, <1>12, <1>14, <2>2
<1>15. CASE /\ PassesUp(packet) /\ packet.final /\ Collect(n, packet)
            /\ TunnelReceiveFromDownstream(n, Message(n, packet))
  <2>1. fragmented_packets'[n] = <<>> /\ tunnel_out' = tunnel_out
        /\ upstream_buffer'[n] = Append(<<>>, Message(n, packet))
    BY <1>1, <1>15, LayerSequences DEF Collect, TunnelReceiveFromDownstream
  <2>2. Append(<<>>, Message(n, packet)) = <<Message(n, packet)>>
    OBVIOUS
  <2>3. /\ all \in Seq(ReadChunk) /\ Len(all) \in Nat /\ Len(all) >= 1
        /\ DOMAIN all = 1..Len(all)
    <3>1. fragmented_packets[n] \in Seq(ReadChunk)
      BY <1>11, SeqWider
    <3>2. QED
      BY <1>3, <3>1, AppendProperties, LenProperties
  <2>4. Message(n, packet) = FlattenSeq(Payloads(all))
    BY <2>3 DEF Message, Payloads
  <2>5. Payloads(all) \in Seq(Seq(Byte)) /\ Payloads(all) # <<>>
    <3>1. \A i \in 1..Len(all) : all[i].payload \in Seq(Byte)
      BY <2>3, ElementOfSeq DEF ReadChunk, Chunk
    <3> HIDE DEF all
    <3>2. Payloads(all) \in Seq(Seq(Byte)) /\ Len(Payloads(all)) = Len(all)
      BY <2>3, <3>1, PayloadsTyped
    <3>3. QED
      BY <2>3, <3>2, EmptySeq
  <2> DEFINE m == Message(n, packet)
  <2>6. Sorted(enabled, Payloads(all))
    BY <1>12, <1>15 DEF InLine
  <2>7. Ascends(enabled, m) /\ Its(m) \subseteq Bytes(Payloads(all))
    BY <2>4, <2>5, <2>6, FlattenAscends
  <2> HIDE DEF m, all, packet
  <2>8. Sorted(enabled, <<m>>) /\ Bytes(<<m>>) \subseteq Bytes(Payloads(all))
    BY <2>7, OneSorted
  <2>9. b = <<>>
    BY <1>1, <1>6
  <2>10. PICK e : e = Payloads(fragmented_packets'[n])
    OBVIOUS
  <2>11. Len(e) = 0
    BY <2>1, <2>10, EmptyPayloads
  <2>12. InLine(enabled, a, <<>>, Payloads(all), d2)
         /\ LineBytes(a, <<>>, Payloads(all), d2) \subseteq LineBytes(a, b, c, d)
    BY <1>12, <1>15, <2>9
  <2>13. /\ InLine(enabled, a, <<m>>, e, d2)
         /\ LineBytes(a, <<m>>, e, d2) \subseteq LineBytes(a, <<>>, Payloads(all), d2)
    BY <2>8, <2>11, <2>12, LineEndsThird
  <2>14. /\ ReceiveInOrder(n)' = InLine(enabled, a, <<m>>, e, d2)
         /\ Received(n)' = LineBytes(a, <<m>>, e, d2)
    BY <1>1, <1>6, <1>10, <2>1, <2>2, <2>10 DEF ReceiveInOrder, Received, m
  <2>15. QED
    BY <1>7, <2>12, <2>13, <2>14
<1>16. QED
  BY <1>1, <1>13, <1>14, <1>15

LEMMA RadioHandsUpOrder ==
  ASSUME NEW n \in Node, StackTypes, OrderInv, RadioHandsUp(n)
  PROVE  OrderInv'
<1> DEFINE packet == Unaddressed(Head(rx[n]))
<1>1. /\ AckReceiveFromDownstream(n, packet) /\ rx[n] # <<>> /\ CarriesData(Head(rx[n]))
      /\ rx' = [rx EXCEPT ![n] = Tail(@)]
      /\ in_run' = in_run /\ downstream_buffer' = downstream_buffer
      /\ tunnel_out' = tunnel_out
      /\ \A m \in Node \ {n} : /\ fragmented_packets'[m] = fragmented_packets[m]
                               /\ upstream_buffer'[m] = upstream_buffer[m]
  BY LayerSequences DEF RadioHandsUp, HandUp, Climbs, Collect, TunnelReceiveFromDownstream,
                        tunnelVars
<1>2. packet \in ReadChunk
  BY <1>1, QueueSequences, HeadTailProperties, ChunkOfMail
<1> HIDE DEF packet
<1>3. Waiting(n)' = Waiting(n)
  BY <1>1 DEF Waiting
<1>4. Shrinks(n)
  BY <1>1, <1>2, <1>3, AckingSends, HandsUpReceives DEF Shrinks
<1>5. /\ enabled' = enabled /\ ack_queue' = ack_queue
      /\ ~enabled => pending_packets' = pending_packets
  BY <1>1 DEF AckReceiveFromDownstream
<1>6. \A m \in Node \ {n} : /\ packets_to_send'[m] = packets_to_send[m]
                            /\ pending_packets'[m] = pending_packets[m]
  BY <1>1, QueueSequences, LayerSequences
     DEF AckReceiveFromDownstream, SendAck, ReceiveFromUpstream, HandleAck
<1>7. \A m \in Node \ {n} : ReceivesAs(m) /\ SendsAs(m)
  BY <1>1, <1>5, <1>6, QueueSequences DEF ReceivesAs, SendsAs
<1>8. AckIdle'
  BY <1>5 DEF OrderInv, AckIdle
<1>9. QED
  BY <1>4, <1>5, <1>7, <1>8, OrderShrinksAt

-----------------------------------------------------------------------------
(* The way from one node to another *)

LEMMA TakenSorted ==
  ASSUME NEW again, NEW Mail, NEW batch \in Seq(Mail), NEW order \in Ascending(1..Len(batch)),
         Sorted(again, DataPayloads(batch))
  PROVE  /\ Sorted(again, DataPayloads(Taken(batch, order)))
         /\ Bytes(DataPayloads(Taken(batch, order))) \subseteq Bytes(DataPayloads(batch))
<1> DEFINE taken == Taken(batch, order)
<1>1. Len(batch) \in Nat
  BY LenProperties
<1>2. /\ order \in Seq(1..Len(batch)) /\ DOMAIN order = 1..Len(order) /\ Len(order) \in Nat
      /\ \A i, j \in 1..Len(order) : i < j => order[i] < order[j]
  BY <1>1, FS_Interval, AscendingType
<1>3. \A i \in 1..Len(order) : order[i] \in 1..Len(batch)
  BY <1>2, ElementOfSeq
<1>4. Len(taken) = Len(order) /\ \A i \in 1..Len(order) : taken[i] = batch[order[i]]
  BY <1>2 DEF Taken
<1> HIDE DEF taken
<1>5. /\ Len(DataPayloads(taken)) = Len(order) /\ Len(DataPayloads(batch)) = Len(batch)
      /\ \A i \in 1..Len(order) : DataPayloads(taken)[i] = DataPayloads(batch)[order[i]]
  BY <1>1, <1>2, <1>3, <1>4 DEF DataPayloads
<1>6. QED
  BY <1>2, <1>3, <1>5, ThinnedSorted DEF taken

LEMMA RadioSendsOrder ==
  ASSUME NEW n \in Node, StackTypes, OrderInv, RadioSends(n)
  PROVE  OrderInv'
<1>1. PICK Mail : Mail = StackMail(ReadChunk)
  OBVIOUS
<1>2. /\ packets_to_send \in [Node -> Seq(Mail)] /\ rx \in [Node -> Seq(Mail)]
      /\ QueueTypes(Mail)
  BY <1>1, QueueSequences DEF StackTypes, Typed, Hold
<1> DEFINE queue == packets_to_send[n]
<1>3. PICK k \in 1..Len(queue) :
        /\ SubSeq(queue, 1, k) \in Seq(Mail) /\ Len(SubSeq(queue, 1, k)) = k
        /\ packets_to_send' = [packets_to_send EXCEPT ![n] = SubSeq(@, k + 1, Len(@))]
        /\ rx' \in [Node -> Seq(Mail)]
        /\ \A m \in Node :
             \/ rx'[m] = rx[m]
             \/ \E order \in Ascending(1..k) :
                  /\ rx'[m] = rx[m] \o Taken(SubSeq(queue, 1, k), order)
                  /\ Len(rx[m]) + Len(order) <= FifoDepth
  <2>1. Send(n)
    BY DEF RadioSends
  <2>2. QED
    BY <1>2, <2>1, SendMoves, ZenonT(60)
<1>4. PICK batch, rest : batch = SubSeq(queue, 1, k) /\ rest = SubSeq(queue, k + 1, Len(queue))
  OBVIOUS
<1>5. Splits(queue, batch, rest)
  BY <1>2, <1>4, SubSeqSplits
<1>6. /\ packets_to_send'[n] = rest
      /\ \A m \in Node \ {n} : packets_to_send'[m] = packets_to_send[m]
  BY <1>2, <1>3, <1>4
<1>7. /\ enabled' = enabled /\ ack_queue' = ack_queue /\ pending_packets' = pending_packets
      /\ fragmented_packets' = fragmented_packets /\ tunnel_out' = tunnel_out
      /\ upstream_buffer' = upstream_buffer /\ downstream_buffer' = downstream_buffer
      /\ in_run' = in_run
  BY DEF RadioSends, layerVars, ackVars, tunnelVars
<1>8. PICK a, b, c, d, a2, s :
        /\ a = DataPayloads(queue) /\ b = PendingPayloads(pending_packets[n])
        /\ c = Payloads(ack_queue[n]) /\ d = Waiting(n)
        /\ a2 = DataPayloads(rest) /\ s = DataPayloads(batch)
  OBVIOUS
<1>9. InLine(enabled, a, b, c, d) /\ ToSend(n) = LineBytes(a, b, c, d)
  BY <1>8 DEF OrderInv, SendInOrder, ToSend
<1>10. /\ SendInOrder(n)' = InLine(enabled, a2, b, c, d)
       /\ ToSend(n)' = LineBytes(a2, b, c, d)
  <2>1. Waiting(n)' = Waiting(n)
    BY <1>7 DEF Waiting
  <2>2. QED
    BY <1>6, <1>7, <1>8, <2>1 DEF SendInOrder, ToSend
<1> HIDE DEF queue
<1>11. Splits(a, s, a2)
  BY <1>5, <1>8, PayloadsSplit
<1>12. /\ Sorted(enabled, a2) /\ Bytes(a2) \subseteq Bytes(a) /\ Sorted(enabled, s)
       /\ Bytes(s) \subseteq Bytes(a)
  BY <1>9, <1>11, SplitRest DEF InLine
<1>13. AllFollow(enabled, Bytes(s), Bytes(a2))
  BY <1>9, <1>11, SplitSorted DEF InLine
<1>14. SendInOrder(n)' /\ ToSend(n)' \subseteq ToSend(n)
  <2>1. Sorted(enabled, b) /\ Sorted(enabled, c) /\ Sorted(enabled, d)
    BY <1>9 DEF InLine
  <2>2. InLine(enabled, a2, b, c, d) /\ LineBytes(a2, b, c, d) \subseteq LineBytes(a, b, c, d)
    BY <1>9, <1>12, <2>1, LineThins
  <2>3. QED
    BY <1>9, <1>10, <2>2
<1>15. Bytes(s) \subseteq ToSend(n) /\ AllFollow(enabled, Bytes(s), ToSend(n)')
  <2>1. Bytes(s) \subseteq ToSend(n)
    BY <1>9, <1>12 DEF LineBytes
  <2>2. /\ AllFollow(enabled, Bytes(s), Bytes(b)) /\ AllFollow(enabled, Bytes(s), Bytes(c))
        /\ AllFollow(enabled, Bytes(s), Bytes(d))
    BY <1>9, <1>12, FollowSubsets DEF InLine
  <2>3. AllFollow(enabled, Bytes(s), LineBytes(a2, b, c, d))
    BY <1>13, <2>2 DEF AllFollow, LineBytes
  <2>4. QED
    BY <1>10, <2>1, <2>3
<1>16. ASSUME NEW m \in Node
       PROVE  ReceiveInOrder(m)' /\ Received(m)' \subseteq Received(m) \cup Bytes(s)
  <2>1. CASE rx'[m] = rx[m]
    <3>1. ReceivesAs(m)
      BY <1>7, <2>1 DEF ReceivesAs
    <3>2. QED
      BY <1>7, <3>1, ReceivesAsBefore DEF OrderInv
  <2>2. ASSUME NEW order \in Ascending(1..k), rx'[m] = rx[m] \o Taken(batch, order)
        PROVE  ReceiveInOrder(m)' /\ Received(m)' \subseteq Received(m) \cup Bytes(s)
    <3>1. PICK w, x, y, z, z2, t :
            /\ w = tunnel_out[m] /\ x = upstream_buffer[m]
            /\ y = Payloads(fragmented_packets[m]) /\ z = DataPayloads(rx[m])
            /\ z2 = DataPayloads(rx'[m]) /\ t = DataPayloads(Taken(batch, order))
      OBVIOUS
    <3>2. /\ InLine(enabled, w, x, y, z) /\ Received(m) = LineBytes(w, x, y, z)
          /\ ReceiveInOrder(m)' = InLine(enabled, w, x, y, z2)
          /\ Received(m)' = LineBytes(w, x, y, z2)
      BY <1>7, <3>1 DEF OrderInv, ReceiveInOrder, Received
    <3>3. batch \in Seq(Mail) /\ order \in Ascending(1..Len(batch))
      BY <1>3, <1>4
    <3>4. Sorted(enabled, t) /\ Bytes(t) \subseteq Bytes(s)
      BY <1>8, <1>12, <3>1, <3>3, TakenSorted
    <3>5. Splits(z2, z, t)
      <4>1. Taken(batch, order) \in Seq(Mail) /\ rx[m] \in Seq(Mail)
        BY <1>2, <3>3, TakenType
      <4>2. Splits(rx'[m], rx[m], Taken(batch, order))
        BY <2>2, <4>1, ConcatSplits
      <4>3. QED
        BY <3>1, <4>2, PayloadsSplit
    <3>6. AllFollow(enabled, LineBytes(w, x, y, z), Bytes(t))
      <4>1. AllFollow(enabled, Received(m), ToSend(n))
        BY DEF OrderInv
      <4>2. Bytes(t) \subseteq ToSend(n)
        BY <1>15, <3>4
      <4>3. QED
        BY <3>2, <4>1, <4>2 DEF AllFollow
    <3>7. /\ InLine(enabled, w, x, y, z2)
          /\ LineBytes(w, x, y, z2) = LineBytes(w, x, y, z) \cup Bytes(t)
      BY <3>2, <3>4, <3>5, <3>6, LineGrows
    <3>8. QED
      BY <3>2, <3>4, <3>7
  <2>3. QED
    BY <1>3, <1>4, <2>1, <2>2
<1>17. ASSUME NEW m \in Node \ {n} PROVE SendInOrder(m)' /\ ToSend(m)' = ToSend(m)
  <2>1. SendsAs(m)
    BY <1>6, <1>7 DEF SendsAs
  <2>2. QED
    BY <1>7, <2>1, SendsAsBefore DEF OrderInv
<1>18. \A m \in Node : ReceiveInOrder(m)' /\ SendInOrder(m)'
  BY <1>14, <1>16, <1>17
<1>19. ASSUME NEW m \in Node, NEW o \in Node
       PROVE  AllFollow(enabled', Received(m)', ToSend(o)')
  <2>1. PICK R, S, R2, S2 :
          R = Received(m) /\ S = ToSend(o) /\ R2 = Received(m)' /\ S2 = ToSend(o)'
    OBVIOUS
  <2>2. R2 \subseteq R \cup Bytes(s) /\ S2 \subseteq S /\ AllFollow(enabled, R, S)
    BY <1>14, <1>16, <1>17, <2>1 DEF OrderInv
  <2>3. AllFollow(enabled, Bytes(s), S2)
    <3>1. CASE o = n
      BY <1>15, <2>1, <3>1
    <3>2. CASE o # n
      <4>1. (\A x \in Bytes(s) : x[1] = n) /\ (\A x \in S2 : x[1] = o)
        BY <1>15, <2>1, <2>2 DEF OrderInv
      <4>2. QED
        BY <3>2, <4>1 DEF AllFollow, Follows
    <3>3. QED
      BY <3>1, <3>2
  <2>4. AllFollow(enabled, R2, S2)
    BY <2>2, <2>3 DEF AllFollow
  <2>5. QED
    BY <1>7, <2>1, <2>4
<1>20. \A m \in Node : \A x \in ToSend(m)' : x[1] = m
  BY <1>14, <1>17 DEF OrderInv
<1>21. AckIdle'
  BY <1>7 DEF OrderInv, AckIdle
<1>22. QED
  BY <1>18, <1>19, <1>20, <1>21 DEF OrderInv

-----------------------------------------------------------------------------
(* All steps *)

LEMMA OrderInit == ASSUME StackInit PROVE OrderInv
<1>1. /\ \A n \in Node : /\ packets_to_send[n] = <<>> /\ rx[n] = <<>> /\ ack_queue[n] = <<>>
                         /\ pending_packets[n] = <<>> /\ fragmented_packets[n] = <<>>
                         /\ downstream_buffer[n] = <<>> /\ upstream_buffer[n] = <<>>
                         /\ tunnel_out[n] = <<>>
  BY DEF StackInit
<1>2. Len(<<>>) = 0
  BY EmptySeq
<1>3. ASSUME NEW n \in Node
      PROVE  ReceiveInOrder(n) /\ SendInOrder(n) /\ Received(n) = {} /\ ToSend(n) = {}
  <2>1. /\ Len(Payloads(fragmented_packets[n])) = 0 /\ Len(DataPayloads(rx[n])) = 0
        /\ Len(upstream_buffer[n]) = 0 /\ Len(tunnel_out[n]) = 0
    BY <1>1, <1>2, EmptyPayloads
  <2>2. /\ Len(DataPayloads(packets_to_send[n])) = 0
        /\ Len(PendingPayloads(pending_packets[n])) = 0 /\ Len(Payloads(ack_queue[n])) = 0
    BY <1>1, EmptyPayloads
  <2>3. Len(Waiting(n)) = 0
    BY <1>1, <1>2 DEF Waiting
  <2>4. Received(n) = {} /\ ReceiveInOrder(n)
    BY <2>1, EmptyPlace DEF Received, LineBytes, ReceiveInOrder, InLine, AllFollow
  <2>5. ToSend(n) = {} /\ SendInOrder(n)
    BY <2>2, <2>3, EmptyPlace DEF ToSend, LineBytes, SendInOrder, InLine, AllFollow
  <2>6. QED
    BY <2>4, <2>5
<1>4. AckIdle
  BY <1>1 DEF AckIdle
<1>5. QED
  BY <1>3, <1>4 DEF OrderInv, AllFollow

LEMMA OrderStep ==
  ASSUME MaxNumberOfPackets = 1
  PROVE  StackTypes /\ OrderInv /\ [StackNext]_stackVars => OrderInv'
<1> SUFFICES ASSUME StackTypes, OrderInv, [StackNext]_stackVars PROVE OrderInv'
  OBVIOUS
<1>1. CASE UNCHANGED stackVars
  <2>1. enabled' = enabled /\ \A n \in Node : ReceivesAs(n) /\ SendsAs(n)
    BY <1>1 DEF stackVars, vars, layerVars, ackVars, tunnelVars, ReceivesAs, SendsAs
  <2>2. QED
    BY <2>1, OrderSame
<1>2. CASE Passes
  BY <1>2, PassesOrder
<1>3. ASSUME NEW n \in Node,
             \/ TunnelRun(n) \/ LayerRun(n)
             \/ RadioSends(n) \/ RadioRun(n) \/ RadioLearns(n) \/ RadioHandsUp(n)
             \/ TunnelThread(n) \/ StartStack(n) \/ StackEnds(n)
      PROVE  OrderInv'
  BY <1>3, TunnelRunOrder, LayerRunOrder, RadioSendsOrder, RadioRunOrder, RadioLearnsOrder,
     RadioHandsUpOrder, TunnelThreadOrder, StartStackOrder, StackEndsOrder
<1>4. QED
  BY <1>1, <1>2, <1>3 DEF StackNext

\* What is written stands first in a line, and flattening keeps the order.
LEMMA OrderImplies == ASSUME StackTypes, OrderInv PROVE InOrder
<1>1. ASSUME NEW n \in Node,
             NEW i \in DOMAIN FlattenSeq(tunnel_out[n]),
             NEW j \in DOMAIN FlattenSeq(tunnel_out[n]), i < j
      PROVE  Follows(enabled, FlattenSeq(tunnel_out[n])[i], FlattenSeq(tunnel_out[n])[j])
  <2> DEFINE got == FlattenSeq(tunnel_out[n])
  <2>1. tunnel_out[n] \in Seq(Seq(ReadByte))
    BY ReceivePlaces
  <2>2. CASE tunnel_out[n] = <<>>
    <3>1. Len(<<>>) = 0 /\ DOMAIN <<>> = {}
      BY EmptySeq
    <3>2. FlattenSeq(<<>>) = <<>>
      BY <3>1, Zenon DEF FlattenSeq
    <3>3. QED
      BY <2>2, <3>1, <3>2
  <2>3. CASE tunnel_out[n] # <<>>
    <3>1. Sorted(enabled, tunnel_out[n])
      BY DEF OrderInv, ReceiveInOrder, InLine
    <3>2. Ascends(enabled, got)
      BY <2>1, <2>3, <3>1, FlattenAscends
    <3>3. got \in Seq(ReadByte)
      BY <2>1, <2>3, FlattenPlaces
    <3>4. DOMAIN got = 1..Len(got)
      BY <3>3, LenProperties
    <3>5. QED
      BY <1>1, <3>2, <3>4 DEF Ascends
  <2>4. QED
    BY <2>2, <2>3
<1>2. QED
  BY <1>1 DEF InOrder, Follows

\* The chunks that a node writes are in the order in which their sender cut them
\* (InOrder), whatever was lost, late or repeated and whoever started again or
\* sent between them, if at most one packet is pending at each node: then what
\* is sent again stands before all that the same node has still to send.
THEOREM ChunksInOrder ==
  ASSUME MaxNumberOfPackets = 1
  PROVE  StackSpec => []InOrder
<1>1. StackInit => StackTypes /\ OrderInv
  BY StackTypesInit, OrderInit
<1>2. StackTypes /\ OrderInv /\ [StackNext]_stackVars => (StackTypes /\ OrderInv)'
  BY StackTypesStep, OrderStep
<1>3. StackTypes /\ OrderInv => InOrder
  BY OrderImplies
<1>4. QED
  BY <1>1, <1>2, <1>3, PTL DEF StackSpec

-----------------------------------------------------------------------------
(* What arrives                                                             *)
(*                                                                          *)
(* From here on a place is the set of its packets, or of their bytes: a     *)
(* step moves packets from one place to another, and what is kept there is  *)
(* told by what a step may add.                                             *)

\* The packets of a queue that go up to the layers, and the bytes of packets.
DataIn(queue) == {packet \in ToSet(queue) : packet.type = "Data"}

Content(packets) == UNION {Its(packet.payload) : packet \in packets}

Coming(m) == Content(DataIn(rx[m]))

Leaving(n) == Content(DataIn(packets_to_send[n]))

PendingChunks(n) == {entry.packet : entry \in ToSet(pending_packets[n])}

\* What a node has collected, or written, or is about to write.
Kept(m) ==
  Bytes(tunnel_out[m]) \cup Bytes(upstream_buffer[m]) \cup Content(ToSet(fragmented_packets[m]))

\* What it has read and may still send.
OwnBytes(n) ==
  Bytes(downstream_buffer[n]) \cup Content(ToSet(ack_queue[n])) \cup Content(PendingChunks(n))
    \cup Leaving(n)

\* A packet that a step makes n send: one of the discovery, a chunk of its own,
\* or the acknowledgement of a chunk that it has got and keeps.
New(n, packet) ==
  \/ packet.type = "Discovery" /\ n \in InDiscovery /\ packet.source = node_id[n]
  \/ packet.type = "NodeIdAnnouncement" /\ n \in Running' /\ packet.source = node_id'[n]
  \/ /\ packet.type = "DiscoverResponse" /\ n \notin InDiscovery
     /\ packet.source = node_id[n] /\ packet.neighbors \subseteq neighbor_node_ids[n]
     /\ packet.num \in 0..Cardinality(neighbor_node_ids[n])
     /\ \E asked \in ToSet(rx[n]) : asked.type = "Discovery" /\ packet.to = asked.source
  \/ /\ packet.type = "Data" /\ Its(packet.payload) \subseteq OwnBytes(n)
     /\ neighbor_node_ids[n] # {} /\ packet.to = first_neighbor[n]
  \/ /\ packet.type = "DataAck" /\ Its(packet.payload) \subseteq Kept(n)'
     /\ \E got \in DataIn(rx[n]) : packet.payload = got.payload

Moves ==
  /\ \A n \in Node : \A packet \in ToSet(packets_to_send'[n]) :
       packet \in ToSet(packets_to_send[n]) \/ New(n, packet)
  /\ \A m \in Node : \A packet \in ToSet(rx'[m]) :
       \/ packet \in ToSet(rx[m])
       \/ HasAddress(m, packet.to) /\ \E n \in Node \ {m} : packet \in ToSet(packets_to_send[n])
  /\ \A n \in Node : \A byte \in OwnBytes(n)' : byte \in OwnBytes(n) \/ byte[1] = n

LEMMA SequenceElements ==
  ASSUME NEW S, NEW s \in Seq(S)
  PROVE  /\ ToSet(s) = {s[i] : i \in 1..Len(s)} /\ ToSet(s) \subseteq S
         /\ Len(s) \in Nat /\ DOMAIN s = 1..Len(s)
BY LenProperties, ElementOfSeq DEF ToSet

LEMMA NoElements == ToSet(<<>>) = {} /\ Bytes(<<>>) = {} /\ Len(<<>>) = 0
BY EmptySeq DEF ToSet, Bytes

\* Every part of what is flattened is in the whole.
LEMMA FlattenKeeps ==
  ASSUME NEW A, NEW s \in Seq(Seq(A))
  PROVE  Bytes(s) \subseteq Its(FlattenSeq(s)) /\ FlattenSeq(s) \in Seq(A)
<1>1. CASE s = <<>>
  <2>1. FlattenSeq(<<>>) = <<>>
    BY NoElements, EmptySeq, Zenon DEF FlattenSeq
  <2>2. QED
    BY <1>1, <2>1, NoElements, EmptySeq
<1>2. CASE s # <<>>
  <2> DEFINE flat == FlattenSeq(s)
             N == Len(s)
  <2>1. flat \in Seq(A)
    BY <1>2, FlattenPlaces
  <2>2. PICK row, col : Places(row, col, flat, N, s)
    BY <1>2, FlattenPlaces
  <2> HIDE DEF flat, N
  <2>3. ASSUME NEW k \in 1..N, NEW l \in 1..Len(s[k])
        PROVE  \E i \in 1..Len(flat) : s[k][l] = flat[i]
    <3>1. PICK i \in 1..Len(flat) : row[i] = k /\ col[i] = l
      BY <2>2 DEF Places
    <3>2. flat[i] = s[row[i]][col[i]]
      BY <2>2 DEF Places
    <3>3. QED
      BY <3>1, <3>2
  <2>4. ASSUME NEW byte \in Bytes(s) PROVE byte \in Its(flat)
    <3>1. PICK k \in 1..N : byte \in Its(s[k])
      BY DEF Bytes, N
    <3>2. PICK l \in 1..Len(s[k]) : byte = s[k][l]
      BY <3>1 DEF Its
    <3>3. QED
      BY <2>3, <3>2 DEF Its
  <2>5. QED
    BY <2>1, <2>4 DEF flat
<1>3. QED
  BY <1>1, <1>2

\* Chunks that were collected, one after the other.
LEMMA ChunksFlattened ==
  ASSUME NEW A, NEW packets, Len(packets) \in Nat, DOMAIN packets = 1..Len(packets),
         \A i \in 1..Len(packets) : packets[i].payload \in Seq(A)
  PROVE  /\ FlattenSeq([i \in DOMAIN packets |-> packets[i].payload]) \in Seq(A)
         /\ Content(ToSet(packets)) \subseteq
              Its(FlattenSeq([i \in DOMAIN packets |-> packets[i].payload]))
<1> DEFINE payloads == [i \in 1..Len(packets) |-> packets[i].payload]
<1>1. payloads \in Seq(Seq(A)) /\ Len(payloads) = Len(packets)
  BY IsASeq
<1>2. \A i \in 1..Len(packets) : payloads[i] = packets[i].payload
  OBVIOUS
<1>3. [i \in DOMAIN packets |-> packets[i].payload] = payloads
  OBVIOUS
<1> HIDE DEF payloads
<1>4. Content(ToSet(packets)) \subseteq Bytes(payloads)
  BY <1>1, <1>2 DEF Content, ToSet, Bytes
<1>5. Bytes(payloads) \subseteq Its(FlattenSeq(payloads)) /\ FlattenSeq(payloads) \in Seq(A)
  BY <1>1, FlattenKeeps
<1>6. QED
  BY <1>3, <1>4, <1>5

LEMMA QueueSets ==
  ASSUME StackTypes, NEW n \in Node
  PROVE  /\ ToSet(packets_to_send[n]) \subseteq StackMail(ReadChunk)
         /\ ToSet(rx[n]) \subseteq StackMail(ReadChunk)
         /\ ToSet(ack_queue[n]) \subseteq ReadChunk
         /\ ToSet(fragmented_packets[n]) \subseteq ReadChunk
         /\ PendingChunks(n) \subseteq ReadChunk
<1>1. PICK C, M : C = ReadChunk /\ M = StackMail(ReadChunk)
  OBVIOUS
<1>2. PICK Open, Entry :
        Open = {chunk \in C : ~chunk.final} /\ Entry = [packet : C, times_sent : Nat]
  OBVIOUS
<1>3. /\ packets_to_send[n] \in Seq(M) /\ rx[n] \in Seq(M) /\ ack_queue[n] \in Seq(C)
      /\ fragmented_packets[n] \in Seq(Open) /\ pending_packets[n] \in Seq(Entry)
  BY <1>1, <1>2, QueueSequences, LayerSequences
<1>4. /\ ToSet(packets_to_send[n]) \subseteq M /\ ToSet(rx[n]) \subseteq M
      /\ ToSet(ack_queue[n]) \subseteq C
      /\ ToSet(fragmented_packets[n]) \subseteq Open /\ ToSet(pending_packets[n]) \subseteq Entry
  BY <1>3, SequenceElements
<1>5. QED
  BY <1>1, <1>2, <1>4 DEF PendingChunks

\* What Its, Bytes and Content are of packets that carry data is bytes that were read.
LEMMA DataRead ==
  ASSUME StackTypes, NEW packet \in StackMail(ReadChunk), CarriesData(packet)
  PROVE  /\ Unaddressed(packet) \in ReadChunk /\ packet.payload \in Seq(ReadByte)
         /\ Its(packet.payload) # {} /\ Its(packet.payload) \subseteq ReadByte
         /\ packet.type = "DataAck" => enabled
<1>1. PICK C, B : C = ReadChunk /\ B = ReadByte
  OBVIOUS
<1>2. Unaddressed(packet) \in C
  BY <1>1, ChunkOfMail
<1>3. packet.payload \in Seq(B) /\ packet.payload # <<>> /\ (packet.type = "DataAck" => enabled)
  BY <1>1, <1>2 DEF ReadChunk, Chunk, Unaddressed
<1>4. Len(packet.payload) \in Nat \ {0} /\ \A i \in 1..Len(packet.payload) : packet.payload[i] \in B
  BY <1>3, LenProperties, EmptySeq, ElementOfSeq
<1>5. 1 \in 1..Len(packet.payload)
  BY <1>4
<1>6. Its(packet.payload) # {} /\ Its(packet.payload) \subseteq B
  BY <1>4, <1>5 DEF Its
<1>7. QED
  BY <1>1, <1>2, <1>3, <1>6

\* What a handler sends down, as a set.
LEMMA SentElements ==
  ASSUME StackTypes, NEW n \in Node, NEW packets \in Seq(ReadChunk),
         ReceiveFromUpstream(n, packets)
  PROVE  /\ \A m \in Node \ {n} : packets_to_send'[m] = packets_to_send[m]
         /\ neighbor_node_ids[n] = {} => packets_to_send' = packets_to_send
         /\ neighbor_node_ids[n] # {} =>
              ToSet(packets_to_send'[n]) =
                ToSet(packets_to_send[n]) \cup {Addressed(n, chunk) : chunk \in ToSet(packets)}
<1>1. PICK C, M : C = ReadChunk /\ M = StackMail(ReadChunk)
  OBVIOUS
<1>2. packets_to_send \in [Node -> Seq(M)] /\ packets \in Seq(C) /\ M = StackMail(C)
      /\ first_neighbor[n] \in NodeId \cup {NoNeighbor} /\ C \subseteq Chunk
  BY <1>1, QueueSequences DEF StackTypes, Typed, FirstKnown, ReadChunk
<1>3. CASE neighbor_node_ids[n] = {}
  BY <1>3 DEF ReceiveFromUpstream
<1>4. CASE neighbor_node_ids[n] # {}
  <2> DEFINE more == [i \in DOMAIN packets |-> Addressed(n, packets[i])]
  <2>1. packets_to_send' = [packets_to_send EXCEPT ![n] = @ \o more]
    BY <1>4 DEF ReceiveFromUpstream
  <2>2. /\ DOMAIN packets = 1..Len(packets) /\ Len(packets) \in Nat
        /\ \A i \in 1..Len(packets) : packets[i] \in C
        /\ ToSet(packets) = {packets[i] : i \in 1..Len(packets)}
    BY <1>2, SequenceElements, ElementOfSeq
  <2>3. \A i \in 1..Len(packets) : Addressed(n, packets[i]) \in M
    BY <1>2, <2>2, MailOfChunk DEF Addressed
  <2>4. more \in Seq(M) /\ Len(more) = Len(packets)
    BY <2>2, <2>3, IsASeq
  <2>5. \A i \in 1..Len(packets) : more[i] = Addressed(n, packets[i])
    BY <2>2
  <2> HIDE DEF more
  <2>6. ToSet(more) = {Addressed(n, chunk) : chunk \in ToSet(packets)}
    <3>1. ToSet(more) = {more[i] : i \in 1..Len(packets)}
      BY <2>4, SequenceElements
    <3>2. QED
      BY <2>2, <2>5, <3>1
  <2>7. packets_to_send'[n] = packets_to_send[n] \o more
        /\ \A m \in Node \ {n} : packets_to_send'[m] = packets_to_send[m]
    BY <1>2, <2>1
  <2>8. ToSet(packets_to_send[n] \o more) = ToSet(packets_to_send[n]) \cup ToSet(more)
    BY <1>2, <2>4, ConcatElements
  <2>9. QED
    BY <1>4, <2>6, <2>7, <2>8
<1>5. QED
  BY <1>3, <1>4

\* The radio itself sends packets of the discovery only, and takes such only.
LEMMA DiscoverySteps ==
  ASSUME StackTypes, NEW n \in Node, RadioRun(n) \/ RadioLearns(n) \/ StartStack(n)
  PROVE  /\ UNCHANGED layerVars
         /\ \A m \in Node : \A packet \in ToSet(packets_to_send'[m]) :
              \/ packet \in ToSet(packets_to_send[m])
              \/ New(m, packet) /\ packet.type \notin {"Data", "DataAck"}
         /\ \A m \in Node : /\ DataIn(packets_to_send'[m]) = DataIn(packets_to_send[m])
                            /\ ToSet(rx'[m]) \subseteq ToSet(rx[m])
                            /\ DataIn(rx'[m]) = DataIn(rx[m])
<1>1. PICK M : M = StackMail(ReadChunk)
  OBVIOUS
<1>2. RadioTypes /\ QueueTypes(M) /\ IsMail(M)
  BY <1>1, StackMailIsMail DEF StackTypes, Typed, Hold
<1>3. UNCHANGED layerVars
  BY DEF RadioRun, RadioLearns, StartStack
<1> DEFINE Sends == 
             \/ packets_to_send' = packets_to_send
             \/ \E packet \in Packet :
                  /\ New(n, packet) 
                  /\ ToSet(packets_to_send'[n]) = ToSet(packets_to_send[n]) \cup {packet}
                  /\ \A m \in Node \ {n} : packets_to_send'[m] = packets_to_send[m]
           Takes ==
             \/ rx' = rx
             \/ /\ Head(rx[n]) \in Packet
                /\ ToSet(rx[n]) = ToSet(rx'[n]) \cup {Head(rx[n])}
                /\ \A m \in Node \ {n} : rx'[m] = rx[m]
<1>4. ASSUME Sends, Takes
      PROVE  /\ \A m \in Node : \A packet \in ToSet(packets_to_send'[m]) :
                  \/ packet \in ToSet(packets_to_send[m])
                  \/ New(m, packet) /\ packet.type \notin {"Data", "DataAck"}
             /\ \A m \in Node : /\ DataIn(packets_to_send'[m]) = DataIn(packets_to_send[m])
                                /\ ToSet(rx'[m]) \subseteq ToSet(rx[m])
                                /\ DataIn(rx'[m]) = DataIn(rx[m])
  <2>1. \A packet \in Packet : packet.type \notin {"Data", "DataAck"}
    BY DEF Packet
  <2>2. \A m \in Node : ToSet(rx'[m]) \subseteq ToSet(rx[m]) /\ DataIn(rx'[m]) = DataIn(rx[m])
    BY <1>4, <2>1 DEF DataIn
  <2>3. CASE packets_to_send' = packets_to_send
    BY <2>2, <2>3
  <2>4. ASSUME NEW packet \in Packet, New(n, packet),
               ToSet(packets_to_send'[n]) = ToSet(packets_to_send[n]) \cup {packet},
               \A m \in Node \ {n} : packets_to_send'[m] = packets_to_send[m]
        PROVE  /\ \A m \in Node : \A other \in ToSet(packets_to_send'[m]) :
                    \/ other \in ToSet(packets_to_send[m])
                    \/ New(m, other) /\ other.type \notin {"Data", "DataAck"}
               /\ \A m \in Node : DataIn(packets_to_send'[m]) = DataIn(packets_to_send[m])
    <3>1. \A m \in Node : ToSet(packets_to_send'[m]) =
            IF m = n THEN ToSet(packets_to_send[n]) \cup {packet} ELSE ToSet(packets_to_send[m])
      BY <2>4
    <3>2. packet.type \notin {"Data", "DataAck"}
      BY <2>1
    <3> HIDE DEF New
    <3>3. QED
      BY <2>4, <3>1, <3>2 DEF DataIn
  <2>5. QED
    BY <1>4, <2>2, <2>3, <2>4
<1>5. CASE StartStack(n)
  BY <1>3, <1>4, <1>5 DEF StartStack, Start
<1>6. CASE RadioRun(n)
  <2>1. CASE EndTurn(n)
    BY <1>3, <1>4, <2>1 DEF EndTurn
  <2>2. CASE SendDiscovery(n)
    <3> DEFINE packet == IdPacket("Discovery", node_id[n])
    <3>1. Queue(n, packet) /\ n \in InDiscovery /\ rx' = rx
      BY <2>2 DEF SendDiscovery
    <3>2. packet \in Packet
      BY <1>2, IdPackets DEF RadioTypes
    <3>3. packet \in M
      BY <1>2, <3>2 DEF IsMail
    <3>4. /\ ToSet(packets_to_send'[n]) = ToSet(packets_to_send[n]) \cup {packet}
          /\ \A m \in Node \ {n} : packets_to_send'[m] = packets_to_send[m]
      BY <1>2, <3>1, <3>3, QueueElements
    <3>5. New(n, packet)
      BY <3>1 DEF New, IdPacket
    <3> HIDE DEF packet
    <3>6. QED
      BY <1>3, <1>4, <3>1, <3>2, <3>4, <3>5
  <2>3. CASE SettleAlone(n) \/ SettleAmongNeighbors(n)
    <3>1. PICK id \in NodeId : Settle(n, id) /\ rx' = rx
      <4>1. CASE SettleAlone(n)
        BY <4>1, MeshAssumption DEF SettleAlone, NodeId
      <4>2. CASE SettleAmongNeighbors(n)
        BY <4>2, FreeIdTaken DEF SettleAmongNeighbors
      <4>3. QED
        BY <2>3, <4>1, <4>2
    <3> DEFINE packet == IdPacket("NodeIdAnnouncement", id)
    <3>2. packet \in Packet
      BY IdPackets
    <3>3. packet \in M /\ Queue(n, packet)
      BY <1>2, <3>1, <3>2 DEF IsMail, Settle
    <3>4. /\ ToSet(packets_to_send'[n]) = ToSet(packets_to_send[n]) \cup {packet}
          /\ \A m \in Node \ {n} : packets_to_send'[m] = packets_to_send[m]
      BY <1>2, <3>3, QueueElements
    <3>5. node_id'[n] = id /\ comms_state'[n] = "Running"
      BY <1>2, <3>1 DEF Settle, RadioTypes
    <3>6. New(n, packet)
      BY <3>5 DEF New, IdPacket, Running
    <3> HIDE DEF packet
    <3>7. QED
      BY <1>3, <1>4, <3>1, <3>2, <3>4, <3>6
  <2>4. CASE Abort(n) /\ Alive(n)'
    BY <1>2, <2>4 DEF Abort, Exit, Alive, RadioTypes
  <2>5. QED
    BY <1>6, <2>1, <2>2, <2>3, <2>4 DEF RadioRun, Timer
<1>7. CASE RadioLearns(n)
  <2>1. Receive(n)
    BY <1>7 DEF RadioLearns
  <2> DEFINE p == Head(rx[n])
  <2>2. /\ p \in M /\ ToSet(rx[n]) = ToSet(rx'[n]) \cup {p}
        /\ \A m \in Node \ {n} : rx'[m] = rx[m]
    BY <1>2, <2>1, ReceiveElements
  <2>3. p \in Packet
    BY <1>2, <2>1, <2>2 DEF IsMail, CarriesData, Receive, HandleDiscoveryPacket,
       HandleDiscoveryAckPacket, HandleNodeIdAnnouncementPacket
  <2>4. CASE packets_to_send' = packets_to_send
    BY <1>3, <1>4, <2>2, <2>3, <2>4
  <2>5. CASE p.type = "Discovery" /\ comms_state[n] # "Discovery" /\ Respond(n, p)
    <3>1. PICK response \in Packet :
             /\ response.type = "DiscoverResponse"
             /\ response.to = p.source /\ response.source = node_id[n]
             /\ response.neighbors \subseteq neighbor_node_ids[n]
             /\ response.num \in 0..Cardinality(neighbor_node_ids[n])
             /\ ToSet(packets_to_send'[n]) = ToSet(packets_to_send[n]) \cup {response}
             /\ \A m \in Node \ {n} : packets_to_send'[m] = packets_to_send[m]
      <4>1. IsMail(M)
        BY <1>2
      <4>2. Cardinality(neighbor_node_ids[n]) \in Nat
        BY <1>2, IdsCount DEF RadioTypes
      <4>3. \A response \in Packet : response.num \in 0..255
        BY DEF Packet
      <4>4. QED
        <5>1. PICK response \in Packet :
                /\ response.type = "DiscoverResponse"
                /\ response.to = p.source /\ response.source = node_id[n]
                /\ response.neighbors \subseteq neighbor_node_ids[n]
                /\ response.num <= Cardinality(neighbor_node_ids[n])
                /\ ToSet(packets_to_send'[n]) = ToSet(packets_to_send[n]) \cup {response}
                /\ \A m \in Node \ {n} : packets_to_send'[m] = packets_to_send[m]
          BY <1>2, <2>3, <2>5, <4>1, RespondElements, SMTT(60)
        <5>2. response.num \in 0..Cardinality(neighbor_node_ids[n])
          BY <4>2, <4>3, <5>1
        <5>3. QED
          BY <5>1, <5>2
    <3>2. New(n, response)
      BY <2>2, <2>5, <3>1 DEF New, InDiscovery
    <3>3. QED
      BY <1>3, <1>4, <2>2, <2>3, <3>1, <3>2
  <2>6. packets_to_send' = packets_to_send
        \/ (p.type = "Discovery" /\ comms_state[n] # "Discovery" /\ Respond(n, p))
    BY <2>1 DEF Receive, HandleDiscoveryPacket, HandleDiscoveryAckPacket,
       HandleNodeIdAnnouncementPacket
  <2>7. QED
    BY <2>4, <2>5, <2>6
<1>8. QED
  BY <1>5, <1>6, <1>7

\* Every byte of a frame is in one of its fragments.
LEMMA FragmentsCover ==
  ASSUME NEW A, NEW data \in Seq(A), data # <<>>, NEW b \in 1..Len(data)
  PROVE  \E i \in 1..NumberOfPackets(Len(data)) : \E j \in 1..Len(Fragments(data)[i].payload) :
           (i - 1) * PACKET_PAYLOAD_SIZE + j = b
<1> DEFINE P == PACKET_PAYLOAD_SIZE
           L == Len(data)
           N == NumberOfPackets(L)
           q == (b - 1) \div P
           r == (b - 1) % P
           k == q + 1
           size == Len(Fragments(data)[k].payload)
<1>1. P \in Nat \ {0} /\ L \in Nat \ {0}
  BY FragmentationAssumption, LenProperties, EmptySeq
<1>2. N \in Nat \ {0} /\ (N - 1) * P < L /\ L <= N * P
  BY <1>1, NumberOfPacketsFits
<1>3. \A i \in 1..N : FragmentAt(i, Fragments(data)[i], data)
  BY FragmentsProperties
<1>4. b \in 1..L
  OBVIOUS
<1> HIDE DEF L
<1>5. q \in Nat /\ r \in 0..P - 1 /\ b - 1 = P * q + r
  BY <1>1, <1>4
<1> HIDE DEF P, N, q, r
<1>6. k \in Nat /\ (k - 1) * P = P * q /\ P * q \in Nat
  BY <1>1, <1>5
<1>7. k \in 1..N
  <2>1. CASE N <= q
    <3>1. N * P <= q * P /\ N * P \in Nat
      BY <1>1, <1>2, <1>5, <2>1, TimesGrows
    <3>2. q * P = P * q
      BY <1>1, <1>5
    <3>3. QED
      BY <1>1, <1>2, <1>4, <1>5, <1>6, <3>1, <3>2
  <2>2. CASE q < N
    BY <1>2, <1>5, <2>2
  <2>3. QED
    BY <1>2, <1>5, <2>1, <2>2
<1> HIDE DEF k
<1>8. size \in 1..P /\ (k # N => size = P) /\ (k = N => (k - 1) * P + size = L)
  BY <1>3, <1>7 DEF FragmentAt, P, L, N
<1> HIDE DEF size
<1>9. r + 1 \in 1..size
  <2>1. size \in Nat /\ r + 1 <= size
    BY <1>1, <1>4, <1>5, <1>6, <1>8
  <2>2. QED
    BY <1>1, <1>5, <2>1
<1>10. (k - 1) * P + (r + 1) = b
  BY <1>1, <1>4, <1>5, <1>6
<1>11. QED
  BY <1>7, <1>9, <1>10 DEF P, N, L, size

\* The fragments of a frame hold its bytes, and nothing else.
LEMMA FragmentsElements ==
  ASSUME NEW A, NEW data \in Seq(A), data # <<>>
  PROVE  /\ Content(ToSet(Fragments(data))) = Its(data)
         /\ \A chunk \in ToSet(Fragments(data)) : chunk.type = "Data"
<1> DEFINE P == PACKET_PAYLOAD_SIZE
           L == Len(data)
           N == NumberOfPackets(L)
           fragments == Fragments(data)
           begin(i) == (i - 1) * P
<1>1. P \in Nat \ {0} /\ L \in Nat \ {0}
  BY FragmentationAssumption, LenProperties, EmptySeq
<1>2. DOMAIN fragments = 1..N /\ \A i \in 1..N : FragmentAt(i, fragments[i], data)
  BY FragmentsProperties
<1>3. \A b \in 1..L : \E i \in 1..N : \E j \in 1..Len(fragments[i].payload) : begin(i) + j = b
  BY FragmentsCover, Zenon
<1> HIDE DEF fragments
<1>a. ASSUME NEW i \in 1..N
      PROVE  /\ fragments[i].type = "Data" /\ begin(i) \in Nat
             /\ Len(fragments[i].payload) \in 1..P
             /\ begin(i) + Len(fragments[i].payload) <= L
             /\ \A j \in 1..Len(fragments[i].payload) : fragments[i].payload[j] = data[begin(i) + j]
  BY <1>2 DEF FragmentAt
<1> HIDE DEF P, L, N
<1>4. ToSet(fragments) = {fragments[i] : i \in 1..N}
  BY <1>2 DEF ToSet
<1>5. ASSUME NEW i \in 1..N, NEW j \in 1..Len(fragments[i].payload)
      PROVE  fragments[i].payload[j] \in Its(data)
  <2>1. /\ begin(i) \in Nat /\ Len(fragments[i].payload) \in Nat
        /\ begin(i) + Len(fragments[i].payload) <= L
        /\ fragments[i].payload[j] = data[begin(i) + j]
    BY <1>a
  <2> HIDE DEF begin
  <2>3. begin(i) + j \in 1..L
    BY <1>1, <2>1
  <2>2. QED
    BY <2>1, <2>3 DEF Its, L
<1>6. ASSUME NEW b \in 1..L
      PROVE  \E i \in 1..N : \E j \in 1..Len(fragments[i].payload) : fragments[i].payload[j] = data[b]
  <2>1. PICK i \in 1..N : \E j \in 1..Len(fragments[i].payload) : begin(i) + j = b
    BY <1>3
  <2>2. QED
    BY <1>a, <2>1
<1>7. ASSUME NEW byte \in Content(ToSet(fragments)) PROVE byte \in Its(data)
  <2>1. PICK i \in 1..N : byte \in Its(fragments[i].payload)
    BY <1>4 DEF Content
  <2>2. QED
    BY <1>5, <2>1 DEF Its
<1>8. ASSUME NEW byte \in Its(data) PROVE byte \in Content(ToSet(fragments))
  <2>1. PICK b \in 1..L : byte = data[b]
    BY DEF Its, L
  <2>2. PICK i \in 1..N : byte \in Its(fragments[i].payload)
    BY <1>6, <2>1 DEF Its
  <2>3. QED
    BY <1>4, <2>2 DEF Content
<1>9. \A chunk \in ToSet(fragments) : chunk.type = "Data"
  BY <1>a, <1>4
<1>10. QED
  BY <1>7, <1>8, <1>9 DEF fragments

\* n sends the chunks of a set down, or drops them because it knows nobody.
SendsDown(n, chunks) ==
  /\ \A m \in Node \ {n} : packets_to_send'[m] = packets_to_send[m]
  /\ \/ packets_to_send' = packets_to_send /\ (neighbor_node_ids[n] = {} \/ chunks = {})
     \/ /\ neighbor_node_ids[n] # {}
        /\ ToSet(packets_to_send'[n]) =
             ToSet(packets_to_send[n]) \cup {Addressed(n, chunk) : chunk \in chunks}

LEMMA SendsDownElements ==
  ASSUME NEW n \in Node, NEW chunks, SendsDown(n, chunks),
         \A chunk \in chunks : CarriesData(chunk)
  PROVE  /\ \A packet \in ToSet(packets_to_send'[n]) :
              \/ packet \in ToSet(packets_to_send[n])
              \/ /\ neighbor_node_ids[n] # {} /\ packet.to = first_neighbor[n]
                 /\ \E chunk \in chunks : packet.type = chunk.type /\ packet.payload = chunk.payload
         /\ ToSet(packets_to_send[n]) \subseteq ToSet(packets_to_send'[n])
         /\ Leaving(n)' \subseteq Leaving(n) \cup Content({chunk \in chunks : chunk.type = "Data"})
         /\ Leaving(n) \subseteq Leaving(n)'
         /\ neighbor_node_ids[n] # {} =>
              Content({chunk \in chunks : chunk.type = "Data"}) \subseteq Leaving(n)'
         /\ \A m \in Node \ {n} : Leaving(m)' = Leaving(m)
<1>1. \A chunk \in chunks : /\ Addressed(n, chunk).type = chunk.type
                            /\ Addressed(n, chunk).payload = chunk.payload
                            /\ Addressed(n, chunk).to = first_neighbor[n]
  BY DEF Addressed
<1>2. \A m \in Node \ {n} : Leaving(m)' = Leaving(m)
  BY DEF SendsDown, Leaving, DataIn
<1>3. CASE packets_to_send' = packets_to_send /\ (neighbor_node_ids[n] = {} \/ chunks = {})
  BY <1>2, <1>3 DEF Leaving, DataIn, Content
<1>4. CASE /\ neighbor_node_ids[n] # {}
           /\ ToSet(packets_to_send'[n]) =
                ToSet(packets_to_send[n]) \cup {Addressed(n, chunk) : chunk \in chunks}
  <2>1. \A packet \in ToSet(packets_to_send'[n]) :
          \/ packet \in ToSet(packets_to_send[n])
          \/ \E chunk \in chunks : packet = Addressed(n, chunk)
    BY <1>4
  <2>2. \A chunk \in chunks : Addressed(n, chunk) \in ToSet(packets_to_send'[n])
    BY <1>4
  <2>3. ToSet(packets_to_send[n]) \subseteq ToSet(packets_to_send'[n])
    BY <1>4
  <2> HIDE DEF Addressed
  <2>4. ASSUME NEW byte \in Leaving(n)'
        PROVE  byte \in Leaving(n) \cup Content({chunk \in chunks : chunk.type = "Data"})
    <3>1. PICK packet \in ToSet(packets_to_send'[n]) :
            packet.type = "Data" /\ byte \in Its(packet.payload)
      BY <2>4 DEF Leaving, DataIn, Content
    <3>2. QED
      BY <1>1, <2>1, <3>1 DEF Leaving, DataIn, Content
  <2>5. ASSUME NEW byte \in Content({chunk \in chunks : chunk.type = "Data"})
        PROVE  byte \in Leaving(n)'
    <3>1. PICK chunk \in chunks : chunk.type = "Data" /\ byte \in Its(chunk.payload)
      BY <2>5 DEF Content
    <3>2. QED
      BY <1>1, <2>2, <3>1 DEF Leaving, DataIn, Content
  <2>6. Leaving(n) \subseteq Leaving(n)'
    BY <2>3 DEF Leaving, DataIn, Content
  <2>7. \A packet \in ToSet(packets_to_send'[n]) :
          \/ packet \in ToSet(packets_to_send[n])
          \/ /\ neighbor_node_ids[n] # {} /\ packet.to = first_neighbor[n]
             /\ \E chunk \in chunks : packet.type = chunk.type /\ packet.payload = chunk.payload
    BY <1>1, <1>4, <2>1
  <2>8. QED
    BY <1>2, <2>3, <2>4, <2>5, <2>6, <2>7
<1>5. QED
  BY <1>3, <1>4 DEF SendsDown

LEMMA SendsElements ==
  ASSUME StackTypes, NEW n \in Node, NEW packets \in Seq(ReadChunk),
         ReceiveFromUpstream(n, packets)
  PROVE  SendsDown(n, ToSet(packets)) /\ \A chunk \in ToSet(packets) : CarriesData(chunk)
<1>1. PICK C : C = ReadChunk
  OBVIOUS
<1>2. ToSet(packets) \subseteq C
  BY <1>1, SequenceElements
<1>3. \A chunk \in C : CarriesData(chunk)
  BY <1>1 DEF ReadChunk, Chunk, CarriesData
<1>4. QED
  BY <1>2, <1>3, SentElements DEF SendsDown

LEMMA QueuedFrames ==
  ASSUME StackTypes, NEW n \in Node
  PROVE  /\ Len(downstream_buffer[n]) \in Nat
         /\ \A i \in 1..Len(downstream_buffer[n]) :
              /\ downstream_buffer[n][i] \in Seq(ReadByte) /\ downstream_buffer[n][i] # <<>>
              /\ \A byte \in Its(downstream_buffer[n][i]) : byte[1] = n
              /\ Fragments(downstream_buffer[n][i]) \in Seq(ReadChunk)
<1>1. FramesQueued /\ Len(downstream_buffer[n]) \in Nat
  BY LenProperties DEF StackTypes, BufferInv, BufferTypes
<1>2. PICK C, B : C = ReadChunk /\ B = ReadByte
  OBVIOUS
<1>3. ASSUME NEW i \in 1..Len(downstream_buffer[n])
      PROVE  /\ downstream_buffer[n][i] \in Seq(B) /\ downstream_buffer[n][i] # <<>>
             /\ \A byte \in Its(downstream_buffer[n][i]) : byte[1] = n
             /\ Fragments(downstream_buffer[n][i]) \in Seq(C)
  <2>1. PICK k \in 1..Len(tunnel_in[n]) : downstream_buffer[n][i] = Frame(n, k, tunnel_in[n][k])
    BY <1>1 DEF FramesQueued
  <2>2. tunnel_in[n] \in Seq(Nat \ {0})
    BY <1>1 DEF FramesQueued
  <2>3. k \in Nat /\ tunnel_in[n][k] \in Nat \ {0}
    BY <2>2, LenProperties, ElementOfSeq
  <2>4. /\ Frame(n, k, tunnel_in[n][k]) \in Seq(B)
        /\ Fragments(Frame(n, k, tunnel_in[n][k])) \in Seq(C)
    BY <1>1, <1>2, FrameFragments
  <2>5. \A byte \in Its(Frame(n, k, tunnel_in[n][k])) : byte[1] = n
    <3> DEFINE frame == Frame(n, k, tunnel_in[n][k])
    <3>1. Ascends(TRUE, frame) /\ \A b \in Its(frame) : b[1] = n /\ b[2] = k
      BY <2>3, FrameAscends
    <3>2. QED
      BY <3>1
  <2>6. Len(Frame(n, k, tunnel_in[n][k])) = tunnel_in[n][k]
    BY <2>3, IsASeq DEF Frame
  <2>7. Frame(n, k, tunnel_in[n][k]) # <<>>
    BY <2>3, <2>6, EmptySeq
  <2>8. QED
    BY <2>1, <2>4, <2>5, <2>7
<1>4. QED
  BY <1>1, <1>2, <1>3

LEMMA BeginRunElements ==
  ASSUME StackTypes, NEW n \in Node, BeginRun(n),
         UNCHANGED <<idVars, radio_state, discoveryVars, rx, stable, restVars,
                     enabled, pending_packets, fragmented_packets>>
  PROVE  \E chunks \in SUBSET ReadChunk :
           /\ \A chunk \in chunks : chunk.type = "Data"
           /\ Content(chunks) \subseteq Bytes(downstream_buffer[n])
           /\ Bytes(Waiting(n)) \subseteq Bytes(Waiting(n)') \cup Content(chunks)
           /\ \A m \in Node \ {n} : Waiting(m)' = Waiting(m) /\ ack_queue'[m] = ack_queue[m]
           /\ \/ /\ SendsDown(n, {}) /\ packets_to_send' = packets_to_send
                 /\ ToSet(ack_queue'[n]) = ToSet(ack_queue[n]) \cup chunks
              \/ SendsDown(n, chunks) /\ ack_queue' = ack_queue
<1> DEFINE frame == Head(downstream_buffer[n])
           packets == Fragments(frame)
           chunks == ToSet(packets)
<1>1. PICK C, B : C = ReadChunk /\ B = ReadByte
  OBVIOUS
<1>2. /\ downstream_buffer[n] # <<>> /\ n \notin in_run /\ in_run' = in_run \cup {n}
      /\ downstream_buffer' = downstream_buffer
      /\ AckReceiveFromUpstream(n, packets)
  BY DEF BeginRun, FragmentationReceiveFromUpstream
<1>3. /\ Len(downstream_buffer[n]) \in Nat \ {0} /\ frame = downstream_buffer[n][1]
      /\ downstream_buffer[n] \in Seq(Seq(Byte))
  <2>1. downstream_buffer[n] \in Seq(Seq(Byte))
    BY DEF StackTypes, BufferInv, BufferTypes
  <2>2. QED
    BY <1>2, <2>1, LenProperties, EmptySeq, HeadTailProperties
<1>4. 1 \in 1..Len(downstream_buffer[n])
  BY <1>3
<1>5. /\ frame \in Seq(B) /\ frame # <<>> /\ packets \in Seq(C)
  BY <1>1, <1>3, <1>4, QueuedFrames
<1>6. Content(chunks) = Its(frame) /\ \A chunk \in chunks : chunk.type = "Data"
  BY <1>5, FragmentsElements
<1>7. chunks \subseteq C
  BY <1>5, SequenceElements
<1>8. Its(frame) \subseteq Bytes(downstream_buffer[n])
  BY <1>3, <1>4, ItsInBytes
<1> HIDE DEF chunks, packets
<1>9. Bytes(Waiting(n)) \subseteq Bytes(Waiting(n)') \cup Content(chunks)
  <2>1. ASSUME NEW byte \in Bytes(Waiting(n))
        PROVE  byte \in Bytes(Waiting(n)') \cup Its(frame)
    <3>1. Waiting(n) = [i \in 1..Len(downstream_buffer[n]) |-> downstream_buffer[n][i]]
      BY <1>2, WaitingFree
    <3>2. PICK i \in 1..Len(downstream_buffer[n]) : byte \in Its(downstream_buffer[n][i])
      <4>1. Len(Waiting(n)) = Len(downstream_buffer[n])
        BY <1>3, <3>1
      <4>2. PICK i \in 1..Len(Waiting(n)) : byte \in Its(Waiting(n)[i])
        BY <2>1 DEF Bytes
      <4>3. Waiting(n)[i] = downstream_buffer[n][i]
        BY <3>1, <4>1, <4>2
      <4>4. QED
        BY <4>1, <4>2, <4>3
    <3>3. CASE i = 1
      BY <1>3, <3>2, <3>3
    <3>4. CASE i # 1
      <4>1. Waiting(n)'[i] = downstream_buffer[n][i] /\ Len(Waiting(n)') = Len(downstream_buffer[n])
        BY <1>2, <1>3, <3>2, <3>4 DEF Waiting
      <4>2. QED
        BY <3>2, <4>1 DEF Bytes
    <3>5. QED
      BY <3>3, <3>4
  <2>2. QED
    BY <1>6, <2>1
<1>10. \A m \in Node \ {n} : Waiting(m)' = Waiting(m)
  BY <1>2 DEF Waiting
<1>11. CASE ~enabled
  <2>1. ReceiveFromUpstream(n, packets) /\ ack_queue' = ack_queue
    BY <1>2, <1>11 DEF AckReceiveFromUpstream
  <2>2. SendsDown(n, chunks)
    BY <1>1, <1>5, <2>1, SendsElements DEF chunks
  <2>3. QED
    BY <1>1, <1>6, <1>7, <1>8, <1>9, <1>10, <2>1, <2>2
<1>12. CASE enabled
  <2>1. ack_queue' = [ack_queue EXCEPT ![n] = @ \o packets] /\ packets_to_send' = packets_to_send
    BY <1>2, <1>12 DEF AckReceiveFromUpstream
  <2>2. ack_queue \in [Node -> Seq(C)]
    BY <1>1, LayerSequences
  <2>3. /\ ToSet(ack_queue'[n]) = ToSet(ack_queue[n]) \cup chunks
        /\ \A m \in Node \ {n} : ack_queue'[m] = ack_queue[m]
    BY <1>5, <2>1, <2>2, ConcatElements DEF chunks
  <2>4. SendsDown(n, {})
    BY <2>1 DEF SendsDown
  <2>5. QED
    BY <1>1, <1>6, <1>7, <1>8, <1>9, <1>10, <2>1, <2>3, <2>4
<1>13. QED
  BY <1>11, <1>12

LEMMA EndRunElements ==
  ASSUME StackTypes, NEW n \in Node, EndRun(n),
         UNCHANGED <<vars, restVars, ackVars, fragmented_packets>>
  PROVE  /\ Bytes(Waiting(n)) \subseteq Bytes(Waiting(n)')
         /\ Bytes(downstream_buffer'[n]) \subseteq Bytes(downstream_buffer[n])
         /\ \A m \in Node \ {n} : /\ Waiting(m)' = Waiting(m)
                                  /\ downstream_buffer'[m] = downstream_buffer[m]
         /\ \A m \in Node : Kept(m) \subseteq Kept(m)'
<1>1. /\ downstream_buffer \in [Node -> Seq(Seq(Byte))]
      /\ n \in in_run => Len(downstream_buffer[n]) >= 1
      /\ Len(downstream_buffer[n]) \in Nat
  BY LenProperties DEF StackTypes, BufferInv, BufferTypes, RunHasFrame
<1>2. in_run' = in_run \ {n} /\ WriteToTunnel(n)
  BY DEF EndRun
<1>3. \A m \in Node \ {n} : /\ Waiting(m)' = Waiting(m)
                            /\ downstream_buffer'[m] = downstream_buffer[m]
  <2>1. \A m \in Node \ {n} : downstream_buffer'[m] = downstream_buffer[m]
    BY <1>1 DEF EndRun
  <2>2. QED
    BY <1>2, <2>1 DEF Waiting
<1>4. /\ Bytes(Waiting(n)) \subseteq Bytes(Waiting(n)')
      /\ Bytes(downstream_buffer'[n]) \subseteq Bytes(downstream_buffer[n])
  <2>1. CASE n \notin in_run
    <3>1. downstream_buffer' = downstream_buffer /\ in_run' = in_run
      BY <1>2, <2>1 DEF EndRun
    <3>2. Waiting(n)' = Waiting(n)
      BY <3>1 DEF Waiting
    <3>3. QED
      BY <3>1, <3>2
  <2>2. CASE n \in in_run
    <3> DEFINE buffer == downstream_buffer[n]
    <3>1. buffer \in Seq(Seq(Byte)) /\ Len(buffer) \in Nat \ {0} /\ buffer # <<>>
          /\ downstream_buffer'[n] = Tail(buffer)
      BY <1>1, <2>2, EmptySeq DEF EndRun
    <3>2. Len(Tail(buffer)) = Len(buffer) - 1
          /\ \A i \in 1..Len(buffer) - 1 : Tail(buffer)[i] = buffer[i + 1]
      BY <3>1, HeadTailProperties
    <3>3. Len(Waiting(n)) = Len(buffer) /\ Waiting(n)[1] = <<>>
          /\ \A i \in 2..Len(buffer) : Waiting(n)[i] = buffer[i]
      BY <2>2, <3>1 DEF Waiting
    <3>4. Waiting(n)' = [i \in 1..Len(buffer) - 1 |-> buffer[i + 1]]
      BY <1>2, <3>1, <3>2 DEF Waiting
    <3> DEFINE after == Waiting(n)'
    <3> HIDE DEF buffer
    <3>5. Len(after) = Len(buffer) - 1 /\ \A i \in 1..Len(buffer) - 1 : after[i] = buffer[i + 1]
      BY <3>1, <3>4
    <3> HIDE DEF after
    <3>6. ASSUME NEW byte \in Bytes(Waiting(n)) PROVE byte \in Bytes(after)
      <4>1. PICK i \in 1..Len(buffer) : byte \in Its(Waiting(n)[i])
        BY <3>3, <3>6 DEF Bytes
      <4>2. i # 1
        BY <3>3, <4>1, NoElements DEF Its
      <4>3. i - 1 \in 1..Len(after) /\ after[i - 1] = Waiting(n)[i]
        BY <3>1, <3>3, <3>5, <4>2
      <4>4. QED
        BY <4>1, <4>3 DEF Bytes
    <3>7. ASSUME NEW byte \in Bytes(Tail(buffer)) PROVE byte \in Bytes(buffer)
      <4>1. PICK i \in 1..Len(buffer) - 1 : byte \in Its(buffer[i + 1])
        BY <3>2, <3>7 DEF Bytes
      <4>2. i + 1 \in 1..Len(buffer)
        BY <3>1
      <4>3. QED
        BY <4>1, <4>2 DEF Bytes
    <3>8. QED
      BY <3>1, <3>6, <3>7 DEF after, buffer
  <2>3. QED
    BY <2>1, <2>2
<1>5. PICK M : M = ReadMessage
  OBVIOUS
<1>6. tunnel_out \in [Node -> Seq(M)] /\ upstream_buffer \in [Node -> Seq(M)]
  BY <1>5, LayerSequences
<1>7. fragmented_packets' = fragmented_packets
  OBVIOUS
<1>8. \A m \in Node : Kept(m) \subseteq Kept(m)'
  <2>1. CASE upstream_buffer[n] = <<>>
    BY <1>2, <1>7, <2>1 DEF WriteToTunnel, Kept
  <2>2. CASE upstream_buffer[n] # <<>>
    <3>1. /\ tunnel_out' = [tunnel_out EXCEPT ![n] = Append(@, Head(upstream_buffer[n]))]
          /\ upstream_buffer' = [upstream_buffer EXCEPT ![n] = Tail(@)]
      BY <1>2, <2>2 DEF WriteToTunnel
    <3>2. /\ \A m \in Node \ {n} : /\ tunnel_out'[m] = tunnel_out[m]
                                   /\ upstream_buffer'[m] = upstream_buffer[m]
          /\ tunnel_out'[n] = Append(tunnel_out[n], Head(upstream_buffer[n]))
          /\ upstream_buffer'[n] = Tail(upstream_buffer[n])
      BY <1>6, <3>1
    <3>3. /\ Bytes(tunnel_out'[n]) = Bytes(tunnel_out[n]) \cup Its(Head(upstream_buffer[n]))
          /\ Bytes(upstream_buffer[n]) = Its(Head(upstream_buffer[n])) \cup Bytes(upstream_buffer'[n])
      <4>1. /\ Splits(tunnel_out'[n], tunnel_out[n], <<Head(upstream_buffer[n])>>)
            /\ Splits(upstream_buffer[n], <<Head(upstream_buffer[n])>>, upstream_buffer'[n])
        BY <1>6, <2>2, <3>2, AppendSplits, TailSplits
      <4>2. Bytes(<<Head(upstream_buffer[n])>>) = Its(Head(upstream_buffer[n]))
        BY OneSorted
      <4>3. QED
        BY <4>1, <4>2, SplitBytes
    <3>4. Kept(n) \subseteq Kept(n)'
      BY <1>7, <3>3 DEF Kept
    <3>5. \A m \in Node \ {n} : Kept(m) \subseteq Kept(m)'
      BY <1>7, <3>2 DEF Kept
    <3>6. QED
      BY <3>4, <3>5
  <2>3. QED
    BY <2>1, <2>2
<1>9. QED
  BY <1>3, <1>4, <1>8

\* The bytes of the frames that a node has read.
HasRead(n) == UNION {Its(Frame(n, k, tunnel_in[n][k])) : k \in 1..Len(tunnel_in[n])}

\* A node that has read a frame, or still may.
Reads(n) == frames_to_come[n] > 0 \/ tunnel_in[n] # <<>>

LEMMA TunnelThreadElements ==
  ASSUME StackTypes, NEW n \in Node, TunnelThread(n)
  PROVE  /\ UNCHANGED <<vars, restVars, ackVars, fragmented_packets, in_run,
                        upstream_buffer, tunnel_out>>
         /\ Bytes(Waiting(n)) \subseteq Bytes(Waiting(n)')
         /\ \A byte \in Bytes(downstream_buffer'[n]) :
              byte \in Bytes(downstream_buffer[n]) \/ byte[1] = n
         /\ \A m \in Node \ {n} : /\ Waiting(m)' = Waiting(m)
                                  /\ downstream_buffer'[m] = downstream_buffer[m]
         /\ \A m \in Node : /\ HasRead(m)' \subseteq HasRead(m) \cup Bytes(Waiting(m)')
                            /\ Reads(m)' => Reads(m)
<1>1. UNCHANGED <<vars, restVars, ackVars, fragmented_packets, in_run,
                  upstream_buffer, tunnel_out>>
  BY DEF TunnelThread, ReadFrame, CheckRoom
<1>2. CASE CheckRoom(n)
  <2>1. UNCHANGED <<downstream_buffer, in_run, tunnel_in, frames_to_come>>
    BY <1>2 DEF CheckRoom
  <2>2. \A m \in Node : /\ Waiting(m)' = Waiting(m) /\ HasRead(m)' = HasRead(m)
                        /\ Reads(m)' = Reads(m)
    BY <2>1 DEF Waiting, HasRead, Reads
  <2>3. QED
    BY <1>1, <2>1, <2>2
<1>3. CASE ReadFrame(n)
  <2> DEFINE buffer == downstream_buffer[n]
             read == tunnel_in[n]
  <2>1. /\ downstream_buffer \in [Node -> Seq(Seq(Byte))]
        /\ tunnel_in \in [Node -> Seq(Nat \ {0})]
        /\ Len(buffer) \in Nat /\ Len(read) \in Nat /\ n \notin in_run /\ in_run' = in_run
    BY <1>3, LenProperties DEF StackTypes, BufferInv, BufferTypes, FramesQueued, ReadFrame
  <2>2. PICK length \in FrameLengths[n] :
          /\ tunnel_in' = [tunnel_in EXCEPT ![n] = Append(@, length)]
          /\ downstream_buffer' = [downstream_buffer EXCEPT
               ![n] = Append(@, Frame(n, Len(tunnel_in[n]) + 1, length))]
    BY <1>3 DEF ReadFrame
  <2>3. length \in Nat \ {0}
    BY <2>2, TunnelAssumption
  <2> DEFINE frame == Frame(n, Len(read) + 1, length)
  <2>4. /\ tunnel_in'[n] = Append(read, length) /\ downstream_buffer'[n] = Append(buffer, frame)
        /\ \A m \in Node \ {n} : /\ tunnel_in'[m] = tunnel_in[m]
                                 /\ downstream_buffer'[m] = downstream_buffer[m]
    BY <2>1, <2>2
  <2>5. \A m \in Node \ {n} : Waiting(m)' = Waiting(m) /\ HasRead(m)' = HasRead(m)
    BY <2>1, <2>4 DEF Waiting, HasRead
  <2>6. \A byte \in Its(frame) : byte[1] = n
    <3> DEFINE k == Len(read) + 1
    <3>1. k \in Nat /\ length \in Nat
      BY <2>1, <2>3
    <3> HIDE DEF k
    <3>2. Ascends(TRUE, Frame(n, k, length))
          /\ \A b \in Its(Frame(n, k, length)) : b[1] = n /\ b[2] = k
      BY <3>1, FrameAscends
    <3>3. QED
      BY <3>2 DEF k
  <2>7. Bytes(downstream_buffer'[n]) = Bytes(buffer) \cup Its(frame)
    <3>1. Splits(Append(buffer, frame), buffer, <<frame>>)
      BY <2>1, AppendSplits
    <3>2. Bytes(<<frame>>) = Its(frame)
      BY OneSorted
    <3>3. QED
      BY <2>4, <3>1, <3>2, SplitBytes
  <2>8. /\ Waiting(n) = [i \in 1..Len(buffer) |-> buffer[i]]
        /\ Waiting(n)' = [i \in 1..Len(downstream_buffer'[n]) |-> downstream_buffer'[n][i]]
    BY <2>1 DEF Waiting
  <2>9. Bytes(Waiting(n)) = Bytes(buffer) /\ Bytes(Waiting(n)') = Bytes(downstream_buffer'[n])
    <3>1. Len(downstream_buffer'[n]) \in Nat
      <4>1. Len(Append(buffer, frame)) = Len(buffer) + 1
        BY <2>1, AppendProperties
      <4>2. QED
        BY <2>1, <2>4, <4>1
    <3>2. Len(Waiting(n)) = Len(buffer) /\ \A i \in 1..Len(buffer) : Waiting(n)[i] = buffer[i]
      BY <2>1, <2>8
    <3>3. /\ Len(Waiting(n)') = Len(downstream_buffer'[n])
          /\ \A i \in 1..Len(downstream_buffer'[n]) : Waiting(n)'[i] = downstream_buffer'[n][i]
      BY <2>8, <3>1
    <3> HIDE DEF buffer
    <3>4. QED
      BY <3>2, <3>3 DEF Bytes
  <2>10. HasRead(n)' \subseteq HasRead(n) \cup Its(frame)
    <3>1. Len(tunnel_in'[n]) = Len(read) + 1 /\ tunnel_in'[n][Len(read) + 1] = length
          /\ \A k \in 1..Len(read) : tunnel_in'[n][k] = read[k]
      BY <2>1, <2>3, <2>4, AppendProperties
    <3>2. HasRead(n)' = UNION {Its(Frame(n, k, tunnel_in'[n][k])) : k \in 1..Len(tunnel_in'[n])}
      BY DEF HasRead, Its, Frame
    <3>3. ASSUME NEW byte \in HasRead(n)' PROVE byte \in HasRead(n) \cup Its(frame)
      <4>1. PICK k \in 1..Len(tunnel_in'[n]) : byte \in Its(Frame(n, k, tunnel_in'[n][k]))
        BY <3>2, <3>3
      <4>2. CASE k = Len(read) + 1
        BY <3>1, <4>1, <4>2
      <4>3. CASE k # Len(read) + 1
        <5>1. k \in 1..Len(read) /\ tunnel_in'[n][k] = read[k]
          BY <2>1, <3>1, <4>3
        <5>2. QED
          BY <4>1, <5>1 DEF HasRead
      <4>4. QED
        BY <4>2, <4>3
    <3>4. QED
      BY <3>3
  <2>11. \A m \in Node : Reads(m)' => Reads(m)
    <3>1. frames_to_come[n] > 0 /\ frames_to_come' = [frames_to_come EXCEPT ![n] = @ - 1]
      BY <1>3 DEF ReadFrame, MoreFrames
    <3>2. \A m \in Node \ {n} : frames_to_come'[m] = frames_to_come[m]
      BY <3>1
    <3>3. QED
      BY <2>4, <3>1, <3>2 DEF Reads
  <2>12. QED
    BY <1>1, <2>4, <2>5, <2>6, <2>7, <2>9, <2>10, <2>11
<1>4. QED
  BY <1>2, <1>3 DEF TunnelThread

LEMMA LayerRunElements ==
  ASSUME StackTypes, NEW n \in Node, LayerRun(n)
  PROVE  /\ ToSet(ack_queue'[n]) \subseteq ToSet(ack_queue[n])
         /\ PendingChunks(n)' \subseteq ToSet(ack_queue[n]) \cup PendingChunks(n)
         /\ \A i \in 1..Len(pending_packets[n]) :
              \/ pending_packets[n][i].times_sent > kMaxTimesSent
              \/ \E j \in 1..Len(pending_packets'[n]) :
                   pending_packets'[n][j].packet = pending_packets[n][i].packet
         /\ \A m \in Node \ {n} : /\ ack_queue'[m] = ack_queue[m]
                                  /\ pending_packets'[m] = pending_packets[m]
         /\ \E chunks \in SUBSET (ToSet(ack_queue[n]) \cup PendingChunks(n)) :
              SendsDown(n, chunks) /\ ToSet(ack_queue[n]) \subseteq ToSet(ack_queue'[n]) \cup chunks
<1> DEFINE pending == pending_packets[n] \o Admitted(n)
           new == [i \in DOMAIN Admitted(n) |-> Admitted(n)[i].packet]
<1>1. PICK C, M : C = ReadChunk /\ M = ReadMessage
  OBVIOUS
<1>2a. PICK own : own = ToSet(ack_queue[n]) \cup PendingChunks(n)
  OBVIOUS
<1>2. LayersHold(C, M) /\ FewPending
  BY <1>1 DEF StackTypes, Typed, Hold
<1>3. /\ ack_queue \in [Node -> Seq(C)] /\ pending_packets \in [Node -> Seq(Pending(C))]
      /\ AckRun(n) /\ ack_queue' = [ack_queue EXCEPT ![n] = IF Admits(n) THEN Tail(@) ELSE @]
  BY <1>2 DEF LayersHold, Pending, LayerRun, AckRun
<1>4. /\ pending \in Seq(Pending(C)) /\ Len(pending) <= MaxNumberOfPackets
      /\ new \in Seq(C) /\ Admitted(n) \in Seq(Pending(C))
  BY <1>2, AdmittedType
<1>5. /\ Len(pending_packets[n]) \in Nat /\ Len(Admitted(n)) \in Nat
      /\ DOMAIN Admitted(n) = 1..Len(Admitted(n)) /\ DOMAIN pending = 1..Len(pending)
      /\ Len(pending) = Len(pending_packets[n]) + Len(Admitted(n))
      /\ \A i \in 1..Len(pending_packets[n]) : pending[i] = pending_packets[n][i]
      /\ \A i \in Len(pending_packets[n]) + 1..Len(pending) :
           pending[i] = Admitted(n)[i - Len(pending_packets[n])]
      /\ \A i \in 1..Len(pending) : pending[i] \in Pending(C)
  BY <1>3, <1>4, LenProperties, ConcatProperties, ElementOfSeq
<1>6. own \subseteq C
  BY <1>1, <1>2a, QueueSets
<1>7. \A i \in 1..Len(pending_packets[n]) : pending_packets[n][i].packet \in own
  <2>1. ToSet(pending_packets[n]) = {pending_packets[n][i] : i \in 1..Len(pending_packets[n])}
    BY <1>3, SequenceElements
  <2>2. QED
    BY <1>2a, <2>1 DEF PendingChunks
<1>8. Admits(n) => Head(ack_queue[n]) \in ToSet(ack_queue[n])
                   /\ ToSet(ack_queue[n]) = ToSet(Tail(ack_queue[n])) \cup {Head(ack_queue[n])}
  BY <1>3, TailElements DEF Admits
<1>9. /\ \A i \in 1..Len(Admitted(n)) : Admits(n) /\ Admitted(n)[i].packet = Head(ack_queue[n])
      /\ Admits(n) => Len(Admitted(n)) = 1
  <2>1. CASE Admits(n)
    <3> DEFINE entry == [packet |-> Head(ack_queue[n]), times_sent |-> 1]
    <3>1. Admitted(n) = <<entry>> /\ entry.packet = Head(ack_queue[n])
      BY <2>1 DEF Admitted
    <3> HIDE DEF entry
    <3>2. Len(<<entry>>) = 1 /\ <<entry>>[1] = entry
      OBVIOUS
    <3>3. QED
      BY <2>1, <3>1, <3>2
  <2>2. CASE ~Admits(n)
    BY <2>2, NoElements DEF Admitted
  <2>3. QED
    BY <2>1, <2>2
<1> HIDE DEF pending, new
<1>10. \A i \in 1..Len(pending) : pending[i].packet \in own
  <2>1. ASSUME NEW i \in 1..Len(pending) PROVE pending[i].packet \in own
    <3>1. CASE i <= Len(pending_packets[n])
      <4>1. i \in 1..Len(pending_packets[n])
        BY <1>5, <3>1
      <4>2. QED
        BY <1>5, <1>7, <4>1
    <3>2. CASE i > Len(pending_packets[n])
      <4>1. /\ i - Len(pending_packets[n]) \in 1..Len(Admitted(n))
            /\ i \in Len(pending_packets[n]) + 1..Len(pending)
        BY <1>5, <3>2
      <4>2. pending[i].packet = Head(ack_queue[n]) /\ Admits(n)
        BY <1>5, <1>9, <4>1
      <4>3. QED
        BY <1>2a, <1>8, <4>2
    <3>3. QED
      BY <1>5, <3>1, <3>2
  <2>2. QED
    BY <2>1
<1>11. pending \in Seq(Pending(own)) /\ new \in Seq(own)
  <2>1. \A i \in 1..Len(pending) : pending[i] \in Pending(own)
    BY <1>5, <1>10 DEF Pending
  <2>2. pending \in Seq(Pending(own))
    BY <1>4, <1>5, <2>1, SeqDef
  <2>3. \A i \in 1..Len(Admitted(n)) : Admitted(n)[i].packet \in own
    BY <1>2a, <1>8, <1>9
  <2>4. new = [i \in 1..Len(Admitted(n)) |-> Admitted(n)[i].packet]
    BY <1>5 DEF new
  <2>5. new \in Seq(own)
    BY <1>5, <2>3, <2>4, IsASeq
  <2>6. QED
    BY <2>2, <2>5
<1>12. PICK packets \in Seq(own), left \in Seq(Pending(own)) :
         /\ ReceiveFromUpstream(n, packets)
         /\ pending_packets' = [pending_packets EXCEPT ![n] = left]
         /\ \A i \in DOMAIN Admitted(n) :
              \E j \in 1..Len(packets) : packets[j] = Admitted(n)[i].packet
         /\ \A i \in DOMAIN pending :
              \/ pending[i].times_sent > kMaxTimesSent
              \/ \E j \in 1..Len(left) : left[j].packet = pending[i].packet
  <2>1. /\ pending_packets[n] \o Admitted(n) \in Seq(Pending(own))
        /\ Len(pending_packets[n] \o Admitted(n)) <= MaxNumberOfPackets
        /\ [i \in DOMAIN Admitted(n) |-> Admitted(n)[i].packet] \in Seq(own)
    BY <1>4, <1>11 DEF pending, new
  <2>0. AckRun(n)
    BY <1>3
  <2>2. \E packets \in Seq(own), left \in Seq(Pending(own)) :
          /\ ReceiveFromUpstream(n, packets)
          /\ pending_packets' = [pending_packets EXCEPT ![n] = left]
          /\ Len(left) <= MaxNumberOfPackets
          /\ SentAdmitted(n, packets)
          /\ OnlySpentGone(pending_packets[n] \o Admitted(n), left)
    BY <2>0, <2>1, AckRunSends
  <2>3. QED
    BY <2>2 DEF pending, SentAdmitted, OnlySpentGone
<1>13. /\ pending_packets'[n] = left
       /\ \A m \in Node \ {n} : /\ ack_queue'[m] = ack_queue[m]
                                /\ pending_packets'[m] = pending_packets[m]
  BY <1>3, <1>12
<1>14. PendingChunks(n)' \subseteq own
  <2>1. ToSet(left) \subseteq Pending(own)
    BY SequenceElements
  <2>2. PendingChunks(n)' = {entry.packet : entry \in ToSet(left)}
    BY <1>13 DEF PendingChunks
  <2>3. QED
    BY <2>1, <2>2 DEF Pending
<1>15. \A i \in 1..Len(pending_packets[n]) :
         \/ pending_packets[n][i].times_sent > kMaxTimesSent
         \/ \E j \in 1..Len(left) : left[j].packet = pending_packets[n][i].packet
  <2>1. \A i \in 1..Len(pending_packets[n]) : i \in DOMAIN pending
    BY <1>5
  <2>2. QED
    BY <1>5, <1>12, <2>1
<1> DEFINE chunks == ToSet(packets)
<1>16. chunks \subseteq own /\ chunks = {packets[i] : i \in 1..Len(packets)}
  BY SequenceElements
<1>17. SendsDown(n, chunks)
  <2>1. packets \in Seq(C)
    BY <1>6, SeqWider
  <2>2. QED
    BY <1>1, <1>12, <2>1, SendsElements
<1>18. ToSet(ack_queue[n]) \subseteq ToSet(ack_queue'[n]) \cup chunks
       /\ ToSet(ack_queue'[n]) \subseteq ToSet(ack_queue[n])
  <2>1. CASE ~Admits(n)
    BY <1>3, <2>1
  <2>2. CASE Admits(n)
    <3>1. ack_queue'[n] = Tail(ack_queue[n])
      BY <1>3, <2>2
    <3>2. 1 \in DOMAIN Admitted(n) /\ Admitted(n)[1].packet = Head(ack_queue[n])
      <4> DEFINE size == Len(Admitted(n))
      <4>0. size = 1
        BY <1>9, <2>2
      <4> HIDE DEF size
      <4>1. 1 \in 1..size
        BY <4>0
      <4>2. QED
        BY <1>5, <1>9, <4>1 DEF size
    <3>3. Head(ack_queue[n]) \in chunks
      BY <1>12, <1>16, <3>2
    <3>4. QED
      BY <1>8, <2>2, <3>1, <3>3
  <2>3. QED
    BY <2>1, <2>2
<1> HIDE DEF chunks
<1>19. QED
  BY <1>13, <1>14, <1>15, <1>16, <1>17, <1>18, <1>2a

LEMMA RadioSendsElements ==
  ASSUME StackTypes, NEW n \in Node, RadioSends(n)
  PROVE  /\ UNCHANGED <<idVars, stable, restVars, layerVars>>
         /\ \A m \in Node : /\ ToSet(packets_to_send'[m]) \subseteq ToSet(packets_to_send[m])
                            /\ ToSet(rx[m]) \subseteq ToSet(rx'[m])
                            /\ \A packet \in ToSet(rx'[m]) \ ToSet(rx[m]) :
                                 packet \in ToSet(packets_to_send[n]) /\ HasAddress(m, packet.to)
         /\ \A m \in Node \ {n} : packets_to_send'[m] = packets_to_send[m]
         /\ ~May("loss") =>
              \A packet \in ToSet(packets_to_send[n]) \ ToSet(packets_to_send'[n]) :
                \A m \in Node \ {n} : HasAddress(m, packet.to) => packet \in ToSet(rx'[m])
         /\ rx'[n] = rx[n]
<1>1. PICK M : M = StackMail(ReadChunk)
  OBVIOUS
<1>2. QueueTypes(M) /\ Send(n)
  BY <1>1 DEF StackTypes, Typed, Hold, RadioSends
<1>3. UNCHANGED <<idVars, stable, restVars, layerVars>>
  BY DEF RadioSends, Send
<1>4. rx'[n] = rx[n]
  <2>1. PICK k \in 1..Len(packets_to_send[n]) :
          \A m \in Node : rx'[m] = rx[m] \/ m # n
    BY <1>2, SendMoves
  <2>2. QED
    BY <2>1
<1>5. QED
  BY <1>2, <1>3, <1>4, SendDelivers

\* What a node does with a packet that goes up: the bytes are kept, unless the
\* packet is an acknowledgement.
LEMMA HandsUpElements ==
  ASSUME StackTypes, NEW n \in Node, RadioHandsUp(n)
  PROVE  LET packet == Head(rx[n]) IN
         /\ packet \in StackMail(ReadChunk) /\ CarriesData(packet)
         /\ ToSet(rx[n]) = ToSet(rx'[n]) \cup {packet}
         /\ UNCHANGED <<idVars, stable, restVars, enabled, ack_queue, downstream_buffer, in_run,
                        tunnel_in, tunnel_out, frames_to_come>>
         /\ \A m \in Node \ {n} : /\ rx'[m] = rx[m]
                                  /\ fragmented_packets'[m] = fragmented_packets[m]
                                  /\ upstream_buffer'[m] = upstream_buffer[m]
         /\ \A m \in Node : Kept(m) \subseteq Kept(m)'
         /\ packet.type = "Data" => Its(packet.payload) \subseteq Kept(n)'
         /\ packet.type = "DataAck" => UNCHANGED <<fragmented_packets, upstream_buffer>>
         /\ AckReceiveFromDownstream(n, Unaddressed(packet))
<1> DEFINE packet == Unaddressed(Head(rx[n]))
<1>1. PICK C, M, R : C = ReadChunk /\ M = StackMail(ReadChunk) /\ R = ReadMessage
  OBVIOUS
<1>2. QueueTypes(M) /\ rx \in [Node -> Seq(M)]
  BY <1>1 DEF StackTypes, Typed, Hold, QueueTypes
<1>3. /\ rx[n] # <<>> /\ CarriesData(Head(rx[n]))
      /\ rx' = [rx EXCEPT ![n] = Tail(@)]
      /\ UNCHANGED <<idVars, stable, restVars>>
      /\ AckReceiveFromDownstream(n, packet) /\ UNCHANGED <<enabled, ack_queue>>
      /\ \/ ~PassesUp(packet) /\ UNCHANGED <<fragmented_packets, tunnelVars>>
         \/ /\ PassesUp(packet) /\ ~packet.final /\ Collect(n, packet)
            /\ UNCHANGED tunnelVars
         \/ /\ PassesUp(packet) /\ packet.final /\ Collect(n, packet)
            /\ TunnelReceiveFromDownstream(n, Message(n, packet))
  BY DEF RadioHandsUp, HandUp, Climbs, AckReceiveFromDownstream
<1>4. /\ Head(rx[n]) \in M /\ ToSet(rx[n]) = ToSet(rx'[n]) \cup {Head(rx[n])}
      /\ \A m \in Node \ {n} : rx'[m] = rx[m]
  BY <1>2, <1>3, TailElements, HeadTailProperties
<1>5. UNCHANGED <<downstream_buffer, in_run, tunnel_in, tunnel_out, frames_to_come>>
  BY <1>3 DEF TunnelReceiveFromDownstream, tunnelVars
<1>6. /\ packet \in C /\ packet.payload \in Seq(ReadByte)
      /\ packet.type = Head(rx[n]).type /\ packet.payload = Head(rx[n]).payload
      /\ packet.type = "DataAck" => enabled
  BY <1>1, <1>3, <1>4, DataRead DEF Unaddressed
<1>7. packet.type \in {"Data", "DataAck"}
  BY <1>3, <1>6 DEF CarriesData
<1> DEFINE Open == {chunk \in ReadChunk : ~chunk.final}
<1>8. /\ fragmented_packets \in [Node -> Seq(Open)]
      /\ upstream_buffer \in [Node -> Seq(R)]
  BY <1>1, LayerSequences
<1> HIDE DEF packet
<1> DEFINE Others ==
             \A m \in Node \ {n} : /\ fragmented_packets'[m] = fragmented_packets[m]
                                   /\ upstream_buffer'[m] = upstream_buffer[m]
<1>9. CASE ~PassesUp(packet) /\ UNCHANGED <<fragmented_packets, tunnelVars>>
  <2>1. packet.type = "DataAck"
    BY <1>7, <1>9 DEF PassesUp
  <2>2. UNCHANGED <<fragmented_packets, upstream_buffer, tunnel_out>>
    BY <1>9 DEF tunnelVars
  <2>3. \A m \in Node : Kept(m)' = Kept(m)
    BY <2>2 DEF Kept
  <2>4. QED
    BY <1>1, <1>3, <1>4, <1>5, <1>6, <2>1, <2>2, <2>3 DEF packet
<1>10. CASE PassesUp(packet) /\ Collect(n, packet)
            /\ (packet.final \/ UNCHANGED tunnelVars)
            /\ (~packet.final \/ TunnelReceiveFromDownstream(n, Message(n, packet)))
  <2>1. packet.type = "Data"
    BY <1>6, <1>7, <1>10 DEF PassesUp
  <2> DEFINE parts == fragmented_packets[n]
             all == Append(parts, packet)
  <2>2. parts \in Seq(Open) /\ Len(parts) \in Nat
    BY <1>8, LenProperties
  <2>3. /\ all \in Seq(C) /\ Len(all) = Len(parts) + 1 /\ DOMAIN all = 1..Len(all)
        /\ ToSet(all) = ToSet(parts) \cup {packet}
    <3>1. parts \in Seq(C)
      BY <1>1, <2>2, SeqWider
    <3>2. QED
      BY <1>6, <2>2, <3>1, AppendProperties, LenProperties, AppendElements
  <2>4. Content(ToSet(all)) = Content(ToSet(parts)) \cup Its(packet.payload)
    BY <2>3 DEF Content
  <2> HIDE DEF all
  <2>5. CASE ~packet.final
    <3>1. fragmented_packets' = [fragmented_packets EXCEPT ![n] = Append(@, packet)]
      BY <1>10, <2>5 DEF Collect
    <3>2. UNCHANGED <<upstream_buffer, tunnel_out>>
      BY <1>10, <2>5 DEF tunnelVars
    <3>3. fragmented_packets'[n] = all
          /\ \A m \in Node \ {n} : fragmented_packets'[m] = fragmented_packets[m]
      BY <1>8, <3>1 DEF all
    <3>4. Kept(n) \cup Its(packet.payload) \subseteq Kept(n)'
      BY <2>4, <3>2, <3>3 DEF Kept
    <3>5. \A m \in Node \ {n} : Kept(m)' = Kept(m)
      BY <3>2, <3>3 DEF Kept
    <3>6. QED
      BY <1>1, <1>3, <1>4, <1>5, <1>6, <2>1, <3>2, <3>3, <3>4, <3>5 DEF packet
  <2>6. CASE packet.final
    <3> DEFINE message == Message(n, packet)
    <3>1. fragmented_packets' = [fragmented_packets EXCEPT ![n] = <<>>]
      BY <1>10, <2>6 DEF Collect
    <3>2. upstream_buffer' = [upstream_buffer EXCEPT ![n] = Append(@, message)]
      BY <1>10, <2>6 DEF TunnelReceiveFromDownstream
    <3>3. message = FlattenSeq([i \in DOMAIN all |-> all[i].payload])
      BY DEF Message, all
    <3>4. \A i \in 1..Len(all) : all[i].payload \in Seq(ReadByte)
      <4>1. \A i \in 1..Len(all) : all[i] \in C
        BY <2>3, ElementOfSeq
      <4>2. QED
        BY <1>1, <4>1 DEF ReadChunk
    <3>5. Content(ToSet(all)) \subseteq Its(message)
      <4>1. Len(all) \in Nat
        BY <2>2, <2>3
      <4>2. QED
        BY <2>3, <3>3, <3>4, <4>1, ChunksFlattened
    <3> HIDE DEF message
    <3>6. /\ fragmented_packets'[n] = <<>> /\ upstream_buffer'[n] = Append(upstream_buffer[n], message)
          /\ Others
      BY <1>8, <3>1, <3>2
    <3>7. Bytes(upstream_buffer'[n]) = Bytes(upstream_buffer[n]) \cup Its(message)
      <4>1. Splits(Append(upstream_buffer[n], message), upstream_buffer[n], <<message>>)
        BY <1>8, AppendSplits
      <4>2. Bytes(<<message>>) = Its(message)
        BY OneSorted
      <4>3. QED
        BY <3>6, <4>1, <4>2, SplitBytes
    <3>8. Kept(n) \cup Its(packet.payload) \subseteq Kept(n)'
      BY <1>5, <2>4, <3>5, <3>7 DEF Kept
    <3>9. \A m \in Node \ {n} : Kept(m)' = Kept(m)
      BY <1>5, <3>6 DEF Kept
    <3>10. QED
      BY <1>1, <1>3, <1>4, <1>5, <1>6, <2>1, <3>6, <3>8, <3>9 DEF packet
  <2>7. QED
    BY <2>5, <2>6
<1>11. QED
  BY <1>3, <1>9, <1>10

LEMMA AckElements ==
  ASSUME StackTypes, NEW n \in Node, NEW chunk \in ReadChunk, AckReceiveFromDownstream(n, chunk)
  PROVE  /\ \/ SendsDown(n, {})
            \/ \E ack : /\ chunk.type = "Data" /\ ack.type = "DataAck"
                        /\ ack.payload = chunk.payload /\ SendsDown(n, {ack})
         /\ PendingChunks(n)' \subseteq PendingChunks(n)
         /\ \A i \in 1..Len(pending_packets[n]) :
              \/ /\ chunk.type = "DataAck"
                 /\ SameContents(pending_packets[n][i].packet.payload, chunk.payload)
              \/ \E j \in 1..Len(pending_packets'[n]) :
                   pending_packets'[n][j].packet = pending_packets[n][i].packet
         /\ \A m \in Node \ {n} : pending_packets'[m] = pending_packets[m]
<1>1. PICK C, M : C = ReadChunk /\ M = ReadMessage
  OBVIOUS
<1>2. Carriable(C, M) /\ pending_packets \in [Node -> Seq(Pending(C))]
  BY <1>1, ReadCarriable, LayerSequences DEF Pending
<1>3. ASSUME UNCHANGED pending_packets
      PROVE  /\ PendingChunks(n)' \subseteq PendingChunks(n)
             /\ \A i \in 1..Len(pending_packets[n]) :
                  \E j \in 1..Len(pending_packets'[n]) :
                     pending_packets'[n][j].packet = pending_packets[n][i].packet
             /\ \A m \in Node \ {n} : pending_packets'[m] = pending_packets[m]
  BY <1>3 DEF PendingChunks
<1>4. CASE ~enabled /\ UNCHANGED <<pending_packets, packets_to_send>>
  <2>1. SendsDown(n, {})
    BY <1>4 DEF SendsDown
  <2>2. QED
    BY <1>3, <1>4, <2>1
<1>5. CASE enabled /\ chunk.type = "Data" /\ SendAck(n, chunk) /\ UNCHANGED pending_packets
  <2> DEFINE ack == [chunk EXCEPT !.type = "DataAck"]
  <2>1. chunk \in Chunk
    BY DEF ReadChunk
  <2>2. ack.type = "DataAck" /\ ack.payload = chunk.payload
    BY <2>1 DEF Chunk
  <2>3. ack \in C
    BY <1>1, <1>2, <1>5 DEF Carriable
  <2>4. ReceiveFromUpstream(n, <<ack>>)
    BY <1>5 DEF SendAck
  <2> HIDE DEF ack
  <2>5. <<ack>> \in Seq(C) /\ ToSet(<<ack>>) = {ack}
    <3>1. <<ack>> \in Seq(C) /\ Len(<<ack>>) = 1 /\ <<ack>>[1] = ack
      BY <2>3
    <3>2. ToSet(<<ack>>) = {<<ack>>[i] : i \in 1..Len(<<ack>>)}
      BY <3>1, SequenceElements
    <3>3. QED
      BY <3>1, <3>2
  <2>6. SendsDown(n, {ack})
    BY <1>1, <2>4, <2>5, SendsElements
  <2>7. QED
    BY <1>3, <1>5, <2>2, <2>6
<1>6. CASE enabled /\ chunk.type = "DataAck" /\ HandleAck(n, chunk) /\ UNCHANGED packets_to_send
  <2>1. SendsDown(n, {})
    BY <1>6 DEF SendsDown
  <2>2. CASE UNCHANGED pending_packets
    BY <1>3, <2>1, <2>2
  <2>3. CASE /\ Acknowledged(n, chunk) # {}
             /\ pending_packets' = [pending_packets EXCEPT
                  ![n] = RemoveAt(@, Min(Acknowledged(n, chunk)))]
    <3> DEFINE pending == pending_packets[n]
               gone == Min(Acknowledged(n, chunk))
               left == RemoveAt(pending, gone)
    <3>1. pending \in Seq(Pending(C)) /\ Len(pending) \in Nat
      BY <1>2, LenProperties
    <3>2. Acknowledged(n, chunk) \subseteq Nat /\ Acknowledged(n, chunk) # {}
      BY <2>3 DEF Acknowledged
    <3>3. gone \in 1..Len(pending) /\ SameContents(pending[gone].packet.payload, chunk.payload)
      <4>1. gone \in Acknowledged(n, chunk)
        BY <3>2, MinLeast
      <4>2. QED
        BY <4>1 DEF Acknowledged
    <3>4. pending_packets'[n] = left
          /\ \A m \in Node \ {n} : pending_packets'[m] = pending_packets[m]
      BY <1>2, <2>3
    <3> HIDE DEF gone, pending
    <3>5. /\ left \in Seq(Pending(C)) /\ Len(left) = Len(pending) - 1
          /\ \A j \in 1..Len(pending) - 1 :
               left[j] = IF j < gone THEN pending[j] ELSE pending[j + 1]
      BY <3>1, <3>3, RemoveAtProperties
    <3> HIDE DEF left
    <3>6. PendingChunks(n)' \subseteq PendingChunks(n)
      <4>1. /\ ToSet(left) = {left[j] : j \in 1..Len(left)}
            /\ ToSet(pending) = {pending[j] : j \in 1..Len(pending)}
        BY <3>1, <3>5, SequenceElements
      <4>2. \A j \in 1..Len(left) : \E i \in 1..Len(pending) : left[j] = pending[i]
        BY <3>1, <3>3, <3>5
      <4>3. PendingChunks(n)' = {entry.packet : entry \in ToSet(left)}
        BY <3>4 DEF PendingChunks
      <4>4. ToSet(left) \subseteq ToSet(pending)
        BY <4>1, <4>2
      <4>5. PendingChunks(n) = {entry.packet : entry \in ToSet(pending)}
        BY DEF PendingChunks, pending
      <4>6. QED
        BY <4>3, <4>4, <4>5
    <3>7. ASSUME NEW i \in 1..Len(pending)
          PROVE  \/ chunk.type = "DataAck" /\ SameContents(pending[i].packet.payload, chunk.payload)
                 \/ \E j \in 1..Len(left) : left[j].packet = pending[i].packet
      <4>1. CASE i = gone
        BY <1>6, <3>3, <4>1
      <4>2. CASE i < gone
        <5>1. i \in 1..Len(left) /\ left[i] = pending[i]
          BY <3>1, <3>3, <3>5, <4>2
        <5>2. QED
          BY <5>1
      <4>3. CASE i > gone
        <5>1. i - 1 \in 1..Len(left) /\ left[i - 1] = pending[i]
          BY <3>1, <3>3, <3>5, <4>3
        <5>2. QED
          BY <5>1
      <4>4. QED
        BY <3>1, <3>3, <4>1, <4>2, <4>3
    <3>8. QED
      BY <2>1, <3>4, <3>6, <3>7 DEF pending
  <2>4. QED
    BY <1>6, <2>2, <2>3 DEF HandleAck
<1>7. QED
  BY <1>4, <1>5, <1>6 DEF AckReceiveFromDownstream

LEMMA StackEndsElements ==
  ASSUME StackTypes, NEW n \in Node, StackEnds(n)
  PROVE  /\ n \in InDiscovery /\ comms_state'[n] = "CommsNone" /\ neighbor_node_ids'[n] = {}
         /\ UNCHANGED <<stable, lossless, frames_to_come, tunnel_in, tunnel_out, enabled, in_run>>
         /\ packets_to_send'[n] = <<>> /\ rx'[n] = <<>> /\ ack_queue'[n] = <<>>
         /\ pending_packets'[n] = <<>> /\ fragmented_packets'[n] = <<>>
         /\ downstream_buffer'[n] = <<>> /\ upstream_buffer'[n] = <<>>
         /\ \A m \in Node \ {n} :
              /\ packets_to_send'[m] = packets_to_send[m] /\ rx'[m] = rx[m]
              /\ ack_queue'[m] = ack_queue[m] /\ pending_packets'[m] = pending_packets[m]
              /\ fragmented_packets'[m] = fragmented_packets[m]
              /\ downstream_buffer'[m] = downstream_buffer[m]
              /\ upstream_buffer'[m] = upstream_buffer[m]
              /\ node_id'[m] = node_id[m] /\ comms_state'[m] = comms_state[m]
              /\ neighbor_node_ids'[m] = neighbor_node_ids[m]
<1>1. PICK C, M, R : C = ReadChunk /\ M = StackMail(ReadChunk) /\ R = ReadMessage
  OBVIOUS
<1>2. PICK Open, Entry : Open = {chunk \in C : ~chunk.final} /\ Entry = [packet : C, times_sent : Nat]
  OBVIOUS
<1>3. /\ packets_to_send \in [Node -> Seq(M)] /\ rx \in [Node -> Seq(M)]
      /\ ack_queue \in [Node -> Seq(C)] /\ pending_packets \in [Node -> Seq(Entry)]
      /\ fragmented_packets \in [Node -> Seq(Open)] /\ upstream_buffer \in [Node -> Seq(R)]
      /\ downstream_buffer \in [Node -> Seq(Seq(Byte))]
      /\ RadioTypes
  BY <1>1, <1>2, QueueSequences, LayerSequences DEF StackTypes, BufferInv, BufferTypes, Typed
<1>4. QED
  BY <1>3 DEF StackEnds, Abort, Exit, RadioTypes

\* The queue of AckLayer and what is pending hold data, and no acknowledgements.
OwnChunks(n) == ToSet(ack_queue[n]) \cup PendingChunks(n)

QueuedData == \A n \in Node : \A chunk \in OwnChunks(n) : chunk.type = "Data"

LEMMA OwnParts ==
  ASSUME NEW n
  PROVE  OwnBytes(n) = Bytes(downstream_buffer[n]) \cup Content(OwnChunks(n)) \cup Leaving(n)
BY DEF OwnBytes, OwnChunks, Content

LEMMA QueuedDataKept ==
  ASSUME QueuedData,
         \A m \in Node : \A chunk \in OwnChunks(m)' : chunk \in OwnChunks(m) \/ chunk.type = "Data"
  PROVE  QueuedData'
BY DEF QueuedData

LEMMA SendsDownMoves ==
  ASSUME NEW n \in Node, NEW chunks, SendsDown(n, chunks),
         \A chunk \in chunks :
           \/ chunk.type = "Data" /\ Its(chunk.payload) \subseteq OwnBytes(n)
           \/ /\ chunk.type = "DataAck" /\ Its(chunk.payload) \subseteq Kept(n)'
              /\ \E got \in DataIn(rx[n]) : chunk.payload = got.payload
  PROVE  \A m \in Node : \A packet \in ToSet(packets_to_send'[m]) :
           packet \in ToSet(packets_to_send[m]) \/ New(m, packet)
<1>1. \A chunk \in chunks : CarriesData(chunk)
  BY DEF CarriesData
<1>2. \A packet \in ToSet(packets_to_send'[n]) :
        \/ packet \in ToSet(packets_to_send[n])
        \/ /\ neighbor_node_ids[n] # {} /\ packet.to = first_neighbor[n]
           /\ \E chunk \in chunks : packet.type = chunk.type /\ packet.payload = chunk.payload
  BY <1>1, SendsDownElements
<1>3. ASSUME NEW packet \in ToSet(packets_to_send'[n]), packet \notin ToSet(packets_to_send[n])
      PROVE  New(n, packet)
  <2>1. PICK chunk \in chunks :
          /\ neighbor_node_ids[n] # {} /\ packet.to = first_neighbor[n]
          /\ packet.type = chunk.type /\ packet.payload = chunk.payload
    BY <1>2, <1>3
  <2>2. CASE chunk.type = "Data" /\ Its(chunk.payload) \subseteq OwnBytes(n)
    BY <2>1, <2>2 DEF New
  <2>3. CASE /\ chunk.type = "DataAck" /\ Its(chunk.payload) \subseteq Kept(n)'
             /\ \E got \in DataIn(rx[n]) : chunk.payload = got.payload
    <3>1. /\ packet.type = "DataAck" /\ Its(packet.payload) \subseteq Kept(n)'
          /\ \E got \in DataIn(rx[n]) : packet.payload = got.payload
      BY <2>1, <2>3
    <3>2. QED
      BY <3>1 DEF New
  <2>4. QED
    BY <2>2, <2>3
<1>4. \A m \in Node \ {n} : packets_to_send'[m] = packets_to_send[m]
  BY DEF SendsDown
<1>5. QED
  BY <1>3, <1>4

LEMMA DiscoveryMoves ==
  ASSUME StackTypes, QueuedData, NEW n \in Node, RadioRun(n) \/ RadioLearns(n) \/ StartStack(n)
  PROVE  Moves /\ QueuedData'
<1>1. /\ UNCHANGED layerVars
      /\ \A m \in Node : \A packet \in ToSet(packets_to_send'[m]) :
           packet \in ToSet(packets_to_send[m]) \/ New(m, packet)
      /\ \A m \in Node : /\ DataIn(packets_to_send'[m]) = DataIn(packets_to_send[m])
                         /\ ToSet(rx'[m]) \subseteq ToSet(rx[m])
  BY DiscoverySteps
<1>2. \A m \in Node : OwnBytes(m)' = OwnBytes(m) /\ OwnChunks(m)' = OwnChunks(m)
  BY <1>1 DEF OwnBytes, OwnChunks, PendingChunks, Leaving, layerVars, ackVars, tunnelVars
<1>3. QED
  BY <1>1, <1>2, QueuedDataKept DEF Moves

LEMMA PassesMoves ==
  ASSUME QueuedData, Passes \/ UNCHANGED stackVars
  PROVE  Moves /\ QueuedData'
<1>1. UNCHANGED <<layerVars, packets_to_send, rx>>
  BY DEF Passes, Tick, Stabilise, stackVars, vars
<1>2. \A m \in Node : OwnBytes(m)' = OwnBytes(m) /\ OwnChunks(m)' = OwnChunks(m)
  BY <1>1 DEF OwnBytes, OwnChunks, PendingChunks, Leaving, layerVars, ackVars, tunnelVars
<1>3. QED
  BY <1>1, <1>2, QueuedDataKept DEF Moves

LEMMA TunnelThreadMoves ==
  ASSUME StackTypes, QueuedData, NEW n \in Node, TunnelThread(n)
  PROVE  Moves /\ QueuedData'
<1>1. /\ UNCHANGED <<vars, ackVars>>
      /\ \A byte \in Bytes(downstream_buffer'[n]) :
           byte \in Bytes(downstream_buffer[n]) \/ byte[1] = n
      /\ \A m \in Node \ {n} : downstream_buffer'[m] = downstream_buffer[m]
  BY TunnelThreadElements
<1>2. UNCHANGED <<packets_to_send, rx, ack_queue, pending_packets>>
  BY <1>1 DEF vars, ackVars
<1>3. \A m \in Node : Leaving(m)' = Leaving(m) /\ OwnChunks(m)' = OwnChunks(m)
  BY <1>2 DEF OwnChunks, PendingChunks, Leaving
<1>4. \A m \in Node : \A byte \in OwnBytes(m)' : byte \in OwnBytes(m) \/ byte[1] = m
  <2>1. \A m \in Node : OwnBytes(m)' =
          Bytes(downstream_buffer'[m]) \cup Content(OwnChunks(m)) \cup Leaving(m)
    BY <1>2, <1>3 DEF OwnBytes, OwnChunks, PendingChunks, Content
  <2>2. QED
    BY <1>1, <2>1, OwnParts
<1>5. QED
  BY <1>2, <1>3, <1>4, QueuedDataKept DEF Moves

LEMMA StackEndsMoves ==
  ASSUME StackTypes, QueuedData, NEW n \in Node, StackEnds(n)
  PROVE  Moves /\ QueuedData'
<1>1. \A m \in Node \ {n} :
        /\ packets_to_send'[m] = packets_to_send[m] /\ rx'[m] = rx[m]
        /\ OwnBytes(m)' = OwnBytes(m) /\ OwnChunks(m)' = OwnChunks(m)
  BY StackEndsElements DEF OwnBytes, OwnChunks, PendingChunks, Leaving
<1>2. /\ ToSet(packets_to_send'[n]) = {} /\ ToSet(rx'[n]) = {} /\ ToSet(ack_queue'[n]) = {}
      /\ ToSet(pending_packets'[n]) = {} /\ Bytes(downstream_buffer'[n]) = {}
  BY StackEndsElements, NoElements
<1>3. OwnChunks(n)' = {} /\ PendingChunks(n)' = {} /\ Leaving(n)' = {}
  BY <1>2 DEF OwnChunks, PendingChunks, Leaving, DataIn, Content
<1>4. OwnBytes(n)' = {}
  BY <1>2, <1>3 DEF OwnBytes, Content
<1>5. /\ \A m \in Node : \A packet \in ToSet(packets_to_send'[m]) : packet \in ToSet(packets_to_send[m])
      /\ \A m \in Node : \A packet \in ToSet(rx'[m]) : packet \in ToSet(rx[m])
      /\ \A m \in Node : \A byte \in OwnBytes(m)' : byte \in OwnBytes(m)
      /\ \A m \in Node : \A chunk \in OwnChunks(m)' : chunk \in OwnChunks(m)
  BY <1>1, <1>2, <1>3, <1>4
<1>6. QED
  BY <1>5, QueuedDataKept DEF Moves

LEMMA RadioSendsMoves ==
  ASSUME StackTypes, QueuedData, NEW n \in Node, RadioSends(n)
  PROVE  Moves /\ QueuedData'
<1>1. /\ UNCHANGED layerVars
      /\ \A m \in Node : /\ ToSet(packets_to_send'[m]) \subseteq ToSet(packets_to_send[m])
                         /\ \A packet \in ToSet(rx'[m]) \ ToSet(rx[m]) :
                              packet \in ToSet(packets_to_send[n]) /\ HasAddress(m, packet.to)
      /\ rx'[n] = rx[n]
  BY RadioSendsElements
<1>2. UNCHANGED <<ack_queue, pending_packets, downstream_buffer>>
  BY <1>1 DEF layerVars, ackVars, tunnelVars
<1>3. \A m \in Node : OwnBytes(m)' \subseteq OwnBytes(m) /\ OwnChunks(m)' = OwnChunks(m)
  <2>1. \A m \in Node : Leaving(m)' \subseteq Leaving(m)
    BY <1>1 DEF Leaving, DataIn, Content
  <2>2. \A m \in Node : OwnChunks(m)' = OwnChunks(m)
    BY <1>2 DEF OwnChunks, PendingChunks
  <2>3. \A m \in Node : OwnBytes(m)' =
          Bytes(downstream_buffer[m]) \cup Content(OwnChunks(m)) \cup Leaving(m)'
    BY <1>2 DEF OwnBytes, OwnChunks, PendingChunks, Content
  <2>4. QED
    BY <2>1, <2>2, <2>3, OwnParts
<1>4. ASSUME NEW m \in Node, NEW packet \in ToSet(rx'[m])
      PROVE  \/ packet \in ToSet(rx[m])
             \/ HasAddress(m, packet.to) /\ \E other \in Node \ {m} : packet \in ToSet(packets_to_send[other])
  BY <1>1
<1>5. QED
  BY <1>1, <1>3, <1>4, QueuedDataKept DEF Moves

LEMMA TunnelRunMoves ==
  ASSUME StackTypes, QueuedData, NEW n \in Node, TunnelRun(n)
  PROVE  Moves /\ QueuedData'
<1>1. ASSUME BeginRun(n),
             UNCHANGED <<idVars, radio_state, discoveryVars, rx, stable, restVars,
                         enabled, pending_packets, fragmented_packets>>
      PROVE  Moves /\ QueuedData'
  <2>1. PICK chunks \in SUBSET ReadChunk :
          /\ \A chunk \in chunks : chunk.type = "Data"
          /\ Content(chunks) \subseteq Bytes(downstream_buffer[n])
          /\ \A m \in Node \ {n} : ack_queue'[m] = ack_queue[m]
          /\ \/ /\ packets_to_send' = packets_to_send
                /\ ToSet(ack_queue'[n]) = ToSet(ack_queue[n]) \cup chunks
             \/ SendsDown(n, chunks) /\ ack_queue' = ack_queue
    BY <1>1, BeginRunElements
  <2>2. downstream_buffer' = downstream_buffer /\ UNCHANGED <<rx, pending_packets>>
    BY <1>1 DEF BeginRun
  <2>3. \A m \in Node : PendingChunks(m)' = PendingChunks(m)
    BY <2>2 DEF PendingChunks
  <2>4. \A m \in Node : \A chunk \in OwnChunks(m)' :
          chunk \in OwnChunks(m) \/ (m = n /\ chunk \in chunks)
    BY <2>1, <2>3 DEF OwnChunks
  <2>5. \A chunk \in chunks : CarriesData(chunk) /\ Its(chunk.payload) \subseteq OwnBytes(n)
    BY <2>1 DEF CarriesData, OwnBytes, Content
  <2>6. \A m \in Node : Leaving(m)' \subseteq Leaving(m) \cup IF m = n THEN Content(chunks) ELSE {}
    <3>1. CASE packets_to_send' = packets_to_send
      BY <3>1 DEF Leaving
    <3>2. CASE SendsDown(n, chunks)
      <4>1. {chunk \in chunks : chunk.type = "Data"} = chunks
        BY <2>1
      <4>2. QED
        BY <2>5, <3>2, <4>1, SendsDownElements
    <3>3. QED
      BY <2>1, <3>1, <3>2
  <2>7. \A m \in Node : \A packet \in ToSet(packets_to_send'[m]) :
          packet \in ToSet(packets_to_send[m]) \/ New(m, packet)
    <3>1. CASE packets_to_send' = packets_to_send
      BY <3>1
    <3>2. CASE SendsDown(n, chunks)
      BY <2>1, <2>5, <3>2, SendsDownMoves
    <3>3. QED
      BY <2>1, <3>1, <3>2
  <2>8. ASSUME NEW m \in Node PROVE OwnBytes(m)' \subseteq OwnBytes(m)
    <3>1. OwnBytes(m)' =
            Bytes(downstream_buffer[m]) \cup Content(OwnChunks(m)') \cup Leaving(m)'
      BY <2>2 DEF OwnBytes, OwnChunks, PendingChunks, Content
    <3>2. Content(OwnChunks(m)') \subseteq
            Content(OwnChunks(m)) \cup IF m = n THEN Content(chunks) ELSE {}
      <4>1. PICK own, ownNext : own = OwnChunks(m) /\ ownNext = OwnChunks(m)'
        OBVIOUS
      <4>2. ownNext \subseteq own \cup IF m = n THEN chunks ELSE {}
        BY <2>4, <4>1
      <4>3. Content(ownNext) \subseteq Content(own) \cup IF m = n THEN Content(chunks) ELSE {}
        BY <4>2 DEF Content
      <4>4. QED
        BY <4>1, <4>3
    <3>3. QED
      BY <2>1, <2>6, <3>1, <3>2, OwnParts
  <2>9. QED
    BY <2>1, <2>2, <2>4, <2>7, <2>8, QueuedDataKept DEF Moves
<1>2. ASSUME EndRun(n), UNCHANGED <<vars, restVars, ackVars, fragmented_packets>>
      PROVE  Moves /\ QueuedData'
  <2>1. /\ Bytes(downstream_buffer'[n]) \subseteq Bytes(downstream_buffer[n])
        /\ \A m \in Node \ {n} : downstream_buffer'[m] = downstream_buffer[m]
    BY <1>2, EndRunElements
  <2>2. UNCHANGED <<packets_to_send, rx, ack_queue, pending_packets>>
    BY <1>2 DEF vars, ackVars
  <2>3. \A m \in Node : OwnChunks(m)' = OwnChunks(m) /\ Leaving(m)' = Leaving(m)
    BY <2>2 DEF OwnChunks, PendingChunks, Leaving
  <2>4. \A m \in Node : OwnBytes(m)' \subseteq OwnBytes(m)
    <3>1. \A m \in Node : OwnBytes(m)' =
            Bytes(downstream_buffer'[m]) \cup Content(OwnChunks(m)) \cup Leaving(m)
      BY <2>2, <2>3 DEF OwnBytes, OwnChunks, PendingChunks, Content
    <3>2. QED
      BY <2>1, <3>1, OwnParts
  <2>5. QED
    BY <2>2, <2>3, <2>4, QueuedDataKept DEF Moves
<1>3. QED
  BY <1>1, <1>2 DEF TunnelRun

LEMMA LayerRunMoves ==
  ASSUME StackTypes, QueuedData, NEW n \in Node, LayerRun(n)
  PROVE  Moves /\ QueuedData'
<1>1. UNCHANGED <<rx, downstream_buffer>>
  BY DEF LayerRun, tunnelVars
<1>2. /\ \A m \in Node : OwnChunks(m)' \subseteq OwnChunks(m)
      /\ \E chunks \in SUBSET OwnChunks(n) : SendsDown(n, chunks)
  <2>1. /\ ToSet(ack_queue'[n]) \subseteq ToSet(ack_queue[n])
        /\ PendingChunks(n)' \subseteq OwnChunks(n)
        /\ \A m \in Node \ {n} : /\ ack_queue'[m] = ack_queue[m]
                                 /\ pending_packets'[m] = pending_packets[m]
        /\ \E chunks \in SUBSET OwnChunks(n) : SendsDown(n, chunks)
    BY LayerRunElements DEF OwnChunks
  <2>2. \A m \in Node \ {n} : OwnChunks(m)' = OwnChunks(m)
    BY <2>1 DEF OwnChunks, PendingChunks
  <2>3. OwnChunks(n)' \subseteq OwnChunks(n)
    BY <2>1 DEF OwnChunks
  <2>4. QED
    BY <2>1, <2>2, <2>3
<1>3. PICK chunks \in SUBSET OwnChunks(n) : SendsDown(n, chunks)
  BY <1>2
<1>4. \A chunk \in chunks : /\ chunk.type = "Data" /\ CarriesData(chunk)
                            /\ Its(chunk.payload) \subseteq OwnBytes(n)
  <2>1. Content(OwnChunks(n)) \subseteq OwnBytes(n)
    BY OwnParts
  <2>2. QED
    BY <2>1 DEF QueuedData, CarriesData, Content
<1>5. \A m \in Node : Leaving(m)' \subseteq OwnBytes(m)
  <2>1. {chunk \in chunks : chunk.type = "Data"} = chunks
    BY <1>4
  <2>2. Leaving(n)' \subseteq Leaving(n) \cup Content(chunks)
        /\ \A m \in Node \ {n} : Leaving(m)' = Leaving(m)
    BY <1>3, <1>4, <2>1, SendsDownElements
  <2>3. Content(chunks) \subseteq OwnBytes(n)
    BY <1>4 DEF Content
  <2>4. QED
    BY <2>2, <2>3, OwnParts
<1>6. \A m \in Node : OwnBytes(m)' \subseteq OwnBytes(m)
  <2>1. \A m \in Node : OwnBytes(m)' =
          Bytes(downstream_buffer[m]) \cup Content(OwnChunks(m)') \cup Leaving(m)'
    BY <1>1 DEF OwnBytes, OwnChunks, PendingChunks, Content
  <2>2. \A m \in Node : Content(OwnChunks(m)') \subseteq Content(OwnChunks(m))
    BY <1>2 DEF Content
  <2>3. QED
    BY <1>5, <2>1, <2>2, OwnParts
<1>7. QED
  BY <1>1, <1>2, <1>3, <1>4, <1>6, SendsDownMoves, QueuedDataKept DEF Moves

LEMMA HandsUpMoves ==
  ASSUME StackTypes, QueuedData, NEW n \in Node, RadioHandsUp(n)
  PROVE  Moves /\ QueuedData'
<1> DEFINE packet == Head(rx[n])
           chunk == Unaddressed(packet)
<1>1. /\ packet \in StackMail(ReadChunk) /\ CarriesData(packet)
      /\ ToSet(rx[n]) = ToSet(rx'[n]) \cup {packet}
      /\ UNCHANGED <<ack_queue, downstream_buffer>>
      /\ \A m \in Node \ {n} : rx'[m] = rx[m]
      /\ packet.type = "Data" => Its(packet.payload) \subseteq Kept(n)'
      /\ AckReceiveFromDownstream(n, chunk)
  BY HandsUpElements
<1>2. chunk \in ReadChunk /\ chunk.type = packet.type /\ chunk.payload = packet.payload
  BY <1>1, DataRead DEF Unaddressed
<1> HIDE DEF packet, chunk
<1>3. /\ \/ SendsDown(n, {})
         \/ \E ack : /\ chunk.type = "Data" /\ ack.type = "DataAck"
                     /\ ack.payload = chunk.payload /\ SendsDown(n, {ack})
      /\ PendingChunks(n)' \subseteq PendingChunks(n)
      /\ \A m \in Node \ {n} : pending_packets'[m] = pending_packets[m]
  BY <1>1, <1>2, AckElements
<1>4. /\ \A m \in Node : \A other \in ToSet(packets_to_send'[m]) :
           other \in ToSet(packets_to_send[m]) \/ New(m, other)
      /\ \A m \in Node : Leaving(m)' \subseteq Leaving(m)
  <2>1. CASE SendsDown(n, {})
    <3>1. \A m \in Node : \A other \in ToSet(packets_to_send'[m]) :
            other \in ToSet(packets_to_send[m]) \/ New(m, other)
      BY <2>1, SendsDownMoves
    <3>2. Leaving(n)' \subseteq Leaving(n) \cup Content({other \in {} : other.type = "Data"})
          /\ \A m \in Node \ {n} : Leaving(m)' = Leaving(m)
      BY <2>1, SendsDownElements
    <3>3. Content({other \in {} : other.type = "Data"}) = {}
      BY DEF Content
    <3>4. QED
      BY <3>1, <3>2, <3>3
  <2>2. ASSUME NEW ack, chunk.type = "Data", ack.type = "DataAck",
               ack.payload = chunk.payload, SendsDown(n, {ack})
        PROVE  /\ \A m \in Node : \A other \in ToSet(packets_to_send'[m]) :
                    other \in ToSet(packets_to_send[m]) \/ New(m, other)
               /\ \A m \in Node : Leaving(m)' \subseteq Leaving(m)
    <3>1. packet \in DataIn(rx[n])
      BY <1>1, <1>2, <2>2 DEF DataIn
    <3>2. \A other \in {ack} :
            /\ CarriesData(other)
            /\ other.type = "DataAck" /\ Its(other.payload) \subseteq Kept(n)'
            /\ \E got \in DataIn(rx[n]) : other.payload = got.payload
      BY <1>1, <1>2, <2>2, <3>1 DEF CarriesData
    <3>3. \A m \in Node : \A other \in ToSet(packets_to_send'[m]) :
            other \in ToSet(packets_to_send[m]) \/ New(m, other)
      BY <2>2, <3>2, SendsDownMoves
    <3>4. Leaving(n)' \subseteq Leaving(n) \cup Content({other \in {ack} : other.type = "Data"})
          /\ \A m \in Node \ {n} : Leaving(m)' = Leaving(m)
      BY <2>2, <3>2, SendsDownElements
    <3>5. {other \in {ack} : other.type = "Data"} = {}
      BY <2>2
    <3>6. Content({}) = {}
      BY DEF Content
    <3>7. QED
      BY <3>3, <3>4, <3>5, <3>6
  <2>3. QED
    BY <1>3, <2>1, <2>2
<1>5. \A m \in Node : OwnChunks(m)' \subseteq OwnChunks(m)
  BY <1>1, <1>3 DEF OwnChunks, PendingChunks
<1>6. \A m \in Node : OwnBytes(m)' \subseteq OwnBytes(m)
  <2>1. \A m \in Node : OwnBytes(m)' =
          Bytes(downstream_buffer[m]) \cup Content(OwnChunks(m)') \cup Leaving(m)'
    BY <1>1 DEF OwnBytes, OwnChunks, PendingChunks, Content
  <2>2. \A m \in Node : Content(OwnChunks(m)') \subseteq Content(OwnChunks(m))
    BY <1>5 DEF Content
  <2>3. QED
    BY <1>4, <2>1, <2>2, OwnParts
<1>7. \A m \in Node : ToSet(rx'[m]) \subseteq ToSet(rx[m])
  BY <1>1
<1>8. QED
  BY <1>4, <1>5, <1>6, <1>7, QueuedDataKept DEF Moves

\* Every step of the program moves packets and bytes in these ways only.
LEMMA StackMoves ==
  ASSUME StackTypes, QueuedData, [StackNext]_stackVars
  PROVE  Moves /\ QueuedData'
<1>1. CASE UNCHANGED stackVars \/ Passes
  BY <1>1, PassesMoves
<1>2. ASSUME NEW n \in Node,
             \/ TunnelRun(n) \/ LayerRun(n)
             \/ RadioSends(n) \/ RadioRun(n) \/ RadioLearns(n) \/ RadioHandsUp(n)
             \/ TunnelThread(n) \/ StartStack(n) \/ StackEnds(n)
      PROVE  Moves /\ QueuedData'
  BY <1>2, TunnelRunMoves, LayerRunMoves, RadioSendsMoves, DiscoveryMoves, HandsUpMoves,
     TunnelThreadMoves, StackEndsMoves
<1>3. QED
  BY <1>1, <1>2 DEF StackNext

-----------------------------------------------------------------------------
(* What the nodes know                                                      *)

TakenId == 0..min_discovery_node_id - 1

\* How a step changes the ids and what is known of them: who runs goes on with
\* its id, and a neighbor is one that was announced or told of in a response,
\* or what memory held behind a response without room for all neighbors.
IdsMove ==
  /\ \A n \in Running : /\ n \in Running' /\ node_id'[n] = node_id[n]
                        /\ neighbor_node_ids[n] \subseteq neighbor_node_ids'[n]
  /\ \A n \in Running' : n \in Running \/ node_id'[n] \in TakenId
  /\ \A n \in InDiscovery' :
       (n \in InDiscovery /\ node_id'[n] = node_id[n]) \/ node_id'[n] \in DiscoveryId
  /\ \A n \in Node : comms_state'[n] = "CommsNone" =>
       comms_state[n] = "CommsNone" \/ ToSet(rx'[n]) = {}
  /\ \A n \in Node : \A id \in neighbor_node_ids'[n] :
       \/ id \in neighbor_node_ids[n]
       \/ \E packet \in ToSet(rx[n]) :
            \/ packet.type = "NodeIdAnnouncement" /\ id = packet.source /\ id # node_id[n]
            \/ /\ packet.type = "DiscoverResponse"
               /\ \/ id \in {packet.source} \cup packet.neighbors
                  \/ ~(packet.num <= kNeighborsInPacket)
  /\ stable => stable'

LEMMA IdsStay ==
  ASSUME UNCHANGED idVars, stable => stable' PROVE IdsMove
BY DEF IdsMove, idVars, Running, InDiscovery

LEMMA SettleMoves ==
  ASSUME RadioTypes, NEW n \in InDiscovery, NEW id \in TakenId, Settle(n, id), stable' = stable
  PROVE  IdsMove
<1>1. /\ n \in Node /\ comms_state[n] = "Discovery"
      /\ node_id'[n] = id /\ comms_state'[n] = "Running"
      /\ \A m \in Node \ {n} : node_id'[m] = node_id[m] /\ comms_state'[m] = comms_state[m]
      /\ neighbor_node_ids' = neighbor_node_ids
  BY DEF Settle, RadioTypes, InDiscovery
<1>2. QED
  BY <1>1 DEF IdsMove, Running, InDiscovery

LEMMA LearnsMoves ==
  ASSUME StackTypes, NEW n \in Node, Receive(n)
  PROVE  IdsMove
<1>1. PICK M : M = StackMail(ReadChunk)
  OBVIOUS
<1>2. RadioTypes /\ QueueTypes(M)
  BY <1>1 DEF StackTypes, Typed, Hold
<1> DEFINE packet == Head(rx[n])
<1>3. packet \in ToSet(rx[n])
  BY <1>2, ReceiveElements
<1>4. UNCHANGED <<node_id, comms_state, stable>>
  BY DEF Receive
<1>5. \/ neighbor_node_ids' = neighbor_node_ids
      \/ HandleDiscoveryAckPacket(n, packet)
      \/ HandleNodeIdAnnouncementPacket(n, packet)
  BY DEF Receive, HandleDiscoveryPacket
<1>6. Running' = Running /\ InDiscovery' = InDiscovery
  BY <1>4 DEF Running, InDiscovery
<1> HIDE DEF packet
<1> DEFINE Told ==
             \A m \in Node :
               /\ neighbor_node_ids[m] \subseteq neighbor_node_ids'[m]
               /\ \A id \in neighbor_node_ids'[m] :
                    \/ id \in neighbor_node_ids[m]
                    \/ \E told \in ToSet(rx[m]) :
                         \/ told.type = "NodeIdAnnouncement" /\ id = told.source /\ id # node_id[m]
                         \/ /\ told.type = "DiscoverResponse"
                            /\ \/ id \in {told.source} \cup told.neighbors
                               \/ ~(told.num <= kNeighborsInPacket)
<1>7. CASE neighbor_node_ids' = neighbor_node_ids
  BY <1>4, <1>7, IdsStay DEF idVars
<1>8. Running \subseteq Node
  BY DEF Running
<1>9. Told => IdsMove
  BY <1>4, <1>6, <1>8 DEF IdsMove
<1>10. CASE HandleDiscoveryAckPacket(n, packet)
  <2>1. PICK garbage \in SUBSET NodeId :
          /\ packet.num <= kNeighborsInPacket => garbage = {}
          /\ neighbor_node_ids' = [neighbor_node_ids EXCEPT
               ![n] = @ \cup {packet.source} \cup packet.neighbors \cup garbage]
          /\ packet.type = "DiscoverResponse"
    BY <1>10 DEF HandleDiscoveryAckPacket
  <2>2. /\ neighbor_node_ids'[n] =
             neighbor_node_ids[n] \cup {packet.source} \cup packet.neighbors \cup garbage
        /\ \A m \in Node \ {n} : neighbor_node_ids'[m] = neighbor_node_ids[m]
    BY <1>2, <2>1 DEF RadioTypes
  <2>3. Told
    BY <1>3, <2>1, <2>2
  <2>4. QED
    BY <1>9, <2>3
<1>11. CASE HandleNodeIdAnnouncementPacket(n, packet)
  <2>1. /\ neighbor_node_ids'[n] = neighbor_node_ids[n] \cup ({packet.source} \ {node_id[n]})
        /\ packet.type = "NodeIdAnnouncement"
        /\ \A m \in Node \ {n} : neighbor_node_ids'[m] = neighbor_node_ids[m]
    BY <1>2, <1>11 DEF HandleNodeIdAnnouncementPacket, Announced, RadioTypes
  <2>2. Told
    BY <1>3, <2>1
  <2>3. QED
    BY <1>9, <2>2
<1>12. QED
  BY <1>5, <1>7, <1>10, <1>11

LEMMA StackIdsMove ==
  ASSUME StackTypes, [StackNext]_stackVars
  PROVE  IdsMove
<1>1. RadioTypes
  BY DEF StackTypes, Typed
<1>2. CASE UNCHANGED stackVars \/ Passes
  BY <1>2, IdsStay DEF Passes, Tick, Stabilise, stackVars, vars
<1>3. ASSUME NEW n \in Node,
             TunnelRun(n) \/ LayerRun(n) \/ RadioSends(n) \/ RadioHandsUp(n) \/ TunnelThread(n)
      PROVE  IdsMove
  <2>1. UNCHANGED idVars /\ UNCHANGED stable
    BY <1>3 DEF TunnelRun, LayerRun, RadioSends, Send, RadioHandsUp, HandUp, TunnelThread, vars
  <2>2. QED
    BY <2>1, IdsStay
<1>4. ASSUME NEW n \in Node, RadioLearns(n) PROVE IdsMove
  BY <1>4, LearnsMoves DEF RadioLearns
<1>5. ASSUME NEW n \in Node, StartStack(n) PROVE IdsMove
  <2>1. /\ comms_state[n] = "CommsNone" /\ comms_state'[n] = "Discovery"
        /\ node_id'[n] \in DiscoveryId /\ UNCHANGED <<neighbor_node_ids, stable>>
        /\ \A m \in Node \ {n} : node_id'[m] = node_id[m] /\ comms_state'[m] = comms_state[m]
    BY <1>1, <1>5 DEF StartStack, Start, RadioTypes
  <2>2. QED
    BY <2>1 DEF IdsMove, Running, InDiscovery
<1>6. ASSUME NEW n \in Node, StackEnds(n) PROVE IdsMove
  <2>1. /\ comms_state[n] = "Discovery" /\ comms_state'[n] = "CommsNone"
        /\ neighbor_node_ids'[n] = {} /\ stable' = stable /\ rx'[n] = <<>>
        /\ \A m \in Node \ {n} : /\ node_id'[m] = node_id[m] /\ comms_state'[m] = comms_state[m]
                                 /\ neighbor_node_ids'[m] = neighbor_node_ids[m]
    BY <1>6, StackEndsElements DEF InDiscovery
  <2>2. ToSet(rx'[n]) = {}
    BY <2>1, NoElements
  <2>3. QED
    BY <2>1, <2>2 DEF IdsMove, Running, InDiscovery
<1>7. ASSUME NEW n \in Node, RadioRun(n) PROVE IdsMove
  <2>1. CASE EndTurn(n) \/ SendDiscovery(n)
    BY <2>1, IdsStay DEF EndTurn, SendDiscovery
  <2>2. CASE SettleAlone(n)
    <3>1. Settle(n, 0) /\ n \in InDiscovery /\ stable' = stable /\ 0 \in TakenId
      BY <2>2, MeshAssumption DEF SettleAlone, TakenId
    <3>2. QED
      BY <1>1, <3>1, SettleMoves
  <2>3. CASE SettleAmongNeighbors(n)
    <3>1. PICK id \in TakenId : Settle(n, id) /\ n \in InDiscovery /\ stable' = stable
      BY <2>3, FreeIdTaken DEF SettleAmongNeighbors, TakenId, FreeIds
    <3>2. QED
      BY <1>1, <3>1, SettleMoves
  <2>4. CASE Abort(n) /\ Alive(n)'
    BY <1>1, <2>4 DEF Abort, Exit, Alive, RadioTypes
  <2>5. QED
    BY <1>7, <2>1, <2>2, <2>3, <2>4 DEF RadioRun, Timer
<1>8. QED
  BY <1>2, <1>3, <1>4, <1>5, <1>6, <1>7 DEF StackNext

RunningIds == {node_id[n] : n \in Running}

\* What a packet of the discovery tells or asks for is so.
Truthful(packet) ==
  /\ packet.type = "Discovery" => packet.source \in DiscoveryId
  /\ packet.type = "NodeIdAnnouncement" => packet.source \in RunningIds
  /\ packet.type = "DiscoverResponse" => packet.to \in DiscoveryId

RadioInv ==
  /\ \A n \in InDiscovery : node_id[n] \in DiscoveryId
  /\ \A n \in Running : node_id[n] \in TakenId
  /\ \A n \in Node : comms_state[n] = "CommsNone" => ToSet(rx[n]) = {}
  /\ \A n \in Node : \A packet \in Packets(n) : Truthful(packet)

LEMMA RunningIdsGrow ==
  ASSUME IdsMove PROVE RunningIds \subseteq RunningIds'
BY DEF IdsMove, RunningIds

LEMMA RadioInvInit ==
  ASSUME StackInit PROVE RadioInv
<1>1. /\ \A n \in Node : packets_to_send[n] = <<>> /\ rx[n] = <<>>
      /\ \E s \in Scenarios : RadioInitially(s)
  BY DEF StackInit
<1>2. PICK s \in Scenarios : RadioInitially(s)
  BY <1>1
<1>3. \A n \in Node : Packets(n) = {} /\ ToSet(rx[n]) = {}
  BY <1>1, NoElements DEF Packets
<1>4. /\ node_id = [n \in Node |-> IF n \in DOMAIN s.settled THEN s.settled[n] ELSE 0]
      /\ \A n \in Node : comms_state[n] = IF n \in DOMAIN s.settled THEN "Running" ELSE "CommsNone"
  BY <1>2 DEF RadioInitially
<1>5. InDiscovery = {} /\ Running = Node \cap DOMAIN s.settled
  BY <1>4 DEF InDiscovery, Running
<1>6. Range(s.settled) \subseteq TakenId
  BY StackAssumption DEF TakenId
<1>7. \A n \in Running : node_id[n] \in TakenId
  BY <1>4, <1>5, <1>6 DEF Range
<1>8. QED
  BY <1>3, <1>5, <1>7 DEF RadioInv

LEMMA RadioInvStep ==
  ASSUME StackTypes, RadioInv, Moves, IdsMove PROVE RadioInv'
<1>1. RunningIds \subseteq RunningIds'
  BY RunningIdsGrow
<1>2. \A packet : Truthful(packet) => Truthful(packet)'
  BY <1>1 DEF Truthful
<1>3. /\ \A n \in InDiscovery' : node_id'[n] \in DiscoveryId
      /\ \A n \in Running' : node_id'[n] \in TakenId
  BY DEF RadioInv, IdsMove
<1>4. ASSUME NEW n \in Node, comms_state'[n] = "CommsNone" PROVE ToSet(rx'[n]) = {}
  <2>1. CASE ToSet(rx'[n]) = {}
    BY <2>1
  <2>2. CASE comms_state[n] = "CommsNone"
    <3>1. ToSet(rx[n]) = {} /\ \A to : ~HasAddress(n, to)
      BY <2>2 DEF RadioInv, HasAddress
    <3>2. QED
      BY <3>1 DEF Moves
  <2>3. QED
    BY <1>4, <2>1, <2>2 DEF IdsMove
<1>5. ASSUME NEW n \in Node, NEW packet, New(n, packet) PROVE Truthful(packet)'
  <2>1. CASE packet.type = "Discovery"
    BY <1>5, <2>1 DEF New, Truthful, RadioInv
  <2>2. CASE packet.type = "NodeIdAnnouncement"
    BY <1>5, <2>2 DEF New, Truthful, RunningIds
  <2>3. CASE packet.type = "DiscoverResponse"
    <3>1. PICK asked \in ToSet(rx[n]) : asked.type = "Discovery" /\ packet.to = asked.source
      BY <1>5, <2>3 DEF New
    <3>2. Truthful(asked)
      BY DEF RadioInv, Packets
    <3>3. QED
      BY <2>3, <3>1, <3>2 DEF Truthful
  <2>4. QED
    BY <2>1, <2>2, <2>3 DEF Truthful
<1>6. ASSUME NEW n \in Node, NEW packet \in ToSet(packets_to_send'[n]) PROVE Truthful(packet)'
  <2>1. packet \in ToSet(packets_to_send[n]) => Truthful(packet)
    BY DEF RadioInv, Packets
  <2>2. QED
    BY <1>2, <1>5, <2>1 DEF Moves
<1>7. ASSUME NEW n \in Node, NEW packet \in ToSet(rx'[n]) PROVE Truthful(packet)'
  <2>1. PICK m \in Node : packet \in ToSet(rx[m]) \/ packet \in ToSet(packets_to_send[m])
    BY <1>7 DEF Moves
  <2>2. Truthful(packet)
    BY <2>1 DEF RadioInv, Packets
  <2>3. QED
    BY <1>2, <2>2
<1>8. \A n \in Node : \A packet \in Packets(n)' : Truthful(packet)'
  BY <1>6, <1>7 DEF Packets
<1>9. QED
  BY <1>3, <1>4, <1>8 DEF RadioInv

\* Whose the bytes are: a node sends its own only, and gets those of others.
Origins ==
  /\ \A n \in Node : \A byte \in OwnBytes(n) : byte[1] = n
  /\ \A n \in Node : \A byte \in Coming(n) : byte[1] # n

LEMMA NothingOwned ==
  ASSUME StackInit, NEW n \in Node
  PROVE  /\ ToSet(packets_to_send[n]) = {} /\ ToSet(rx[n]) = {} /\ OwnChunks(n) = {}
         /\ OwnBytes(n) = {} /\ Coming(n) = {} /\ Kept(n) = {} /\ tunnel_in[n] = <<>>
<1>1. /\ packets_to_send[n] = <<>> /\ rx[n] = <<>> /\ ack_queue[n] = <<>>
      /\ pending_packets[n] = <<>> /\ fragmented_packets[n] = <<>>
      /\ downstream_buffer[n] = <<>> /\ upstream_buffer[n] = <<>>
      /\ tunnel_in[n] = <<>> /\ tunnel_out[n] = <<>>
  BY DEF StackInit
<1>2. /\ ToSet(packets_to_send[n]) = {} /\ ToSet(rx[n]) = {} /\ OwnChunks(n) = {}
      /\ PendingChunks(n) = {}
  BY <1>1, NoElements DEF OwnChunks, PendingChunks
<1>3. Coming(n) = {} /\ Leaving(n) = {}
  BY <1>2 DEF Coming, Leaving, DataIn, Content
<1>4. OwnBytes(n) = {} /\ Kept(n) = {}
  BY <1>1, <1>2, <1>3, NoElements DEF OwnBytes, Kept, Content
<1>5. QED
  BY <1>1, <1>2, <1>3, <1>4

LEMMA OriginsStep ==
  ASSUME Origins, Moves PROVE Origins'
<1>1. \A n \in Node : \A byte \in OwnBytes(n)' : byte[1] = n
  BY DEF Origins, Moves
<1>2. ASSUME NEW n \in Node, NEW byte \in Coming(n)' PROVE byte[1] # n
  <2>1. PICK packet \in ToSet(rx'[n]) : packet.type = "Data" /\ byte \in Its(packet.payload)
    BY <1>2 DEF Coming, Content, DataIn, Its
  <2>2. CASE packet \in ToSet(rx[n])
    <3>1. byte \in Coming(n)
      BY <2>1, <2>2 DEF Coming, Content, DataIn
    <3>2. QED
      BY <3>1 DEF Origins
  <2>3. CASE \E m \in Node \ {n} : packet \in ToSet(packets_to_send[m])
    <3>1. PICK m \in Node \ {n} : packet \in ToSet(packets_to_send[m])
      BY <2>3
    <3>2. byte \in OwnBytes(m)
      BY <2>1, <3>1 DEF OwnBytes, Leaving, Content, DataIn
    <3>3. QED
      BY <3>2 DEF Origins
  <2>4. QED
    BY <2>1, <2>2, <2>3 DEF Moves
<1>3. QED
  BY <1>1, <1>2 DEF Origins

\* Before it runs a node has no address to which data is sent: the layers of a
\* node that ends without having found an id are empty.
DataToTaken ==
  \A n \in Node : \A packet \in ToSet(packets_to_send[n]) :
    packet.type = "Data" => packet.to \in TakenId

StrayFree ==
  \A n \in Node \ Running :
    fragmented_packets[n] = <<>> /\ upstream_buffer[n] = <<>> /\ Coming(n) = {}

LEMMA NoAddressYet ==
  ASSUME StackTypes, RadioInv, NEW n \in Node \ Running, NEW to \in TakenId
  PROVE  ~HasAddress(n, to)
<1>1. TakenId \cap (DiscoveryId \cup {Everyone}) = {}
  BY MeshAssumption DEF TakenId, DiscoveryId, Everyone
<1>2. SUFFICES ASSUME HasAddress(n, to) PROVE FALSE
  OBVIOUS
<1>3. comms_state[n] # "CommsNone" /\ node_id[n] = to
  BY <1>1, <1>2 DEF HasAddress
<1>4. node_id[n] \notin DiscoveryId
  BY <1>1, <1>3
<1>5. n \notin InDiscovery
  BY <1>4 DEF RadioInv
<1>6. comms_state[n] \in {"CommsNone", "Discovery", "Running"}
  BY DEF StackTypes, Typed, RadioTypes
<1>7. QED
  BY <1>3, <1>5, <1>6 DEF InDiscovery, Running

LEMMA HandedUpToRunning ==
  ASSUME StackTypes, StrayFree, NEW n \in Node, RadioHandsUp(n), n \notin Running
  PROVE  Head(rx[n]).type = "DataAck" /\ UNCHANGED <<fragmented_packets, upstream_buffer>>
<1> DEFINE packet == Head(rx[n])
<1>1. /\ packet \in StackMail(ReadChunk) /\ CarriesData(packet) /\ packet \in ToSet(rx[n])
      /\ packet.type = "DataAck" => UNCHANGED <<fragmented_packets, upstream_buffer>>
  BY HandsUpElements
<1>2. Its(packet.payload) # {}
  BY <1>1, DataRead
<1> HIDE DEF packet
<1>3. packet.type # "Data"
  BY <1>1, <1>2 DEF StrayFree, Coming, Content, DataIn
<1>4. packet.type = "DataAck"
  BY <1>1, <1>3 DEF CarriesData
<1>5. QED
  BY <1>1, <1>4 DEF packet

\* What a node has collected or written stays with it.
LEMMA CollectedKept ==
  ASSUME StackTypes, StrayFree, [StackNext]_stackVars
  PROVE  /\ \A m \in Node : Kept(m) \subseteq Kept(m)'
         /\ \A m \in Node \ Running : fragmented_packets'[m] = <<>> /\ upstream_buffer'[m] = <<>>
<1>1. ASSUME UNCHANGED <<fragmented_packets, upstream_buffer, tunnel_out>>
      PROVE  /\ \A m \in Node : Kept(m) \subseteq Kept(m)'
             /\ \A m \in Node \ Running :
                  fragmented_packets'[m] = <<>> /\ upstream_buffer'[m] = <<>>
  BY <1>1 DEF Kept, StrayFree
<1>2. CASE UNCHANGED stackVars \/ Passes
  BY <1>1, <1>2 DEF Passes, stackVars, layerVars, tunnelVars
<1>3. ASSUME NEW n \in Node,
             \/ LayerRun(n) \/ RadioSends(n) \/ RadioRun(n) \/ RadioLearns(n)
             \/ TunnelThread(n) \/ StartStack(n)
      PROVE  UNCHANGED <<fragmented_packets, upstream_buffer, tunnel_out>>
  BY <1>3 DEF LayerRun, RadioSends, RadioRun, RadioLearns, TunnelThread, ReadFrame, CheckRoom,
              StartStack, layerVars, tunnelVars
<1>4. ASSUME NEW n \in Node, TunnelRun(n)
      PROVE  /\ \A m \in Node : Kept(m) \subseteq Kept(m)'
             /\ \A m \in Node \ Running :
                  fragmented_packets'[m] = <<>> /\ upstream_buffer'[m] = <<>>
  <2>1. CASE BeginRun(n) /\ UNCHANGED fragmented_packets
    BY <1>1, <2>1 DEF BeginRun
  <2>2. CASE EndRun(n) /\ UNCHANGED <<vars, restVars, ackVars, fragmented_packets>>
    <3>1. \A m \in Node : Kept(m) \subseteq Kept(m)'
      BY <2>2, EndRunElements
    <3>2. \A m \in Node : upstream_buffer[m] = <<>> => upstream_buffer'[m] = <<>>
      <4>1. WriteToTunnel(n)
        BY <2>2 DEF EndRun
      <4>2. CASE upstream_buffer[n] = <<>>
        BY <4>1, <4>2 DEF WriteToTunnel
      <4>3. CASE upstream_buffer[n] # <<>>
        <5>1. upstream_buffer' = [upstream_buffer EXCEPT ![n] = Tail(@)]
          BY <4>1, <4>3 DEF WriteToTunnel
        <5>2. PICK R : R = ReadMessage
          OBVIOUS
        <5>3. upstream_buffer \in [Node -> Seq(R)]
          BY <5>2 DEF StackTypes, Typed, Hold, LayersHold
        <5>4. \A m \in Node \ {n} : upstream_buffer'[m] = upstream_buffer[m]
          BY <5>1, <5>3
        <5>5. QED
          BY <4>3, <5>4
      <4>4. QED
        BY <4>2, <4>3
    <3>3. QED
      BY <2>2, <3>1, <3>2 DEF StrayFree
  <2>3. QED
    BY <1>4, <2>1, <2>2 DEF TunnelRun
<1>5. ASSUME NEW n \in Node, RadioHandsUp(n)
      PROVE  /\ \A m \in Node : Kept(m) \subseteq Kept(m)'
             /\ \A m \in Node \ Running :
                  fragmented_packets'[m] = <<>> /\ upstream_buffer'[m] = <<>>
  <2>1. /\ \A m \in Node : Kept(m) \subseteq Kept(m)'
        /\ \A m \in Node \ {n} : /\ fragmented_packets'[m] = fragmented_packets[m]
                                 /\ upstream_buffer'[m] = upstream_buffer[m]
    BY <1>5, HandsUpElements
  <2>2. n \notin Running => UNCHANGED <<fragmented_packets, upstream_buffer>>
    BY <1>5, HandedUpToRunning
  <2>3. QED
    BY <2>1, <2>2 DEF StrayFree
<1>6. ASSUME NEW n \in Node, StackEnds(n)
      PROVE  /\ \A m \in Node : Kept(m) \subseteq Kept(m)'
             /\ \A m \in Node \ Running :
                  fragmented_packets'[m] = <<>> /\ upstream_buffer'[m] = <<>>
  <2>1. /\ n \in InDiscovery /\ tunnel_out' = tunnel_out
        /\ fragmented_packets'[n] = <<>> /\ upstream_buffer'[n] = <<>>
        /\ \A m \in Node \ {n} : /\ fragmented_packets'[m] = fragmented_packets[m]
                                 /\ upstream_buffer'[m] = upstream_buffer[m]
    BY <1>6, StackEndsElements
  <2>2. n \in Node \ Running
    BY <2>1 DEF InDiscovery, Running
  <2>3. fragmented_packets[n] = <<>> /\ upstream_buffer[n] = <<>>
    BY <2>2 DEF StrayFree
  <2>4. \A m \in Node : /\ fragmented_packets'[m] = fragmented_packets[m]
                        /\ upstream_buffer'[m] = upstream_buffer[m]
    BY <2>1, <2>3
  <2>5. QED
    BY <2>1, <2>4 DEF Kept, StrayFree
<1>7. QED
  BY <1>1, <1>2, <1>3, <1>4, <1>5, <1>6 DEF StackNext

LEMMA StrayFreeStep ==
  ASSUME StackTypes, RadioInv, DataToTaken, StrayFree, Moves, IdsMove, [StackNext]_stackVars
  PROVE  StrayFree'
<1>1. Running \subseteq Running'
  BY DEF IdsMove
<1>2. ASSUME NEW n \in Node \ Running, NEW packet \in DataIn(rx'[n]) PROVE packet \in DataIn(rx[n])
  <2>1. packet \in ToSet(rx'[n]) /\ packet.type = "Data"
    BY <1>2 DEF DataIn
  <2>2. SUFFICES ASSUME packet \notin ToSet(rx[n]) PROVE FALSE
    BY <2>1 DEF DataIn
  <2>3. PICK m \in Node : HasAddress(n, packet.to) /\ packet \in ToSet(packets_to_send[m])
    BY <2>1, <2>2 DEF Moves
  <2>4. packet.to \in TakenId
    BY <2>1, <2>3 DEF DataToTaken
  <2>5. QED
    BY <2>3, <2>4, NoAddressYet
<1>3. \A n \in Node \ Running : Coming(n)' \subseteq Coming(n)
  BY <1>2 DEF Coming, Content
<1>4. QED
  BY <1>1, <1>3, CollectedKept DEF StrayFree

-----------------------------------------------------------------------------
(* Delivered: in a situation without losses who reads frames knows running  *)
(* nodes only, and each byte that it has read is held by itself, on its way *)
(* to another node, or there.                                               *)

\* The radio of a node that runs has listened.
RadioOn == \A n \in Running : radio_state[n] # "Opened"

LEMMA RadioOnInit ==
  ASSUME StackInit PROVE RadioOn
<1>1. PICK s \in Scenarios : RadioInitially(s)
  BY DEF StackInit
<1>2. \A n \in Node : radio_state[n] \in {"Listening", "RadioNone"}
  BY <1>1 DEF RadioInitially
<1>3. QED
  BY <1>2 DEF RadioOn, Running

LEMMA RadioOnKept ==
  ASSUME RadioOn,
         \A n \in Node : radio_state'[n] = "Opened" =>
           comms_state'[n] # "Running" \/ (radio_state[n] = "Opened" /\ comms_state'[n] = comms_state[n])
  PROVE  RadioOn'
BY DEF RadioOn, Running

LEMMA RadioOnStep ==
  ASSUME StackTypes, RadioOn, [StackNext]_stackVars PROVE RadioOn'
<1>1. /\ radio_state \in [Node -> {"RadioNone", "Opened", "Continuous", "Listening", "Sending"}]
      /\ comms_state \in [Node -> {"CommsNone", "Discovery", "Running"}]
  BY DEF StackTypes, Typed, RadioTypes
<1>2. ASSUME UNCHANGED <<comms_state, radio_state>> PROVE RadioOn'
  BY <1>2 DEF RadioOn, Running
<1>3. CASE UNCHANGED stackVars \/ Passes
  BY <1>2, <1>3 DEF Passes, Tick, Stabilise, stackVars, vars, idVars
<1>4. ASSUME NEW n \in Node,
             TunnelRun(n) \/ LayerRun(n) \/ RadioHandsUp(n) \/ TunnelThread(n) \/ RadioLearns(n)
      PROVE  RadioOn'
  BY <1>2, <1>4 DEF TunnelRun, LayerRun, RadioHandsUp, HandUp, TunnelThread, RadioLearns, Receive,
                    vars, idVars
<1>5. ASSUME NEW n \in Node, Send(n) \/ EndTurn(n) \/ SendDiscovery(n) PROVE RadioOn'
  <2>1. comms_state' = comms_state
    BY <1>5 DEF Send, EndTurn, SendDiscovery, idVars
  <2>2. \A m \in Node : radio_state'[m] = "Opened" => radio_state[m] = "Opened"
    BY <1>1, <1>5 DEF Send, EndTurn, SendDiscovery
  <2>3. QED
    BY <2>1, <2>2, RadioOnKept
<1>6. ASSUME NEW n \in Node, Start(n) PROVE RadioOn'
  <2>1. /\ comms_state'[n] = "Discovery"
        /\ \A m \in Node \ {n} : radio_state'[m] = radio_state[m] /\ comms_state'[m] = comms_state[m]
    BY <1>1, <1>6 DEF Start
  <2>2. QED
    BY <2>1, RadioOnKept
<1>7. ASSUME NEW n \in Node, NEW id, Settle(n, id) PROVE RadioOn'
  <2>1. /\ radio_state'[n] = "Listening"
        /\ \A m \in Node \ {n} : radio_state'[m] = radio_state[m] /\ comms_state'[m] = comms_state[m]
    BY <1>1, <1>7 DEF Settle
  <2>2. QED
    BY <2>1, RadioOnKept
<1>8. ASSUME NEW n \in Node, Exit(n) PROVE RadioOn'
  <2>1. /\ radio_state'[n] = "RadioNone"
        /\ \A m \in Node \ {n} : radio_state'[m] = radio_state[m] /\ comms_state'[m] = comms_state[m]
    BY <1>1, <1>8 DEF Exit
  <2>2. QED
    BY <2>1, RadioOnKept
<1>9. ASSUME NEW n \in Node, RadioSends(n) \/ RadioRun(n) \/ StartStack(n) \/ StackEnds(n)
      PROVE  \/ Send(n) \/ EndTurn(n) \/ SendDiscovery(n) \/ Start(n) \/ Exit(n)
             \/ \E id : Settle(n, id)
  BY <1>9 DEF RadioSends, RadioRun, StartStack, StackEnds, Timer, SettleAlone,
              SettleAmongNeighbors, Abort
<1>10. QED
  BY <1>3, <1>4, <1>5, <1>6, <1>7, <1>8, <1>9 DEF StackNext

ReadersServed ==
  /\ stable
  /\ \A n \in Node : Reads(n) =>
       /\ n \in Running
       /\ neighbor_node_ids[n] # {} /\ neighbor_node_ids[n] \subseteq RunningIds \ {node_id[n]}
       /\ \A packet \in ToSet(rx[n]) : packet.type # "DiscoverResponse"
       /\ \A packet \in DataIn(packets_to_send[n]) : packet.to \in RunningIds \ {node_id[n]}

LEMMA ReadsStay ==
  ASSUME StackTypes, [StackNext]_stackVars
  PROVE  lossless' = lossless /\ \A n \in Node : Reads(n)' => Reads(n)
<1>1. ASSUME NEW n \in Node, TunnelThread(n)
      PROVE  lossless' = lossless /\ \A m \in Node : Reads(m)' => Reads(m)
  BY <1>1, TunnelThreadElements DEF restVars
<1>2. ASSUME UNCHANGED <<lossless, frames_to_come, tunnel_in>>
      PROVE  lossless' = lossless /\ \A m \in Node : Reads(m)' => Reads(m)
  BY <1>2 DEF Reads
<1>3. CASE UNCHANGED stackVars \/ Passes
  BY <1>2, <1>3 DEF Passes, stackVars, restVars, layerVars, tunnelVars
<1>4. ASSUME NEW n \in Node,
             \/ TunnelRun(n) \/ LayerRun(n)
             \/ RadioSends(n) \/ RadioRun(n) \/ RadioLearns(n) \/ StartStack(n)
      PROVE  UNCHANGED <<lossless, frames_to_come, tunnel_in>>
  BY <1>4 DEF TunnelRun, BeginRun, EndRun, LayerRun, RadioSends, RadioRun, RadioLearns,
              StartStack, restVars, layerVars, tunnelVars
<1>5. ASSUME NEW n \in Node, StackEnds(n) \/ RadioHandsUp(n)
      PROVE  UNCHANGED <<lossless, frames_to_come, tunnel_in>>
  BY <1>5, StackEndsElements, HandsUpElements DEF restVars
<1>6. QED
  BY <1>1, <1>2, <1>3, <1>4, <1>5 DEF StackNext

LEMMA ReadersServedStep ==
  ASSUME StackTypes, RadioInv, ReadersServed, Moves, IdsMove,
         \A n \in Node : Reads(n)' => Reads(n)
  PROVE  ReadersServed'
<1>1. RunningIds \subseteq RunningIds' /\ stable'
  BY RunningIdsGrow DEF IdsMove, ReadersServed
<1>2. ASSUME NEW n \in Node, Reads(n)'
      PROVE  /\ n \in Running'
             /\ neighbor_node_ids'[n] # {}
             /\ neighbor_node_ids'[n] \subseteq RunningIds' \ {node_id'[n]}
             /\ \A packet \in ToSet(rx'[n]) : packet.type # "DiscoverResponse"
             /\ \A packet \in DataIn(packets_to_send'[n]) :
                  packet.to \in RunningIds' \ {node_id'[n]}
  <2>1. /\ n \in Running /\ neighbor_node_ids[n] # {}
        /\ neighbor_node_ids[n] \subseteq RunningIds \ {node_id[n]}
        /\ \A packet \in ToSet(rx[n]) : packet.type # "DiscoverResponse"
        /\ \A packet \in DataIn(packets_to_send[n]) : packet.to \in RunningIds \ {node_id[n]}
    BY <1>2 DEF ReadersServed
  <2>2. /\ n \in Running' /\ node_id'[n] = node_id[n]
        /\ neighbor_node_ids[n] \subseteq neighbor_node_ids'[n]
    BY <2>1 DEF IdsMove
  <2>3. ASSUME NEW id \in neighbor_node_ids'[n] PROVE id \in RunningIds' \ {node_id[n]}
    <3>1. CASE id \in neighbor_node_ids[n]
      BY <1>1, <2>1, <3>1
    <3>2. CASE \E packet \in ToSet(rx[n]) :
                 packet.type = "NodeIdAnnouncement" /\ id = packet.source /\ id # node_id[n]
      <4>1. PICK packet \in ToSet(rx[n]) :
              packet.type = "NodeIdAnnouncement" /\ id = packet.source /\ id # node_id[n]
        BY <3>2
      <4>2. Truthful(packet)
        BY DEF RadioInv, Packets
      <4>3. QED
        BY <1>1, <4>1, <4>2 DEF Truthful
    <3>3. QED
      BY <2>1, <3>1, <3>2 DEF IdsMove
  <2>4. ASSUME NEW packet \in ToSet(rx'[n]) PROVE packet.type # "DiscoverResponse"
    <3>1. SUFFICES ASSUME packet.type = "DiscoverResponse", packet \notin ToSet(rx[n]) PROVE FALSE
      BY <2>1
    <3>2. PICK m \in Node : packet \in ToSet(packets_to_send[m]) /\ HasAddress(n, packet.to)
      BY <3>1 DEF Moves
    <3>3. packet.to \in DiscoveryId
      BY <3>1, <3>2 DEF RadioInv, Packets, Truthful
    <3>4. node_id[n] \in TakenId
      BY <2>1 DEF RadioInv
    <3>5. TakenId \cap DiscoveryId = {} /\ Everyone \notin DiscoveryId
      BY MeshAssumption DEF TakenId, DiscoveryId, Everyone
    <3>6. QED
      BY <3>2, <3>3, <3>4, <3>5 DEF HasAddress
  <2>5. ASSUME NEW packet \in DataIn(packets_to_send'[n])
        PROVE  packet.to \in RunningIds' \ {node_id[n]}
    <3>1. packet \in ToSet(packets_to_send'[n]) /\ packet.type = "Data"
      BY <2>5 DEF DataIn
    <3>2. CASE packet \in ToSet(packets_to_send[n])
      BY <1>1, <2>1, <3>1, <3>2 DEF DataIn
    <3>3. CASE New(n, packet)
      <4>1. packet.to = first_neighbor[n]
        BY <3>1, <3>3 DEF New
      <4>2. first_neighbor[n] \in neighbor_node_ids[n]
        BY <2>1 DEF StackTypes, Typed, FirstKnown
      <4>3. QED
        BY <1>1, <2>1, <4>1, <4>2
    <3>4. QED
      BY <3>1, <3>2, <3>3 DEF Moves
  <2>6. neighbor_node_ids'[n] # {}
    BY <2>1, <2>2
  <2>7. QED
    BY <2>2, <2>3, <2>4, <2>5, <2>6
<1>3. QED
  BY <1>1, <1>2 DEF ReadersServed

LEMMA ReadersServedInit ==
  ASSUME StackInit, lossless PROVE ReadersServed
<1>1. PICK s \in Scenarios : RadioInitially(s)
  BY DEF StackInit
<1>2. /\ node_id = [n \in Node |-> IF n \in DOMAIN s.settled THEN s.settled[n] ELSE 0]
      /\ \A n \in Node : comms_state[n] = IF n \in DOMAIN s.settled THEN "Running" ELSE "CommsNone"
      /\ \A n \in Node : neighbor_node_ids[n] = Known(s, n)
      /\ stable = (s.quiet \/ Faults = {})
      /\ frames_to_come = s.frames /\ Lossless(s)
  BY <1>1 DEF RadioInitially
<1>3. s.quiet /\ s.gone = {} /\ \A n \in Node : s.frames[n] > 0 => Known(s, n) # {}
  BY <1>2 DEF Lossless
<1>4. DOMAIN s.settled \subseteq Node
  BY StackAssumption
<1>5. Running = DOMAIN s.settled
  BY <1>2, <1>4 DEF Running
<1>6. RunningIds = Range(s.settled)
  BY <1>2, <1>4, <1>5 DEF RunningIds, Range
<1>7. ASSUME NEW n \in Node, Reads(n)
      PROVE  /\ n \in Running
             /\ neighbor_node_ids[n] # {}
             /\ neighbor_node_ids[n] \subseteq RunningIds \ {node_id[n]}
             /\ ToSet(rx[n]) = {} /\ ToSet(packets_to_send[n]) = {}
  <2>1. tunnel_in[n] = <<>> /\ ToSet(rx[n]) = {} /\ ToSet(packets_to_send[n]) = {}
    BY NothingOwned
  <2>2. Known(s, n) # {}
    BY <1>2, <1>3, <1>7, <2>1 DEF Reads
  <2>3. n \in DOMAIN s.settled /\ Known(s, n) = Range(s.settled) \ {s.settled[n]}
    BY <1>3, <2>2 DEF Known
  <2>4. QED
    BY <1>2, <1>5, <1>6, <2>1, <2>2, <2>3
<1>8. stable
  BY <1>2, <1>3
<1>9. QED
  BY <1>7, <1>8 DEF ReadersServed, DataIn

LEMMA DataBytes ==
  ASSUME StackTypes, Origins, NEW n \in Node, NEW packet \in DataIn(packets_to_send[n])
  PROVE  Reads(n)
<1>1. packet \in ToSet(packets_to_send[n]) /\ packet.type = "Data"
  BY DEF DataIn
<1>2. packet \in StackMail(ReadChunk) /\ CarriesData(packet)
  BY <1>1, QueueSets DEF CarriesData
<1>3. Its(packet.payload) # {} /\ Its(packet.payload) \subseteq ReadByte
  BY <1>2, DataRead
<1>4. PICK byte \in Its(packet.payload) : byte \in ReadByte
  BY <1>3
<1>5. byte \in OwnBytes(n)
  BY <1>4 DEF OwnBytes, Leaving, Content
<1>6. byte[1] = n
  BY <1>5 DEF Origins
<1>7. byte[2] \in 1..Len(tunnel_in[n])
  BY <1>4, <1>6 DEF ReadByte
<1>8. tunnel_in[n] # <<>>
  BY <1>7, NoElements
<1>9. QED
  BY <1>8 DEF Reads

LEMMA ServedTaken ==
  ASSUME StackTypes, RadioInv, Origins, ReadersServed PROVE DataToTaken
<1>1. RunningIds \subseteq TakenId
  BY DEF RadioInv, RunningIds
<1>2. ASSUME NEW n \in Node, NEW packet \in ToSet(packets_to_send[n]), packet.type = "Data"
      PROVE  packet.to \in TakenId
  <2>1. packet \in DataIn(packets_to_send[n])
    BY <1>2 DEF DataIn
  <2>2. QED
    BY <1>1, <2>1, DataBytes DEF ReadersServed
<1>3. QED
  BY <1>2 DEF DataToTaken

\* What a node has read and has not sent.
ToGo(n) == Bytes(Waiting(n)) \cup Content(ToSet(ack_queue[n])) \cup Leaving(n)

NothingLost ==
  \A n \in Node : \A byte \in HasRead(n) :
    byte \in ToGo(n) \/ \E m \in Node \ {n} : byte \in Coming(m) \cup Kept(m)

\* A step loses no byte of a node whose frames are read.
Onward ==
  /\ \A n \in Node : Reads(n) =>
       \A byte \in ToGo(n) : byte \in ToGo(n)' \/ \E m \in Node \ {n} : byte \in Coming(m)'
  /\ \A n \in Node : Coming(n) \subseteq Coming(n)' \cup Kept(n)'
  /\ \A n \in Node : HasRead(n)' \subseteq HasRead(n) \cup ToGo(n)'

LEMMA OnwardSuffices ==
  ASSUME \A n \in Node : ToGo(n) \subseteq ToGo(n)',
         \A n \in Node : Coming(n) \subseteq Coming(n)',
         UNCHANGED tunnel_in
  PROVE  Onward
<1>1. \A n : HasRead(n)' = HasRead(n)
  BY DEF HasRead, Its, Frame
<1>2. QED
  BY <1>1 DEF Onward

LEMMA PassesOnward ==
  ASSUME UNCHANGED stackVars \/ Passes PROVE Onward
<1>1. UNCHANGED <<layerVars, packets_to_send, rx>>
  BY DEF Passes, Tick, Stabilise, stackVars, vars
<1>2. \A n \in Node : ToGo(n)' = ToGo(n) /\ Coming(n)' = Coming(n)
  BY <1>1 DEF ToGo, Coming, Leaving, Waiting, layerVars, ackVars, tunnelVars
<1>3. tunnel_in' = tunnel_in
  BY <1>1 DEF layerVars, tunnelVars
<1>4. QED
  BY <1>2, <1>3, OnwardSuffices

LEMMA DiscoveryOnward ==
  ASSUME StackTypes, NEW n \in Node, RadioRun(n) \/ RadioLearns(n) \/ StartStack(n)
  PROVE  Onward
<1>1. /\ UNCHANGED layerVars
      /\ \A m \in Node : /\ DataIn(packets_to_send'[m]) = DataIn(packets_to_send[m])
                         /\ DataIn(rx'[m]) = DataIn(rx[m])
  BY DiscoverySteps
<1>2. \A m \in Node : Leaving(m)' = Leaving(m) /\ Coming(m)' = Coming(m)
  BY <1>1 DEF Leaving, Coming
<1>3. /\ tunnel_in' = tunnel_in
      /\ \A m \in Node : Waiting(m)' = Waiting(m) /\ ack_queue'[m] = ack_queue[m]
  BY <1>1 DEF Waiting, layerVars, ackVars, tunnelVars
<1>4. \A m \in Node : ToGo(m)' = ToGo(m)
  BY <1>2, <1>3 DEF ToGo
<1>5. QED
  BY <1>2, <1>3, <1>4, OnwardSuffices

LEMMA TunnelThreadOnward ==
  ASSUME StackTypes, NEW n \in Node, TunnelThread(n)
  PROVE  Onward
<1>1. /\ UNCHANGED <<vars, ackVars>>
      /\ Bytes(Waiting(n)) \subseteq Bytes(Waiting(n)')
      /\ \A m \in Node \ {n} : Waiting(m)' = Waiting(m)
      /\ \A m \in Node : HasRead(m)' \subseteq HasRead(m) \cup Bytes(Waiting(m)')
  BY TunnelThreadElements
<1>2. UNCHANGED <<packets_to_send, rx, ack_queue>>
  BY <1>1 DEF vars, ackVars
<1>3. \A m \in Node : Leaving(m)' = Leaving(m) /\ Coming(m)' = Coming(m)
  BY <1>2 DEF Leaving, Coming
<1>4. \A m \in Node : Bytes(Waiting(m)) \subseteq Bytes(Waiting(m)')
  BY <1>1
<1>5. \A m \in Node : ToGo(m) \subseteq ToGo(m)' /\ Bytes(Waiting(m)') \subseteq ToGo(m)'
  BY <1>2, <1>3, <1>4 DEF ToGo
<1>6. QED
  BY <1>1, <1>3, <1>5 DEF Onward

LEMMA RadioSendsOnward ==
  ASSUME StackTypes, RadioOn, ReadersServed, NEW n \in Node, RadioSends(n)
  PROVE  Onward
<1>1. /\ UNCHANGED <<idVars, stable, layerVars>>
      /\ \A m \in Node : ToSet(rx[m]) \subseteq ToSet(rx'[m])
      /\ \A m \in Node \ {n} : packets_to_send'[m] = packets_to_send[m]
      /\ ~May("loss") =>
           \A packet \in ToSet(packets_to_send[n]) \ ToSet(packets_to_send'[n]) :
             \A m \in Node \ {n} : HasAddress(m, packet.to) => packet \in ToSet(rx'[m])
  BY RadioSendsElements
<1>2. ~May("loss")
  BY DEF ReadersServed, May
<1>3. \A m \in Node : Coming(m) \subseteq Coming(m)'
  BY <1>1 DEF Coming, Content, DataIn
<1>4. /\ tunnel_in' = tunnel_in
      /\ \A m \in Node : Waiting(m)' = Waiting(m) /\ ack_queue'[m] = ack_queue[m]
  BY <1>1 DEF Waiting, layerVars, ackVars, tunnelVars
<1>5. \A m \in Node \ {n} : ToGo(m)' = ToGo(m)
  BY <1>1, <1>4 DEF ToGo, Leaving
<1>6. ASSUME Reads(n), NEW byte \in Leaving(n), byte \notin Leaving(n)'
      PROVE  \E m \in Node \ {n} : byte \in Coming(m)'
  <2>1. PICK packet \in DataIn(packets_to_send[n]) : byte \in Its(packet.payload)
    BY <1>6 DEF Leaving, Content
  <2>2. packet \notin DataIn(packets_to_send'[n])
    BY <1>6, <2>1 DEF Leaving, Content
  <2>3. /\ packet \in ToSet(packets_to_send[n]) \ ToSet(packets_to_send'[n])
        /\ packet.type = "Data"
    BY <2>2 DEF DataIn
  <2>4. packet.to \in RunningIds \ {node_id[n]}
    BY <1>6 DEF ReadersServed
  <2>5. PICK m \in Running : node_id[m] = packet.to
    BY <2>4 DEF RunningIds
  <2>6. m \in Node \ {n} /\ HasAddress(m, packet.to)
    BY <2>4, <2>5 DEF RadioOn, HasAddress, Running
  <2>7. packet \in ToSet(rx'[m])
    BY <1>1, <1>2, <2>3, <2>6
  <2>8. byte \in Coming(m)'
    BY <2>1, <2>3, <2>7 DEF Coming, Content, DataIn
  <2>9. QED
    BY <2>6, <2>8
<1>7. Reads(n) =>
        \A byte \in ToGo(n) : byte \in ToGo(n)' \/ \E m \in Node \ {n} : byte \in Coming(m)'
  BY <1>4, <1>6 DEF ToGo
<1>8. \A m : HasRead(m)' = HasRead(m)
  BY <1>4 DEF HasRead, Its, Frame
<1>9. QED
  BY <1>3, <1>5, <1>7, <1>8 DEF Onward

LEMMA RadioHandsUpOnward ==
  ASSUME StackTypes, NEW n \in Node, RadioHandsUp(n)
  PROVE  Onward
<1> DEFINE packet == Head(rx[n])
<1>1. /\ packet \in StackMail(ReadChunk) /\ CarriesData(packet)
      /\ ToSet(rx[n]) = ToSet(rx'[n]) \cup {packet}
      /\ UNCHANGED <<ack_queue, downstream_buffer, in_run, tunnel_in>>
      /\ \A m \in Node \ {n} : rx'[m] = rx[m]
      /\ packet.type = "Data" => Its(packet.payload) \subseteq Kept(n)'
      /\ AckReceiveFromDownstream(n, Unaddressed(packet))
  BY HandsUpElements
<1>2. Unaddressed(packet) \in ReadChunk
  BY <1>1, DataRead
<1>3. \E chunks : SendsDown(n, chunks) /\ \A chunk \in chunks : CarriesData(chunk)
  <2>1. \/ SendsDown(n, {})
        \/ \E ack : ack.type = "DataAck" /\ SendsDown(n, {ack})
    BY <1>1, <1>2, AckElements
  <2>2. CASE SendsDown(n, {})
    BY <2>2
  <2>3. CASE \E ack : ack.type = "DataAck" /\ SendsDown(n, {ack})
    BY <2>3 DEF CarriesData
  <2>4. QED
    BY <2>1, <2>2, <2>3
<1>4. \A m \in Node : Leaving(m) \subseteq Leaving(m)'
  BY <1>3, SendsDownElements
<1>5. \A m \in Node : Waiting(m)' = Waiting(m)
  BY <1>1 DEF Waiting
<1>6. \A m \in Node : ToGo(m) \subseteq ToGo(m)'
  BY <1>1, <1>4, <1>5 DEF ToGo
<1> HIDE DEF packet
<1>7. Coming(n) \subseteq Coming(n)' \cup Kept(n)'
  BY <1>1 DEF Coming, Content, DataIn
<1>8. \A m \in Node \ {n} : Coming(m)' = Coming(m)
  BY <1>1 DEF Coming
<1>9. \A m : HasRead(m)' = HasRead(m)
  BY <1>1 DEF HasRead, Its, Frame
<1>10. QED
  BY <1>6, <1>7, <1>8, <1>9 DEF Onward

LEMMA BeginRunOnward ==
  ASSUME StackTypes, ReadersServed, NEW n \in Node, BeginRun(n),
         UNCHANGED <<idVars, radio_state, discoveryVars, rx, stable, restVars,
                     enabled, pending_packets, fragmented_packets>>
  PROVE  Onward
<1>1. PICK chunks \in SUBSET ReadChunk :
        /\ \A chunk \in chunks : chunk.type = "Data"
        /\ Bytes(Waiting(n)) \subseteq Bytes(Waiting(n)') \cup Content(chunks)
        /\ \A m \in Node \ {n} : Waiting(m)' = Waiting(m) /\ ack_queue'[m] = ack_queue[m]
        /\ \/ /\ SendsDown(n, {}) /\ packets_to_send' = packets_to_send
              /\ ToSet(ack_queue'[n]) = ToSet(ack_queue[n]) \cup chunks
           \/ SendsDown(n, chunks) /\ ack_queue' = ack_queue
  BY BeginRunElements
<1>2. \A chunk \in chunks : CarriesData(chunk)
  BY <1>1 DEF CarriesData
<1>3. {chunk \in chunks : chunk.type = "Data"} = chunks
  BY <1>1
<1>4. /\ \A m \in Node : Leaving(m) \subseteq Leaving(m)'
      /\ Content(ToSet(ack_queue[n])) \subseteq Content(ToSet(ack_queue'[n]))
      /\ Reads(n) => Content(chunks) \subseteq Content(ToSet(ack_queue'[n])) \cup Leaving(n)'
  <2>1. CASE /\ packets_to_send' = packets_to_send
             /\ ToSet(ack_queue'[n]) = ToSet(ack_queue[n]) \cup chunks
    BY <2>1 DEF Leaving, Content
  <2>2. CASE SendsDown(n, chunks) /\ ack_queue' = ack_queue
    <3>1. Reads(n) => neighbor_node_ids[n] # {}
      BY DEF ReadersServed
    <3>2. QED
      BY <1>2, <1>3, <2>2, <3>1, SendsDownElements
  <2>3. QED
    BY <1>1, <2>1, <2>2
<1>5. Reads(n) => ToGo(n) \subseteq ToGo(n)'
  BY <1>1, <1>4 DEF ToGo
<1>6. \A m \in Node \ {n} : ToGo(m) \subseteq ToGo(m)'
  BY <1>1, <1>4 DEF ToGo
<1>7. /\ \A m \in Node : Coming(m)' = Coming(m)
      /\ \A m : HasRead(m)' = HasRead(m)
  BY DEF Coming, BeginRun, HasRead, Its, Frame
<1>8. QED
  BY <1>5, <1>6, <1>7 DEF Onward

LEMMA EndRunOnward ==
  ASSUME StackTypes, NEW n \in Node, EndRun(n),
         UNCHANGED <<vars, restVars, ackVars, fragmented_packets>>
  PROVE  Onward
<1>1. \A m \in Node : Bytes(Waiting(m)) \subseteq Bytes(Waiting(m)')
  BY EndRunElements
<1>2. UNCHANGED <<packets_to_send, rx, ack_queue, tunnel_in>>
  BY DEF vars, ackVars, EndRun
<1>3. \A m \in Node : ToGo(m) \subseteq ToGo(m)' /\ Coming(m)' = Coming(m)
  BY <1>1, <1>2 DEF ToGo, Leaving, Coming
<1>4. QED
  BY <1>2, <1>3, OnwardSuffices

LEMMA LayerRunOnward ==
  ASSUME StackTypes, QueuedData, ReadersServed, NEW n \in Node, LayerRun(n)
  PROVE  Onward
<1>1. PICK chunks \in SUBSET (ToSet(ack_queue[n]) \cup PendingChunks(n)) :
        SendsDown(n, chunks) /\ ToSet(ack_queue[n]) \subseteq ToSet(ack_queue'[n]) \cup chunks
  BY LayerRunElements
<1>2. \A m \in Node \ {n} : ack_queue'[m] = ack_queue[m]
  BY LayerRunElements
<1>3. \A chunk \in chunks : chunk.type = "Data"
  BY <1>1 DEF QueuedData, OwnChunks
<1>4. {chunk \in chunks : chunk.type = "Data"} = chunks /\ \A chunk \in chunks : CarriesData(chunk)
  BY <1>3 DEF CarriesData
<1>5. /\ \A m \in Node : Leaving(m) \subseteq Leaving(m)'
      /\ Reads(n) => Content(chunks) \subseteq Leaving(n)'
  <2>1. Reads(n) => neighbor_node_ids[n] # {}
    BY DEF ReadersServed
  <2>2. QED
    BY <1>1, <1>4, <2>1, SendsDownElements
<1>6. /\ UNCHANGED <<rx, tunnel_in>>
      /\ \A m \in Node : Waiting(m)' = Waiting(m)
  BY DEF LayerRun, Waiting, tunnelVars
<1>7. Content(ToSet(ack_queue[n])) \subseteq Content(ToSet(ack_queue'[n])) \cup Content(chunks)
  BY <1>1 DEF Content
<1>8. Reads(n) => ToGo(n) \subseteq ToGo(n)'
  BY <1>5, <1>6, <1>7 DEF ToGo
<1>9. \A m \in Node \ {n} : ToGo(m) \subseteq ToGo(m)'
  BY <1>2, <1>5, <1>6 DEF ToGo
<1>10. /\ \A m \in Node : Coming(m)' = Coming(m)
       /\ \A m : HasRead(m)' = HasRead(m)
  BY <1>6 DEF Coming, HasRead, Its, Frame
<1>11. QED
  BY <1>8, <1>9, <1>10 DEF Onward

LEMMA StackEndsOnward ==
  ASSUME StackTypes, ReadersServed, StrayFree, NEW n \in Node, StackEnds(n)
  PROVE  Onward
<1>1. /\ n \in InDiscovery /\ UNCHANGED <<in_run, tunnel_in>>
      /\ \A m \in Node \ {n} :
           /\ packets_to_send'[m] = packets_to_send[m] /\ rx'[m] = rx[m]
           /\ ack_queue'[m] = ack_queue[m] /\ downstream_buffer'[m] = downstream_buffer[m]
  BY StackEndsElements
<1>2. n \notin Running
  BY <1>1 DEF InDiscovery, Running
<1>3. ~Reads(n) /\ Coming(n) = {}
  BY <1>2 DEF ReadersServed, StrayFree
<1>4. \A m \in Node \ {n} : ToGo(m)' = ToGo(m) /\ Coming(m)' = Coming(m)
  BY <1>1 DEF ToGo, Coming, Leaving, Waiting
<1>5. \A m : HasRead(m)' = HasRead(m)
  BY <1>1 DEF HasRead, Its, Frame
<1>6. QED
  BY <1>3, <1>4, <1>5 DEF Onward

\* What another node keeps has arrived.
LEMMA KeptArrives ==
  ASSUME StackTypes, NEW n \in Node, NEW m \in Node \ {n}, NEW payload,
         ToSet(payload) \subseteq Kept(m)
  PROVE  Arrived(n, payload)
<1>1. PICK B, R, C : B = ReadByte /\ R = ReadMessage /\ C = ReadChunk
  OBVIOUS
<1>2. PICK Open : Open = {chunk \in C : ~chunk.final}
  OBVIOUS
<1>3. R \subseteq Seq(B) /\ \A chunk \in Open : chunk.payload \in Seq(B)
  BY <1>1, <1>2 DEF ReadMessage, ReadChunk
<1>4. /\ tunnel_out[m] \in Seq(R) /\ upstream_buffer[m] \in Seq(R)
      /\ fragmented_packets[m] \in Seq(Open)
  BY <1>1, <1>2, LayerSequences
<1>5. tunnel_out[m] \in Seq(Seq(B)) /\ upstream_buffer[m] \in Seq(Seq(B))
  BY <1>3, <1>4, SeqWider
<1>6. \A s \in Seq(B) : ToSet(s) = Its(s)
  BY SequenceElements DEF Its
<1>7. \A s \in Seq(Seq(B)) : Bytes(s) \subseteq ToSet(FlattenSeq(s))
  BY <1>6, FlattenKeeps
<1> DEFINE packets == fragmented_packets[m]
           payloads == [i \in DOMAIN packets |-> packets[i].payload]
<1>8. Content(ToSet(packets)) \subseteq ToSet(FlattenSeq(payloads))
  <2>1. Len(packets) \in Nat /\ DOMAIN packets = 1..Len(packets)
    BY <1>4, LenProperties
  <2>2. \A i \in 1..Len(packets) : packets[i].payload \in Seq(B)
    BY <1>3, <1>4, ElementOfSeq
  <2> HIDE DEF packets
  <2>3. FlattenSeq(payloads) \in Seq(B) /\ Content(ToSet(packets)) \subseteq Its(FlattenSeq(payloads))
    BY <2>1, <2>2, ChunksFlattened
  <2>4. QED
    BY <1>6, <2>3
<1>9. Bytes(tunnel_out[m]) \subseteq ToSet(FlattenSeq(tunnel_out[m]))
  BY <1>5, <1>7
<1>10. Bytes(upstream_buffer[m]) \subseteq ToSet(FlattenSeq(upstream_buffer[m]))
  BY <1>5, <1>7
<1>11. ToSet(payload) \subseteq
         ToSet(FlattenSeq(tunnel_out[m])) \cup ToSet(FlattenSeq(upstream_buffer[m]))
           \cup ToSet(FlattenSeq(payloads))
  BY <1>8, <1>9, <1>10 DEF Kept
<1>12. QED
  BY <1>11 DEF Arrived

LosslessInv == ReadersServed /\ StrayFree /\ NothingLost

DeliveryInv == QueuedData /\ RadioInv /\ RadioOn /\ Origins /\ (lossless => LosslessInv)

LEMMA StrayFreeInit ==
  ASSUME StackInit PROVE StrayFree
BY NothingOwned DEF StrayFree, StackInit

LEMMA DeliveryInit ==
  ASSUME StackInit PROVE DeliveryInv
<1>1. QueuedData /\ Origins
  BY NothingOwned DEF QueuedData, Origins
<1>2. \A n \in Node : HasRead(n) = {}
  BY NothingOwned, NoElements DEF HasRead
<1>3. QED
  BY <1>1, <1>2, RadioInvInit, RadioOnInit, ReadersServedInit, StrayFreeInit
     DEF DeliveryInv, LosslessInv, NothingLost

LEMMA StackOnward ==
  ASSUME StackTypes, QueuedData, RadioOn, ReadersServed, StrayFree, [StackNext]_stackVars
  PROVE  Onward
<1>1. ASSUME NEW n \in Node, TunnelRun(n) PROVE Onward
  BY <1>1, BeginRunOnward, EndRunOnward DEF TunnelRun
<1>2. ASSUME NEW n \in Node,
             \/ LayerRun(n) \/ RadioSends(n) \/ RadioRun(n) \/ RadioLearns(n) \/ RadioHandsUp(n)
             \/ TunnelThread(n) \/ StartStack(n) \/ StackEnds(n)
      PROVE  Onward
  BY <1>2, LayerRunOnward, RadioSendsOnward, DiscoveryOnward, RadioHandsUpOnward,
     TunnelThreadOnward, StackEndsOnward
<1>3. QED
  BY <1>1, <1>2, PassesOnward DEF StackNext

LEMMA NothingLostStep ==
  ASSUME StackTypes, NothingLost, Onward, \A m \in Node : Kept(m) \subseteq Kept(m)'
  PROVE  NothingLost'
<1>1. ASSUME NEW n \in Node, NEW byte \in HasRead(n)'
      PROVE  byte \in ToGo(n)' \/ \E m \in Node \ {n} : byte \in Coming(m)' \cup Kept(m)'
  <2>1. CASE byte \in HasRead(n)
    <3>1. Reads(n)
      <4>1. PICK k \in 1..Len(tunnel_in[n]) : byte \in Its(Frame(n, k, tunnel_in[n][k]))
        BY <2>1 DEF HasRead
      <4>2. tunnel_in[n] # <<>>
        BY <4>1, NoElements
      <4>3. QED
        BY <4>2 DEF Reads
    <3>2. CASE byte \in ToGo(n)
      BY <3>1, <3>2 DEF Onward
    <3>3. CASE \E m \in Node \ {n} : byte \in Coming(m) \cup Kept(m)
      BY <3>3 DEF Onward
    <3>4. QED
      BY <2>1, <3>2, <3>3 DEF NothingLost
  <2>2. QED
    BY <2>1 DEF Onward
<1>2. QED
  BY <1>1 DEF NothingLost

LEMMA DeliveryStep ==
  ASSUME StackTypes, DeliveryInv, [StackNext]_stackVars PROVE DeliveryInv'
<1>1. Moves /\ QueuedData' /\ IdsMove
  BY StackMoves, StackIdsMove DEF DeliveryInv
<1>2. RadioInv' /\ RadioOn' /\ Origins'
  BY <1>1, RadioInvStep, RadioOnStep, OriginsStep DEF DeliveryInv
<1>3. lossless' = lossless /\ \A n \in Node : Reads(n)' => Reads(n)
  BY ReadsStay
<1>4. ASSUME lossless PROVE LosslessInv'
  <2>1. ReadersServed /\ StrayFree /\ NothingLost
    BY <1>4 DEF DeliveryInv, LosslessInv
  <2>2. DataToTaken
    BY <2>1, ServedTaken DEF DeliveryInv
  <2>3. ReadersServed'
    BY <1>1, <1>3, <2>1, ReadersServedStep DEF DeliveryInv
  <2>4. StrayFree' /\ \A m \in Node : Kept(m) \subseteq Kept(m)'
    BY <1>1, <2>1, <2>2, StrayFreeStep, CollectedKept DEF DeliveryInv
  <2>5. Onward
    BY <2>1, StackOnward DEF DeliveryInv
  <2>6. NothingLost'
    BY <2>1, <2>4, <2>5, NothingLostStep
  <2>7. QED
    BY <2>3, <2>4, <2>6 DEF LosslessInv
<1>5. QED
  BY <1>1, <1>2, <1>3, <1>4 DEF DeliveryInv

LEMMA DeliveryImplies ==
  ASSUME StackTypes, DeliveryInv PROVE Delivered
<1> SUFFICES ASSUME lossless, NothingOnTheWay,
                    NEW n \in Node, NEW k \in DOMAIN tunnel_in[n], NEW j \in 1..tunnel_in[n][k]
             PROVE  Arrived(n, << <<n, k, j>> >>)
  BY DEF Delivered
<1> DEFINE byte == <<n, k, j>>
<1>1. tunnel_in[n] \in Seq(Nat \ {0})
  BY DEF StackTypes, FramesQueued
<1>2. k \in 1..Len(tunnel_in[n]) /\ tunnel_in[n][k] \in Nat
  BY <1>1, LenProperties, ElementOfSeq
<1>3. byte \in HasRead(n)
  <2> DEFINE frame == Frame(n, k, tunnel_in[n][k])
  <2>1. frame \in Seq({<<n, k, i>> : i \in 1..tunnel_in[n][k]}) /\ Len(frame) = tunnel_in[n][k]
    BY <1>2, IsASeq DEF Frame
  <2>2. frame[j] = byte
    BY DEF Frame
  <2> HIDE DEF frame
  <2>3. byte \in Its(frame)
    BY <2>1, <2>2 DEF Its
  <2>4. QED
    BY <1>2, <2>3 DEF HasRead, frame
<1> HIDE DEF byte
<1>4. /\ downstream_buffer[n] = <<>> /\ ack_queue[n] = <<>>
      /\ \A m \in Node : upstream_buffer[m] = <<>>
      /\ \A m \in Node : DataIn(packets_to_send[m]) = {} /\ DataIn(rx[m]) = {}
  BY DEF NothingOnTheWay, Packets, DataIn, CarriesData
<1>5. ToGo(n) = {}
  <2>1. Waiting(n) = <<>>
    BY <1>4, NoElements DEF Waiting
  <2>2. QED
    BY <1>4, <2>1, NoElements DEF ToGo, Leaving, Content
<1>6. \A m \in Node : Coming(m) = {}
  BY <1>4 DEF Coming, Content
<1>7. PICK m \in Node \ {n} : byte \in Kept(m)
  BY <1>3, <1>5, <1>6 DEF DeliveryInv, LosslessInv, NothingLost
<1>8. ToSet(<<byte>>) = {byte}
  BY DEF ToSet
<1>9. Arrived(n, <<byte>>)
  BY <1>7, <1>8, KeptArrives
<1>10. QED
  BY <1>9 DEF byte

\* In a situation without losses every byte that was read has reached another
\* node once nothing is on its way (Delivered), however many nodes there are and
\* join, and whatever is acknowledged to the wrong node, sent again or given up: a
\* packet goes to a node that runs, and its bytes are kept from when it is handed up.
THEOREM EveryByteArrives == StackSpec => []Delivered
<1>1. StackInit => StackTypes /\ DeliveryInv
  BY StackTypesInit, DeliveryInit
<1>2. StackTypes /\ DeliveryInv /\ [StackNext]_stackVars => (StackTypes /\ DeliveryInv)'
  BY StackTypesStep, DeliveryStep
<1>3. StackTypes /\ DeliveryInv => Delivered
  BY DeliveryImplies
<1>4. QED
  BY <1>1, <1>2, <1>3, PTL DEF StackSpec

-----------------------------------------------------------------------------
(* AckedArrived: an acknowledgement repeats a chunk that the node which     *)
(* sent it has got, and keeps.                                              *)

\* A response has room for all ids that are ever known: for all that nodes may
\* take, or for those of all nodes and of the ones that are there no more.
RoomForAll ==
  \/ min_discovery_node_id <= kNeighborsInPacket
  \/ \A s \in Scenarios : Cardinality(Node) + Cardinality(s.gone) <= kNeighborsInPacket

\* What the nodes know, and tell one another, is ids of nodes that run and of G.
FewKnown(G) ==
  /\ \A n \in Node : neighbor_node_ids[n] \subseteq RunningIds \cup G
  /\ \A n \in Node : \A packet \in Packets(n) :
       packet.type = "DiscoverResponse" =>
         /\ {packet.source} \cup packet.neighbors \subseteq RunningIds \cup G
         /\ packet.num <= kNeighborsInPacket

LEMMA ScenarioGone ==
  ASSUME NEW s \in Scenarios
  PROVE  s.gone \subseteq TakenId /\ IsFiniteSet(s.gone)
<1>1. s.gone \subseteq TakenId
  BY StackAssumption DEF TakenId
<1>2. IsFiniteSet(TakenId)
  BY FS_Interval, MeshAssumption DEF TakenId
<1>3. QED
  BY <1>1, <1>2, FS_Subset

LEMMA RoomForKnown ==
  ASSUME RoomForAll, RadioInv, NEW s \in Scenarios,
         NEW known, known \subseteq RunningIds \cup s.gone
  PROVE  Cardinality(known) \in Nat /\ Cardinality(known) <= kNeighborsInPacket
<1>1. IsFiniteSet(Node) /\ kNeighborsInPacket \in Nat /\ min_discovery_node_id \in Nat
  BY MeshAssumption
<1>2. s.gone \subseteq TakenId /\ IsFiniteSet(s.gone)
  BY ScenarioGone
<1>3. CASE min_discovery_node_id <= kNeighborsInPacket
  <2>1. RunningIds \cup s.gone \subseteq TakenId
    BY <1>2 DEF RadioInv, RunningIds
  <2>2. IsFiniteSet(TakenId) /\ Cardinality(TakenId) = min_discovery_node_id
    BY <1>1, FS_Interval, MeshAssumption DEF TakenId
  <2>3. Cardinality(known) <= Cardinality(TakenId) /\ IsFiniteSet(known)
    BY <2>1, <2>2, FS_Subset
  <2>4. Cardinality(known) \in Nat
    BY <2>3, FS_CardinalityType
  <2>5. QED
    BY <1>1, <1>3, <2>2, <2>3, <2>4
<1>4. CASE Cardinality(Node) + Cardinality(s.gone) <= kNeighborsInPacket
  <2>1. IsFiniteSet(Running) /\ Cardinality(Running) <= Cardinality(Node)
    BY <1>1, FS_Subset DEF Running
  <2>2. IsFiniteSet(RunningIds) /\ Cardinality(RunningIds) <= Cardinality(Running)
    <3> DEFINE idOf == [n \in Running |-> node_id[n]]
    <3>1. idOf \in Surjection(Running, RunningIds)
      BY DEF Surjection, RunningIds
    <3>2. QED
      BY <2>1, <3>1, FS_Surjection
  <2>3. PICK ids : ids = RunningIds
    OBVIOUS
  <2>4. /\ IsFiniteSet(ids \cup s.gone) /\ Cardinality(ids \cap s.gone) \in Nat
        /\ Cardinality(ids \cup s.gone) =
             Cardinality(ids) + Cardinality(s.gone) - Cardinality(ids \cap s.gone)
    <3>1. IsFiniteSet(ids \cap s.gone)
      BY <1>2, FS_Subset
    <3>2. QED
      BY <1>2, <2>2, <2>3, <3>1, FS_Union, FS_CardinalityType
  <2>5. IsFiniteSet(known) /\ Cardinality(known) <= Cardinality(ids \cup s.gone)
    BY <2>3, <2>4, FS_Subset
  <2>6. /\ Cardinality(known) \in Nat /\ Cardinality(ids) \in Nat /\ Cardinality(s.gone) \in Nat
        /\ Cardinality(Running) \in Nat /\ Cardinality(Node) \in Nat
    BY <1>1, <1>2, <2>1, <2>2, <2>3, <2>5, FS_CardinalityType
  <2>7. QED
    BY <1>1, <1>4, <2>1, <2>2, <2>3, <2>4, <2>5, <2>6
<1>5. QED
  BY <1>3, <1>4 DEF RoomForAll

LEMMA FewKnownInit ==
  ASSUME StackInit PROVE \E s \in Scenarios : FewKnown(s.gone)
<1>1. PICK s \in Scenarios : RadioInitially(s)
  BY DEF StackInit
<1>2. /\ node_id = [n \in Node |-> IF n \in DOMAIN s.settled THEN s.settled[n] ELSE 0]
      /\ \A n \in Node : comms_state[n] = IF n \in DOMAIN s.settled THEN "Running" ELSE "CommsNone"
      /\ \A n \in Node : neighbor_node_ids[n] = Known(s, n)
  BY <1>1 DEF RadioInitially
<1>3. DOMAIN s.settled \subseteq Node
  BY StackAssumption
<1>4. RunningIds = Range(s.settled)
  BY <1>2, <1>3 DEF RunningIds, Range, Running
<1>5. \A n \in Node : Packets(n) = {}
  BY NothingOwned DEF Packets
<1>6. \A n \in Node : neighbor_node_ids[n] \subseteq RunningIds \cup s.gone
  BY <1>2, <1>4 DEF Known
<1>7. FewKnown(s.gone)
  BY <1>5, <1>6 DEF FewKnown
<1>8. QED
  BY <1>7

LEMMA FewKnownStep ==
  ASSUME RoomForAll, StackTypes, RadioInv, Moves, IdsMove,
         NEW s \in Scenarios, FewKnown(s.gone)
  PROVE  FewKnown(s.gone)'
<1>1. PICK G : G = s.gone
  OBVIOUS
<1>2. RunningIds \subseteq RunningIds' /\ FewKnown(G)
  BY <1>1, RunningIdsGrow
<1>3. ASSUME NEW n \in Node, NEW id \in neighbor_node_ids'[n] PROVE id \in RunningIds' \cup G
  <2>1. CASE id \in neighbor_node_ids[n]
    BY <1>2, <2>1 DEF FewKnown
  <2>2. CASE \E packet \in ToSet(rx[n]) :
               \/ packet.type = "NodeIdAnnouncement" /\ id = packet.source
               \/ /\ packet.type = "DiscoverResponse"
                  /\ \/ id \in {packet.source} \cup packet.neighbors
                     \/ ~(packet.num <= kNeighborsInPacket)
    <3>1. PICK packet \in ToSet(rx[n]) :
            \/ packet.type = "NodeIdAnnouncement" /\ id = packet.source
            \/ /\ packet.type = "DiscoverResponse"
               /\ \/ id \in {packet.source} \cup packet.neighbors
                  \/ ~(packet.num <= kNeighborsInPacket)
      BY <2>2
    <3>2. packet \in Packets(n)
      BY DEF Packets
    <3>3. Truthful(packet)
      BY <3>2 DEF RadioInv
    <3>4. CASE packet.type = "NodeIdAnnouncement" /\ id = packet.source
      BY <1>2, <3>3, <3>4 DEF Truthful
    <3>5. CASE packet.type = "DiscoverResponse" /\ id \in {packet.source} \cup packet.neighbors
      BY <1>2, <3>2, <3>5 DEF FewKnown
    <3>6. QED
      BY <1>2, <3>1, <3>2, <3>4, <3>5 DEF FewKnown
  <2>3. QED
    BY <2>1, <2>2 DEF IdsMove
<1> DEFINE Fits(packet) ==
             /\ {packet.source} \cup packet.neighbors \subseteq RunningIds' \cup G
             /\ packet.num <= kNeighborsInPacket
<1>4. ASSUME NEW n \in Node, NEW packet \in Packets(n), packet.type = "DiscoverResponse"
      PROVE  Fits(packet)
  BY <1>2, <1>4 DEF FewKnown
<1>5. ASSUME NEW n \in Node, NEW packet, New(n, packet), packet.type = "DiscoverResponse"
      PROVE  Fits(packet)
  <2>1. /\ n \notin InDiscovery /\ packet.source = node_id[n]
        /\ packet.neighbors \subseteq neighbor_node_ids[n]
        /\ packet.num \in 0..Cardinality(neighbor_node_ids[n]) /\ ToSet(rx[n]) # {}
    BY <1>5 DEF New
  <2>2. comms_state[n] # "CommsNone" /\ comms_state[n] \in {"CommsNone", "Discovery", "Running"}
    BY <2>1 DEF RadioInv, StackTypes, Typed, RadioTypes
  <2>3. n \in Running
    BY <2>1, <2>2 DEF InDiscovery, Running
  <2>4. node_id[n] \in RunningIds
    BY <2>3 DEF RunningIds
  <2>5. PICK known : known = neighbor_node_ids[n]
    OBVIOUS
  <2>6. known \subseteq RunningIds \cup G
    BY <1>2, <2>5 DEF FewKnown
  <2>7. Cardinality(known) \in Nat /\ Cardinality(known) <= kNeighborsInPacket
    BY <1>1, <2>6, RoomForKnown
  <2>8. packet.num <= kNeighborsInPacket
    BY <2>1, <2>5, <2>7, MeshAssumption
  <2>9. QED
    BY <1>2, <2>1, <2>4, <2>5, <2>6, <2>8
<1>6. ASSUME NEW n \in Node, NEW packet \in Packets(n)', packet.type = "DiscoverResponse"
      PROVE  Fits(packet)
  <2>1. packet \in ToSet(packets_to_send'[n]) \/ packet \in ToSet(rx'[n])
    BY <1>6 DEF Packets
  <2>2. \/ \E m \in Node : packet \in Packets(m)
        \/ New(n, packet)
    BY <2>1 DEF Moves, Packets
  <2>3. QED
    BY <1>4, <1>5, <1>6, <2>2
<1>7. FewKnown(G)'
  BY <1>3, <1>6 DEF FewKnown
<1>8. QED
  BY <1>1, <1>7

LEMMA DataToTakenStep ==
  ASSUME StackTypes, RadioInv, DataToTaken, Moves, NEW s \in Scenarios, FewKnown(s.gone)
  PROVE  DataToTaken'
<1>1. RunningIds \cup s.gone \subseteq TakenId
  BY ScenarioGone DEF RadioInv, RunningIds
<1>2. ASSUME NEW n \in Node, NEW packet \in ToSet(packets_to_send'[n]), packet.type = "Data"
      PROVE  packet.to \in TakenId
  <2>1. CASE packet \in ToSet(packets_to_send[n])
    BY <1>2, <2>1 DEF DataToTaken
  <2>2. CASE New(n, packet)
    <3>1. neighbor_node_ids[n] # {} /\ packet.to = first_neighbor[n]
      BY <1>2, <2>2 DEF New
    <3>2. packet.to \in neighbor_node_ids[n]
      BY <3>1 DEF StackTypes, Typed, FirstKnown
    <3>3. QED
      BY <1>1, <3>2 DEF FewKnown
  <2>3. QED
    BY <2>1, <2>2 DEF Moves
<1>3. QED
  BY <1>2 DEF DataToTaken, TakenId

\* The bytes of a payload are kept by a node other than n.
KeptElsewhere(n, payload) == \E m \in Node \ {n} : Its(payload) \subseteq Kept(m)

\* A node acknowledges what it keeps: who reads the acknowledgement is another one.
AcksTrue ==
  \A n \in Node :
    /\ \A packet \in ToSet(packets_to_send[n]) :
         packet.type = "DataAck" => Its(packet.payload) \subseteq Kept(n)
    /\ \A packet \in ToSet(rx[n]) :
         packet.type = "DataAck" => KeptElsewhere(n, packet.payload)

LEMMA AcksTrueStep ==
  ASSUME AcksTrue, Moves, \A m \in Node : Kept(m) \subseteq Kept(m)'
  PROVE  AcksTrue'
<1>1. \A payload : Its(payload)' = Its(payload)
  BY DEF Its
<1>2. \A n : \A payload : KeptElsewhere(n, payload) => KeptElsewhere(n, payload)'
  BY <1>1 DEF KeptElsewhere
<1>3. ASSUME NEW n \in Node, NEW packet \in ToSet(packets_to_send'[n]), packet.type = "DataAck"
      PROVE  Its(packet.payload) \subseteq Kept(n)'
  <2>1. CASE packet \in ToSet(packets_to_send[n])
    BY <1>3, <2>1 DEF AcksTrue
  <2>2. CASE New(n, packet)
    BY <1>3, <2>2 DEF New
  <2>3. QED
    BY <2>1, <2>2 DEF Moves
<1>4. ASSUME NEW n \in Node, NEW packet \in ToSet(rx'[n]), packet.type = "DataAck"
      PROVE  KeptElsewhere(n, packet.payload)'
  <2>1. CASE packet \in ToSet(rx[n])
    BY <1>2, <1>4, <2>1 DEF AcksTrue
  <2>2. CASE \E m \in Node \ {n} : packet \in ToSet(packets_to_send[m])
    <3>1. KeptElsewhere(n, packet.payload)
      BY <1>4, <2>2 DEF AcksTrue, KeptElsewhere
    <3>2. QED
      BY <1>2, <3>1
  <2>3. QED
    BY <2>1, <2>2 DEF Moves
<1>5. QED
  BY <1>1, <1>3, <1>4 DEF AcksTrue

AckedInv ==
  /\ QueuedData /\ RadioInv
  /\ DataToTaken /\ StrayFree /\ AcksTrue
  /\ \E s \in Scenarios : FewKnown(s.gone)

LEMMA AckedInit ==
  ASSUME StackInit PROVE AckedInv
<1>1. QueuedData
  BY NothingOwned DEF QueuedData
<1>2. DataToTaken /\ AcksTrue
  BY NothingOwned DEF DataToTaken, AcksTrue
<1>3. QED
  BY <1>1, <1>2, RadioInvInit, StrayFreeInit, FewKnownInit DEF AckedInv

LEMMA AckedStep ==
  ASSUME RoomForAll, StackTypes, AckedInv, [StackNext]_stackVars PROVE AckedInv'
<1>1. /\ QueuedData /\ RadioInv /\ DataToTaken /\ StrayFree /\ AcksTrue
      /\ \E s \in Scenarios : FewKnown(s.gone)
  BY DEF AckedInv
<1>2. Moves /\ QueuedData' /\ IdsMove
  BY <1>1, StackMoves, StackIdsMove
<1>3. RadioInv'
  BY <1>1, <1>2, RadioInvStep
<1>4. StrayFree' /\ \A m \in Node : Kept(m) \subseteq Kept(m)'
  BY <1>1, <1>2, StrayFreeStep, CollectedKept
<1>5. AcksTrue'
  BY <1>1, <1>2, <1>4, AcksTrueStep
<1>6. PICK s \in Scenarios : FewKnown(s.gone)
  BY <1>1
<1>7. FewKnown(s.gone)' /\ DataToTaken'
  BY <1>1, <1>2, <1>6, FewKnownStep, DataToTakenStep
<1>8. (\E s1 \in Scenarios : FewKnown(s1.gone))'
  BY <1>7
<1>9. QED
  BY <1>2, <1>3, <1>4, <1>5, <1>7, <1>8 DEF AckedInv

\* What is kept elsewhere has arrived.
LEMMA KeptElsewhereArrived ==
  ASSUME StackTypes, NEW n \in Node, NEW chunk \in ReadChunk, KeptElsewhere(n, chunk.payload)
  PROVE  Arrived(n, chunk.payload)
<1>1. PICK B : B = ReadByte
  OBVIOUS
<1>2. chunk.payload \in Seq(B)
  BY <1>1 DEF ReadChunk, Chunk
<1>3. ToSet(chunk.payload) = Its(chunk.payload)
  BY <1>2, SequenceElements DEF Its
<1>4. QED
  BY <1>3, KeptArrives DEF KeptElsewhere

\* What may happen to a pending packet in a step.
StaysPending(n, sent) ==
  \/ ~Alive(n)'
  \/ \E j \in DOMAIN pending_packets'[n] : pending_packets'[n][j].packet = sent.packet
  \/ sent.times_sent > kMaxTimesSent
  \/ /\ rx[n] # <<>> /\ Head(rx[n]).type = "DataAck"
     /\ SameContents(sent.packet.payload, Head(rx[n]).payload)
     /\ Arrived(n, Head(rx[n]).payload)

LEMMA PendingStays ==
  ASSUME StackTypes, StackTypes', AckedInv, [StackNext]_stackVars,
         NEW n \in Node, NEW i \in DOMAIN pending_packets[n]
  PROVE  StaysPending(n, pending_packets[n][i])
<1> DEFINE sent == pending_packets[n][i]
<1>1. i \in 1..Len(pending_packets[n]) /\ DOMAIN pending_packets'[n] = 1..Len(pending_packets'[n])
  <2>1. PICK Entry, EntryAfter :
          /\ Entry = [packet : ReadChunk, times_sent : Nat]
          /\ EntryAfter = [packet : ReadChunk', times_sent : Nat]
    OBVIOUS
  <2>2. pending_packets[n] \in Seq(Entry)
    BY <2>1, LayerSequences
  <2>3. pending_packets'[n] \in Seq(EntryAfter)
    BY <2>1 DEF StackTypes, Typed, Hold, LayersHold
  <2>4. QED
    BY <2>2, <2>3, LenProperties
<1>2. sent.packet \in PendingChunks(n)
  BY <1>1 DEF PendingChunks, ToSet
<1>3. CASE pending_packets'[n] = pending_packets[n]
  BY <1>3 DEF StaysPending
<1>4. ASSUME NEW m \in Node,
             \/ TunnelRun(m) \/ RadioSends(m) \/ RadioRun(m) \/ RadioLearns(m)
             \/ TunnelThread(m) \/ StartStack(m)
      PROVE  pending_packets' = pending_packets
  BY <1>4 DEF TunnelRun, RadioSends, RadioRun, RadioLearns, TunnelThread, StartStack,
              layerVars, ackVars
<1>5. CASE Passes \/ UNCHANGED stackVars
  BY <1>3, <1>5 DEF Passes, stackVars, layerVars, ackVars
<1>6. ASSUME NEW m \in Node, LayerRun(m) PROVE StaysPending(n, sent)
  <2>1. CASE m # n
    BY <1>3, <1>6, <2>1, LayerRunElements
  <2>2. CASE m = n
    <3>1. \/ sent.times_sent > kMaxTimesSent
          \/ \E j \in 1..Len(pending_packets'[n]) : pending_packets'[n][j].packet = sent.packet
      BY <1>1, <1>6, <2>2, LayerRunElements
    <3>2. QED
      BY <1>1, <3>1 DEF StaysPending
  <2>3. QED
    BY <2>1, <2>2
<1>7. ASSUME NEW m \in Node, RadioHandsUp(m) PROVE StaysPending(n, sent)
  <2> DEFINE packet == Head(rx[m])
  <2>1. /\ packet \in StackMail(ReadChunk) /\ CarriesData(packet) /\ packet \in ToSet(rx[m])
        /\ AckReceiveFromDownstream(m, Unaddressed(packet))
    BY <1>7, HandsUpElements
  <2>2. Unaddressed(packet) \in ReadChunk
    BY <2>1, DataRead
  <2>3. /\ Unaddressed(packet).type = packet.type
        /\ Unaddressed(packet).payload = packet.payload
    BY DEF Unaddressed
  <2> HIDE DEF packet
  <2>4. CASE m # n
    BY <1>3, <2>1, <2>2, <2>4, AckElements
  <2>5. CASE m = n
    <3>1. \/ packet.type = "DataAck" /\ SameContents(sent.packet.payload, packet.payload)
          \/ \E j \in 1..Len(pending_packets'[n]) : pending_packets'[n][j].packet = sent.packet
      BY <1>1, <2>1, <2>2, <2>3, <2>5, AckElements
    <3>2. CASE packet.type = "DataAck" /\ SameContents(sent.packet.payload, packet.payload)
      <4>1. KeptElsewhere(n, Unaddressed(packet).payload)
        BY <2>1, <2>3, <2>5, <3>2 DEF AckedInv, AcksTrue
      <4>2. Arrived(n, packet.payload)
        BY <2>2, <2>3, <4>1, KeptElsewhereArrived
      <4>3. rx[n] # <<>>
        BY <1>7, <2>5 DEF RadioHandsUp, HandUp
      <4>4. QED
        BY <2>5, <3>2, <4>2, <4>3 DEF StaysPending, packet
    <3>3. QED
      BY <1>1, <3>1, <3>2 DEF StaysPending
  <2>6. QED
    BY <2>4, <2>5
<1>8. ASSUME NEW m \in Node, StackEnds(m) PROVE StaysPending(n, sent)
  <2>1. CASE m # n
    BY <1>3, <1>8, <2>1, StackEndsElements
  <2>2. CASE m = n
    BY <1>8, <2>2, StackEndsElements DEF StaysPending, Alive
  <2>3. QED
    BY <2>1, <2>2
<1>9. QED
  BY <1>3, <1>4, <1>5, <1>6, <1>7, <1>8 DEF StackNext

\* No packet stops being pending at a node that lives on unless it was sent too
\* often or the node reads the acknowledgement of a packet of the same contents
\* that is at another node (AckedArrived), whatever is lost, late, acknowledged to
\* the wrong node or acknowledged twice, whichever bytes are equal, and with any
\* number of packets pending, if a response has room for all ids that are known:
\* beyond it nodes take up any id as a neighbor, and data may go to one that does
\* not run yet and ends.
THEOREM AcknowledgedArrived ==
  ASSUME RoomForAll
  PROVE  StackSpec => AckedArrived
<1>1. StackInit => StackTypes /\ AckedInv
  BY StackTypesInit, AckedInit
<1>2. StackTypes /\ AckedInv /\ [StackNext]_stackVars => (StackTypes /\ AckedInv)'
  BY StackTypesStep, AckedStep
<1> DEFINE Step == \A n \in Node : \A i \in DOMAIN pending_packets[n] :
                     LET sent == pending_packets[n][i]
                     IN  \/ ~Alive(n)'
                         \/ \E j \in DOMAIN pending_packets'[n] :
                              pending_packets'[n][j].packet = sent.packet
                         \/ sent.times_sent > kMaxTimesSent
                         \/ /\ rx[n] # <<>> /\ Head(rx[n]).type = "DataAck"
                            /\ SameContents(sent.packet.payload, Head(rx[n]).payload)
                            /\ Arrived(n, Head(rx[n]).payload)
<1>3. StackTypes /\ AckedInv /\ (StackTypes /\ AckedInv)' /\ [StackNext]_stackVars => [Step]_stackVars
  BY PendingStays DEF StaysPending
<1>4. QED
  BY <1>1, <1>2, <1>3, PTL DEF StackSpec, AckedArrived

-----------------------------------------------------------------------------
(* What is cut and put together again                                       *)

\* Increasing numbers that leave none of 1..L out are these themselves.
IncreasingOnto(pos, M, L) ==
  /\ pos \in [1..M -> 1..L]
  /\ \A i, j \in 1..M : i < j => pos[i] < pos[j]
  /\ \A b \in 1..L : \E i \in 1..M : pos[i] = b

LEMMA IncreasingOntoIdentity ==
  ASSUME NEW M \in Nat, NEW L \in Nat, NEW pos, IncreasingOnto(pos, M, L)
  PROVE  M = L /\ \A i \in 1..M : pos[i] = i
<1>0. /\ pos \in [1..M -> 1..L]
      /\ \A i, j \in 1..M : i < j => pos[i] < pos[j]
      /\ \A b \in 1..L : \E i \in 1..M : pos[i] = b
  BY DEF IncreasingOnto
<1>1. \A i \in 1..M : pos[i] = i
  <2> DEFINE Wrong == {i \in 1..M : pos[i] # i}
  <2>1. SUFFICES ASSUME Wrong # {} PROVE FALSE
    OBVIOUS
  <2>a. Wrong \in SUBSET Nat
    OBVIOUS
  <2>b. \A i : i \in Wrong <=> i \in 1..M /\ pos[i] # i
    OBVIOUS
  <2> HIDE DEF Wrong
  <2>2. PICK i \in Wrong : \A k \in Wrong : i <= k
    BY <1>0, <2>1, <2>a, LeastElement
  <2>3. i \in 1..M /\ pos[i] # i /\ \A k \in 1..M : k < i => pos[k] = k
    <3>1. \A k \in 1..M : k < i => k \notin Wrong
      BY <1>0, <2>a, <2>2
    <3>2. QED
      BY <1>0, <2>b, <2>2, <3>1
  <2>4. pos[i] > i
    <3>1. CASE i = 1
      BY <1>0, <2>3, <3>1
    <3>2. CASE i # 1
      <4>1. i - 1 \in 1..M /\ i - 1 < i
        BY <1>0, <2>3, <3>2
      <4>2. pos[i - 1] = i - 1 /\ pos[i - 1] < pos[i] /\ pos[i] \in Nat
        BY <1>0, <2>3, <4>1
      <4>3. QED
        BY <1>0, <2>3, <4>2
    <3>3. QED
      BY <1>0, <3>1, <3>2
  <2>5. i \in 1..L
    BY <1>0, <2>3, <2>4
  <2>6. PICK j \in 1..M : pos[j] = i
    BY <1>0, <2>5
  <2>7. CASE j < i
    BY <1>0, <2>3, <2>6, <2>7
  <2>8. CASE j = i
    BY <1>0, <2>3, <2>6, <2>8
  <2>9. CASE i < j
    <3>1. pos[i] < pos[j]
      BY <1>0, <2>3, <2>9
    <3>2. QED
      BY <1>0, <2>3, <2>4, <2>6, <3>1
  <2>10. QED
    BY <1>0, <2>3, <2>7, <2>8, <2>9
<1>2. M <= L
  <2>1. CASE M = 0
    BY <1>0, <2>1
  <2>2. CASE M # 0
    <3>1. M \in 1..M
      BY <1>0, <2>2
    <3>2. pos[M] = M /\ pos[M] \in 1..L
      BY <1>0, <1>1, <3>1
    <3>3. QED
      BY <1>0, <3>2
  <2>3. QED
    BY <1>0, <2>1, <2>2
<1>3. L <= M
  <2>1. CASE L = 0
    BY <1>0, <2>1
  <2>2. CASE L # 0
    <3>1. L \in 1..L
      BY <1>0, <2>2
    <3>2. PICK i \in 1..M : pos[i] = L
      BY <1>0, <3>1
    <3>3. QED
      BY <1>0, <1>1, <3>2
  <2>3. QED
    BY <1>0, <2>1, <2>2
<1>4. QED
  BY <1>0, <1>1, <1>2, <1>3

LEMMA FragmentsFlattened ==
  ASSUME NEW A, NEW data \in Seq(A), data # <<>>
  PROVE  FlattenSeq([i \in DOMAIN Fragments(data) |-> Fragments(data)[i].payload]) = data
<1> DEFINE P == PACKET_PAYLOAD_SIZE
           L == Len(data)
           N == NumberOfPackets(L)
           fragments == Fragments(data)
           payloads == [i \in DOMAIN fragments |-> fragments[i].payload]
           flat == FlattenSeq(payloads)
<1>1. P \in Nat \ {0} /\ L \in Nat \ {0}
  BY FragmentationAssumption, LenProperties, EmptySeq
<1>2. N \in Nat \ {0}
  BY <1>1, NumberOfPacketsFits
<1>3. /\ DOMAIN fragments = 1..N
      /\ \A i \in 1..N : /\ fragments[i].payload \in Seq(A) /\ (i - 1) * P \in Nat
                         /\ Len(fragments[i].payload) \in 1..P
                         /\ (i - 1) * P + Len(fragments[i].payload) <= L
                         /\ \A j \in 1..Len(fragments[i].payload) :
                              fragments[i].payload[j] = data[(i - 1) * P + j]
  <2>1. /\ DOMAIN fragments = 1..N
        /\ \A i \in 1..N : fragments[i].payload \in Seq(A) /\ FragmentAt(i, fragments[i], data)
    BY FragmentsProperties
  <2> HIDE DEF fragments, N
  <2>2. QED
    BY <2>1 DEF FragmentAt
<1>4. \A b \in 1..L : \E i \in 1..N : \E j \in 1..Len(fragments[i].payload) : (i - 1) * P + j = b
  BY FragmentsCover, Zenon
<1> HIDE DEF P, L, N, fragments
<1>5. payloads \in Seq(Seq(A)) /\ Len(payloads) = N /\ \A i \in 1..N : payloads[i] = fragments[i].payload
  BY <1>2, <1>3, IsASeq
<1>6. payloads # <<>>
  BY <1>2, <1>5, EmptySeq
<1> HIDE DEF payloads
<1>7. PICK row, col : Places(row, col, flat, N, payloads)
  BY <1>5, <1>6, FlattenPlaces
<1>8. flat \in Seq(A) /\ Len(flat) \in Nat
  BY <1>5, <1>6, FlattenPlaces, LenProperties
<1> HIDE DEF flat
<1> DEFINE M == Len(flat)
           pos == [i \in 1..M |-> (row[i] - 1) * P + col[i]]
<1>9. /\ row \in [1..M -> 1..N] /\ col \in [1..M -> Nat]
      /\ \A i \in 1..M : /\ col[i] \in 1..Len(fragments[row[i]].payload)
                         /\ flat[i] = fragments[row[i]].payload[col[i]]
      /\ \A i, j \in 1..M : i < j => \/ row[i] < row[j]
                                     \/ row[i] = row[j] /\ col[i] < col[j]
      /\ \A k \in 1..N : \A l \in 1..Len(fragments[k].payload) :
           \E i \in 1..M : row[i] = k /\ col[i] = l
  <2>1. /\ row \in [1..M -> 1..N] /\ col \in [1..M -> Nat]
        /\ \A i \in 1..M : col[i] \in 1..Len(payloads[row[i]]) /\ flat[i] = payloads[row[i]][col[i]]
        /\ \A i, j \in 1..M : i < j => row[i] < row[j] \/ (row[i] = row[j] /\ col[i] < col[j])
        /\ \A k \in 1..N : \A l \in 1..Len(payloads[k]) : \E i \in 1..M : row[i] = k /\ col[i] = l
    BY <1>7 DEF Places
  <2> HIDE DEF M
  <2>2. \A i \in 1..M : row[i] \in 1..N
    BY <2>1
  <2>3. \A i \in 1..M : payloads[row[i]] = fragments[row[i]].payload
    BY <1>5, <2>2
  <2>4. \A i \in 1..M : /\ col[i] \in 1..Len(fragments[row[i]].payload)
                        /\ flat[i] = fragments[row[i]].payload[col[i]]
    BY <2>1, <2>3
  <2>5. \A k \in 1..N : \A l \in 1..Len(fragments[k].payload) :
           \E i \in 1..M : row[i] = k /\ col[i] = l
    BY <1>5, <2>1
  <2>6. QED
    BY <2>1, <2>4, <2>5
<1> HIDE DEF M
<1>10. ASSUME NEW i \in 1..M
       PROVE  /\ pos[i] = (row[i] - 1) * P + col[i] /\ (row[i] - 1) * P \in Nat
              /\ row[i] \in 1..N /\ col[i] \in 1..P /\ pos[i] \in 1..L /\ flat[i] = data[pos[i]]
  <2>1. /\ row[i] \in 1..N /\ col[i] \in 1..Len(fragments[row[i]].payload)
        /\ flat[i] = fragments[row[i]].payload[col[i]]
    BY <1>9
  <2>2. PICK k, l, size : k = row[i] /\ l = col[i] /\ size = Len(fragments[row[i]].payload)
    OBVIOUS
  <2>3. /\ (k - 1) * P \in Nat /\ size \in 1..P /\ l \in 1..size /\ (k - 1) * P + size <= L
        /\ flat[i] = data[(k - 1) * P + l]
    BY <1>3, <2>1, <2>2
  <2>4. l \in 1..P /\ (k - 1) * P + l \in 1..L
    BY <1>1, <2>3
  <2>5. QED
    BY <2>1, <2>2, <2>3, <2>4
<1>11. ASSUME NEW i \in 1..M, NEW j \in 1..M, i < j PROVE pos[i] < pos[j]
  <2>1. PICK k, l, x, y : k = row[i] /\ l = row[j] /\ x = col[i] /\ y = col[j]
    OBVIOUS
  <2>2. /\ k \in 1..N /\ l \in 1..N /\ x \in 1..P /\ y \in 1..P
        /\ pos[i] = (k - 1) * P + x /\ pos[j] = (l - 1) * P + y
        /\ k < l \/ (k = l /\ x < y)
    BY <1>9, <1>10, <1>11, <2>1
  <2> HIDE DEF pos
  <2>3. CASE k = l /\ x < y
    BY <1>1, <2>2, <2>3
  <2>4. CASE k < l
    <3>1. k * P <= (l - 1) * P /\ k * P \in Nat /\ (l - 1) * P \in Nat
      <4>1. k \in Nat /\ l - 1 \in Nat /\ k <= l - 1
        BY <1>2, <2>2, <2>4
      <4>2. QED
        BY <1>1, <4>1, TimesGrows
    <3>2. (k - 1) * P + P = k * P /\ (k - 1) * P \in Int
      BY <1>1, <2>2
    <3>3. QED
      BY <1>1, <2>2, <3>1, <3>2
  <2>5. QED
    BY <2>2, <2>3, <2>4
<1>12. ASSUME NEW b \in 1..L PROVE \E i \in 1..M : pos[i] = b
  <2>1. PICK k \in 1..N : \E l \in 1..Len(fragments[k].payload) : (k - 1) * P + l = b
    BY <1>4
  <2>2. PICK l \in 1..Len(fragments[k].payload) : (k - 1) * P + l = b
    BY <2>1
  <2>3. PICK i \in 1..M : row[i] = k /\ col[i] = l
    BY <1>9
  <2>4. QED
    BY <1>10, <2>2, <2>3
<1>13. pos \in [1..M -> 1..L]
  <2>1. \A i \in 1..M : pos[i] \in 1..L
    BY <1>10
  <2>2. QED
    BY <2>1
<1>14. M \in Nat /\ L \in Nat
  BY <1>1, <1>8 DEF M
<1> HIDE DEF pos
<1>15. M = L /\ \A i \in 1..M : pos[i] = i
  <2>1. \A i, j \in 1..M : i < j => pos[i] < pos[j]
    BY <1>11
  <2>2. \A b \in 1..L : \E i \in 1..M : pos[i] = b
    BY <1>12
  <2>3. IncreasingOnto(pos, M, L)
    BY <1>13, <2>1, <2>2 DEF IncreasingOnto
  <2>4. QED
    BY <1>14, <2>3, IncreasingOntoIdentity
<1>16. \A i \in 1..M : flat[i] = data[i]
  BY <1>10, <1>15
<1>17. flat = data
  BY <1>8, <1>15, <1>16, SeqEqual DEF M, L
<1>18. QED
  BY <1>17 DEF flat, payloads, fragments

\* A frame that is cut (Fragments) and whose fragments one node collects in order
\* comes out as it was (Message), for every length and every payload size; the
\* last fragment, and no other, is final.
THEOREM FramesComeOutWhole ==
  ASSUME NEW A, NEW data \in Seq(A), data # <<>>, NEW n,
         fragmented_packets[n] = SubSeq(Fragments(data), 1, Len(Fragments(data)) - 1)
  PROVE  /\ Message(n, Fragments(data)[Len(Fragments(data))]) = data
         /\ \A i \in DOMAIN Fragments(data) :
              Fragments(data)[i].final <=> i = Len(Fragments(data))
<1> DEFINE N == Len(Fragments(data))
           fragments == Fragments(data)
           C == {fragments[i] : i \in 1..N}
           first == SubSeq(fragments, 1, N - 1)
<1>1. Len(data) \in Nat \ {0} /\ PACKET_PAYLOAD_SIZE \in Nat \ {0}
  BY FragmentationAssumption, LenProperties, EmptySeq
<1>2. N \in Nat \ {0} /\ DOMAIN fragments = 1..N
  BY <1>1, NumberOfPacketsFits, FragmentsProperties
<1>3. \A i \in 1..N : fragments[i].final <=> i = N
  <2>1. /\ N = NumberOfPackets(Len(data))
        /\ \A i \in 1..N : FragmentAt(i, fragments[i], data)
    BY FragmentsProperties
  <2> HIDE DEF fragments, N
  <2>2. QED
    BY <2>1, Zenon DEF FragmentAt
<1>4. fragments = [i \in 1..N |-> fragments[i]]
  BY <1>2 DEF Fragments
<1>5. fragmented_packets[n] = first /\ fragments = Fragments(data)
  OBVIOUS
<1> HIDE DEF fragments, N
<1>6. /\ first \in Seq(C) /\ Len(first) = N - 1
      /\ \A i \in 1..N - 1 : first[i] = fragments[i]
  <2>1. \A i \in 1..N - 1 : fragments[i] \in C
    BY <1>2
  <2> HIDE DEF C
  <2>2. /\ first \in Seq(C) /\ Len(first) = IF 1 <= N - 1 THEN N - 1 - 1 + 1 ELSE 0
        /\ \A i \in 1..N - 1 - 1 + 1 : first[i] = fragments[1 + i - 1]
    BY <1>2, <2>1, SubSeqProperties
  <2>3. QED
    BY <1>2, <2>2
<1>7. fragments \in Seq(C) /\ Len(fragments) = N /\ fragments[N] \in C
  <2>1. \A i \in 1..N : fragments[i] \in C
    OBVIOUS
  <2>2. N \in 1..N
    BY <1>2
  <2> HIDE DEF C
  <2>3. QED
    BY <1>2, <1>4, <2>1, <2>2, IsASeq
<1> HIDE DEF C, first
<1>8. Append(first, fragments[N]) = fragments
  <2> DEFINE whole == Append(first, fragments[N])
  <2>1. /\ whole \in Seq(C) /\ Len(whole) = N - 1 + 1
        /\ \A i \in 1..N - 1 : whole[i] = first[i]
        /\ whole[N - 1 + 1] = fragments[N]
    BY <1>6, <1>7, AppendProperties
  <2> HIDE DEF whole
  <2>2. N - 1 + 1 = N /\ \A i \in 1..N : i \in 1..N - 1 \/ i = N
    BY <1>2
  <2>3. Len(whole) = Len(fragments) /\ \A i \in 1..N : whole[i] = fragments[i]
    BY <1>6, <1>7, <2>1, <2>2
  <2>4. whole = fragments
    BY <1>7, <2>1, <2>3, SeqEqual
  <2>5. QED
    BY <2>4 DEF whole
<1>9. Message(n, fragments[N]) = FlattenSeq([i \in DOMAIN fragments |-> fragments[i].payload])
  BY <1>5, <1>8 DEF Message
<1>10. Message(n, fragments[N]) = data
  BY <1>5, <1>9, FragmentsFlattened
<1>11. QED
  BY <1>2, <1>3, <1>10 DEF fragments, N

=============================================================================
