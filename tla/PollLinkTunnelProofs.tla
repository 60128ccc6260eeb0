------------------------- MODULE PollLinkTunnelProofs -------------------------
(* The poll link implements FrameTunnel, for every value of the constants,  *)
(* when answers are in time and the secondary does not restart.             *)
EXTENDS PollLinkSessionProofs

-----------------------------------------------------------------------------
(* Pieces: bytes of one frame, one after the other, none left out.          *)

FrameNo(frame) == frame[1][1]

Piece(frame) ==
  \A i \in 1..Len(frame) :
    /\ frame[i] = <<frame[1][1], frame[1][2] + i - 1>>
    /\ frame[1][2] >= 1

\* next begins where frame stops.
Follows(frame, next) == next[1] = <<frame[1][1], frame[1][2] + Len(frame)>>

\* The bytes of a frame are pairs of numbers.
LEMMA ByteTypes ==
  ASSUME NEW frame \in Frame, frame # <<>>
  PROVE  /\ Len(frame) \in Nat /\ Len(frame) >= 1
         /\ \A i \in 1..Len(frame) :
              /\ frame[i] \in Byte /\ frame[i][1] \in Nat /\ frame[i][2] \in Nat
              /\ frame[i] = <<frame[i][1], frame[i][2]>>
<1>1. Len(frame) \in Nat /\ Len(frame) >= 1
  BY EmptySeq DEF Frame
<1>2. \A i \in 1..Len(frame) : frame[i] \in Byte
  BY ElementOfSeq DEF Frame
<1>3. QED
  BY <1>1, <1>2 DEF Byte

\* The chunk at the front of a piece is a piece that begins where it begins.
LEMMA ChunkPiece ==
  ASSUME NEW frame \in Frame, frame # <<>>, Piece(frame)
  PROVE  /\ Chunk(frame) \in Frame /\ Chunk(frame) # <<>>
         /\ Piece(Chunk(frame))
         /\ Chunk(frame)[1] = frame[1]
         /\ Len(frame) > kMaxPayloadSize => Len(Chunk(frame)) = kMaxPayloadSize
<1>1. Len(Chunk(frame)) >= 1 /\ Chunk(frame) \in Frame
  BY ChunkType
<1>2. /\ Chunk(frame) # <<>> /\ Chunk(frame)[1] = frame[1]
      /\ Len(Chunk(frame)) \in Nat /\ Len(Chunk(frame)) <= Len(frame)
      /\ \A i \in 1..Len(Chunk(frame)) : Chunk(frame)[i] = frame[i] /\ i \in 1..Len(frame)
  <2>1. Len(Chunk(frame)) \in Nat /\ Len(Chunk(frame)) <= Len(frame) /\ Len(frame) \in Nat
    BY <1>1, ChunkType, ByteTypes
  <2>2. Chunk(frame) # <<>>
    BY <1>1
  <2>3. QED
    BY <1>1, <2>1, <2>2, ChunkType
<1>3. Piece(Chunk(frame))
  BY <1>2 DEF Piece
<1>4. Len(frame) > kMaxPayloadSize => Len(Chunk(frame)) = kMaxPayloadSize
  BY ChunkType, ByteTypes, RadioAssumption DEF GetTransferSize
<1>5. QED
  BY <1>1, <1>2, <1>3, <1>4

\* What is left of a piece behind its chunk is a piece that follows the chunk.
Rest(frame) == SubSeq(frame, GetTransferSize(frame) + 1, Len(frame))

LEMMA RestPiece ==
  ASSUME NEW frame \in Frame, Piece(frame), Len(frame) > kMaxPayloadSize
  PROVE  /\ Rest(frame) \in Frame /\ Rest(frame) # <<>> /\ Piece(Rest(frame))
         /\ Rest(frame)[1] = <<frame[1][1], frame[1][2] + kMaxPayloadSize>>
<1>1. Len(frame) \in Nat /\ frame # <<>> /\ GetTransferSize(frame) = kMaxPayloadSize
  BY LenProperties, EmptySeq, RadioAssumption DEF GetTransferSize, Frame
<1>2. kMaxPayloadSize \in Nat /\ kMaxPayloadSize >= 1
  BY RadioAssumption
<1>3. \A i \in kMaxPayloadSize + 1..Len(frame) : frame[i] \in Byte
  BY <1>1, <1>2, ByteTypes
<1>4. /\ Rest(frame) \in Seq(Byte) /\ Len(Rest(frame)) = Len(frame) - kMaxPayloadSize
      /\ \A i \in 1..Len(frame) - kMaxPayloadSize : Rest(frame)[i] = frame[kMaxPayloadSize + i]
  <2>1. /\ Rest(frame) \in Seq(Byte)
        /\ Len(Rest(frame)) = Len(frame) - (kMaxPayloadSize + 1) + 1
        /\ \A i \in 1..Len(frame) - (kMaxPayloadSize + 1) + 1 :
             Rest(frame)[i] = frame[(kMaxPayloadSize + 1) + i - 1]
    BY <1>1, <1>2, <1>3, SubSeqProperties DEF Rest
  <2>2. Len(frame) - (kMaxPayloadSize + 1) + 1 = Len(frame) - kMaxPayloadSize
    BY <1>1, <1>2
  <2>3. \A i \in 1..Len(frame) - kMaxPayloadSize :
          (kMaxPayloadSize + 1) + i - 1 = kMaxPayloadSize + i
    BY <1>1, <1>2
  <2>4. QED
    BY <2>1, <2>2, <2>3
<1> DEFINE n == frame[1][1]
           k == frame[1][2]
<1>5. /\ n \in Nat /\ k \in Nat /\ k >= 1
      /\ \A i \in 1..Len(frame) : frame[i] = <<n, k + i - 1>>
  BY <1>1, ByteTypes DEF Piece
<1> HIDE DEF n, k
<1>6. \A i \in 1..Len(Rest(frame)) : Rest(frame)[i] = <<n, (k + kMaxPayloadSize) + i - 1>>
  <2> SUFFICES ASSUME NEW i \in 1..Len(Rest(frame))
               PROVE  Rest(frame)[i] = <<n, (k + kMaxPayloadSize) + i - 1>>
    OBVIOUS
  <2>1. i \in 1..Len(frame) - kMaxPayloadSize /\ kMaxPayloadSize + i \in 1..Len(frame)
    BY <1>1, <1>2, <1>4
  <2>2. Rest(frame)[i] = <<n, k + (kMaxPayloadSize + i) - 1>>
    BY <1>4, <1>5, <2>1
  <2>3. k + (kMaxPayloadSize + i) - 1 = (k + kMaxPayloadSize) + i - 1
    BY <1>2, <1>5
  <2>4. QED
    BY <2>2, <2>3
<1>7. Len(Rest(frame)) \in Nat /\ Len(Rest(frame)) >= 1
  BY <1>1, <1>2, <1>4
<1>8. Rest(frame) # <<>> /\ Rest(frame)[1] = <<n, k + kMaxPayloadSize>>
  <2>1. Rest(frame) # <<>>
    BY <1>7
  <2>2. 1 \in 1..Len(Rest(frame))
    BY <1>7
  <2>3. (k + kMaxPayloadSize) + 1 - 1 = k + kMaxPayloadSize
    BY <1>2, <1>5
  <2>4. QED
    BY <1>6, <2>1, <2>2, <2>3
<1>9. Rest(frame)[1][1] = n /\ Rest(frame)[1][2] = k + kMaxPayloadSize /\ Rest(frame)[1][2] >= 1
  <2>1. Rest(frame)[1][1] = n /\ Rest(frame)[1][2] = k + kMaxPayloadSize
    BY <1>8
  <2>2. k + kMaxPayloadSize >= 1
    BY <1>2, <1>5
  <2>3. QED
    BY <2>1, <2>2
<1>10. Piece(Rest(frame))
  BY <1>6, <1>9 DEF Piece
<1>11. QED
  BY <1>4, <1>8, <1>10 DEF Frame, n, k

\* A piece and one that follows it make one piece.
LEMMA ConcatPiece ==
  ASSUME NEW frame \in Frame, NEW next \in Frame, Piece(frame), Piece(next),
         next # <<>>, frame # <<>> => Follows(frame, next)
  PROVE  /\ frame \o next \in Frame /\ frame \o next # <<>> /\ Piece(frame \o next)
         /\ FrameNo(frame \o next) = FrameNo(next)
         /\ frame # <<>> => FrameNo(frame) = FrameNo(next)
         /\ \A more : more[1] = <<next[1][1], next[1][2] + Len(next)>>
                        => Follows(frame \o next, more)
<1>1. /\ Len(next) \in Nat /\ Len(next) >= 1 /\ Len(frame) \in Nat
      /\ next[1][1] \in Nat /\ next[1][2] \in Nat /\ next[1][2] >= 1
      /\ \A i \in 1..Len(next) : next[i] = <<next[1][1], next[1][2] + i - 1>>
  BY ByteTypes, LenProperties DEF Piece, Frame
<1>2. CASE frame = <<>>
  <2>1. frame \o next = next
    BY <1>2, ConcatEmptySeq DEF Frame
  <2>2. QED
    BY <1>2, <2>1 DEF Follows
<1>3. CASE frame # <<>>
  <2> DEFINE whole == frame \o next
  <2>1. /\ whole \in Frame /\ Len(whole) = Len(frame) + Len(next)
        /\ \A i \in 1..Len(frame) + Len(next) :
             whole[i] = IF i <= Len(frame) THEN frame[i] ELSE next[i - Len(frame)]
    BY ConcatProperties DEF Frame
  <2> HIDE DEF whole
  <2>2. /\ Len(frame) >= 1 /\ frame[1][1] \in Nat /\ frame[1][2] \in Nat
        /\ frame[1][2] >= 1
        /\ \A i \in 1..Len(frame) : frame[i] = <<frame[1][1], frame[1][2] + i - 1>>
    BY <1>3, ByteTypes DEF Piece
  <2>3. whole[1] = frame[1]
    BY <1>1, <2>1, <2>2
  <2>4. /\ next[1] = <<frame[1][1], frame[1][2] + Len(frame)>>
        /\ next[1][1] = frame[1][1] /\ next[1][2] = frame[1][2] + Len(frame)
    BY <1>3 DEF Follows
  <2>5. \A i \in 1..Len(whole) : whole[i] = <<frame[1][1], frame[1][2] + i - 1>>
    <3> SUFFICES ASSUME NEW i \in 1..Len(whole)
                 PROVE  whole[i] = <<frame[1][1], frame[1][2] + i - 1>>
      OBVIOUS
    <3>1. CASE i <= Len(frame)
      <4>1. i \in 1..Len(frame) /\ whole[i] = frame[i]
        BY <1>1, <2>1, <3>1
      <4>2. QED
        BY <2>2, <4>1
    <3>2. CASE i > Len(frame)
      <4>1. /\ whole[i] = next[i - Len(frame)] /\ i - Len(frame) \in 1..Len(next)
        BY <1>1, <2>1, <3>2
      <4>2. next[i - Len(frame)]
              = <<frame[1][1], (frame[1][2] + Len(frame)) + (i - Len(frame)) - 1>>
        BY <1>1, <2>4, <4>1
      <4>3. (frame[1][2] + Len(frame)) + (i - Len(frame)) - 1 = frame[1][2] + i - 1
        BY <1>1, <2>1, <2>2
      <4>4. QED
        BY <4>1, <4>2, <4>3
    <3>3. QED
      BY <1>1, <2>1, <3>1, <3>2
  <2>6. Piece(whole) /\ whole # <<>>
    BY <1>1, <2>1, <2>2, <2>3, <2>5, EmptySeq DEF Piece
  <2>7. ASSUME NEW more, more[1] = <<next[1][1], next[1][2] + Len(next)>>
        PROVE  Follows(whole, more)
    BY <1>1, <2>1, <2>2, <2>3, <2>4, <2>7 DEF Follows
  <2>8. QED
    BY <2>1, <2>3, <2>4, <2>6, <2>7 DEF whole, FrameNo
<1>4. QED
  BY <1>2, <1>3

-----------------------------------------------------------------------------
(* Read buffers: whole frames behind what is left of one, in order.         *)

GoodBuffer(buffer) ==
  /\ \A j \in 1..Len(buffer) : buffer[j] # <<>> /\ Piece(buffer[j])
  /\ \A i, j \in 1..Len(buffer) : i < j => FrameNo(buffer[i]) < FrameNo(buffer[j])

\* What the next packet carries a chunk of, if anything.
NextPiece(buffer) == IF buffer = <<>> THEN <<>> ELSE Head(buffer)

\* The buffer once the chunk at its front is acknowledged.
AfterAck(buffer) == IF buffer = <<>> THEN <<>> ELSE EraseChunk(buffer)

LEMMA HeadGood ==
  ASSUME NEW buffer \in Seq(Frame), GoodBuffer(buffer), buffer # <<>>
  PROVE  /\ Head(buffer) \in Frame /\ Head(buffer) # <<>> /\ Piece(Head(buffer))
         /\ FrameNo(Head(buffer)) \in Nat
         /\ NextPiece(buffer) = Head(buffer)
         /\ \A j \in 1..Len(buffer) : j > 1 => FrameNo(buffer[j]) > FrameNo(Head(buffer))
<1>1. Head(buffer) \in Frame /\ Head(buffer) = buffer[1] /\ 1 \in 1..Len(buffer)
  BY HeadTailProperties, EmptySeq
<1>2. Head(buffer) # <<>> /\ Piece(Head(buffer))
  BY <1>1 DEF GoodBuffer
<1>3. FrameNo(Head(buffer)) \in Nat
  BY <1>1, <1>2, ByteTypes DEF FrameNo
<1>4. ASSUME NEW j \in 1..Len(buffer), j > 1 PROVE FrameNo(buffer[j]) > FrameNo(Head(buffer))
  <2>1. buffer[j] \in Frame /\ buffer[j] # <<>>
    BY ElementOfSeq DEF GoodBuffer
  <2>2. FrameNo(buffer[j]) \in Nat
    BY <2>1, ByteTypes DEF FrameNo
  <2>3. FrameNo(buffer[1]) < FrameNo(buffer[j])
    BY <1>1, <1>4 DEF GoodBuffer
  <2>4. QED
    BY <1>1, <1>3, <2>2, <2>3
<1>5. QED
  BY <1>1, <1>2, <1>3, <1>4 DEF NextPiece

\* A frame whose last chunk is acknowledged leaves the buffer.
LEMMA EraseLast ==
  ASSUME NEW buffer \in Seq(Frame), GoodBuffer(buffer), buffer # <<>>,
         Len(Head(buffer)) <= kMaxPayloadSize
  PROVE  /\ EraseChunk(buffer) = Tail(buffer)
         /\ GoodBuffer(EraseChunk(buffer))
         /\ EraseChunk(buffer) # <<>> =>
              FrameNo(NextPiece(EraseChunk(buffer))) > FrameNo(Head(buffer))
<1>1. Head(buffer) \in Frame /\ Len(Head(buffer)) \in Nat
  BY HeadGood, ByteTypes
<1>2. GetTransferSize(Head(buffer)) = Len(Head(buffer))
  BY <1>1, RadioAssumption DEF GetTransferSize
<1>3. SubSeq(Head(buffer), GetTransferSize(Head(buffer)) + 1, Len(Head(buffer))) = <<>>
  BY <1>1, <1>2, SubSeqEmpty
<1>4. EraseChunk(buffer) = Tail(buffer)
  BY <1>3 DEF EraseChunk
<1>5. /\ Len(Tail(buffer)) = Len(buffer) - 1 /\ Len(buffer) \in Nat
      /\ Tail(buffer) \in Seq(Frame)
      /\ \A j \in 1..Len(Tail(buffer)) :
           Tail(buffer)[j] = buffer[j + 1] /\ j + 1 \in 1..Len(buffer)
  <2>1. /\ Len(Tail(buffer)) = Len(buffer) - 1 /\ Tail(buffer) \in Seq(Frame)
        /\ \A j \in 1..Len(Tail(buffer)) : Tail(buffer)[j] = buffer[j + 1]
    BY HeadTailProperties
  <2>2. Len(buffer) \in Nat
    BY LenProperties
  <2>3. \A j \in 1..Len(Tail(buffer)) : j + 1 \in 1..Len(buffer)
    BY <2>1, <2>2
  <2>4. QED
    BY <2>1, <2>2, <2>3
<1>6. GoodBuffer(Tail(buffer))
  BY <1>5 DEF GoodBuffer
<1>7. ASSUME Tail(buffer) # <<>>
      PROVE  FrameNo(NextPiece(Tail(buffer))) > FrameNo(Head(buffer))
  <2>1. 1 \in 1..Len(Tail(buffer)) /\ Head(Tail(buffer)) = Tail(buffer)[1]
    BY <1>5, <1>7, EmptySeq, HeadTailProperties
  <2>2. Tail(buffer)[1] = buffer[2] /\ 2 \in 1..Len(buffer)
    BY <1>5, <2>1
  <2>3. FrameNo(buffer[2]) > FrameNo(Head(buffer))
    BY <2>2, HeadGood
  <2>4. QED
    BY <1>7, <2>1, <2>2, <2>3 DEF NextPiece
<1>8. QED
  BY <1>4, <1>6, <1>7

\* Of any other frame the rest stays at the front.
LEMMA EraseOther ==
  ASSUME NEW buffer \in Seq(Frame), GoodBuffer(buffer), buffer # <<>>,
         Len(Head(buffer)) > kMaxPayloadSize
  PROVE  /\ EraseChunk(buffer) = <<Rest(Head(buffer))>> \o Tail(buffer)
         /\ GoodBuffer(EraseChunk(buffer))
         /\ EraseChunk(buffer) # <<>>
         /\ NextPiece(EraseChunk(buffer)) = Rest(Head(buffer))
         /\ FrameNo(Rest(Head(buffer))) = FrameNo(Head(buffer))
         /\ Len(EraseChunk(buffer)) = Len(buffer)
         /\ EraseChunk(buffer)[1] = Rest(Head(buffer))
         /\ \A j \in 1..Len(buffer) : j > 1 => EraseChunk(buffer)[j] = buffer[j]
<1> DEFINE rest == Rest(Head(buffer))
           left == EraseChunk(buffer)
<1>1. /\ Head(buffer) \in Frame /\ Piece(Head(buffer)) /\ FrameNo(Head(buffer)) \in Nat
      /\ \A j \in 1..Len(buffer) : j > 1 => FrameNo(buffer[j]) > FrameNo(Head(buffer))
  BY HeadGood
<1>2. /\ rest \in Frame /\ rest # <<>> /\ Piece(rest)
      /\ FrameNo(rest) = FrameNo(Head(buffer))
  BY <1>1, RestPiece DEF FrameNo
<1>3. left = <<rest>> \o Tail(buffer)
  BY <1>2 DEF EraseChunk, Rest
<1> HIDE DEF rest, left
<1>4. /\ Tail(buffer) \in Seq(Frame) /\ Len(buffer) \in Nat /\ Len(buffer) >= 1
      /\ Len(Tail(buffer)) = Len(buffer) - 1
      /\ \A j \in 1..Len(Tail(buffer)) : Tail(buffer)[j] = buffer[j + 1]
  BY HeadTailProperties, EmptySeq
<1>5. <<rest>> \in Seq(Frame) /\ Len(<<rest>>) = 1 /\ <<rest>>[1] = rest
  BY <1>2
<1>6. /\ left \in Seq(Frame) /\ Len(left) = Len(buffer)
      /\ left[1] = rest
      /\ \A j \in 1..Len(buffer) : j > 1 => left[j] = buffer[j]
  <2>1. /\ left \in Seq(Frame) /\ Len(left) = 1 + Len(Tail(buffer))
        /\ \A j \in 1..1 + Len(Tail(buffer)) :
             left[j] = IF j <= 1 THEN <<rest>>[j] ELSE Tail(buffer)[j - 1]
    BY <1>3, <1>4, <1>5, ConcatProperties
  <2>2. Len(left) = Len(buffer) /\ left[1] = rest
    BY <1>4, <1>5, <2>1
  <2>3. ASSUME NEW j \in 1..Len(buffer), j > 1 PROVE left[j] = buffer[j]
    <3>1. left[j] = Tail(buffer)[j - 1] /\ j - 1 \in 1..Len(Tail(buffer))
      BY <1>4, <2>1, <2>3
    <3>2. Tail(buffer)[j - 1] = buffer[(j - 1) + 1] /\ (j - 1) + 1 = j
      BY <1>4, <3>1
    <3>3. QED
      BY <3>1, <3>2
  <2>4. QED
    BY <2>1, <2>2, <2>3
<1>7. GoodBuffer(left)
  <2>1. ASSUME NEW j \in 1..Len(left) PROVE left[j] # <<>> /\ Piece(left[j])
    <3>1. CASE j = 1
      BY <1>2, <1>6, <3>1
    <3>2. CASE j > 1
      BY <1>6, <3>2 DEF GoodBuffer
    <3>3. QED
      BY <1>4, <1>6, <3>1, <3>2
  <2>2. ASSUME NEW i \in 1..Len(left), NEW j \in 1..Len(left), i < j
        PROVE  FrameNo(left[i]) < FrameNo(left[j])
    <3>1. j > 1 /\ left[j] = buffer[j] /\ j \in 1..Len(buffer)
      BY <1>4, <1>6, <2>2
    <3>2. CASE i = 1
      <4>1. buffer[j] \in Frame /\ buffer[j] # <<>>
        BY <3>1, ElementOfSeq DEF GoodBuffer
      <4>2. FrameNo(buffer[j]) \in Nat
        BY <4>1, ByteTypes DEF FrameNo
      <4>3. FrameNo(left[i]) = FrameNo(Head(buffer)) /\ FrameNo(buffer[j]) > FrameNo(Head(buffer))
        BY <1>1, <1>2, <1>6, <3>1, <3>2
      <4>4. QED
        BY <1>1, <3>1, <4>2, <4>3
    <3>3. CASE i > 1
      BY <1>6, <2>2, <3>1, <3>3 DEF GoodBuffer
    <3>4. QED
      BY <1>4, <1>6, <3>2, <3>3
  <2>3. QED
    BY <2>1, <2>2 DEF GoodBuffer
<1>8. left # <<>> /\ Head(left) = rest
  BY <1>4, <1>6
<1>9. QED
  BY <1>2, <1>3, <1>6, <1>7, <1>8 DEF NextPiece, rest, left

\* The buffer after an acknowledgement, in either case.
LEMMA AfterAckGood ==
  ASSUME NEW buffer \in Seq(Frame), GoodBuffer(buffer)
  PROVE  AfterAck(buffer) \in Seq(Frame) /\ GoodBuffer(AfterAck(buffer))
<1>1. CASE buffer = <<>>
  BY <1>1, EmptySeq DEF AfterAck
<1>2. CASE buffer # <<>>
  <2>1. Len(Head(buffer)) \in Nat
    BY <1>2, HeadGood, ByteTypes
  <2>2. GoodBuffer(EraseChunk(buffer))
    <3>1. CASE Len(Head(buffer)) <= kMaxPayloadSize
      BY <1>2, <3>1, EraseLast
    <3>2. CASE Len(Head(buffer)) > kMaxPayloadSize
      BY <1>2, <3>2, EraseOther
    <3>3. QED
      BY <2>1, <3>1, <3>2, RadioAssumption
  <2>3. QED
    BY <1>2, <2>2, EraseChunkType DEF AfterAck
<1>3. QED
  BY <1>1, <1>2

\* A later frame goes behind the others.
LEMMA AppendGood ==
  ASSUME NEW buffer \in Seq(Frame), GoodBuffer(buffer),
         NEW frame \in Frame, frame # <<>>, Piece(frame),
         \A j \in 1..Len(buffer) : FrameNo(buffer[j]) < FrameNo(frame)
  PROVE  /\ Append(buffer, frame) \in Seq(Frame) /\ Append(buffer, frame) # <<>>
         /\ GoodBuffer(Append(buffer, frame))
         /\ Head(Append(buffer, frame)) = IF buffer = <<>> THEN frame ELSE Head(buffer)
<1> DEFINE more == Append(buffer, frame)
<1>1. /\ more \in Seq(Frame) /\ Len(more) = Len(buffer) + 1 /\ Len(buffer) \in Nat
      /\ more[Len(buffer) + 1] = frame
      /\ \A j \in 1..Len(buffer) : more[j] = buffer[j]
  BY AppendProperties, LenProperties
<1> HIDE DEF more
<1>2. more # <<>> /\ Head(more) = more[1]
  BY <1>1
<1>3. Head(more) = IF buffer = <<>> THEN frame ELSE Head(buffer)
  <2>1. CASE buffer = <<>>
    BY <1>1, <1>2, <2>1
  <2>2. CASE buffer # <<>>
    <3>1. 1 \in 1..Len(buffer) /\ Head(buffer) = buffer[1]
      BY <2>2, EmptySeq
    <3>2. QED
      BY <1>1, <1>2, <2>2, <3>1
  <2>3. QED
    BY <2>1, <2>2
<1>4. GoodBuffer(more)
  <2>1. ASSUME NEW j \in 1..Len(more) PROVE more[j] # <<>> /\ Piece(more[j])
    <3>1. CASE j \in 1..Len(buffer)
      BY <1>1, <3>1 DEF GoodBuffer
    <3>2. CASE j = Len(buffer) + 1
      BY <1>1, <3>2
    <3>3. QED
      BY <1>1, <3>1, <3>2
  <2>2. ASSUME NEW i \in 1..Len(more), NEW j \in 1..Len(more), i < j
        PROVE  FrameNo(more[i]) < FrameNo(more[j])
    <3>1. i \in 1..Len(buffer) /\ more[i] = buffer[i]
      BY <1>1, <2>2
    <3>2. CASE j \in 1..Len(buffer)
      BY <1>1, <2>2, <3>1, <3>2 DEF GoodBuffer
    <3>3. CASE j = Len(buffer) + 1
      BY <1>1, <3>1, <3>3
    <3>4. QED
      BY <1>1, <3>2, <3>3
  <2>3. QED
    BY <2>1, <2>2 DEF GoodBuffer
<1>5. QED
  BY <1>1, <1>2, <1>3, <1>4 DEF more

\* What is at the front after an acknowledgement does not depend on a frame
\* appended in the meantime, unless that frame gets to the front.
LEMMA AppendAfterAck ==
  ASSUME NEW buffer \in Seq(Frame), GoodBuffer(buffer),
         NEW frame \in Frame, frame # <<>>, Piece(frame),
         \A j \in 1..Len(buffer) : FrameNo(buffer[j]) < FrameNo(frame)
  PROVE  LET next == NextPiece(AfterAck(Append(buffer, frame)))
         IN  IF AfterAck(buffer) # <<>> THEN next = NextPiece(AfterAck(buffer))
             ELSE IF buffer = <<>> THEN next = <<>> \/ FrameNo(next) = FrameNo(frame)
             ELSE next = frame
<1> DEFINE more == Append(buffer, frame)
<1>1. /\ more \in Seq(Frame) /\ more # <<>> /\ GoodBuffer(more)
      /\ Head(more) = IF buffer = <<>> THEN frame ELSE Head(buffer)
  BY AppendGood
<1>2. Len(Head(more)) \in Nat
  BY <1>1, HeadGood, ByteTypes
<1>3. AfterAck(more) = EraseChunk(more)
  BY <1>1 DEF AfterAck
<1>4. /\ Tail(more) \in Seq(Frame) /\ Len(Tail(more)) = Len(buffer) /\ Len(buffer) \in Nat
      /\ \A j \in 1..Len(buffer) : Tail(more)[j] = more[j + 1]
  <2>1. Len(more) = Len(buffer) + 1 /\ Len(buffer) \in Nat
    BY AppendProperties, LenProperties
  <2>2. QED
    BY <1>1, <2>1, HeadTailProperties
<1>5. /\ more[Len(buffer) + 1] = frame
      /\ \A j \in 1..Len(buffer) : more[j] = buffer[j]
  BY AppendProperties
<1> HIDE DEF more
<1>6. CASE Len(Head(more)) > kMaxPayloadSize
  <2>1. NextPiece(AfterAck(more)) = Rest(Head(more)) /\ FrameNo(Rest(Head(more))) = FrameNo(Head(more))
    BY <1>1, <1>3, <1>6, EraseOther
  <2>2. CASE buffer = <<>>
    BY <1>1, <2>1, <2>2 DEF more, AfterAck
  <2>3. CASE buffer # <<>>
    <3>1. Head(more) = Head(buffer) /\ AfterAck(buffer) = EraseChunk(buffer)
      BY <1>1, <2>3 DEF AfterAck
    <3>2. NextPiece(AfterAck(buffer)) = Rest(Head(buffer)) /\ AfterAck(buffer) # <<>>
      BY <1>6, <2>3, <3>1, EraseOther
    <3>3. QED
      BY <2>1, <3>1, <3>2 DEF more
  <2>4. QED
    BY <2>2, <2>3
<1>7. CASE Len(Head(more)) <= kMaxPayloadSize
  <2>1. AfterAck(more) = Tail(more)
    BY <1>1, <1>3, <1>7, EraseLast
  <2>2. CASE buffer = <<>>
    <3>1. Len(Tail(more)) = 0
      BY <1>4, <2>2
    <3>2. Tail(more) = <<>>
      BY <1>4, <3>1, EmptySeq
    <3>3. QED
      BY <2>1, <2>2, <3>2 DEF more, AfterAck, NextPiece
  <2>3. CASE buffer # <<>>
    <3>1. Head(more) = Head(buffer) /\ AfterAck(buffer) = EraseChunk(buffer)
      BY <1>1, <2>3 DEF AfterAck
    <3>2. AfterAck(buffer) = Tail(buffer)
      BY <1>7, <2>3, <3>1, EraseLast
    <3>3. /\ Len(buffer) >= 1 /\ Tail(buffer) \in Seq(Frame)
          /\ Len(Tail(buffer)) = Len(buffer) - 1
          /\ \A j \in 1..Len(Tail(buffer)) : Tail(buffer)[j] = buffer[j + 1]
      BY <2>3, HeadTailProperties, EmptySeq
    <3>4. Tail(more) # <<>> /\ Head(Tail(more)) = more[2]
      <4>1. 1 \in 1..Len(Tail(more))
        BY <1>4, <3>3
      <4>2. Tail(more) # <<>> /\ Head(Tail(more)) = Tail(more)[1]
        BY <1>4, <4>1, HeadTailProperties
      <4>3. QED
        BY <1>4, <4>1, <4>2
    <3>5. CASE Tail(buffer) = <<>>
      <4>1. Len(buffer) = 1
        <5>1. Len(Tail(buffer)) = 0
          BY <3>5, EmptySeq
        <5>2. Len(buffer) \in Nat
          BY <1>4
        <5>3. Len(Tail(buffer)) = Len(buffer) - 1
          BY <3>3
        <5>4. QED
          BY <5>1, <5>2, <5>3
      <4>2. more[2] = frame
        BY <1>5, <4>1
      <4>3. QED
        BY <2>1, <3>2, <3>4, <3>5, <4>2 DEF more, NextPiece
    <3>6. CASE Tail(buffer) # <<>>
      <4>1. 1 \in 1..Len(Tail(buffer)) /\ Head(Tail(buffer)) = Tail(buffer)[1]
        BY <3>3, <3>6, EmptySeq
      <4>2. Tail(buffer)[1] = buffer[2] /\ 2 \in 1..Len(buffer)
        BY <1>4, <3>3, <4>1
      <4>3. more[2] = buffer[2]
        BY <1>5, <4>2
      <4>4. QED
        BY <2>1, <3>2, <3>4, <3>6, <4>1, <4>2, <4>3 DEF more, NextPiece
    <3>7. QED
      BY <3>5, <3>6
  <2>4. QED
    BY <2>2, <2>3
<1>8. QED
  BY <1>2, <1>6, <1>7, RadioAssumption

-----------------------------------------------------------------------------
(* Reassembly.  received stands for frame_buffer_ of an end, got for the    *)
(* number of the frame it wrote last, and fresh says that it accepted no    *)
(* packet yet in this session.                                              *)

\* The number of the frame written last, 0 if there is none.
LastNo(out) == IF out.frame = <<>> THEN 0 ELSE FrameNo(out.frame)

\* A piece that may be accepted next; last says that it ends its frame.
MayCome(received, got, fresh, piece, last) ==
  IF received = <<>>
  THEN FrameNo(piece) > got \/ (fresh /\ last /\ FrameNo(piece) = got)
  ELSE Follows(received, piece)

\* What is at the front of the buffer of the other end may be accepted next.
Ready(received, got, fresh, piece) ==
  IF piece = <<>> THEN received = <<>>
  ELSE MayCome(received, got, fresh, piece, Len(piece) <= kMaxPayloadSize)

\* Only the last chunk of a frame can still be there when the frame is written.
NotBefore(got, piece) ==
  piece # <<>> =>
    \/ FrameNo(piece) > got
    \/ FrameNo(piece) = got /\ Len(piece) <= kMaxPayloadSize

GoodReassembly(received, out) ==
  /\ Piece(received) /\ Piece(out.frame)
  /\ received # <<>> => FrameNo(received) > LastNo(out)

\* The packet carries the chunk at the front of the buffer.
Carries(packet, buffer) ==
  /\ buffer # <<>>
  /\ packet.data = Chunk(Head(buffer))
  /\ packet.size <= kMaxPayloadSize <=> Len(Head(buffer)) <= kMaxPayloadSize

LEMMA EncodeCarries ==
  ASSUME NEW id, NEW ack, NEW buffer \in Seq(Frame), GoodBuffer(buffer)
  PROVE  IF buffer = <<>> THEN EncodeTunnelTxRxPacket(id, ack, buffer).data = <<>>
         ELSE Carries(EncodeTunnelTxRxPacket(id, ack, buffer), buffer)
<1>1. CASE buffer = <<>>
  BY <1>1 DEF EncodeTunnelTxRxPacket
<1>2. CASE buffer # <<>>
  <2> DEFINE frame == Head(buffer)
             packet == EncodeTunnelTxRxPacket(id, ack, buffer)
  <2>1. Len(frame) \in Nat
    BY <1>2, HeadGood, ByteTypes
  <2>2. /\ packet.data = Chunk(frame)
        /\ packet.size = IF Len(frame) < UINT8_MAX THEN Len(frame) ELSE UINT8_MAX
    BY <1>2 DEF EncodeTunnelTxRxPacket
  <2> HIDE DEF frame, packet
  <2>3. packet.size <= kMaxPayloadSize <=> Len(frame) <= kMaxPayloadSize
    BY <2>1, <2>2, RadioAssumption
  <2>4. QED
    BY <1>2, <2>2, <2>3 DEF Carries, frame, packet
<1>3. QED
  BY <1>1, <1>2

\* A chunk in a packet begins with the first byte of its piece.
LEMMA CarriedPiece ==
  ASSUME NEW buffer \in Seq(Frame), GoodBuffer(buffer), NEW packet \in Packet,
         Carries(packet, buffer)
  PROVE  /\ packet.data \in Frame /\ packet.data # <<>> /\ Piece(packet.data)
         /\ packet.data[1] = Head(buffer)[1]
         /\ FrameNo(packet.data) = FrameNo(Head(buffer))
         /\ packet.size > kMaxPayloadSize => Len(packet.data) = kMaxPayloadSize
<1>1. /\ buffer # <<>> /\ packet.data = Chunk(Head(buffer))
      /\ packet.size <= kMaxPayloadSize <=> Len(Head(buffer)) <= kMaxPayloadSize
  BY DEF Carries
<1>2. Head(buffer) \in Frame /\ Head(buffer) # <<>> /\ Piece(Head(buffer))
  BY <1>1, HeadGood
<1>3. packet.size \in Int /\ Len(Head(buffer)) \in Nat
  BY <1>2, ByteTypes, RadioAssumption DEF Packet
<1>4. packet.size > kMaxPayloadSize => Len(Head(buffer)) > kMaxPayloadSize
  BY <1>1, <1>3, RadioAssumption
<1>5. QED
  BY <1>1, <1>2, <1>4, ChunkPiece DEF FrameNo

\* An acknowledgement leads to later pieces.
LEMMA AfterAckNotBefore ==
  ASSUME NEW buffer \in Seq(Frame), GoodBuffer(buffer), NEW got \in Nat,
         NotBefore(got, NextPiece(buffer))
  PROVE  NotBefore(got, NextPiece(AfterAck(buffer)))
<1>1. CASE buffer = <<>>
  BY <1>1 DEF AfterAck
<1>2. CASE buffer # <<>>
  <2>1. /\ NextPiece(buffer) = Head(buffer) /\ Head(buffer) # <<>>
        /\ Len(Head(buffer)) \in Nat /\ FrameNo(Head(buffer)) \in Nat
        /\ AfterAck(buffer) = EraseChunk(buffer)
    BY <1>2, HeadGood, ByteTypes DEF AfterAck
  <2>2. CASE Len(Head(buffer)) > kMaxPayloadSize
    <3>1. FrameNo(NextPiece(AfterAck(buffer))) = FrameNo(Head(buffer))
      BY <1>2, <2>1, <2>2, EraseOther
    <3>2. FrameNo(Head(buffer)) > got
      BY <2>1, <2>2, RadioAssumption DEF NotBefore
    <3>3. QED
      BY <3>1, <3>2 DEF NotBefore
  <2>3. CASE Len(Head(buffer)) <= kMaxPayloadSize
    <3>1. CASE AfterAck(buffer) = <<>>
      BY <3>1 DEF NotBefore, NextPiece
    <3>2. CASE AfterAck(buffer) # <<>>
      <4>1. FrameNo(NextPiece(AfterAck(buffer))) > FrameNo(Head(buffer))
        BY <1>2, <2>1, <2>3, <3>2, EraseLast
      <4>2. AfterAck(buffer) \in Seq(Frame) /\ GoodBuffer(AfterAck(buffer))
        BY AfterAckGood
      <4>3. FrameNo(NextPiece(AfterAck(buffer))) \in Nat
        BY <3>2, <4>2, HeadGood
      <4>4. FrameNo(Head(buffer)) >= got
        BY <2>1 DEF NotBefore
      <4>5. FrameNo(NextPiece(AfterAck(buffer))) > got
        BY <2>1, <4>1, <4>3, <4>4
      <4>6. QED
        BY <4>5 DEF NotBefore
    <3>3. QED
      BY <3>1, <3>2
  <2>4. QED
    BY <2>1, <2>2, <2>3, RadioAssumption
<1>3. QED
  BY <1>1, <1>2

\* What the state of an end is good for.
LEMMA ReassemblyTypes ==
  ASSUME TypeOK, NEW s \in Side
  PROVE  /\ frame_buffer[s] \in Frame /\ tunnel_out[s].frame \in Frame
         /\ LastNo(tunnel_out[s]) \in Nat
         /\ read_buffer[s] \in Seq(Frame)
<1>1. /\ frame_buffer[s] \in Frame /\ tunnel_out[s].frame \in Frame
      /\ read_buffer[s] \in Seq(Frame)
  BY DEF TypeOK, RadioTypeOK
<1>2. LastNo(tunnel_out[s]) \in Nat
  BY <1>1, ByteTypes DEF LastNo, FrameNo
<1>3. QED
  BY <1>1, <1>2

\* A packet is accepted: its payload joins the frame being received, and the
\* frame is written, and got moves on, when the payload ends it.
LEMMA AcceptOutcome ==
  ASSUME TypeOK, NEW s \in Side, NEW packet \in Packet,
         ValidateID(last_ack_id[s], packet.id), AcceptPayload(s, packet),
         GoodReassembly(frame_buffer[s], tunnel_out[s]),
         packet.data # <<>> =>
           /\ Piece(packet.data)
           /\ MayCome(frame_buffer[s], LastNo(tunnel_out[s]), last_ack_id[s] = None,
                      packet.data, packet.size <= kMaxPayloadSize)
  PROVE  /\ packet.data = <<>> => UNCHANGED <<frame_buffer, tunnel_out>>
         /\ packet.data # <<>> =>
              LET whole == frame_buffer[s] \o packet.data
              IN  /\ whole \in Frame /\ whole # <<>> /\ Piece(whole)
                  /\ FrameNo(whole) = FrameNo(packet.data)
                  /\ FrameNo(whole) \in Nat /\ FrameNo(whole) >= LastNo(tunnel_out[s])
                  /\ IF packet.size <= kMaxPayloadSize
                     THEN /\ frame_buffer'[s] = <<>>
                          /\ WriteTunnel(s, whole)
                          /\ tunnel_out'[s].frame = whole
                          /\ LastNo(tunnel_out'[s]) = FrameNo(packet.data)
                     ELSE /\ frame_buffer'[s] = whole
                          /\ UNCHANGED tunnel_out
                          /\ FrameNo(whole) > LastNo(tunnel_out[s])
         /\ GoodReassembly(frame_buffer'[s], tunnel_out'[s])
         /\ frame_buffer'[Peer(s)] = frame_buffer[Peer(s)]
         /\ tunnel_out'[Peer(s)] = tunnel_out[Peer(s)]
<1> DEFINE whole == frame_buffer[s] \o packet.data
           got == LastNo(tunnel_out[s])
<1>1. Reassemble(s, packet) /\ packet.data \in Frame /\ packet.size \in Int
  BY RadioAssumption DEF AcceptPayload, Packet
<1>2. /\ frame_buffer[s] \in Frame /\ tunnel_out[s].frame \in Frame /\ got \in Nat
      /\ frame_buffer \in [Side -> Frame] /\ tunnel_out \in [Side -> [frame : Frame, parity : 0..1]]
  BY ReassemblyTypes DEF TypeOK, RadioTypeOK
<1>3. Peer(s) \in Side /\ Peer(s) # s
  BY DEF Peer, Side
<1>4. /\ frame_buffer'[Peer(s)] = frame_buffer[Peer(s)]
      /\ tunnel_out'[Peer(s)] = tunnel_out[Peer(s)]
  BY <1>1, <1>2, <1>3 DEF Reassemble, WriteTunnel
<1>5. CASE packet.data = <<>>
  BY <1>1, <1>4, <1>5 DEF Reassemble
<1>6. CASE packet.data # <<>>
  <2>1. /\ Piece(frame_buffer[s]) /\ Piece(packet.data)
        /\ frame_buffer[s] # <<>> => /\ Follows(frame_buffer[s], packet.data)
                                     /\ FrameNo(frame_buffer[s]) > got
        /\ frame_buffer[s] = <<>> =>
             \/ FrameNo(packet.data) > got
             \/ packet.size <= kMaxPayloadSize /\ FrameNo(packet.data) = got
    BY <1>6 DEF GoodReassembly, MayCome
  <2>2. /\ whole \in Frame /\ whole # <<>> /\ Piece(whole)
        /\ FrameNo(whole) = FrameNo(packet.data)
        /\ frame_buffer[s] # <<>> => FrameNo(frame_buffer[s]) = FrameNo(packet.data)
    BY <1>1, <1>2, <1>6, <2>1, ConcatPiece
  <2> HIDE DEF whole, got
  <2>3. FrameNo(whole) \in Nat
    BY <2>2, ByteTypes DEF FrameNo
  <2>4. FrameNo(whole) >= got
    BY <1>2, <2>1, <2>2, <2>3
  <2>5. CASE packet.size <= kMaxPayloadSize
    <3> ~(packet.size > kMaxPayloadSize)
      BY <1>1, <2>5, RadioAssumption
    <3>1. /\ frame_buffer' = [frame_buffer EXCEPT ![s] = <<>>]
          /\ WriteTunnel(s, whole)
      BY <1>1, <1>6 DEF Reassemble, whole
    <3>2. frame_buffer'[s] = <<>> /\ tunnel_out'[s].frame = whole
      BY <1>2, <3>1 DEF WriteTunnel
    <3>3. LastNo(tunnel_out'[s]) = FrameNo(packet.data)
      BY <2>2, <3>2 DEF LastNo
    <3>4. GoodReassembly(frame_buffer'[s], tunnel_out'[s])
      BY <2>2, <3>2, EmptySeq DEF GoodReassembly, Piece
    <3>5. QED
      BY <1>4, <1>6, <2>2, <2>3, <2>4, <2>5, <3>1, <3>2, <3>3, <3>4 DEF whole, got
  <2>6. CASE ~(packet.size <= kMaxPayloadSize)
    <3>1. /\ frame_buffer' = [frame_buffer EXCEPT ![s] = whole]
          /\ UNCHANGED tunnel_out
      BY <1>1, <1>6, <2>6 DEF Reassemble, whole
    <3>2. frame_buffer'[s] = whole
      BY <1>2, <3>1
    <3>3. FrameNo(whole) > got
      BY <2>1, <2>2, <2>6
    <3>4. GoodReassembly(frame_buffer'[s], tunnel_out'[s])
      BY <2>2, <3>1, <3>2, <3>3 DEF GoodReassembly, got
    <3>5. QED
      BY <1>4, <1>6, <2>2, <2>3, <2>4, <2>6, <3>1, <3>2, <3>3, <3>4 DEF whole, got
  <2>7. QED
    BY <2>5, <2>6
<1>7. QED
  BY <1>5, <1>6

\* What goes for the piece at the front goes for the packet that carries it.
LEMMA CarriedMayCome ==
  ASSUME NEW buffer \in Seq(Frame), GoodBuffer(buffer), NEW packet \in Packet,
         Carries(packet, buffer), NEW received, NEW got, NEW fresh,
         Ready(received, got, fresh, NextPiece(buffer))
  PROVE  MayCome(received, got, fresh, packet.data, packet.size <= kMaxPayloadSize)
<1>1. buffer # <<>> /\ (packet.size <= kMaxPayloadSize <=> Len(Head(buffer)) <= kMaxPayloadSize)
  BY DEF Carries
<1>2. /\ NextPiece(buffer) = Head(buffer) /\ Head(buffer) # <<>>
      /\ packet.data[1] = Head(buffer)[1]
  BY <1>1, HeadGood, CarriedPiece
<1>3. MayCome(received, got, fresh, Head(buffer), Len(Head(buffer)) <= kMaxPayloadSize)
  BY <1>2 DEF Ready
<1>4. QED
  BY <1>1, <1>2, <1>3 DEF MayCome, Follows, FrameNo

\* A chunk that is accepted leaves its receiver ready for what is at the front
\* once the sender has got the acknowledgement.
LEMMA AcceptReady ==
  ASSUME TypeOK, NEW s \in Side, NEW packet \in Packet,
         ValidateID(last_ack_id[s], packet.id), AcceptPayload(s, packet),
         GoodReassembly(frame_buffer[s], tunnel_out[s]),
         NEW buffer \in Seq(Frame), GoodBuffer(buffer), Carries(packet, buffer),
         Ready(frame_buffer[s], LastNo(tunnel_out[s]), last_ack_id[s] = None, NextPiece(buffer))
  PROVE  Ready(frame_buffer'[s], LastNo(tunnel_out'[s]), FALSE, NextPiece(AfterAck(buffer)))
<1> DEFINE whole == frame_buffer[s] \o packet.data
           frame == Head(buffer)
<1>1. /\ buffer # <<>> /\ (packet.size <= kMaxPayloadSize <=> Len(frame) <= kMaxPayloadSize)
      /\ AfterAck(buffer) = EraseChunk(buffer)
  BY DEF Carries, AfterAck
<1>2. /\ packet.data \in Frame /\ packet.data # <<>> /\ Piece(packet.data)
      /\ packet.data[1] = frame[1] /\ FrameNo(packet.data) = FrameNo(frame)
      /\ packet.size > kMaxPayloadSize => Len(packet.data) = kMaxPayloadSize
  BY CarriedPiece
<1>3. MayCome(frame_buffer[s], LastNo(tunnel_out[s]), last_ack_id[s] = None,
              packet.data, packet.size <= kMaxPayloadSize)
  BY CarriedMayCome
<1>4. IF packet.size <= kMaxPayloadSize
      THEN frame_buffer'[s] = <<>> /\ LastNo(tunnel_out'[s]) = FrameNo(packet.data)
      ELSE frame_buffer'[s] = whole
  BY <1>2, <1>3, AcceptOutcome
<1>5. frame \in Frame /\ frame # <<>> /\ Piece(frame) /\ Len(frame) \in Nat /\ FrameNo(frame) \in Nat
  BY <1>1, HeadGood, ByteTypes
<1>6. packet.size \in Int /\ kMaxPayloadSize \in Nat
  BY RadioAssumption DEF Packet
<1>7. CASE Len(frame) <= kMaxPayloadSize
  <2>1. frame_buffer'[s] = <<>> /\ LastNo(tunnel_out'[s]) = FrameNo(frame)
    BY <1>1, <1>2, <1>4, <1>7
  <2>2. CASE AfterAck(buffer) = <<>>
    BY <2>1, <2>2 DEF NextPiece, Ready
  <2>3. CASE AfterAck(buffer) # <<>>
    <3>1. FrameNo(NextPiece(AfterAck(buffer))) > FrameNo(frame)
      BY <1>1, <1>7, <2>3, EraseLast
    <3>2. QED
      <4>1. MayCome(<<>>, FrameNo(frame), FALSE, NextPiece(AfterAck(buffer)),
                    Len(NextPiece(AfterAck(buffer))) <= kMaxPayloadSize)
        BY <3>1 DEF MayCome
      <4>2. QED
        BY <2>1, <4>1 DEF Ready
  <2>4. QED
    BY <2>2, <2>3
<1>8. CASE ~(Len(frame) <= kMaxPayloadSize)
  <2>1. /\ ~(packet.size <= kMaxPayloadSize) /\ packet.size > kMaxPayloadSize
        /\ Len(frame) > kMaxPayloadSize
    BY <1>1, <1>5, <1>6, <1>8
  <2>2. frame_buffer'[s] = whole /\ Len(packet.data) = kMaxPayloadSize
    BY <1>2, <1>4, <2>1
  <2>3. NextPiece(AfterAck(buffer)) = Rest(frame)
    BY <1>1, <2>1, EraseOther
  <2>4. Rest(frame) # <<>> /\ Rest(frame)[1] = <<frame[1][1], frame[1][2] + kMaxPayloadSize>>
    BY <1>5, <2>1, RestPiece
  <2>5. Rest(frame)[1] = <<packet.data[1][1], packet.data[1][2] + Len(packet.data)>>
    BY <1>2, <2>2, <2>4
  <2>6. whole # <<>> /\ Follows(whole, Rest(frame))
    <3>1. frame_buffer[s] \in Frame /\ Piece(frame_buffer[s])
      BY ReassemblyTypes DEF GoodReassembly
    <3>2. frame_buffer[s] # <<>> => Follows(frame_buffer[s], packet.data)
      BY <1>3 DEF MayCome
    <3>3. QED
      BY <1>2, <2>5, <3>1, <3>2, ConcatPiece
  <2>7. QED
    BY <2>2, <2>3, <2>4, <2>6 DEF Ready, MayCome
<1>9. QED
  BY <1>7, <1>8

\* A frame that is written is not later than what its sender still has.
LEMMA AcceptOrder ==
  ASSUME TypeOK, NEW s \in Side, NEW packet \in Packet,
         ValidateID(last_ack_id[s], packet.id), AcceptPayload(s, packet),
         GoodReassembly(frame_buffer[s], tunnel_out[s]),
         packet.data # <<>> =>
           /\ Piece(packet.data)
           /\ MayCome(frame_buffer[s], LastNo(tunnel_out[s]), last_ack_id[s] = None,
                      packet.data, packet.size <= kMaxPayloadSize),
         NEW buffer \in Seq(Frame), GoodBuffer(buffer),
         buffer # <<>> /\ packet.data # <<>> =>
           Carries(packet, buffer) \/ FrameNo(packet.data) < FrameNo(Head(buffer)),
         NotBefore(LastNo(tunnel_out[s]), NextPiece(buffer))
  PROVE  NotBefore(LastNo(tunnel_out'[s]), NextPiece(buffer))
<1>1. CASE buffer = <<>> \/ packet.data = <<>>
  <2>1. packet.data = <<>> => UNCHANGED tunnel_out
    BY AcceptOutcome
  <2>2. QED
    BY <1>1, <2>1 DEF NextPiece, NotBefore
<1>2. CASE buffer # <<>> /\ packet.data # <<>>
  <2>1. NextPiece(buffer) = Head(buffer)
    BY <1>2 DEF NextPiece
  <2>2. IF packet.size <= kMaxPayloadSize
        THEN LastNo(tunnel_out'[s]) = FrameNo(packet.data)
        ELSE UNCHANGED tunnel_out
    BY <1>2, AcceptOutcome
  <2>3. CASE Carries(packet, buffer)
    <3>1. FrameNo(packet.data) = FrameNo(Head(buffer))
      BY <2>3, CarriedPiece
    <3>2. packet.size <= kMaxPayloadSize => Len(Head(buffer)) <= kMaxPayloadSize
      BY <2>3 DEF Carries
    <3>3. QED
      BY <2>1, <2>2, <3>1, <3>2 DEF NotBefore
  <2>4. CASE FrameNo(packet.data) < FrameNo(Head(buffer))
    <3>1. FrameNo(packet.data) \in Nat /\ FrameNo(Head(buffer)) \in Nat
      BY <1>2, HeadGood, ByteTypes DEF Packet, FrameNo
    <3>2. FrameNo(Head(buffer)) > FrameNo(packet.data)
      BY <2>4, <3>1
    <3>3. QED
      BY <2>1, <2>2, <3>2 DEF NotBefore
  <2>5. QED
    BY <1>2, <2>3, <2>4
<1>3. QED
  BY <1>1, <1>2

-----------------------------------------------------------------------------
(* The inductive invariant: what each end still has follows, in its turn,   *)
(* what the other end has.  An end is ready for what is at the front of the *)
(* buffer of the other end once that has got the acknowledgement due to it. *)

BuffersGood == \A s \in Side : GoodBuffer(read_buffer[s])

ReassembliesGood == \A s \in Side : GoodReassembly(frame_buffer[s], tunnel_out[s])

\* Whatever happened to the session, no end has a frame the other is past.
BuffersInOrder ==
  \A s \in Side : NotBefore(LastNo(tunnel_out[s]), NextPiece(read_buffer[Peer(s)]))

\* The primary erases a chunk for every acknowledgement,
UplinkReady ==
  Ready(frame_buffer["secondary"], LastNo(tunnel_out["secondary"]),
        last_ack_id["secondary"] = None,
        NextPiece(IF last_ack_id["secondary"] = next_id["primary"]
                  THEN AfterAck(read_buffer["primary"]) ELSE read_buffer["primary"]))

\* the secondary only while a payload is in flight.
DownlinkReady ==
  Ready(frame_buffer["primary"], LastNo(tunnel_out["primary"]),
        last_ack_id["primary"] = None,
        NextPiece(IF last_ack_id["primary"] = next_id["secondary"] /\ payload_in_flight
                  THEN AfterAck(read_buffer["secondary"]) ELSE read_buffer["secondary"]))

SessionReady == ~connection_reset_required => UplinkReady /\ DownlinkReady

\* An end with nothing of a frame and frames of the other end it has not seen.
AllAhead(received, got, piece) ==
  received = <<>> /\ (piece # <<>> => FrameNo(piece) > got)

\* A request carries what its receiver is ready for.  Only a request from before
\* a restart of the primary or the end of the session may carry something else
\* than what is at the front of the buffer; the buffer is past it then.
RequestFits(packet) ==
  /\ packet.data # <<>> => Piece(packet.data)
  /\ ValidateID(last_ack_id["secondary"], packet.id) /\ packet.data # <<>> =>
       MayCome(frame_buffer["secondary"], LastNo(tunnel_out["secondary"]),
               last_ack_id["secondary"] = None, packet.data, packet.size <= kMaxPayloadSize)
  /\ read_buffer["primary"] # <<>> /\ packet.data # <<>> =>
       \/ Carries(packet, read_buffer["primary"])
       \/ FrameNo(packet.data) < FrameNo(Head(read_buffer["primary"]))
  /\ ~connection_reset_required =>
       \/ Carries(packet, read_buffer["primary"])
       \/ /\ packet.data = <<>>
          /\ AllAhead(frame_buffer["secondary"], LastNo(tunnel_out["secondary"]),
                      NextPiece(read_buffer["primary"]))

RequestsFit == \A packet \in Requests : RequestFits(packet)

\* payload_in_flight_ says whether the response carries anything.
ResponseFits(packet) ==
  IF payload_in_flight THEN Carries(packet, read_buffer["secondary"])
  ELSE /\ packet.data = <<>>
       /\ AllAhead(frame_buffer["primary"], LastNo(tunnel_out["primary"]),
                   NextPiece(read_buffer["secondary"]))

ResponsesFit == phase = "transferring" => \A packet \in Responses : ResponseFits(packet)

ResetForgets ==
  phase = "resetting" => /\ frame_buffer["primary"] = <<>>
                         /\ Responses # {} => frame_buffer["secondary"] = <<>>

FramesInOrder ==
  /\ BuffersGood /\ ReassembliesGood /\ BuffersInOrder
  /\ SessionReady /\ RequestsFit /\ ResponsesFit /\ ResetForgets

\* An end that begins a session is ready for whatever the other end has.
LEMMA NotBeforeReady ==
  ASSUME NEW got, NEW piece, NotBefore(got, piece)
  PROVE  Ready(<<>>, got, TRUE, piece)
BY DEF NotBefore, Ready, MayCome

\* An end with nothing of a frame is ready for later frames, in any session.
LEMMA AheadReady ==
  ASSUME NEW received, NEW got, NEW fresh, NEW piece, AllAhead(received, got, piece)
  PROVE  Ready(received, got, fresh, piece)
BY DEF AllAhead, Ready, MayCome

\* The steps that only take packets off the air or give a session up.
LEMMA FramesUnchanged ==
  ASSUME FramesInOrder, UNCHANGED <<linkVars, tunnel_out, payload_in_flight>>,
         Requests' \subseteq Requests, Responses' \subseteq Responses,
         phase' = phase \/ phase' = "sleeping",
         connection_reset_required => connection_reset_required'
  PROVE  FramesInOrder'
<1>1. BuffersGood' /\ ReassembliesGood' /\ BuffersInOrder'
  BY DEF FramesInOrder, BuffersGood, ReassembliesGood, BuffersInOrder, linkVars
<1>2. SessionReady'
  BY DEF FramesInOrder, SessionReady, UplinkReady, DownlinkReady, linkVars
<1>3. ASSUME NEW packet, RequestFits(packet) PROVE RequestFits(packet)'
  BY <1>3 DEF RequestFits, linkVars
<1>4. RequestsFit'
  BY <1>3 DEF FramesInOrder, RequestsFit
<1>5. ResponsesFit' /\ ResetForgets'
  BY DEF FramesInOrder, ResponsesFit, ResponseFits, ResetForgets, linkVars
<1>6. QED
  BY <1>1, <1>2, <1>4, <1>5 DEF FramesInOrder

LEMMA PollFrames ==
  ASSUME "late" \notin Faults, TypeOK, TypeOK', Alternate, Session, FramesInOrder, Poll
  PROVE  FramesInOrder'
<1>1. CASE ConnectionReset
  <2>1. PICK success \in BOOLEAN :
          /\ phase = "sleeping" /\ Send("secondary", ResetPacket, success)
          /\ IF success THEN phase' = "resetting" /\ UNCHANGED backoffVars
             ELSE UNCHANGED phase /\ HandleTransactionFailure
    BY <1>1 DEF ConnectionReset, Request
  <2>2. Responses' = {} /\ Requests' \subseteq {ResetPacket}
    BY <2>1, PollPackets, ResetPacketType
  <2>3. connection_reset_required'
    BY <1>1, <2>1, FailureKeepsReset DEF ConnectionReset, backoffVars
  <2>4. UNCHANGED <<read_buffer, tunnel_out>>
    BY <1>1 DEF ConnectionReset, historyVars
  <2>5. frame_buffer'["primary"] = <<>> /\ frame_buffer'["secondary"] = frame_buffer["secondary"]
    BY <1>1 DEF ConnectionReset, OpenSession, TypeOK, RadioTypeOK, Side
  <2>6. BuffersGood' /\ BuffersInOrder'
    BY <2>4 DEF FramesInOrder, BuffersGood, BuffersInOrder
  <2>7. ReassembliesGood'
    BY <2>4, <2>5, EmptySeq DEF FramesInOrder, ReassembliesGood, GoodReassembly, Piece, Side
  <2>8. ResetPacket.data = <<>>
    BY DEF ResetPacket
  <2>9. RequestsFit'
    BY <2>2, <2>3, <2>8 DEF RequestsFit, RequestFits
  <2>10. SessionReady' /\ ResponsesFit' /\ ResetForgets'
    BY <2>1, <2>2, <2>3, <2>5 DEF SessionReady, ResponsesFit, ResetForgets
  <2>11. QED
    BY <2>6, <2>7, <2>9, <2>10 DEF FramesInOrder
<1>2. CASE PerformTunnelTransfer
  <2> DEFINE buffer == read_buffer["primary"]
             packet == EncodeTunnelTxRxPacket(next_id["primary"], last_ack_id["primary"], buffer)
  <2>1. packet \in Packet /\ packet.id = next_id["primary"] /\ buffer \in Seq(Frame)
    <3>1. packet \in Packet /\ buffer \in Seq(Frame)
      BY EncodeType DEF TypeOK, RadioTypeOK, Side
    <3>2. packet.id = next_id["primary"]
      BY EncodeIds
    <3>3. QED
      BY <3>1, <3>2
  <2>2. PICK success \in BOOLEAN :
          /\ phase = "sleeping" /\ Send("secondary", packet, success)
          /\ phase' \in {"sleeping", "transferring"}
    BY <1>2 DEF PerformTunnelTransfer, Request
  <2>3. GoodBuffer(buffer)
    BY DEF FramesInOrder, BuffersGood, Side
  <2>4. IF buffer = <<>> THEN packet.data = <<>> ELSE Carries(packet, buffer)
    BY <2>1, <2>3, EncodeCarries
  <2> HIDE DEF packet, buffer
  <2>5. Responses' = {} /\ Requests' \subseteq {packet}
    BY <2>1, <2>2, PollPackets
  <2>6. UNCHANGED <<linkVars, tunnel_out, payload_in_flight>> /\ ~connection_reset_required
    BY <1>2 DEF PerformTunnelTransfer, Poll, historyVars, secondaryVars
  <2>7. UplinkReady
    BY <2>6 DEF FramesInOrder, SessionReady
  <2>8. RequestFits(packet)
    <3>1. CASE buffer = <<>>
      <4>1. NextPiece(AfterAck(<<>>)) = <<>> /\ NextPiece(<<>>) = <<>>
        BY DEF NextPiece, AfterAck
      <4>2. frame_buffer["secondary"] = <<>>
        BY <2>7, <3>1, <4>1 DEF UplinkReady, Ready, buffer
      <4>3. QED
        BY <2>4, <3>1, <4>1, <4>2 DEF RequestFits, AllAhead, buffer
    <3>2. CASE buffer # <<>>
      <4>1. Piece(packet.data)
        BY <2>1, <2>3, <2>4, <3>2, CarriedPiece
      <4>2. ASSUME ValidateID(last_ack_id["secondary"], packet.id)
            PROVE  MayCome(frame_buffer["secondary"], LastNo(tunnel_out["secondary"]),
                           last_ack_id["secondary"] = None, packet.data,
                           packet.size <= kMaxPayloadSize)
        <5>1. last_ack_id["secondary"] # next_id["primary"]
          BY <2>1, <4>2, IdTypes, RepeatIsInvalid DEF Side
        <5>2. Ready(frame_buffer["secondary"], LastNo(tunnel_out["secondary"]),
                    last_ack_id["secondary"] = None, NextPiece(buffer))
          BY <2>7, <5>1 DEF UplinkReady, buffer
        <5>3. QED
          BY <2>1, <2>3, <2>4, <3>2, <5>2, CarriedMayCome
      <4>3. QED
        BY <2>4, <3>2, <4>1, <4>2 DEF RequestFits, buffer
    <3>3. QED
      BY <3>1, <3>2
  <2>9. BuffersGood' /\ ReassembliesGood' /\ BuffersInOrder'
    BY <2>6 DEF FramesInOrder, BuffersGood, ReassembliesGood, BuffersInOrder, linkVars
  <2>10. SessionReady'
    BY <2>6 DEF FramesInOrder, SessionReady, UplinkReady, DownlinkReady, linkVars
  <2>11. RequestFits(packet)'
    BY <2>6, <2>8 DEF RequestFits, linkVars, packet, buffer
  <2>12. RequestsFit' /\ ResponsesFit' /\ ResetForgets'
    <3>1. packet' = packet
      BY <2>6 DEF packet, buffer, linkVars
    <3>2. QED
      BY <2>2, <2>5, <2>11, <3>1 DEF RequestsFit, RequestFits, ResponsesFit, ResetForgets
  <2>13. QED
    BY <2>9, <2>10, <2>12 DEF FramesInOrder
<1>3. QED
  BY <1>1, <1>2 DEF Poll

LEMMA TimeoutFrames ==
  ASSUME TypeOK, FramesInOrder, Timeout
  PROVE  FramesInOrder'
<1>1. /\ UNCHANGED <<linkVars, rx, reply, tunnel_out, payload_in_flight>>
      /\ phase' = "sleeping" /\ HandleTransactionFailure
  BY DEF Timeout, ReceiveTimeout, radioVars, historyVars, secondaryVars
<1>2. Requests' = Requests /\ Responses' = Responses
  BY <1>1 DEF Requests, Responses, PacketsIn
<1>3. QED
  BY <1>1, <1>2, FailureKeepsReset, FramesUnchanged

\* The answer to a reset opens a session in which nothing has been received.
LEMMA ResetAnswerFrames ==
  ASSUME TypeOK, Alternate, Session, FramesInOrder, Answer, ConnectionResetAnswer
  PROVE  FramesInOrder'
<1>1. Requests' = {} /\ Responses' = {} /\ Responses # {}
  BY AnswerPackets
<1>2. /\ phase = "resetting" /\ phase' = "sleeping"
      /\ UNCHANGED <<linkVars, tunnel_out, payload_in_flight>>
  BY DEF ConnectionResetAnswer, historyVars, Answer, secondaryVars
<1>3. /\ frame_buffer["primary"] = <<>> /\ frame_buffer["secondary"] = <<>>
      /\ last_ack_id["primary"] = None /\ last_ack_id["secondary"] = None
  BY <1>1, <1>2 DEF Session, ResetUnderWay, FramesInOrder, ResetForgets
<1>4. None # next_id["primary"] /\ None # next_id["secondary"]
  BY IdTypes DEF Side
<1>5. /\ NotBefore(LastNo(tunnel_out["secondary"]), NextPiece(read_buffer["primary"]))
      /\ NotBefore(LastNo(tunnel_out["primary"]), NextPiece(read_buffer["secondary"]))
  BY DEF FramesInOrder, BuffersInOrder, Side, Peer
<1>6. UplinkReady /\ DownlinkReady
  <2>1. /\ Ready(<<>>, LastNo(tunnel_out["secondary"]), TRUE, NextPiece(read_buffer["primary"]))
        /\ Ready(<<>>, LastNo(tunnel_out["primary"]), TRUE, NextPiece(read_buffer["secondary"]))
    BY <1>5, NotBeforeReady
  <2>2. QED
    BY <1>3, <1>4, <2>1 DEF UplinkReady, DownlinkReady
<1>7. SessionReady'
  BY <1>2, <1>6 DEF SessionReady, UplinkReady, DownlinkReady, linkVars
<1>8. BuffersGood' /\ ReassembliesGood' /\ BuffersInOrder'
  BY <1>2 DEF FramesInOrder, BuffersGood, ReassembliesGood, BuffersInOrder, linkVars
<1>9. RequestsFit' /\ ResponsesFit' /\ ResetForgets'
  BY <1>1, <1>2 DEF RequestsFit, ResponsesFit, ResetForgets
<1>10. QED
  BY <1>7, <1>8, <1>9 DEF FramesInOrder

\* What a response brings is what the primary is ready for.
LEMMA ResponseMayCome ==
  ASSUME TypeOK, Alternate, Session, FramesInOrder, Answer, PerformTunnelTransferAnswer
  PROVE  Head(rx["primary"]).data # <<>> =>
           /\ Piece(Head(rx["primary"]).data)
           /\ MayCome(frame_buffer["primary"], LastNo(tunnel_out["primary"]),
                      last_ack_id["primary"] = None, Head(rx["primary"]).data,
                      Head(rx["primary"]).size <= kMaxPayloadSize)
<1> DEFINE response == Head(rx["primary"])
           down == read_buffer["secondary"]
<1>1. response \in Responses /\ response \in Packet /\ phase = "transferring"
  BY AnswerPackets DEF PerformTunnelTransferAnswer
<1> HIDE DEF response, down
<1>2. /\ ResponseFits(response) /\ DownlinkReady
      /\ AdvanceID(last_ack_id["primary"]) = next_id["secondary"]
  BY <1>1
     DEF FramesInOrder, ResponsesFit, SessionReady, Session, TransferUnderWay
<1>3. last_ack_id["primary"] # next_id["secondary"]
  BY <1>2, IdTypes, NextIsValid DEF Side
<1>4. down \in Seq(Frame) /\ GoodBuffer(down)
  BY ReassemblyTypes DEF FramesInOrder, BuffersGood, Side, down
<1>5. Ready(frame_buffer["primary"], LastNo(tunnel_out["primary"]),
            last_ack_id["primary"] = None, NextPiece(down))
  BY <1>2, <1>3 DEF DownlinkReady, down
<1>6. response.data # <<>> => Carries(response, down)
  BY <1>2 DEF ResponseFits, down
<1>7. QED
  BY <1>1, <1>4, <1>5, <1>6, CarriedPiece, CarriedMayCome DEF response

\* A response is accepted, and the acknowledgement in it erases a chunk, which
\* its receiver has got if it was in the request.
LEMMA TransferAnswerFrames ==
  ASSUME TypeOK, TypeOK', Alternate, Session, FramesInOrder, Answer,
         PerformTunnelTransferAnswer
  PROVE  FramesInOrder'
<1> DEFINE response == Head(rx["primary"])
           up == read_buffer["primary"]
           down == read_buffer["secondary"]
<1>1. /\ Requests' = {} /\ Responses' = {} /\ response \in Responses /\ response \in Packet
      /\ phase = "transferring" /\ phase' = "sleeping" /\ UNCHANGED payload_in_flight
  BY AnswerPackets DEF PerformTunnelTransferAnswer, Answer, secondaryVars
<1>2. /\ HandleAck(response) /\ AcceptPayload("primary", response)
      /\ response.ack = next_id["primary"]
      /\ ValidateID(last_ack_id["primary"], response.id)
      /\ last_ack_id["secondary"] = next_id["primary"]
      /\ next_id' = [next_id EXCEPT !["primary"] = AdvanceID(@)]
      /\ last_ack_id' = [last_ack_id EXCEPT !["primary"] = next_id["secondary"]]
      /\ UNCHANGED connection_reset_required
  BY TransferAnswerIds
<1>3. ResponseFits(response) /\ ~connection_reset_required
  BY <1>1 DEF FramesInOrder, ResponsesFit, Session, TransferUnderWay
<1>4. UplinkReady /\ DownlinkReady
  BY <1>3 DEF FramesInOrder, SessionReady
<1>5. /\ next_id["primary"] \in PacketId /\ next_id["secondary"] # None
      /\ AdvanceID(next_id["primary"]) # next_id["primary"]
      /\ last_ack_id["primary"] # next_id["secondary"]
  <2>1. AdvanceID(last_ack_id["primary"]) = next_id["secondary"]
    BY <1>1 DEF Session, TransferUnderWay
  <2>2. QED
    BY <2>1, IdTypes, NextIsValid DEF Side
<1>6. /\ next_id'["primary"] # last_ack_id'["secondary"]
      /\ last_ack_id'["secondary"] = last_ack_id["secondary"]
      /\ next_id'["secondary"] = next_id["secondary"]
      /\ last_ack_id'["primary"] = next_id["secondary"]
  BY <1>2, <1>5 DEF TypeOK, RadioTypeOK, Side
<1>7. /\ up \in Seq(Frame) /\ GoodBuffer(up) /\ down \in Seq(Frame) /\ GoodBuffer(down)
      /\ GoodReassembly(frame_buffer["primary"], tunnel_out["primary"])
      /\ GoodReassembly(frame_buffer["secondary"], tunnel_out["secondary"])
      /\ NotBefore(LastNo(tunnel_out["secondary"]), NextPiece(up))
      /\ NotBefore(LastNo(tunnel_out["primary"]), NextPiece(down))
      /\ LastNo(tunnel_out["secondary"]) \in Nat
  BY ReassemblyTypes
     DEF FramesInOrder, BuffersGood, ReassembliesGood, BuffersInOrder, Side, Peer
<1>8. read_buffer'["primary"] = AfterAck(up) /\ read_buffer'["secondary"] = down
  BY <1>2 DEF HandleAck, AfterAck, TypeOK, RadioTypeOK, Side
<1> HIDE DEF response, up, down
<1>9. response.data # <<>> => Carries(response, down) /\ payload_in_flight
  BY <1>3 DEF ResponseFits, down
<1>10. Ready(frame_buffer["primary"], LastNo(tunnel_out["primary"]),
             last_ack_id["primary"] = None, NextPiece(down))
  BY <1>4, <1>5 DEF DownlinkReady, down
<1>11. response.data # <<>> =>
         /\ Piece(response.data)
         /\ MayCome(frame_buffer["primary"], LastNo(tunnel_out["primary"]),
                    last_ack_id["primary"] = None, response.data,
                    response.size <= kMaxPayloadSize)
  BY ResponseMayCome DEF response
<1>12. /\ response.data = <<>> => UNCHANGED <<frame_buffer, tunnel_out>>
       /\ GoodReassembly(frame_buffer'["primary"], tunnel_out'["primary"])
       /\ frame_buffer'["secondary"] = frame_buffer["secondary"]
       /\ tunnel_out'["secondary"] = tunnel_out["secondary"]
  <2>1. "primary" \in Side /\ Peer("primary") = "secondary"
    BY DEF Side, Peer
  <2>2. QED
    BY <1>1, <1>2, <1>7, <1>11, <2>1, AcceptOutcome
<1>13. NotBefore(LastNo(tunnel_out'["primary"]), NextPiece(down))
  BY <1>1, <1>2, <1>7, <1>9, <1>11, AcceptOrder DEF Side
<1>14. NotBefore(LastNo(tunnel_out["secondary"]), NextPiece(AfterAck(up)))
  BY <1>7, AfterAckNotBefore
<1>15. BuffersGood' /\ ReassembliesGood' /\ BuffersInOrder'
  <2>1. GoodBuffer(read_buffer'["primary"]) /\ GoodBuffer(read_buffer'["secondary"])
    BY <1>7, <1>8, AfterAckGood
  <2>2. QED
    BY <1>7, <1>8, <1>12, <1>13, <1>14, <2>1
       DEF BuffersGood, ReassembliesGood, BuffersInOrder, Side, Peer
<1>16. UplinkReady'
  <2>1. Ready(frame_buffer["secondary"], LastNo(tunnel_out["secondary"]),
              last_ack_id["secondary"] = None, NextPiece(AfterAck(up)))
    BY <1>2, <1>4 DEF UplinkReady, up
  <2>2. QED
    BY <1>6, <1>8, <1>12, <2>1 DEF UplinkReady
<1>17. DownlinkReady'
  <2>1. CASE payload_in_flight
    <3>1. Carries(response, down)
      BY <1>3, <2>1 DEF ResponseFits, down
    <3>2. Ready(frame_buffer'["primary"], LastNo(tunnel_out'["primary"]), FALSE,
                NextPiece(AfterAck(down)))
      BY <1>1, <1>2, <1>7, <1>10, <3>1, AcceptReady DEF Side
    <3>3. (last_ack_id'["primary"] = None) = FALSE
      BY <1>5, <1>6
    <3>4. QED
      BY <1>1, <1>6, <1>8, <2>1, <3>2, <3>3 DEF DownlinkReady
  <2>2. CASE ~payload_in_flight
    <3>1. /\ response.data = <<>>
          /\ AllAhead(frame_buffer["primary"], LastNo(tunnel_out["primary"]), NextPiece(down))
      BY <1>3, <2>2 DEF ResponseFits, down
    <3>2. Ready(frame_buffer'["primary"], LastNo(tunnel_out'["primary"]),
                last_ack_id'["primary"] = None, NextPiece(down))
      BY <1>12, <3>1, AheadReady
    <3>3. QED
      BY <1>1, <1>8, <2>2, <3>2 DEF DownlinkReady
  <2>3. QED
    BY <2>1, <2>2
<1>18. RequestsFit' /\ ResponsesFit' /\ ResetForgets'
  BY <1>1 DEF RequestsFit, ResponsesFit, ResetForgets
<1>19. QED
  BY <1>15, <1>16, <1>17, <1>18 DEF FramesInOrder, SessionReady

\* An end that has seen nothing of a buffer has seen nothing of what it becomes.
LEMMA AheadAfterAck ==
  ASSUME NEW buffer \in Seq(Frame), GoodBuffer(buffer), NEW got \in Nat, NEW received,
         AllAhead(received, got, NextPiece(buffer))
  PROVE  AllAhead(received, got, NextPiece(AfterAck(buffer)))
<1>1. CASE buffer = <<>>
  BY <1>1 DEF AfterAck
<1>2. CASE buffer # <<>>
  <2>1. /\ NextPiece(buffer) = Head(buffer) /\ Head(buffer) # <<>>
        /\ Len(Head(buffer)) \in Nat /\ FrameNo(Head(buffer)) \in Nat
        /\ AfterAck(buffer) = EraseChunk(buffer)
    BY <1>2, HeadGood, ByteTypes DEF AfterAck
  <2>2. received = <<>> /\ FrameNo(Head(buffer)) > got
    BY <2>1 DEF AllAhead
  <2>3. CASE Len(Head(buffer)) > kMaxPayloadSize
    <3>1. FrameNo(NextPiece(AfterAck(buffer))) = FrameNo(Head(buffer))
      BY <1>2, <2>1, <2>3, EraseOther
    <3>2. QED
      BY <2>2, <3>1 DEF AllAhead
  <2>4. CASE Len(Head(buffer)) <= kMaxPayloadSize
    <3>1. CASE AfterAck(buffer) = <<>>
      BY <2>2, <3>1 DEF AllAhead, NextPiece
    <3>2. CASE AfterAck(buffer) # <<>>
      <4>1. FrameNo(NextPiece(AfterAck(buffer))) > FrameNo(Head(buffer))
        BY <1>2, <2>1, <2>4, <3>2, EraseLast
      <4>2. AfterAck(buffer) \in Seq(Frame) /\ GoodBuffer(AfterAck(buffer))
        BY AfterAckGood
      <4>3. FrameNo(NextPiece(AfterAck(buffer))) \in Nat
        BY <3>2, <4>2, HeadGood
      <4>4. FrameNo(NextPiece(AfterAck(buffer))) > got
        BY <2>1, <2>2, <4>1, <4>3
      <4>5. QED
        BY <2>2, <4>4 DEF AllAhead
    <3>3. QED
      BY <3>1, <3>2
  <2>5. QED
    BY <2>1, <2>3, <2>4, RadioAssumption
<1>3. QED
  BY <1>1, <1>2

\* The secondary forgets what it has of a frame when the primary asks for that.
LEMMA ResetRequestFrames ==
  ASSUME TypeOK, TypeOK', Alternate, Session, FramesInOrder, HandleRequest,
         UNCHANGED primaryVars, HandleNetworkTunnelReset(Head(rx["secondary"]))
  PROVE  FramesInOrder'
<1>1. Head(rx["secondary"]) \in Requests /\ Requests' = {}
  BY HandlePackets
<1>2. /\ Head(rx["secondary"]).id = None
      /\ UNCHANGED <<read_buffer, tunnel_out>> /\ OpenSession("secondary")
  BY DEF HandleNetworkTunnelReset
<1>3. UNCHANGED <<phase, connection_reset_required>>
  BY DEF primaryVars, backoffVars
<1>4. connection_reset_required
  BY <1>1, <1>2, IdTypes DEF Session, IdsOfSession, Side
<1>5. /\ frame_buffer'["secondary"] = <<>>
      /\ frame_buffer'["primary"] = frame_buffer["primary"]
  BY <1>2 DEF OpenSession, TypeOK, RadioTypeOK, Side
<1>6. BuffersGood' /\ BuffersInOrder'
  BY <1>2 DEF FramesInOrder, BuffersGood, BuffersInOrder
<1>7. ReassembliesGood'
  BY <1>2, <1>5, EmptySeq DEF FramesInOrder, ReassembliesGood, GoodReassembly, Piece, Side
<1>8. phase # "transferring"
  BY <1>4 DEF Session, TransferUnderWay
<1>9. SessionReady' /\ RequestsFit' /\ ResponsesFit'
  BY <1>1, <1>3, <1>4, <1>8 DEF SessionReady, RequestsFit, ResponsesFit
<1>10. ResetForgets'
  BY <1>3, <1>5 DEF FramesInOrder, ResetForgets
<1>11. QED
  BY <1>6, <1>7, <1>9, <1>10 DEF FramesInOrder

\* What the payload of a request does at the secondary.
LEMMA RequestAccepted ==
  ASSUME TypeOK, FramesInOrder, NEW request \in Packet, request \in Requests,
         AcceptPayload("secondary", request)
  PROVE  /\ ~ValidateID(last_ack_id["secondary"], request.id) \/ request.data = <<>> =>
              UNCHANGED <<frame_buffer, tunnel_out>>
         /\ GoodReassembly(frame_buffer'["secondary"], tunnel_out'["secondary"])
         /\ NotBefore(LastNo(tunnel_out'["secondary"]), NextPiece(read_buffer["primary"]))
         /\ frame_buffer'["primary"] = frame_buffer["primary"]
         /\ tunnel_out'["primary"] = tunnel_out["primary"]
<1>1. /\ read_buffer["primary"] \in Seq(Frame) /\ GoodBuffer(read_buffer["primary"])
      /\ GoodReassembly(frame_buffer["secondary"], tunnel_out["secondary"])
      /\ NotBefore(LastNo(tunnel_out["secondary"]), NextPiece(read_buffer["primary"]))
  BY ReassemblyTypes
     DEF FramesInOrder, BuffersGood, ReassembliesGood, BuffersInOrder, Side, Peer
<1>2. "secondary" \in Side /\ Peer("secondary") = "primary"
  BY DEF Side, Peer
<1>3. CASE ~ValidateID(last_ack_id["secondary"], request.id)
  <2>1. UNCHANGED <<frame_buffer, tunnel_out>>
    BY <1>3 DEF AcceptPayload
  <2>2. QED
    BY <1>1, <2>1
<1>4. CASE ValidateID(last_ack_id["secondary"], request.id)
  <2>1. /\ request.data # <<>> =>
             /\ Piece(request.data)
             /\ MayCome(frame_buffer["secondary"], LastNo(tunnel_out["secondary"]),
                        last_ack_id["secondary"] = None, request.data,
                        request.size <= kMaxPayloadSize)
        /\ read_buffer["primary"] # <<>> /\ request.data # <<>> =>
             \/ Carries(request, read_buffer["primary"])
             \/ FrameNo(request.data) < FrameNo(Head(read_buffer["primary"]))
    BY <1>4 DEF FramesInOrder, RequestsFit, RequestFits
  <2>2. /\ request.data = <<>> => UNCHANGED <<frame_buffer, tunnel_out>>
        /\ GoodReassembly(frame_buffer'["secondary"], tunnel_out'["secondary"])
        /\ frame_buffer'["primary"] = frame_buffer["primary"]
        /\ tunnel_out'["primary"] = tunnel_out["primary"]
    BY <1>1, <1>2, <1>4, <2>1, AcceptOutcome
  <2>3. NotBefore(LastNo(tunnel_out'["secondary"]), NextPiece(read_buffer["primary"]))
    BY <1>1, <1>2, <1>4, <2>1, AcceptOrder
  <2>4. QED
    BY <1>4, <2>2, <2>3
<1>5. QED
  BY <1>3, <1>4

\* What the acknowledgement in a request does at the secondary.
LEMMA RequestAcknowledges ==
  ASSUME TypeOK, FramesInOrder, NEW request, HandleRequestAck(request)
  PROVE  /\ read_buffer'["secondary"] =
              IF request.ack = next_id["secondary"] /\ payload_in_flight
              THEN AfterAck(read_buffer["secondary"]) ELSE read_buffer["secondary"]
         /\ read_buffer'["primary"] = read_buffer["primary"]
         /\ GoodBuffer(read_buffer'["secondary"])
         /\ NotBefore(LastNo(tunnel_out["primary"]), NextPiece(read_buffer'["secondary"]))
<1>1. /\ read_buffer'["secondary"] =
           IF request.ack = next_id["secondary"] /\ payload_in_flight
           THEN AfterAck(read_buffer["secondary"]) ELSE read_buffer["secondary"]
      /\ read_buffer'["primary"] = read_buffer["primary"]
  BY DEF HandleRequestAck, AfterAck, TypeOK, RadioTypeOK, Side
<1>2. /\ read_buffer["secondary"] \in Seq(Frame) /\ GoodBuffer(read_buffer["secondary"])
      /\ NotBefore(LastNo(tunnel_out["primary"]), NextPiece(read_buffer["secondary"]))
      /\ LastNo(tunnel_out["primary"]) \in Nat
  BY ReassemblyTypes DEF FramesInOrder, BuffersGood, BuffersInOrder, Side, Peer
<1>3. /\ GoodBuffer(AfterAck(read_buffer["secondary"]))
      /\ NotBefore(LastNo(tunnel_out["primary"]),
                   NextPiece(AfterAck(read_buffer["secondary"])))
  BY <1>2, AfterAckGood, AfterAckNotBefore
<1>4. QED
  BY <1>1, <1>2, <1>3

\* The secondary is ready for what follows the request in the primary's buffer,
LEMMA RequestUplink ==
  ASSUME TypeOK, Session, FramesInOrder, ~connection_reset_required,
         NEW request \in Packet, request \in Requests, AcceptPayload("secondary", request)
  PROVE  Ready(frame_buffer'["secondary"], LastNo(tunnel_out'["secondary"]), FALSE,
               NextPiece(AfterAck(read_buffer["primary"])))
<1>1. /\ request.id = next_id["primary"]
      /\ InStep(next_id["primary"], last_ack_id["secondary"])
  BY DEF Session, IdsOfSession
<1>2. UplinkReady /\ RequestFits(request)
  BY DEF FramesInOrder, SessionReady, RequestsFit
<1>3. CASE last_ack_id["secondary"] = next_id["primary"]
  <2>1. ~ValidateID(last_ack_id["secondary"], request.id) /\ last_ack_id["secondary"] # None
    BY <1>1, <1>3, IdTypes, RepeatIsInvalid DEF Side
  <2>2. UNCHANGED <<frame_buffer, tunnel_out>>
    BY <2>1, RequestAccepted
  <2>3. (last_ack_id["secondary"] = None) = FALSE
    BY <2>1
  <2>4. QED
    BY <1>2, <1>3, <2>2, <2>3 DEF UplinkReady
<1>4. CASE last_ack_id["secondary"] # next_id["primary"]
  <2>1. ValidateID(last_ack_id["secondary"], request.id)
    <3>1. AdvanceID(last_ack_id["secondary"]) = next_id["primary"]
      BY <1>1, <1>4, IdTypes, InStepCases DEF Side
    <3>2. QED
      BY <1>1, <3>1, IdTypes, NextIsValid DEF Side
  <2>2. Ready(frame_buffer["secondary"], LastNo(tunnel_out["secondary"]),
              last_ack_id["secondary"] = None, NextPiece(read_buffer["primary"]))
    BY <1>2, <1>4 DEF UplinkReady
  <2>3. /\ read_buffer["primary"] \in Seq(Frame) /\ GoodBuffer(read_buffer["primary"])
        /\ GoodReassembly(frame_buffer["secondary"], tunnel_out["secondary"])
        /\ LastNo(tunnel_out["secondary"]) \in Nat
    BY ReassemblyTypes DEF FramesInOrder, BuffersGood, ReassembliesGood, Side
  <2>4. CASE Carries(request, read_buffer["primary"])
    <3>1. "secondary" \in Side
      BY DEF Side
    <3>2. QED
      BY <2>1, <2>2, <2>3, <2>4, <3>1, AcceptReady
  <2>5. CASE ~Carries(request, read_buffer["primary"])
    <3>1. /\ request.data = <<>>
          /\ AllAhead(frame_buffer["secondary"], LastNo(tunnel_out["secondary"]),
                      NextPiece(read_buffer["primary"]))
      BY <1>2, <2>5 DEF RequestFits
    <3>2. UNCHANGED <<frame_buffer, tunnel_out>>
      BY <3>1, RequestAccepted
    <3>3. AllAhead(frame_buffer["secondary"], LastNo(tunnel_out["secondary"]),
                   NextPiece(AfterAck(read_buffer["primary"])))
      BY <2>3, <3>1, AheadAfterAck
    <3>4. QED
      BY <3>2, <3>3, AheadReady
  <2>6. QED
    BY <2>4, <2>5
<1>5. QED
  BY <1>3, <1>4

\* and the primary for what is at the front of the buffer of the secondary now.
LEMMA RequestDownlink ==
  ASSUME TypeOK, Session, FramesInOrder, ~connection_reset_required,
         NEW request \in Requests, HandleRequestAck(request)
  PROVE  Ready(frame_buffer["primary"], LastNo(tunnel_out["primary"]),
               last_ack_id["primary"] = None, NextPiece(read_buffer'["secondary"]))
<1>1. request.ack = last_ack_id["primary"]
  BY DEF Session, IdsOfSession
<1>2. DownlinkReady
  BY DEF FramesInOrder, SessionReady
<1>3. QED
  BY <1>1, <1>2, RequestAcknowledges DEF DownlinkReady

LEMMA HandleRequestFrames ==
  ASSUME TypeOK, TypeOK', Alternate, Session, FramesInOrder, InFlightHasFrame',
         HandleRequest, UNCHANGED primaryVars
  PROVE  FramesInOrder'
<1> DEFINE request == Head(rx["secondary"])
<1>1. /\ request \in Requests /\ request \in Packet /\ reply = <<>>
      /\ Responses = {} /\ Requests' = {} /\ Responses' = PacketsIn(reply')
  BY HandlePackets
<1>2. HandleNetworkTunnelReset(request) \/ HandleNetworkTunnelTxRx(request)
  BY DEF HandleRequest
<1>3. HandleNetworkTunnelReset(request) => FramesInOrder'
  BY ResetRequestFrames
<1> HIDE DEF request
<1>4. UNCHANGED <<phase, connection_reset_required>>
  BY DEF primaryVars, backoffVars
<1>5. ASSUME UNCHANGED <<next_id, last_ack_id, frame_buffer, read_buffer, tunnel_out,
                         payload_in_flight, reply>>
      PROVE  FramesInOrder'
  <2>1. Responses' = {}
    BY <1>1, <1>5, PacketsInShort, EmptySeq
  <2>2. QED
    BY <1>1, <1>4, <1>5, <2>1, FramesUnchanged DEF linkVars
<1>6. ASSUME AcceptPayload("secondary", request), HandleRequestAck(request)
      PROVE  /\ BuffersGood' /\ ReassembliesGood' /\ BuffersInOrder'
             /\ RequestsFit'
  <2>1. /\ GoodReassembly(frame_buffer'["secondary"], tunnel_out'["secondary"])
        /\ NotBefore(LastNo(tunnel_out'["secondary"]), NextPiece(read_buffer["primary"]))
        /\ frame_buffer'["primary"] = frame_buffer["primary"]
        /\ tunnel_out'["primary"] = tunnel_out["primary"]
    BY <1>1, <1>6, RequestAccepted
  <2>2. /\ read_buffer'["primary"] = read_buffer["primary"]
        /\ GoodBuffer(read_buffer'["secondary"])
        /\ NotBefore(LastNo(tunnel_out["primary"]), NextPiece(read_buffer'["secondary"]))
    BY <1>6, RequestAcknowledges
  <2>3. BuffersGood'
    BY <2>2 DEF FramesInOrder, BuffersGood, Side
  <2>4. ReassembliesGood'
    BY <2>1 DEF FramesInOrder, ReassembliesGood, Side
  <2>5. BuffersInOrder'
    BY <2>1, <2>2 DEF BuffersInOrder, Side, Peer
  <2>6. QED
    BY <1>1, <2>3, <2>4, <2>5 DEF RequestsFit
<1>7. CASE HandleNetworkTunnelTxRx(request) /\ connection_reset_required
  <2>1. CASE MissingFields(request)
    BY <1>5, <1>7, <2>1 DEF HandleNetworkTunnelTxRx, linkVars, secondaryVars
  <2>2. CASE ~MissingFields(request)
    <3>1. AcceptPayload("secondary", request) /\ HandleRequestAck(request)
      BY <1>7, <2>2 DEF HandleNetworkTunnelTxRx
    <3>2. phase # "transferring"
      BY <1>7 DEF Session, TransferUnderWay
    <3>3. phase # "resetting"
      BY <1>1, <1>7
         DEF Session, ResetUnderWay, HandleNetworkTunnelTxRx, ResetPacket
    <3>4. SessionReady' /\ ResponsesFit' /\ ResetForgets'
      BY <1>4, <1>7, <3>2, <3>3 DEF SessionReady, ResponsesFit, ResetForgets
    <3>5. QED
      BY <1>6, <3>1, <3>4 DEF FramesInOrder
  <2>3. QED
    BY <2>1, <2>2
<1>8. CASE HandleNetworkTunnelTxRx(request) /\ ~connection_reset_required
  <2>1. ASSUME AcceptPayload("secondary", request), HandleRequestAck(request),
               last_ack_id' = [last_ack_id EXCEPT !["secondary"] = next_id["primary"]],
               AdvanceID(last_ack_id["primary"]) = next_id'["secondary"],
               next_id'["primary"] = next_id["primary"],
               reply' = <<EncodeTunnelTxRxPacket(next_id'["secondary"],
                            next_id["primary"], read_buffer'["secondary"])>>,
               payload_in_flight' =
                 (read_buffer'["secondary"] # <<>> \/ StillInFlight(request))
        PROVE  FramesInOrder'
    <3>1. BuffersGood' /\ ReassembliesGood' /\ BuffersInOrder' /\ RequestsFit'
      BY <1>6, <2>1
    <3>2. /\ last_ack_id'["secondary"] = next_id["primary"] /\ next_id["primary"] # None
          /\ last_ack_id'["primary"] = last_ack_id["primary"]
          /\ last_ack_id["primary"] # next_id'["secondary"]
      <4>1. /\ last_ack_id'["secondary"] = next_id["primary"]
            /\ last_ack_id'["primary"] = last_ack_id["primary"]
        BY <2>1 DEF TypeOK, RadioTypeOK, Side
      <4>2. AdvanceID(last_ack_id["primary"]) # last_ack_id["primary"]
        BY IdTypes, NextIsValid DEF Side
      <4>3. QED
        BY <2>1, <4>1, <4>2, IdTypes DEF Side
    <3>3. UplinkReady'
      <4>1. Ready(frame_buffer'["secondary"], LastNo(tunnel_out'["secondary"]), FALSE,
                  NextPiece(AfterAck(read_buffer["primary"])))
        BY <1>1, <1>8, <2>1, RequestUplink
      <4>2. read_buffer'["primary"] = read_buffer["primary"]
        BY <2>1, RequestAcknowledges
      <4>3. (last_ack_id'["secondary"] = None) = FALSE
        BY <3>2
      <4>4. QED
        BY <2>1, <3>2, <4>1, <4>2, <4>3 DEF UplinkReady
    <3>4. Ready(frame_buffer'["primary"], LastNo(tunnel_out'["primary"]),
                last_ack_id'["primary"] = None, NextPiece(read_buffer'["secondary"]))
      BY <1>1, <1>8, <2>1, <3>2, RequestDownlink, RequestAccepted
    <3>5. DownlinkReady'
      BY <3>2, <3>4 DEF DownlinkReady
    <3> DEFINE packet == EncodeTunnelTxRxPacket(next_id'["secondary"],
                           next_id["primary"], read_buffer'["secondary"])
    <3>6. Responses' = {packet}
      BY <1>1, <2>1, ReplyPackets DEF TypeOK, RadioTypeOK, Side
    <3>7. IF read_buffer'["secondary"] = <<>> THEN packet.data = <<>>
          ELSE Carries(packet, read_buffer'["secondary"])
      <4>1. read_buffer'["secondary"] \in Seq(Frame) /\ GoodBuffer(read_buffer'["secondary"])
        BY <3>1 DEF BuffersGood, TypeOK, RadioTypeOK, Side
      <4>2. QED
        BY <4>1, EncodeCarries
    <3> HIDE DEF packet
    <3>8. payload_in_flight' <=> read_buffer'["secondary"] # <<>>
      BY <2>1 DEF InFlightHasFrame
    <3>9. CASE payload_in_flight'
      BY <1>1, <1>4, <3>1, <3>3, <3>5, <3>6, <3>7, <3>8, <3>9, <1>8
         DEF FramesInOrder, SessionReady, ResponsesFit, ResponseFits, ResetForgets,
             Session, ResetUnderWay
    <3>10. CASE ~payload_in_flight'
      <4>1. read_buffer'["secondary"] = <<>> /\ NextPiece(<<>>) = <<>> /\ packet.data = <<>>
        BY <3>7, <3>8, <3>10 DEF NextPiece
      <4>2. AllAhead(frame_buffer'["primary"], LastNo(tunnel_out'["primary"]),
                     NextPiece(read_buffer'["secondary"]))
        BY <3>4, <4>1 DEF Ready, AllAhead
      <4>3. QED
        BY <1>4, <1>8, <3>1, <3>3, <3>5, <3>6, <3>10, <4>1, <4>2
           DEF FramesInOrder, SessionReady, ResponsesFit, ResponseFits, ResetForgets,
               Session, ResetUnderWay
    <3>11. QED
      BY <3>9, <3>10
  <2>2. QED
    BY <1>1, <1>5, <1>8, <2>1, HandleInSession
<1>9. QED
  BY <1>2, <1>3, <1>7, <1>8

-----------------------------------------------------------------------------
(* A frame that is read from a tunnel comes behind all that is on its way.  *)

\* next is at the front where old was, or something new where nothing was.
Later(next, old, got) ==
  \/ next = old
  \/ old = <<>> /\ (next # <<>> => FrameNo(next) > got)

LEMMA LaterFits ==
  ASSUME NEW next, NEW old, NEW got, Later(next, old, got)
  PROVE  /\ NotBefore(got, old) => NotBefore(got, next)
         /\ \A received, fresh :
              Ready(received, got, fresh, old) => Ready(received, got, fresh, next)
         /\ \A received : AllAhead(received, got, old) => AllAhead(received, got, next)
BY DEF Later, NotBefore, Ready, AllAhead, MayCome

LEMMA AppendLater ==
  ASSUME NEW buffer \in Seq(Frame), GoodBuffer(buffer),
         NEW frame \in Frame, frame # <<>>, Piece(frame),
         \A j \in 1..Len(buffer) : FrameNo(buffer[j]) < FrameNo(frame),
         NEW got, FrameNo(frame) > got
  PROVE  /\ Later(NextPiece(Append(buffer, frame)), NextPiece(buffer), got)
         /\ Later(NextPiece(AfterAck(Append(buffer, frame))), NextPiece(AfterAck(buffer)), got)
<1>1. Later(NextPiece(Append(buffer, frame)), NextPiece(buffer), got)
  BY AppendGood DEF Later, NextPiece
<1> DEFINE next == NextPiece(AfterAck(Append(buffer, frame)))
<1>2. IF AfterAck(buffer) # <<>> THEN next = NextPiece(AfterAck(buffer))
      ELSE next = <<>> \/ FrameNo(next) = FrameNo(frame)
  BY AppendAfterAck, Zenon
<1> HIDE DEF next
<1>3. Later(next, NextPiece(AfterAck(buffer)), got)
  BY <1>2 DEF Later, NextPiece
<1>4. QED
  BY <1>1, <1>3 DEF next

\* A frame of the tunnel is a piece.
LEMMA NewFrame ==
  ASSUME NEW n \in Nat, NEW length \in Nat \ {0}, NEW frame
  PROVE  frame = [i \in 1..length |-> <<n, i>>] =>
           frame \in Frame /\ frame # <<>> /\ Piece(frame) /\ FrameNo(frame) = n
<1>1. SUFFICES ASSUME frame = [i \in 1..length |-> <<n, i>>]
               PROVE  frame \in Frame /\ frame # <<>> /\ Piece(frame) /\ FrameNo(frame) = n
  OBVIOUS
<1>2. \A i \in 1..length : <<n, i>> \in Byte
  BY DEF Byte
<1>3. frame \in Frame /\ Len(frame) = length
  BY <1>1, <1>2 DEF Frame
<1>4. \A i \in 1..Len(frame) : frame[i] = <<n, i>>
  BY <1>1, <1>3
<1>5. 1 \in 1..Len(frame)
  BY <1>3
<1>6. frame[1] = <<n, 1>> /\ frame[1][1] = n /\ frame[1][2] = 1
  BY <1>4, <1>5
<1>7. \A i \in 1..Len(frame) : 1 + i - 1 = i
  BY <1>3
<1>8. Piece(frame)
  BY <1>4, <1>6, <1>7 DEF Piece
<1>9. frame # <<>>
  BY <1>3, EmptySeq DEF Frame
<1>10. QED
  BY <1>3, <1>6, <1>8, <1>9 DEF FrameNo

\* The frames on their way are frames that were read.
LEMMA KnownFrames ==
  ASSUME TypeOK, FramesTracked, BuffersGood, NEW s \in Side
  PROVE  /\ \A j \in 1..Len(read_buffer[s]) :
              FrameNo(read_buffer[s][j]) < Len(tunnel_in[s]) + 1
         /\ LastNo(tunnel_out[Peer(s)]) < Len(tunnel_in[s]) + 1
         /\ s = "primary" => \A packet \in Requests :
              packet.data # <<>> => FrameNo(packet.data) < Len(tunnel_in[s]) + 1
<1>1. tunnel_in[s] \in Seq(Nat) /\ Len(tunnel_in[s]) \in Nat
  BY LenProperties DEF TypeOK, RadioTypeOK
<1>2. Peer(s) \in Side /\ Peer(Peer(s)) = s
  BY DEF Side, Peer
<1>3. ASSUME NEW frame \in Frame, frame # <<>>,
             EndsAtLast(tunnel_in[s], frame) \/ NoEnd(tunnel_in[s], frame)
      PROVE  FrameNo(frame) < Len(tunnel_in[s]) + 1
  <2>1. 1 \in 1..Len(frame)
    BY <1>3, ByteTypes
  <2>2. frame[1][1] \in 1..Len(tunnel_in[s])
    BY <1>3, <2>1 DEF EndsAtLast, NoEnd
  <2>3. QED
    BY <1>1, <2>2 DEF FrameNo
<1>4. ASSUME NEW j \in 1..Len(read_buffer[s])
      PROVE  FrameNo(read_buffer[s][j]) < Len(tunnel_in[s]) + 1
  <2>1. read_buffer[s] \in Seq(Frame) /\ read_buffer[s][j] # <<>>
    BY DEF TypeOK, RadioTypeOK, BuffersGood, GoodBuffer
  <2>2. read_buffer[s][j] \in Frame
    BY <2>1, ElementOfSeq
  <2>3. EndsAtLast(tunnel_in[s], read_buffer[s][j])
    BY DEF FramesTracked, BuffersTracked
  <2>4. QED
    BY <1>3, <2>1, <2>2, <2>3
<1>5. LastNo(tunnel_out[Peer(s)]) < Len(tunnel_in[s]) + 1
  <2>1. tunnel_out[Peer(s)].frame \in Frame
    BY <1>2, ReassemblyTypes
  <2>2. EndsAtLast(tunnel_in[s], tunnel_out[Peer(s)].frame)
    BY <1>2 DEF FramesTracked, ReassemblyTracked
  <2>3. QED
    BY <1>1, <1>3, <2>1, <2>2 DEF LastNo
<1>6. ASSUME s = "primary", NEW packet \in Requests, packet.data # <<>>
      PROVE  FrameNo(packet.data) < Len(tunnel_in[s]) + 1
  <2>1. packet.data \in Frame
    BY QueueTypes, PacketsInShort DEF Requests, Packet
  <2>2. PICK j \in 1..Len(rx["secondary"]) : packet = rx["secondary"][j]
    BY DEF Requests, PacketsIn
  <2>3. ChunkMarked(tunnel_in[s], packet)
    BY <1>6, <2>2 DEF FramesTracked, RxTracked, Side, Peer
  <2>4. QED
    BY <1>3, <1>6, <2>1, <2>3 DEF ChunkMarked
<1>7. QED
  BY <1>4, <1>5, <1>6

LEMMA ReadTunnelFrames ==
  ASSUME TypeOK, FramesTracked, FramesInOrder, NEW s \in Side, ReadTunnel(s)
  PROVE  FramesInOrder'
<1>1. PICK length \in FrameLengths :
        /\ tunnel_in' = [tunnel_in EXCEPT ![s] = Append(@, length)]
        /\ read_buffer' = [read_buffer EXCEPT
             ![s] = Append(@, [i \in 1..length |-> <<Len(tunnel_in[s]) + 1, i>>])]
  BY DEF ReadTunnel, TunnelThread
<1>2. /\ UNCHANGED <<next_id, last_ack_id, frame_buffer, tunnel_out, phase>>
      /\ UNCHANGED <<connection_reset_required, payload_in_flight>>
      /\ Requests' = Requests /\ Responses' = Responses
  BY DEF ReadTunnel, TunnelThread, radioVars, primaryVars, backoffVars, secondaryVars,
         Requests, Responses, PacketsIn
<1> DEFINE frame == [i \in 1..length |-> <<Len(tunnel_in[s]) + 1, i>>]
           buffer == read_buffer[s]
           more == Append(buffer, frame)
           n == Len(tunnel_in[s]) + 1
<1>3. n \in Nat /\ length \in Nat \ {0}
  BY LenProperties, RadioAssumption DEF TypeOK, RadioTypeOK
<1>4. frame \in Frame /\ frame # <<>> /\ Piece(frame) /\ FrameNo(frame) = n
  BY <1>3, NewFrame
<1>5. /\ read_buffer'[s] = more
      /\ \A t \in Side \ {s} : read_buffer'[t] = read_buffer[t]
  BY <1>1 DEF TypeOK, RadioTypeOK
<1> HIDE DEF frame
<1>6. /\ buffer \in Seq(Frame) /\ GoodBuffer(buffer)
      /\ \A j \in 1..Len(buffer) : FrameNo(buffer[j]) < FrameNo(frame)
      /\ LastNo(tunnel_out[Peer(s)]) < n /\ LastNo(tunnel_out[Peer(s)]) \in Nat
  <2>1. Peer(s) \in Side
    BY DEF Peer, Side
  <2>2. QED
    BY <1>4, <2>1, KnownFrames, ReassemblyTypes DEF FramesInOrder, BuffersGood
<1>7. FrameNo(frame) > LastNo(tunnel_out[Peer(s)])
  BY <1>3, <1>4, <1>6
<1>8. /\ Later(NextPiece(more), NextPiece(buffer), LastNo(tunnel_out[Peer(s)]))
      /\ Later(NextPiece(AfterAck(more)), NextPiece(AfterAck(buffer)),
               LastNo(tunnel_out[Peer(s)]))
  BY <1>4, <1>6, <1>7, AppendLater
<1>9. /\ GoodBuffer(more) /\ more # <<>>
      /\ Head(more) = IF buffer = <<>> THEN frame ELSE Head(buffer)
  BY <1>4, <1>6, AppendGood
<1>10. \A packet : Carries(packet, buffer) => Carries(packet, more)
  BY <1>9 DEF Carries
<1>11. s = "primary" => \A packet \in Requests :
         packet.data # <<>> => FrameNo(packet.data) < FrameNo(frame)
  BY <1>4, KnownFrames DEF FramesInOrder
<1> HIDE DEF more, buffer, n
<1>12. BuffersGood'
  BY <1>5, <1>9 DEF FramesInOrder, BuffersGood
<1>13. ReassembliesGood'
  BY <1>2 DEF FramesInOrder, ReassembliesGood
<1>14. BuffersInOrder'
  <2>1. ASSUME NEW t \in Side
        PROVE  NotBefore(LastNo(tunnel_out[t]), NextPiece(read_buffer'[Peer(t)]))
    <3>1. NotBefore(LastNo(tunnel_out[t]), NextPiece(read_buffer[Peer(t)]))
      BY DEF FramesInOrder, BuffersInOrder
    <3>2. CASE Peer(t) = s
      <4>1. Peer(s) = t
        BY <3>2 DEF Side, Peer
      <4>2. QED
        BY <1>5, <1>8, <3>1, <3>2, <4>1, LaterFits DEF buffer
    <3>3. CASE Peer(t) # s
      <4>1. Peer(t) \in Side \ {s}
        BY <3>3 DEF Side, Peer
      <4>2. QED
        BY <1>5, <3>1, <4>1
    <3>4. QED
      BY <3>2, <3>3
  <2>2. QED
    BY <1>2, <2>1 DEF BuffersInOrder
<1>15. ResetForgets'
  BY <1>2 DEF FramesInOrder, ResetForgets
<1>16. CASE s = "primary"
  <2>1. /\ read_buffer'["primary"] = more /\ read_buffer["primary"] = buffer
        /\ read_buffer'["secondary"] = read_buffer["secondary"]
        /\ Peer(s) = "secondary"
    BY <1>5, <1>16 DEF buffer, Side, Peer
  <2>2. UplinkReady => UplinkReady'
    BY <1>2, <1>8, <2>1, LaterFits DEF UplinkReady
  <2>3. DownlinkReady => DownlinkReady'
    BY <1>2, <2>1 DEF DownlinkReady
  <2>4. SessionReady'
    BY <1>2, <2>2, <2>3 DEF FramesInOrder, SessionReady
  <2>5. ASSUME NEW packet \in Requests PROVE RequestFits(packet)'
    <3>1. RequestFits(packet)
      BY DEF FramesInOrder, RequestsFit
    <3>2. packet.data # <<>> =>
            Carries(packet, more) \/ FrameNo(packet.data) < FrameNo(Head(more))
      <4>1. CASE buffer = <<>>
        BY <1>9, <1>11, <1>16, <4>1
      <4>2. CASE buffer # <<>>
        BY <1>9, <1>10, <2>1, <3>1, <4>2 DEF RequestFits
      <4>3. QED
        BY <4>1, <4>2
    <3>3. \A received :
            AllAhead(received, LastNo(tunnel_out["secondary"]), NextPiece(buffer))
              => AllAhead(received, LastNo(tunnel_out["secondary"]), NextPiece(more))
      BY <1>8, <2>1, LaterFits
    <3>4. QED
      BY <1>2, <1>10, <2>1, <3>1, <3>2, <3>3 DEF RequestFits
  <2>6. RequestsFit'
    BY <1>2, <2>5 DEF RequestsFit
  <2>7. ResponsesFit'
    BY <1>2, <2>1 DEF FramesInOrder, ResponsesFit, ResponseFits
  <2>8. QED
    BY <1>12, <1>13, <1>14, <1>15, <2>4, <2>6, <2>7 DEF FramesInOrder
<1>17. CASE s = "secondary"
  <2>1. /\ read_buffer'["secondary"] = more /\ read_buffer["secondary"] = buffer
        /\ read_buffer'["primary"] = read_buffer["primary"]
        /\ Peer(s) = "primary"
    BY <1>5, <1>17 DEF buffer, Side, Peer
  <2>2. DownlinkReady => DownlinkReady'
    BY <1>2, <1>8, <2>1, LaterFits DEF DownlinkReady
  <2>3. UplinkReady => UplinkReady'
    BY <1>2, <2>1 DEF UplinkReady
  <2>4. SessionReady'
    BY <1>2, <2>2, <2>3 DEF FramesInOrder, SessionReady
  <2>5. RequestsFit'
    BY <1>2, <2>1 DEF FramesInOrder, RequestsFit, RequestFits
  <2>6. ASSUME NEW packet, ResponseFits(packet) PROVE ResponseFits(packet)'
    <3>1. \A received :
            AllAhead(received, LastNo(tunnel_out["primary"]), NextPiece(buffer))
              => AllAhead(received, LastNo(tunnel_out["primary"]), NextPiece(more))
      BY <1>8, <2>1, LaterFits
    <3>2. QED
      BY <1>2, <1>10, <2>1, <2>6, <3>1 DEF ResponseFits
  <2>7. ResponsesFit'
    BY <1>2, <2>6 DEF FramesInOrder, ResponsesFit
  <2>8. QED
    BY <1>12, <1>13, <1>14, <1>15, <2>4, <2>5, <2>7 DEF FramesInOrder
<1>18. QED
  BY <1>16, <1>17 DEF Side

LEMMA PrimaryRestartFrames ==
  ASSUME TypeOK, FramesInOrder, PrimaryRestart, UNCHANGED secondaryVars
  PROVE  FramesInOrder'
<1>1. Requests' = Requests
  BY PrimaryRestartPackets
<1>2. /\ read_buffer'["primary"] = <<>> /\ frame_buffer'["primary"] = <<>>
      /\ read_buffer'["secondary"] = read_buffer["secondary"]
      /\ frame_buffer'["secondary"] = frame_buffer["secondary"]
      /\ last_ack_id'["secondary"] = last_ack_id["secondary"]
      /\ UNCHANGED tunnel_out
      /\ phase' = "sleeping" /\ connection_reset_required'
  BY DEF PrimaryRestart, Restart, OpenSession, historyVars, TypeOK, RadioTypeOK, Side
<1>3. BuffersGood'
  BY <1>2, EmptySeq DEF FramesInOrder, BuffersGood, GoodBuffer, Side
<1>4. ReassembliesGood'
  BY <1>2, EmptySeq DEF FramesInOrder, ReassembliesGood, GoodReassembly, Piece, Side
<1>5. BuffersInOrder'
  BY <1>2 DEF FramesInOrder, BuffersInOrder, NotBefore, NextPiece, Side, Peer
<1>6. RequestsFit'
  BY <1>1, <1>2 DEF FramesInOrder, RequestsFit, RequestFits
<1>7. SessionReady' /\ ResponsesFit' /\ ResetForgets'
  BY <1>2 DEF SessionReady, ResponsesFit, ResetForgets
<1>8. QED
  BY <1>3, <1>4, <1>5, <1>6, <1>7 DEF FramesInOrder

LEMMA InitFrames ==
  ASSUME Init
  PROVE  FramesInOrder
<1>1. /\ \A s \in Side : read_buffer[s] = <<>> /\ frame_buffer[s] = <<>>
      /\ \A s \in Side : tunnel_out[s].frame = <<>> /\ rx[s] = <<>>
      /\ phase = "sleeping" /\ connection_reset_required
  BY DEF Init, RadioInit, PrimaryInit
<1>2. PacketsIn(<<>>) = {} /\ Len(<<>>) = 0
  BY PacketsInShort, EmptySeq
<1>3. Requests = {}
  BY <1>1, <1>2 DEF Requests, Side
<1>4. BuffersGood
  BY <1>1, <1>2 DEF BuffersGood, GoodBuffer
<1>5. ReassembliesGood
  BY <1>1, <1>2 DEF ReassembliesGood, GoodReassembly, Piece
<1>6. BuffersInOrder
  BY <1>1 DEF BuffersInOrder, NotBefore, NextPiece, Side, Peer
<1>7. SessionReady /\ RequestsFit /\ ResponsesFit /\ ResetForgets
  BY <1>1, <1>3 DEF SessionReady, RequestsFit, ResponsesFit, ResetForgets
<1>8. QED
  BY <1>4, <1>5, <1>6, <1>7 DEF FramesInOrder

\* Without late answers and restarts of the secondary, FramesInOrder always holds.
LEMMA FramesAlways ==
  ASSUME "late" \notin Faults, "restart_secondary" \notin Faults
  PROVE  Spec => []FramesInOrder
<1>1. Init => FramesInOrder
  BY InitFrames
<1>2. /\ TypeOK /\ TypeOK' /\ ("late" \notin Faults => Alternate) /\ Session
      /\ FramesTracked /\ InFlightHasFrame' /\ FramesInOrder /\ [Next]_vars
      => FramesInOrder'
  <2> SUFFICES ASSUME TypeOK, TypeOK', Alternate, Session, FramesTracked,
                      InFlightHasFrame', FramesInOrder, [Next]_vars
               PROVE  FramesInOrder'
    OBVIOUS
  <2>1. CASE Poll
    BY <2>1, PollFrames
  <2>2. CASE Timeout
    BY <2>2, TimeoutFrames
  <2>3. CASE Answer
    BY <2>3, ResetAnswerFrames, TransferAnswerFrames DEF Answer
  <2>4. CASE HandleRequest /\ UNCHANGED primaryVars
    BY <2>4, HandleRequestFrames
  <2>5. CASE SendReply /\ UNCHANGED primaryVars
    BY <2>5, SendReplyPackets, FramesUnchanged
       DEF SendReply, historyVars, primaryVars, backoffVars
  <2>6. CASE \E s \in Side : ReadTunnel(s)
    BY <2>6, ReadTunnelFrames
  <2>7. CASE Crash
    <3>1. PrimaryRestart /\ UNCHANGED secondaryVars
      BY <2>7 DEF Crash, SecondaryRestart, May
    <3>2. QED
      BY <3>1, PrimaryRestartFrames
  <2>8. CASE Stabilise \/ UNCHANGED vars
    <3>1. /\ UNCHANGED <<linkVars, tunnel_out, secondaryVars, rx>>
          /\ UNCHANGED <<phase, connection_reset_required>>
      BY <2>8 DEF Stabilise, vars, radioVars, historyVars, primaryVars, backoffVars
    <3>2. Requests' = Requests /\ Responses' = Responses
      BY <3>1 DEF Requests, Responses, PacketsIn, secondaryVars
    <3>3. QED
      BY <3>1, <3>2, FramesUnchanged DEF secondaryVars
  <2>9. QED
    BY <2>1, <2>2, <2>3, <2>4, <2>5, <2>6, <2>7, <2>8 DEF Next, Primary, Secondary
<1>3. QED
  BY <1>1, <1>2, TypeCorrect, AlternateAlways, SessionAlways, TrackedAlways,
     InFlightFrame, PTL DEF Spec

-----------------------------------------------------------------------------
(* The refinement: each step of the link is a step of FrameTunnel, or none. *)

Fresh == [s \in Side |-> last_ack_id[s] = None]

\* A frame that is written is the end of a frame of the other host.
LEMMA WholeFrame ==
  ASSUME NEW lengths \in Seq(Nat), NEW whole \in Frame, whole # <<>>,
         Piece(whole), EndsAtLast(lengths, whole)
  PROVE  /\ FrameNo(whole) \in 1..Len(lengths)
         /\ whole[1][2] \in 1..lengths[FrameNo(whole)]
         /\ whole = [i \in 1..lengths[FrameNo(whole)] - whole[1][2] + 1 |->
                       <<FrameNo(whole), i + whole[1][2] - 1>>]
<1> DEFINE n == FrameNo(whole)
           k == whole[1][2]
<1>1. /\ Len(whole) \in Nat /\ Len(whole) >= 1 /\ k \in Nat /\ k >= 1
      /\ \A i \in 1..Len(whole) : whole[i] = <<n, k + i - 1>>
  BY ByteTypes DEF Piece, FrameNo
<1>2. /\ \A i \in 1..Len(whole) : whole[i][1] \in 1..Len(lengths)
      /\ \A i \in 1..Len(whole) :
           whole[i][2] = lengths[whole[i][1]] <=> i = Len(whole)
  BY DEF EndsAtLast
<1>3. n \in 1..Len(lengths)
  BY <1>1, <1>2 DEF FrameNo
<1>4. lengths[n] \in Nat
  BY <1>3, ElementOfSeq
<1> HIDE DEF n, k
<1>5. Len(whole) \in 1..Len(whole)
  BY <1>1
<1>6. k + Len(whole) - 1 = lengths[n]
  <2>1. whole[Len(whole)] = <<n, k + Len(whole) - 1>>
    BY <1>1, <1>5
  <2>2. whole[Len(whole)][1] = n /\ whole[Len(whole)][2] = k + Len(whole) - 1
    BY <2>1
  <2>3. QED
    BY <1>2, <1>5, <2>2
<1>7. Len(whole) = lengths[n] - k + 1 /\ k \in 1..lengths[n]
  BY <1>1, <1>4, <1>6
<1>8. whole = [i \in 1..Len(whole) |-> whole[i]]
  BY DEF Frame
<1>9. \A i \in 1..Len(whole) : k + i - 1 = i + k - 1
  BY <1>1
<1>10. whole = [i \in 1..Len(whole) |-> <<n, i + k - 1>>]
  <2>1. \A i \in 1..Len(whole) : whole[i] = <<n, i + k - 1>>
    BY <1>1, <1>9
  <2>2. QED
    BY <1>8, <2>1
<1>11. QED
  BY <1>3, <1>7, <1>10 DEF n, k

\* A host that accepts a packet gets a frame or hears of the session.
LEMMA AcceptGets ==
  ASSUME TypeOK, TypeOK', FramesTracked', UNCHANGED tunnel_in,
         NEW s \in Side, NEW packet \in Packet, packet.id # None,
         ValidateID(last_ack_id[s], packet.id), AcceptPayload(s, packet),
         GoodReassembly(frame_buffer[s], tunnel_out[s]),
         packet.data # <<>> =>
           /\ Piece(packet.data)
           /\ MayCome(frame_buffer[s], LastNo(tunnel_out[s]), last_ack_id[s] = None,
                      packet.data, packet.size <= kMaxPayloadSize)
  PROVE  Tunnel!Get(s) \/ Tunnel!Hear(s)
<1> DEFINE whole == frame_buffer[s] \o packet.data
<1>1. Fresh' = [Fresh EXCEPT ![s] = FALSE] /\ Fresh[s] = (last_ack_id[s] = None)
  <2>1. last_ack_id' = [last_ack_id EXCEPT ![s] = packet.id]
    BY DEF AcceptPayload
  <2>2. QED
    BY <2>1 DEF Fresh, TypeOK, RadioTypeOK
<1>2. CASE packet.data = <<>> \/ ~(packet.size <= kMaxPayloadSize)
  <2>1. UNCHANGED tunnel_out
    BY <1>2, AcceptOutcome
  <2>2. QED
    BY <1>1, <2>1 DEF Tunnel!Hear, Fresh
<1>3. CASE packet.data # <<>> /\ packet.size <= kMaxPayloadSize
  <2>1. /\ whole \in Frame /\ whole # <<>> /\ Piece(whole)
        /\ FrameNo(whole) = FrameNo(packet.data)
        /\ WriteTunnel(s, whole) /\ tunnel_out'[s].frame = whole
    BY <1>3, AcceptOutcome
  <2> HIDE DEF whole
  <2>2. tunnel_in[Peer(s)] \in Seq(Nat)
    BY DEF TypeOK, RadioTypeOK, Peer, Side
  <2>3. EndsAtLast(tunnel_in[Peer(s)], whole)
    BY <2>1 DEF FramesTracked, ReassemblyTracked
  <2>4. \/ FrameNo(whole) > LastNo(tunnel_out[s])
        \/ last_ack_id[s] = None /\ FrameNo(whole) = LastNo(tunnel_out[s])
    <3>1. CASE frame_buffer[s] = <<>>
      BY <1>3, <2>1, <3>1 DEF MayCome
    <3>2. CASE frame_buffer[s] # <<>>
      <4>1. FrameNo(packet.data) = FrameNo(frame_buffer[s])
        <5>1. packet.data[1] = <<frame_buffer[s][1][1],
                                 frame_buffer[s][1][2] + Len(frame_buffer[s])>>
          BY <1>3, <3>2 DEF MayCome, Follows
        <5>2. QED
          BY <5>1 DEF FrameNo
      <4>2. QED
        BY <2>1, <3>2, <4>1 DEF GoodReassembly
    <3>3. QED
      BY <3>1, <3>2
  <2> DEFINE n == FrameNo(whole)
             k == whole[1][2]
  <2>5. /\ n \in 1..Len(tunnel_in[Peer(s)]) /\ k \in 1..tunnel_in[Peer(s)][n]
        /\ whole = [i \in 1..tunnel_in[Peer(s)][n] - k + 1 |-> <<n, i + k - 1>>]
    BY <2>1, <2>2, <2>3, WholeFrame
  <2>6. tunnel_out' = [tunnel_out EXCEPT ![s] = [frame |-> whole, parity |-> 1 - @.parity]]
    BY <2>1 DEF WriteTunnel
  <2>7. n > Tunnel!LastGot(s) \/ (Fresh[s] /\ n = Tunnel!LastGot(s))
    BY <1>1, <2>4 DEF Tunnel!LastGot, LastNo, FrameNo
  <2>8. Tunnel!Peer(s) = Peer(s)
    BY DEF Tunnel!Peer, Peer
  <2> HIDE DEF n, k
  <2>9. \E m \in 1..Len(tunnel_in[Tunnel!Peer(s)]) :
          \E l \in 1..tunnel_in[Tunnel!Peer(s)][m] :
            /\ m > Tunnel!LastGot(s) \/ (Fresh[s] /\ m = Tunnel!LastGot(s))
            /\ tunnel_out' = [tunnel_out EXCEPT
                 ![s] = [frame  |-> [i \in 1..tunnel_in[Tunnel!Peer(s)][m] - l + 1 |->
                                      <<m, i + l - 1>>],
                         parity |-> 1 - @.parity]]
    <3>1. tunnel_out' = [tunnel_out EXCEPT
            ![s] = [frame  |-> [i \in 1..tunnel_in[Peer(s)][n] - k + 1 |-> <<n, i + k - 1>>],
                    parity |-> 1 - @.parity]]
      BY <2>5, <2>6
    <3>2. QED
      BY <2>5, <2>7, <2>8, <3>1, Zenon
  <2>10. QED
    BY <1>1, <2>9, Zenon DEF Tunnel!Get, Fresh
<1>4. QED
  BY <1>2, <1>3

\* An end that opens a session, or loses what it knew of one.
LEMMA OpenReopens ==
  ASSUME TypeOK, NEW s \in Side, OpenSession(s), UNCHANGED historyVars
  PROVE  Tunnel!Reopen(s)
<1>1. Fresh' = [Fresh EXCEPT ![s] = TRUE]
  BY DEF OpenSession, Fresh, TypeOK, RadioTypeOK
<1>2. QED
  BY <1>1 DEF Tunnel!Reopen, Fresh, historyVars

LEMMA AnswerGets ==
  ASSUME TypeOK, TypeOK', Alternate, Session, FramesInOrder, FramesTracked', Answer
  PROVE  [Tunnel!Next]_(Tunnel!vars)
<1>1. CASE ConnectionResetAnswer
  BY <1>1 DEF ConnectionResetAnswer, linkVars, historyVars, Tunnel!vars
<1>2. CASE PerformTunnelTransferAnswer
  <2> DEFINE response == Head(rx["primary"])
  <2>1. /\ response \in Packet /\ AcceptPayload("primary", response)
        /\ ValidateID(last_ack_id["primary"], response.id)
        /\ response.id # None
    <3>1. response.id = next_id["secondary"]
      BY <1>2, TransferAnswerIds
    <3>2. QED
      BY <1>2, <3>1, AnswerPackets, TransferAnswerIds, IdTypes DEF Side
  <2>2. response.data # <<>> =>
          /\ Piece(response.data)
          /\ MayCome(frame_buffer["primary"], LastNo(tunnel_out["primary"]),
                     last_ack_id["primary"] = None, response.data,
                     response.size <= kMaxPayloadSize)
    BY <1>2, ResponseMayCome
  <2>3. UNCHANGED tunnel_in /\ "primary" \in Side
    BY <1>2 DEF PerformTunnelTransferAnswer, Side
  <2>4. GoodReassembly(frame_buffer["primary"], tunnel_out["primary"])
    BY DEF FramesInOrder, ReassembliesGood, Side
  <2> HIDE DEF response
  <2>5. Tunnel!Get("primary") \/ Tunnel!Hear("primary")
    BY <2>1, <2>2, <2>3, <2>4, AcceptGets
  <2>6. QED
    BY <2>5 DEF Tunnel!Next, Tunnel!Side
<1>3. QED
  BY <1>1, <1>2 DEF Answer

LEMMA HandleRequestGets ==
  ASSUME TypeOK, TypeOK', Alternate, FramesInOrder, FramesTracked', HandleRequest
  PROVE  [Tunnel!Next]_(Tunnel!vars)
<1> DEFINE request == Head(rx["secondary"])
<1>1. /\ request \in Requests /\ request \in Packet /\ "secondary" \in Side
      /\ HandleNetworkTunnelReset(request) \/ HandleNetworkTunnelTxRx(request)
      /\ UNCHANGED tunnel_in
  BY HandlePackets DEF HandleRequest, Side
<1> HIDE DEF request
<1>2. CASE HandleNetworkTunnelReset(request)
  <2>1. Tunnel!Reopen("secondary")
    BY <1>1, <1>2, OpenReopens DEF HandleNetworkTunnelReset, historyVars
  <2>2. QED
    BY <2>1 DEF Tunnel!Next, Tunnel!Side
<1>3. CASE HandleNetworkTunnelTxRx(request)
  <2>1. CASE MissingFields(request)
    BY <1>1, <1>3, <2>1 DEF HandleNetworkTunnelTxRx, linkVars, Tunnel!vars
  <2>2. CASE ~MissingFields(request)
    <3>1. AcceptPayload("secondary", request) /\ request.id # None
      BY <1>3, <2>2 DEF HandleNetworkTunnelTxRx, MissingFields
    <3>2. CASE ~ValidateID(last_ack_id["secondary"], request.id)
      <4>1. UNCHANGED <<last_ack_id, tunnel_out>>
        BY <3>1, <3>2 DEF AcceptPayload
      <4>2. QED
        BY <1>1, <4>1 DEF Tunnel!vars
    <3>3. CASE ValidateID(last_ack_id["secondary"], request.id)
      <4>1. request.data # <<>> =>
              /\ Piece(request.data)
              /\ MayCome(frame_buffer["secondary"], LastNo(tunnel_out["secondary"]),
                         last_ack_id["secondary"] = None, request.data,
                         request.size <= kMaxPayloadSize)
        BY <1>1, <3>3 DEF FramesInOrder, RequestsFit, RequestFits
      <4>2. GoodReassembly(frame_buffer["secondary"], tunnel_out["secondary"])
        BY DEF FramesInOrder, ReassembliesGood, Side
      <4>3. Tunnel!Get("secondary") \/ Tunnel!Hear("secondary")
        BY <1>1, <3>1, <3>3, <4>1, <4>2, AcceptGets
      <4>4. QED
        BY <4>3 DEF Tunnel!Next, Tunnel!Side
    <3>4. QED
      BY <3>2, <3>3
  <2>3. QED
    BY <2>1, <2>2
<1>4. QED
  BY <1>1, <1>2, <1>3

LEMMA ReadTunnelPuts ==
  ASSUME NEW s \in Side, ReadTunnel(s)
  PROVE  Tunnel!Put(s)
<1>1. UNCHANGED <<tunnel_out, last_ack_id>>
  BY DEF ReadTunnel, TunnelThread
<1>2. QED
  BY <1>1 DEF ReadTunnel, TunnelThread, Tunnel!Put

\* When answers are in time and the secondary does not restart, the two ends
\* and the air between them are a FrameTunnel, for all sizes of ids, chunks,
\* queues and frames: whichever packets and acknowledgements get lost, however
\* often the primary resets the connection or restarts, each host gets ends of
\* frames of the other in order, and none twice but the last one before a reset.
THEOREM LinkImplementsTunnel ==
  ASSUME "late" \notin Faults, "restart_secondary" \notin Faults
  PROVE  Spec => ImplementsTunnel
<1>1. Init => Tunnel!Init
  BY DEF Init, RadioInit, Tunnel!Init, Tunnel!Side, Side
<1>2. /\ TypeOK /\ TypeOK' /\ ("late" \notin Faults => Alternate) /\ Session
      /\ FramesTracked' /\ FramesInOrder /\ [Next]_vars
      => [Tunnel!Next]_(Tunnel!vars)
  <2> SUFFICES ASSUME TypeOK, TypeOK', Alternate, Session, FramesTracked',
                      FramesInOrder, [Next]_vars
               PROVE  [Tunnel!Next]_(Tunnel!vars)
    OBVIOUS
  <2>1. CASE ConnectionReset
    <3>1. Tunnel!Reopen("primary")
      BY <2>1, OpenReopens DEF ConnectionReset, Side
    <3>2. QED
      BY <3>1 DEF Tunnel!Next, Tunnel!Side
  <2>2. CASE PerformTunnelTransfer
    BY <2>2 DEF PerformTunnelTransfer, linkVars, historyVars, Tunnel!vars
  <2>3. CASE Timeout
    BY <2>3 DEF Timeout, ReceiveTimeout, linkVars, historyVars, Tunnel!vars
  <2>4. CASE Answer
    BY <2>4, AnswerGets
  <2>5. CASE HandleRequest
    BY <2>5, HandleRequestGets
  <2>6. CASE SendReply
    BY <2>6 DEF SendReply, linkVars, historyVars, Tunnel!vars
  <2>7. CASE \E s \in Side : ReadTunnel(s)
    BY <2>7, ReadTunnelPuts DEF Tunnel!Next, Tunnel!Side, Side
  <2>8. CASE Crash
    <3>1. PrimaryRestart
      BY <2>8 DEF Crash, SecondaryRestart, May
    <3>2. Tunnel!Reopen("primary")
      BY <3>1, OpenReopens DEF PrimaryRestart, Restart, Side
    <3>3. QED
      BY <3>2 DEF Tunnel!Next, Tunnel!Side
  <2>9. CASE Stabilise \/ UNCHANGED vars
    BY <2>9 DEF Stabilise, vars, linkVars, historyVars, Tunnel!vars
  <2>10. QED
    BY <2>1, <2>2, <2>3, <2>4, <2>5, <2>6, <2>7, <2>8, <2>9
       DEF Next, Primary, Poll, Secondary
<1>3. QED
  BY <1>1, <1>2, TypeCorrect, AlternateAlways, SessionAlways, TrackedAlways,
     FramesAlways, PTL DEF Spec, ImplementsTunnel, Tunnel!Spec
=============================================================================
