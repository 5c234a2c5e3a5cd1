------------------------ MODULE PacketDecoder_proofs ------------------------
(***************************************************************************)
(* Proofs about the framing codec for every header size, every set of      *)
(* message sizes and every number of packets, provided that Reset is not   *)
(* called with half a body buffered.                                       *)
(***************************************************************************)
EXTENDS PacketDecoder, TLAPS

\* How the packets lie on the wire: one after the other, without a gap.
Layout ==
  /\ \A k \in 1..Len(sent) :
       /\ sent[k].zipped = (sent[k].serial # sent[k].stored)
       /\ EndOf(k) <= wire
  /\ \A j, k \in 1..Len(sent) : j < k => EndOf(j) <= sent[k].at
  /\ \A k \in 1..Len(sent) :
       k = Len(sent) \/ sent[k + 1].at = EndOf(k)
  /\ Len(sent) > 0 => EndOf(Len(sent)) = wire

\* How far the decoder has come.
Progress ==
  /\ done <= Len(sent)
  /\ pos <= fed /\ fed <= wire
  /\ pc = "idle" => pos = fed

\* The deque holds the last messages decoded, in order.
VecInOrder ==
  /\ Len(vec) <= done
  /\ \A i \in 1..Len(vec) : vec[i] = (done - Len(vec)) + i

Inv ==
  /\ TypeOK
  /\ Layout
  /\ Progress
  /\ HeaderAligned
  /\ BodyAligned
  /\ VecInOrder

-----------------------------------------------------------------------------
(* Segments of the wire *)

\* Two adjacent segments make one.
LEMMA SegmentConcat ==
  ASSUME NEW a \in Nat, NEW m \in Nat, NEW n \in Nat
  PROVE  Segment(a, m) \o Segment(a + m, n) = Segment(a, m + n)
  BY DEF Segment

\* A segment is a sequence of positions of the length asked for.
LEMMA SegmentType ==
  ASSUME NEW a \in Nat, NEW n \in Nat
  PROVE  /\ Segment(a, n) \in Seq(Nat)
         /\ Len(Segment(a, n)) = n
  BY DEF Segment

\* A segment of at least one byte tells where it starts.
LEMMA SegmentStart ==
  ASSUME NEW a \in Nat, NEW b \in Nat, NEW n \in Nat \ {0},
         Segment(a, n) = Segment(b, n)
  PROVE  a = b
  <1>1. Segment(a, n)[1] = a + 1 /\ Segment(b, n)[1] = b + 1
    BY DEF Segment
  <1> QED BY <1>1

\* The empty segment is the empty sequence.
LEMMA SegmentEmpty ==
  ASSUME NEW a \in Nat
  PROVE  Segment(a, 0) = <<>>
  BY DEF Segment

-----------------------------------------------------------------------------
(* The packet that a header and a body belong to *)

\* Packets lie at different places, so a header has one owner.
LEMMA OneOwner ==
  ASSUME TypeOK, Layout,
         NEW k \in 1..Len(sent), header = Segment(sent[k].at, HeaderSize)
  PROVE  HeaderOwners = {k}
  <1>1. k \in HeaderOwners
    BY DEF HeaderOwners
  <1>2. ASSUME NEW j \in HeaderOwners
        PROVE  j = k
    <2>1. j \in 1..Len(sent) /\ header = Segment(sent[j].at, HeaderSize)
      BY DEF HeaderOwners
    <2>2. sent[j] \in Packet /\ sent[k] \in Packet
      BY <2>1 DEF TypeOK
    <2>3. sent[j].at = sent[k].at
      BY <2>1, <2>2, SegmentStart, HeaderSizeAssumption DEF Packet
    <2>4. ~(j < k) /\ ~(k < j)
      BY <2>1, <2>2, <2>3, HeaderSizeAssumption DEF Layout, EndOf, Packet
    <2> QED BY <2>1, <2>4
  <1> QED BY <1>1, <1>2

\* A complete and aligned body parses to the packet it was cut from.
LEMMA BodyParses ==
  ASSUME Inv, pc = "reading", compressSize # 0, BodyFits
  PROVE  /\ Parsed(AssembledBody) = done + 1
         /\ SubSeq(buf, Buffered + 1, Len(buf)) = <<>>
  <1> DEFINE n == done + 1
             b == sent[n].at + HeaderSize
  <1>1. /\ n \in 1..Len(sent) /\ sent[n] \in Packet /\ Base = sent[n].at
        /\ done < Len(sent)
    BY DEF Inv, TypeOK, BodyAligned, Base
  <1>2. /\ header = Segment(sent[n].at, HeaderSize)
        /\ compressSize = sent[n].stored /\ serialSize = sent[n].serial
        /\ remainSize \in 1..compressSize
        /\ buf = Segment(b, Buffered)
        /\ pos = b + Buffered
    BY <1>1 DEF Inv, BodyAligned, Buffered
  <1>3. Buffered \in Nat /\ Buffered + remainSize = compressSize /\ b \in Nat
    <2>1. sent[n].at \in Nat
      BY <1>1 DEF Packet
    <2>2. compressSize \in Nat /\ remainSize \in 1..compressSize
      BY <1>2 DEF Inv, TypeOK
    <2> QED BY <2>1, <2>2, HeaderSizeAssumption DEF Buffered
  <1>4. buf \in Seq(Nat) /\ Len(buf) = Buffered
    BY <1>2, <1>3, SegmentType
  <1>5. SubSeq(buf, 1, Buffered) = buf /\ SubSeq(buf, Buffered + 1, Len(buf)) = <<>>
    BY <1>3, <1>4
  <1>6. AssembledBody = Segment(b, compressSize)
    <2>1. AssembledBody = Segment(b, Buffered) \o Segment(b + Buffered, remainSize)
      BY <1>2, <1>5 DEF AssembledBody
    <2>2. remainSize \in Nat
      BY DEF Inv, TypeOK
    <2> HIDE DEF b
    <2> QED BY <2>1, <2>2, <1>3, SegmentConcat
  <1>7. HeaderOwners = {n}
    BY <1>1, <1>2, OneOwner DEF Inv
  <1>8. sent[n].zipped = (serialSize # compressSize)
    BY <1>1, <1>2 DEF Inv, Layout
  <1> DEFINE m == {k \in HeaderOwners :
                     /\ AssembledBody = Segment(sent[k].at + HeaderSize, sent[k].stored)
                     /\ sent[k].zipped = (serialSize # compressSize)}
  <1>9. m = {n}
    BY <1>2, <1>6, <1>7, <1>8
  <1>10. Parsed(AssembledBody) = n
    <2> HIDE DEF n
    <2>1. Parsed(AssembledBody) = IF m = {} THEN Corrupt ELSE CHOOSE k \in m : TRUE
      BY DEF Parsed
    <2> QED BY <2>1, <1>9
  <1> QED BY <1>5, <1>10

-----------------------------------------------------------------------------
(* Every step preserves the invariant *)

\* The initial state satisfies the invariant.
LEMMA InitInv == Init => Inv
  <1> SUFFICES ASSUME Init PROVE Inv
    OBVIOUS
  <1>1. TypeOK
    BY DEF Init, TypeOK
  <1>2. Layout /\ Progress /\ BodyAligned /\ VecInOrder
    BY DEF Init, Layout, Progress, BodyAligned, VecInOrder
  <1>3. HeaderAligned
    <2>1. Len(header) = 0 /\ Base = 0 /\ header = Segment(0, 0)
      BY SegmentEmpty DEF Init, Base
    <2> QED BY <2>1, HeaderSizeAssumption DEF Init, HeaderAligned
  <1> QED BY <1>1, <1>2, <1>3 DEF Inv

\* Send appends a packet at the end of the wire and disturbs no other.
LEMMA SendInv ==
  ASSUME Inv, Send
  PROVE  Inv'
  <1> USE HeaderSizeAssumption
  <1>1. PICK serial, zip \in Sizes :
          /\ sent' = Append(sent, Encode(wire, serial, zip))
          /\ wire' = wire + HeaderSize + Encode(wire, serial, zip).stored
    BY DEF Send
  <1> DEFINE p == Encode(wire, serial, zip)
  <1>2. /\ p \in Packet /\ p.at = wire /\ p.zipped = (p.serial # p.stored)
        /\ p.stored \in Nat \ {0}
    BY SizesAssumption DEF Encode, StoresCompressed, Packet, Inv, TypeOK
  <1>3. UNCHANGED <<fed, pos, pc, header, compressSize, remainSize, serialSize,
                    buf, vec, done>>
    BY DEF Send, decoderVars
  <1> HIDE DEF p
  <1>4. /\ sent' = Append(sent, p) /\ wire' = wire + HeaderSize + p.stored
        /\ sent \in Seq(Packet) /\ wire \in Nat
    BY <1>1 DEF p, Inv, TypeOK
  <1>5. /\ Len(sent') = Len(sent) + 1 /\ Len(sent) \in Nat
        /\ sent'[Len(sent')] = p
        /\ \A k \in 1..Len(sent) : sent'[k] = sent[k] /\ sent[k] \in Packet
    BY <1>2, <1>4
  <1>6. TypeOK'
    BY <1>2, <1>3, <1>4 DEF Inv, TypeOK
  <1>7. \A k \in 1..Len(sent) : EndOf(k)' = EndOf(k) /\ EndOf(k) \in Nat
    BY <1>5 DEF EndOf, Packet
  <1>8. EndOf(Len(sent))' = wire' /\ sent'[Len(sent) + 1].at = wire
    BY <1>2, <1>4, <1>5 DEF EndOf
  <1>9. Layout'
    <2>1. ASSUME NEW k \in 1..Len(sent')
          PROVE  /\ sent'[k].zipped = (sent'[k].serial # sent'[k].stored)
                 /\ EndOf(k)' <= wire'
      <3>1. CASE k \in 1..Len(sent)
        BY <3>1, <1>2, <1>4, <1>5, <1>7 DEF Inv, Layout
      <3>2. CASE k = Len(sent')
        <4>1. sent'[k] = p
          BY <3>2, <1>5
        <4>2. EndOf(k)' = p.at + HeaderSize + p.stored
          BY <4>1 DEF EndOf
        <4> QED BY <4>1, <4>2, <1>2, <1>4
      <3> QED BY <3>1, <3>2, <1>5
    <2>2. ASSUME NEW j \in 1..Len(sent'), NEW k \in 1..Len(sent'), j < k
          PROVE  EndOf(j)' <= sent'[k].at
      <3>1. CASE k \in 1..Len(sent)
        BY <3>1, <2>2, <1>5, <1>7 DEF Inv, Layout
      <3>2. CASE k = Len(sent')
        BY <3>2, <2>2, <1>2, <1>5, <1>7 DEF Inv, Layout
      <3> QED BY <3>1, <3>2, <1>5
    <2>3. ASSUME NEW k \in 1..Len(sent')
          PROVE  k = Len(sent') \/ sent'[k + 1].at = EndOf(k)'
      <3>1. CASE k \in 1..Len(sent) /\ k # Len(sent)
        BY <3>1, <1>5, <1>7 DEF Inv, Layout
      <3>2. CASE k = Len(sent) /\ k > 0
        BY <3>2, <1>5, <1>7, <1>8 DEF Inv, Layout
      <3> QED BY <3>1, <3>2, <1>5
    <2> QED BY <2>1, <2>2, <2>3, <1>5, <1>8 DEF Layout
  <1>10. Base' = Base
    <2>1. CASE done < Len(sent)
      <3>1. done + 1 \in 1..Len(sent) /\ done' < Len(sent')
        BY <2>1, <1>3, <1>5 DEF Inv, TypeOK
      <3>2. sent'[done' + 1] = sent[done + 1]
        BY <3>1, <1>3, <1>5
      <3> QED BY <2>1, <3>1, <3>2 DEF Base
    <2>2. CASE done = Len(sent)
      BY <2>2, <1>3, <1>5, <1>8 DEF Base
    <2> QED BY <2>1, <2>2, <1>5 DEF Inv, Progress, TypeOK
  <1>11. Progress' /\ VecInOrder'
    BY <1>2, <1>3, <1>4, <1>5 DEF Inv, Progress, VecInOrder, TypeOK
  <1>12. HeaderAligned'
    BY <1>3, <1>5, <1>10 DEF Inv, HeaderAligned, Segment, TypeOK
  <1>13. BodyAligned'
    <2> SUFFICES ASSUME compressSize # 0 PROVE BodyAligned'
      BY <1>3 DEF BodyAligned
    <2>1. done + 1 \in 1..Len(sent)
      BY <1>5 DEF Inv, BodyAligned, TypeOK
    <2>2. sent'[done + 1] = sent[done + 1]
      BY <2>1, <1>5
    <2>3. done' < Len(sent') /\ sent'[done' + 1] = sent[done + 1]
      BY <2>1, <2>2, <1>3, <1>5 DEF Inv, TypeOK
    <2> QED BY <1>3, <1>10, <2>3 DEF Inv, BodyAligned, Segment
  <1> QED BY <1>6, <1>9, <1>11, <1>12, <1>13 DEF Inv

\* Feed hands over bytes without touching the decoder.
LEMMA FeedInv ==
  ASSUME Inv, Feed
  PROVE  Inv'
  <1>1. fed' \in Nat /\ fed <= fed' /\ fed' <= wire
    BY DEF Feed, Inv, TypeOK
  <1>2. pc' = "reading"
    BY DEF Feed
  <1>3. UNCHANGED <<sent, wire, pos, header, compressSize, remainSize,
                    serialSize, buf, vec, done>>
    BY DEF Feed, senderVars, decoderVars
  <1>4. TypeOK'
    BY <1>1, <1>2, <1>3 DEF Inv, TypeOK
  <1>5. Layout' /\ VecInOrder'
    BY <1>3 DEF Inv, Layout, EndOf, VecInOrder
  <1>6. Progress'
    BY <1>1, <1>2, <1>3 DEF Inv, Progress, TypeOK
  <1>7. HeaderAligned' /\ BodyAligned'
    BY <1>3 DEF Inv, HeaderAligned, BodyAligned, Base, Segment
  <1> QED BY <1>4, <1>5, <1>6, <1>7 DEF Inv

\* FillHeader extends the prefix of the header it has.
LEMMA FillHeaderInv ==
  ASSUME Inv, FillHeader
  PROVE  Inv'
  <1> USE HeaderSizeAssumption
  <1> DEFINE t == HeaderTake
             h == Len(header)
  <1>1. /\ h \in Nat /\ h < HeaderSize /\ fed - pos \in Nat /\ pos \in Nat
        /\ compressSize = 0
    BY DEF FillHeader, Inv, TypeOK, Progress
  <1>2. /\ t \in Nat /\ h + t <= HeaderSize /\ pos + t <= fed
        /\ h + t = HeaderSize \/ pos + t = fed
    BY <1>1 DEF HeaderTake, Inv, TypeOK
  <1> HIDE DEF t
  <1>3. /\ header' = header \o Segment(pos, t) /\ pos' = pos + t
        /\ pc' \in {"idle", "reading"} /\ (pc' = "idle" => pos + t = fed)
    BY <1>2 DEF FillHeader, t, Inv, TypeOK
  <1>4. UNCHANGED <<sent, wire, fed, compressSize, remainSize, serialSize,
                    buf, vec, done>>
    BY DEF FillHeader, senderVars
  <1>5. /\ header = Segment(Base, h) /\ pos = Base + h /\ buf = <<>>
        /\ (header # <<>> => done < Len(sent))
    BY <1>1 DEF Inv, HeaderAligned
  <1>6. Base \in Nat /\ Base' = Base
    <2>1. CASE done < Len(sent)
      <3>1. sent[done + 1] \in Packet
        BY <2>1 DEF Inv, TypeOK
      <3> QED BY <2>1, <3>1, <1>4 DEF Base, Packet
    <2>2. CASE ~(done < Len(sent))
      BY <2>2, <1>4 DEF Base, Inv, TypeOK
    <2> QED BY <2>1, <2>2
  <1>7. header' = Segment(Base, h + t) /\ Len(header') = h + t
    <2>1. header' = Segment(Base, h) \o Segment(Base + h, t)
      BY <1>3, <1>5
    <2> HIDE DEF h
    <2>2. header' = Segment(Base, h + t)
      BY <2>1, <1>1, <1>2, <1>6, SegmentConcat
    <2> QED BY <2>2, <1>1, <1>2, <1>6, SegmentType
  <1>8. TypeOK'
    <2>1. header' \in Seq(Nat)
      BY <1>1, <1>2, <1>6, <1>7, SegmentType
    <2>2. pos' \in Nat
      BY <1>1, <1>2, <1>3
    <2> QED BY <2>1, <2>2, <1>3, <1>4 DEF Inv, TypeOK
  <1>9. Layout' /\ VecInOrder'
    BY <1>4 DEF Inv, Layout, EndOf, VecInOrder
  <1>10. Progress'
    BY <1>2, <1>3, <1>4 DEF Inv, Progress
  <1>11. header' # <<>> => done < Len(sent)
    <2> SUFFICES ASSUME ~(done < Len(sent)) PROVE header' = <<>>
      OBVIOUS
    <2>1. header = <<>> /\ Base = wire
      BY <1>5 DEF Base
    <2>2. h = 0 /\ pos = wire /\ wire \in Nat
      BY <2>1, <1>5 DEF Inv, TypeOK
    <2>3. t = 0
      BY <2>2, <1>2 DEF Inv, Progress, TypeOK
    <2> QED BY <2>2, <2>3, <1>6, <1>7, SegmentEmpty
  <1>12. HeaderAligned'
    <2>1. pos' = Base + (h + t)
      BY <1>1, <1>2, <1>3, <1>5, <1>6
    <2> HIDE DEF h
    <2>2. header' = Segment(Base', Len(header')) /\ pos' = Base' + Len(header')
      BY <2>1, <1>6, <1>7
    <2>3. Segment(Base, Len(header))' = Segment(Base', Len(header'))
      BY DEF Segment
    <2> QED BY <2>2, <2>3, <1>2, <1>4, <1>5, <1>7, <1>11 DEF HeaderAligned
  <1>13. BodyAligned'
    BY <1>1, <1>4 DEF BodyAligned
  <1> QED BY <1>8, <1>9, <1>10, <1>12, <1>13 DEF Inv

\* ReadSizes takes over the sizes of the packet whose header is complete.
LEMMA ReadSizesInv ==
  ASSUME Inv, ReadSizes
  PROVE  Inv'
  <1> USE HeaderSizeAssumption
  <1> DEFINE n == done + 1
  <1>1. compressSize = 0 /\ Len(header) = HeaderSize
    BY DEF ReadSizes
  <1>2. /\ header = Segment(Base, HeaderSize) /\ pos = Base + HeaderSize
        /\ buf = <<>>
    BY <1>1 DEF Inv, HeaderAligned
  <1>3. done < Len(sent) /\ n \in 1..Len(sent) /\ sent[n] \in Packet
        /\ Base = sent[n].at
    <2>1. done < Len(sent)
      BY <1>1 DEF Inv, HeaderAligned
    <2> QED BY <2>1 DEF Inv, TypeOK, Base
  <1>4. HeaderOwners = {n}
    BY <1>2, <1>3, OneOwner DEF Inv
  <1>5. HeaderSizes = {[serial |-> sent[n].serial, stored |-> sent[n].stored]}
    <2> HIDE DEF n
    <2> QED BY <1>4 DEF HeaderSizes
  <1>6. /\ compressSize' = sent[n].stored /\ remainSize' = sent[n].stored
        /\ serialSize' = sent[n].serial
    <2> HIDE DEF n
    <2> QED BY <1>5 DEF ReadSizes
  <1>7. UNCHANGED <<sent, wire, fed, pos, pc, header, buf, vec, done>>
    BY DEF ReadSizes, senderVars
  <1>8. sent[n].stored \in Nat \ {0} /\ sent[n].serial \in Nat /\ sent[n].at \in Nat
    BY <1>3 DEF Packet
  <1>9. TypeOK'
    BY <1>6, <1>7, <1>8 DEF Inv, TypeOK
  <1>10. Layout' /\ VecInOrder' /\ Progress'
    BY <1>7 DEF Inv, Layout, EndOf, VecInOrder, Progress
  <1>11. Base' = Base
    BY <1>7 DEF Base
  <1>12. HeaderAligned'
    BY <1>6, <1>8 DEF HeaderAligned
  <1>13. BodyAligned'
    <2>1. header' = Segment(Base, HeaderSize)' /\ done' < Len(sent')
      BY <1>2, <1>3, <1>7, <1>11 DEF Segment
    <2>2. remainSize' \in 1..compressSize' /\ compressSize' - remainSize' = 0
      BY <1>6, <1>8
    <2>3. buf' = Segment(Base' + HeaderSize, compressSize' - remainSize')
      BY <2>2, <1>2, <1>3, <1>7, <1>8, <1>11, SegmentEmpty
    <2>4. pos' = Base' + HeaderSize + (compressSize' - remainSize')
      BY <2>2, <1>2, <1>3, <1>7, <1>8, <1>11
    <2>5. Segment(Base + HeaderSize, compressSize - remainSize)'
            = Segment(Base' + HeaderSize, compressSize' - remainSize')
      BY DEF Segment
    <2> QED BY <2>1, <2>2, <2>3, <2>4, <2>5, <1>6, <1>7 DEF BodyAligned
  <1> QED BY <1>9, <1>10, <1>12, <1>13 DEF Inv

\* BufferBody appends what arrived to the bytes of the body it has.
LEMMA BufferBodyInv ==
  ASSUME Inv, BufferBody
  PROVE  Inv'
  <1> USE HeaderSizeAssumption
  <1> DEFINE r == fed - pos
             g == Buffered
  <1>1. /\ compressSize # 0 /\ ~(remainSize <= r) /\ pc' = "idle"
        /\ buf' = buf \o Segment(pos, r) /\ remainSize' = remainSize - r
        /\ pos' = fed
    BY DEF BufferBody, BodyFits
  <1>2. UNCHANGED <<sent, wire, fed, header, compressSize, serialSize, vec, done>>
    BY DEF BufferBody, senderVars
  <1>3. /\ done < Len(sent) /\ header = Segment(Base, HeaderSize)
        /\ compressSize = sent[done + 1].stored /\ serialSize = sent[done + 1].serial
        /\ remainSize \in 1..compressSize
        /\ buf = Segment(Base + HeaderSize, g) /\ pos = Base + HeaderSize + g
    BY <1>1 DEF Inv, BodyAligned, Buffered
  <1>4. /\ compressSize \in Nat /\ remainSize \in Nat /\ r \in Nat
        /\ pos \in Nat /\ fed \in Nat /\ pos + r = fed
    BY DEF Inv, TypeOK, Progress
  <1>5. g \in Nat /\ remainSize' \in 1..compressSize
        /\ compressSize' - remainSize' = g + r
    <2>1. compressSize' = compressSize
      BY <1>2
    <2>2. remainSize' = remainSize - r /\ ~(remainSize <= r)
      BY <1>1
    <2>3. remainSize \in 1..compressSize
      BY <1>3
    <2> HIDE DEF r
    <2> QED BY <2>1, <2>2, <2>3, <1>4 DEF Buffered
  <1>6. Base \in Nat /\ Base' = Base
    <2>1. sent[done + 1] \in Packet
      BY <1>3 DEF Inv, TypeOK
    <2> QED BY <1>2, <1>3, <2>1 DEF Base, Packet
  <1>7. buf' = Segment(Base + HeaderSize, g + r)
    <2> DEFINE a == Base + HeaderSize
    <2>1. a \in Nat
      BY <1>6
    <2>2. buf' = Segment(a, g) \o Segment(a + g, r)
      BY <1>1, <1>3
    <2> HIDE DEF g, r, a
    <2>3. buf' = Segment(a, g + r)
      BY <2>1, <2>2, <1>4, <1>5, SegmentConcat
    <2> QED BY <2>3 DEF a
  <1>8. TypeOK'
    <2>1. buf' \in Seq(Nat)
      <3> HIDE DEF g, r
      <3> QED BY <1>4, <1>5, <1>6, <1>7, SegmentType
    <2> QED BY <2>1, <1>1, <1>2, <1>5 DEF Inv, TypeOK
  <1>9. Layout' /\ VecInOrder'
    BY <1>2 DEF Inv, Layout, EndOf, VecInOrder
  <1>10. Progress'
    BY <1>1, <1>2, <1>4 DEF Inv, Progress
  <1>11. HeaderAligned'
    BY <1>1, <1>2 DEF HeaderAligned
  <1>12. BodyAligned'
    <2>1. pos' = Base' + HeaderSize + (compressSize' - remainSize')
      BY <1>1, <1>3, <1>4, <1>5, <1>6
    <2>2. buf' = Segment(Base' + HeaderSize, compressSize' - remainSize')
      BY <1>5, <1>6, <1>7
    <2>3. /\ Segment(Base, HeaderSize)' = Segment(Base, HeaderSize)
          /\ Segment(Base + HeaderSize, compressSize - remainSize)'
               = Segment(Base' + HeaderSize, compressSize' - remainSize')
      BY <1>6 DEF Segment
    <2> QED BY <2>1, <2>2, <2>3, <1>2, <1>3, <1>5 DEF BodyAligned
  <1> QED BY <1>8, <1>9, <1>10, <1>11, <1>12 DEF Inv

\* FinishBody queues the next message and is aligned with the one after it.
LEMMA FinishBodyInv ==
  ASSUME Inv, FinishBody
  PROVE  Inv' /\ vec' = Append(vec, done + 1) /\ done' = done + 1 /\ done < Len(sent)
  <1> USE HeaderSizeAssumption
  <1>1. /\ pc = "reading" /\ compressSize # 0 /\ BodyFits
        /\ vec' = Append(vec, Parsed(AssembledBody))
        /\ buf' = SubSeq(buf, Buffered + 1, Len(buf))
        /\ header' = <<>> /\ compressSize' = 0 /\ remainSize' = 0
        /\ pos' = pos + remainSize /\ done' = done + 1
    BY DEF FinishBody
  <1>2. UNCHANGED <<sent, wire, fed, pc, serialSize>>
    BY DEF FinishBody, senderVars
  <1>3. vec' = Append(vec, done + 1) /\ buf' = <<>>
    BY <1>1, BodyParses
  <1>4. /\ done < Len(sent) /\ compressSize = sent[done + 1].stored
        /\ remainSize \in 1..compressSize
        /\ pos = Base + HeaderSize + (compressSize - remainSize)
        /\ Base = sent[done + 1].at
    BY <1>1 DEF Inv, BodyAligned, Base
  <1>5. done + 1 \in 1..Len(sent) /\ done \in Nat /\ Len(sent) \in Nat
        /\ sent[done + 1] \in Packet
    BY <1>4 DEF Inv, TypeOK
  <1>6. pos' = EndOf(done + 1)
    <2>1. Base \in Nat /\ compressSize \in Nat /\ remainSize \in Nat
      <3>1. sent[done + 1].at \in Nat
        BY <1>5 DEF Packet
      <3> QED BY <3>1, <1>4 DEF Inv, TypeOK
    <2>2. /\ pos' = pos + remainSize
          /\ pos = Base + HeaderSize + (compressSize - remainSize)
      BY <1>1, <1>4
    <2>3. pos' = Base + HeaderSize + compressSize
      BY <2>1, <2>2
    <2> QED BY <2>3, <1>4 DEF EndOf
  <1>7. Base' = EndOf(done + 1)
    <2>1. CASE done + 1 = Len(sent)
      BY <2>1, <1>1, <1>2, <1>5 DEF Base, Inv, Layout
    <2>2. CASE done + 1 < Len(sent)
      <3>1. sent[(done + 1) + 1].at = EndOf(done + 1)
        BY <2>2, <1>5 DEF Inv, Layout
      <3>2. Base' = sent[(done + 1) + 1].at
        BY <2>2, <1>1, <1>2 DEF Base
      <3> QED BY <3>1, <3>2
    <2> QED BY <2>1, <2>2, <1>5
  <1>8. EndOf(done + 1) \in Nat
    BY <1>5 DEF EndOf, Packet
  <1>9. TypeOK'
    <2>1. vec' \in Seq(Nat)
      BY <1>3, <1>5 DEF Inv, TypeOK
    <2>2. pos' \in Nat /\ done' \in Nat
      BY <1>1, <1>5, <1>6, <1>8
    <2>3. /\ header' = <<>> /\ compressSize' = 0 /\ remainSize' = 0
          /\ buf' = <<>>
      BY <1>1, <1>3
    <2> QED BY <2>1, <2>2, <2>3, <1>2 DEF Inv, TypeOK
  <1>10. Layout'
    BY <1>2 DEF Inv, Layout, EndOf
  <1>11. Progress'
    BY <1>1, <1>2, <1>4, <1>5 DEF Inv, Progress, BodyFits, TypeOK
  <1>12. HeaderAligned'
    <2>1. Len(header') = 0 /\ header' = Segment(Base', Len(header'))
      BY <1>1, <1>7, <1>8, SegmentEmpty
    <2>2. Segment(Base, Len(header))' = Segment(Base', Len(header'))
      BY DEF Segment
    <2> QED BY <2>1, <2>2, <1>1, <1>3, <1>6, <1>7, <1>8 DEF HeaderAligned
  <1>13. BodyAligned'
    BY <1>1 DEF BodyAligned
  <1>14. VecInOrder'
    BY <1>1, <1>3, <1>5 DEF Inv, VecInOrder, TypeOK
  <1> QED BY <1>1, <1>3, <1>4, <1>9, <1>10, <1>11, <1>12, <1>13, <1>14 DEF Inv

\* GetProtobufMessage takes the oldest message and leaves the others in order.
LEMMA GetProtobufMessageInv ==
  ASSUME Inv, GetProtobufMessage
  PROVE  Inv'
  <1>1. vec # <<>> /\ vec' = Tail(vec)
    BY DEF GetProtobufMessage
  <1>2. UNCHANGED <<sent, wire, fed, pos, pc, header, compressSize, remainSize,
                    serialSize, buf, done>>
    BY DEF GetProtobufMessage, senderVars
  <1>3. TypeOK'
    BY <1>1, <1>2 DEF Inv, TypeOK
  <1>4. Layout' /\ Progress'
    BY <1>2 DEF Inv, Layout, EndOf, Progress
  <1>5. HeaderAligned' /\ BodyAligned'
    BY <1>2 DEF Inv, HeaderAligned, BodyAligned, Base, Segment
  <1>6. VecInOrder'
    BY <1>1, <1>2 DEF Inv, VecInOrder, TypeOK
  <1> QED BY <1>3, <1>4, <1>5, <1>6 DEF Inv

\* Reset at a packet boundary starts the next stream with empty buffers.
LEMMA ResetInv ==
  ASSUME Inv, Reset, ResetMidBody = FALSE
  PROVE  Inv'
  <1> USE HeaderSizeAssumption
  <1>1. /\ compressSize = 0 /\ pc = "idle" /\ vec' = <<>> /\ header' = <<>>
        /\ compressSize' = 0 /\ remainSize' = 0
        /\ fed' = wire /\ pos' = wire /\ done' = Len(sent)
    BY DEF Reset, ResetHeader
  <1>2. UNCHANGED <<sent, wire, pc, serialSize, buf>>
    BY DEF Reset, senderVars
  <1>3. buf = <<>>
    BY <1>1 DEF Inv, HeaderAligned
  <1>4. wire \in Nat /\ Len(sent) \in Nat
    BY DEF Inv, TypeOK
  <1>5. TypeOK'
    BY <1>1, <1>2, <1>4 DEF Inv, TypeOK
  <1>6. Layout' /\ Progress' /\ VecInOrder'
    BY <1>1, <1>2, <1>4 DEF Inv, Layout, EndOf, Progress, VecInOrder
  <1>7. HeaderAligned'
    <2>1. Base' = wire
      BY <1>1, <1>2, <1>4 DEF Base
    <2>2. Len(header') = 0 /\ header' = Segment(Base', Len(header'))
      BY <2>1, <1>1, <1>4, SegmentEmpty
    <2>3. Segment(Base, Len(header))' = Segment(Base', Len(header'))
      BY DEF Segment
    <2> QED BY <2>1, <2>2, <2>3, <1>1, <1>2, <1>3, <1>4 DEF HeaderAligned
  <1>8. BodyAligned'
    BY <1>1 DEF BodyAligned
  <1> QED BY <1>5, <1>6, <1>7, <1>8 DEF Inv

\* A step that changes nothing preserves the invariant.
LEMMA StutterInv ==
  ASSUME Inv, UNCHANGED vars
  PROVE  Inv'
  BY DEF Inv, vars, decoderVars, TypeOK, Layout, EndOf, Progress, HeaderAligned,
         BodyAligned, Base, Segment, VecInOrder

-----------------------------------------------------------------------------
(* Theorems *)

\* The invariant is inductive.
LEMMA NextInv ==
  ASSUME ResetMidBody = FALSE, Inv, [Next]_vars
  PROVE  Inv'
  <1>1. CASE Send
    BY <1>1, SendInv
  <1>2. CASE Feed
    BY <1>2, FeedInv
  <1>3. CASE FillHeader
    BY <1>3, FillHeaderInv
  <1>4. CASE ReadSizes
    BY <1>4, ReadSizesInv
  <1>5. CASE BufferBody
    BY <1>5, BufferBodyInv
  <1>6. CASE FinishBody
    BY <1>6, FinishBodyInv
  <1>7. CASE GetProtobufMessage
    BY <1>7, GetProtobufMessageInv
  <1>8. CASE Reset
    BY <1>8, ResetInv
  <1>9. CASE UNCHANGED vars
    BY <1>9, StutterInv
  <1> QED
    BY <1>1, <1>2, <1>3, <1>4, <1>5, <1>6, <1>7, <1>8, <1>9 DEF Next, ReadStep

\* Every reachable state of the codec satisfies the invariant.
THEOREM Invariance ==
  ASSUME ResetMidBody = FALSE
  PROVE  Spec => []Inv
  <1>1. Init => Inv
    BY InitInv
  <1>2. Inv /\ [Next]_vars => Inv'
    BY NextInv
  <1> QED BY <1>1, <1>2, PTL DEF Spec

\* The codec's state always has the types the header declares.
THEOREM TypeCorrect ==
  ASSUME ResetMidBody = FALSE
  PROVE  Spec => []TypeOK
  <1>1. Inv => TypeOK
    BY DEF Inv
  <1> QED BY <1>1, Invariance, PTL

\* However a stream is cut into reads, no message fails its digest or its
\* parse: the assertions of _read on the digest and on the message hold.
THEOREM NoMessageCorrupt ==
  ASSUME ResetMidBody = FALSE
  PROVE  Spec => []DigestMatches
  <1>1. Inv => DigestMatches
    BY DEF Inv, TypeOK, VecInOrder, DigestMatches, Corrupt
  <1> QED BY <1>1, Invariance, PTL

\* header_buffer and _buf always hold exactly the first bytes of the next
\* packet: the assertions of _read on gcount and remainSize hold.
THEOREM BuffersAligned ==
  ASSUME ResetMidBody = FALSE
  PROVE  Spec => []BufferHoldsPrefix
  <1>1. Inv => BufferHoldsPrefix
    BY DEF Inv, BufferHoldsPrefix
  <1> QED BY <1>1, Invariance, PTL

\* Between two reads the messages decoded are exactly those received in full.
THEOREM NoneHeldBack ==
  ASSUME ResetMidBody = FALSE
  PROVE  Spec => []DecodedWhenComplete
  <1>1. ASSUME Inv, pc = "idle", NEW k \in 1..Len(sent)
        PROVE  k <= done <=> EndOf(k) <= fed
    <2> USE HeaderSizeAssumption
    <2>1. /\ pos = fed /\ done <= Len(sent) /\ done \in Nat /\ Len(sent) \in Nat
          /\ fed \in Nat
      BY <1>1 DEF Inv, Progress, TypeOK
    <2>2. sent[k] \in Packet /\ EndOf(k) \in Nat /\ EndOf(k) <= wire
      <3>1. sent[k] \in Packet
        BY <1>1 DEF Inv, TypeOK
      <3>2. EndOf(k) <= wire
        BY <1>1 DEF Inv, Layout
      <3> QED BY <3>1, <3>2 DEF EndOf, Packet
    <2>3. CASE done = Len(sent)
      <3>1. compressSize = 0
        BY <2>3, <2>1, <1>1 DEF Inv, BodyAligned
      <3>2. pos = wire
        BY <3>1, <2>3, <2>1, <1>1 DEF Inv, HeaderAligned, Base, TypeOK
      <3> QED BY <3>2, <2>1, <2>2, <2>3
    <2>4. CASE done < Len(sent)
      <3> DEFINE n == done + 1
      <3>1. n \in 1..Len(sent) /\ sent[n] \in Packet /\ Base = sent[n].at
        BY <2>1, <2>4, <1>1 DEF Inv, TypeOK, Base
      <3>2. Base \in Nat /\ EndOf(n) = Base + HeaderSize + sent[n].stored
            /\ sent[n].stored \in Nat \ {0}
        BY <3>1 DEF EndOf, Packet
      <3>3. Base <= pos /\ pos < EndOf(n)
        <4>1. CASE compressSize = 0
          <5>1. Len(header) \in Nat /\ Len(header) <= HeaderSize
                /\ pos = Base + Len(header)
            BY <4>1, <1>1 DEF Inv, HeaderAligned, TypeOK
          <5> QED BY <5>1, <3>2
        <4>2. CASE compressSize # 0
          <5>1. /\ compressSize = sent[n].stored /\ remainSize \in 1..compressSize
                /\ pos = Base + HeaderSize + (compressSize - remainSize)
            BY <4>2, <1>1 DEF Inv, BodyAligned
          <5> QED BY <5>1, <3>2
        <4> QED BY <4>1, <4>2
      <3>4. CASE k <= done
        <4>1. k < n
          BY <3>4, <2>1
        <4>2. EndOf(k) <= Base
          BY <4>1, <3>1, <1>1 DEF Inv, Layout
        <4> QED BY <4>2, <3>2, <3>3, <3>4, <2>1, <2>2
      <3>5. CASE k = n
        BY <3>5, <3>2, <3>3, <2>1, <2>2
      <3>6. CASE n < k
        <4>1. EndOf(n) <= sent[k].at
          BY <3>6, <3>1, <1>1 DEF Inv, Layout
        <4>2. sent[k].at \in Nat /\ sent[k].at <= EndOf(k)
          BY <2>2 DEF EndOf, Packet
        <4> QED BY <4>1, <4>2, <3>2, <3>3, <3>6, <2>1, <2>2
      <3> QED BY <3>4, <3>5, <3>6, <2>1
    <2> QED BY <2>1, <2>3, <2>4
  <1>2. Inv => DecodedWhenComplete
    BY <1>1 DEF DecodedWhenComplete
  <1> QED BY <1>2, Invariance, PTL

\* The decoder implements the message stream: every step is a step of the
\* stream or leaves it unchanged, so messages come out whole, once, in order.
THEOREM Refinement ==
  ASSUME ResetMidBody = FALSE
  PROVE  Spec => Stream!Spec
  <1> USE DEF Stream!Next, Stream!vars
  <1>1. Init => Stream!Init
    BY DEF Init, Stream!Init
  <1>2. ASSUME Inv, [Next]_vars
        PROVE  [Stream!Next]_Stream!vars
    <2>1. CASE Send
      <3>1. Len(sent') = Len(sent) + 1
        BY <2>1, <1>2 DEF Send, Inv, TypeOK
      <3> QED BY <2>1, <3>1 DEF Send, decoderVars, Stream!Post
    <2>2. CASE Feed \/ FillHeader \/ ReadSizes \/ BufferBody
      BY <2>2 DEF Feed, FillHeader, ReadSizes, BufferBody, senderVars, decoderVars
    <2>3. CASE FinishBody
      <3>1. /\ done < Len(sent) /\ done' = done + 1 /\ vec' = Append(vec, done + 1)
            /\ UNCHANGED sent
        BY <2>3, <1>2, FinishBodyInv DEF FinishBody, senderVars
      <3> QED BY <3>1 DEF Stream!Deliver
    <2>4. CASE GetProtobufMessage
      BY <2>4 DEF GetProtobufMessage, senderVars, Stream!Take
    <2>5. CASE Reset
      BY <2>5 DEF Reset, senderVars, Stream!Restart
    <2>6. CASE UNCHANGED vars
      BY <2>6 DEF vars, decoderVars
    <2> QED
      BY <1>2, <2>1, <2>2, <2>3, <2>4, <2>5, <2>6 DEF Next, ReadStep
  <1> QED BY <1>1, <1>2, Invariance, PTL DEF Spec, Stream!Spec
=============================================================================
