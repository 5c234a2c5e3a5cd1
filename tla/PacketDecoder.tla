---------------------------- MODULE PacketDecoder ----------------------------
(***************************************************************************)
(* The framing codec of WindowsProtobufLib: CoreMessage::toBytes writes a  *)
(* message as a header (serial size, stored size, SHA-256 digest) and a    *)
(* body that is zlib-compressed only when that makes it smaller;           *)
(* ProtobufPacketDecoder rebuilds the messages from a TCP stream that      *)
(* arrives in reads of any length.                                         *)
(*                                                                         *)
(* A byte is named by its position on the wire, so a sequence of positions *)
(* says exactly which bytes a buffer holds.  The mutually recursive calls  *)
(* _read -> parseHeader -> _read are steps of their own: "reading" is a    *)
(* read() in progress over the bytes pos+1 .. fed, under the decoder's     *)
(* mutex, so no other operation runs before it returns to "idle".          *)
(***************************************************************************)
EXTENDS Integers, Sequences

CONSTANTS HeaderSize,    \* PACKAGE_HEADER_SIZE
          Sizes,         \* sizes a serialized or compressed message can have
          MaxPackets,    \* bound: how many messages are sent
          ResetMidBody   \* may Reset be called with half a body received?

ASSUME HeaderSizeAssumption == HeaderSize \in Nat \ {0}
ASSUME SizesAssumption == Sizes \subseteq Nat \ {0}
ASSUME BoundAssumption == MaxPackets \in Nat
ASSUME ResetAssumption == ResetMidBody \in BOOLEAN

VARIABLES sent,          \* the packets encoded so far, in order
          wire,          \* bytes written to the stream
          fed,           \* bytes handed to read() so far
          pos,           \* bytes consumed so far
          pc,            \* is a read() in progress?
          header,        \* header_buffer up to headerSize
          compressSize, remainSize, serialSize,
          buf,           \* contents of the stringstream _buf
          vec,           \* the deque _vec
          done           \* history: packets of the stream already decoded

senderVars  == <<sent, wire>>
decoderVars == <<header, compressSize, remainSize, serialSize, buf, vec>>
vars == <<sent, wire, fed, pos, pc, decoderVars, done>>

Packet == [at: Nat, serial: Nat \ {0}, stored: Nat \ {0}, zipped: BOOLEAN]

\* The n bytes that follow position a.
Segment(a, n) == [i \in 1..n |-> a + i]

\* Where packet k ends.
EndOf(k) == sent[k].at + HeaderSize + sent[k].stored

\* What a failed digest or a failed parse leaves in _vec.
Corrupt == 0

Init ==
  /\ sent = <<>> /\ wire = 0 /\ fed = 0 /\ pos = 0 /\ pc = "idle"
  /\ header = <<>> /\ compressSize = 0 /\ remainSize = 0 /\ serialSize = 0
  /\ buf = <<>> /\ vec = <<>> /\ done = 0

-----------------------------------------------------------------------------
(* The sender *)

StoresCompressedIfEqual(zip, serial) == zip <= serial
StoresCompressed(zip, serial) == zip < serial

EncodeUncounted(at, serial, zip) ==
  [at |-> at, serial |-> serial, zipped |-> TRUE, stored |-> zip - 1]

Encode(at, serial, zip) ==
  LET zipped == StoresCompressed(zip, serial) IN
    [at |-> at, serial |-> serial, zipped |-> zipped,
     stored |-> IF zipped THEN zip ELSE serial]

Send ==
  /\ Len(sent) < MaxPackets
  /\ \E serial, zip \in Sizes :
       LET p == Encode(wire, serial, zip) IN
         /\ sent' = Append(sent, p)
         /\ wire' = wire + HeaderSize + p.stored
  /\ UNCHANGED <<fed, pos, pc, decoderVars, done>>

-----------------------------------------------------------------------------
(* ProtobufPacketDecoder::read *)

\* A TCP read hands over any part of what is on the wire.
Feed ==
  /\ pc = "idle"
  /\ fed < wire
  /\ fed' \in fed + 1 .. wire
  /\ pc' = "reading"
  /\ UNCHANGED <<senderVars, pos, decoderVars, done>>

HeaderTake ==
  LET lacks == HeaderSize - Len(header)
      has   == fed - pos
  IN  IF lacks <= has THEN lacks ELSE has

\* parseHeader, first half: copy header bytes, return if the read is used up.
FillHeader ==
  /\ pc = "reading" /\ compressSize = 0
  /\ Len(header) < HeaderSize
  /\ header' = header \o Segment(pos, HeaderTake)
  /\ pos' = pos + HeaderTake
  /\ pc' = IF pos + HeaderTake < fed THEN "reading" ELSE "idle"
  /\ UNCHANGED <<senderVars, fed, compressSize, remainSize, serialSize, buf,
                 vec, done>>

\* The packets whose header header_buffer holds.
HeaderOwners == {k \in 1..Len(sent) : header = Segment(sent[k].at, HeaderSize)}

\* The two sizes header_buffer spells; misaligned bytes spell anything.
HeaderSizes ==
  IF HeaderOwners # {}
  THEN {[serial |-> sent[k].serial, stored |-> sent[k].stored] : k \in HeaderOwners}
  ELSE [serial : Sizes, stored : Sizes]

\* parseHeader, second half: the header is complete and bytes are left.
ReadSizes ==
  /\ pc = "reading" /\ compressSize = 0
  /\ Len(header) = HeaderSize
  /\ \E h \in HeaderSizes :
       /\ compressSize' = h.stored
       /\ remainSize' = h.stored
       /\ serialSize' = h.serial
  /\ UNCHANGED <<senderVars, fed, pos, pc, header, buf, vec, done>>

BodyFitsStrictly == remainSize < fed - pos
BodyFits == remainSize <= fed - pos

\* _read, the body is not complete: keep its bytes and return.
BufferBody ==
  /\ pc = "reading" /\ compressSize # 0
  /\ ~BodyFits
  /\ buf' = buf \o Segment(pos, fed - pos)
  /\ remainSize' = remainSize - (fed - pos)
  /\ pos' = fed
  /\ pc' = "idle"
  /\ UNCHANGED <<senderVars, fed, header, compressSize, serialSize, vec, done>>

\* The message that `bytes' parse to: the digest in the header must match, and
\* the body must be unzipped exactly when the encoder zipped it.
Parsed(bytes) ==
  LET m == {k \in HeaderOwners :
              /\ bytes = Segment(sent[k].at + HeaderSize, sent[k].stored)
              /\ sent[k].zipped = (serialSize # compressSize)}
  IN  IF m = {} THEN Corrupt ELSE CHOOSE k \in m : TRUE

Buffered == compressSize - remainSize

AssembledBody == SubSeq(buf, 1, Buffered) \o Segment(pos, remainSize)

\* _read, the body is complete: queue the message, go on with the next header.
FinishBody ==
  /\ pc = "reading" /\ compressSize # 0
  /\ BodyFits
  /\ vec' = Append(vec, Parsed(AssembledBody))
  /\ buf' = SubSeq(buf, Buffered + 1, Len(buf))
  /\ header' = <<>> /\ compressSize' = 0 /\ remainSize' = 0
  /\ pos' = pos + remainSize
  /\ done' = done + 1
  /\ UNCHANGED <<senderVars, fed, pc, serialSize>>

ReadStep == FillHeader \/ ReadSizes \/ BufferBody \/ FinishBody

-----------------------------------------------------------------------------
(* The other operations of the decoder *)

GetProtobufMessage ==
  /\ pc = "idle"
  /\ vec # <<>>
  /\ vec' = Tail(vec)
  /\ UNCHANGED <<senderVars, fed, pos, pc, header, compressSize, remainSize,
                 serialSize, buf, done>>

ResetHeaderKept(h) == h
ResetHeader(h) == <<>>

\* Reset, after which the sender starts a new stream.  _buf.clear() clears the
\* stream's error state, not its contents.
Reset ==
  /\ pc = "idle"
  /\ ResetMidBody \/ compressSize = 0
  /\ vec' = <<>>
  /\ header' = ResetHeader(header) /\ compressSize' = 0 /\ remainSize' = 0
  /\ fed' = wire /\ pos' = wire /\ done' = Len(sent)
  /\ UNCHANGED <<senderVars, pc, serialSize, buf>>

Next == Send \/ Feed \/ ReadStep \/ GetProtobufMessage \/ Reset

Spec == Init /\ [][Next]_vars

\* A call of read() runs to its end, TCP delivers what was written, and the
\* callers drain the deque.
FairSpec ==
  Spec /\ WF_vars(Feed) /\ WF_vars(ReadStep) /\ WF_vars(GetProtobufMessage)

-----------------------------------------------------------------------------
(* Properties *)

\* The state of the codec has the types the header declares.
TypeOK ==
  /\ sent \in Seq(Packet) /\ wire \in Nat
  /\ fed \in Nat /\ pos \in Nat /\ pc \in {"idle", "reading"}
  /\ header \in Seq(Nat)
  /\ compressSize \in Nat /\ remainSize \in Nat /\ serialSize \in Nat
  /\ buf \in Seq(Nat) /\ vec \in Seq(Nat) /\ done \in Nat

\* No message fails its digest or its parse: the assertions of _read on the
\* digest (both branches) and on the parsed message.
DigestMatches == \A i \in 1..Len(vec) : vec[i] # Corrupt

\* Between two calls of read() the messages decoded are exactly those whose
\* last byte has arrived: none is held back, none is early (test encode2).
DecodedWhenComplete ==
  pc = "idle" => \A k \in 1..Len(sent) : k <= done <=> EndOf(k) <= fed

\* Where the first packet that is not decoded starts.
Base == IF done < Len(sent) THEN sent[done + 1].at ELSE wire

\* While a header is collected, _buf is empty and header_buffer holds the
\* first bytes of the next packet.
HeaderAligned ==
  compressSize = 0 =>
    /\ buf = <<>> /\ Len(header) <= HeaderSize
    /\ header = Segment(Base, Len(header))
    /\ pos = Base + Len(header)
    /\ header # <<>> => done < Len(sent)

\* While a body is collected, its sizes are the packet's, at least one byte is
\* missing, and _buf holds exactly the bytes that have arrived: what the
\* assertions of _read on gcount and remainSize rely on.
BodyAligned ==
  compressSize # 0 =>
    /\ done < Len(sent)
    /\ header = Segment(Base, HeaderSize)
    /\ compressSize = sent[done + 1].stored
    /\ serialSize = sent[done + 1].serial
    /\ remainSize \in 1..compressSize
    /\ buf = Segment(Base + HeaderSize, compressSize - remainSize)
    /\ pos = Base + HeaderSize + (compressSize - remainSize)

BufferHoldsPrefix == HeaderAligned /\ BodyAligned

\* The decoder implements the message stream: reads of any length give every
\* message once, in order, and eventually.
Stream == INSTANCE MessageStream
            WITH posted <- Len(sent), delivered <- done, inbox <- vec
ImplementsStream == Stream!FairSpec
=============================================================================
