----------------------------- MODULE FrameCodec -----------------------------
(***************************************************************************)
(* Frames on the byte stream of the local socket                           *)
(* (packages/protocol/src/frame_codec.cpp), and the loop of                *)
(* ServiceClient::processInput that cuts them out of an input buffer while *)
(* the stream arrives in pieces of any size.                               *)
(*                                                                         *)
(* A peer with limits of its own encodes up to MaxFrames frames; one byte  *)
(* of one header may be wrong.  Bytes are the numbers 0 .. 255; a JSON     *)
(* document is one of few byte strings, since only its being an object     *)
(* matters here.                                                           *)
(***************************************************************************)
EXTENDS Naturals, Sequences, SequencesExt

CONSTANTS
    MaxControlFrameBytes, MaxBinaryFrameBytes,   \* ClientLimits
    MaxFrames                                    \* bound: frames of the stream

ASSUME LimitsAssumption ==    \* ClientLimits::isValid
    /\ {MaxControlFrameBytes, MaxBinaryFrameBytes} \subseteq Nat
    /\ 12 < MaxControlFrameBytes /\ MaxControlFrameBytes <= 16 * 1024 * 1024
    /\ MaxControlFrameBytes <= MaxBinaryFrameBytes
    /\ MaxBinaryFrameBytes <= 512 * 1024 * 1024
ASSUME FramesAssumption == MaxFrames \in Nat

FrameMagic == <<65, 77, 82, 49>>    \* "AMR1"
FrameHeaderBytes == 12
ControlFrameKind == 1
BinaryFrameKind == 2
ReservedOffset == 5
PayloadLengthOffset == 8

-----------------------------------------------------------------------------
(* Encoding *)

BigEndianU32(value) ==
    <<value \div 2^24, (value \div 2^16) % 256, (value \div 2^8) % 256, value % 256>>

\* The four bytes of b from position i on.
LittleEndianAt(b, i) == b[i] + b[i + 1] * 2^8 + b[i + 2] * 2^16 + b[i + 3] * 2^24   \* mutant

ReadBigEndianU32(b, i) == b[i] * 2^24 + b[i + 1] * 2^16 + b[i + 2] * 2^8 + b[i + 3]

FrameLimit(kind, control, binary) == IF kind = ControlFrameKind THEN control ELSE binary

\* encodeFrame() under the limits of the one who encodes.
EncodeFrame(frame, control, binary) ==
    IF Len(frame.payload) > FrameLimit(frame.kind, control, binary) THEN <<>>
    ELSE FrameMagic \o <<frame.kind, 0, 0, 0>> \o BigEndianU32(Len(frame.payload))
           \o frame.payload

EncodeBinaryPayload(metadata, data) == BigEndianU32(Len(metadata)) \o metadata \o data

-----------------------------------------------------------------------------
(* Decoding.  An offset of the code is one less than a position here. *)

HasValidMagic(b) == SubSeq(b, 1, Len(FrameMagic)) = FrameMagic
KindOf(b) == b[Len(FrameMagic) + 1]

FirstReservedUnread(b) ==    \* mutant: the loop starts one byte late
    \A i \in ReservedOffset + 2 .. PayloadLengthOffset : b[i] = 0

ReservedIsZero(b) == \A i \in ReservedOffset + 1 .. PayloadLengthOffset : b[i] = 0

PayloadSize(b) == ReadBigEndianU32(b, PayloadLengthOffset + 1)
CompleteSize(b) == FrameHeaderBytes + PayloadSize(b)

WholeFrameArrived(b) ==    \* mutant: the header is judged with its payload
    Len(b) >= FrameHeaderBytes /\ Len(b) >= CompleteSize(b)

HeaderArrived(b) == Len(b) >= FrameHeaderBytes

\* What takeFrame() finds wrong with a header.
HeaderError(b) ==
    IF ~HasValidMagic(b) \/ KindOf(b) \notin {ControlFrameKind, BinaryFrameKind}
         \/ ~ReservedIsZero(b)
    THEN "FRAME_INVALID"
    ELSE IF PayloadSize(b) > FrameLimit(KindOf(b), MaxControlFrameBytes, MaxBinaryFrameBytes)
         THEN "FRAME_TOO_LARGE" ELSE "none"

TakeFrame(b) ==
    IF ~HeaderArrived(b) THEN [status |-> "NeedMoreData"]
    ELSE IF HeaderError(b) # "none" THEN [status |-> "Error", code |-> HeaderError(b)]
    ELSE IF Len(b) < CompleteSize(b) THEN [status |-> "NeedMoreData"]
    ELSE [status |-> "Complete",
          frame |-> [kind |-> KindOf(b),
                     payload |-> SubSeq(b, FrameHeaderBytes + 1, CompleteSize(b))],
          rest |-> SubSeq(b, CompleteSize(b) + 1, Len(b))]

EmptyObject == <<123, 125>>    \* {}

\* decodeBinaryPayload(): the frame's metadata is there and is a JSON object.
MetadataEnd(payload) == 4 + ReadBigEndianU32(payload, 1)
BinaryDecodes(payload) ==
    /\ Len(payload) >= 4 /\ Len(payload) >= MetadataEnd(payload)
    /\ SubSeq(payload, 5, MetadataEnd(payload)) = EmptyObject

\* What becomes of a frame: a control frame its payload, a binary one its data.
Content(frame) ==
    IF frame.kind = ControlFrameKind THEN frame.payload
    ELSE SubSeq(frame.payload, MetadataEnd(frame.payload) + 1, Len(frame.payload))

FrameDecodes(frame) == frame.kind = ControlFrameKind \/ BinaryDecodes(frame.payload)

-----------------------------------------------------------------------------
(* The stream, and the client that reads it *)

VARIABLES
    frames,    \* history: what the peer encoded
    damage,    \* history: [frame, position, value] of the wrong byte; frame 0 if none
    wire,      \* bytes the peer sent and the client did not read
    inputBuffer_,
    looping,   \* inside the loop of processInput
    contents,  \* what the client made of the frames it took
    failure    \* the code of ServiceClient::fail, "none" while it reads

vars == <<frames, damage, wire, inputBuffer_, looping, contents, failure>>

Payload(n) == [i \in 1 .. n |-> i]

\* At, and one above, each limit; nothing at all; and payloads of binary frames
\* with missing, incomplete and unreadable metadata.
PeerFrames ==
    [kind : {ControlFrameKind},
     payload : {<<>>, Payload(MaxControlFrameBytes), Payload(MaxControlFrameBytes + 1)}]
    \cup
    [kind : {BinaryFrameKind},
     payload : {EncodeBinaryPayload(EmptyObject, <<>>),
                EncodeBinaryPayload(EmptyObject, Payload(MaxBinaryFrameBytes - 6)),
                EncodeBinaryPayload(EmptyObject, Payload(MaxBinaryFrameBytes - 5)),
                EncodeBinaryPayload(<<0>>, <<>>),
                BigEndianU32(3) \o EmptyObject, <<1, 2>>}]

Encoded(frame) == EncodeFrame(frame, MaxControlFrameBytes + 1, MaxBinaryFrameBytes + 1)

\* Where frame i of the stream ends.
EndOf(i) == Len(FlattenSeq([j \in 1 .. i |-> Encoded(frames[j])]))

NoDamage == [frame |-> 0, position |-> 0, value |-> 0]
Damages(n) == {NoDamage} \cup [frame : 1 .. n, position : 1 .. PayloadLengthOffset,
                               value : {3}]

Init ==
    /\ frames \in BoundedSeq(PeerFrames, MaxFrames)
    /\ damage \in Damages(Len(frames))
    /\ LET encoded == FlattenSeq([j \in DOMAIN frames |-> Encoded(frames[j])])
       IN  wire = IF damage = NoDamage THEN encoded
                  ELSE [encoded EXCEPT ![EndOf(damage.frame - 1) + damage.position] =
                                          damage.value]
    /\ inputBuffer_ = <<>> /\ looping = FALSE /\ contents = <<>> /\ failure = "none"

\* readyRead: readAll() finds any number of bytes.
Read(n) ==
    /\ ~looping /\ failure = "none"
    /\ inputBuffer_' = inputBuffer_ \o SubSeq(wire, 1, n)
    /\ wire' = SubSeq(wire, n + 1, Len(wire))
    /\ looping' = TRUE
    /\ UNCHANGED <<frames, damage, contents, failure>>

Decoded == TakeFrame(inputBuffer_)

Wait ==
    /\ looping /\ Decoded.status = "NeedMoreData"
    /\ looping' = FALSE
    /\ UNCHANGED <<frames, damage, wire, inputBuffer_, contents, failure>>

Take ==
    /\ looping /\ Decoded.status = "Complete"
    /\ inputBuffer_' = Decoded.rest
    /\ IF FrameDecodes(Decoded.frame)
       THEN contents' = Append(contents, Content(Decoded.frame))
            /\ UNCHANGED <<looping, failure>>
       ELSE failure' = "FRAME_INVALID" /\ looping' = FALSE /\ UNCHANGED contents
    /\ UNCHANGED <<frames, damage, wire>>

Reject ==
    /\ looping /\ Decoded.status = "Error"
    /\ failure' = Decoded.code /\ looping' = FALSE
    /\ UNCHANGED <<frames, damage, wire, inputBuffer_, contents>>

Next == (\E n \in 1 .. Len(wire) : Read(n)) \/ Wait \/ Take \/ Reject

Spec == Init /\ [][Next]_vars

-----------------------------------------------------------------------------
(* Properties, against a reading of the whole stream at once *)

Received == EndOf(Len(frames)) - Len(wire)

TooLarge(frame) ==
    Len(frame.payload) > IF frame.kind = ControlFrameKind THEN MaxControlFrameBytes
                                                          ELSE MaxBinaryFrameBytes

HeaderWrong(i) == damage.frame = i \/ TooLarge(frames[i])
Wrong(i) == HeaderWrong(i) \/ ~FrameDecodes(frames[i])

\* When the client can know that frame i is wrong.
KnownAt(i) == IF HeaderWrong(i) THEN EndOf(i - 1) + FrameHeaderBytes ELSE EndOf(i)

Good == {i \in DOMAIN frames : \A j \in 1 .. i : ~Wrong(j)}

\* Between two reads the client has taken each frame that arrived whole and is
\* preceded by none that is wrong, in the order sent and byte for byte, however
\* the stream was cut (takeFrame, frame_codec.cpp:82-143).
FramesIntact ==
    ~looping => contents = [i \in {j \in Good : EndOf(j) <= Received} |-> Content(frames[i])]

\* A wrong frame is refused as soon as it can be, for its own reason and for no
\* other: a header without waiting for the payload it announces.
RefusedAtOnce ==
    ~looping =>
        failure = LET known == {i \in DOMAIN frames :
                                  /\ Wrong(i) /\ \A j \in 1 .. i - 1 : ~Wrong(j)
                                  /\ KnownAt(i) <= Received}
                  IN  IF known = {} THEN "none"
                      ELSE LET i == CHOOSE i \in known : TRUE
                           IN  IF damage.frame # i /\ TooLarge(frames[i])
                               THEN "FRAME_TOO_LARGE" ELSE "FRAME_INVALID"

\* The client never keeps more than one frame it would accept, less one byte.
BufferBounded ==
    ~looping /\ failure = "none" => Len(inputBuffer_) < FrameHeaderBytes + MaxBinaryFrameBytes
=============================================================================
