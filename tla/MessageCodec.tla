---------------------------- MODULE MessageCodec ----------------------------
(***************************************************************************)
(* Wire format of the peer protocol: the 3-byte header, the message type   *)
(* identifiers, the per-kind accepted payload lengths and the length check *)
(* every from_full_bytes starts with.                                      *)
(*                                                                         *)
(* A byte is an integer in 0..255.  A payload is a sequence of bytes whose *)
(* content the receiver never inspects beyond its length, so a frame is a *)
(* record [type, payload] and its encoding is header \o payload.           *)
(* Payload lengths are scaled down in the MC modules (MinSize, MaxSize);   *)
(* the control of the receiver depends only on how they compare with the  *)
(* header size and with the chunk sizes.                                   *)
(***************************************************************************)
EXTENDS Integers, Sequences, SequencesExt

CONSTANTS
    MinSize,        \* message id -> smallest accepted payload length
    MaxSize         \* message id -> largest accepted payload length

\* Message type identifiers (Message::ID / id() of each kind).
HandshakeID            == 1
LegacyGossipID         == 2
MilestoneRequestID     == 3
TransactionBroadcastID == 4
TransactionRequestID   == 5
HeartbeatID            == 6

MessageIDs == {HandshakeID, LegacyGossipID, MilestoneRequestID,
               TransactionBroadcastID, TransactionRequestID, HeartbeatID}

ASSUME /\ DOMAIN MinSize = MessageIDs /\ DOMAIN MaxSize = MessageIDs
       /\ \A id \in MessageIDs : 0 <= MinSize[id] /\ MinSize[id] <= MaxSize[id]

Byte == 0..255

HEADER_SIZE == 3

\* Header::from_bytes: byte 0 is the type, bytes 1-2 the big-endian u16
\* payload length.
DecodeHeader(b) == [type |-> b[1], len |-> b[2] * 256 + b[3]]

\* The inverse, used by into_full_bytes on the sending side.
EncodeHeader(h) == <<h.type, h.len \div 256, h.len % 256>>

\* Mutant: the range written min..max, forgetting that Range excludes max.
SizeRangeContainsExclusive(id, n) == MinSize[id] <= n /\ n < MaxSize[id]

\* size_range() is the half-open Range min..(max + 1); contains(n).
SizeRangeContains(id, n) == MinSize[id] <= n /\ n < MaxSize[id] + 1

\* from_full_bytes succeeds exactly when the payload length is in range;
\* the field decoding that follows cannot fail on a length-valid slice.
FromFullBytes(id, bytes) == SizeRangeContains(id, Len(bytes))

\* The bytes a sender writes for one frame and for a sequence of frames.
EncodeFrame(f) ==
    EncodeHeader([type |-> f.type, len |-> Len(f.payload)]) \o f.payload

EncodeFrames(fs) == FlattenSeq([i \in 1..Len(fs) |-> EncodeFrame(fs[i])])

=============================================================================
