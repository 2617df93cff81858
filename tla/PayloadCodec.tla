----------------------------- MODULE PayloadCodec -----------------------------
(***************************************************************************)
(* The payload layouts of the four message kinds the receiver routes:     *)
(* message/handshake.rs, message/transaction_broadcast.rs and             *)
(* message/v2/{milestone,transaction}_request.rs.                          *)
(*                                                                         *)
(* A payload is a byte sequence.  Integers are big-endian; fixed arrays   *)
(* are copied verbatim; the handshake's version mask is the remainder of  *)
(* the payload, copied into a fixed array of VarMaxSize bytes.  Slicing   *)
(* past the end of a slice, or copy_from_slice between slices of unequal *)
(* length, panics.  Field widths are constants so that TLC, whose         *)
(* integers are 32-bit, can decode them (the u64 timestamp is scaled).    *)
(*                                                                         *)
(* The state is one decode input and one message to encode, chosen in     *)
(* Init; the properties relate the decoders, the encoders and the         *)
(* size ranges the receiver checks lengths against (MessageCodec).        *)
(***************************************************************************)
EXTENDS MessageCodec

CONSTANTS
    PortSize, TimestampSize, CoordinatorSize, MwmSize,  \* handshake fields
    VarMinSize, VarMaxSize,                   \* handshake version mask
    IndexSize,                                \* milestone request index
    HashSize,                                 \* transaction request hash
    TxMinSize, TxMaxSize,                     \* transaction broadcast
    Inputs,         \* id -> byte strings to decode
    Msgs            \* id -> messages to encode

Kinds == {HandshakeID, MilestoneRequestID, TransactionRequestID,
          TransactionBroadcastID}

VARIABLES id, bytes, msg

vars == <<id, bytes, msg>>

Ok(m) == [kind |-> "ok", msg |-> m]
LengthError(n) == [kind |-> "length", msg |-> n]
Panic == [kind |-> "panic", msg |-> 0]

\* u16/u32/u64 from_be_bytes and to_be_bytes.
FromBE(bs) == FoldLeft(LAMBDA acc, x : acc * 256 + x, 0, bs)
ToBE(x, n) == [i \in 1..n |-> (x \div 256^(n - i)) % 256]

Zeros(n) == [i \in 1..n |-> 0]

\* std Range::contains on the half-open lo..hi.
RangeContains(r, n) == r.lo <= n /\ n < r.hi

-----------------------------------------------------------------------------
(* Handshake.                                                              *)

HANDSHAKE_CONSTANT_SIZE == PortSize + TimestampSize + CoordinatorSize + MwmSize

\* Mutant: the upper bound written with one byte to spare.
HandshakeSizeRangeWide ==
    [lo |-> HANDSHAKE_CONSTANT_SIZE + VarMinSize,
     hi |-> HANDSHAKE_CONSTANT_SIZE + VarMaxSize + 2]

HandshakeSizeRange ==
    [lo |-> HANDSHAKE_CONSTANT_SIZE + VarMinSize,
     hi |-> HANDSHAKE_CONSTANT_SIZE + VarMaxSize + 1]

\* Handshake::new copies the two fixed arrays.
HandshakeNew(port, timestamp, coordinator, mwm, supported) ==
    [port |-> port, timestamp |-> timestamp, coordinator |-> coordinator,
     mwm |-> mwm, supported |-> supported]

\* Handshake::from_bytes: the length check, the fixed fields in order at a
\* running offset, and the tail copied into supported_messages[0..len].
HandshakeFromBytes(b) ==
    LET o1 == PortSize
        o2 == o1 + TimestampSize
        o3 == o2 + CoordinatorSize
        o4 == o3 + MwmSize
        tail == SubSeq(b, o4 + 1, Len(b))
    IN  IF ~RangeContains(HandshakeSizeRange, Len(b)) THEN LengthError(Len(b))
        ELSE IF o4 > Len(b) \/ Len(tail) > VarMaxSize THEN Panic
        ELSE Ok(HandshakeNew(FromBE(SubSeq(b, 1, o1)),
                             FromBE(SubSeq(b, o1 + 1, o2)),
                             SubSeq(b, o2 + 1, o3),
                             FromBE(SubSeq(b, o3 + 1, o4)),
                             tail \o Zeros(VarMaxSize - Len(tail))))

\* Mutant: the timestamp written with to_le_bytes.
HandshakeIntoBytesLE(m) ==
    ToBE(m.port, PortSize) \o Reverse(ToBE(m.timestamp, TimestampSize))
    \o m.coordinator \o ToBE(m.mwm, MwmSize) \o m.supported

\* Handshake::into_bytes: every field, the whole version array included.
HandshakeIntoBytes(m) ==
    ToBE(m.port, PortSize) \o ToBE(m.timestamp, TimestampSize)
    \o m.coordinator \o ToBE(m.mwm, MwmSize) \o m.supported

-----------------------------------------------------------------------------
(* The other kinds.                                                        *)

MilestoneRequestSizeRange == [lo |-> IndexSize, hi |-> IndexSize + 1]

\* MilestoneRequest::from_bytes checks the length itself.
MilestoneRequestFromBytes(b) ==
    IF ~RangeContains(MilestoneRequestSizeRange, Len(b)) THEN LengthError(Len(b))
    ELSE IF IndexSize > Len(b) THEN Panic
    ELSE Ok([index |-> FromBE(SubSeq(b, 1, IndexSize))])

MilestoneRequestSize == IndexSize

\* MilestoneRequest::to_bytes writes into the caller's buffer with
\* copy_from_slice, which panics unless the buffer is exactly INDEX_SIZE.
MilestoneRequestToBytes(m, buf) ==
    IF Len(buf) # IndexSize THEN Panic ELSE Ok(ToBE(m.index, IndexSize))

TransactionRequestSizeRange == [lo |-> HashSize, hi |-> HashSize + 1]

TransactionRequestDefault == [hash |-> Zeros(HashSize)]

\* TransactionRequest::from_bytes does not check the length: it copies
\* bytes[0..HASH_SIZE] over a default message, panicking on a shorter slice.
TransactionRequestFromBytes(b) ==
    IF HashSize > Len(b) THEN Panic
    ELSE Ok([TransactionRequestDefault EXCEPT !.hash = SubSeq(b, 1, HashSize)])

\* Mutant: size() counting the one byte the size range allows beyond it.
TransactionRequestSizeOneMore == HashSize + 1

TransactionRequestSize == HashSize

\* TransactionRequest::to_bytes: copy_from_slice of the hash into the
\* caller's buffer, which panics unless it is exactly HASH_SIZE long.
TransactionRequestToBytes(m, buf) ==
    IF Len(buf) # HashSize THEN Panic ELSE Ok(m.hash)

TransactionBroadcastSizeRange == [lo |-> TxMinSize, hi |-> TxMaxSize + 1]

TransactionBroadcastFromBytes(b) ==
    IF ~RangeContains(TransactionBroadcastSizeRange, Len(b)) THEN LengthError(Len(b))
    ELSE Ok([transaction |-> b])

TransactionBroadcastIntoBytes(m) == m.transaction

SizeRange(k) ==
    CASE k = HandshakeID            -> HandshakeSizeRange
      [] k = MilestoneRequestID     -> MilestoneRequestSizeRange
      [] k = TransactionRequestID   -> TransactionRequestSizeRange
      [] k = TransactionBroadcastID -> TransactionBroadcastSizeRange

\* Message::from_full_bytes: the length check against size_range(), then
\* the kind's from_bytes.
FromFullBytesOf(k, b) ==
    IF ~RangeContains(SizeRange(k), Len(b)) THEN LengthError(Len(b))
    ELSE CASE k = HandshakeID            -> HandshakeFromBytes(b)
           [] k = MilestoneRequestID     -> MilestoneRequestFromBytes(b)
           [] k = TransactionRequestID   -> TransactionRequestFromBytes(b)
           [] k = TransactionBroadcastID -> TransactionBroadcastFromBytes(b)

\* The payload of each kind: into_bytes for the v1 kinds; for the v2
\* requests, to_bytes into a zeroed buffer of size() bytes, as the
\* Message trait's into_full_bytes (not in this source) allocates it.
IntoBytesOf(k, m) ==
    CASE k = HandshakeID            -> Ok(HandshakeIntoBytes(m))
      [] k = MilestoneRequestID     ->
            MilestoneRequestToBytes(m, Zeros(MilestoneRequestSize))
      [] k = TransactionRequestID   ->
            TransactionRequestToBytes(m, Zeros(TransactionRequestSize))
      [] k = TransactionBroadcastID -> Ok(TransactionBroadcastIntoBytes(m))

Init ==
    /\ id \in Kinds
    /\ bytes \in Inputs[id]
    /\ msg \in Msgs[id]

Next == UNCHANGED vars

Spec == Init /\ [][Next]_vars

-----------------------------------------------------------------------------
(* Properties.                                                             *)

\* Decoding is total and agrees with the receiver's length check: for any
\* byte string, from_full_bytes never panics in the slicing or the
\* copy_from_slice of the field layout, and it succeeds exactly when the
\* length is in the receiver's size table (MessageCodec), which is the
\* kind's size_range().  This is what makes the receiver's length-only
\* model of from_full_bytes sound.
DecodeTotal ==
    LET r == FromFullBytesOf(id, bytes) IN
    /\ r.kind # "panic"
    /\ (r.kind = "ok") <=> SizeRangeContains(id, Len(bytes))
    /\ MinSize[id] = SizeRange(id).lo /\ MaxSize[id] + 1 = SizeRange(id).hi

\* Encoding then decoding gives the message back (spec: round-trip
\* encode/decode), field for field and in the right byte order; encoding
\* never panics, so size() agrees with what to_bytes writes.
RoundTrip ==
    LET e == IntoBytesOf(id, msg) IN
    e.kind = "ok" /\ FromFullBytesOf(id, e.msg) = Ok(msg)

=============================================================================
