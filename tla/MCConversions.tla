---------------------------- MODULE MCConversions ----------------------------
(***************************************************************************)
(* The pure algorithms, checked in one run: the message payload codec    *)
(* (PayloadCodec), T243::from_u384 (T243Conversion), the milestone-diff   *)
(* packing (SnapshotPacking) and common_supported_version                 *)
(* (VersionNegotiation).  Each state is one input of one of them, `which` *)
(* says whose; the inputs of the others are Idle.                         *)
(*                                                                         *)
(* PayloadCodec: a 2-byte port, a 3-byte timestamp (u64 in the code), a   *)
(* 2-byte coordinator (49), a 1-byte weight magnitude and a 1..3-byte     *)
(* version mask (1..32); a 3-byte milestone index (u32), a 2-byte request *)
(* hash (49) and a 1..3-byte transaction (292..1604).  Every length from  *)
(* 0 to two past each range is decoded.                                   *)
(*                                                                         *)
(* T243Conversion: 3 limbs of 3 bits, 2^9 = 512 values, and 6 trits:      *)
(* 3^5 < 2^9 <= 3^6, the relation of 3^242 < 2^384 <= 3^243.              *)
(*                                                                         *)
(* SnapshotPacking: diffs with up to two created outputs and up to two    *)
(* spents, each from two distinct values, three indexes, and a following *)
(* record or none; a 4-byte index (u32), 2-byte counts (u64, scaled),     *)
(* 2-byte outputs and 1-byte transaction ids.                              *)
(*                                                                         *)
(* VersionNegotiation: every 1- and 2-byte own mask and every 1- to 3-byte *)
(* remote mask over bytes with no, one or two bits, the lowest and the    *)
(* highest bit, in a debug and a release build.                            *)
(***************************************************************************)
EXTENDS Naturals, Sequences, SequencesExt, TLC

VARIABLES which, id, bytes, msg, value, diff, trailer, own, remote, build

vars == <<which, id, bytes, msg, value, diff, trailer, own, remote, build>>

Idle == "idle"

-----------------------------------------------------------------------------
(* PayloadCodec inputs.                                                    *)

\* The size table of the message ids 1..6, as size_range() gives it for the
\* widths below (DecodeTotal checks it); LegacyGossip and
\* Heartbeat are not decoded here.
CodecMinSize == <<9, 0, 3, 1, 2, 0>>
CodecMaxSize == <<11, 4, 3, 3, 2, 4>>

\* Byte strings of every length up to n, with distinct byte values.
Pattern(n) == [i \in 1..n |-> (i * 37) % 128]
UpTo(n) == {Pattern(m) : m \in 0..n}

CodecInputs == [k \in {1, 3, 4, 5} |-> UpTo(CodecMaxSize[k] + 2)]

\* Field values whose bytes differ, so that an order or offset error shows.
CodecMsgs ==
    (1 :> {[port |-> port, timestamp |-> ts, coordinator |-> coord, mwm |-> 110,
            supported |-> sm] :
              port \in {0, 52632}, ts \in {0, 10606420},
              coord \in {<<160, 3>>, <<0, 254>>}, sm \in {<<2, 0, 0>>, <<1, 2, 4>>}})
    @@ (3 :> {[index |-> i] : i \in {0, 1, 8380284}})
    @@ (5 :> {[hash |-> h] : h \in {<<0, 0>>, <<9, 200>>}})
    @@ (4 :> {[transaction |-> t] : t \in {<<7>>, <<1, 2>>, <<255, 0, 3>>}})

Codec == INSTANCE PayloadCodec
            WITH MinSize <- CodecMinSize, MaxSize <- CodecMaxSize,
                 PortSize <- 2, TimestampSize <- 3, CoordinatorSize <- 2,
                 MwmSize <- 1, VarMinSize <- 1, VarMaxSize <- 3, IndexSize <- 3,
                 HashSize <- 2, TxMinSize <- 1, TxMaxSize <- 3,
                 Inputs <- CodecInputs, Msgs <- CodecMsgs

-----------------------------------------------------------------------------
(* T243Conversion and SnapshotPacking inputs.                              *)

T243 == INSTANCE T243Conversion WITH LimbBits <- 3, NumLimbs <- 3, NumTrits <- 6

Outputs == {<<1, 2>>, <<3, 250>>}
TxIds == {<<9>>, <<128>>}
Spents == {[output |-> o, transaction_id |-> t] : o \in Outputs, t \in TxIds}

Diffs == {[index |-> i, created |-> c, consumed |-> k] :
             i \in {0, 5, 70000}, c \in SeqOf(Outputs, 2), k \in SeqOf(Spents, 2)}

Snapshot == INSTANCE SnapshotPacking
               WITH IndexSize <- 4, CountSize <- 2, OutputSize <- 2, TxIdSize <- 1,
                    Diffs <- Diffs, Trailers <- {<<>>, <<0, 7>>}

-----------------------------------------------------------------------------
(* VersionNegotiation inputs.                                              *)

VersionBytes == {0, 1, 2, 3, 6, 128, 130}

VersionMasksUpTo(n) == UNION {[1..k -> VersionBytes] : k \in 1..n}

Version == INSTANCE VersionNegotiation
              WITH OwnMasks <- VersionMasksUpTo(2), RemoteMasks <- VersionMasksUpTo(3)

-----------------------------------------------------------------------------

CodecIdle == id = Idle /\ bytes = Idle /\ msg = Idle
T243Idle == value = Idle
SnapshotIdle == diff = Idle /\ trailer = Idle
VersionIdle == own = Idle /\ remote = Idle /\ build = Idle

Init ==
    \/ /\ which = "codec" /\ Codec!Init
       /\ T243Idle /\ SnapshotIdle /\ VersionIdle
    \/ /\ which = "t243" /\ T243!Init
       /\ CodecIdle /\ SnapshotIdle /\ VersionIdle
    \/ /\ which = "snapshot" /\ Snapshot!Init
       /\ CodecIdle /\ T243Idle /\ VersionIdle
    \/ /\ which = "version" /\ Version!Init
       /\ CodecIdle /\ T243Idle /\ SnapshotIdle

Next == UNCHANGED vars

Spec == Init /\ [][Next]_vars

\* from_full_bytes never panics and succeeds exactly in the size range
\* (PayloadCodec).
DecodeTotal == which = "codec" => Codec!DecodeTotal

\* Encoding then decoding gives the message back (PayloadCodec).
RoundTrip == which = "codec" => Codec!RoundTrip

\* from_u384 yields the integer's base-3 digits (T243Conversion).
FromU384Exact == which = "t243" => T243!FromU384Exact

\* A packed diff unpacks to itself and leaves the next record; a truncated
\* one is an error (SnapshotPacking).
PackUnpackRoundTrip == which = "snapshot" => Snapshot!PackUnpackRoundTrip

\* common_supported_version returns the highest version both masks
\* advertise, and fails only when they share none (VersionNegotiation).
OkIsHighestCommon == which = "version" => Version!OkIsHighestCommon

\* packed_len is the length pack writes (SnapshotPacking).
PackedLenMatches == which = "snapshot" => Snapshot!PackedLenMatches
=============================================================================
