------------------------- MODULE VersionNegotiation -------------------------
(***************************************************************************)
(* Protocol version negotiation, bee-protocol/src/protocol/version.rs.     *)
(*                                                                         *)
(* A version mask is a sequence of bytes; bit j of byte i advertises       *)
(* version i*8 + j + 1.  common_supported_version scans the bytes both     *)
(* masks have, keeps the version derived from the last byte index with an *)
(* overlap, and otherwise reports a version computed from the remote's     *)
(* last byte.  The arithmetic is u8: a debug build panics on overflow, a   *)
(* release build wraps, so the build is part of the state.                 *)
(*                                                                         *)
(* The algorithm is a pure operator; the state is only its input, chosen   *)
(* in Init, and the invariants compare the code's result with a reference  *)
(* definition over the set of advertised versions.                         *)
(***************************************************************************)
EXTENDS Integers, Sequences, Bitwise

CONSTANTS
    OwnMasks,       \* the local masks to try (SUPPORTED_VERSIONS is <<2>>)
    RemoteMasks     \* the masks a peer may advertise

Bytes == 0..255

ASSUME OwnMasks \subseteq Seq(Bytes) /\ RemoteMasks \subseteq Seq(Bytes)

VARIABLES
    own,            \* own_supported_versions
    remote,         \* supported_versions, from the peer
    build           \* "debug" (overflow panics) or "release" (wraps)

vars == <<own, remote, build>>

\* The value of an integer expression that panicked.
Panic == -1

\* u8 arithmetic of the two build profiles; a panic propagates.
U8(x, b) ==
    IF x = Panic \/ x < 256 THEN x
    ELSE IF b = "debug" THEN Panic ELSE x % 256

U8Add(x, y, b) == IF x = Panic \/ y = Panic THEN Panic ELSE U8(x + y, b)

U8Mul(x, y, b) == IF x = Panic \/ y = Panic THEN Panic ELSE U8(x * y, b)

\* The inner `for j in 0..8` loop: one more than the index of the highest
\* set bit of a byte, 0 for a zero byte.
HighestBit(byte) ==
    LET set == {j \in 0..7 : (byte \div 2^j) % 2 = 1}
    IN  IF set = {} THEN 0 ELSE 1 + CHOOSE j \in set : \A k \in set : k <= j

\* Mutant: the scan returns at the first byte with an overlap.
RECURSIVE ScanFirstMatch(_, _, _, _, _)
ScanFirstMatch(ownv, sv, i, acc, b) ==
    IF i >= Len(ownv) \/ i >= Len(sv) \/ acc = Panic THEN acc
    ELSE LET supported == sv[i + 1] & ownv[i + 1]
         IN  IF supported = 0
             THEN ScanFirstMatch(ownv, sv, i + 1, acc, b)
             ELSE U8Add(HighestBit(supported), U8Mul(i % 256, 8, b), b)

\* The outer loop over the indices of own, stopping at the end of the
\* remote mask; acc is highest_supported_version.
RECURSIVE Scan(_, _, _, _, _)
Scan(ownv, sv, i, acc, b) ==
    IF i >= Len(ownv) \/ i >= Len(sv) \/ acc = Panic THEN acc
    ELSE LET supported == sv[i + 1] & ownv[i + 1]
         IN  IF supported = 0
             THEN Scan(ownv, sv, i + 1, acc, b)
             ELSE Scan(ownv, sv, i + 1,
                       U8Add(HighestBit(supported), U8Mul(i % 256, 8, b), b), b)

Ok(v)  == [kind |-> "ok", version |-> v]
Err(v) == [kind |-> "err", version |-> v]
Panicked == [kind |-> "panic", version |-> 0]

\* Result of common_supported_version(ownv, sv) under build b.  An empty
\* remote mask makes `last().unwrap()` panic.
CommonSupportedVersion(ownv, sv, b) ==
    LET highest == Scan(ownv, sv, 0, 0, b)
        lastv   == IF sv = <<>> THEN Panic
                   ELSE U8Add(HighestBit(sv[Len(sv)]),
                              U8Mul((Len(sv) - 1) % 256, 8, b), b)
    IN  IF highest = Panic THEN Panicked
        ELSE IF highest # 0 THEN Ok(highest)
        ELSE IF lastv = Panic THEN Panicked
        ELSE Err(lastv)

Result == CommonSupportedVersion(own, remote, build)

Init ==
    /\ own \in OwnMasks
    /\ remote \in RemoteMasks
    /\ build \in {"debug", "release"}

\* The input never changes; every state is one call of the function.
Next == UNCHANGED vars

Spec == Init /\ [][Next]_vars

-----------------------------------------------------------------------------
(* Reference definitions.                                                  *)

\* The versions a mask advertises, as in the spec's data model.
Versions(m) == UNION {{i * 8 + j + 1 : j \in {k \in 0..7 : (m[i + 1] \div 2^k) % 2 = 1}} :
                      i \in 0..Len(m) - 1}

MaxOf(S) == CHOOSE x \in S : \A y \in S : y <= x

Common == Versions(own) \cap Versions(remote)

\* Negotiation succeeds exactly when the two masks share a version, and
\* then with the highest shared one.  The scan keeps the version of the
\* *last* overlapping byte rather than a running maximum (the open question
\* of the spec); this says the two agree, and fails if the u8 result
\* arithmetic cannot hold the version.
OkIsHighestCommon ==
    /\ Common # {} => Result = Ok(MaxOf(Common))
    /\ Common = {} => Result.kind # "ok"

\* When the masks share no version, the error carries the highest version
\* the remote advertised (the spec's example: remote [0b10] reports 2).
ErrReportsRemoteHighest ==
    (Common = {} /\ Versions(remote) # {}) =>
        Result = Err(MaxOf(Versions(remote)))

=============================================================================
