----------------------- MODULE MCVersionNegotiation -----------------------
(***************************************************************************)
(* Inputs for VersionNegotiation.                                          *)
(***************************************************************************)
EXTENDS VersionNegotiation

\* Byte values with one, two or no bits, the lowest and the highest bit.
SmallBytes == {0, 1, 2, 3, 6, 128, 130}

\* Every mask of one to MaxLen bytes over SmallBytes.
MasksUpTo(maxLen) == UNION {[1..n -> SmallBytes] : n \in 1..maxLen}

\* Own masks: SUPPORTED_VERSIONS and every 1- and 2-byte mask.
MCOwnMasks == MasksUpTo(2)

\* Remote masks: every 1- to 3-byte mask.
MCRemoteMasks == MasksUpTo(3)

\* A 32-byte mask (the size Handshake pads to) with one byte set.
Mask32(pos, byte) == [i \in 1..32 |-> IF i = pos THEN byte ELSE 0]

\* 32-byte masks advertising versions 2, 249, 255 and 256.
MCWideMasks == {Mask32(1, 2), Mask32(32, 1), Mask32(32, 64), Mask32(32, 128),
                Mask32(32, 192)}

\* 32-byte zero-padded masks as a peer's Handshake carries them.
MCPaddedMasks == {Mask32(1, 1), Mask32(1, 2), Mask32(1, 3), Mask32(2, 1)}
=============================================================================
