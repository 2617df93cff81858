------------------------ MODULE MCReceiverWorker ---------------------------
(***************************************************************************)
(* Small instances of ReceiverWorker.                                      *)
(***************************************************************************)
EXTENDS ReceiverWorker, TLC

CONSTANTS p1, p2

\* Accepted payload lengths, scaled down from the code's
\* (Handshake 61..92, MilestoneRequest 4, TransactionBroadcast 292..1604,
\* TransactionRequest 49).  The handshake stays at least HEADER_SIZE long,
\* as in the code, so that handshake_handler's `len < 3` test only drops
\* fragments.
MCMinSize == (HandshakeID :> 3) @@ (LegacyGossipID :> 0) @@ (MilestoneRequestID :> 1)
             @@ (TransactionBroadcastID :> 1) @@ (TransactionRequestID :> 2)
             @@ (HeartbeatID :> 2)
MCMaxSize == (HandshakeID :> 4) @@ (LegacyGossipID :> 4) @@ (MilestoneRequestID :> 1)
             @@ (TransactionBroadcastID :> 2) @@ (TransactionRequestID :> 2)
             @@ (HeartbeatID :> 2)

Fr(t, n) == [type |-> t, payload |-> [i \in 1..n |-> 0]]

\* A peer's Handshake, shorter than the largest accepted (fewer version
\* bytes), then a milestone request, a transaction request with a payload
\* too short for its kind, and a transaction broadcast.
OnePeerScripts ==
    {<<Fr(HandshakeID, 3), Fr(MilestoneRequestID, 1), Fr(TransactionRequestID, 1),
       Fr(TransactionBroadcastID, 2)>>}

\* A handshake, then a request and a broadcast whose payload ends a read
\* at every possible position for reads of up to MaxChunk bytes.
SessionScripts ==
    {<<Fr(HandshakeID, 3), Fr(MilestoneRequestID, 1), Fr(TransactionBroadcastID, 2)>>}

\* Both peers send a handshake and then two milestone requests for
\* different indexes: four requests from two workers contend for the
\* responder channel's single slot, and a reordering or loss of either
\* peer's pair shows.
TwoPeerScripts ==
    {<<Fr(HandshakeID, 3), [type |-> MilestoneRequestID, payload |-> <<1>>],
       [type |-> MilestoneRequestID, payload |-> <<2>>]>>}

\* A handshake and two milestone requests: the second request waits for
\* the responder channel's only slot.
StallScripts ==
    {<<Fr(HandshakeID, 3), Fr(MilestoneRequestID, 1), Fr(MilestoneRequestID, 1)>>}

MCPeers1 == {p1}
MCPeers2 == {p1, p2}

PeerSymmetry == Permutations(MCPeers2)
=============================================================================
