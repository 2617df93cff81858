--------------------------- MODULE ReceiverSession ---------------------------
(***************************************************************************)
(* What a peer session of the receiver promises, independent of how reads *)
(* are buffered: once the handshake is accepted, the session has a byte   *)
(* stream that only grows, and it delivers, one at a time and in order,   *)
(* the frames that stream parses into.  A frame is delivered only when    *)
(* all of its bytes have arrived, and every complete frame is eventually  *)
(* delivered while the session lasts.  Closing the session (disconnect    *)
(* or removal) forgets the stream.                                        *)
(*                                                                         *)
(* The detailed ReceiverWorker implements this under a refinement mapping *)
(* defined there.                                                          *)
(***************************************************************************)
EXTENDS MessageCodec

CONSTANTS Peers

VARIABLES
    live,           \* the session is past its handshake
    stream,         \* bytes received on the session
    delivered       \* frames delivered on the session

vars == <<live, stream, delivered>>

\* The complete frames at the front of a byte stream.
RECURSIVE ParseFrames(_)
ParseFrames(s) ==
    IF Len(s) < HEADER_SIZE THEN <<>>
    ELSE LET h == DecodeHeader(SubSeq(s, 1, HEADER_SIZE))
             n == HEADER_SIZE + h.len
         IN  IF Len(s) < n THEN <<>>
             ELSE <<[type |-> h.type, payload |-> SubSeq(s, HEADER_SIZE + 1, n)]>>
                  \o ParseFrames(SubSeq(s, n + 1, Len(s)))

Init ==
    /\ live = [p \in Peers |-> FALSE]
    /\ stream = [p \in Peers |-> <<>>]
    /\ delivered = [p \in Peers |-> <<>>]

Open(p) ==
    /\ ~live[p]
    /\ live' = [live EXCEPT ![p] = TRUE]
    /\ UNCHANGED <<stream, delivered>>

\* More bytes arrive; the stream is only ever extended.
Receive(p) ==
    /\ live[p]
    /\ DOMAIN stream' = Peers
    /\ IsStrictPrefix(stream[p], stream'[p])
    /\ \A q \in Peers \ {p} : stream'[q] = stream[q]
    /\ UNCHANGED <<live, delivered>>

\* The next complete frame is delivered.
Deliver(p) ==
    /\ live[p]
    /\ Len(delivered[p]) < Len(ParseFrames(stream[p]))
    /\ delivered' = [delivered EXCEPT ![p] =
                        Append(@, ParseFrames(stream[p])[Len(@) + 1])]
    /\ UNCHANGED <<live, stream>>

Close(p) ==
    /\ live[p]
    /\ live' = [live EXCEPT ![p] = FALSE]
    /\ stream' = [stream EXCEPT ![p] = <<>>]
    /\ delivered' = [delivered EXCEPT ![p] = <<>>]

Next == \E p \in Peers : Open(p) \/ Receive(p) \/ Deliver(p) \/ Close(p)

SafetySpec == Init /\ [][Next]_vars

Spec == SafetySpec /\ \A p \in Peers : WF_vars(Deliver(p))

\* Deliver(p) is enabled exactly when a complete frame is pending.
Pending(p) == live[p] /\ Len(delivered[p]) < Len(ParseFrames(stream[p]))

\* WF_vars(Deliver(p)) with ENABLED Deliver(p) written out as Pending(p):
\* a frame that stays pending is eventually delivered.
DeliverFair ==
    \A p \in Peers : []<>~Pending(p) \/ []<><<Deliver(p)>>_vars

=============================================================================
