--------------------------- MODULE ReceiverWorker ---------------------------
(***************************************************************************)
(* The per-peer ReceiverWorker of bee-protocol/src/worker/receiver.rs,     *)
(* composed with the network layer that feeds it events and with the two  *)
(* bounded channels it forwards decoded messages to.                       *)
(*                                                                         *)
(* Each peer has one worker task.  Its run loop takes the next event from *)
(* its channel; Removed ends the task, any other event goes to the handler *)
(* of the current ReceiverWorkerState.  The message handler appends the   *)
(* bytes to the reassembly buffer and then runs a loop that alternates    *)
(* between reading a header and reading a payload; dispatching a payload  *)
(* awaits `send` on a bounded channel, so one loop iteration is one       *)
(* action and the task can be suspended between iterations.               *)
(*                                                                         *)
(* The network (bee-network, not part of this source) is the environment: *)
(* per peer it connects, delivers the bytes the peer wrote in chunks of   *)
(* any size up to MaxChunk, disconnects at any point, and may remove the  *)
(* peer.  It emits Connected only while disconnected, so the handlers'    *)
(* catch-all arms for a Connected event in a connected state are never    *)
(* taken and are not modelled.                                            *)
(***************************************************************************)
EXTENDS MessageCodec, FiniteSets

CONSTANTS
    Peers,          \* endpoint ids, one ReceiverWorker each
    Scripts,        \* frame sequences a peer may write on one connection
    MaxChunk,       \* most bytes one Message event carries
    MaxConnects,    \* connections each peer makes at most
    EventCap,       \* capacity of a worker's event channel
    TxCap,          \* capacity of the transaction worker channel
    RespCap         \* capacity of the responder worker channel

ASSUME /\ MaxChunk \in Nat \ {0} /\ MaxConnects \in Nat
       /\ EventCap \in Nat \ {0} /\ TxCap \in Nat \ {0} /\ RespCap \in Nat \ {0}

VARIABLES
    \* network layer, per peer
    netUp,          \* a connection to the peer is open
    connects,       \* connections made so far
    script,         \* frames the peer writes on the current connection
    sent,           \* bytes of that connection already delivered as events
    removed,        \* Removed has been issued
    \* ReceiverWorker, per peer
    events,         \* its Receiver<ReceiverWorkerEvent>
    rstate,         \* ReceiverWorkerState variant, or "Stopped" after run()
    mstate,         \* ReceiverWorkerMessageState of the current context
    buffer,         \* AwaitingMessageContext.buffer
    offset,         \* `offset` of the message handler's loop
    pc,             \* "idle": awaiting an event; "loop": in the loop
    handshakes,     \* handshakes sent to the peer by send_handshake
    \* downstream channels and their consumer workers
    txChan, txOpen, txDone,
    respChan, respOpen, respDone,
    \* history
    rscript,        \* the frames of the connection the worker is handling
    rpos,           \* bytes of that connection the worker has taken
    hsEnd,          \* rpos at which the handshake was accepted
    dispatched,     \* every (header, payload) given to process_message
    hsBase          \* Len(dispatched) when the handshake was accepted

netVars  == <<netUp, connects, script, sent, removed>>
workVars == <<events, rstate, mstate, buffer, offset, pc, handshakes>>
chanVars == <<txChan, txOpen, txDone, respChan, respOpen, respDone>>
histVars == <<rscript, rpos, hsEnd, dispatched, hsBase>>
vars == <<netVars, workVars, chanVars, histVars>>

Wire(s) == EncodeFrames(s)

NoHeader     == [type |-> 0, len |-> 0]
HeaderState  == [tag |-> "Header", header |-> NoHeader]
PayloadState(h) == [tag |-> "Payload", header |-> h]

\* The ReceiverWorkerState variants; the context each carries is mstate
\* and buffer.
ReceiverWorkerStates == {"AwaitingConnection", "AwaitingHandshake", "AwaitingMessage"}

Ev(kind, bytes, s) == [kind |-> kind, bytes |-> bytes, script |-> s]

Min2(a, b) == IF a <= b THEN a ELSE b

-----------------------------------------------------------------------------
(* Network layer: the worker's event source.                               *)

Emit(p, e) ==
    /\ Len(events[p]) < EventCap
    /\ events' = [events EXCEPT ![p] = Append(@, e)]

NetConnect(p) ==
    /\ ~removed[p] /\ ~netUp[p] /\ connects[p] < MaxConnects
    /\ \E s \in Scripts :
        /\ Emit(p, Ev("Connected", <<>>, s))
        /\ script' = [script EXCEPT ![p] = s]
    /\ netUp' = [netUp EXCEPT ![p] = TRUE]
    /\ connects' = [connects EXCEPT ![p] = @ + 1]
    /\ sent' = [sent EXCEPT ![p] = 0]
    /\ UNCHANGED <<removed, rstate, mstate, buffer, offset, pc, handshakes,
                   chanVars, histVars>>

NetReceive(p) ==
    /\ ~removed[p] /\ netUp[p]
    /\ \E n \in 1..Min2(MaxChunk, Len(Wire(script[p])) - sent[p]) :
        /\ Emit(p, Ev("Message", SubSeq(Wire(script[p]), sent[p] + 1, sent[p] + n), <<>>))
        /\ sent' = [sent EXCEPT ![p] = @ + n]
    /\ UNCHANGED <<netUp, connects, script, removed, rstate, mstate, buffer,
                   offset, pc, handshakes, chanVars, histVars>>

NetDisconnect(p) ==
    /\ ~removed[p] /\ netUp[p]
    /\ Emit(p, Ev("Disconnected", <<>>, <<>>))
    /\ netUp' = [netUp EXCEPT ![p] = FALSE]
    /\ UNCHANGED <<connects, script, sent, removed, rstate, mstate, buffer,
                   offset, pc, handshakes, chanVars, histVars>>

NetRemove(p) ==
    /\ ~removed[p]
    /\ Emit(p, Ev("Removed", <<>>, <<>>))
    /\ removed' = [removed EXCEPT ![p] = TRUE]
    /\ UNCHANGED <<netUp, connects, script, sent, rstate, mstate, buffer,
                   offset, pc, handshakes, chanVars, histVars>>

-----------------------------------------------------------------------------
(* ReceiverWorker::run and the three state handlers.                       *)

Event(p) == Head(events[p])

\* `self.receiver.next().await` yields the next event.
Take(p) ==
    /\ pc[p] = "idle" /\ rstate[p] # "Stopped" /\ events[p] # <<>>
    /\ events' = [events EXCEPT ![p] = Tail(@)]

\* Mutant: Removed is taken but does not break the loop; the handlers'
\* catch-all arms ignore it.
RunRemovedNoBreak(p) ==
    /\ Take(p) /\ Event(p).kind = "Removed"
    /\ UNCHANGED <<netVars, rstate, mstate, buffer, offset, pc, handshakes,
                   chanVars, histVars>>

\* run(): a Removed event breaks the loop before any handler sees it.
RunRemoved(p) ==
    /\ Take(p) /\ Event(p).kind = "Removed"
    /\ rstate' = [rstate EXCEPT ![p] = "Stopped"]
    /\ UNCHANGED <<netVars, mstate, buffer, offset, pc, handshakes, chanVars,
                   histVars>>

\* send_handshake: our Handshake, as full bytes, is sent to the peer
\* through the network; the send is not observed further.
SendHandshake(p) == handshakes' = [handshakes EXCEPT ![p] = @ + 1]

\* connection_handler: Connected sends our handshake and awaits the peer's.
ConnectionHandler(p) ==
    /\ Take(p) /\ rstate[p] = "AwaitingConnection"
    /\ Event(p).kind = "Connected"
    /\ SendHandshake(p)
    /\ rstate' = [rstate EXCEPT ![p] = "AwaitingHandshake"]
    /\ mstate' = [mstate EXCEPT ![p] = HeaderState]
    /\ rscript' = [rscript EXCEPT ![p] = Event(p).script]
    /\ rpos' = [rpos EXCEPT ![p] = 0]
    /\ UNCHANGED <<netVars, buffer, offset, pc, chanVars, hsEnd, dispatched,
                   hsBase>>

\* check_handshake: any payload Handshake::from_full_bytes accepts completes
\* the handshake (the field checks are commented out); otherwise the bytes
\* are dropped and a fresh header is expected.  `taken` is rpos after the
\* event.
CheckHandshake(p, bytes, taken) ==
    \/ /\ FromFullBytes(HandshakeID, bytes)
       /\ rstate' = [rstate EXCEPT ![p] = "AwaitingMessage"]
       /\ mstate' = [mstate EXCEPT ![p] = HeaderState]
       /\ buffer' = [buffer EXCEPT ![p] = <<>>]
       /\ hsEnd' = [hsEnd EXCEPT ![p] = taken]
       /\ hsBase' = [hsBase EXCEPT ![p] = Len(dispatched[p])]
    \/ /\ ~FromFullBytes(HandshakeID, bytes)
       /\ mstate' = [mstate EXCEPT ![p] = HeaderState]
       /\ UNCHANGED <<rstate, buffer, hsEnd, hsBase>>

\* handshake_handler.
HandshakeHandler(p) ==
    /\ Take(p) /\ rstate[p] = "AwaitingHandshake"
    /\ LET e == Event(p)
           b == e.bytes
           taken == rpos[p] + Len(b)
       IN
       \/ /\ e.kind = "Disconnected"
          /\ rstate' = [rstate EXCEPT ![p] = "AwaitingConnection"]
          /\ mstate' = [mstate EXCEPT ![p] = HeaderState]
          /\ UNCHANGED <<buffer, rpos, hsEnd, hsBase>>
       \/ /\ e.kind = "Message"
          /\ rpos' = [rpos EXCEPT ![p] = taken]
          /\ \/ /\ Len(b) < HEADER_SIZE
                /\ mstate' = [mstate EXCEPT ![p] = HeaderState]
                /\ UNCHANGED <<rstate, buffer, hsEnd, hsBase>>
             \/ /\ Len(b) = HEADER_SIZE /\ mstate[p].tag = "Header"
                /\ mstate' = [mstate EXCEPT ![p] = PayloadState(DecodeHeader(b))]
                /\ UNCHANGED <<rstate, buffer, hsEnd, hsBase>>
             \/ /\ Len(b) > HEADER_SIZE /\ mstate[p].tag = "Header"
                /\ CheckHandshake(p, SubSeq(b, HEADER_SIZE + 1, Len(b)), taken)
             \/ /\ Len(b) >= HEADER_SIZE /\ mstate[p].tag = "Payload"
                /\ CheckHandshake(p, b, taken)
    /\ UNCHANGED <<netVars, offset, pc, handshakes, chanVars, rscript,
                   dispatched>>

\* message_handler: Disconnected drops the context; Message appends to the
\* buffer and enters the reassembly loop at offset 0.
MessageHandler(p) ==
    /\ Take(p) /\ rstate[p] = "AwaitingMessage"
    /\ LET e == Event(p) IN
       \/ /\ e.kind = "Disconnected"
          /\ rstate' = [rstate EXCEPT ![p] = "AwaitingConnection"]
          /\ mstate' = [mstate EXCEPT ![p] = HeaderState]
          /\ buffer' = [buffer EXCEPT ![p] = <<>>]
          /\ UNCHANGED <<offset, pc, rpos>>
       \/ /\ e.kind = "Message"
          /\ buffer' = [buffer EXCEPT ![p] = @ \o e.bytes]
          /\ offset' = [offset EXCEPT ![p] = 0]
          /\ pc' = [pc EXCEPT ![p] = "loop"]
          /\ rpos' = [rpos EXCEPT ![p] = @ + Len(e.bytes)]
          /\ UNCHANGED <<rstate, mstate>>
    /\ UNCHANGED <<netVars, handshakes, chanVars, rscript, hsEnd, dispatched,
                   hsBase>>

-----------------------------------------------------------------------------
(* The reassembly loop of message_handler and process_message.             *)

\* Mutant: the context keeps the whole buffer, consumed bytes included.
ExitLoopKeepAll(p) ==
    /\ offset' = [offset EXCEPT ![p] = 0]
    /\ pc' = [pc EXCEPT ![p] = "idle"]
    /\ UNCHANGED <<mstate, buffer>>

\* `remaining = false`: the loop ends and the context keeps the bytes from
\* the offset on.
ExitLoop(p) ==
    /\ buffer' = [buffer EXCEPT ![p] = SubSeq(@, offset[p] + 1, Len(@))]
    /\ offset' = [offset EXCEPT ![p] = 0]
    /\ pc' = [pc EXCEPT ![p] = "idle"]
    /\ UNCHANGED mstate

\* Mutant: an off-by-one that needs a byte more than the header.
HeaderAvailableStrict(p) == offset[p] + HEADER_SIZE < Len(buffer[p])

\* `offset + 3 <= context.buffer.len()`
HeaderAvailable(p) == offset[p] + HEADER_SIZE <= Len(buffer[p])

\* ReceiverWorkerMessageState::Header arm.
LoopHeader(p) ==
    /\ pc[p] = "loop" /\ mstate[p].tag = "Header"
    /\ \/ /\ HeaderAvailable(p)
          /\ mstate' = [mstate EXCEPT ![p] = PayloadState(DecodeHeader(
                            SubSeq(buffer[p], offset[p] + 1, offset[p] + HEADER_SIZE)))]
          /\ offset' = [offset EXCEPT ![p] = @ + HEADER_SIZE]
          /\ UNCHANGED <<buffer, pc>>
       \/ /\ ~HeaderAvailable(p)
          /\ ExitLoop(p)
    /\ UNCHANGED <<netVars, events, rstate, handshakes, chanVars, histVars>>

\* Mutant: the item is pushed without waiting for capacity.
SendNoWait(chan, open, cap, item) ==
    \/ open /\ chan' = Append(chan, item)
    \/ ~open /\ UNCHANGED chan

\* Mutant: try_send in place of send().await: an item meeting a full
\* channel is dropped as a FailedSend instead of waiting for the slot.
SendTryDrop(chan, open, cap, item) ==
    \/ open /\ Len(chan) < cap /\ chan' = Append(chan, item)
    \/ (~open \/ Len(chan) >= cap) /\ UNCHANGED chan

\* `sender.send(item).await`: waits while the channel is full; on a closed
\* channel it fails with FailedSend, which is logged and the loop goes on.
Send(chan, open, cap, item) ==
    \/ open /\ Len(chan) < cap /\ chan' = Append(chan, item)
    \/ ~open /\ UNCHANGED chan

\* process_message(header, bytes): route by message type.  Handshake,
\* LegacyGossip and Heartbeat are decoded or logged only; unknown types
\* are ignored; so is a payload from_full_bytes rejects.
ProcessMessage(p, h, bytes) ==
    \/ /\ h.type \in {MilestoneRequestID, TransactionRequestID}
       /\ FromFullBytes(h.type, bytes)
       /\ Send(respChan, respOpen, RespCap,
               [epid |-> p, type |-> h.type, payload |-> bytes])
       /\ UNCHANGED <<txChan, txOpen, txDone, respOpen, respDone>>
    \/ /\ h.type = TransactionBroadcastID
       /\ FromFullBytes(h.type, bytes)
       /\ Send(txChan, txOpen, TxCap, [from |-> p, payload |-> bytes])
       /\ UNCHANGED <<txOpen, txDone, respChan, respOpen, respDone>>
    \/ /\ \/ h.type \notin {MilestoneRequestID, TransactionRequestID,
                            TransactionBroadcastID}
          \/ ~FromFullBytes(h.type, bytes)
       /\ UNCHANGED chanVars

\* Mutant: an off-by-one that needs a byte more than the payload.
PayloadAvailableStrict(p, h) == offset[p] + h.len < Len(buffer[p])

\* `offset + header.message_length <= context.buffer.len()`
PayloadAvailable(p, h) == offset[p] + h.len <= Len(buffer[p])

\* ReceiverWorkerMessageState::Payload arm.
LoopPayload(p) ==
    /\ pc[p] = "loop" /\ mstate[p].tag = "Payload"
    /\ LET h == mstate[p].header IN
       \/ /\ PayloadAvailable(p, h)
          /\ LET bytes == SubSeq(buffer[p], offset[p] + 1, offset[p] + h.len) IN
             /\ ProcessMessage(p, h, bytes)
             /\ dispatched' = [dispatched EXCEPT ![p] =
                                  Append(@, [type |-> h.type, payload |-> bytes])]
          /\ offset' = [offset EXCEPT ![p] = @ + h.len]
          /\ mstate' = [mstate EXCEPT ![p] = HeaderState]
          /\ UNCHANGED <<buffer, pc>>
       \/ /\ ~PayloadAvailable(p, h)
          /\ ExitLoop(p)
          /\ UNCHANGED <<chanVars, dispatched>>
    /\ UNCHANGED <<netVars, events, rstate, handshakes, rscript, rpos, hsEnd,
                   hsBase>>

-----------------------------------------------------------------------------
(* The consumers: the transaction worker and the responder worker drain    *)
(* their channels; at shutdown a consumer drops its receiver, which closes *)
(* the channel and discards what it still holds.                           *)

TxWorkerStep ==
    /\ txOpen /\ txChan # <<>>
    /\ txDone' = Append(txDone, Head(txChan))
    /\ txChan' = Tail(txChan)
    /\ UNCHANGED <<netVars, workVars, txOpen, respChan, respOpen, respDone,
                   histVars>>

TxWorkerStop ==
    /\ txOpen
    /\ txOpen' = FALSE /\ txChan' = <<>>
    /\ UNCHANGED <<netVars, workVars, txDone, respChan, respOpen, respDone,
                   histVars>>

ResponderStep ==
    /\ respOpen /\ respChan # <<>>
    /\ respDone' = Append(respDone, Head(respChan))
    /\ respChan' = Tail(respChan)
    /\ UNCHANGED <<netVars, workVars, txChan, txOpen, txDone, respOpen,
                   histVars>>

ResponderStop ==
    /\ respOpen
    /\ respOpen' = FALSE /\ respChan' = <<>>
    /\ UNCHANGED <<netVars, workVars, txChan, txOpen, txDone, respDone,
                   histVars>>

-----------------------------------------------------------------------------

Init ==
    /\ netUp = [p \in Peers |-> FALSE]
    /\ connects = [p \in Peers |-> 0]
    /\ script = [p \in Peers |-> <<>>]
    /\ sent = [p \in Peers |-> 0]
    /\ removed = [p \in Peers |-> FALSE]
    /\ events = [p \in Peers |-> <<>>]
    /\ rstate = [p \in Peers |-> "AwaitingConnection"]
    /\ mstate = [p \in Peers |-> HeaderState]
    /\ buffer = [p \in Peers |-> <<>>]
    /\ offset = [p \in Peers |-> 0]
    /\ pc = [p \in Peers |-> "idle"]
    /\ handshakes = [p \in Peers |-> 0]
    /\ txChan = <<>> /\ txOpen = TRUE /\ txDone = <<>>
    /\ respChan = <<>> /\ respOpen = TRUE /\ respDone = <<>>
    /\ rscript = [p \in Peers |-> <<>>]
    /\ rpos = [p \in Peers |-> 0]
    /\ hsEnd = [p \in Peers |-> 0]
    /\ dispatched = [p \in Peers |-> <<>>]
    /\ hsBase = [p \in Peers |-> 0]

Worker(p) ==
    \/ RunRemoved(p) \/ ConnectionHandler(p) \/ HandshakeHandler(p)
    \/ MessageHandler(p) \/ LoopHeader(p) \/ LoopPayload(p)

Network(p) ==
    NetConnect(p) \/ NetReceive(p) \/ NetDisconnect(p) \/ NetRemove(p)

Next ==
    \/ \E p \in Peers : Worker(p) \/ Network(p)
    \/ TxWorkerStep \/ TxWorkerStop \/ ResponderStep \/ ResponderStop

\* Each worker task is polled whenever it can run.  A send blocked on a
\* full channel is woken in FIFO order by the futures mpsc channel when a
\* slot frees, hence strong fairness for the payload step.  The consumers
\* loop on their channels.  The network and the shutdowns are not fair.
WorkerFairness ==
    \A p \in Peers :
        /\ WF_vars(RunRemoved(p)) /\ WF_vars(ConnectionHandler(p))
        /\ WF_vars(HandshakeHandler(p)) /\ WF_vars(MessageHandler(p))
        /\ WF_vars(LoopHeader(p)) /\ SF_vars(LoopPayload(p))

ConsumerFairness == WF_vars(TxWorkerStep) /\ WF_vars(ResponderStep)

Fairness == WorkerFairness /\ ConsumerFairness

Spec == Init /\ [][Next]_vars /\ Fairness

\* The same system with consumers that may stall without closing their
\* channel (a downstream worker itself blocked, or slow for ever).
SpecStalledConsumers == Init /\ [][Next]_vars /\ WorkerFairness

-----------------------------------------------------------------------------
(* Properties.                                                             *)

Frame == [type : Byte, payload : Seq(Byte)]
\* A header as Header::from_bytes produces it: a u8 type and a u16 length.
IsHeader(h) == h.type \in Byte /\ h.len \in 0..65535

TypeOK ==
    /\ netUp \in [Peers -> BOOLEAN] /\ removed \in [Peers -> BOOLEAN]
    /\ connects \in [Peers -> 0..MaxConnects]
    /\ sent \in [Peers -> Nat] /\ rpos \in [Peers -> Nat]
    /\ hsEnd \in [Peers -> Nat] /\ hsBase \in [Peers -> Nat]
    /\ \A p \in Peers : Len(events[p]) <= EventCap
    /\ rstate \in [Peers -> ReceiverWorkerStates \cup {"Stopped"}]
    /\ \A p \in Peers :
          \/ mstate[p] = HeaderState
          \/ mstate[p].tag = "Payload" /\ IsHeader(mstate[p].header)
    /\ buffer \in [Peers -> Seq(Byte)]
    /\ offset \in [Peers -> Nat] /\ pc \in [Peers -> {"idle", "loop"}]
    /\ handshakes \in [Peers -> Nat]
    /\ Len(txChan) <= TxCap /\ Len(respChan) <= RespCap
    /\ txOpen \in BOOLEAN /\ respOpen \in BOOLEAN
    /\ dispatched \in [Peers -> Seq(Frame)]

\* The frames the worker dispatched since the current handshake.
SessionFrames(p) == SubSeq(dispatched[p], hsBase[p] + 1, Len(dispatched[p]))

\* The header the loop has read and whose payload it still awaits.
PendingHeader(p) ==
    IF mstate[p].tag = "Payload" THEN EncodeHeader(mstate[p].header) ELSE <<>>

\* The bytes of the buffer the loop has not consumed yet.
Unconsumed(p) == SubSeq(buffer[p], offset[p] + 1, Len(buffer[p]))

\* Reassembly is exact, whatever the chunking: once the handshake is
\* accepted, the dispatched frames, the header awaiting its payload and the
\* unconsumed buffer re-encode to exactly the bytes the worker took from
\* the connection after the handshake.  No byte is lost, duplicated or
\* reordered by message_handler's offset and tail-retention logic, across
\* reads and across reconnections.
ReassemblyCorrect ==
    \A p \in Peers :
        rstate[p] = "AwaitingMessage" =>
            EncodeFrames(SessionFrames(p)) \o PendingHeader(p) \o Unconsumed(p)
                = SubSeq(Wire(rscript[p]), hsEnd[p] + 1, rpos[p])

\* A complete frame is buffered: its header, or the payload of the header
\* already read, is all there.
CompleteFrameBuffered(p) ==
    IF mstate[p].tag = "Header" THEN Len(buffer[p]) >= HEADER_SIZE
    ELSE Len(buffer[p]) >= mstate[p].header.len

\* The loop drains every read: when message_handler returns to await the
\* next event, the retained tail never holds a complete frame, so no frame
\* waits for a later read that may never come.
LoopDrains ==
    \A p \in Peers :
        (rstate[p] = "AwaitingMessage" /\ pc[p] = "idle")
            => ~CompleteFrameBuffered(p)

\* Reference: a dispatched frame must be forwarded when its type is routed
\* and its length is in the kind's accepted range [MinSize, MaxSize].
Accepted(f) == Len(f.payload) \in MinSize[f.type]..MaxSize[f.type]
IsRequest(f) ==
    f.type \in {MilestoneRequestID, TransactionRequestID} /\ Accepted(f)
IsBroadcast(f) == f.type = TransactionBroadcastID /\ Accepted(f)

MapSeq(s, F(_)) == [i \in 1..Len(s) |-> F(s[i])]

RespExpected(p) ==
    MapSeq(SelectSeq(dispatched[p], IsRequest),
           LAMBDA f : [epid |-> p, type |-> f.type, payload |-> f.payload])
RespSeen(p) == SelectSeq(respDone \o respChan, LAMBDA it : it.epid = p)

TxExpected(p) ==
    MapSeq(SelectSeq(dispatched[p], IsBroadcast),
           LAMBDA f : [from |-> p, payload |-> f.payload])
TxSeen(p) == SelectSeq(txDone \o txChan, LAMBDA it : it.from = p)

\* Routing through the shared bounded channels: what each consumer has
\* taken or still holds from a peer is, in order, the valid requests
\* (resp. transaction broadcasts) that peer's worker dispatched, none lost
\* or reordered by the interleaving of several workers blocked on `send`;
\* once a consumer has stopped, a prefix of them.
RouteFaithful ==
    \A p \in Peers :
        /\ IsPrefix(RespSeen(p), RespExpected(p))
        /\ respOpen => RespSeen(p) = RespExpected(p)
        /\ IsPrefix(TxSeen(p), TxExpected(p))
        /\ txOpen => TxSeen(p) = TxExpected(p)

\* A removed peer's worker terminates, even while it is blocked on a
\* full downstream channel.  The spec (section 5) races the shutdown with
\* the wait for channel capacity so that it "always wins promptly"; the
\* code sees Removed only when it next reads its event channel, so this
\* holds when the consumers keep draining (Spec) and not when one stalls
\* (SpecStalledConsumers).
RemovedStops == \A p \in Peers : removed[p] ~> rstate[p] = "Stopped"

\* Spec: messages are processed in the order the peer sent them.  After the
\* handshake, the frames dispatched are a prefix of the frames the peer
\* wrote after its Handshake.
PostHandshakeOrder ==
    \A p \in Peers :
        rstate[p] = "AwaitingMessage" =>
            IsPrefix(SessionFrames(p), Tail(rscript[p]))

-----------------------------------------------------------------------------
(* Refinement of ReceiverSession.  A session is live while the worker is  *)
(* in AwaitingMessage; its stream is what the worker has taken from the   *)
(* connection since the handshake, its deliveries the frames given to     *)
(* process_message since then.                                            *)

SessionLive == [p \in Peers |-> rstate[p] = "AwaitingMessage"]

SessionStream ==
    [p \in Peers |-> IF SessionLive[p]
                     THEN SubSeq(Wire(rscript[p]), hsEnd[p] + 1, rpos[p])
                     ELSE <<>>]

SessionDelivered ==
    [p \in Peers |-> IF SessionLive[p] THEN SessionFrames(p) ELSE <<>>]

Session == INSTANCE ReceiverSession
               WITH live <- SessionLive, stream <- SessionStream,
                    delivered <- SessionDelivered

\* The worker implements the session abstraction: every process_message
\* call hands over exactly the next frame of the bytes taken since the
\* handshake, only once all of its bytes are there, and, under the task
\* scheduling and channel fairness, every complete frame is eventually
\* handed over while the session lasts, however the reads were chunked and
\* however long sends were blocked on the bounded channels.
SessionSpec == Session!SafetySpec /\ Session!DeliverFair

=============================================================================
