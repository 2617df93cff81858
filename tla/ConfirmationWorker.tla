--------------------------- MODULE ConfirmationWorker ---------------------------
(***************************************************************************)
(* LedgerConfirmationWorker, bee-ledger/src/whiteflag/confirmation.rs.    *)
(* Its loop selects between the fused shutdown receiver and the next      *)
(* event of the fused unbounded milestone channel: any outcome of the     *)
(* shutdown branch (a sent value or a dropped sender) breaks the loop;    *)
(* Some(event) confirms the milestone; None (every sender dropped and the *)
(* channel drained) does nothing and leaves the fused stream terminated,  *)
(* so select! no longer polls it.                                          *)
(*                                                                         *)
(* futures::select! polls the ready branches in a random order, so when   *)
(* both are ready either may win.  The milestone senders and the shutdown *)
(* sender are other workers, not in this source.                          *)
(***************************************************************************)
EXTENDS Naturals, Sequences

CONSTANTS
    Milestones      \* the milestones other workers send, in order

VARIABLES
    chan,           \* the unbounded mpsc channel
    sendersOpen,    \* some sender is alive
    sent,           \* how many of Milestones were sent
    rxDone,         \* the fused receiver has yielded None
    shutdown,       \* "open", "sent" or "dropped"; "taken" once received
    running,
    confirmed       \* the milestones confirm() was called with

vars == <<chan, sendersOpen, sent, rxDone, shutdown, running, confirmed>>

Init ==
    /\ chan = <<>>
    /\ sendersOpen = TRUE
    /\ sent = 0
    /\ rxDone = FALSE
    /\ shutdown = "open"
    /\ running = TRUE
    /\ confirmed = <<>>

Send ==
    /\ sendersOpen /\ sent < Len(Milestones)
    /\ chan' = Append(chan, Milestones[sent + 1])
    /\ sent' = sent + 1
    /\ UNCHANGED <<sendersOpen, rxDone, shutdown, running, confirmed>>

DropSenders ==
    /\ sendersOpen
    /\ sendersOpen' = FALSE
    /\ UNCHANGED <<chan, sent, rxDone, shutdown, running, confirmed>>

SendShutdown ==
    /\ shutdown = "open"
    /\ shutdown' = "sent"
    /\ UNCHANGED <<chan, sendersOpen, sent, rxDone, running, confirmed>>

DropShutdown ==
    /\ shutdown = "open"
    /\ shutdown' = "dropped"
    /\ UNCHANGED <<chan, sendersOpen, sent, rxDone, running, confirmed>>

\* Mutant: the branch written `Ok(()) = shutdown_fused => break`: an
\* Err(Canceled) from a dropped sender does not match, the branch is
\* disabled and the loop goes on.
ShutdownBreaksOkOnly(s) == s = "sent"

\* `_ = shutdown_fused => break`: Ok(()) and Err(Canceled) both match.
ShutdownBreaks(s) == s \in {"sent", "dropped"}

\* The shutdown branch is ready and wins the select!: the loop breaks, or,
\* if the outcome does not match, the fused receiver is left terminated.
ShutdownBranch ==
    /\ running /\ shutdown \in {"sent", "dropped"}
    /\ running' = ~ShutdownBreaks(shutdown)
    /\ shutdown' = IF ShutdownBreaks(shutdown) THEN shutdown ELSE "taken"
    /\ UNCHANGED <<chan, sendersOpen, sent, rxDone, confirmed>>

\* The event branch wins with Some(milestone): confirm(milestone).
Confirm ==
    /\ running /\ chan # <<>>
    /\ confirmed' = Append(confirmed, Head(chan))
    /\ chan' = Tail(chan)
    /\ UNCHANGED <<sendersOpen, sent, rxDone, shutdown, running>>

\* The event branch wins with None: nothing is done, and the fused stream
\* is terminated.
EventNone ==
    /\ running /\ chan = <<>> /\ ~sendersOpen /\ ~rxDone
    /\ rxDone' = TRUE
    /\ UNCHANGED <<chan, sendersOpen, sent, shutdown, running, confirmed>>

Worker == ShutdownBranch \/ Confirm \/ EventNone

Next ==
    \/ Send \/ DropSenders \/ SendShutdown \/ DropShutdown
    \/ Worker

\* The executor polls the task whenever a branch is ready, and select!
\* picks among the ready branches at random, so a branch that stays ready
\* is not passed over for ever.  A ready shutdown receiver stays ready.
\* The senders are not fair.
Spec ==
    /\ Init /\ [][Next]_vars
    /\ WF_vars(ShutdownBranch) /\ WF_vars(Confirm) /\ WF_vars(EventNone)

-----------------------------------------------------------------------------
(* Properties.                                                             *)

\* Once shutdown is sent or its sender dropped, the worker's loop ends,
\* even while milestones keep arriving on the channel.
ShutdownStops == (shutdown # "open") ~> ~running

=============================================================================
