------------------------------- MODULE TpsWorker -------------------------------
(***************************************************************************)
(* TpsWorker, bee-protocol/src/worker/tps.rs: once a second it reads the  *)
(* three transaction metrics, logs how much each grew since the last      *)
(* reading and remembers the readings.  Its loop races the one-second     *)
(* delay against the shutdown oneshot receiver: an Ok(()) from either     *)
(* side runs tps(), an Err breaks the loop.                               *)
(*                                                                         *)
(* The metrics are atomic counters incremented by other workers (not in   *)
(* this source; they only ever grow).  The oneshot receiver is "open"     *)
(* (nothing sent), "sent" (a value waits), "taken" (the value was         *)
(* received; polling again yields Err(Canceled)) or "dropped" (the sender *)
(* was dropped: Err(Canceled)).                                            *)
(***************************************************************************)
EXTENDS Naturals

CONSTANTS
    Counters,   \* incoming, new, outgoing
    MaxCount    \* bound on every metric

VARIABLES
    metrics,    \* the Protocol metrics, shared
    last,       \* the worker's fields incoming, new, outgoing
    shutdown,   \* the oneshot channel
    running     \* the run loop has not broken

vars == <<metrics, last, shutdown, running>>

Init ==
    /\ metrics = [c \in Counters |-> 0]
    /\ last = [c \in Counters |-> 0]          \* TpsWorker::new
    /\ shutdown = "open"
    /\ running = TRUE

\* A metric is incremented by another worker.
Increment(c) ==
    /\ metrics[c] < MaxCount
    /\ metrics' = [metrics EXCEPT ![c] = @ + 1]
    /\ UNCHANGED <<last, shutdown, running>>

SendShutdown ==
    /\ shutdown = "open"
    /\ shutdown' = "sent"
    /\ UNCHANGED <<metrics, last, running>>

DropSender ==
    /\ shutdown = "open"
    /\ shutdown' = "dropped"
    /\ UNCHANGED <<metrics, last, running>>

\* Mutant: the receiver fused, as the requester does: once its value is
\* taken it is terminated and stays pending, so only a dropped sender ends
\* the loop.
ShutdownErrFused == shutdown = "dropped"

\* Polling &mut shutdown yields Err(Canceled).
ShutdownErr == shutdown \in {"taken", "dropped"}

\* Polling &mut shutdown is ready.
ShutdownReady == shutdown = "sent" \/ ShutdownErr

\* tps(): the readings become the worker's fields.
Tps(m) == m

\* tps(): log metric - field for each metric (left out), then store the
\* readings.
LogAndStore == last' = Tps(metrics)

\* The delay completes before the shutdown receiver is ready: Ok(_) => tps().
Tick ==
    /\ running
    /\ ~ShutdownReady
    /\ LogAndStore
    /\ UNCHANGED <<metrics, shutdown, running>>

\* The shutdown value wins the race: Ok(()) from the receiver also matches
\* Ok(_) => tps(), and the receiver is left terminated.
ShutdownOk ==
    /\ running
    /\ shutdown = "sent"
    /\ LogAndStore
    /\ shutdown' = "taken"
    /\ UNCHANGED <<metrics, running>>

\* Err(_) => break.
Stop ==
    /\ running
    /\ ShutdownErr
    /\ running' = FALSE
    /\ UNCHANGED <<metrics, last, shutdown>>

Worker == Tick \/ ShutdownOk \/ Stop

Next ==
    \/ \E c \in Counters : Increment(c)
    \/ SendShutdown \/ DropSender
    \/ Worker

\* The executor keeps polling the task and the timer fires; the other
\* workers and the shutdown are not fair.
Spec == Init /\ [][Next]_vars /\ WF_vars(Worker)

-----------------------------------------------------------------------------
(* Properties.                                                             *)

\* Once shutdown is sent or its sender dropped, the run loop breaks: the
\* Ok(()) of a sent value is taken as a tick, and the next poll of the
\* receiver yields the Err that ends the loop.
ShutdownStops == (shutdown # "open") ~> ~running

=============================================================================
