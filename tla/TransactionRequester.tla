------------------------- MODULE TransactionRequester -------------------------
(***************************************************************************)
(* TransactionRequesterWorker, bee-protocol/src/worker/requester/         *)
(* transaction.rs.  Its loop selects between popping the requester queue  *)
(* and its fused shutdown receiver.  A popped entry (hash, milestone      *)
(* index) is requested unless the tangle knows the hash as a solid entry  *)
(* point or a stored transaction; process_request is still a stub, so a   *)
(* request is recorded in the history `requested`.  Any outcome of the    *)
(* shutdown branch breaks the loop.                                        *)
(*                                                                         *)
(* The queue (Protocol's transaction_requester_worker) is a priority      *)
(* queue ordered by the entries' Ord whose pop waits while it is empty;   *)
(* its pushers, the tangle and the shutdown sender are not in this        *)
(* source and are the environment.  pop().fuse() builds a new future in   *)
(* every iteration, so the pop branch is ready whenever the queue holds   *)
(* an entry.                                                               *)
(***************************************************************************)
EXTENDS Naturals, Sequences

CONSTANTS
    Entries         \* [hash, index] records other workers may push

Hashes == {e.hash : e \in Entries}

VARIABLES
    queue,          \* the entries waiting in the priority queue
    pushed,         \* the entries pushed so far (each at most once)
    seps,           \* hashes the tangle holds as solid entry points
    txs,            \* hashes of the transactions the tangle stores
    shutdown,       \* "open", "sent" or "dropped"; "taken" once received
    running,
    popped,         \* the entries popped, in order
    requested       \* the entries process_request was called with

vars == <<queue, pushed, seps, txs, shutdown, running, popped, requested>>

Init ==
    /\ queue = {} /\ pushed = {}
    /\ seps = {} /\ txs = {}
    /\ shutdown = "open"
    /\ running = TRUE
    /\ popped = <<>> /\ requested = <<>>

\* Ord for TransactionRequesterWorkerEntry: by milestone index only.
EntryLess(e, f) == e.index < f.index

Push(e) ==
    /\ e \notin pushed
    /\ queue' = queue \cup {e}
    /\ pushed' = pushed \cup {e}
    /\ UNCHANGED <<seps, txs, shutdown, running, popped, requested>>

\* The tangle learns a hash as a solid entry point or a stored transaction.
AddSolidEntryPoint(h) ==
    /\ seps' = seps \cup {h}
    /\ UNCHANGED <<queue, pushed, txs, shutdown, running, popped, requested>>

AddTransaction(h) ==
    /\ txs' = txs \cup {h}
    /\ UNCHANGED <<queue, pushed, seps, shutdown, running, popped, requested>>

SendShutdown ==
    /\ shutdown = "open"
    /\ shutdown' = "sent"
    /\ UNCHANGED <<queue, pushed, seps, txs, running, popped, requested>>

DropShutdown ==
    /\ shutdown = "open"
    /\ shutdown' = "dropped"
    /\ UNCHANGED <<queue, pushed, seps, txs, running, popped, requested>>

\* process_request: a stub; the call is recorded.
ProcessRequest(e) == Append(requested, e)

\* The pop branch is ready: a fresh pop() future finds an entry.
PopReady == queue # {}

\* The pop branch wins with the greatest entry: it is requested unless
\* the tangle knows its hash.
Pop ==
    /\ running /\ PopReady
    /\ \E e \in queue :
          /\ \A f \in queue : ~EntryLess(e, f)
          /\ queue' = queue \ {e}
          /\ popped' = Append(popped, e)
          /\ requested' = IF e.hash \notin seps /\ e.hash \notin txs
                             THEN ProcessRequest(e) ELSE requested
    /\ UNCHANGED <<pushed, seps, txs, shutdown, running>>

\* Mutant: the branch written `Ok(()) = shutdown_fused => break`.
ShutdownBreaksOkOnly(s) == s = "sent"

\* `_ = shutdown_fused => break`: Ok(()) and Err(Canceled) both match.
ShutdownBreaks(s) == s \in {"sent", "dropped"}

\* The shutdown branch wins: the loop breaks, or, if the outcome does not
\* match, the fused receiver is left terminated.
ShutdownBranch ==
    /\ running /\ shutdown \in {"sent", "dropped"}
    /\ running' = ~ShutdownBreaks(shutdown)
    /\ shutdown' = IF ShutdownBreaks(shutdown) THEN shutdown ELSE "taken"
    /\ UNCHANGED <<queue, pushed, seps, txs, popped, requested>>

Worker == Pop \/ ShutdownBranch

Next ==
    \/ \E e \in Entries : Push(e)
    \/ \E h \in Hashes : AddSolidEntryPoint(h) \/ AddTransaction(h)
    \/ SendShutdown \/ DropShutdown
    \/ Worker

\* select! polls the ready branches in a random order, and a ready branch
\* stays ready until taken; the pushers, the tangle and the shutdown are
\* not fair.
Spec == Init /\ [][Next]_vars /\ WF_vars(Pop) /\ WF_vars(ShutdownBranch)

-----------------------------------------------------------------------------
(* Properties.                                                             *)

\* Once shutdown is sent or its sender dropped, the loop ends, however
\* many entries are waiting in the queue.
ShutdownStops == (shutdown # "open") ~> ~running

=============================================================================
