---------------------------- MODULE MCNodeWorkers ----------------------------
(***************************************************************************)
(* The node's background workers: the metrics logger (TpsWorker), the     *)
(* ledger confirmation worker (ConfirmationWorker) and the transaction    *)
(* requester (TransactionRequester); and the clock-driven autopeering    *)
(* salt (Salt).  They share no state (each has its                        *)
(* own shutdown oneshot and its own inputs), so a behaviour of one         *)
(* interleaved with the others' steps satisfies its properties exactly    *)
(* when it does alone.  Each behaviour here runs one of them, chosen by   *)
(* `which`, with its environment and the fairness of its specification;  *)
(* the others' variables keep their initial values.                       *)
(***************************************************************************)
EXTENDS Naturals, Sequences

VARIABLES
    which,
    metrics, last, tpsShutdown, tpsRunning,
    chan, sendersOpen, sent, rxDone, confShutdown, confRunning, confirmed,
    queue, pushed, seps, txs, reqShutdown, reqRunning, popped, requested,
    now, salt, outcome, panicked

tpsVars  == <<metrics, last, tpsShutdown, tpsRunning>>
confVars == <<chan, sendersOpen, sent, rxDone, confShutdown, confRunning, confirmed>>
reqVars  == <<queue, pushed, seps, txs, reqShutdown, reqRunning, popped, requested>>
saltVars == <<now, salt, outcome, panicked>>
vars == <<which, tpsVars, confVars, reqVars, saltVars>>

\* Three metrics bounded by 3.
Tps == INSTANCE TpsWorker
           WITH Counters <- {"incoming", "new", "outgoing"}, MaxCount <- 3,
                shutdown <- tpsShutdown, running <- tpsRunning

\* Four milestones.
Conf == INSTANCE ConfirmationWorker
           WITH Milestones <- <<1, 2, 3, 4>>,
                shutdown <- confShutdown, running <- confRunning

\* Two hashes, each pushed at two milestone indexes: entries tie at index
\* 1 and at index 2.
ReqEntries == {[hash |-> h, index |-> i] : h \in {"h1", "h2"}, i \in {1, 2}}

Req == INSTANCE TransactionRequester
           WITH Entries <- ReqEntries,
                shutdown <- reqShutdown, running <- reqRunning

\* Lifetimes of zero, one and three ticks on a clock of four: a salt
\* expires within the run, and one made late overflows the Instant.
SaltM == INSTANCE Salt WITH Lifetimes <- {0, 1, 3}, InstantMax <- 4, MaxTime <- 4

Init ==
    /\ which \in {"tps", "confirmation", "requester", "salt"}
    /\ Tps!Init /\ Conf!Init /\ Req!Init /\ SaltM!Init

\* A step of the chosen worker, or of its environment.
TpsStep(A)  == which = "tps" /\ A /\ UNCHANGED <<which, confVars, reqVars, saltVars>>
ConfStep(A) == which = "confirmation" /\ A /\ UNCHANGED <<which, tpsVars, reqVars, saltVars>>
ReqStep(A)  == which = "requester" /\ A /\ UNCHANGED <<which, tpsVars, confVars, saltVars>>
SaltStep(A) == which = "salt" /\ A /\ UNCHANGED <<which, tpsVars, confVars, reqVars>>

Next == TpsStep(Tps!Next) \/ ConfStep(Conf!Next) \/ ReqStep(Req!Next)
        \/ SaltStep(SaltM!Next)

Spec ==
    /\ Init /\ [][Next]_vars
    /\ WF_vars(TpsStep(Tps!Worker))
    /\ WF_vars(ConfStep(Conf!ShutdownBranch)) /\ WF_vars(ConfStep(Conf!Confirm))
    /\ WF_vars(ConfStep(Conf!EventNone))
    /\ WF_vars(ReqStep(Req!Pop)) /\ WF_vars(ReqStep(Req!ShutdownBranch))

\* TpsWorker's loop ends after a sent or dropped shutdown (see TpsWorker).
TpsShutdownStops == Tps!ShutdownStops

\* The confirmation worker's loop ends after a sent or dropped shutdown
\* (see ConfirmationWorker).
ConfirmationShutdownStops == Conf!ShutdownStops

\* The requester's loop ends after a sent or dropped shutdown (see
\* TransactionRequester).
RequesterShutdownStops == Req!ShutdownStops
=============================================================================
